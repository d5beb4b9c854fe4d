------------------------------ MODULE MockChain ------------------------------
(***************************************************************************)
(* The block tree behind mergemock's MockChain (mock.go), shared by the    *)
(* consensus mock, the engine mock and the relay.                          *)
(*                                                                         *)
(* A block hash commits to the header and, through ParentHash, to the      *)
(* whole ancestry.  A block is therefore the sequence of the SEALS of its  *)
(* ancestry, oldest first: genesis is the empty sequence, two blocks are   *)
(* equal exactly when their hashes are, and the block number is the        *)
(* length.  A seal stands for the header fields that tell two children of  *)
(* one parent apart: the slot its timestamp encodes (SlotTimestamp is      *)
(* injective in the slot), who built it (coinbase and extra data) and,     *)
(* for a block the engine built, the request that asked for it (prevRandao *)
(* is drawn afresh for every request).                                     *)
(***************************************************************************)
EXTENDS Integers, Sequences, FiniteSetsExt

CONSTANT NoHash     \* common.Hash{} and the nil *Header: no block at all

Builders == {"pow", "external", "engine"}

Seal == [slot : Int, src : Builders, by : Nat]

Block == Seq(Seal)

\* No block hashes to the zero hash.
ASSUME NoHashAssumption == NoHash \notin Block

Genesis == <<>>

\* header.Number
Number(b) == Len(b)

\* The ancestor-or-self relation that following ParentHash yields.
IsAncestor(a, b) ==
    /\ Len(a) <= Len(b)
    /\ \A i \in 1..Len(a) : a[i] = b[i]

ParentOf(b) == SubSeq(b, 1, Len(b) - 1)

\* A database that holds a chain holds every block of it.
Ancestry(b) == {SubSeq(b, 1, n) : n \in 0..Len(b)}

(***************************************************************************)
(* core.BlockChain of go-ethereum, as mock.go uses it.                     *)
(***************************************************************************)

\* BlockChain.GetHeaderByNumber reads the canonical chain: the ancestors of
\* the head, and nothing above it.
GetHeaderByNumber(head, n) ==
    IF n <= Len(head) THEN SubSeq(head, 1, n) ELSE NoHash

\* A mutant: the longest chain wins, as before the merge.
InsertChainLongest(head, b) == IF Len(b) > Len(head) THEN b ELSE head

\* BlockChain.InsertChain of one block after the merge: a block of the
\* canonical chain is skipped, any other one becomes the head, whatever its
\* number is.
InsertChain(head, b) == IF IsAncestor(b, head) THEN head ELSE b

(***************************************************************************)
(* MockChain.AddNewBlock (with storeBlock) and MockChain.ProcessPayload:   *)
(* the child of a known parent, inserted.                                  *)
(***************************************************************************)
AddNewBlock(parent, seal) == Append(parent, seal)

=============================================================================
