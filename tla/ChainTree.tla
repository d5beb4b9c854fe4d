------------------------------ MODULE ChainTree ------------------------------
(***************************************************************************)
(* What a mergemock node promises about its chain, whoever feeds it: the   *)
(* database starts with one chain and grows only by a child of a block it  *)
(* already holds, one block at a time; nothing is ever forgotten; and the  *)
(* head moves only to the block that was just inserted, never back to one  *)
(* of its own ancestors.                                                   *)
(***************************************************************************)
EXTENDS MockChain

VARIABLES known, head

vars == <<known, head>>

Init ==
    /\ head \in known
    /\ known = Ancestry(head)

Insert(b) ==
    /\ b \in Block
    /\ Len(b) > 0
    /\ ParentOf(b) \in known
    /\ known' = known \cup {b}
    /\ head' \in {head, b}
    /\ IsAncestor(b, head) => head' = head

Next == \E b \in known' : Insert(b)

Spec == Init /\ [][Next]_vars

=============================================================================
