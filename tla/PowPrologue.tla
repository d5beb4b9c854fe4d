----------------------------- MODULE PowPrologue -----------------------------
(***************************************************************************)
(* The proof-of-work prologue of the consensus mock (consensus.go,         *)
(* proofOfWorkPrelogue): it dials the client under test (p2p/server.go),   *)
(* peers with it, and mines and announces blocks (mock.go, MineBlock)      *)
(* until the terminal total difficulty is reached, faking reorgs on the    *)
(* way.  The slot loop then goes on from the block it returns.             *)
(*                                                                         *)
(* MineBlock dates a block one second after its parent, so its difficulty  *)
(* is a function of its number.  The nonce makes siblings different; a     *)
(* few nonces stand for all of them.                                       *)
(***************************************************************************)
EXTENDS MockChain

CONSTANTS
    StoredPow,      \* the canonical chain in the database
    TerminalTotalDifficulty,
    GenesisDifficulty,
    DifficultyOf(_),\* difficulty of the blocks with a number, as ethash computes it
    EnodeGiven,     \* Enode # "": there is a client to peer with
    ReorgMaxDepth,
    ReorgFaked,     \* ReorgFreq > 0
    PeerHeads,      \* heads the client may report
    PeerVersions,   \* versions of the eth protocol there are
    Nonces          \* bound: siblings that are told apart

OurVersion == 66    \* ourHighestProtoVersion

ASSUME PrologueAssumption ==
    /\ StoredPow \in Block
    /\ {TerminalTotalDifficulty, GenesisDifficulty, ReorgMaxDepth} \subseteq Nat
    /\ {EnodeGiven, ReorgFaked} \subseteq BOOLEAN
    /\ PeerHeads \subseteq Block
    /\ PeerVersions \subseteq Nat \ {0}
    /\ Nonces \subseteq Nat

VARIABLES
    proc,           \* the process: running, or its exit code
    step,           \* where RunNode is: off, in the prologue, or in the slot loop
    known,          \* blocks in the database
    head,           \* CurrentHeader()
    block,          \* the block just mined
    transition,     \* transitionBlock
    version,        \* negotiatedProtoVersion
    peerHead,       \* the head in the client's status message, if there was one
    announced,      \* blocks written to the client
    keepAlive       \* the goroutine that pings the client: off, select, ping

prologueVars == <<proc, step, known, head, block, transition, version,
                  peerHead, announced, keepAlive>>

minerVars == <<known, head, block>>
peerVars == <<version, peerHead, announced, keepAlive>>

PrologueInit ==
    /\ proc = "running"
    /\ step = "off"
    /\ known = Ancestry(StoredPow)
    /\ head = StoredPow
    /\ block = NoHash
    /\ transition = 0
    /\ version = 0
    /\ peerHead = NoHash
    /\ announced = {}
    /\ keepAlive = "off"

At(s) == proc = "running" /\ step = s

\* An error: RunNode logs it and calls os.Exit(1).
Fail ==
    /\ proc' = "exit1"
    /\ UNCHANGED <<step, minerVars, transition, peerVars>>

Goto(s) == step' = s /\ UNCHANGED proc

-----------------------------------------------------------------------------
(* Getting there *)

\* GetTd: the sum of the difficulties of the ancestry.
Td(b) == GenesisDifficulty + MapThenSumSet(DifficultyOf, 1..Number(b))

\* go c.RunNode(), which skips the prologue without a client.
StartNode ==
    /\ step = "off"
    /\ step' = IF EnodeGiven THEN "open" ELSE "reopen"
    /\ UNCHANGED <<proc, minerVars, transition, peerVars>>

\* A terminal total difficulty of zero: already transitioned.
OpenChain ==
    /\ At("open")
    /\ Goto(IF TerminalTotalDifficulty = 0 THEN "reopen" ELSE "dial")
    /\ UNCHANGED <<minerVars, transition, peerVars>>

\* Dial: the TCP connection and its encryption.
DialPeer ==
    /\ At("dial")
    /\ Goto("hello")
    /\ UNCHANGED <<minerVars, transition, peerVars>>

\* The chain or the enode is bad, or the client does not answer.
OpenFails == (At("open") \/ At("dial")) /\ Fail

\* negotiateEthProtocol: the highest version both have, 0 if there is none.
Negotiate(caps) == Max({v \in caps : v <= OurVersion} \cup {0})

\* handshake: the client's hello with its capabilities, within ten seconds.
Handshake(caps) ==
    /\ At("hello")
    /\ Negotiate(caps) # 0
    /\ version' = Negotiate(caps)
    /\ Goto("status")
    /\ UNCHANGED <<minerVars, transition, peerHead, announced, keepAlive>>

\* No common version, another message, or none.
HandshakeFails == At("hello") /\ Fail

\* What statusExchange checks: the head (and with it the total difficulty) and
\* the highest version, whatever was negotiated.
StatusOk(h, v) == h = head /\ v = OurVersion

\* Peered: the goroutine that keeps the connection alive starts.
Peered ==
    /\ keepAlive' = "select"
    /\ Goto("mine")
    /\ UNCHANGED <<minerVars, transition, version, announced>>

\* The client's status, which is answered with our own.
StatusExchange(h, v) ==
    /\ At("status")
    /\ StatusOk(h, v)
    /\ peerHead' = h
    /\ Peered

\* A ping instead of a status ends the exchange without an error.
PingInstead == At("status") /\ Peered /\ UNCHANGED peerHead

\* Another status, a disconnect, any other message, or a broken connection.
StatusFails == At("status") /\ Fail

-----------------------------------------------------------------------------
(* Mining *)

\* InsertChain before the merge: the greater total difficulty wins, a tie is
\* decided by a coin; a block that reaches the terminal difficulty always wins.
Winners(b) ==
    IF Td(b) > Td(head) \/ Td(b) >= TerminalTotalDifficulty THEN {b}
    ELSE IF Td(b) = Td(head) THEN {head, b}
    ELSE {head}

\* A mutant: a block that wins becomes the head without reaching the database.
MineBlockUnstored(parent) ==
    \E n \in Nonces :
        /\ block' = Append(parent, [slot |-> Number(parent) + 1, src |-> "pow", by |-> n])
        /\ known' = known
        /\ head' \in IF block' \in known THEN {head} ELSE Winners(block')
        /\ Goto("announce")
        /\ UNCHANGED <<transition, peerVars>>

MineBlock(parent) ==
    \E n \in Nonces :
        /\ block' = Append(parent, [slot |-> Number(parent) + 1, src |-> "pow", by |-> n])
        /\ known' = known \cup {block'}
        /\ head' \in IF block' \in known THEN {head} ELSE Winners(block')
        /\ Goto("announce")
        /\ UNCHANGED <<transition, peerVars>>

MineOnHead == At("mine") /\ MineBlock(head)

\* calcReorgTarget with 0 as the lowest number.
MineOnFork ==
    /\ At("mine")
    /\ ReorgFaked
    /\ \E depth \in 0..ReorgMaxDepth :
          MineBlock(GetHeaderByNumber(head, Max({Number(head) - depth, 0})))

\* Preparing, sealing or inserting the block fails.
MineFails == At("mine") /\ Fail

\* A mutant: only blocks with a new number are announced.
AnnounceHigher ==
    /\ At("announce")
    /\ announced' = IF \A b \in announced : Number(b) < Number(block)
                    THEN announced \cup {block} ELSE announced
    /\ Goto("check")
    /\ UNCHANGED <<minerVars, transition, version, peerHead, keepAlive>>

\* Every block is announced, canonical or not.
Announce ==
    /\ At("announce")
    /\ announced' = announced \cup {block}
    /\ Goto("check")
    /\ UNCHANGED <<minerVars, transition, version, peerHead, keepAlive>>

AnnounceFails == At("announce") /\ Fail

\* A mutant: the terminal difficulty must be exceeded.
TtdExceeded == Td(head) > TerminalTotalDifficulty

TtdReached == Td(head) >= TerminalTotalDifficulty

MineOn ==
    /\ At("check")
    /\ ~TtdReached
    /\ Goto("mine")
    /\ UNCHANGED <<minerVars, transition, peerVars>>

\* The prologue returns: the deferred cancelPeer ends the context of the pings.
Transition ==
    /\ At("check")
    /\ TtdReached
    /\ transition' = Number(head)
    /\ Goto("reopen")
    /\ UNCHANGED <<minerVars, peerVars>>

\* The chain is opened again over the same database, now for proof of stake.
OpenPosChain ==
    /\ At("reopen")
    /\ Goto("loop")
    /\ UNCHANGED <<minerVars, transition, peerVars>>

OpenPosFails == At("reopen") /\ Fail

-----------------------------------------------------------------------------

Prologue ==
    \/ OpenChain
    \/ DialPeer
    \/ OpenFails
    \/ \E caps \in SUBSET PeerVersions : Handshake(caps)
    \/ HandshakeFails
    \/ \E h \in PeerHeads, v \in PeerVersions : StatusExchange(h, v)
    \/ PingInstead
    \/ StatusFails
    \/ MineOnHead
    \/ MineOnFork
    \/ MineFails
    \/ Announce
    \/ AnnounceFails
    \/ MineOn
    \/ Transition
    \/ OpenPosChain
    \/ OpenPosFails

-----------------------------------------------------------------------------
(* Properties *)

\* However the reorgs and the coins fall, the prologue stops at the first block
\* that reaches the terminal total difficulty: the slot loop starts on a terminal
\* block, whose parent is not one.
TerminalIsFirst ==
    transition # 0 =>
        /\ transition = Number(head)
        /\ Td(head) >= TerminalTotalDifficulty
        /\ Td(ParentOf(head)) < TerminalTotalDifficulty

\* The client under test can follow: it is told of no block whose parent it does
\* not have, and knows the terminal block in the end.  A client that pinged first
\* was never asked for its head, and may not have the chain the blocks are on.
PeerCanFollow ==
    peerHead # NoHash =>
        /\ \A b \in announced : ParentOf(b) \in Ancestry(peerHead) \cup announced
        /\ transition # 0 => head \in announced

\* The database of the miner is an abstract tree, as it is after the merge: faked
\* reorgs and coins never lose a block, and never take the head back to an ancestor.
Tree == INSTANCE ChainTree
ImplementsChainTree == Tree!Spec

-----------------------------------------------------------------------------
(* The inductive invariant behind these properties.  It supposes that the   *)
(* database is below the terminal total difficulty: a mock that is started  *)
(* beyond it mines on, see TerminalIsFirst.                                 *)

\* Total difficulties are numbers: of the difficulties that is an assumption, of
\* their sum a fact about folds, which is an induction over the set.
TdIsNat == \A b \in Block : Td(b) \in Nat

StoredBelowTerminal == \A b \in Ancestry(StoredPow) : Td(b) < TerminalTotalDifficulty

\* A database that holds a block holds its ancestry.
KnownClosed == \A b \in known : \A n \in 0..Len(b) : SubSeq(b, 1, n) \in known

ChainInv ==
    /\ known \subseteq Block
    /\ head \in known
    /\ KnownClosed

\* Before the first block is mined the chain is the stored one.
StartInv ==
    step \in {"off", "open", "dial", "hello", "status"} =>
        /\ known = Ancestry(StoredPow)
        /\ head = StoredPow
        /\ peerHead = NoHash

\* A block that was just mined: a child of a block that is not terminal.
Fresh(b) ==
    /\ b \in known
    /\ Len(b) > 0
    /\ ParentOf(b) \in Ancestry(StoredPow) \cup announced
    /\ Td(ParentOf(b)) < TerminalTotalDifficulty

\* No block is terminal but the one just mined, and that one is the head.
MinerInv ==
    /\ step \in {"announce", "check"} => Fresh(block)
    /\ step \notin {"reopen", "loop"} =>
          /\ transition = 0
          /\ \A b \in known : \/ Td(b) < TerminalTotalDifficulty
                              \/ step \in {"announce", "check"} /\ b = block /\ head = block

\* What is not of the stored chain was announced, parents first.
AnnouncedInv ==
    /\ peerHead \in {StoredPow, NoHash}
    /\ \A b \in known : \/ b \in Ancestry(StoredPow) \cup announced
                        \/ step = "announce" /\ b = block
    /\ \A b \in announced : ParentOf(b) \in Ancestry(StoredPow) \cup announced

PrologueInv ==
    /\ ChainInv
    /\ StartInv
    /\ MinerInv
    /\ AnnouncedInv
    /\ TerminalIsFirst
    /\ transition # 0 => head \in announced

=============================================================================
