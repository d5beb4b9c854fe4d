--------------------------- MODULE Lifecycle_proofs ---------------------------
(***************************************************************************)
(* Proofs about the life of a mergemock process: what exit code 0 means,   *)
(* and what the proof-of-work prologue hands over to the slot loop and to  *)
(* the client under test.                                                  *)
(***************************************************************************)
EXTENDS Lifecycle, MockChain_proofs

-----------------------------------------------------------------------------
(* Exit code 0 *)

\* A step of the prologue: it gets to the slot loop through the reopened chain, and
\* there only without a transition or with a terminal block.
LEMMA PrologueSteps ==
    ASSUME Prologue
    PROVE  /\ proc = "running"
           /\ proc' \in {"running", "exit1"}
           /\ step \notin {"off", "loop"}
           /\ step' \notin {"off", "open"} \/ step' = step
           /\ step' \in {"reopen", "loop"} =>
                 /\ head' = head
                 /\ \/ step \in {"reopen", "loop"}
                    \/ step = "open" /\ TerminalTotalDifficulty = 0
                    \/ TtdReached
<1> USE DEF At
<1>1. CASE OpenChain
  BY <1>1 DEF OpenChain, Goto, minerVars
<1>2. CASE DialPeer \/ (\E caps \in SUBSET PeerVersions : Handshake(caps))
  BY <1>2 DEF DialPeer, Handshake, Goto
<1>3. CASE PingInstead \/ (\E h \in PeerHeads, v \in PeerVersions : StatusExchange(h, v))
  BY <1>3 DEF StatusExchange, PingInstead, Peered, Goto
<1>4. CASE MineOnHead \/ MineOnFork
  BY <1>4 DEF MineOnHead, MineOnFork, MineBlock, Goto
<1>5. CASE Announce \/ MineOn
  BY <1>5 DEF Announce, MineOn, Goto
<1>6. CASE Transition \/ OpenPosChain
  BY <1>6 DEF Transition, OpenPosChain, Goto, minerVars
<1>7. CASE OpenFails \/ HandshakeFails \/ StatusFails \/ MineFails \/ AnnounceFails
           \/ OpenPosFails
  BY <1>7 DEF OpenFails, HandshakeFails, StatusFails, MineFails, AnnounceFails,
              OpenPosFails, Fail, minerVars
<1> QED BY <1>1, <1>2, <1>3, <1>4, <1>5, <1>6, <1>7 DEF Prologue

\* Every step of the process keeps what is known of its close.
LEMMA CloseStepKeeps ==
    ASSUME CloseInv, [Next]_allVars
    PROVE  CloseInv'
<1> USE DEF Running, TtdReached
<1>1. CASE Setup \/ RunFails \/ AskHelp
  BY <1>1 DEF Setup, RunFails, AskHelp, RunResult, CloseInv, prologueVars
<1>2. CASE Started
  BY <1>2 DEF Started, StartNode, CloseInv, prologueVars, minerVars
<1>3. CASE RunFatal \/ StartFailed
  BY <1>3 DEF RunFatal, StartFailed, Exit, CloseInv, lifecycleVars, minerVars
<1>4. CASE CancelStart \/ AwaitInterrupt \/ CallClose \/ Signal
  BY <1>4 DEF CancelStart, AwaitInterrupt, CallClose, Signal, CloseInv, prologueVars
<1>5. CASE HandOver
  BY <1>5 DEF HandOver, TakesClose, CloseInv, prologueVars
<1>6. CASE ExitClosed
  BY <1>6 DEF ExitClosed, Exit, CloseInv, minerVars
<1>7. CASE CloseOne
  BY <1>7 DEF CloseOne, CloseInv, prologueVars
<1>8. CASE SlotLoop
  BY <1>8 DEF SlotLoop, BoundReached, GoroutineExits, LoopPanics, AtSelect, InLoop, Exit,
              CloseInv, lifecycleVars, minerVars
<1>9. CASE Node
  <2>1. UNCHANGED lifecycleVars /\ Prologue
    BY <1>9 DEF Node
  <2>2. step \in {"reopen", "loop"} /\ EnodeGiven /\ TerminalTotalDifficulty # 0 => TtdReached
    BY DEF CloseInv
  <2>3. (step' \in {"reopen", "loop"} /\ EnodeGiven /\ TerminalTotalDifficulty # 0
            => TtdReached')
    BY <2>1, <2>2, PrologueSteps
  <2>4. /\ proc' # "exit0" /\ step \notin {"off", "loop"}
        /\ step' \notin {"off", "open"} \/ step' = step
    BY <2>1, PrologueSteps
  <2> QED BY <2>1, <2>3, <2>4 DEF CloseInv, lifecycleVars
<1>10. CASE Pings
  BY <1>10 DEF Pings, Ping, Pinged, KeepAliveEnds, KeepAliveIs, CloseInv, lifecycleVars,
               minerVars
<1>11. CASE UNCHANGED allVars
  BY <1>11 DEF allVars, prologueVars, lifecycleVars, CloseInv
<1> QED BY <1>1, <1>2, <1>3, <1>4, <1>5, <1>6, <1>7, <1>8, <1>9, <1>10, <1>11
        DEF Next, Command, Main

\* Exit code 0 means that the usage was asked for, or that a started command took
\* the token of Close or finished its test run, a consensus mock on a terminal
\* block: an interrupt neither cuts the prologue short nor closes anything under
\* it (main.go; the slot loop and Close of consensus.go).
THEOREM ExitIsClean == Spec => []CleanExit
<1>1. Init => CloseInv
  BY DEF Init, PrologueInit, CloseInv
<1>2. CloseInv /\ [Next]_allVars => CloseInv'
  BY CloseStepKeeps
<1>3. CloseInv => CleanExit
  BY DEF CloseInv, CleanExit
<1> QED BY <1>1, <1>2, <1>3, PTL DEF Spec

-----------------------------------------------------------------------------
(* The proof-of-work prologue *)

\* The steps of the prologue that leave the chain and the client's view of it
\* alone: the handshake, the last step before the slot loop, and the failures.
LEMMA QuietStepKeeps ==
    ASSUME PrologueInv,
           UNCHANGED <<minerVars, transition, announced, peerHead>>,
           \/ step' = step
           \/ /\ step \notin {"announce", "check"}
              /\ step' \notin {"announce", "check"}
              /\ step' \in {"off", "open", "dial", "hello", "status"} =>
                    step \in {"off", "open", "dial", "hello", "status"}
              /\ step \in {"reopen", "loop"} => step' \in {"reopen", "loop"}
    PROVE  PrologueInv'
<1>1. /\ known' = known /\ head' = head /\ block' = block
      /\ transition' = transition /\ announced' = announced /\ peerHead' = peerHead
  BY DEF minerVars
<1>2. KnownClosed'
  BY <1>1 DEF PrologueInv, ChainInv, KnownClosed
<1>3. StartInv'
  BY <1>1 DEF PrologueInv, StartInv
<1>4. MinerInv'
  BY <1>1 DEF PrologueInv, MinerInv, Fresh
<1>5. AnnouncedInv'
  BY <1>1 DEF PrologueInv, AnnouncedInv
<1>6. TerminalIsFirst'
  BY <1>1 DEF PrologueInv, TerminalIsFirst
<1> QED BY <1>1, <1>2, <1>3, <1>4, <1>5, <1>6 DEF PrologueInv, ChainInv

\* The client's status names the stored head, which is the head until a block is
\* mined.
LEMMA StatusExchangeKeeps ==
    ASSUME PrologueInv, NEW h, NEW v, StatusExchange(h, v)
    PROVE  PrologueInv'
<1>1. /\ known' = known /\ head' = head /\ block' = block
      /\ transition' = transition /\ announced' = announced
      /\ step = "status" /\ step' = "mine" /\ peerHead' = head
  BY DEF StatusExchange, StatusOk, Peered, Goto, At, minerVars
<1>2. head = StoredPow
  BY <1>1 DEF PrologueInv, StartInv
<1>3. KnownClosed'
  BY <1>1 DEF PrologueInv, ChainInv, KnownClosed
<1>4. StartInv'
  BY <1>1 DEF StartInv
<1>5. MinerInv'
  BY <1>1 DEF PrologueInv, MinerInv
<1>6. AnnouncedInv'
  BY <1>1, <1>2 DEF PrologueInv, AnnouncedInv
<1>7. TerminalIsFirst'
  BY <1>1 DEF PrologueInv, TerminalIsFirst
<1> QED BY <1>1, <1>3, <1>4, <1>5, <1>6, <1>7 DEF PrologueInv, ChainInv

\* A block mined on a known parent is the only one that can be terminal, and is
\* the head if it is.
LEMMA MineBlockKeeps ==
    ASSUME TdIsNat, PrologueInv, At("mine"), NEW p \in known, MineBlock(p)
    PROVE  PrologueInv'
<1>1. PICK n \in Nonces :
         /\ block' = Append(p, [slot |-> Number(p) + 1, src |-> "pow", by |-> n])
         /\ known' = known \cup {block'}
         /\ head' \in IF block' \in known THEN {head} ELSE Winners(block')
  BY DEF MineBlock
<1>2. /\ step = "mine" /\ step' = "announce" /\ transition' = transition
      /\ announced' = announced /\ peerHead' = peerHead
  BY DEF At, MineBlock, Goto, peerVars
<1> DEFINE s == [slot |-> Number(p) + 1, src |-> "pow", by |-> n]
           b == Append(p, s)
<1>3. known \subseteq Block /\ p \in Block /\ head \in Block /\ head \in known
  BY DEF PrologueInv, ChainInv
<1>4. s \in Seal
  <2>1. Len(p) \in Nat /\ n \in Nat
    BY <1>3, LenProperties, PrologueAssumption DEF Block
  <2> QED BY <2>1 DEF Seal, Builders, Number
<1> HIDE DEF s
<1>5. b \in Block /\ Len(b) > 0 /\ ParentOf(b) = p
  <2>1. Len(p) \in Nat
    BY <1>3, LenProperties DEF Block
  <2> QED BY <1>3, <1>4, <2>1, ChildOfBlock, ParentOfChild
<1>6. AncestryClosed(known \cup {b})
  <2>1. AncestryClosed(known)
    BY DEF PrologueInv, ChainInv, KnownClosed, AncestryClosed
  <2> QED BY <1>3, <1>4, <2>1, ChildKeepsAncestry
<1>7. block' = b /\ known' = known \cup {b}
  BY <1>1 DEF s
<1> HIDE DEF b
<1>8. head' \in {head, b} /\ head' \in IF b \in known THEN {head} ELSE Winners(b)
  BY <1>1, <1>7 DEF Winners
<1>9. /\ transition = 0
      /\ \A x \in known : Td(x) < TerminalTotalDifficulty
  BY <1>2 DEF PrologueInv, MinerInv
<1>10. p \in Ancestry(StoredPow) \cup announced
  BY <1>2 DEF PrologueInv, AnnouncedInv
<1>11. Td(b) < TerminalTotalDifficulty \/ head' = b
  <2>1. Td(b) \in Nat /\ TerminalTotalDifficulty \in Nat
    BY <1>5, PrologueAssumption DEF TdIsNat
  <2>2. CASE b \in known
    BY <1>9, <2>2
  <2>3. CASE b \notin known /\ ~(Td(b) < TerminalTotalDifficulty)
    <3>1. Td(b) >= TerminalTotalDifficulty
      BY <2>1, <2>3
    <3>2. Winners(b) = {b}
      BY <3>1 DEF Winners
    <3> QED BY <1>8, <2>3, <3>2
  <2> QED BY <2>2, <2>3
<1>12. KnownClosed'
  BY <1>6, <1>7 DEF KnownClosed, AncestryClosed
<1>13. StartInv'
  BY <1>2 DEF StartInv
<1>14. MinerInv'
  <2>1. Fresh(block)'
    BY <1>2, <1>5, <1>7, <1>9, <1>10 DEF Fresh
  <2>2. \A x \in known' : Td(x) < TerminalTotalDifficulty \/ (x = block' /\ head' = block')
    BY <1>7, <1>9, <1>11
  <2> QED BY <1>2, <1>9, <2>1, <2>2 DEF MinerInv
<1>15. AnnouncedInv'
  BY <1>2, <1>7 DEF PrologueInv, AnnouncedInv
<1>16. TerminalIsFirst'
  BY <1>2, <1>9 DEF TerminalIsFirst
<1> QED BY <1>2, <1>3, <1>5, <1>7, <1>8, <1>9, <1>12, <1>13, <1>14, <1>15, <1>16
        DEF PrologueInv, ChainInv

\* The parent of a faked reorg is an ancestor of the head, so it is known.
LEMMA ForkPointKnown ==
    ASSUME ChainInv, NEW depth \in 0..ReorgMaxDepth
    PROVE  GetHeaderByNumber(head, Max({Number(head) - depth, 0})) \in known
<1>1. head \in known /\ head \in Block /\ Len(head) \in Nat /\ depth \in Nat
  BY LenProperties, PrologueAssumption DEF ChainInv, Block
<1> DEFINE d == Number(head) - depth
           m == Max({d, 0})
<1>2. m \in 0..Len(head)
  <2>1. d \in Int /\ d <= Len(head)
    BY <1>1 DEF Number
  <2> HIDE DEF d
  <2>2. m \in {d, 0} /\ m >= 0
    <3>1. PICK z \in Int : z = 0
      OBVIOUS
    <3>2. Max({d, z}) \in {d, z} /\ Max({d, z}) >= z
      BY <2>1, MaxOfTwo
    <3>3. m = Max({d, z})
      BY <3>1
    <3> HIDE DEF m
    <3> QED BY <3>1, <3>2, <3>3
  <2> HIDE DEF m
  <2> QED BY <1>1, <2>1, <2>2
<1> HIDE DEF m
<1>3. SubSeq(head, 1, m) \in known
  BY <1>1, <1>2 DEF ChainInv, KnownClosed
<1>4. GetHeaderByNumber(head, m) \in known
  BY <1>1, <1>2, <1>3 DEF GetHeaderByNumber
<1> QED BY <1>4 DEF m

\* Announcing the block that was just mined keeps the announcements in order.
LEMMA AnnounceKeeps ==
    ASSUME PrologueInv, Announce
    PROVE  PrologueInv'
<1>1. /\ known' = known /\ head' = head /\ block' = block
      /\ transition' = transition /\ announced' = announced \cup {block}
      /\ step = "announce" /\ step' = "check" /\ peerHead' = peerHead
  BY DEF Announce, Goto, At, minerVars
<1>2. Fresh(block) /\ transition = 0
  BY <1>1 DEF PrologueInv, MinerInv
<1>3. KnownClosed'
  BY <1>1 DEF PrologueInv, ChainInv, KnownClosed
<1>4. StartInv'
  BY <1>1 DEF StartInv
<1>5. MinerInv'
  <2>1. Fresh(block)'
    BY <1>1, <1>2 DEF Fresh
  <2> QED BY <1>1, <2>1 DEF PrologueInv, MinerInv
<1>6. AnnouncedInv'
  BY <1>1, <1>2 DEF PrologueInv, AnnouncedInv, Fresh
<1>7. TerminalIsFirst'
  BY <1>1, <1>2 DEF TerminalIsFirst
<1> QED BY <1>1, <1>2, <1>3, <1>4, <1>5, <1>6, <1>7 DEF PrologueInv, ChainInv

\* Mining goes on only while no known block is terminal.
LEMMA MineOnKeeps ==
    ASSUME TdIsNat, PrologueInv, MineOn
    PROVE  PrologueInv'
<1>1. /\ known' = known /\ head' = head /\ block' = block
      /\ transition' = transition /\ announced' = announced
      /\ step = "check" /\ step' = "mine" /\ peerHead' = peerHead
      /\ ~(Td(head) >= TerminalTotalDifficulty)
  BY DEF MineOn, TtdReached, Goto, At, minerVars, peerVars
<1>2. Td(head) < TerminalTotalDifficulty
  BY <1>1, PrologueAssumption DEF PrologueInv, ChainInv, TdIsNat
<1>3. KnownClosed'
  BY <1>1 DEF PrologueInv, ChainInv, KnownClosed
<1>4. StartInv'
  BY <1>1 DEF StartInv
<1>5. MinerInv'
  BY <1>1, <1>2 DEF PrologueInv, MinerInv
<1>6. AnnouncedInv'
  BY <1>1 DEF PrologueInv, AnnouncedInv
<1>7. TerminalIsFirst'
  BY <1>1 DEF PrologueInv, TerminalIsFirst
<1> QED BY <1>1, <1>3, <1>4, <1>5, <1>6, <1>7 DEF PrologueInv, ChainInv

\* The block the prologue stops at is the one just mined, and was announced.
LEMMA TransitionKeeps ==
    ASSUME TdIsNat, StoredBelowTerminal, PrologueInv, Transition
    PROVE  PrologueInv'
<1>1. /\ known' = known /\ head' = head /\ block' = block
      /\ transition' = Number(head) /\ announced' = announced
      /\ step = "check" /\ step' = "reopen" /\ peerHead' = peerHead
      /\ Td(head) >= TerminalTotalDifficulty
  BY DEF Transition, TtdReached, Goto, At, minerVars, peerVars
<1>2. /\ head \in known
      /\ ~(Td(head) < TerminalTotalDifficulty)
  BY <1>1, PrologueAssumption DEF PrologueInv, ChainInv, TdIsNat
<1>3. head = block /\ Fresh(block)
  BY <1>1, <1>2 DEF PrologueInv, MinerInv
<1>4. head \in announced
  BY <1>1, <1>2 DEF PrologueInv, AnnouncedInv, StoredBelowTerminal
<1>5. KnownClosed'
  BY <1>1 DEF PrologueInv, ChainInv, KnownClosed
<1>6. StartInv'
  BY <1>1 DEF StartInv
<1>7. MinerInv'
  BY <1>1 DEF MinerInv
<1>8. AnnouncedInv'
  BY <1>1 DEF PrologueInv, AnnouncedInv
<1>9. TerminalIsFirst'
  BY <1>1, <1>3 DEF TerminalIsFirst, Fresh
<1> QED BY <1>1, <1>4, <1>5, <1>6, <1>7, <1>8, <1>9 DEF PrologueInv, ChainInv

\* Every step of the prologue keeps its invariant.
LEMMA PrologueKeeps ==
    ASSUME TdIsNat, StoredBelowTerminal, PrologueInv, Prologue
    PROVE  PrologueInv'
<1>1. CASE OpenChain \/ DialPeer \/ HandshakeFails \/ OpenFails \/ StatusFails
             \/ MineFails \/ AnnounceFails \/ OpenPosFails \/ OpenPosChain \/ PingInstead
             \/ \E caps \in SUBSET PeerVersions : Handshake(caps)
  <2>1. /\ UNCHANGED <<minerVars, transition, announced, peerHead>>
        /\ \/ step' = step
           \/ step = "open" /\ step' \in {"reopen", "dial"}
           \/ step = "dial" /\ step' = "hello"
           \/ step = "hello" /\ step' = "status"
           \/ step = "status" /\ step' = "mine"
           \/ step = "reopen" /\ step' = "loop"
    BY <1>1 DEF OpenChain, DialPeer, Handshake, HandshakeFails, OpenFails, StatusFails,
       MineFails, AnnounceFails, OpenPosFails, OpenPosChain, PingInstead, Peered, Fail,
       Goto, At, peerVars
  <2> QED BY <2>1, QuietStepKeeps
<1>2. CASE \E h \in PeerHeads, v \in PeerVersions : StatusExchange(h, v)
  BY <1>2, StatusExchangeKeeps
<1>3. CASE MineOnHead
  BY <1>3, MineBlockKeeps DEF MineOnHead, PrologueInv, ChainInv
<1>4. CASE MineOnFork
  <2>1. At("mine")
    BY <1>4 DEF MineOnFork
  <2>2. PICK depth \in 0..ReorgMaxDepth :
           MineBlock(GetHeaderByNumber(head, Max({Number(head) - depth, 0})))
    BY <1>4 DEF MineOnFork
  <2>3. GetHeaderByNumber(head, Max({Number(head) - depth, 0})) \in known
    BY ForkPointKnown DEF PrologueInv
  <2> QED BY <2>1, <2>2, <2>3, MineBlockKeeps
<1>5. CASE Announce
  BY <1>5, AnnounceKeeps
<1>6. CASE MineOn
  BY <1>6, MineOnKeeps
<1>7. CASE Transition
  BY <1>7, TransitionKeeps
<1> QED BY <1>1, <1>2, <1>3, <1>4, <1>5, <1>6, <1>7 DEF Prologue

\* The process starts on the stored chain, before the prologue.
LEMMA PrologueInitInvariant ==
    ASSUME StoredBelowTerminal, Init
    PROVE  PrologueInv
<1>1. /\ known = Ancestry(StoredPow) /\ head = StoredPow /\ step = "off"
      /\ transition = 0 /\ peerHead = NoHash /\ announced = {}
  BY DEF Init, PrologueInit
<1>2. /\ known \subseteq Block
      /\ AncestryClosed(known)
      /\ head \in known
  BY <1>1, AncestryIsClosed, PrologueAssumption
<1>3. KnownClosed
  BY <1>2 DEF KnownClosed, AncestryClosed
<1>4. StartInv
  BY <1>1 DEF StartInv
<1>5. MinerInv
  BY <1>1 DEF MinerInv, StoredBelowTerminal
<1>6. AnnouncedInv
  BY <1>1 DEF AnnouncedInv
<1>7. TerminalIsFirst
  BY <1>1 DEF TerminalIsFirst
<1> QED BY <1>1, <1>2, <1>3, <1>4, <1>5, <1>6, <1>7 DEF PrologueInv, ChainInv

\* Every step of the process keeps the invariant of the prologue.
LEMMA ProcessKeepsPrologue ==
    ASSUME TdIsNat, StoredBelowTerminal, PrologueInv, [Next]_allVars
    PROVE  PrologueInv'
<1>1. CASE Node
  BY <1>1, PrologueKeeps DEF Node
<1>2. CASE Started /\ StartNode
  <2>1. /\ UNCHANGED <<minerVars, transition, announced, peerHead>>
        /\ step = "off" /\ step' \in {"open", "reopen"}
    BY <1>2 DEF StartNode, peerVars
  <2> QED BY <2>1, QuietStepKeeps
<1>3. CASE ~Node /\ ~(Started /\ StartNode)
  <2>1. UNCHANGED <<minerVars, transition, announced, peerHead, step>>
    BY <1>3 DEF Next, Command, Main, Setup, Started, RunFails, RunFatal, CancelStart,
       AwaitInterrupt, StartFailed, CallClose, HandOver, ExitClosed, Signal, CloseOne,
       AskHelp, SlotLoop, BoundReached, GoroutineExits, LoopPanics, Pings, Ping, Pinged,
       KeepAliveEnds, KeepAliveIs, Exit, allVars, prologueVars, minerVars, peerVars
  <2> QED BY <2>1, QuietStepKeeps
<1> QED BY <1>1, <1>2, <1>3

\* The inductive invariant of the prologue, for a mock that is started on a
\* database below the terminal total difficulty.
THEOREM PrologueInvariance ==
    ASSUME TdIsNat, StoredBelowTerminal
    PROVE  Spec => []PrologueInv
<1>1. Init => PrologueInv
  BY PrologueInitInvariant
<1>2. PrologueInv /\ [Next]_allVars => PrologueInv'
  BY ProcessKeepsPrologue
<1> QED BY <1>1, <1>2, PTL DEF Spec

\* However the reorgs and the coins fall, the slot loop starts on a terminal block
\* whose parent is not one (consensus.go, proofOfWorkPrelogue).
THEOREM StopsAtFirstTerminal ==
    ASSUME TdIsNat, StoredBelowTerminal
    PROVE  Spec => []TerminalIsFirst
<1>1. PrologueInv => TerminalIsFirst
  BY DEF PrologueInv
<1> QED BY <1>1, PrologueInvariance, PTL

\* A client that answered the status exchange is announced no block whose parent it
\* does not have, and is announced the terminal block (p2p/server.go, mock.go).
THEOREM ClientCanFollow ==
    ASSUME TdIsNat, StoredBelowTerminal
    PROVE  Spec => []PeerCanFollow
<1>1. PrologueInv => PeerCanFollow
  BY DEF PrologueInv, AnnouncedInv, PeerCanFollow
<1> QED BY <1>1, PrologueInvariance, PTL

-----------------------------------------------------------------------------
(* The chain of the miner *)

\* A mined block is an insertion into the abstract tree, or known already.
LEMMA MineBlockInserts ==
    ASSUME ChainInv, NEW p \in known, MineBlock(p)
    PROVE  Tree!Next \/ UNCHANGED <<known, head>>
<1>1. PICK n \in Nonces :
         /\ block' = Append(p, [slot |-> Number(p) + 1, src |-> "pow", by |-> n])
         /\ known' = known \cup {block'}
         /\ head' \in IF block' \in known THEN {head} ELSE Winners(block')
  BY DEF MineBlock
<1> DEFINE s == [slot |-> Number(p) + 1, src |-> "pow", by |-> n]
           b == Append(p, s)
<1>2. p \in Block /\ head \in known /\ head \in Block /\ Len(p) \in Nat
  BY LenProperties DEF ChainInv, Block
<1>3. s \in Seal
  BY <1>2, PrologueAssumption DEF Seal, Builders, Number
<1> HIDE DEF s
<1>4. b \in Block /\ Len(b) > 0 /\ ParentOf(b) = p
  BY <1>2, <1>3, ChildOfBlock, ParentOfChild
<1>5. /\ known' = known \cup {b}
      /\ head' \in IF b \in known THEN {head} ELSE Winners(b)
  BY <1>1 DEF s
<1> HIDE DEF b
<1>6. CASE b \in known
  BY <1>5, <1>6
<1>7. CASE b \notin known
  <2>1. ~IsAncestor(b, head)
    <3> SUFFICES ASSUME IsAncestor(b, head) PROVE b \in known
      BY <1>7
    <3>1. Len(b) \in 0..Len(head) /\ SubSeq(head, 1, Len(b)) = b
      BY <1>2, <1>4, AncestorIsPrefix
    <3>2. SubSeq(head, 1, Len(b)) \in known
      BY <1>2, <3>1 DEF ChainInv, KnownClosed
    <3> QED BY <3>1, <3>2
  <2>2. head' \in {head, b}
    BY <1>5, <1>7 DEF Winners
  <2>3. b \in Tree!Block /\ Tree!ParentOf(b) \in known /\ ~Tree!IsAncestor(b, head)
    BY <1>4, <2>1 DEF Block, Seal, Builders, ParentOf, IsAncestor, Tree!Block, Tree!Seal,
                      Tree!Builders, Tree!ParentOf, Tree!IsAncestor
  <2>4. Tree!Insert(b)
    BY <1>4, <1>5, <2>2, <2>3 DEF Tree!Insert
  <2> QED BY <1>5, <2>4 DEF Tree!Next
<1> QED BY <1>6, <1>7

\* What the process does to the miner's chain: it mines on a known block, or nothing.
LEMMA ChainSteps ==
    ASSUME ChainInv, [Next]_allVars
    PROVE  UNCHANGED <<known, head>> \/ \E p \in known : MineBlock(p)
<1>1. CASE MineOnHead
  BY <1>1 DEF MineOnHead, ChainInv
<1>2. CASE MineOnFork
  <2>1. PICK depth \in 0..ReorgMaxDepth :
           MineBlock(GetHeaderByNumber(head, Max({Number(head) - depth, 0})))
    BY <1>2 DEF MineOnFork
  <2> QED BY <2>1, ForkPointKnown
<1>3. CASE Prologue /\ ~MineOnHead /\ ~MineOnFork
  BY <1>3 DEF Prologue, OpenChain, DialPeer, OpenFails, Handshake, HandshakeFails,
     StatusExchange, PingInstead, StatusFails, MineFails, Announce, AnnounceFails, MineOn,
     Transition, OpenPosChain, OpenPosFails, Fail, Peered, minerVars
<1>4. CASE ~Prologue
  BY <1>4 DEF Next, Command, Main, Node, Setup, Started, StartNode, RunFails, RunFatal,
     CancelStart, AwaitInterrupt, StartFailed, CallClose, HandOver, ExitClosed, Signal,
     CloseOne, AskHelp, SlotLoop, BoundReached, GoroutineExits, LoopPanics, Pings, Ping,
     Pinged, KeepAliveEnds, KeepAliveIs, Exit, allVars, prologueVars, minerVars
<1> QED BY <1>1, <1>2, <1>3, <1>4

\* A mined block leaves the database closed under ancestry.
LEMMA MineBlockKeepsChain ==
    ASSUME ChainInv, NEW p \in known, MineBlock(p)
    PROVE  ChainInv'
<1>1. PICK n \in Nonces :
         /\ block' = Append(p, [slot |-> Number(p) + 1, src |-> "pow", by |-> n])
         /\ known' = known \cup {block'}
         /\ head' \in IF block' \in known THEN {head} ELSE Winners(block')
  BY DEF MineBlock
<1> DEFINE s == [slot |-> Number(p) + 1, src |-> "pow", by |-> n]
<1>2. p \in Block /\ known \subseteq Block /\ Len(p) \in Nat
  BY LenProperties DEF ChainInv, Block
<1>3. s \in Seal
  BY <1>2, PrologueAssumption DEF Seal, Builders, Number
<1>4. known' = known \cup {Append(p, s)} /\ head' \in known'
  BY <1>1 DEF Winners, ChainInv
<1> HIDE DEF s
<1>5. Append(p, s) \in Block /\ AncestryClosed(known \cup {Append(p, s)})
  <2>1. AncestryClosed(known)
    BY DEF ChainInv, KnownClosed, AncestryClosed
  <2> QED BY <1>2, <1>3, <2>1, ChildOfBlock, ChildKeepsAncestry
<1>6. KnownClosed'
  BY <1>4, <1>5 DEF KnownClosed, AncestryClosed
<1> QED BY <1>2, <1>4, <1>5, <1>6 DEF ChainInv

\* However the miner forks and the coins fall, its chain implements the abstract
\* tree, as the chain of the slot loop does that goes on from it (mock.go).
THEOREM MinerRefinement == Spec => ImplementsChainTree
<1>1. Init => ChainInv /\ Tree!Init
  <2> SUFFICES ASSUME Init PROVE ChainInv /\ Tree!Init
    OBVIOUS
  <2>1. /\ head \in Ancestry(head) /\ known = Ancestry(head)
        /\ known \subseteq Block /\ AncestryClosed(known)
    BY AncestryIsClosed, PrologueAssumption DEF Init, PrologueInit
  <2>2. ChainInv
    BY <2>1 DEF ChainInv, KnownClosed, AncestryClosed
  <2> QED BY <2>1, <2>2 DEF Tree!Init, Ancestry, Tree!Ancestry
<1>2. ChainInv /\ [Next]_allVars => ChainInv' /\ [Tree!Next]_(Tree!vars)
  <2> SUFFICES ASSUME ChainInv, [Next]_allVars
               PROVE  ChainInv' /\ (Tree!Next \/ UNCHANGED <<known, head>>)
    BY DEF Tree!vars
  <2>1. CASE UNCHANGED <<known, head>>
    BY <2>1 DEF ChainInv, KnownClosed
  <2>2. ASSUME NEW p \in known, MineBlock(p)
        PROVE  ChainInv' /\ (Tree!Next \/ UNCHANGED <<known, head>>)
    BY <2>2, MineBlockKeepsChain, MineBlockInserts
  <2> QED BY <2>1, <2>2, ChainSteps
<1> QED BY <1>1, <1>2, PTL DEF Spec, ImplementsChainTree, Tree!Spec

=============================================================================
