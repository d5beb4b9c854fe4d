------------------------- MODULE ConsensusNode_proofs -------------------------
(***************************************************************************)
(* For every value of the constants: ConsensusNode is type correct, never  *)
(* undoes the merge, and implements the abstract block tree.  All three    *)
(* follow from the inductive invariant IInv.  Then the consensus mock and  *)
(* time: slots grow along every chain, and against an engine that answers  *)
(* within the slot the loop and its goroutines take turns, so that one     *)
(* payload id at most is pending and, without reorgs, finality is          *)
(* consistent.                                                             *)
(***************************************************************************)
EXTENDS ConsensusNode, MockChain_proofs

\* The terminal block is a block, an ancestor of the stored chain.
LEMMA TerminalBlock ==
    /\ Terminal \in Block
    /\ Len(Terminal) = TransitionBlock
    /\ IsAncestor(Terminal, StoredChain)
<1>1. StoredChain \in Block /\ TransitionBlock \in 0..Len(StoredChain)
  BY ConstantsAssumption
<1> QED BY <1>1, PrefixOfBlock, PrefixIsAncestor DEF Terminal

\* KnownClosed is the closure that the block lemmas speak of.
LEMMA KnownClosedMeans == KnownClosed <=> AncestryClosed(known)
BY DEF KnownClosed, AncestryClosed

\* An accepted block keeps everything the invariant says of the chain, when its
\* parent is known and the terminal block is in its ancestry.
LEMMA StoreBlockKeeps ==
    ASSUME IInv, NEW b \in Block, Len(b) > 0, ParentOf(b) \in known,
           IsAncestor(Terminal, b), StoreBlock(b)
    PROVE  /\ known' \subseteq Block
           /\ known \subseteq known'
           /\ b \in known'
           /\ KnownClosed'
           /\ TransitionBuried'
           /\ head' \in known'
           /\ IsAncestor(Terminal, head')
<1>1. known \subseteq Block /\ head \in known /\ IsAncestor(Terminal, head)
  BY DEF IInv, TypeOK, LoopInv, Merged
<1>2. known' = known \cup {b} /\ head' \in {head, b}
  BY DEF StoreBlock, InsertChain
<1>3. AncestryClosed(known \cup {b})
  <2>1. AncestryClosed(known)
    BY KnownClosedMeans DEF IInv
  <2>2. b[Len(b)] \in Seal /\ b = Append(ParentOf(b), b[Len(b)])
    BY BlockIsChild
  <2> DEFINE q == ParentOf(b)
             s == b[Len(b)]
  <2> HIDE DEF q, s
  <2>3. q \in known /\ s \in Seal /\ b = Append(q, s)
    BY <2>2 DEF q, s
  <2>4. AncestryClosed(known \cup {Append(q, s)})
    BY <1>1, <2>1, <2>3, ChildKeepsAncestry
  <2> QED BY <2>3, <2>4
<1>4. KnownClosed'
  BY <1>2, <1>3 DEF KnownClosed, AncestryClosed
<1>5. TransitionBuried'
  <2>1. TransitionBuried BY DEF IInv
  <2> QED BY <1>2, <2>1 DEF TransitionBuried, Terminal
<1> QED BY <1>1, <1>2, <1>4, <1>5 DEF Terminal

\* RunNode starts on a stored chain, with no goroutine and nothing finalized.
LEMMA InitInvariant == Init => IInv
<1> SUFFICES ASSUME Init PROVE IInv
  OBVIOUS
<1>1. StoredChain \in Block /\ MaxTicks \in Nat /\ StartSlot \in Int
  BY ConstantsAssumption
<1>2. /\ known \subseteq Block
      /\ AncestryClosed(known)
      /\ head \in known
      /\ \A a \in known : IsAncestor(a, StoredChain)
  BY <1>1, AncestryIsClosed DEF Init
<1>3. NoTask \in Task
  BY <1>1 DEF NoTask, Task, TaskPoints, BlockOrNone
<1>4. TypeOK
  BY <1>1, <1>2, <1>3 DEF Init, TypeOK, Ticks
<1>5. KnownClosed /\ TransitionBuried
  BY <1>2, KnownClosedMeans DEF TransitionBuried
<1>6. LoopInv
  BY <1>1, <1>2, TerminalBlock DEF Init, LoopInv, Merged, Ticks
<1>7. TaskInv
  BY <1>1 DEF Init, TaskInv, NoTask, Ticks
<1> QED BY <1>4, <1>5, <1>6, <1>7 DEF IInv

-----------------------------------------------------------------------------
(* The goroutines *)

\* A goroutine moves on and nothing else changes, except that the process may end.
LEMMA GotoKeeps ==
    ASSUME IInv, NEW t \in Ticks, NEW p \in {"forkchoice", "execute", "done"},
           task[t].pc # "none",
           p = "forkchoice" => task[t].pc = "newPayload",
           Goto(t, p), proc' \in {proc, "exit1"},
           UNCHANGED <<pc, tick, slot, parent, chainVars, finalityVars, sendq>>
    PROVE  IInv'
<1> USE DEF chainVars, finalityVars
<1>1. TypeOK /\ task \in [Ticks -> Task]
  BY DEF IInv, TypeOK
<1>2. task' \in [Ticks -> Task]
  BY <1>1 DEF Goto, Task, TaskPoints
<1>3. \A u \in Ticks : /\ task'[u].block = task[u].block
                       /\ task'[u].id = task[u].id
                       /\ task'[u].pc = IF u = t THEN p ELSE task[u].pc
                       /\ u # t => task'[u] = task[u]
  BY <1>1 DEF Goto, Task
<1>4. TypeOK'
  BY <1>1, <1>2 DEF TypeOK
<1>5. KnownClosed' /\ TransitionBuried'
  BY DEF IInv, KnownClosed, TransitionBuried, Terminal
<1>6. LoopInv'
  <2>1. LoopInv BY DEF IInv
  <2>2. task[t] # NoTask BY DEF NoTask
  <2> QED BY <2>1, <2>2, <1>3 DEF LoopInv, Merged, Terminal
<1>7. TaskInv'
  <2>1. TaskInv BY DEF IInv
  <2>2. Prepared' = Prepared BY <1>3 DEF Prepared
  <2> QED BY <2>1, <2>2, <1>3 DEF TaskInv, Merged, Terminal
<1> QED BY <1>4, <1>5, <1>6, <1>7 DEF IInv

\* An answered forkchoice update puts an id into the channel whose block is merged.
LEMMA ForkchoicePreparesKeeps ==
    ASSUME IInv, NEW t \in Ticks, ForkchoicePrepares(t)
    PROVE  IInv'
<1> USE DEF chainVars, finalityVars
<1>1. TypeOK /\ task \in [Ticks -> Task] /\ sendq \in Seq(Ticks)
  BY DEF IInv, TypeOK
<1>2. t \in 0..MaxTicks
  BY ConstantsAssumption DEF Ticks
<1>3. task' \in [Ticks -> Task]
  BY <1>1, <1>2 DEF ForkchoicePrepares, Task, TaskPoints
<1>4. \A u \in Ticks : /\ task'[u].block = task[u].block
                       /\ task'[u].id = IF u = t THEN t ELSE task[u].id
                       /\ task'[u].pc = IF u = t THEN "send" ELSE task[u].pc
                       /\ u # t => task'[u] = task[u]
  BY <1>1 DEF ForkchoicePrepares, Task
<1>5. /\ sendq' \in Seq(Ticks)
      /\ Len(sendq') = Len(sendq) + 1
      /\ \A k \in 1..Len(sendq) : sendq'[k] = sendq[k]
      /\ sendq'[Len(sendq) + 1] = t
      /\ Len(sendq) \in Nat
  BY <1>1, AppendProperties, LenProperties DEF ForkchoicePrepares
<1>6. TypeOK'
  BY <1>1, <1>3, <1>5 DEF TypeOK, ForkchoicePrepares
<1>7. KnownClosed' /\ TransitionBuried'
  BY DEF IInv, KnownClosed, TransitionBuried, Terminal, ForkchoicePrepares
<1>8. LoopInv'
  <2>1. LoopInv BY DEF IInv
  <2>2. task[t] # NoTask BY DEF NoTask, ForkchoicePrepares
  <2> QED BY <2>1, <2>2, <1>4 DEF LoopInv, Merged, Terminal, ForkchoicePrepares
<1>9. TaskInv'
  <2>1. TaskInv BY DEF IInv
  <2>2. Prepared' = Prepared \cup {t} BY <1>4 DEF Prepared
  <2>3. \A k \in 1..Len(sendq') : sendq'[k] \in Prepared'
    BY <1>5, <2>1, <2>2 DEF TaskInv
  <2>4. known' = known /\ task[t].pc = "forkchoice" BY DEF ForkchoicePrepares
  <2>5. ASSUME NEW u \in Ticks
        PROVE  /\ task'[u].pc = "forkchoice" \/ task'[u].pc = "newPayload" \/ task'[u].id = u
                    => Merged(task[u].block)
               /\ task'[u].pc = "getPayload" => task[u].pc = "getPayload" /\ task'[u].id = task[u].id
               /\ task'[u].pc = "process" => task[u].pc = "process"
    BY <1>4, <2>1, <2>4 DEF TaskInv
  <2> QED BY <2>1, <2>2, <2>3, <2>4, <2>5, <1>4 DEF TaskInv, Merged, Terminal
<1> QED BY <1>6, <1>7, <1>8, <1>9 DEF IInv

\* The payload the engine builds for an id is a merged block.
LEMMA PayloadIsMerged ==
    ASSUME IInv, NEW i \in Prepared, NEW d \in Drifts
    PROVE  /\ PayloadOf(i, d) \in Block
           /\ Len(PayloadOf(i, d)) > 0
           /\ IsAncestor(Terminal, PayloadOf(i, d))
<1>1. i \in Ticks /\ task[i].id = i /\ i \in Nat
  BY ConstantsAssumption DEF Prepared, Ticks
<1>2. Merged(task[i].block) /\ task[i].block \in Block
  BY <1>1 DEF IInv, TypeOK, TaskInv, Merged
<1>3. task[i].slot \in Int /\ d \in Int
  BY <1>1 DEF IInv, TypeOK, Task, Drifts
<1> DEFINE s == [slot |-> task[i].slot + 1 + d, src |-> "engine", by |-> i]
<1>4. s \in Seal
  BY <1>1, <1>3 DEF Seal, Builders
<1> HIDE DEF s
<1>5. PayloadOf(i, d) = Append(task[i].block, s)
  BY DEF PayloadOf, AddNewBlock, s
<1>6. Len(task[i].block) \in Nat
  BY <1>2, LenProperties DEF Block
<1> QED BY <1>2, <1>4, <1>5, <1>6, TerminalBlock, ChildOfBlock, AncestorOfChild DEF Merged

\* A proposal goroutine that got its payload, from the engine or from a builder,
\* holds a block above the terminal one.
LEMMA GetPayloadKeeps ==
    ASSUME IInv, NEW t \in Ticks, GetPayload(t)
    PROVE  IInv'
<1> USE DEF chainVars, finalityVars
<1>1. TypeOK /\ task \in [Ticks -> Task] /\ task[t].pc = "getPayload"
  BY DEF IInv, TypeOK, GetPayload
<1>2. PICK i \in Obtainable(t), d \in Drifts :
          task' = [task EXCEPT ![t].pc = "process", ![t].block = PayloadOf(i, d)]
  BY DEF GetPayload
<1>3. i \in Prepared
  BY <1>1 DEF Obtainable, IInv, TaskInv
<1> DEFINE b == PayloadOf(i, d)
<1>4. b \in Block /\ Len(b) > 0 /\ IsAncestor(Terminal, b)
  BY <1>3, PayloadIsMerged
<1> HIDE DEF b
<1>5. task' = [task EXCEPT ![t].pc = "process", ![t].block = b]
  BY <1>2 DEF b
<1>6. task' \in [Ticks -> Task]
  BY <1>1, <1>4, <1>5 DEF Task, TaskPoints, BlockOrNone
<1>7. \A u \in Ticks : /\ task'[u].block = IF u = t THEN b ELSE task[u].block
                       /\ task'[u].id = task[u].id
                       /\ task'[u].pc = IF u = t THEN "process" ELSE task[u].pc
                       /\ u # t => task'[u] = task[u]
  BY <1>1, <1>5 DEF Task
<1>8. TypeOK'
  BY <1>1, <1>6 DEF TypeOK, GetPayload
<1>9. KnownClosed' /\ TransitionBuried'
  BY DEF IInv, KnownClosed, TransitionBuried, Terminal, GetPayload
<1>10. LoopInv'
  <2>1. LoopInv BY DEF IInv
  <2>2. task[t] # NoTask BY <1>1 DEF NoTask
  <2> QED BY <2>1, <2>2, <1>7 DEF LoopInv, Merged, Terminal, GetPayload
<1>11. TaskInv'
  <2>1. TaskInv BY DEF IInv
  <2>2. Prepared' = Prepared BY <1>7 DEF Prepared
  <2>3. known' = known /\ sendq' = sendq BY DEF GetPayload
  <2>4. task[t].id # t
    BY <1>1, <2>1 DEF TaskInv
  <2> QED BY <2>1, <2>2, <2>3, <2>4, <1>4, <1>7 DEF TaskInv, Merged, Terminal
<1> QED BY <1>8, <1>9, <1>10, <1>11 DEF IInv

\* ProcessPayload of a payload whose parent is known keeps the invariant.
LEMMA ProcessPayloadKeeps ==
    ASSUME IInv, NEW t \in Ticks, ProcessPayload(t)
    PROVE  IInv'
<1> USE DEF finalityVars
<1> DEFINE b == task[t].block
<1>1. TypeOK /\ task \in [Ticks -> Task] /\ task[t].pc = "process"
  BY DEF IInv, TypeOK, ProcessPayload
<1>2. b \in Block /\ Len(b) > 0 /\ ParentOf(b) \in known /\ IsAncestor(Terminal, b) /\ StoreBlock(b)
  BY <1>1 DEF IInv, TaskInv, ProcessPayload
<1> HIDE DEF b
<1>3. /\ known' \subseteq Block
      /\ known \subseteq known'
      /\ KnownClosed'
      /\ TransitionBuried'
      /\ head' \in known'
      /\ IsAncestor(Terminal, head')
  BY <1>2, StoreBlockKeeps
<1>4. task' \in [Ticks -> Task]
  BY <1>1 DEF ProcessPayload, Goto, Task, TaskPoints
<1>5. \A u \in Ticks : /\ task'[u].block = task[u].block
                       /\ task'[u].id = task[u].id
                       /\ task'[u].pc = IF u = t THEN "execute" ELSE task[u].pc
                       /\ u # t => task'[u] = task[u]
  BY <1>1 DEF ProcessPayload, Goto, Task
<1>6. TypeOK'
  BY <1>1, <1>3, <1>4 DEF TypeOK, ProcessPayload
<1>7. LoopInv'
  <2>1. LoopInv BY DEF IInv
  <2>2. task[t] # NoTask BY <1>1 DEF NoTask
  <2> QED BY <2>1, <2>2, <1>3, <1>5 DEF LoopInv, Merged, Terminal, ProcessPayload
<1>8. TaskInv'
  <2>1. TaskInv BY DEF IInv
  <2>2. Prepared' = Prepared BY <1>5 DEF Prepared
  <2>3. sendq' = sendq BY DEF ProcessPayload
  <2> QED BY <2>1, <2>2, <2>3, <1>3, <1>5 DEF TaskInv, Merged, Terminal
<1> QED BY <1>3, <1>6, <1>7, <1>8 DEF IInv

\* Every step of every goroutine keeps the invariant.
LEMMA GoroutineKeeps ==
    ASSUME IInv, NEW t \in Ticks, Goroutine(t)
    PROVE  IInv'
<1>1. CASE MockExecution(t)
  BY <1>1, GotoKeeps DEF MockExecution
<1>2. CASE ForkchoiceOnly(t)
  BY <1>2, GotoKeeps DEF ForkchoiceOnly
<1>3. CASE ForkchoicePrepares(t)
  BY <1>3, ForkchoicePreparesKeeps
<1>4. CASE ForkchoiceFails(t)
  BY <1>4, GotoKeeps DEF ForkchoiceFails, MaybeExit
<1>5. CASE GetPayload(t)
  BY <1>5, GetPayloadKeeps
<1>6. CASE GetPayloadFails(t)
  BY <1>6, GotoKeeps DEF GetPayloadFails, MaybeExit
<1>7. CASE ProcessPayload(t)
  BY <1>7, ProcessPayloadKeeps
<1>8. CASE ProcessPayloadFails(t)
  BY <1>8, GotoKeeps DEF ProcessPayloadFails, MaybeExit
<1>9. CASE ExecutePayload(t)
  BY <1>9, GotoKeeps DEF ExecutePayload
<1>10. CASE ExecutePayloadFails(t)
  BY <1>10, GotoKeeps DEF ExecutePayloadFails, MaybeExit
<1> QED BY <1>1, <1>2, <1>3, <1>4, <1>5, <1>6, <1>7, <1>8, <1>9, <1>10 DEF Goroutine

-----------------------------------------------------------------------------
(* The slot loop *)

\* Handling a tick up to the point where the slot is decided: the remembered
\* hashes stay hashes of known blocks.
LEMMA FinalityKeepsType ==
    ASSUME TypeOK, NEW s, UpdateFinality(s), UNCHANGED chainVars
    PROVE  {finalized', safe', nextFinalized'} \subseteq known' \cup {NoHash}
BY DEF UpdateFinality, TypeOK, chainVars, finalityVars

\* A tick that neither spawns nor releases a goroutine.
LEMMA QuietTickKeeps ==
    ASSUME IInv, NEW s \in Int, Tick(s), NEW p \in {"idle", "parent"}, pc' = p,
           proc' \in {proc, "exit0"},
           {finalized', safe', nextFinalized'} \subseteq known' \cup {NoHash},
           UNCHANGED <<parent, chainVars, task, sendq>>
    PROVE  IInv'
<1> USE DEF chainVars
<1>1. TypeOK /\ tick \in 0..MaxTicks /\ MaxTicks \in Nat
  BY ConstantsAssumption DEF IInv, TypeOK
<1>2. tick' = tick + 1 /\ tick' \in 1..MaxTicks /\ slot' = s
  BY <1>1 DEF Tick
<1>3. TypeOK'
  BY <1>1, <1>2 DEF TypeOK
<1>4. KnownClosed' /\ TransitionBuried'
  BY DEF IInv, KnownClosed, TransitionBuried, Terminal
<1>5. LoopInv'
  <2>1. LoopInv BY DEF IInv
  <2> QED BY <1>1, <1>2, <2>1 DEF LoopInv, Merged, Terminal, Ticks
<1>6. TaskInv'
  BY DEF IInv, TaskInv, Merged, Terminal, Prepared
<1> QED BY <1>3, <1>4, <1>5, <1>6 DEF IInv

\* Facts about the oldest sender of a channel that has one.
LEMMA HeadOfSendq ==
    ASSUME IInv, sendq # <<>>
    PROVE  /\ Head(sendq) \in Prepared
           /\ Tail(sendq) \in Seq(Ticks)
           /\ \A k \in 1..Len(Tail(sendq)) : Tail(sendq)[k] \in Prepared
<1>1. sendq \in Seq(Ticks) /\ \A k \in 1..Len(sendq) : sendq[k] \in Prepared
  BY DEF IInv, TypeOK, TaskInv
<1>2. /\ Tail(sendq) \in Seq(Ticks)
      /\ Len(Tail(sendq)) = Len(sendq) - 1
      /\ \A k \in 1..Len(Tail(sendq)) : Tail(sendq)[k] = sendq[k + 1]
  BY <1>1, HeadTailProperties
<1>3. Len(sendq) \in Nat /\ Len(sendq) # 0 /\ Head(sendq) = sendq[1]
  BY <1>1, LenProperties, EmptySeq
<1> QED BY <1>1, <1>2, <1>3

\* A gap slot, with or without a pending proposal to throw away.
LEMMA GapSlotKeeps ==
    ASSUME IInv, NEW s \in Int, GapSlot(s)
    PROVE  IInv'
<1> USE DEF chainVars
<1>1. /\ Tick(s)
      /\ {finalized', safe', nextFinalized'} \subseteq known' \cup {NoHash}
      /\ UNCHANGED <<proc, pc, parent, chainVars>>
      /\ pc = "idle"
  BY FinalityKeepsType DEF GapSlot, LiveSlot, IInv, Tick
<1>2. CASE sendq = <<>> /\ UNCHANGED <<task, sendq>>
  BY <1>1, <1>2, QuietTickKeeps
<1>3. CASE sendq # <<>> /\ Receive
  <2> DEFINE h == Head(sendq)
  <2>1. h \in Prepared /\ sendq' \in Seq(Ticks) /\ \A k \in 1..Len(sendq') : sendq'[k] \in Prepared
    BY <1>3, HeadOfSendq DEF Receive
  <2> HIDE DEF h
  <2>2. TypeOK /\ task \in [Ticks -> Task] /\ h \in Ticks /\ task[h].id = h /\ h > 0
    BY <2>1, ConstantsAssumption DEF IInv, TypeOK, Prepared, Ticks
  <2>3. task' = [task EXCEPT ![h].pc = "done"]
    BY <1>3 DEF Receive, h
  <2>4. task' \in [Ticks -> Task]
    BY <2>2, <2>3 DEF Task, TaskPoints
  <2>5. \A u \in Ticks : /\ task'[u].block = task[u].block
                         /\ task'[u].id = task[u].id
                         /\ task'[u].pc = IF u = h THEN "done" ELSE task[u].pc
                         /\ u # h => task'[u] = task[u]
    BY <2>2, <2>3 DEF Task
  <2>6. tick' = tick + 1 /\ tick' \in 1..MaxTicks /\ slot' = s /\ tick \in Int
    BY <1>1, <2>2, ConstantsAssumption DEF Tick, TypeOK
  <2>7. TypeOK'
    BY <1>1, <2>1, <2>2, <2>4, <2>6 DEF TypeOK
  <2>8. KnownClosed' /\ TransitionBuried'
    BY <1>1 DEF IInv, KnownClosed, TransitionBuried, Terminal
  <2>9. LoopInv'
    <3>1. LoopInv BY DEF IInv
    <3>2. task[h] # NoTask BY <2>2 DEF NoTask
    <3> QED BY <1>1, <2>5, <2>6, <3>1, <3>2 DEF LoopInv, Merged, Terminal, Ticks
  <2>10. TaskInv'
    <3>1. TaskInv BY DEF IInv
    <3>2. Prepared' = Prepared BY <2>5 DEF Prepared
    <3> QED BY <1>1, <2>1, <2>5, <3>1, <3>2 DEF TaskInv, Merged, Terminal
  <2> QED BY <2>7, <2>8, <2>9, <2>10 DEF IInv
<1> QED BY <1>2, <1>3 DEF GapSlot

\* Reading the head as the parent of the slot's block.
LEMMA ReadParentKeeps ==
    ASSUME IInv, ReadParent
    PROVE  IInv'
<1> USE DEF chainVars, finalityVars
<1>1. TypeOK /\ LoopInv /\ TaskInv
  BY DEF IInv
<1>2. TypeOK'
  BY <1>1 DEF TypeOK, ReadParent
<1>3. KnownClosed' /\ TransitionBuried'
  BY DEF IInv, KnownClosed, TransitionBuried, Terminal, ReadParent
<1>4. LoopInv'
  BY <1>1 DEF LoopInv, Merged, Terminal, ReadParent
<1>5. TaskInv'
  BY <1>1 DEF TaskInv, Merged, Terminal, Prepared, ReadParent
<1> QED BY <1>2, <1>3, <1>4, <1>5 DEF IInv

\* The lower bound of a reorg is a number, not below the transition block.
LEMMA ReorgMinBound ==
    ASSUME TypeOK
    PROVE  ReorgMin \in Nat /\ ReorgMin >= TransitionBlock
<1>1. TransitionBlock \in Nat
  BY ConstantsAssumption, LenProperties DEF Block
<1>2. CASE finalized \in known
  <2>1. Number(finalized) \in Nat
    BY <1>2, LenProperties DEF TypeOK, Number, Block
  <2>2. /\ Max({TransitionBlock, Number(finalized)}) \in {TransitionBlock, Number(finalized)}
        /\ Max({TransitionBlock, Number(finalized)}) >= TransitionBlock
    <3>1. TransitionBlock \in Int /\ Number(finalized) \in Int
      BY <1>1, <2>1
    <3> QED BY <3>1, MaxOfTwo
  <2> QED BY <1>1, <1>2, <2>1, <2>2 DEF ReorgMin
<1>3. CASE finalized \notin known
  BY <1>1, <1>3 DEF ReorgMin
<1> QED BY <1>2, <1>3

\* Whatever the depth, calcReorgTarget yields a merged block or none.
LEMMA ReorgTargetIsMerged ==
    ASSUME IInv, pc = "reorg", NEW depth \in Nat
    PROVE  LET target == GetHeaderByNumber(head, Max({Number(parent) - depth, ReorgMin}))
           IN  target = NoHash \/ Merged(target)
<1> DEFINE n == Max({Number(parent) - depth, ReorgMin})
<1>1. parent \in Block /\ head \in Block /\ Merged(head)
  BY DEF IInv, TypeOK, LoopInv
<1>2. Number(parent) \in Nat /\ Len(head) \in Nat
  BY <1>1, LenProperties DEF Number, Block
<1>3. ReorgMin \in Nat /\ ReorgMin >= TransitionBlock /\ TransitionBlock \in Nat
  BY ReorgMinBound, ConstantsAssumption, LenProperties DEF IInv, Block
<1>4. n \in Int /\ n >= ReorgMin
  <2>1. Number(parent) - depth \in Int /\ ReorgMin \in Int
    BY <1>2, <1>3
  <2>2. n \in {Number(parent) - depth, ReorgMin} /\ n >= ReorgMin
    BY <2>1, MaxOfTwo
  <2> QED BY <2>1, <2>2
<1> HIDE DEF n
<1>5. CASE n <= Len(head)
  <2>1. n \in 0..Len(head) /\ n \in Len(Terminal)..Len(head)
    BY <1>2, <1>3, <1>4, <1>5, TerminalBlock
  <2>2. SubSeq(head, 1, n) \in known
    BY <1>1, <2>1 DEF IInv, KnownClosed, Merged
  <2>3. IsAncestor(Terminal, SubSeq(head, 1, n))
    BY <1>1, <2>1, TerminalBlock, AncestorOfPrefix DEF Merged
  <2> QED BY <1>5, <2>2, <2>3 DEF GetHeaderByNumber, Merged, n
<1>6. CASE ~(n <= Len(head))
  BY <1>6 DEF GetHeaderByNumber, n
<1> QED BY <1>5, <1>6

\* Faking a reorg: the target the loop goes on with is merged or nil.
LEMMA CalcReorgTargetKeeps ==
    ASSUME IInv, CalcReorgTarget
    PROVE  IInv'
<1> USE DEF chainVars, finalityVars
<1>1. TypeOK /\ LoopInv /\ TaskInv
  BY DEF IInv
<1>2. parent' = NoHash \/ Merged(parent')
  <2>1. PICK depth \in Depths :
            parent' = GetHeaderByNumber(head, Max({Number(parent) - depth, ReorgMin}))
    BY DEF CalcReorgTarget
  <2>2. depth \in Nat
    BY <2>1, ConstantsAssumption DEF Depths
  <2> QED BY <2>1, <2>2, ReorgTargetIsMerged DEF CalcReorgTarget
<1>3. TypeOK'
  BY <1>1, <1>2 DEF TypeOK, CalcReorgTarget, Merged
<1>4. KnownClosed' /\ TransitionBuried'
  BY DEF IInv, KnownClosed, TransitionBuried, Terminal, CalcReorgTarget
<1>5. LoopInv'
  BY <1>1, <1>2 DEF LoopInv, Merged, Terminal, CalcReorgTarget
<1>6. TaskInv'
  BY <1>1 DEF TaskInv, Merged, Terminal, Prepared, CalcReorgTarget
<1> QED BY <1>3, <1>4, <1>5, <1>6 DEF IInv

\* Taking a payload id off the channel and spawning its proposal.
LEMMA ReceiveProposalKeeps ==
    ASSUME IInv, ReceiveProposal
    PROVE  IInv'
<1> USE DEF chainVars, finalityVars
<1> DEFINE h == Head(sendq)
<1>1. h \in Prepared /\ sendq' \in Seq(Ticks) /\ \A k \in 1..Len(sendq') : sendq'[k] \in Prepared
  BY HeadOfSendq DEF ReceiveProposal
<1>2. task' = [task EXCEPT ![h].pc = "done",
                           ![tick] = [NoTask EXCEPT !.pc = "getPayload",
                                                    !.slot = slot, !.id = h]]
  BY DEF ReceiveProposal
<1> HIDE DEF h
<1>3. TypeOK /\ task \in [Ticks -> Task] /\ slot \in Int
  BY DEF IInv, TypeOK
<1>4. h \in Ticks /\ task[h].id = h /\ h > 0 /\ h \in 0..MaxTicks
  BY <1>1, ConstantsAssumption DEF Prepared, Ticks
<1>5. tick \in Ticks /\ task[tick] = NoTask /\ h # tick
  <2>1. tick \in Ticks /\ task[tick] = NoTask
    BY DEF IInv, LoopInv, ReceiveProposal
  <2> QED BY <2>1, <1>4 DEF NoTask
<1> DEFINE new == [NoTask EXCEPT !.pc = "getPayload", !.slot = slot, !.id = h]
<1>6. new \in Task /\ new.pc = "getPayload" /\ new.id = h
  BY <1>3, <1>4 DEF NoTask, Task, TaskPoints, BlockOrNone
<1> HIDE DEF new
<1>7. task' = [task EXCEPT ![h].pc = "done", ![tick] = new]
  BY <1>2 DEF new
<1>8. task' \in [Ticks -> Task]
  BY <1>3, <1>4, <1>6, <1>7 DEF Task, TaskPoints
<1>9. /\ task'[tick] = new
      /\ \A u \in Ticks \ {tick} : /\ task'[u].block = task[u].block
                                   /\ task'[u].id = task[u].id
                                   /\ task'[u].pc = IF u = h THEN "done" ELSE task[u].pc
                                   /\ u # h => task'[u] = task[u]
  BY <1>3, <1>4, <1>5, <1>7 DEF Task
<1>10. TypeOK'
  BY <1>1, <1>3, <1>8 DEF TypeOK, ReceiveProposal
<1>11. KnownClosed' /\ TransitionBuried'
  BY DEF IInv, KnownClosed, TransitionBuried, Terminal, ReceiveProposal
<1>12. LoopInv'
  <2>1. LoopInv BY DEF IInv
  <2>2. task[h] # NoTask BY <1>4 DEF NoTask
  <2>3. pc' = "idle" /\ tick' = tick /\ UNCHANGED chainVars BY DEF ReceiveProposal
  <2>4. ASSUME NEW u \in Ticks, u > tick PROVE task'[u] = NoTask
    <3>1. tick \in Int /\ u # tick BY <2>4, <1>5, ConstantsAssumption DEF Ticks
    <3>2. task[u] = NoTask BY <2>1, <2>4 DEF LoopInv
    <3> QED BY <3>1, <3>2, <1>9, <2>2
  <2> QED BY <2>1, <2>3, <2>4 DEF LoopInv, Merged, Terminal
<1>13. TaskInv'
  <2>1. TaskInv BY DEF IInv
  <2>2. Prepared' = Prepared
    <3>1. task[tick].id # tick /\ task'[tick].id # tick
      BY <1>5, <1>6, <1>9, ConstantsAssumption DEF NoTask, Ticks
    <3> QED BY <1>9, <3>1 DEF Prepared
  <2>3. known' = known BY DEF ReceiveProposal
  <2>4. ASSUME NEW u \in Ticks
        PROVE  (/\ task[u].pc = "forkchoice" \/ task[u].pc = "newPayload" \/ task[u].id = u
                     => Merged(task[u].block)
                /\ task[u].pc = "getPayload" => task[u].id \in Prepared \ {u}
                /\ task[u].pc = "process" =>
                      /\ task[u].block \in Block
                      /\ Len(task[u].block) > 0
                      /\ IsAncestor(Terminal, task[u].block))'
    <3>1. CASE u = tick
      BY <3>1, <1>1, <1>5, <1>6, <1>9, <2>2
    <3>2. CASE u # tick
      BY <3>2, <1>9, <2>1, <2>2, <2>3 DEF TaskInv, Merged, Terminal
    <3> QED BY <3>1, <3>2
  <2> QED BY <1>1, <2>2, <2>4 DEF TaskInv
<1> QED BY <1>10, <1>11, <1>12, <1>13 DEF IInv

\* Building an external block on the parent and spawning its execution.
LEMMA BuildExternalKeeps ==
    ASSUME IInv, BuildExternal
    PROVE  IInv'
<1> USE DEF finalityVars
<1> DEFINE s == [slot |-> slot, src |-> "external", by |-> 0]
           b == AddNewBlock(parent, s)
           new == [pc |-> "newPayload", slot |-> slot, block |-> b, safe |-> safe,
                   final |-> finalized, id |-> 0]
<1>1. StoreBlock(b) /\ task' = [task EXCEPT ![tick] = new]
  BY DEF BuildExternal
<1>2. TypeOK /\ task \in [Ticks -> Task] /\ slot \in Int
  BY DEF IInv, TypeOK
<1>3. s \in Seal
  BY <1>2 DEF Seal, Builders
<1>4. parent \in known /\ parent \in Block /\ IsAncestor(Terminal, parent)
  BY DEF BuildExternal, IInv, LoopInv, TypeOK, Merged
<1> HIDE DEF s
<1>5. b \in Block /\ Len(b) > 0 /\ ParentOf(b) \in known /\ IsAncestor(Terminal, b)
  <2>1. b = Append(parent, s) /\ Len(parent) \in Nat
    BY <1>4, LenProperties DEF AddNewBlock, Block
  <2>2. b \in Block /\ Len(b) = Len(parent) + 1
    BY <1>3, <1>4, <2>1, ChildOfBlock
  <2>3. ParentOf(b) = parent
    BY <1>3, <1>4, <2>1, ParentOfChild
  <2>4. IsAncestor(Terminal, b)
    BY <1>3, <1>4, <2>1, TerminalBlock, AncestorOfChild
  <2> QED BY <1>4, <2>1, <2>2, <2>3, <2>4
<1> HIDE DEF b
<1>6. /\ known' \subseteq Block
      /\ known \subseteq known'
      /\ b \in known'
      /\ KnownClosed'
      /\ TransitionBuried'
      /\ head' \in known'
      /\ IsAncestor(Terminal, head')
  BY <1>1, <1>5, StoreBlockKeeps
<1>7. tick \in Ticks /\ task[tick] = NoTask /\ tick > 0
  BY ConstantsAssumption DEF IInv, LoopInv, BuildExternal, Ticks
<1>8. new \in Task /\ new.pc = "newPayload" /\ new.id = 0 /\ new.block = b
  BY <1>2, <1>5, ConstantsAssumption DEF Task, TaskPoints, BlockOrNone, TypeOK
<1> HIDE DEF new
<1>9. /\ task' \in [Ticks -> Task]
      /\ task'[tick] = new
      /\ \A u \in Ticks : u # tick => task'[u] = task[u]
  BY <1>1, <1>2, <1>7, <1>8
<1>10. TypeOK'
  BY <1>2, <1>6, <1>9 DEF TypeOK, BuildExternal
<1>11. LoopInv'
  <2>1. LoopInv BY DEF IInv
  <2>2. pc' = "idle" /\ tick' = tick BY DEF BuildExternal
  <2>3. ASSUME NEW u \in Ticks, u > tick PROVE task'[u] = NoTask
    <3>1. u # tick BY <2>3, <1>7, ConstantsAssumption DEF Ticks
    <3> QED BY <3>1, <1>9, <2>1, <2>3 DEF LoopInv
  <2> QED BY <1>6, <1>7, <2>2, <2>3 DEF LoopInv, Merged, Terminal
<1>12. TaskInv'
  <2>1. TaskInv /\ sendq' = sendq BY DEF IInv, BuildExternal
  <2>2. Prepared' = Prepared
    <3>1. task[tick].id # tick /\ task'[tick].id # tick
      BY <1>7, <1>8, <1>9 DEF NoTask
    <3> QED BY <1>9, <3>1 DEF Prepared
  <2>3. ASSUME NEW u \in Ticks
        PROVE  (/\ task[u].pc = "forkchoice" \/ task[u].pc = "newPayload" \/ task[u].id = u
                     => Merged(task[u].block)
                /\ task[u].pc = "getPayload" => task[u].id \in Prepared \ {u}
                /\ task[u].pc = "process" =>
                      /\ task[u].block \in Block
                      /\ Len(task[u].block) > 0
                      /\ IsAncestor(Terminal, task[u].block))'
    <3>1. CASE u = tick
      BY <3>1, <1>5, <1>6, <1>8, <1>9 DEF Merged, Terminal
    <3>2. CASE u # tick
      BY <3>2, <1>6, <1>9, <2>1, <2>2 DEF TaskInv, Merged, Terminal
    <3> QED BY <3>1, <3>2
  <2> QED BY <2>1, <2>2, <2>3 DEF TaskInv
<1> QED BY <1>6, <1>10, <1>11, <1>12 DEF IInv

\* The loop goes back to its select, or the process ends, and nothing else changes.
LEMMA GiveUpKeeps ==
    ASSUME IInv, BuildFails \/ NilParent
    PROVE  IInv'
<1> USE DEF chainVars, finalityVars
<1>1. TypeOK /\ LoopInv /\ TaskInv
  BY DEF IInv
<1>2. TypeOK'
  BY <1>1 DEF TypeOK, BuildFails, NilParent
<1>3. KnownClosed' /\ TransitionBuried'
  BY DEF IInv, KnownClosed, TransitionBuried, Terminal, BuildFails, NilParent
<1>4. LoopInv'
  BY <1>1 DEF LoopInv, Merged, Terminal, BuildFails, NilParent
<1>5. TaskInv'
  BY <1>1 DEF TaskInv, Merged, Terminal, Prepared, BuildFails, NilParent
<1> QED BY <1>2, <1>3, <1>4, <1>5 DEF IInv

\* Every step of the slot loop keeps the invariant.
LEMMA SlotLoopKeeps ==
    ASSUME IInv, SlotLoop
    PROVE  IInv'
<1> USE DEF chainVars, finalityVars
<1>1. ASSUME NEW d \in Steps,
             \/ BeforeGenesis(slot + d) \/ AtGenesis(slot + d) \/ ReachSlotBound(slot + d)
             \/ GapSlot(slot + d) \/ BadHashSlot(slot + d) \/ TriggerSlot(slot + d)
      PROVE  IInv'
  <2> DEFINE s == slot + d
  <2>1. s \in Int /\ TypeOK
    BY ConstantsAssumption DEF IInv, TypeOK
  <2> HIDE DEF s
  <2>2. CASE BeforeGenesis(s)
    <3>1. {finalized', safe', nextFinalized'} \subseteq known' \cup {NoHash}
      BY <2>1, <2>2 DEF TypeOK, BeforeGenesis
    <3> QED BY <2>1, <2>2, <3>1, QuietTickKeeps DEF BeforeGenesis, Tick
  <2>3. CASE AtGenesis(s)
    <3>1. {finalized', safe', nextFinalized'} \subseteq known' \cup {NoHash}
      BY <2>1, <2>3 DEF TypeOK, AtGenesis
    <3> QED BY <2>1, <2>3, <3>1, QuietTickKeeps DEF AtGenesis, Tick
  <2>4. CASE ReachSlotBound(s)
    <3>1. {finalized', safe', nextFinalized'} \subseteq known' \cup {NoHash}
      BY <2>1, <2>4 DEF TypeOK, ReachSlotBound
    <3> QED BY <2>1, <2>4, <3>1, QuietTickKeeps DEF ReachSlotBound, Tick
  <2>5. CASE GapSlot(s)
    BY <2>1, <2>5, GapSlotKeeps
  <2>6. CASE BadHashSlot(s)
    <3>1. {finalized', safe', nextFinalized'} \subseteq known' \cup {NoHash}
      BY <2>1, <2>6, FinalityKeepsType DEF BadHashSlot, LiveSlot
    <3> QED BY <2>1, <2>6, <3>1, QuietTickKeeps DEF BadHashSlot, LiveSlot, Tick
  <2>7. CASE TriggerSlot(s)
    <3>1. {finalized', safe', nextFinalized'} \subseteq known' \cup {NoHash}
      BY <2>1, <2>7, FinalityKeepsType DEF TriggerSlot, LiveSlot
    <3> QED BY <2>1, <2>7, <3>1, QuietTickKeeps DEF TriggerSlot, LiveSlot
  <2> QED BY <1>1, <2>2, <2>3, <2>4, <2>5, <2>6, <2>7 DEF s
<1>2. CASE ReadParent BY <1>2, ReadParentKeeps
<1>3. CASE CalcReorgTarget BY <1>3, CalcReorgTargetKeeps
<1>4. CASE ReceiveProposal BY <1>4, ReceiveProposalKeeps
<1>5. CASE BuildExternal BY <1>5, BuildExternalKeeps
<1>6. CASE BuildFails \/ NilParent BY <1>6, GiveUpKeeps
<1> QED BY <1>1, <1>2, <1>3, <1>4, <1>5, <1>6 DEF SlotLoop

-----------------------------------------------------------------------------
(* The theorems *)

\* IInv holds initially and every step of the loop and of the goroutines keeps it.
THEOREM Invariance == Spec => []IInv
<1>1. Init => IInv
  BY InitInvariant
<1>2. IInv /\ [Next]_vars => IInv'
  <2> SUFFICES ASSUME IInv, [Next]_vars PROVE IInv'
    OBVIOUS
  <2>1. CASE SlotLoop BY <2>1, SlotLoopKeeps
  <2>2. ASSUME NEW t \in Ticks, Goroutine(t) PROVE IInv'
    BY <2>2, GoroutineKeeps
  <2>3. CASE UNCHANGED vars
    BY <2>3 DEF vars, IInv, TypeOK, KnownClosed, TransitionBuried, LoopInv, TaskInv,
                Merged, Terminal, Prepared
  <2> QED BY <2>1, <2>2, <2>3 DEF Next
<1> QED BY <1>1, <1>2, PTL DEF Spec

\* The consensus mock is type correct: in particular the finalized, safe and next
\* finalized hashes, and the parent a block is built on, are always blocks of its
\* own database (or the zero hash).
THEOREM TypeCorrect == Spec => []TypeOK
<1>1. IInv => TypeOK
  BY DEF IInv
<1> QED BY <1>1, Invariance, PTL

\* However many slots are run and however deep reorgs go, no block the mock adds
\* forks off below the terminal proof-of-work block.
THEOREM MergeIsNeverUndone == Spec => []TransitionBuried
<1>1. IInv => TransitionBuried
  BY DEF IInv
<1> QED BY <1>1, Invariance, PTL

\* An accepted block is an insertion into the abstract tree.
LEMMA StoreIsInsert ==
    ASSUME NEW b \in Block, Len(b) > 0, ParentOf(b) \in known, StoreBlock(b)
    PROVE  Tree!Next
<1>1. b \in Tree!Block /\ Tree!ParentOf(b) \in known
  BY DEF Block, Seal, Builders, ParentOf, Tree!Block, Tree!Seal, Tree!Builders, Tree!ParentOf
<1>2. Tree!IsAncestor(b, head) <=> IsAncestor(b, head)
  BY DEF IsAncestor, Tree!IsAncestor
<1>3. /\ known' = known \cup {b}
      /\ head' = IF IsAncestor(b, head) THEN head ELSE b
  BY DEF StoreBlock, InsertChain
<1>4. Tree!Insert(b)
  BY <1>1, <1>2, <1>3 DEF Tree!Insert
<1> QED BY <1>3, <1>4 DEF Tree!Next

\* The slot loop and the goroutines together never do anything to the chain but
\* insert children of known blocks.
THEOREM ChainRefinement == Spec => ImplementsChainTree
<1>1. Init => Tree!Init
  <2> SUFFICES ASSUME Init PROVE Tree!Init
    OBVIOUS
  <2>1. head \in Ancestry(head)
    BY AncestryIsClosed, ConstantsAssumption DEF Init
  <2> QED BY <2>1 DEF Init, Tree!Init, Ancestry, Tree!Ancestry
<1>2. IInv /\ [Next]_vars => [Tree!Next]_(Tree!vars)
  <2> SUFFICES ASSUME IInv, [Next]_vars PROVE Tree!Next \/ UNCHANGED chainVars
    BY DEF Tree!vars, chainVars
  <2>1. CASE BuildExternal
    <3> DEFINE s == [slot |-> slot, src |-> "external", by |-> 0]
    <3>1. parent \in known /\ parent \in Block /\ slot \in Int
      BY <2>1 DEF BuildExternal, IInv, TypeOK
    <3>2. s \in Seal
      BY <3>1 DEF Seal, Builders
    <3>3. StoreBlock(Append(parent, s))
      BY <2>1 DEF BuildExternal, AddNewBlock
    <3> HIDE DEF s
    <3>4. /\ Append(parent, s) \in Block
          /\ Len(Append(parent, s)) > 0
          /\ ParentOf(Append(parent, s)) \in known
      BY <3>1, <3>2, ChildOfBlock, ParentOfChild, LenProperties DEF Block
    <3> QED BY <3>3, <3>4, StoreIsInsert
  <2>2. ASSUME NEW t \in Ticks, ProcessPayload(t) PROVE Tree!Next
    <3>1. /\ task[t].block \in Block
          /\ Len(task[t].block) > 0
          /\ ParentOf(task[t].block) \in known
          /\ StoreBlock(task[t].block)
      BY <2>2 DEF ProcessPayload, IInv, TaskInv
    <3> QED BY <3>1, StoreIsInsert
  <2>3. CASE SlotLoop /\ ~BuildExternal
    BY <2>3 DEF SlotLoop, BeforeGenesis, AtGenesis, ReachSlotBound, GapSlot, BadHashSlot,
                TriggerSlot, ReadParent, CalcReorgTarget, ReceiveProposal, BuildFails, NilParent
  <2>4. ASSUME NEW t \in Ticks, Goroutine(t), ~ProcessPayload(t) PROVE UNCHANGED chainVars
    BY <2>4 DEF Goroutine, MockExecution, ForkchoiceOnly, ForkchoicePrepares, ForkchoiceFails,
                GetPayload, GetPayloadFails, ProcessPayloadFails, ExecutePayload,
                ExecutePayloadFails
  <2>5. CASE UNCHANGED vars
    BY <2>5 DEF vars, chainVars
  <2> QED BY <2>1, <2>2, <2>3, <2>4, <2>5 DEF Next
<1> QED BY <1>1, <1>2, Invariance, PTL DEF Spec, ImplementsChainTree, Tree!Spec

-----------------------------------------------------------------------------
(* What the steps do to the goroutines *)

\* Goroutine u stays what it is, or moves along its code without a new block.
Moves(u) ==
    /\ task'[u].block = task[u].block
    /\ task'[u].slot = task[u].slot
    /\ task'[u].final = task[u].final
    /\ task'[u].id = task[u].id \/ (task'[u].id = u /\ task[u].pc = "forkchoice")
    /\ task[u] = NoTask => task'[u] = NoTask
    /\ task'[u].pc = "newPayload" => task[u].pc = "newPayload"
    /\ task'[u].pc = "forkchoice" => task[u].pc \in {"newPayload", "forkchoice"}
    /\ task'[u].pc \in {"getPayload", "process"} => task[u].pc = task'[u].pc
    /\ task'[u].pc = "execute" => task[u].pc \in {"process", "execute"}
    /\ task'[u].pc = "send" => task[u].pc \in {"forkchoice", "send"}
    /\ task'[u].pc = "none" => task[u].pc = "none"

\* A goroutine that does not change moves.
LEMMA SameMoves ==
    ASSUME NEW u, task'[u] = task[u]
    PROVE  Moves(u)
BY DEF Moves

\* A goroutine that is busy after a move was busy before it.
LEMMA MovesBusy ==
    ASSUME NEW u \in Ticks, Moves(u), Busy(u)'
    PROVE  Busy(u)
BY DEF Moves, Busy

\* A goroutine that goes on to its next point moves, and so do all others.
LEMMA GotoMoves ==
    ASSUME TypeOK, NEW t \in Ticks, NEW p \in {"forkchoice", "execute", "done"},
           task[t].pc # "none",
           p = "forkchoice" => task[t].pc = "newPayload",
           p = "execute" => task[t].pc = "process",
           Goto(t, p)
    PROVE  (\A u \in Ticks : Moves(u)) /\ task'[t].pc = p
<1>1. task \in [Ticks -> Task]
  BY DEF TypeOK
<1>2. \A u \in Ticks : /\ task'[u].block = task[u].block
                       /\ task'[u].id = task[u].id
                       /\ task'[u].slot = task[u].slot
                       /\ task'[u].final = task[u].final
                       /\ task'[u].pc = IF u = t THEN p ELSE task[u].pc
                       /\ u # t => task'[u] = task[u]
  BY <1>1 DEF Goto, Task
<1>3. task[t] # NoTask
  BY DEF NoTask
<1> QED BY <1>2, <1>3 DEF Moves

\* The steps of a goroutine other than the one that gets its payload.
LEMMA GoroutineMoves ==
    ASSUME TypeOK, NEW t \in Ticks, Goroutine(t), ~GetPayload(t)
    PROVE  /\ \A u \in Ticks : Moves(u)
           /\ UNCHANGED <<pc, tick, slot, parent, finalityVars>>
           /\ ProcessPayload(t) \/ UNCHANGED chainVars
           /\ Busy(t)
           /\ \/ sendq' = sendq
              \/ /\ sendq' = Append(sendq, t)
                 /\ task[t].pc = "forkchoice"
                 /\ task'[t].pc = "send"
<1>1. CASE ForkchoicePrepares(t)
  <2>1. task \in [Ticks -> Task]
    BY DEF TypeOK
  <2>2. \A u \in Ticks : /\ task'[u].block = task[u].block
                         /\ task'[u].slot = task[u].slot
                         /\ task'[u].final = task[u].final
                         /\ task'[u].id = IF u = t THEN t ELSE task[u].id
                         /\ task'[u].pc = IF u = t THEN "send" ELSE task[u].pc
                         /\ u # t => task'[u] = task[u]
    BY <1>1, <2>1 DEF ForkchoicePrepares, Task
  <2>3. task[t].pc = "forkchoice" /\ task[t] # NoTask
    BY <1>1 DEF ForkchoicePrepares, NoTask
  <2>4. \A u \in Ticks : Moves(u)
    BY <2>2, <2>3 DEF Moves
  <2> QED BY <1>1, <2>2, <2>3, <2>4 DEF ForkchoicePrepares, Busy
<1>2. CASE ~ForkchoicePrepares(t)
  <2>1. PICK p \in {"forkchoice", "execute", "done"} :
           /\ p = "forkchoice" => task[t].pc = "newPayload"
           /\ p = "execute" => task[t].pc = "process"
           /\ Goto(t, p)
    BY <1>2 DEF Goroutine, MockExecution, ForkchoiceOnly, ForkchoiceFails, GetPayloadFails,
                ProcessPayload, ProcessPayloadFails, ExecutePayload, ExecutePayloadFails
  <2>2. Busy(t)
    BY <1>2 DEF Goroutine, MockExecution, ForkchoiceOnly, ForkchoiceFails, GetPayloadFails,
                ProcessPayload, ProcessPayloadFails, ExecutePayload, ExecutePayloadFails, Busy
  <2>3. \A u \in Ticks : Moves(u)
    BY <2>1, <2>2, GotoMoves DEF Busy
  <2>4. /\ UNCHANGED <<pc, tick, slot, parent, finalityVars, sendq>>
        /\ ProcessPayload(t) \/ UNCHANGED chainVars
    BY <1>2 DEF Goroutine, MockExecution, ForkchoiceOnly, ForkchoiceFails, GetPayloadFails,
                ProcessPayload, ProcessPayloadFails, ExecutePayload, ExecutePayloadFails
  <2> QED BY <2>2, <2>3, <2>4
<1> QED BY <1>1, <1>2

\* The payload a proposal gets is a child of the block its id was requested for.
LEMMA GetPayloadFacts ==
    ASSUME IInv, NEW t \in Ticks, GetPayload(t)
    PROVE  \E i \in Obtainable(t), b \in Block :
              /\ i \in Prepared
              /\ ParentOf(b) = task[i].block
              /\ Len(b) > 0
              /\ LastSlot(b) > task[i].slot
              /\ task'[t].pc = "process" /\ task'[t].block = b
              /\ task'[t].slot = task[t].slot /\ task'[t].id = task[t].id
              /\ \A u \in Ticks \ {t} : task'[u] = task[u]
<1>1. task \in [Ticks -> Task] /\ task[t].pc = "getPayload"
  BY DEF IInv, TypeOK, GetPayload
<1>2. PICK i \in Obtainable(t), d \in Drifts :
          task' = [task EXCEPT ![t].pc = "process", ![t].block = PayloadOf(i, d)]
  BY DEF GetPayload
<1>3. i \in Prepared /\ i \in Ticks /\ task[i].id = i /\ i \in Nat
  BY <1>1, ConstantsAssumption DEF Obtainable, IInv, TaskInv, Prepared, Ticks
<1>4. task[i].block \in Block /\ task[i].slot \in Int /\ d \in {0, 1}
  BY <1>1, <1>3 DEF IInv, TypeOK, TaskInv, Merged, Task, Drifts
<1> DEFINE s == [slot |-> task[i].slot + 1 + d, src |-> "engine", by |-> i]
           b == Append(task[i].block, s)
<1>5. s \in Seal /\ s.slot > task[i].slot
  BY <1>3, <1>4 DEF Seal, Builders
<1>6. PayloadOf(i, d) = b
  BY DEF PayloadOf, AddNewBlock
<1> HIDE DEF s
<1>7. Len(task[i].block) \in Nat
  BY <1>4, LenProperties DEF Block
<1>8. b \in Block /\ Len(b) > 0 /\ b[Len(b)] = s /\ ParentOf(b) = task[i].block
  BY <1>4, <1>5, <1>7, ChildOfBlock, ParentOfChild
<1> HIDE DEF b
<1>9. task' = [task EXCEPT ![t].pc = "process", ![t].block = b]
  BY <1>2, <1>6
<1>10. /\ task'[t].pc = "process" /\ task'[t].block = b
       /\ task'[t].slot = task[t].slot /\ task'[t].id = task[t].id
       /\ \A u \in Ticks \ {t} : task'[u] = task[u]
  BY <1>1, <1>9 DEF Task
<1> QED BY <1>3, <1>5, <1>8, <1>10 DEF LastSlot

\* The channel without its oldest sender.
LEMMA TailFacts ==
    ASSUME IInv, sendq # <<>>
    PROVE  /\ Head(sendq) = sendq[1]
           /\ Len(sendq) \in Nat /\ Len(sendq) > 0
           /\ Len(Tail(sendq)) = Len(sendq) - 1
           /\ \A k \in 1..Len(Tail(sendq)) : Tail(sendq)[k] = sendq[k + 1]
<1>1. sendq \in Seq(Ticks)
  BY DEF IInv, TypeOK
<1> QED BY <1>1, LenProperties, EmptySeq, HeadTailProperties

\* A tick of the clock leaves the chain alone and at most releases a sender.
LEMMA TickMoves ==
    ASSUME IInv, NEW s,
           \/ BeforeGenesis(s) \/ AtGenesis(s) \/ ReachSlotBound(s)
           \/ GapSlot(s) \/ BadHashSlot(s) \/ TriggerSlot(s)
    PROVE  /\ Tick(s)
           /\ \A u \in Ticks : Moves(u)
           /\ UNCHANGED <<parent, chainVars>>
           /\ pc' = "idle" \/ (pc' = "parent" /\ s > 0)
           /\ sendq' = sendq \/ (sendq # <<>> /\ sendq' = Tail(sendq))
           /\ UpdateFinality(s) \/ UNCHANGED <<finalized, nextFinalized>>
<1>1. /\ Tick(s)
      /\ UNCHANGED <<parent, chainVars>>
      /\ pc' = "idle" \/ (pc' = "parent" /\ s > 0)
      /\ UpdateFinality(s) \/ UNCHANGED <<finalized, nextFinalized>>
  BY DEF BeforeGenesis, AtGenesis, ReachSlotBound, GapSlot, BadHashSlot, TriggerSlot,
         LiveSlot, Tick, finalityVars
<1>2. CASE UNCHANGED <<task, sendq>>
  BY <1>1, <1>2, SameMoves
<1>3. CASE sendq # <<>> /\ Receive
  <2>1. Head(sendq) \in Prepared
    BY <1>3, HeadOfSendq
  <2> DEFINE h == Head(sendq)
  <2>2. h \in Ticks /\ task[h].id = h /\ h # 0
    BY <2>1, ConstantsAssumption DEF Prepared, Ticks
  <2>3. task' = [task EXCEPT ![h].pc = "done"] /\ sendq' = Tail(sendq)
    BY <1>3 DEF Receive
  <2> HIDE DEF h
  <2>4. \A u \in Ticks : /\ task'[u].block = task[u].block
                         /\ task'[u].id = task[u].id
                         /\ task'[u].slot = task[u].slot
                         /\ task'[u].final = task[u].final
                         /\ task'[u].pc = IF u = h THEN "done" ELSE task[u].pc
    BY <2>2, <2>3 DEF IInv, TypeOK, Task
  <2>5. task[h] # NoTask /\ \A u \in Ticks : u # h => task'[u] = task[u]
    BY <2>2, <2>3 DEF NoTask, IInv, TypeOK
  <2>6. \A u \in Ticks : Moves(u)
    BY <2>4, <2>5 DEF Moves
  <2> QED BY <1>1, <1>3, <2>3, <2>6
<1> QED BY <1>1, <1>2, <1>3 DEF BeforeGenesis, AtGenesis, ReachSlotBound, GapSlot, BadHashSlot,
                              TriggerSlot

\* A proposal is spawned for the oldest pending id, whose goroutine ends.
LEMMA ReceiveProposalFacts ==
    ASSUME IInv, ReceiveProposal
    PROVE  /\ tick \in Ticks
           /\ Head(sendq) \in Ticks \ {tick}
           /\ task'[tick].pc = "getPayload"
           /\ task'[tick].slot = slot
           /\ task'[tick].id = Head(sendq)
           /\ \A u \in Ticks \ {tick} : Moves(u)
<1>1. Head(sendq) \in Prepared
  BY HeadOfSendq DEF ReceiveProposal
<1> DEFINE h == Head(sendq)
           new == [NoTask EXCEPT !.pc = "getPayload", !.slot = slot, !.id = h]
<1>2. h \in Ticks /\ task[h].id = h /\ h # 0
  BY <1>1, ConstantsAssumption DEF Prepared, Ticks
<1>3. task' = [task EXCEPT ![h].pc = "done", ![tick] = new]
  BY DEF ReceiveProposal
<1>4. new.pc = "getPayload" /\ new.slot = slot /\ new.id = h
  BY DEF NoTask
<1> HIDE DEF h, new
<1>5. task \in [Ticks -> Task] /\ tick \in Ticks /\ task[tick] = NoTask
  BY DEF IInv, TypeOK, LoopInv, ReceiveProposal
<1>6. task[h] # NoTask /\ h # tick
  BY <1>2, <1>5 DEF NoTask
<1>7. /\ task'[tick] = new
      /\ \A u \in Ticks \ {tick} : /\ task'[u].block = task[u].block
                                   /\ task'[u].id = task[u].id
                                   /\ task'[u].slot = task[u].slot
                                   /\ task'[u].final = task[u].final
                                   /\ task'[u].pc = IF u = h THEN "done" ELSE task[u].pc
                                   /\ u # h => task'[u] = task[u]
  BY <1>2, <1>3, <1>5, <1>6 DEF Task
<1>8. \A u \in Ticks \ {tick} : Moves(u)
  BY <1>6, <1>7 DEF Moves
<1> QED BY <1>2, <1>4, <1>5, <1>6, <1>7, <1>8 DEF h

\* An external block is a child of the loop's parent, dated by its slot.
LEMMA BuildExternalFacts ==
    ASSUME IInv, BuildExternal
    PROVE  \E s \in Seal :
              /\ s.slot = slot
              /\ StoreBlock(Append(parent, s))
              /\ parent \in known
              /\ tick \in Ticks
              /\ task'[tick].pc = "newPayload"
              /\ task'[tick].slot = slot
              /\ task'[tick].block = Append(parent, s)
              /\ task'[tick].final = finalized
              /\ task'[tick].id # tick
              /\ \A u \in Ticks \ {tick} : task'[u] = task[u]
<1> DEFINE s == [slot |-> slot, src |-> "external", by |-> 0]
           b == Append(parent, s)
           new == [pc |-> "newPayload", slot |-> slot, block |-> b, safe |-> safe,
                   final |-> finalized, id |-> 0]
<1>1. StoreBlock(b) /\ task' = [task EXCEPT ![tick] = new]
  BY DEF BuildExternal, AddNewBlock
<1>2. task \in [Ticks -> Task] /\ slot \in Int /\ parent \in known /\ tick \in Ticks
  BY DEF IInv, TypeOK, LoopInv, Merged, BuildExternal
<1>3. s \in Seal /\ s.slot = slot
  BY <1>2 DEF Seal, Builders
<1> HIDE DEF s
<1>4. /\ new.pc = "newPayload" /\ new.slot = slot /\ new.block = b /\ new.final = finalized
      /\ new.id # tick
  BY <1>2, ConstantsAssumption DEF Ticks
<1> HIDE DEF new
<1>5. task'[tick] = new /\ \A u \in Ticks \ {tick} : task'[u] = task[u]
  BY <1>1, <1>2
<1> QED BY <1>1, <1>2, <1>3, <1>4, <1>5

-----------------------------------------------------------------------------
(* The clock *)

\* The slot of a block is a number, that of a child the one it is sealed with.
LEMMA SlotFacts ==
    /\ \A b \in Block : Len(b) > 0 => LastSlot(b) \in Int
    /\ \A b \in Block, s \in Seal : LastSlot(Append(b, s)) = s.slot
<1>1. ASSUME NEW b \in Block, Len(b) > 0 PROVE LastSlot(b) \in Int
  <2>1. b[Len(b)] \in Seal
    BY <1>1, BlockIsChild
  <2> QED BY <2>1 DEF LastSlot, Seal
<1>2. ASSUME NEW b \in Block, NEW s \in Seal PROVE LastSlot(Append(b, s)) = s.slot
  BY <1>2, ChildOfBlock DEF LastSlot
<1> QED BY <1>1, <1>2

\* A child that is later than its parent keeps the slots in order.
LEMMA LaterChildKeepsOrder ==
    ASSUME IInv, SlotsIncrease, NEW p \in known, NEW s \in Seal,
           Len(p) > 0 => LastSlot(p) < s.slot,
           known' = known \cup {Append(p, s)}
    PROVE  SlotsIncrease'
<1> DEFINE b == Append(p, s)
<1>1. p \in Block /\ Len(p) \in Nat
  BY LenProperties DEF IInv, TypeOK, Block
<1>2. Len(b) = Len(p) + 1 /\ (\A i \in 1..Len(p) : b[i] = p[i]) /\ b[Len(p) + 1] = s
  BY <1>1, ChildOfBlock
<1>3. known' = known \cup {b}
  OBVIOUS
<1> HIDE DEF b
<1>4. ASSUME NEW i \in 2..Len(b), b[i].src # "pow"
      PROVE  b[i - 1].slot < b[i].slot
  <2>1. CASE i \in 2..Len(p)
    <3>1. b[i] = p[i] /\ b[i - 1] = p[i - 1]
      BY <1>1, <1>2, <2>1
    <3> QED BY <1>4, <2>1, <3>1 DEF SlotsIncrease
  <2>2. CASE i = Len(p) + 1
    <3>1. Len(p) > 0 /\ i - 1 = Len(p) /\ i - 1 \in 1..Len(p)
      BY <1>1, <1>4, <2>2
    <3>2. b[i] = s /\ b[i - 1] = p[Len(p)]
      BY <1>2, <2>2, <3>1
    <3> QED BY <3>1, <3>2 DEF LastSlot
  <2> QED BY <1>1, <1>2, <1>4, <2>1, <2>2
<1> QED BY <1>3, <1>4 DEF SlotsIncrease

\* The clock starts after the stored chain.
LEMMA InitClock ==
    ASSUME StoredInOrder, Init
    PROVE  ClockInv
<1>1. Len(StoredChain) \in Nat /\ StoredChain \in Block
  BY ConstantsAssumption, LenProperties DEF Block
<1>2. ASSUME NEW n \in 0..Len(StoredChain)
      PROVE  LET b == SubSeq(StoredChain, 1, n) IN
             /\ Len(b) > 0 => LastSlot(b) <= slot \/ LastSlot(b) <= 0
             /\ \A i \in 2..Len(b) : b[i].src # "pow" => b[i - 1].slot < b[i].slot
  <2> DEFINE b == SubSeq(StoredChain, 1, n)
  <2>1. Len(b) = n /\ \A i \in 1..n : b[i] = StoredChain[i]
    BY <1>1, <1>2, PrefixOfBlock
  <2> HIDE DEF b
  <2>2. n > 0 => LastSlot(b) <= slot \/ LastSlot(b) <= 0
    <3> SUFFICES ASSUME n > 0 PROVE LastSlot(b) <= slot \/ LastSlot(b) <= 0
      OBVIOUS
    <3>1. n \in 1..Len(StoredChain) /\ n \in 1..n
      BY <1>1, <1>2
    <3> QED BY <2>1, <3>1 DEF LastSlot, StoredInOrder, Init
  <2>3. ASSUME NEW i \in 2..n, b[i].src # "pow" PROVE b[i - 1].slot < b[i].slot
    <3>1. i \in 1..n /\ i - 1 \in 1..n /\ i \in 1..Len(StoredChain) /\ i > 1
      BY <1>1, <1>2
    <3>2. b[i] = StoredChain[i] /\ b[i - 1] = StoredChain[i - 1]
      BY <2>1, <3>1
    <3> QED BY <2>3, <3>1, <3>2 DEF StoredInOrder
  <2> QED BY <2>1, <2>2, <2>3 DEF b
<1>3. known = Ancestry(StoredChain) /\ pc = "idle" /\ \A t \in Ticks : task[t] = NoTask
  BY DEF Init
<1>4. BlocksInPast
  BY <1>2, <1>3 DEF BlocksInPast, Ancestry
<1>5. SlotsIncrease
  BY <1>2, <1>3 DEF SlotsIncrease, Ancestry
<1>6. \A t \in Ticks : TaskClock(t)
  BY <1>3, ConstantsAssumption DEF TaskClock, NoTask, Ticks
<1> QED BY <1>3, <1>4, <1>5, <1>6 DEF ClockInv

\* Steps that neither advance the clock nor add a block.
LEMMA QuietKeepsClock ==
    ASSUME ClockInv, \A u \in Ticks : Moves(u), pc' # "idle" => pc # "idle",
           UNCHANGED <<known, slot, tick>>
    PROVE  ClockInv'
<1>1. BlocksInPast' /\ SlotsIncrease'
  BY DEF ClockInv, BlocksInPast, SlotsIncrease
<1>2. ASSUME NEW u \in Ticks PROVE TaskClock(u)'
  BY <1>2 DEF ClockInv, TaskClock, Moves
<1> QED BY <1>1, <1>2 DEF ClockInv

\* A tick leaves all blocks and all goroutines behind.
LEMMA TickKeepsClock ==
    ASSUME IInv, ClockInv, NEW d \in Steps \ {0},
           \A u \in Ticks : Moves(u), UNCHANGED known,
           slot' = slot + d, pc = "idle",
           pc' = "idle" \/ (pc' = "parent" /\ slot' > 0)
    PROVE  ClockInv'
<1>1. slot \in Int /\ d \in Nat /\ d > 0 /\ slot' > slot /\ slot' \in Int
  BY ConstantsAssumption DEF IInv, TypeOK
<1>2. BlocksInPast'
  <2> SUFFICES ASSUME NEW b \in known, Len(b) > 0
               PROVE  /\ LastSlot(b) <= slot' \/ LastSlot(b) <= 0
                      /\ pc' # "idle" => LastSlot(b) < slot'
    BY DEF BlocksInPast
  <2>1. LastSlot(b) \in Int
    BY SlotFacts DEF IInv, TypeOK
  <2>2. LastSlot(b) <= slot \/ LastSlot(b) <= 0
    BY DEF ClockInv, BlocksInPast
  <2> QED BY <1>1, <2>1, <2>2
<1>3. SlotsIncrease'
  BY DEF ClockInv, SlotsIncrease
<1>4. ASSUME NEW u \in Ticks PROVE TaskClock(u)'
  <2>1. TaskClock(u) /\ Moves(u) /\ task[u].slot \in Int
    BY DEF ClockInv, IInv, TypeOK, Task
  <2>2. task'[u] # NoTask => task'[u].slot < slot'
    BY <1>1, <2>1 DEF TaskClock, Moves
  <2>3. task'[u] # NoTask => task'[u].slot <= slot'
    BY <1>1, <2>1, <2>2 DEF Moves
  <2> QED BY <2>1, <2>2, <2>3 DEF TaskClock, Moves
<1> QED BY <1>2, <1>3, <1>4 DEF ClockInv

\* An external block is later than its parent and belongs to the present slot.
LEMMA BuildExternalKeepsClock ==
    ASSUME IInv, ClockInv, BuildExternal
    PROVE  ClockInv'
<1>1. PICK s \in Seal :
         /\ s.slot = slot
         /\ StoreBlock(Append(parent, s))
         /\ parent \in known
         /\ tick \in Ticks
         /\ task'[tick].pc = "newPayload"
         /\ task'[tick].slot = slot
         /\ task'[tick].block = Append(parent, s)
         /\ task'[tick].final = finalized
         /\ task'[tick].id # tick
         /\ \A u \in Ticks \ {tick} : task'[u] = task[u]
  BY BuildExternalFacts
<1>2. /\ slot' = slot /\ tick' = tick /\ pc = "propose" /\ pc' = "idle"
      /\ slot \in Int /\ parent \in Block
      /\ known' = known \cup {Append(parent, s)}
  BY <1>1 DEF BuildExternal, StoreBlock, IInv, TypeOK
<1> DEFINE b == Append(parent, s)
<1>3. Len(b) > 0 /\ LastSlot(b) = slot
  <2>1. Len(parent) \in Nat
    BY <1>2, LenProperties DEF Block
  <2> QED BY <1>1, <1>2, <2>1, ChildOfBlock, SlotFacts
<1>4. Len(parent) > 0 => LastSlot(parent) < s.slot
  BY <1>1, <1>2 DEF ClockInv, BlocksInPast
<1>5. SlotsIncrease'
  BY <1>1, <1>2, <1>4, LaterChildKeepsOrder DEF ClockInv
<1>6. known' = known \cup {b} /\ task'[tick].block = b
  BY <1>1, <1>2
<1> HIDE DEF b
<1>7. BlocksInPast'
  BY <1>2, <1>3, <1>6 DEF ClockInv, BlocksInPast
<1>8. ASSUME NEW u \in Ticks PROVE TaskClock(u)'
  <2>1. CASE u = tick
    BY <1>1, <1>2, <1>3, <1>6, <2>1 DEF TaskClock
  <2>2. CASE u # tick
    BY <1>1, <1>2, <2>2 DEF ClockInv, TaskClock
  <2> QED BY <2>1, <2>2
<1> QED BY <1>2, <1>5, <1>7, <1>8 DEF ClockInv

\* A proposal is of the present slot.
LEMMA ReceiveProposalKeepsClock ==
    ASSUME IInv, ClockInv, ReceiveProposal
    PROVE  ClockInv'
<1>1. /\ slot' = slot /\ tick' = tick /\ pc' = "idle" /\ known' = known /\ slot \in Int
  BY DEF ReceiveProposal, chainVars, IInv, TypeOK
<1>2. BlocksInPast' /\ SlotsIncrease'
  BY <1>1 DEF ClockInv, BlocksInPast, SlotsIncrease
<1>3. ASSUME NEW u \in Ticks PROVE TaskClock(u)'
  <2>1. CASE u = tick
    <3>1. task'[tick].pc = "getPayload" /\ task'[tick].slot = slot /\ task'[tick].id # tick
      BY ReceiveProposalFacts
    <3> QED BY <1>1, <2>1, <3>1 DEF TaskClock
  <2>2. CASE u # tick
    BY <1>1, <2>2, ReceiveProposalFacts DEF ClockInv, TaskClock, Moves
  <2> QED BY <2>1, <2>2
<1> QED BY <1>1, <1>2, <1>3 DEF ClockInv

\* A payload is later than the block it was requested on, whoever delivers it.
LEMMA PayloadKeepsClock ==
    ASSUME IInv, ClockInv, NEW t \in Ticks, NEW i \in Prepared, NEW b \in Block,
           ParentOf(b) = task[i].block,
           Len(b) > 0,
           LastSlot(b) > task[i].slot,
           task[t].pc = "getPayload",
           task'[t].pc = "process", task'[t].block = b,
           task'[t].slot = task[t].slot, task'[t].id = task[t].id,
           \A u \in Ticks \ {t} : task'[u] = task[u],
           UNCHANGED <<slot, tick, pc, known>>
    PROVE  ClockInv'
<1>1. BlocksInPast' /\ SlotsIncrease'
  BY DEF ClockInv, BlocksInPast, SlotsIncrease
<1>2. i \in Ticks /\ task[i].id = i
  BY DEF Prepared
<1>3. LastSlot(ParentOf(b)) < LastSlot(b)
  <2>1. task[i].block \in Block /\ task[i].slot \in Int
    BY <1>2 DEF IInv, TypeOK, TaskInv, Merged, Task
  <2>2. Len(task[i].block) > 0 /\ LastSlot(task[i].block) <= task[i].slot
    BY <1>2 DEF ClockInv, TaskClock
  <2>3. LastSlot(b) \in Int /\ LastSlot(task[i].block) \in Int
    BY <2>1, <2>2, SlotFacts
  <2> QED BY <2>1, <2>2, <2>3
<1>4. task[t].id # t /\ task[t] # NoTask
  BY DEF IInv, TaskInv, NoTask
<1>5. ASSUME NEW u \in Ticks PROVE TaskClock(u)'
  <2>1. CASE u = t
    BY <1>3, <1>4, <2>1 DEF ClockInv, TaskClock
  <2>2. CASE u # t
    BY <2>2 DEF ClockInv, TaskClock
  <2> QED BY <2>1, <2>2
<1> QED BY <1>1, <1>5 DEF ClockInv

\* ValidateTimestamp dates a payload by the slot of its proposal, which is past
\* when the loop builds the block of a later slot at the same time.
LEMMA ProcessPayloadKeepsClock ==
    ASSUME IInv, ClockInv, NEW t \in Ticks, ProcessPayload(t)
    PROVE  ClockInv'
<1> DEFINE b == task[t].block
           p == ParentOf(b)
           s == b[Len(b)]
<1>1. /\ task[t].pc = "process" /\ b \in Block /\ Len(b) > 0 /\ p \in known
      /\ s.slot = task[t].slot
      /\ known' = known \cup {b}
  BY DEF ProcessPayload, ValidateTimestamp, StoreBlock, IInv, TaskInv
<1>2. p \in Block /\ s \in Seal /\ b = Append(p, s)
  BY <1>1, BlockIsChild
<1>3. Len(p) \in Nat /\ Len(b) = Len(p) + 1
  BY <1>2, ChildOfBlock, LenProperties DEF Block
<1>4. /\ slot' = slot /\ tick' = tick /\ pc' = pc
      /\ \A u \in Ticks : Moves(u)
  <2>1. Goroutine(t) /\ ~GetPayload(t) /\ TypeOK
    BY <1>1 DEF Goroutine, GetPayload, IInv
  <2> QED BY <2>1, GoroutineMoves
<1>5. LastSlot(b) = task[t].slot /\ (Len(p) > 0 => LastSlot(p) < s.slot)
  BY <1>1, <1>2, <1>3 DEF ClockInv, TaskClock, LastSlot
<1>6. task[t].slot <= slot /\ (pc # "idle" => task[t].slot < slot)
  <2>1. task[t] # NoTask
    BY <1>1 DEF NoTask
  <2>2. pc # "idle" => t # tick
    BY <2>1 DEF IInv, LoopInv
  <2> QED BY <2>1, <2>2 DEF ClockInv, TaskClock
<1> HIDE DEF p, s
<1>7. SlotsIncrease'
  BY <1>1, <1>2, <1>5, LaterChildKeepsOrder DEF ClockInv
<1> HIDE DEF b
<1>8. BlocksInPast'
  BY <1>1, <1>4, <1>5, <1>6 DEF ClockInv, BlocksInPast
<1>9. ASSUME NEW u \in Ticks PROVE TaskClock(u)'
  BY <1>4, <1>9 DEF ClockInv, TaskClock, Moves
<1> QED BY <1>4, <1>7, <1>8, <1>9 DEF ClockInv

\* The steps of the loop between a tick and the block, which only look.
LEMMA LookingMoves ==
    ASSUME ReadParent \/ CalcReorgTarget \/ BuildFails \/ NilParent
    PROVE  /\ pc # "idle"
           /\ UNCHANGED <<tick, slot, chainVars, finalityVars, task, sendq>>
           /\ \A u \in Ticks : Moves(u)
<1>1. pc # "idle" /\ UNCHANGED <<tick, slot, chainVars, finalityVars, task, sendq>>
  BY DEF ReadParent, CalcReorgTarget, BuildFails, NilParent
<1> QED BY <1>1, SameMoves

\* The loop keeps the clock, which advances with every tick.
LEMMA LoopKeepsClock ==
    ASSUME 0 \notin Steps, IInv, ClockInv, SlotLoop
    PROVE  ClockInv'
<1>1. ASSUME NEW d \in Steps,
             \/ BeforeGenesis(slot + d) \/ AtGenesis(slot + d) \/ ReachSlotBound(slot + d)
             \/ GapSlot(slot + d) \/ BadHashSlot(slot + d) \/ TriggerSlot(slot + d)
      PROVE  ClockInv'
  <2>1. /\ Tick(slot + d)
        /\ \A u \in Ticks : Moves(u)
        /\ UNCHANGED chainVars
        /\ pc' = "idle" \/ (pc' = "parent" /\ slot + d > 0)
    BY <1>1, TickMoves
  <2>2. slot' = slot + d /\ pc = "idle" /\ known' = known /\ d \in Steps \ {0}
    BY <2>1 DEF Tick, chainVars
  <2> QED BY <2>1, <2>2, TickKeepsClock
<1>2. CASE ReadParent \/ CalcReorgTarget \/ BuildFails \/ NilParent
  BY <1>2, LookingMoves, QuietKeepsClock DEF chainVars
<1>3. CASE ReceiveProposal
  BY <1>3, ReceiveProposalKeepsClock
<1>4. CASE BuildExternal
  BY <1>4, BuildExternalKeepsClock
<1> QED BY <1>1, <1>2, <1>3, <1>4 DEF SlotLoop

\* The goroutines keep the clock, however late they are.
LEMMA GoroutineKeepsClock ==
    ASSUME IInv, ClockInv, NEW t \in Ticks, Goroutine(t)
    PROVE  ClockInv'
<1>1. CASE GetPayload(t)
  <2>1. task[t].pc = "getPayload" /\ UNCHANGED <<slot, tick, pc, known>>
    BY <1>1 DEF GetPayload, chainVars
  <2> QED BY <1>1, <2>1, GetPayloadFacts, PayloadKeepsClock
<1>2. CASE ProcessPayload(t)
  BY <1>2, ProcessPayloadKeepsClock
<1>3. CASE ~GetPayload(t) /\ ~ProcessPayload(t)
  <2>1. (\A u \in Ticks : Moves(u)) /\ UNCHANGED <<pc, tick, slot, chainVars>>
    BY <1>3, GoroutineMoves DEF IInv
  <2> QED BY <2>1, QuietKeepsClock DEF chainVars
<1> QED BY <1>1, <1>2, <1>3

\* The clock, as an invariant of its own.
THEOREM ClockInvariance ==
    ASSUME 0 \notin Steps, StoredInOrder
    PROVE  Spec => []ClockInv
<1>1. IInv /\ ClockInv /\ [Next]_vars => ClockInv'
  <2> SUFFICES ASSUME IInv, ClockInv, [Next]_vars PROVE ClockInv'
    OBVIOUS
  <2>1. CASE SlotLoop
    BY <2>1, LoopKeepsClock
  <2>2. ASSUME NEW t \in Ticks, Goroutine(t) PROVE ClockInv'
    BY <2>2, GoroutineKeepsClock
  <2>3. CASE UNCHANGED vars
    <3>1. (\A u \in Ticks : Moves(u)) /\ UNCHANGED <<pc, tick, slot, known>>
      BY <2>3, SameMoves DEF vars
    <3> QED BY <3>1, QuietKeepsClock
  <2> QED BY <2>1, <2>2, <2>3 DEF Next
<1> QED BY <1>1, InitClock, Invariance, PTL DEF Spec

\* Time runs forward along every chain the mock builds, whatever the engine answers
\* and however late: a clock that advances and ValidateTimestamp are enough
\* (consensus.go, mock.go).
THEOREM TimeRunsForward ==
    ASSUME 0 \notin Steps, StoredInOrder
    PROVE  Spec => []SlotsIncrease
<1>1. ClockInv => SlotsIncrease
  BY DEF ClockInv
<1> QED BY <1>1, ClockInvariance, PTL

-----------------------------------------------------------------------------
(* A timely engine *)

\* The loop keeps taking turns with the goroutines if it waits for them.
LEMMA LoopKeepsTurns ==
    ASSUME IInv, TimelyInv, SlotLoop, pc = "idle" => \A t \in Ticks : ~Busy(t)
    PROVE  TimelyInv'
<1>0. sendq \in Seq(Ticks) /\ Len(sendq) \in Nat /\ Len(sendq) <= 1
  BY LenProperties DEF IInv, TypeOK, TimelyInv, OnePendingProposal
<1>1. ASSUME NEW d \in Steps,
             \/ BeforeGenesis(slot + d) \/ AtGenesis(slot + d) \/ ReachSlotBound(slot + d)
             \/ GapSlot(slot + d) \/ BadHashSlot(slot + d) \/ TriggerSlot(slot + d)
      PROVE  TimelyInv'
  <2>1. /\ Tick(slot + d)
        /\ \A u \in Ticks : Moves(u)
        /\ sendq' = sendq \/ (sendq # <<>> /\ sendq' = Tail(sendq))
    BY <1>1, TickMoves
  <2>2. \A u \in Ticks : ~Busy(u)'
    BY <2>1, MovesBusy DEF Tick
  <2>3. Len(sendq') <= 1
    BY <1>0, <2>1, TailFacts
  <2> QED BY <2>2, <2>3 DEF TimelyInv, OnePendingProposal
<1>2. CASE ReadParent \/ CalcReorgTarget \/ BuildFails \/ NilParent
  <2>1. \A u \in Ticks : ~Busy(u)'
    BY <1>2, LookingMoves, MovesBusy DEF TimelyInv
  <2> QED BY <1>0, <1>2, <2>1, LookingMoves DEF TimelyInv, OnePendingProposal
<1>3. CASE ReceiveProposal
  <2>1. /\ pc = "propose" /\ pc' = "idle" /\ tick' = tick
        /\ sendq # <<>> /\ sendq' = Tail(sendq)
    BY <1>3 DEF ReceiveProposal
  <2>2. sendq' = <<>> /\ Len(sendq') = 0
    <3>1. sendq' \in Seq(Ticks) /\ Len(sendq') = 0
      BY <1>0, <2>1, TailFacts, HeadOfSendq
    <3> QED BY <3>1, EmptySeq
  <2>3. ASSUME NEW u \in Ticks \ {tick} PROVE ~Busy(u)'
    BY <1>3, <2>1, ReceiveProposalFacts, MovesBusy DEF TimelyInv
  <2> QED BY <2>1, <2>2, <2>3 DEF TimelyInv, OnePendingProposal
<1>4. CASE BuildExternal
  <2>1. pc = "propose" /\ pc' = "idle" /\ tick' = tick /\ sendq = <<>> /\ sendq' = sendq
    BY <1>4 DEF BuildExternal, NotProposing
  <2>2. ASSUME NEW u \in Ticks \ {tick} PROVE ~Busy(u)'
    <3>1. task'[u] = task[u]
      BY <1>4, BuildExternalFacts
    <3> QED BY <2>1, <3>1, SameMoves, MovesBusy DEF TimelyInv
  <2> QED BY <1>0, <2>1, <2>2 DEF TimelyInv, OnePendingProposal
<1> QED BY <1>1, <1>2, <1>3, <1>4 DEF SlotLoop

\* A proposal that gets its payload, wherever from, goes on in its turn.
LEMMA PayloadKeepsTurns ==
    ASSUME IInv, TimelyInv, NEW t \in Ticks, Busy(t), UNCHANGED <<pc, tick, sendq>>,
           \A u \in Ticks \ {t} : task'[u] = task[u]
    PROVE  TimelyInv'
<1>1. Len(sendq) <= 1
  BY DEF TimelyInv, OnePendingProposal
<1>2. ASSUME NEW u \in Ticks, Busy(u)' PROVE Busy(u)
  BY <1>2, SameMoves, MovesBusy
<1> QED BY <1>1, <1>2 DEF TimelyInv, OnePendingProposal

\* So does every other goroutine.
LEMMA GoroutineKeepsTurns ==
    ASSUME IInv, TimelyInv, NEW t \in Ticks, Goroutine(t)
    PROVE  TimelyInv'
<1>0. sendq \in Seq(Ticks) /\ Len(sendq) \in Nat /\ Len(sendq) <= 1
  BY LenProperties DEF IInv, TypeOK, TimelyInv, OnePendingProposal
<1>1. CASE GetPayload(t)
  <2>1. Busy(t) /\ UNCHANGED <<pc, tick, sendq>> /\ \A u \in Ticks \ {t} : task'[u] = task[u]
    BY <1>1, GetPayloadFacts DEF GetPayload, Busy
  <2> QED BY <2>1, PayloadKeepsTurns
<1>2. CASE ~GetPayload(t)
  <2>1. /\ \A u \in Ticks : Moves(u)
        /\ UNCHANGED <<pc, tick>>
        /\ Busy(t)
        /\ \/ sendq' = sendq
           \/ sendq' = Append(sendq, t) /\ task'[t].pc = "send"
    BY <1>2, GoroutineMoves DEF IInv
  <2>2. t = tick /\ sendq = <<>> /\ \A u \in Ticks : Busy(u)' => Busy(u) /\ u = t
    BY <2>1, MovesBusy DEF TimelyInv
  <2>3. CASE sendq' = sendq
    BY <1>0, <2>1, <2>2, <2>3 DEF TimelyInv, OnePendingProposal
  <2>4. CASE sendq' = Append(sendq, t) /\ task'[t].pc = "send"
    <3>1. \A u \in Ticks : ~Busy(u)'
      BY <2>2, <2>4 DEF Busy
    <3>2. Len(sendq') = 1
      BY <1>0, <2>2, <2>4, AppendProperties, EmptySeq
    <3> QED BY <3>1, <3>2 DEF TimelyInv, OnePendingProposal
  <2> QED BY <2>1, <2>3, <2>4
<1> QED BY <1>1, <1>2

\* With a timely engine the loop and the goroutines take turns.
THEOREM TurnsAreTaken ==
    ASSUME EngineTimely
    PROVE  Spec => []TimelyInv
<1>1. Init => TimelyInv
  <2> SUFFICES ASSUME Init PROVE TimelyInv
    OBVIOUS
  <2>1. \A t \in Ticks : task[t] = NoTask
    BY DEF Init
  <2>2. \A t \in Ticks : ~Busy(t)
    BY <2>1 DEF Busy, NoTask
  <2>3. Len(sendq) = 0
    BY EmptySeq DEF Init
  <2> QED BY <2>2, <2>3 DEF TimelyInv, OnePendingProposal
<1>2. IInv /\ TimelyInv /\ [Next]_vars => TimelyInv'
  <2> SUFFICES ASSUME IInv, TimelyInv, [Next]_vars PROVE TimelyInv'
    OBVIOUS
  <2>1. CASE SlotLoop
    <3>1. pc = "idle" => \A t \in Ticks : ~Busy(t)
      BY <2>1 DEF SlotLoop, BeforeGenesis, AtGenesis, ReachSlotBound, GapSlot, BadHashSlot,
                  TriggerSlot, LiveSlot, Tick, ReadParent, CalcReorgTarget, ReceiveProposal,
                  BuildExternal, BuildFails, NilParent
    <3> QED BY <2>1, <3>1, LoopKeepsTurns
  <2>2. ASSUME NEW t \in Ticks, Goroutine(t) PROVE TimelyInv'
    BY <2>2, GoroutineKeepsTurns
  <2>3. CASE UNCHANGED vars
    BY <2>3 DEF vars, TimelyInv, OnePendingProposal, Busy
  <2> QED BY <2>1, <2>2, <2>3 DEF Next
<1> QED BY <1>1, <1>2, Invariance, PTL DEF Spec

\* With a timely engine at most one payload id waits in the channel: no goroutine
\* leaks in payloadId <- *id, however many slots run (consensus.go).
THEOREM NoProposalLeaks ==
    ASSUME EngineTimely
    PROVE  Spec => []OnePendingProposal
<1>1. TimelyInv => OnePendingProposal
  BY DEF TimelyInv
<1> QED BY <1>1, TurnsAreTaken, PTL

-----------------------------------------------------------------------------
(* A timely engine, and no reorgs *)

\* Under is transitive, and every block is under itself and under its children.
LEMMA UnderFacts ==
    /\ \A a, b, c \in BlockOrNone : Under(a, b) /\ Under(b, c) => Under(a, c)
    /\ \A b \in BlockOrNone : Under(b, b)
    /\ \A b \in Block, s \in Seal : Under(b, Append(b, s))
<1>1. ASSUME NEW a \in BlockOrNone, NEW b \in BlockOrNone, NEW c \in BlockOrNone,
             Under(a, b), Under(b, c)
      PROVE  Under(a, c)
  <2>1. CASE a = NoHash
    BY <2>1 DEF Under
  <2>2. CASE a # NoHash
    <3>1. b # NoHash /\ IsAncestor(a, b) /\ c # NoHash /\ IsAncestor(b, c)
      BY <1>1, <2>2 DEF Under
    <3>2. a \in Block /\ b \in Block /\ c \in Block
      BY <2>2, <3>1 DEF BlockOrNone
    <3>3. Len(a) \in Nat /\ Len(b) \in Nat /\ Len(c) \in Nat
      BY <3>2, LenProperties DEF Block
    <3>4. IsAncestor(a, c)
      BY <3>1, <3>3 DEF IsAncestor
    <3> QED BY <3>1, <3>4 DEF Under
  <2> QED BY <2>1, <2>2
<1>2. ASSUME NEW b \in BlockOrNone PROVE Under(b, b)
  BY AncestorOfItself DEF Under, BlockOrNone
<1>3. ASSUME NEW b \in Block, NEW s \in Seal PROVE Under(b, Append(b, s))
  <2>1. Append(b, s) \in Block /\ IsAncestor(b, Append(b, s))
    BY ChildOfBlock, AncestorOfItself, AncestorOfChild
  <2> QED BY <2>1, NoHashAssumption DEF Under
<1> QED BY <1>1, <1>2, <1>3

\* The hashes RunNode remembers are of blocks, or zero.
LEMMA HashTypes ==
    ASSUME TypeOK
    PROVE  /\ {finalized, nextFinalized, head} \subseteq BlockOrNone
           /\ head \in Block
BY DEF TypeOK, BlockOrNone

\* A child of the head becomes the head, and finality stays under it.
LEMMA ChildOfHead ==
    ASSUME IInv, LinearInv, NEW s \in Seal, StoreBlock(Append(head, s))
    PROVE  /\ head' = Append(head, s)
           /\ Under(nextFinalized, head')
           /\ Under(finalized, head')
<1> DEFINE b == Append(head, s)
<1>1. head \in Block /\ {finalized, nextFinalized, head} \subseteq BlockOrNone
  BY HashTypes DEF IInv
<1>2. b \in Block /\ Len(b) = Len(head) + 1 /\ Len(head) \in Nat /\ Under(head, b)
  BY <1>1, ChildOfBlock, UnderFacts, LenProperties DEF Block
<1>3. head' = IF IsAncestor(b, head) THEN head ELSE b
  BY DEF StoreBlock, InsertChain
<1> HIDE DEF b
<1>4. head' = b
  BY <1>2, <1>3 DEF IsAncestor
<1>5. Under(finalized, nextFinalized) /\ Under(nextFinalized, head) /\ b \in BlockOrNone
  BY <1>2 DEF LinearInv, BlockOrNone
<1>6. Under(nextFinalized, b)
  BY <1>1, <1>2, <1>5, UnderFacts
<1>7. Under(finalized, b)
  BY <1>1, <1>5, <1>6, UnderFacts
<1> QED BY <1>4, <1>6, <1>7 DEF b

\* A reorg of depth 0 builds on the head.
LEMMA ReorgOfDepthZero ==
    ASSUME NoReorg, IInv, LinearInv, CalcReorgTarget
    PROVE  parent' = head
<1>1. pc = "reorg" /\ parent = head /\ ReorgMaxDepth = 0
  BY DEF CalcReorgTarget, LinearInv, NoReorg
<1>2. head \in Block /\ Len(head) \in Nat /\ IsAncestor(Terminal, head)
  BY LenProperties DEF IInv, TypeOK, LoopInv, Merged, Block
<1>3. ReorgMin \in Nat /\ ReorgMin <= Len(head)
  <2>1. ReorgMin \in Nat /\ TransitionBlock \in Nat /\ Len(Terminal) = TransitionBlock
    BY ReorgMinBound, TerminalBlock, ConstantsAssumption, LenProperties DEF IInv, Block
  <2>2. TransitionBlock <= Len(head)
    BY <1>2, <2>1 DEF IsAncestor
  <2>3. CASE finalized \in known
    <3>1. finalized # NoHash /\ finalized \in Block /\ Len(finalized) \in Nat
      BY <2>3, NoHashAssumption, LenProperties DEF IInv, TypeOK, Block
    <3>2. Under(finalized, head)
      BY HashTypes, UnderFacts DEF IInv, LinearInv
    <3>3. Len(finalized) <= Len(head)
      BY <3>1, <3>2 DEF Under, IsAncestor
    <3>4. TransitionBlock \in Int /\ Number(finalized) \in Int
      BY <2>1, <3>1 DEF Number
    <3>5. Max({TransitionBlock, Number(finalized)}) \in {TransitionBlock, Number(finalized)}
      BY <3>4, MaxOfTwo
    <3> QED BY <2>1, <2>2, <2>3, <3>3, <3>5 DEF ReorgMin, Number
  <2>4. CASE finalized \notin known
    BY <2>1, <2>2, <2>4 DEF ReorgMin
  <2> QED BY <2>3, <2>4
<1>4. PICK depth \in 0..ReorgMaxDepth :
         parent' = GetHeaderByNumber(head, Max({Number(parent) - depth, ReorgMin}))
  BY DEF CalcReorgTarget, Depths
<1>5. Number(parent) - depth = Len(head)
  BY <1>1, <1>2, <1>4 DEF Number
<1>6. Max({Len(head), ReorgMin}) = Len(head)
  <2>1. Len(head) \in Int /\ ReorgMin \in Int
    BY <1>2, <1>3
  <2>2. /\ Max({Len(head), ReorgMin}) \in {Len(head), ReorgMin}
        /\ Max({Len(head), ReorgMin}) >= Len(head)
    BY <2>1, MaxOfTwo
  <2> QED BY <1>3, <2>1, <2>2
<1>7. parent' = GetHeaderByNumber(head, Len(head))
  BY <1>4, <1>5, <1>6
<1>8. SubSeq(head, 1, Len(head)) = head
  BY <1>2, WholePrefix
<1> QED BY <1>2, <1>7, <1>8 DEF GetHeaderByNumber

\* Every step keeps the chain a line.
LEMMA StepKeepsLine ==
    ASSUME EngineTimely, NoReorg, IInv, TimelyInv, LinearInv, [Next]_vars
    PROVE  LinearInv'
<1>0. sendq \in Seq(Ticks) /\ Len(sendq) \in Nat /\ head \in Block /\ TypeOK
  BY LenProperties DEF IInv, TypeOK
<1>1. ASSUME NEW d \in Steps,
             \/ BeforeGenesis(slot + d) \/ AtGenesis(slot + d) \/ ReachSlotBound(slot + d)
             \/ GapSlot(slot + d) \/ BadHashSlot(slot + d) \/ TriggerSlot(slot + d)
      PROVE  LinearInv'
  <2>1. /\ Tick(slot + d)
        /\ \A u \in Ticks : Moves(u)
        /\ UNCHANGED chainVars
        /\ pc' = "idle" \/ pc' = "parent"
        /\ sendq' = sendq \/ (sendq # <<>> /\ sendq' = Tail(sendq))
        /\ UpdateFinality(slot + d) \/ UNCHANGED <<finalized, nextFinalized>>
    BY <1>1, TickMoves
  <2>2. head' = head /\ \A u \in Ticks : ~Busy(u)'
    BY <2>1, MovesBusy DEF Tick, chainVars
  <2>3. \A u \in Ticks : TaskLinear(u)'
    BY <2>2 DEF TaskLinear, Busy
  <2>4. \A k \in 1..Len(sendq') : task'[sendq'[k]].block = head
    <3>1. \A k \in 1..Len(sendq) : sendq[k] \in Ticks /\ task[sendq[k]].block = head
      BY <1>0, ElementOfSeq DEF LinearInv
    <3>2. \A k \in 1..Len(sendq) : task'[sendq[k]].block = head
      BY <2>1, <3>1 DEF Moves
    <3>3. CASE sendq' = sendq
      BY <3>2, <3>3
    <3>4. CASE sendq # <<>> /\ sendq' = Tail(sendq)
      <4>1. Len(sendq') = Len(sendq) - 1 /\ \A k \in 1..Len(sendq') : sendq'[k] = sendq[k + 1]
        BY <3>4, TailFacts
      <4> QED BY <1>0, <3>2, <4>1
    <3> QED BY <2>1, <3>3, <3>4
  <2>5. Under(finalized, nextFinalized)' /\ Under(nextFinalized, head)'
    <3>1. Under(finalized, nextFinalized) /\ Under(nextFinalized, head) /\ Under(head, head)
      BY <1>0, HashTypes, UnderFacts DEF LinearInv
    <3>2. \/ finalized' = nextFinalized /\ nextFinalized' = head
          \/ finalized' = finalized /\ nextFinalized' = nextFinalized
      BY <2>1 DEF UpdateFinality, finalityVars
    <3> QED BY <2>2, <3>1, <3>2 DEF Under
  <2> QED BY <2>1, <2>2, <2>3, <2>4, <2>5 DEF LinearInv
<1>2. CASE ReadParent \/ CalcReorgTarget \/ BuildFails \/ NilParent
  <2>1. /\ pc # "idle"
        /\ UNCHANGED <<head, finalized, nextFinalized, task, sendq>>
    BY <1>2, LookingMoves DEF chainVars, finalityVars
  <2>2. \A u \in Ticks : TaskLinear(u)'
    BY <2>1 DEF LinearInv, TaskLinear
  <2>3. /\ pc' = "reorg" => "reorg" \in Faked
        /\ pc' \in {"reorg", "propose"} => parent' = head
    BY <1>2, ReorgOfDepthZero DEF ReadParent, CalcReorgTarget, BuildFails, NilParent, LinearInv
  <2> QED BY <2>1, <2>2, <2>3 DEF LinearInv, Under
<1>3. CASE ReceiveProposal
  <2>1. /\ pc = "propose" /\ pc' = "idle" /\ tick' = tick /\ sendq # <<>>
        /\ UNCHANGED <<head, finalized, nextFinalized>>
    BY <1>3 DEF ReceiveProposal, chainVars, finalityVars
  <2>2. ASSUME NEW u \in Ticks \ {tick} PROVE ~Busy(u)'
    BY <1>3, <2>1, ReceiveProposalFacts, MovesBusy DEF TimelyInv
  <2>3. /\ Head(sendq) \in Ticks \ {tick} /\ task'[tick].pc = "getPayload"
        /\ task'[tick].id = Head(sendq)
        /\ task'[Head(sendq)].block = task[Head(sendq)].block
    BY <1>3, ReceiveProposalFacts DEF Moves
  <2>4. task[Head(sendq)].block = head
    <3>1. Head(sendq) = sendq[1] /\ 1 \in 1..Len(sendq)
      BY <1>0, <2>1, TailFacts
    <3> QED BY <3>1 DEF LinearInv
  <2>5. ASSUME NEW u \in Ticks PROVE TaskLinear(u)'
    BY <2>1, <2>2, <2>3, <2>4 DEF TaskLinear, Busy
  <2>6. Len(sendq') = 0
    BY <1>0, <1>3, <2>1, TailFacts DEF ReceiveProposal, TimelyInv, OnePendingProposal
  <2> QED BY <2>1, <2>5, <2>6 DEF LinearInv, Under
<1>4. CASE BuildExternal
  <2>1. /\ pc = "propose" /\ pc' = "idle" /\ sendq' = <<>> /\ parent = head
        /\ UNCHANGED <<finalized, nextFinalized>>
    BY <1>4 DEF BuildExternal, NotProposing, finalityVars, LinearInv
  <2>2. PICK s \in Seal :
           /\ StoreBlock(Append(parent, s))
           /\ task'[tick].pc = "newPayload"
           /\ task'[tick].block = Append(parent, s)
           /\ task'[tick].final = finalized
           /\ \A u \in Ticks \ {tick} : task'[u] = task[u]
    BY <1>4, BuildExternalFacts
  <2>3. head' = Append(head, s) /\ Under(nextFinalized, head') /\ Under(finalized, head')
    BY <2>1, <2>2, ChildOfHead
  <2>4. ASSUME NEW u \in Ticks \ {tick} PROVE ~Busy(u)'
    BY <2>1, <2>2, SameMoves, MovesBusy DEF TimelyInv
  <2>5. ASSUME NEW u \in Ticks PROVE TaskLinear(u)'
    BY <2>1, <2>2, <2>3, <2>4 DEF TaskLinear, Busy, Under
  <2>6. Len(sendq') = 0
    BY <2>1, EmptySeq
  <2> QED BY <2>1, <2>3, <2>5, <2>6 DEF LinearInv, Under
<1>5. ASSUME NEW t \in Ticks, Goroutine(t) PROVE LinearInv'
  <2>1. CASE GetPayload(t)
    <3>1. PICK i \in Obtainable(t), b \in Block :
             /\ i \in Prepared
             /\ ParentOf(b) = task[i].block
             /\ task'[t].pc = "process" /\ task'[t].block = b
             /\ \A u \in Ticks \ {t} : task'[u] = task[u]
      BY <2>1, GetPayloadFacts
    <3>2. /\ UNCHANGED <<pc, tick, parent, head, finalized, nextFinalized, sendq>>
          /\ task[t].pc = "getPayload" /\ Busy(t)
      BY <2>1 DEF GetPayload, chainVars, finalityVars, Busy
    <3>3. sendq = <<>> /\ t = tick
      BY <3>2 DEF TimelyInv
    <3>4. task[i].block = head
      BY <3>2 DEF Obtainable, LinearInv, TaskLinear
    <3>5. ASSUME NEW u \in Ticks \ {t} PROVE ~Busy(u)'
      BY <3>1, <3>3, SameMoves, MovesBusy DEF TimelyInv
    <3>6. ASSUME NEW u \in Ticks PROVE TaskLinear(u)'
      BY <3>1, <3>2, <3>4, <3>5 DEF TaskLinear, Busy
    <3>7. Len(sendq') = 0
      BY <3>2, <3>3, EmptySeq
    <3> QED BY <3>2, <3>6, <3>7 DEF LinearInv, Under
  <2>2. CASE ProcessPayload(t)
    <3> DEFINE b == task[t].block
               s == b[Len(b)]
    <3>1. b \in Block /\ Len(b) > 0 /\ ParentOf(b) = head /\ StoreBlock(b) /\ Busy(t)
      BY <2>2 DEF ProcessPayload, IInv, TaskInv, LinearInv, TaskLinear, Busy
    <3>2. s \in Seal /\ b = Append(head, s)
      BY <3>1, BlockIsChild
    <3> HIDE DEF b, s
    <3>3. head' = Append(head, s) /\ Under(nextFinalized, head')
      BY <3>1, <3>2, ChildOfHead
    <3>4. (\A u \in Ticks : Moves(u)) /\ UNCHANGED <<pc, parent, finalized, nextFinalized>>
      <4>1. ~GetPayload(t)
        BY <2>2 DEF ProcessPayload, GetPayload
      <4> QED BY <1>0, <1>5, <4>1, GoroutineMoves DEF finalityVars
    <3>5. sendq = <<>> /\ t = tick /\ pc = "idle" /\ sendq' = sendq
      BY <2>2, <3>1 DEF TimelyInv, ProcessPayload
    <3>6. task'[t].pc = "execute"
      BY <1>0, <2>2 DEF ProcessPayload, Goto, TypeOK, Task
    <3>7. ASSUME NEW u \in Ticks PROVE TaskLinear(u)'
      <4>1. CASE u = t
        BY <3>6, <4>1 DEF TaskLinear
      <4>2. CASE u # t
        <5>1. ~Busy(u)'
          BY <3>4, <3>5, <4>2, MovesBusy DEF TimelyInv
        <5> QED BY <5>1 DEF TaskLinear, Busy
      <4> QED BY <4>1, <4>2
    <3>8. Len(sendq') = 0
      BY <3>5, EmptySeq
    <3> QED BY <3>3, <3>4, <3>5, <3>7, <3>8 DEF LinearInv, Under
  <2>3. CASE ~GetPayload(t) /\ ~ProcessPayload(t)
    <3>1. /\ \A u \in Ticks : Moves(u)
          /\ UNCHANGED <<pc, tick, parent, finalized, nextFinalized, head>>
          /\ Busy(t)
          /\ sendq' = sendq \/ (sendq' = Append(sendq, t) /\ task[t].pc = "forkchoice")
      BY <1>0, <1>5, <2>3, GoroutineMoves DEF finalityVars, chainVars
    <3>2. ASSUME NEW u \in Ticks PROVE TaskLinear(u)'
      <4>1. TaskLinear(u) /\ Moves(u)
        BY <3>1 DEF LinearInv
      <4>2. task'[u].pc = "getPayload" => task'[task'[u].id].block = head
        <5> SUFFICES ASSUME task'[u].pc = "getPayload"
                     PROVE  task'[task'[u].id].block = head
          OBVIOUS
        <5>1. task[u].pc = "getPayload" /\ task'[u].id = task[u].id
          BY <4>1 DEF Moves
        <5>2. task[u].id \in Ticks
          BY <5>1 DEF IInv, TaskInv, Prepared
        <5>3. task'[task[u].id].block = task[task[u].id].block
          BY <3>1, <5>2 DEF Moves
        <5> QED BY <4>1, <5>1, <5>3 DEF TaskLinear
      <4> QED BY <3>1, <4>1, <4>2 DEF TaskLinear, Moves, Under
    <3>3. sendq = <<>> /\ Len(sendq) = 0
      BY <3>1, EmptySeq DEF TimelyInv
    <3>4. \A k \in 1..Len(sendq') : task'[sendq'[k]].block = head
      <4>1. CASE sendq' = sendq
        BY <3>3, <4>1
      <4>2. CASE sendq' = Append(sendq, t) /\ task[t].pc = "forkchoice"
        <5>1. Len(sendq') = 1 /\ sendq'[1] = t
          BY <1>0, <3>3, <4>2, AppendProperties
        <5>2. task'[t].block = head
          BY <3>1, <4>2 DEF LinearInv, TaskLinear, Moves
        <5> QED BY <5>1, <5>2
      <4> QED BY <3>1, <4>1, <4>2
    <3> QED BY <3>1, <3>2, <3>4 DEF LinearInv, Under
  <2> QED BY <2>1, <2>2, <2>3
<1>6. CASE UNCHANGED vars
  <2>1. UNCHANGED <<pc, parent, head, finalized, nextFinalized, task, sendq>>
    BY <1>6 DEF vars
  <2>2. \A u \in Ticks : TaskLinear(u)'
    BY <2>1 DEF LinearInv, TaskLinear
  <2> QED BY <2>1, <2>2 DEF LinearInv, Under
<1> QED BY <1>1, <1>2, <1>3, <1>4, <1>5, <1>6 DEF Next, SlotLoop

\* Against a timely engine and without reorgs, what is final lies under what is
\* next, which lies under the head; and every forkchoice update in flight names the
\* head of now and carries a final block under it (consensus.go, RunNode).
THEOREM FinalityIsConsistent ==
    ASSUME EngineTimely, NoReorg
    PROVE  Spec => [](FinalityIsPrefix /\ ForkchoiceNamesHead)
<1>1. Init => LinearInv
  <2> SUFFICES ASSUME Init PROVE LinearInv
    OBVIOUS
  <2>1. \A t \in Ticks : task[t] = NoTask
    BY DEF Init
  <2>2. \A t \in Ticks : TaskLinear(t)
    BY <2>1 DEF TaskLinear, NoTask
  <2>3. Len(sendq) = 0
    BY EmptySeq DEF Init
  <2> QED BY <2>2, <2>3 DEF Init, LinearInv, Under
<1>2. IInv /\ TimelyInv /\ LinearInv /\ [Next]_vars => LinearInv'
  BY StepKeepsLine
<1>3. LinearInv => FinalityIsPrefix /\ ForkchoiceNamesHead
  BY DEF LinearInv, TaskLinear, FinalityIsPrefix, ForkchoiceNamesHead
<1> QED BY <1>1, <1>2, <1>3, Invariance, TurnsAreTaken, PTL DEF Spec

-----------------------------------------------------------------------------
(* A timely engine, and reorgs *)

\* Whatever is pending or being executed stays on the head, as long as the loop's
\* own blocks become the head.
LEMMA StepKeepsHead ==
    ASSUME EngineTimely, IInv, TimelyInv, HeadInv, [Next]_vars,
           BuildExternal => head' = task'[tick].block
    PROVE  HeadInv'
<1>0. sendq \in Seq(Ticks) /\ Len(sendq) \in Nat /\ head \in Block /\ TypeOK
  BY LenProperties DEF IInv, TypeOK
<1>1. ASSUME NEW d \in Steps,
             \/ BeforeGenesis(slot + d) \/ AtGenesis(slot + d) \/ ReachSlotBound(slot + d)
             \/ GapSlot(slot + d) \/ BadHashSlot(slot + d) \/ TriggerSlot(slot + d)
      PROVE  HeadInv'
  <2>1. /\ Tick(slot + d)
        /\ \A u \in Ticks : Moves(u)
        /\ UNCHANGED chainVars
        /\ sendq' = sendq \/ (sendq # <<>> /\ sendq' = Tail(sendq))
    BY <1>1, TickMoves
  <2>2. head' = head /\ \A u \in Ticks : ~Busy(u)'
    BY <2>1, MovesBusy DEF Tick, chainVars
  <2>3. \A u \in Ticks : TaskOnHead(u)'
    BY <2>2 DEF TaskOnHead, Busy
  <2>4. \A k \in 1..Len(sendq) : task'[sendq[k]].block = head
    <3>1. \A k \in 1..Len(sendq) : sendq[k] \in Ticks /\ task[sendq[k]].block = head
      BY <1>0, ElementOfSeq DEF HeadInv
    <3> QED BY <2>1, <3>1 DEF Moves
  <2>5. CASE sendq' = sendq
    BY <2>2, <2>3, <2>4, <2>5 DEF HeadInv
  <2>6. CASE sendq # <<>> /\ sendq' = Tail(sendq)
    <3>1. Len(sendq') = Len(sendq) - 1 /\ \A k \in 1..Len(sendq') : sendq'[k] = sendq[k + 1]
      BY <2>6, TailFacts
    <3>2. \A k \in 1..Len(sendq') : task'[sendq'[k]].block = head
      BY <1>0, <2>4, <3>1
    <3> QED BY <2>2, <2>3, <3>2 DEF HeadInv
  <2> QED BY <2>1, <2>5, <2>6
<1>2. CASE (ReadParent \/ CalcReorgTarget \/ BuildFails \/ NilParent) \/ UNCHANGED vars
  <2>1. UNCHANGED <<head, task, sendq>>
    BY <1>2, LookingMoves DEF chainVars, vars
  <2> QED BY <2>1 DEF HeadInv, TaskOnHead
<1>3. CASE ReceiveProposal
  <2>1. pc = "propose" /\ tick' = tick /\ sendq # <<>> /\ head' = head
    BY <1>3 DEF ReceiveProposal, chainVars
  <2>2. ASSUME NEW u \in Ticks \ {tick} PROVE ~Busy(u)'
    BY <1>3, <2>1, ReceiveProposalFacts, MovesBusy DEF TimelyInv
  <2>3. /\ Head(sendq) \in Ticks \ {tick} /\ task'[tick].pc = "getPayload"
        /\ task'[tick].id = Head(sendq)
        /\ task'[Head(sendq)].block = task[Head(sendq)].block
    BY <1>3, ReceiveProposalFacts DEF Moves
  <2>4. task[Head(sendq)].block = head
    <3>1. Head(sendq) = sendq[1] /\ 1 \in 1..Len(sendq)
      BY <1>0, <2>1, TailFacts
    <3> QED BY <3>1 DEF HeadInv
  <2>5. ASSUME NEW u \in Ticks PROVE TaskOnHead(u)'
    BY <2>1, <2>2, <2>3, <2>4 DEF TaskOnHead, Busy
  <2>6. Len(sendq') = 0
    BY <1>0, <1>3, <2>1, TailFacts DEF ReceiveProposal, TimelyInv, OnePendingProposal
  <2> QED BY <2>5, <2>6 DEF HeadInv
<1>4. CASE BuildExternal
  <2>1. pc = "propose" /\ sendq' = <<>>
    BY <1>4 DEF BuildExternal, NotProposing
  <2>2. /\ task'[tick].pc = "newPayload"
        /\ \A u \in Ticks \ {tick} : task'[u] = task[u]
    BY <1>4, BuildExternalFacts
  <2>3. ASSUME NEW u \in Ticks \ {tick} PROVE ~Busy(u)'
    BY <2>1, <2>2, SameMoves, MovesBusy DEF TimelyInv
  <2>4. ASSUME NEW u \in Ticks PROVE TaskOnHead(u)'
    BY <1>4, <2>2, <2>3 DEF TaskOnHead, Busy
  <2>5. Len(sendq') = 0
    BY <2>1, EmptySeq
  <2> QED BY <2>4, <2>5 DEF HeadInv
<1>5. ASSUME NEW t \in Ticks, Goroutine(t) PROVE HeadInv'
  <2>1. CASE GetPayload(t)
    <3>1. PICK i \in Obtainable(t), b \in Block :
             /\ i \in Prepared
             /\ ParentOf(b) = task[i].block
             /\ task'[t].pc = "process" /\ task'[t].block = b
             /\ \A u \in Ticks \ {t} : task'[u] = task[u]
      BY <2>1, GetPayloadFacts
    <3>2. UNCHANGED <<head, sendq>> /\ task[t].pc = "getPayload" /\ Busy(t)
      BY <2>1 DEF GetPayload, chainVars, Busy
    <3>3. sendq = <<>> /\ t = tick
      BY <3>2 DEF TimelyInv
    <3>4. task[i].block = head
      BY <3>2 DEF Obtainable, HeadInv, TaskOnHead
    <3>5. ASSUME NEW u \in Ticks \ {t} PROVE ~Busy(u)'
      BY <3>1, <3>3, SameMoves, MovesBusy DEF TimelyInv
    <3>6. ASSUME NEW u \in Ticks PROVE TaskOnHead(u)'
      BY <3>1, <3>2, <3>4, <3>5 DEF TaskOnHead, Busy
    <3>7. Len(sendq') = 0
      BY <3>2, <3>3, EmptySeq
    <3> QED BY <3>6, <3>7 DEF HeadInv
  <2>2. CASE ProcessPayload(t)
    <3>1. Busy(t) /\ ~GetPayload(t) /\ sendq' = sendq
      BY <2>2 DEF ProcessPayload, GetPayload, Busy
    <3>2. \A u \in Ticks : Moves(u)
      BY <1>0, <1>5, <3>1, GoroutineMoves
    <3>3. sendq = <<>> /\ t = tick
      BY <3>1 DEF TimelyInv
    <3>4. task'[t].pc = "execute"
      BY <1>0, <2>2 DEF ProcessPayload, Goto, TypeOK, Task
    <3>5. ASSUME NEW u \in Ticks PROVE TaskOnHead(u)'
      <4>1. CASE u = t
        BY <3>4, <4>1 DEF TaskOnHead
      <4>2. CASE u # t
        <5>1. ~Busy(u)'
          BY <3>2, <3>3, <4>2, MovesBusy DEF TimelyInv
        <5> QED BY <5>1 DEF TaskOnHead, Busy
      <4> QED BY <4>1, <4>2
    <3>6. Len(sendq') = 0
      BY <3>1, <3>3, EmptySeq
    <3> QED BY <3>5, <3>6 DEF HeadInv
  <2>3. CASE ~GetPayload(t) /\ ~ProcessPayload(t)
    <3>1. /\ \A u \in Ticks : Moves(u)
          /\ head' = head
          /\ Busy(t)
          /\ sendq' = sendq \/ (sendq' = Append(sendq, t) /\ task[t].pc = "forkchoice")
      BY <1>0, <1>5, <2>3, GoroutineMoves DEF chainVars
    <3>2. ASSUME NEW u \in Ticks PROVE TaskOnHead(u)'
      <4>1. TaskOnHead(u) /\ Moves(u)
        BY <3>1 DEF HeadInv
      <4>2. task'[u].pc = "getPayload" => task'[task'[u].id].block = head
        <5> SUFFICES ASSUME task'[u].pc = "getPayload"
                     PROVE  task'[task'[u].id].block = head
          OBVIOUS
        <5>1. task[u].pc = "getPayload" /\ task'[u].id = task[u].id
          BY <4>1 DEF Moves
        <5>2. task[u].id \in Ticks
          BY <5>1 DEF IInv, TaskInv, Prepared
        <5>3. task'[task[u].id].block = task[task[u].id].block
          BY <3>1, <5>2 DEF Moves
        <5> QED BY <4>1, <5>1, <5>3 DEF TaskOnHead
      <4> QED BY <3>1, <4>1, <4>2 DEF TaskOnHead, Moves
    <3>3. sendq = <<>> /\ Len(sendq) = 0
      BY <3>1, EmptySeq DEF TimelyInv
    <3>4. \A k \in 1..Len(sendq') : task'[sendq'[k]].block = head
      <4>1. CASE sendq' = sendq
        BY <3>3, <4>1
      <4>2. CASE sendq' = Append(sendq, t) /\ task[t].pc = "forkchoice"
        <5>1. Len(sendq') = 1 /\ sendq'[1] = t
          BY <1>0, <3>3, <4>2, AppendProperties
        <5>2. task'[t].block = head
          BY <3>1, <4>2 DEF HeadInv, TaskOnHead, Moves
        <5> QED BY <5>1, <5>2
      <4> QED BY <3>1, <4>1, <4>2
    <3> QED BY <3>1, <3>2, <3>4 DEF HeadInv
  <2> QED BY <2>1, <2>2, <2>3
<1> QED BY <1>1, <1>2, <1>3, <1>4, <1>5 DEF Next, SlotLoop

\* Nothing is pending at the start.
LEMMA InitHead == Init => HeadInv
<1> SUFFICES ASSUME Init PROVE HeadInv
  OBVIOUS
<1>1. \A t \in Ticks : task[t] = NoTask
  BY DEF Init
<1>2. \A t \in Ticks : TaskOnHead(t)
  BY <1>1 DEF TaskOnHead, NoTask
<1>3. Len(sendq) = 0
  BY EmptySeq DEF Init
<1> QED BY <1>2, <1>3 DEF HeadInv

\* A block that is stored becomes the head, unless it is an old ancestor of it.
LEMMA StoredBecomesHead ==
    ASSUME NEW b, StoreBlock(b)
    PROVE  head' = IF IsAncestor(b, head) THEN head ELSE b
BY DEF StoreBlock, InsertChain

\* A block built on the head or on its parent is as high as the head, and becomes it.
LEMMA ShallowChildIsHead ==
    ASSUME NEW h \in Block, NEW b \in Block, NEW h2, Len(b) >= Len(h),
           h2 = IF IsAncestor(b, h) THEN h ELSE b
    PROVE  h2 = b
<1>1. Len(h) \in Nat /\ Len(b) \in Nat
  BY LenProperties DEF Block
<1>2. CASE IsAncestor(b, h)
  <2>1. Len(b) = Len(h) /\ \A i \in 1..Len(b) : b[i] = h[i]
    BY <1>1, <1>2 DEF IsAncestor
  <2>2. b = h
    BY <2>1, BlockEqual
  <2> QED BY <1>2, <2>2
<1>3. CASE ~IsAncestor(b, h)
  BY <1>3
<1> QED BY <1>2, <1>3

\* Without deep reorgs the block of a slot becomes the head.
LEMMA ShallowBuild ==
    ASSUME IInv, ShallowInv, BuildExternal
    PROVE  head' = task'[tick].block /\ Number(head') >= Number(head)
<1>1. PICK s \in Seal :
         /\ StoreBlock(Append(parent, s))
         /\ parent \in known
         /\ task'[tick].block = Append(parent, s)
  BY BuildExternalFacts
<1>2. parent \in Block /\ head \in Block /\ Len(parent) \in Nat /\ Len(head) \in Nat
  BY <1>1, LenProperties DEF IInv, TypeOK, Block
<1>3. Number(parent) >= Number(head) - 1
  BY DEF ShallowInv, BuildExternal
<1>4. PICK b \in Block : b = Append(parent, s) /\ Len(b) = Len(parent) + 1
  BY <1>2, ChildOfBlock
<1>5. Len(b) >= Len(head)
  BY <1>2, <1>3, <1>4 DEF Number
<1>6. head' = IF IsAncestor(b, head) THEN head ELSE b
  BY <1>1, <1>4, StoredBecomesHead
<1>7. PICK h2 : h2 = head' OBVIOUS
<1>8. h2 = b
  BY <1>2, <1>5, <1>6, <1>7, ShallowChildIsHead
<1> QED BY <1>1, <1>4, <1>5, <1>7, <1>8 DEF Number

\* The lower bound of a shallow reorg is not above the head.
LEMMA ShallowReorgMin ==
    ASSUME IInv, ShallowInv
    PROVE  ReorgMin \in Nat /\ ReorgMin <= Len(head)
<1>1. head \in Block /\ Len(head) \in Nat /\ IsAncestor(Terminal, head)
  BY LenProperties DEF IInv, TypeOK, LoopInv, Merged, Block
<1>2. ReorgMin \in Nat /\ TransitionBlock \in Nat /\ Len(Terminal) = TransitionBlock
  BY ReorgMinBound, TerminalBlock, ConstantsAssumption, LenProperties DEF IInv, Block
<1>3. TransitionBlock <= Len(head)
  BY <1>1, <1>2 DEF IsAncestor
<1>4. CASE finalized \in known
  <2>1. finalized # NoHash /\ finalized \in Block /\ Len(finalized) \in Nat
    BY <1>4, NoHashAssumption, LenProperties DEF IInv, TypeOK, Block
  <2>2. Height(finalized) = Len(finalized) /\ Height(nextFinalized) \in Nat
    BY <2>1, LenProperties DEF Height, Number, IInv, TypeOK, Block
  <2>3. Len(finalized) <= Len(head)
    BY <1>1, <2>1, <2>2 DEF ShallowInv, Number
  <2>4. TransitionBlock \in Int /\ Number(finalized) \in Int
    BY <1>2, <2>1 DEF Number
  <2>5. Max({TransitionBlock, Number(finalized)}) \in {TransitionBlock, Number(finalized)}
    BY <2>4, MaxOfTwo
  <2> QED BY <1>2, <1>3, <1>4, <2>3, <2>5 DEF ReorgMin, Number
<1>5. CASE finalized \notin known
  BY <1>2, <1>3, <1>5 DEF ReorgMin
<1> QED BY <1>4, <1>5

\* A shallow reorg builds on the head or on its parent.
LEMMA ShallowReorgTarget ==
    ASSUME ShallowReorgs, IInv, ShallowInv, CalcReorgTarget
    PROVE  /\ parent' # NoHash
           /\ IsAncestor(parent', head)
           /\ Number(parent') >= Number(head) - 1
<1>1. pc = "reorg" /\ parent = head /\ ReorgMaxDepth \in {0, 1}
  BY ConstantsAssumption DEF CalcReorgTarget, ShallowInv, ShallowReorgs
<1>2. head \in Block /\ Len(head) \in Nat
  BY LenProperties DEF IInv, TypeOK, Block
<1>3. PICK depth \in 0..ReorgMaxDepth :
         parent' = GetHeaderByNumber(head, Max({Number(parent) - depth, ReorgMin}))
  BY DEF CalcReorgTarget, Depths
<1>4. PICK low \in Int, min \in Int :
          low = Len(head) - depth /\ min = ReorgMin /\ min \in Nat /\ min <= Len(head)
  BY <1>1, <1>2, <1>3, ShallowReorgMin
<1>5. PICK n : n = Max({low, min}) OBVIOUS
<1>6. n \in {low, min} /\ n >= low /\ n >= min
  BY <1>5, MaxOfTwo
<1>7. n \in 0..Len(head) /\ n >= Len(head) - 1
  BY <1>1, <1>2, <1>3, <1>4, <1>6
<1>8. parent' = SubSeq(head, 1, n)
  <2>1. Number(parent) - depth = low
    BY <1>1, <1>4 DEF Number
  <2>2. parent' = GetHeaderByNumber(head, n)
    BY <1>3, <1>4, <1>5, <2>1
  <2>3. n <= Len(head)
    BY <1>2, <1>7
  <2> QED BY <2>2, <2>3 DEF GetHeaderByNumber
<1>9. SubSeq(head, 1, n) \in Block /\ Len(SubSeq(head, 1, n)) = n /\ IsAncestor(SubSeq(head, 1, n), head)
  BY <1>2, <1>7, PrefixOfBlock, PrefixIsAncestor
<1> QED BY <1>7, <1>8, <1>9, NoHashAssumption DEF Number

\* A goroutine may end the process with 1, and nothing else.
LEMMA GoroutineProc ==
    ASSUME NEW t \in Ticks, Goroutine(t)
    PROVE  proc' \in {proc, "exit1"}
BY DEF Goroutine, MockExecution, ForkchoiceOnly, ForkchoicePrepares, ForkchoiceFails,
       GetPayload, GetPayloadFails, ProcessPayload, ProcessPayloadFails, ExecutePayload,
       ExecutePayloadFails, MaybeExit

\* The heights of hashes are numbers.
LEMMA HeightFacts ==
    ASSUME TypeOK
    PROVE  /\ Height(finalized) \in Nat /\ Height(nextFinalized) \in Nat
           /\ Number(head) \in Nat /\ Height(head) = Number(head)
<1>1. \A b \in Block : Len(b) \in Nat /\ b # NoHash
  BY LenProperties, NoHashAssumption DEF Block
<1> QED BY <1>1 DEF Height, Number, TypeOK

\* A step that leaves finality alone, does not lower the head and ends outside the
\* choice of a parent keeps the heights in order.
LEMMA HigherHeadKeepsShallow ==
    ASSUME TypeOK, ShallowInv, UNCHANGED <<finalized, nextFinalized>>,
           Number(head') >= Number(head), Number(head') \in Nat,
           pc' \in {"idle", "parent"}, proc' # "crashed"
    PROVE  ShallowInv'
<1>1. Height(nextFinalized) <= Number(head')
  BY HeightFacts DEF ShallowInv
<1>2. Height(finalized)' = Height(finalized) /\ Height(nextFinalized)' = Height(nextFinalized)
  BY DEF Height, Number
<1> QED BY <1>1, <1>2 DEF ShallowInv

\* Every step keeps the head at least as high as finality.
LEMMA StepKeepsShallow ==
    ASSUME EngineTimely, ShallowReorgs, IInv, TimelyInv, HeadInv, ShallowInv, [Next]_vars
    PROVE  ShallowInv'
<1>0. TypeOK /\ head \in Block /\ Number(head) \in Nat
  BY HeightFacts DEF IInv, TypeOK
<1>1. ASSUME NEW d \in Steps,
             \/ BeforeGenesis(slot + d) \/ AtGenesis(slot + d) \/ ReachSlotBound(slot + d)
             \/ GapSlot(slot + d) \/ BadHashSlot(slot + d) \/ TriggerSlot(slot + d)
      PROVE  ShallowInv'
  <2>1. /\ head' = head
        /\ pc' \in {"idle", "parent"}
        /\ UpdateFinality(slot + d) \/ UNCHANGED <<finalized, nextFinalized>>
    BY <1>1, TickMoves DEF chainVars
  <2>2. proc' # "crashed"
    BY <1>1 DEF BeforeGenesis, AtGenesis, ReachSlotBound, GapSlot, BadHashSlot, TriggerSlot,
                ShallowInv
  <2>3. CASE UNCHANGED <<finalized, nextFinalized>>
    BY <1>0, <2>1, <2>2, <2>3, HigherHeadKeepsShallow
  <2>4. CASE finalized' = nextFinalized /\ nextFinalized' = head
    <3>1. Height(finalized)' = Height(nextFinalized) /\ Height(nextFinalized)' = Number(head)
      BY <1>0, <2>4, HeightFacts DEF Height, Number
    <3>2. Number(head)' = Number(head) /\ Height(nextFinalized) <= Number(head)
      BY <2>1 DEF Number, ShallowInv
    <3>3. Number(head) <= Number(head)
      BY <1>0
    <3> QED BY <2>1, <2>2, <3>1, <3>2, <3>3 DEF ShallowInv
  <2> QED BY <2>1, <2>3, <2>4 DEF UpdateFinality, finalityVars
<1>2. CASE ReadParent
  <2>1. /\ parent' = head
        /\ pc' = "propose" \/ (pc' = "reorg" /\ "reorg" \in Faked)
        /\ UNCHANGED <<proc, head, finalized, nextFinalized>>
    BY <1>2 DEF ReadParent, chainVars, finalityVars
  <2>2. head # NoHash /\ IsAncestor(head, head) /\ Number(head) >= Number(head) - 1
    BY <1>0, AncestorOfItself, NoHashAssumption
  <2> QED BY <2>1, <2>2 DEF ShallowInv, Height, Number
<1>3. CASE CalcReorgTarget
  <2>1. pc' = "propose" /\ UNCHANGED <<proc, head, finalized, nextFinalized>>
    BY <1>3 DEF CalcReorgTarget, chainVars, finalityVars
  <2>2. parent' # NoHash /\ IsAncestor(parent', head) /\ Number(parent') >= Number(head) - 1
    BY <1>3, ShallowReorgTarget
  <2> QED BY <2>1, <2>2 DEF ShallowInv, Height, Number
<1>4. CASE ReceiveProposal \/ BuildFails
  <2>1. pc' = "idle" /\ UNCHANGED <<proc, head, finalized, nextFinalized>>
    BY <1>4 DEF ReceiveProposal, BuildFails, chainVars, finalityVars
  <2> QED BY <2>1 DEF ShallowInv, Height, Number
<1>5. CASE BuildExternal
  <2>1. pc' = "idle" /\ UNCHANGED <<proc, finalized, nextFinalized>>
    BY <1>5 DEF BuildExternal, finalityVars
  <2>2. Number(head') >= Number(head)
    BY <1>5, ShallowBuild
  <2>3. Number(head') \in Nat
    <3>1. IInv'
      BY <1>5, BuildExternalKeeps
    <3> QED BY <3>1, LenProperties DEF IInv, TypeOK, Block, Number
  <2> QED BY <1>0, <2>1, <2>2, <2>3, HigherHeadKeepsShallow DEF ShallowInv
<1>6. CASE NilParent
  BY <1>6 DEF NilParent, ShallowInv
<1>7. ASSUME NEW t \in Ticks, Goroutine(t) PROVE ShallowInv'
  <2>1. proc' # "crashed"
    BY <1>7, GoroutineProc DEF ShallowInv
  <2>2. CASE ProcessPayload(t)
    <3> DEFINE b == task[t].block
    <3>1. b \in Block /\ Len(b) > 0 /\ ParentOf(b) = head /\ StoreBlock(b) /\ Busy(t)
      BY <2>2 DEF ProcessPayload, IInv, TaskInv, HeadInv, TaskOnHead, Busy
    <3>2. UNCHANGED <<pc, finalized, nextFinalized>>
      BY <2>2 DEF ProcessPayload, finalityVars
    <3>3. pc = "idle"
      BY <3>1 DEF TimelyInv
    <3>4. b[Len(b)] \in Seal /\ b = Append(head, b[Len(b)])
      BY <3>1, BlockIsChild
    <3>5. head' = IF IsAncestor(b, head) THEN head ELSE b
      BY <3>1, StoredBecomesHead
    <3> HIDE DEF b
    <3>6. Len(b) = Len(head) + 1
      BY <1>0, <3>4, ChildOfBlock
    <3>7. Number(head') \in Nat /\ Number(head') >= Number(head)
      BY <1>0, <3>5, <3>6 DEF Number
    <3> QED BY <1>0, <2>1, <3>2, <3>3, <3>7, HigherHeadKeepsShallow
  <2>3. CASE ~ProcessPayload(t)
    <3>1. UNCHANGED <<pc, parent, head, finalized, nextFinalized>>
      <4>1. CASE GetPayload(t)
        BY <4>1 DEF GetPayload, chainVars, finalityVars
      <4>2. CASE ~GetPayload(t)
        BY <1>0, <1>7, <2>3, <4>2, GoroutineMoves DEF chainVars, finalityVars
      <4> QED BY <4>1, <4>2
    <3> QED BY <2>1, <3>1 DEF ShallowInv, Height, Number
  <2> QED BY <2>2, <2>3
<1>8. CASE UNCHANGED vars
  BY <1>8 DEF vars, ShallowInv, Height, Number
<1> QED BY <1>1, <1>2, <1>3, <1>4, <1>5, <1>6, <1>7, <1>8 DEF Next, SlotLoop

\* Against a timely engine, whatever it answers, reorgs of depth 1 are safe: calcReorgTarget
\* always finds an ancestor of the head to build on, the loop never goes on with a nil
\* parent, and every forkchoice update names the head.  (With a depth of 2 it does: the
\* run ConsensusReorgNil.)
THEOREM ShallowReorgsAreSafe ==
    ASSUME EngineTimely, ShallowReorgs
    PROVE  Spec => /\ [](proc # "crashed")
                   /\ []ForkchoiceNamesHead
                   /\ ReorgBuildsOnAncestor
<1>1. Init => ShallowInv
  <2> SUFFICES ASSUME Init PROVE ShallowInv
    OBVIOUS
  <2>1. Len(StoredChain) \in Nat
    BY ConstantsAssumption, LenProperties DEF Block
  <2> QED BY <2>1 DEF Init, ShallowInv, Height, Number
<1>2. IInv /\ TimelyInv /\ HeadInv /\ ShallowInv /\ [Next]_vars => HeadInv' /\ ShallowInv'
  BY StepKeepsHead, StepKeepsShallow, ShallowBuild
<1>3. IInv /\ ShallowInv /\ [Next]_vars
        => [pc = "reorg" /\ pc' = "propose" => parent' # NoHash /\ IsAncestor(parent', head)]_vars
  <2> SUFFICES ASSUME IInv, ShallowInv, Next, pc = "reorg", pc' = "propose"
               PROVE  parent' # NoHash /\ IsAncestor(parent', head)
    OBVIOUS
  <2>1. ~\E t \in Ticks : Goroutine(t)
    BY DEF Goroutine, MockExecution, ForkchoiceOnly, ForkchoicePrepares, ForkchoiceFails,
           GetPayload, GetPayloadFails, ProcessPayload, ProcessPayloadFails, ExecutePayload,
           ExecutePayloadFails
  <2>2. CalcReorgTarget
    BY <2>1 DEF Next, SlotLoop, BeforeGenesis, AtGenesis, ReachSlotBound, GapSlot, BadHashSlot,
           TriggerSlot, LiveSlot, Tick, ReadParent, ReceiveProposal, BuildExternal, BuildFails,
           NilParent
  <2> QED BY <2>2, ShallowReorgTarget
<1>4. HeadInv => ForkchoiceNamesHead
  BY DEF HeadInv, TaskOnHead, ForkchoiceNamesHead
<1>5. ShallowInv => proc # "crashed"
  BY DEF ShallowInv
<1> QED BY <1>1, <1>2, <1>3, <1>4, <1>5, InitHead, Invariance, TurnsAreTaken, PTL
        DEF Spec, ReorgBuildsOnAncestor

-----------------------------------------------------------------------------
(* A timely engine, and a clock that advances *)

\* A block of the present slot is new, so it becomes the head, however deep the reorg.
LEMMA DatedBuild ==
    ASSUME IInv, ClockInv, BuildExternal
    PROVE  head' = task'[tick].block
<1>1. PICK s \in Seal :
         /\ s.slot = slot
         /\ StoreBlock(Append(parent, s))
         /\ parent \in known
         /\ task'[tick].block = Append(parent, s)
  BY BuildExternalFacts
<1>2. parent \in Block /\ head \in known /\ head \in Block /\ Len(parent) \in Nat /\ slot \in Int
  BY <1>1, LenProperties DEF IInv, TypeOK, Block
<1>3. PICK b \in Block : b = Append(parent, s) /\ Len(b) = Len(parent) + 1 /\ LastSlot(b) = slot
  BY <1>1, <1>2, ChildOfBlock, SlotFacts
<1>4. ~IsAncestor(b, head)
  <2> SUFFICES ASSUME IsAncestor(b, head) PROVE FALSE
    OBVIOUS
  <2>1. Len(b) \in 0..Len(head) /\ SubSeq(head, 1, Len(b)) = b
    BY <1>2, AncestorIsPrefix
  <2>2. b \in known
    BY <1>2, <2>1 DEF IInv, KnownClosed
  <2>3. LastSlot(b) < slot
    <3>1. Len(b) > 0 /\ pc # "idle"
      BY <1>2, <1>3 DEF BuildExternal
    <3> QED BY <2>2, <3>1 DEF ClockInv, BlocksInPast
  <2> QED BY <1>2, <1>3, <2>3
<1>5. head' = IF IsAncestor(b, head) THEN head ELSE b
  BY <1>1, <1>3, StoredBecomesHead
<1> QED BY <1>1, <1>3, <1>4, <1>5

\* With a timely engine, whatever it answers and however deep the reorgs, whatever is
\* pending or being executed is on the head.
THEOREM HeadIsPursued ==
    ASSUME EngineTimely, 0 \notin Steps, StoredInOrder
    PROVE  Spec => [](HeadInv /\ ForkchoiceNamesHead)
<1>1. IInv /\ TimelyInv /\ ClockInv /\ HeadInv /\ [Next]_vars => HeadInv'
  BY StepKeepsHead, DatedBuild
<1>2. HeadInv => ForkchoiceNamesHead
  BY DEF HeadInv, TaskOnHead, ForkchoiceNamesHead
<1> QED BY <1>1, <1>2, InitHead, Invariance, TurnsAreTaken, ClockInvariance, PTL DEF Spec

-----------------------------------------------------------------------------
(* A timely engine, and a clock that no slot gets lost of *)

\* A tick: the id that was requested in the last slot is thrown away, or the loop goes
\* on to receive it.
LEMMA TickKeepsPending ==
    ASSUME EngineTimely, "badHash" \notin Faked, IInv, TimelyInv, PendingInv,
           \/ BeforeGenesis(slot + 1) \/ AtGenesis(slot + 1) \/ ReachSlotBound(slot + 1)
           \/ GapSlot(slot + 1) \/ BadHashSlot(slot + 1) \/ TriggerSlot(slot + 1)
    PROVE  PendingInv'
<1>1. /\ Tick(slot + 1)
      /\ \A u \in Ticks : Moves(u)
      /\ pc' = "idle" \/ (pc' = "parent" /\ slot + 1 > 0)
  BY TickMoves
<1>2. slot' = slot + 1 /\ slot \in Int /\ pc = "idle" /\ Running /\ \A u \in Ticks : ~Busy(u)'
  BY <1>1, MovesBusy DEF Tick, IInv, TypeOK
<1>3. sendq \in Seq(Ticks) /\ Len(sendq) \in Nat /\ Len(sendq) <= 1
  <2>1. sendq \in Seq(Ticks) /\ Len(sendq) <= 1
    BY DEF IInv, TypeOK, TimelyInv, OnePendingProposal
  <2>2. Len(sendq) \in Nat
    BY <2>1, LenProperties
  <2> QED BY <2>1, <2>2
<1>4. ASSUME NEW k \in 1..Len(sendq)
      PROVE  /\ sendq[k] \in Ticks
             /\ task[sendq[k]].slot = slot /\ slot > 0
             /\ task'[sendq[k]].slot = slot
  <2>1. sendq[k] \in Ticks /\ task[sendq[k]].id = sendq[k] /\ sendq[k] # 0
    BY ConstantsAssumption DEF IInv, TaskInv, Prepared, Ticks
  <2>2. task[sendq[k]] # NoTask
    BY <2>1 DEF NoTask
  <2> QED BY <1>1, <1>2, <2>1, <2>2 DEF PendingInv, SlotOfPending, Moves
<1>5. Running' => \A k \in 1..Len(sendq') : task'[sendq'[k]].slot = SlotOfPending'
  <2>1. CASE BeforeGenesis(slot + 1) \/ AtGenesis(slot + 1)
    <3>1. sendq' = sendq /\ slot + 1 <= 0
      BY <1>2, <2>1 DEF BeforeGenesis, AtGenesis
    <3>2. Len(sendq') = 0
      BY <1>2, <1>3, <1>4, <3>1
    <3> QED BY <3>2
  <2>2. CASE ReachSlotBound(slot + 1)
    BY <2>2 DEF ReachSlotBound, Running
  <2>3. CASE GapSlot(slot + 1)
    <3>1. Len(sendq') = 0
      BY <1>3, <2>3, TailFacts, EmptySeq DEF GapSlot, Receive
    <3> QED BY <3>1
  <2>4. CASE TriggerSlot(slot + 1)
    <3>1. sendq' = sendq /\ pc' # "idle"
      BY <2>4 DEF TriggerSlot
    <3>2. SlotOfPending' = slot
      BY <1>2, <3>1 DEF SlotOfPending
    <3> QED BY <1>4, <3>1, <3>2
  <2> QED BY <2>1, <2>2, <2>3, <2>4 DEF BadHashSlot
<1>6. ASSUME NEW u \in Ticks PROVE task'[u] # NoTask => task'[u].slot > 0
  BY <1>1 DEF Moves, PendingInv
<1>7. ProposalForItsSlot'
  BY <1>2 DEF ProposalForItsSlot, Busy
<1>8. pc' # "idle" => slot' > 0
  BY <1>1, <1>2
<1> QED BY <1>2, <1>5, <1>6, <1>7, <1>8 DEF PendingInv

\* A goroutine proposes in the slot after the one in which its id was requested, and is
\* done with it within the slot.
LEMMA GoroutineKeepsPending ==
    ASSUME IInv, TimelyInv, PendingInv, NEW t \in Ticks, Goroutine(t)
    PROVE  PendingInv'
<1>0. TypeOK /\ sendq \in Seq(Ticks) /\ slot \in Int
  BY DEF IInv, TypeOK
<1>1. CASE GetPayload(t)
  <2>1. /\ task'[t].pc = "process" /\ task'[t].slot = task[t].slot
        /\ \A u \in Ticks \ {t} : task'[u] = task[u]
    BY <1>1, GetPayloadFacts
  <2>2. UNCHANGED <<pc, slot, sendq>> /\ task[t].pc = "getPayload" /\ Busy(t) /\ task[t] # NoTask
    BY <1>1 DEF GetPayload, Busy, NoTask
  <2>3. t = tick /\ sendq = <<>> /\ pc = "idle"
    BY <2>2 DEF TimelyInv
  <2>4. Len(sendq') = 0
    BY <2>2, <2>3, EmptySeq
  <2>5. ASSUME NEW u \in Ticks
        PROVE  /\ task'[u] # NoTask => task'[u].slot > 0
               /\ Busy(u)' => task'[u].slot = slot'
               /\ task'[u].pc # "getPayload"
    <3>1. CASE u = t
      BY <2>1, <2>2, <3>1 DEF PendingInv
    <3>2. CASE u # t
      <4>1. task'[u] = task[u] /\ ~Busy(u)
        BY <2>1, <2>3, <3>2 DEF TimelyInv
      <4> QED BY <4>1 DEF PendingInv, Busy
    <3> QED BY <3>1, <3>2
  <2> QED BY <2>2, <2>3, <2>4, <2>5 DEF PendingInv, ProposalForItsSlot
<1>2. CASE ~GetPayload(t)
  <2>1. /\ \A u \in Ticks : Moves(u)
        /\ UNCHANGED <<pc, slot>>
        /\ Busy(t)
        /\ sendq' = sendq \/ sendq' = Append(sendq, t)
    BY <1>0, <1>2, GoroutineMoves
  <2>2. sendq = <<>> /\ Len(sendq) = 0 /\ pc = "idle"
    BY <2>1, EmptySeq DEF TimelyInv
  <2>3. \A k \in 1..Len(sendq') : task'[sendq'[k]].slot = SlotOfPending'
    <3>1. CASE sendq' = sendq
      BY <2>2, <3>1
    <3>2. CASE sendq' = Append(sendq, t)
      <4>1. Len(sendq') = 1 /\ sendq'[1] = t
        BY <1>0, <2>2, <3>2, AppendProperties
      <4>2. task'[t].slot = slot /\ SlotOfPending' = slot
        BY <2>1, <2>2 DEF PendingInv, Moves, SlotOfPending
      <4> QED BY <4>1, <4>2
    <3> QED BY <2>1, <3>1, <3>2
  <2>4. ASSUME NEW u \in Ticks
        PROVE  /\ task'[u] # NoTask => task'[u].slot > 0
               /\ Busy(u)' => task'[u].slot = slot'
    <3>1. Moves(u) /\ (Busy(u)' => Busy(u))
      BY <2>1, MovesBusy
    <3> QED BY <2>1, <3>1 DEF PendingInv, Moves
  <2>5. ASSUME NEW u \in Ticks, task'[u].pc = "getPayload"
        PROVE  task'[u].slot = task'[task'[u].id].slot + 1
    <3>1. task[u].pc = "getPayload" /\ task'[u].id = task[u].id /\ task'[u].slot = task[u].slot
      BY <2>1, <2>5 DEF Moves
    <3>2. task[u].id \in Ticks
      BY <3>1 DEF IInv, TaskInv, Prepared
    <3>3. task'[task[u].id].slot = task[task[u].id].slot
      BY <2>1, <3>2 DEF Moves
    <3> QED BY <3>1, <3>3 DEF PendingInv, ProposalForItsSlot
  <2> QED BY <2>1, <2>2, <2>3, <2>4, <2>5 DEF PendingInv, ProposalForItsSlot
<1> QED BY <1>1, <1>2

\* A pending id never gets old.
LEMMA StepKeepsPending ==
    ASSUME EngineTimely, Steps \subseteq {1}, "badHash" \notin Faked,
           IInv, TimelyInv, PendingInv, [Next]_vars
    PROVE  PendingInv'
<1>0. sendq \in Seq(Ticks) /\ Len(sendq) \in Nat /\ Len(sendq) <= 1 /\ slot \in Int
  <2>1. sendq \in Seq(Ticks) /\ Len(sendq) <= 1 /\ slot \in Int
    BY DEF IInv, TypeOK, TimelyInv, OnePendingProposal
  <2> QED BY <2>1, LenProperties
<1>1. ASSUME NEW d \in Steps,
             \/ BeforeGenesis(slot + d) \/ AtGenesis(slot + d) \/ ReachSlotBound(slot + d)
             \/ GapSlot(slot + d) \/ BadHashSlot(slot + d) \/ TriggerSlot(slot + d)
      PROVE  PendingInv'
  <2>1. d = 1
    OBVIOUS
  <2> QED BY <1>1, <2>1, TickKeepsPending
<1>2. CASE ReadParent \/ CalcReorgTarget
  <2>1. pc # "idle" /\ pc' # "idle" /\ UNCHANGED <<proc, slot, task, sendq>>
    BY <1>2 DEF ReadParent, CalcReorgTarget
  <2> QED BY <2>1 DEF PendingInv, SlotOfPending, Running, Busy, ProposalForItsSlot
<1>3. CASE UNCHANGED vars
  BY <1>3 DEF vars, PendingInv, SlotOfPending, Running, Busy, ProposalForItsSlot
<1>4. CASE BuildFails \/ NilParent
  <2>1. /\ pc # "idle" /\ sendq = <<>> /\ UNCHANGED <<slot, task, sendq>>
    BY <1>4 DEF BuildFails, NilParent, NotProposing
  <2>2. Len(sendq') = 0
    BY <2>1, EmptySeq
  <2> QED BY <2>1, <2>2 DEF PendingInv, Busy, ProposalForItsSlot
<1>5. CASE ReceiveProposal
  <2>1. /\ pc = "propose" /\ pc' = "idle" /\ slot' = slot /\ Running
        /\ sendq # <<>> /\ sendq' = Tail(sendq)
    BY <1>5 DEF ReceiveProposal
  <2>2. ASSUME NEW u \in Ticks \ {tick} PROVE ~Busy(u)'
    BY <1>5, <2>1, ReceiveProposalFacts, MovesBusy DEF TimelyInv
  <2>3. /\ Head(sendq) \in Ticks \ {tick} /\ tick \in Ticks
        /\ task'[tick].pc = "getPayload"
        /\ task'[tick].slot = slot
        /\ task'[tick].id = Head(sendq)
        /\ \A u \in Ticks \ {tick} : Moves(u)
    BY <1>5, ReceiveProposalFacts
  <2>4. task'[Head(sendq)].slot = slot - 1
    <3>1. Head(sendq) = sendq[1] /\ 1 \in 1..Len(sendq)
      BY <1>0, <2>1, TailFacts
    <3>2. task[Head(sendq)].slot = slot - 1
      BY <2>1, <3>1 DEF PendingInv, SlotOfPending
    <3> QED BY <2>3, <3>2 DEF Moves
  <2>5. ASSUME NEW u \in Ticks, task'[u].pc = "getPayload"
        PROVE  task'[u].slot = task'[task'[u].id].slot + 1
    <3>1. u = tick
      BY <2>2, <2>5 DEF Busy
    <3> QED BY <1>0, <2>3, <2>4, <3>1
  <2>6. Len(sendq') = 0
    BY <1>0, <2>1, TailFacts
  <2>7. ASSUME NEW u \in Ticks
        PROVE  /\ task'[u] # NoTask => task'[u].slot > 0
               /\ Busy(u)' => task'[u].slot = slot'
    <3>1. slot > 0
      BY <2>1 DEF PendingInv
    <3>2. CASE u = tick
      BY <2>1, <2>3, <3>1, <3>2
    <3>3. CASE u # tick
      BY <2>2, <2>3, <3>3 DEF Moves, PendingInv
    <3> QED BY <3>2, <3>3
  <2>8. ProposalForItsSlot' /\ \A k \in 1..Len(sendq') : FALSE
    BY <2>5, <2>6 DEF ProposalForItsSlot
  <2> QED BY <2>1, <2>7, <2>8 DEF PendingInv
<1>6. CASE BuildExternal
  <2>1. pc = "propose" /\ pc' = "idle" /\ slot' = slot /\ sendq' = <<>>
    BY <1>6 DEF BuildExternal, NotProposing
  <2>2. /\ tick \in Ticks /\ task'[tick].pc = "newPayload" /\ task'[tick].slot = slot
        /\ \A u \in Ticks \ {tick} : task'[u] = task[u]
    BY <1>6, BuildExternalFacts
  <2>3. ASSUME NEW u \in Ticks
        PROVE  /\ task'[u] # NoTask => task'[u].slot > 0
               /\ Busy(u)' => task'[u].slot = slot'
               /\ task'[u].pc # "getPayload"
    <3>1. slot > 0
      BY <2>1 DEF PendingInv
    <3>2. CASE u = tick
      BY <2>1, <2>2, <3>1, <3>2
    <3>3. CASE u # tick
      <4>1. task'[u] = task[u] /\ ~Busy(u)
        BY <2>1, <2>2, <3>3 DEF TimelyInv
      <4> QED BY <4>1 DEF PendingInv, Busy
    <3> QED BY <3>2, <3>3
  <2>4. Len(sendq') = 0
    BY <2>1, EmptySeq
  <2> QED BY <2>1, <2>3, <2>4 DEF PendingInv, ProposalForItsSlot
<1>7. ASSUME NEW t \in Ticks, Goroutine(t) PROVE PendingInv'
  BY <1>7, GoroutineKeepsPending
<1> QED BY <1>1, <1>2, <1>3, <1>4, <1>5, <1>6, <1>7 DEF Next, SlotLoop

\* With a timely engine, no tick missed and no made-up hashes, a pending id is never
\* older than one slot.
THEOREM PendingInvariance ==
    ASSUME EngineTimely, Steps \subseteq {1}, "badHash" \notin Faked
    PROVE  Spec => []PendingInv
<1>1. Init => PendingInv
  <2> SUFFICES ASSUME Init PROVE PendingInv
    OBVIOUS
  <2>1. \A t \in Ticks : task[t] = NoTask
    BY DEF Init
  <2>2. \A t \in Ticks : ~Busy(t) /\ task[t].pc # "getPayload"
    BY <2>1 DEF Busy, NoTask
  <2>3. Len(sendq) = 0 /\ pc = "idle"
    BY EmptySeq DEF Init
  <2> QED BY <2>1, <2>2, <2>3 DEF PendingInv, ProposalForItsSlot
<1>2. IInv /\ TimelyInv /\ PendingInv /\ [Next]_vars => PendingInv'
  BY StepKeepsPending
<1> QED BY <1>1, <1>2, Invariance, TurnsAreTaken, PTL DEF Spec

\* "proposing next slot!" (consensus.go) is true as long as no tick is missed and no bad
\* hash is faked: the payload that is proposed was requested in the slot before.  (A
\* slot with a made-up hash leaves the id pending: the run ConsensusStaleId.)
THEOREM ProposalsInTime ==
    ASSUME EngineTimely, Steps \subseteq {1}, "badHash" \notin Faked
    PROVE  Spec => []ProposalForItsSlot
<1>1. PendingInv => ProposalForItsSlot
  BY DEF PendingInv
<1> QED BY <1>1, PendingInvariance, PTL

-----------------------------------------------------------------------------
(* A timely engine that never misbehaves *)

\* The payload of a timely engine without faults is for the slot of the proposal.
LEMMA PayloadIsDated ==
    ASSUME EngineFaults = {}, IInv, HeadInv, PendingInv, NodeSuccessInv,
           NEW t \in Ticks, GetPayload(t)
    PROVE  /\ task'[t].pc = "process"
           /\ LastSlot(task'[t].block) = task[t].slot
           /\ task'[t].slot = task[t].slot /\ task'[t].id = task[t].id
           /\ \A u \in Ticks \ {t} : task'[u] = task[u]
<1>1. task \in [Ticks -> Task] /\ task[t].pc = "getPayload"
  BY DEF IInv, TypeOK, GetPayload
<1>2. PICK i \in Obtainable(t) :
          task' = [task EXCEPT ![t].pc = "process", ![t].block = PayloadOf(i, 0)]
  BY DEF GetPayload, Drifts
<1>3. PICK j \in Prepared : j = task[t].id
  BY <1>1 DEF IInv, TaskInv
<1>4. task[j].block = head /\ task[t].slot = task[j].slot + 1 /\ task[j].id = j /\ j \in Ticks
  BY <1>1, <1>3 DEF HeadInv, TaskOnHead, PendingInv, ProposalForItsSlot, Prepared
<1>5. i \in Ticks /\ task[i].id = i /\ task[i].block = head
  BY <1>3, <1>4 DEF Obtainable, Prepared
<1>6. task[i].slot = task[j].slot
  BY <1>4, <1>5 DEF NodeSuccessInv, TaskDated
<1>7. task[i].block \in Block /\ task[i].slot \in Int /\ i \in Nat
  BY <1>1, <1>5, ConstantsAssumption DEF IInv, TypeOK, TaskInv, Merged, Task, Ticks
<1> DEFINE s == [slot |-> task[i].slot + 1 + 0, src |-> "engine", by |-> i]
           b == Append(task[i].block, s)
<1>8. s \in Seal /\ s.slot = task[i].slot + 1
  BY <1>7 DEF Seal, Builders
<1>9. PayloadOf(i, 0) = b
  BY DEF PayloadOf, AddNewBlock
<1> HIDE DEF s
<1>10. LastSlot(b) = s.slot
  BY <1>7, <1>8, SlotFacts
<1> HIDE DEF b
<1>11. task' = [task EXCEPT ![t].pc = "process", ![t].block = b]
  BY <1>2, <1>9
<1>12. /\ task'[t].pc = "process" /\ task'[t].block = b
       /\ task'[t].slot = task[t].slot /\ task'[t].id = task[t].id
       /\ \A u \in Ticks \ {t} : task'[u] = task[u]
  BY <1>1, <1>11 DEF Task
<1> QED BY <1>4, <1>6, <1>8, <1>10, <1>12

\* A goroutine that moves without a new block keeps its dates.
LEMMA MovesDated ==
    ASSUME NEW u \in Ticks, TaskDated(u), Moves(u)
    PROVE  TaskDated(u)'
BY DEF TaskDated, Moves, LastSlot

\* Without faults of the engine, no goroutine has a reason to give up.
LEMMA NothingFails ==
    ASSUME EngineFaults = {}, IInv, HeadInv, NodeSuccessInv, NEW t \in Ticks, Goroutine(t)
    PROVE  proc' = proc
<1>1. ~GetPayloadFails(t)
  <2> SUFFICES ASSUME GetPayloadFails(t) PROVE FALSE
    OBVIOUS
  <2>1. task[t].pc = "getPayload" /\ Obtainable(t) = {}
    BY DEF GetPayloadFails
  <2>2. task[t].id \in Prepared /\ task[task[t].id].block = head
    BY <2>1 DEF IInv, TaskInv, HeadInv, TaskOnHead
  <2> QED BY <2>1, <2>2 DEF Obtainable
<1>2. ~ProcessPayloadFails(t)
  <2> SUFFICES ASSUME ProcessPayloadFails(t) PROVE FALSE
    OBVIOUS
  <2>1. task[t].pc = "process"
    BY DEF ProcessPayloadFails
  <2>2. ValidateTimestamp(task[t].block, task[t].slot)
    BY <2>1 DEF NodeSuccessInv, TaskDated, LastSlot, ValidateTimestamp
  <2>3. ParentOf(task[t].block) \in known
    BY <2>1 DEF HeadInv, TaskOnHead, IInv, TypeOK
  <2> QED BY <2>2, <2>3 DEF ProcessPayloadFails
<1>3. ~ForkchoiceFails(t) /\ ~ExecutePayloadFails(t)
  BY DEF ForkchoiceFails, ExecutePayloadFails
<1> QED BY <1>1, <1>2, <1>3 DEF Goroutine, MockExecution, ForkchoiceOnly, ForkchoicePrepares,
                              GetPayload, ProcessPayload, ExecutePayload

\* No step fails, and every block keeps its date.
LEMMA StepKeepsSuccess ==
    ASSUME EngineFaults = {}, IInv, HeadInv, PendingInv, NodeSuccessInv, [Next]_vars
    PROVE  NodeSuccessInv'
<1>0. TypeOK
  BY DEF IInv
<1>1. ASSUME NEW d \in Steps,
             \/ BeforeGenesis(slot + d) \/ AtGenesis(slot + d) \/ ReachSlotBound(slot + d)
             \/ GapSlot(slot + d) \/ BadHashSlot(slot + d) \/ TriggerSlot(slot + d)
      PROVE  NodeSuccessInv'
  <2>1. \A u \in Ticks : Moves(u)
    BY <1>1, TickMoves
  <2>2. proc' = proc \/ proc' = "exit0"
    BY <1>1 DEF BeforeGenesis, AtGenesis, ReachSlotBound, GapSlot, BadHashSlot, TriggerSlot
  <2> QED BY <2>1, <2>2, MovesDated DEF NodeSuccessInv, NoSpuriousFailure
<1>2. CASE (ReadParent \/ CalcReorgTarget \/ BuildFails \/ NilParent) \/ UNCHANGED vars
  <2>1. task' = task /\ (proc' = proc \/ proc' = "crashed")
    BY <1>2 DEF ReadParent, CalcReorgTarget, BuildFails, NilParent, vars
  <2> QED BY <2>1, SameMoves, MovesDated DEF NodeSuccessInv, NoSpuriousFailure
<1>3. CASE ReceiveProposal
  <2>1. /\ Head(sendq) \in Ticks \ {tick}
        /\ task'[tick].pc = "getPayload"
        /\ task'[tick].id = Head(sendq)
        /\ \A u \in Ticks \ {tick} : Moves(u)
        /\ proc' = proc
    BY <1>3, ReceiveProposalFacts DEF ReceiveProposal
  <2>2. ASSUME NEW u \in Ticks PROVE TaskDated(u)'
    <3>1. CASE u = tick
      BY <2>1, <3>1 DEF TaskDated
    <3>2. CASE u # tick
      BY <2>1, <3>2, MovesDated DEF NodeSuccessInv
    <3> QED BY <3>1, <3>2
  <2> QED BY <2>1, <2>2 DEF NodeSuccessInv, NoSpuriousFailure
<1>4. CASE BuildExternal
  <2>1. PICK s \in Seal :
           /\ s.slot = slot
           /\ parent \in known
           /\ task'[tick].pc = "newPayload"
           /\ task'[tick].slot = slot
           /\ task'[tick].block = Append(parent, s)
           /\ \A u \in Ticks \ {tick} : task'[u] = task[u]
    BY <1>4, BuildExternalFacts
  <2>2. PICK b : b = Append(parent, s)
    OBVIOUS
  <2>3. LastSlot(b) = slot
    BY <2>1, <2>2, SlotFacts DEF IInv, TypeOK
  <2>4. proc' = proc
    BY <1>4 DEF BuildExternal
  <2>5. ASSUME NEW u \in Ticks PROVE TaskDated(u)'
    <3>1. CASE u = tick
      BY <2>1, <2>2, <2>3, <3>1 DEF TaskDated, LastSlot
    <3>2. CASE u # tick
      BY <2>1, <3>2, SameMoves, MovesDated DEF NodeSuccessInv
    <3> QED BY <3>1, <3>2
  <2> QED BY <2>4, <2>5 DEF NodeSuccessInv, NoSpuriousFailure
<1>5. ASSUME NEW t \in Ticks, Goroutine(t) PROVE NodeSuccessInv'
  <2>1. proc' = proc
    BY <1>5, NothingFails
  <2>2. CASE GetPayload(t)
    <3>1. /\ task'[t].pc = "process"
          /\ LastSlot(task'[t].block) = task[t].slot
          /\ task'[t].slot = task[t].slot /\ task'[t].id = task[t].id
          /\ \A u \in Ticks \ {t} : task'[u] = task[u]
      BY <2>2, PayloadIsDated
    <3>2. task[t].id # t
      BY <2>2 DEF GetPayload, IInv, TaskInv
    <3>3. ASSUME NEW u \in Ticks PROVE TaskDated(u)'
      <4>1. CASE u = t
        BY <3>1, <3>2, <4>1 DEF TaskDated, LastSlot
      <4>2. CASE u # t
        BY <3>1, <4>2, SameMoves, MovesDated DEF NodeSuccessInv
      <4> QED BY <4>1, <4>2
    <3> QED BY <2>1, <3>3 DEF NodeSuccessInv, NoSpuriousFailure
  <2>3. CASE ~GetPayload(t)
    <3>1. \A u \in Ticks : Moves(u)
      BY <1>0, <1>5, <2>3, GoroutineMoves
    <3> QED BY <2>1, <3>1, MovesDated DEF NodeSuccessInv, NoSpuriousFailure
  <2> QED BY <2>2, <2>3
<1> QED BY <1>1, <1>2, <1>3, <1>4, <1>5 DEF Next, SlotLoop

\* A bounded run against a timely engine that never misbehaves does not report a
\* failure, with gaps, with reorgs of any depth, with a builder or without: maybeExit is
\* for the engine's mistakes only (consensus.go).  It takes a made-up hash or a missed
\* tick to make the mock fail on its own.
THEOREM TimelyNodeSucceeds ==
    ASSUME EngineTimely, Steps \subseteq {1}, "badHash" \notin Faked, StoredInOrder,
           EngineFaults = {}
    PROVE  Spec => []NoSpuriousFailure
<1>1. Init => NodeSuccessInv
  <2> SUFFICES ASSUME Init PROVE NodeSuccessInv
    OBVIOUS
  <2>1. \A t \in Ticks : task[t] = NoTask /\ t # 0
    BY ConstantsAssumption DEF Init, Ticks
  <2>2. \A t \in Ticks : TaskDated(t)
    BY <2>1 DEF TaskDated, NoTask
  <2> QED BY <2>2 DEF NodeSuccessInv, NoSpuriousFailure, Init
<1>2. IInv /\ HeadInv /\ PendingInv /\ NodeSuccessInv /\ [Next]_vars => NodeSuccessInv'
  BY StepKeepsSuccess
<1>3. NodeSuccessInv => NoSpuriousFailure
  BY DEF NodeSuccessInv
<1>4. Spec => [](HeadInv /\ ForkchoiceNamesHead)
  <2>1. 0 \notin Steps
    OBVIOUS
  <2> QED BY <2>1, HeadIsPursued
<1>5. Spec => []PendingInv
  BY PendingInvariance
<1> QED BY <1>1, <1>2, <1>3, <1>4, <1>5, Invariance, PTL DEF Spec

=============================================================================
