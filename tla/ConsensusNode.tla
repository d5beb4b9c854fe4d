---------------------------- MODULE ConsensusNode ----------------------------
(***************************************************************************)
(* The consensus mock (consensus.go): the slot loop of RunNode, which      *)
(* fakes gap slots, bad hashes, reorgs and external blocks, and the        *)
(* goroutines it spawns, which talk to the engine (or to a builder) and    *)
(* hand payload ids back to the loop over an unbuffered channel.           *)
(*                                                                         *)
(* The loop and every goroutine are processes.  They share the mock chain  *)
(* (whose InsertChain is serialised by go-ethereum), the channel payloadId *)
(* and the fate of the process (os.Exit in maybeExit).  The engine is the  *)
(* environment: it may be slow, and it misbehaves as EngineFaults allows.  *)
(***************************************************************************)
EXTENDS MockChain

CONSTANTS
    StoredChain,     \* the canonical chain in the database when the loop starts
    TransitionBlock, \* number of the terminal PoW block; 0 without a peer
    StartSlot,       \* the slot before the first tick (negative: before genesis)
    SlotsPerEpoch,
    SlotBound,       \* --slot-bound; 0 runs for ever and never exits on errors
    ReorgMaxDepth,
    Steps,           \* by how much the slot may grow from one tick to the next:
                     \* 2 or more is a tick the busy loop missed
    Faked,           \* the frequencies that are not zero: a subset of
                     \* {"gap", "badHash", "reorg", "proposal"}
    UseBuilder,      \* BuilderAddr # ""
    EngineTimely,    \* whether the engine answers within the slot
    EngineFaults,    \* how the engine may misbehave: a subset of
                     \* {"forkchoice", "getPayload", "timestamp", "payload", "execute"}
    BuildMayFail,    \* whether AddNewBlock may fail (state or transaction error)
    MaxTicks         \* bound: how many ticks are explored

Fakes == {"gap", "badHash", "reorg", "proposal"}

Faults == {"forkchoice", "getPayload", "timestamp", "payload", "execute"}

ASSUME ConstantsAssumption ==
    /\ StoredChain \in Block
    /\ TransitionBlock \in 0..Len(StoredChain)
    /\ StartSlot \in Int
    /\ SlotsPerEpoch \in Nat \ {0}
    /\ SlotBound \in Nat
    /\ ReorgMaxDepth \in Nat
    /\ Steps \subseteq Nat
    /\ Faked \subseteq Fakes
    /\ UseBuilder \in BOOLEAN
    /\ EngineTimely \in BOOLEAN
    /\ EngineFaults \subseteq Faults
    /\ BuildMayFail \in BOOLEAN
    /\ MaxTicks \in Nat

VARIABLES
    proc,           \* the process: running, or how it ended
    pc,             \* where the slot loop is
    tick,           \* number of ticks handled so far
    slot,           \* slot of the last tick
    parent,         \* the loop's local variable: header to build on
    known,          \* blocks in the database
    head,           \* CurrentHeader()
    finalized,      \* finalizedHash
    safe,           \* safeHash
    nextFinalized,  \* nextFinalized
    task,           \* the goroutine each tick spawned
    sendq           \* goroutines blocked in payloadId <- *id, oldest first

chainVars == <<known, head>>
finalityVars == <<finalized, safe, nextFinalized>>
vars == <<proc, pc, tick, slot, parent, known, head, finalized, safe,
          nextFinalized, task, sendq>>

Ticks == 1..MaxTicks

BlockOrNone == Block \cup {NoHash}

\* Program points of the goroutines.  An execution goroutine (a block built
\* outside the engine) runs newPayload, forkchoice, send; a proposal goroutine
\* runs getPayload, process, execute.
TaskPoints == {"none", "newPayload", "forkchoice", "send",
               "getPayload", "process", "execute", "done"}

\* block: the external block, or the payload a proposal retrieved.
\* safe, final: the hashes captured when the goroutine was spawned.
\* id: the payload id, named after the tick whose goroutine requested it; 0 is nil.
Task == [pc : TaskPoints, slot : Int, block : BlockOrNone,
         safe : BlockOrNone, final : BlockOrNone, id : 0..MaxTicks]

NoTask == [pc |-> "none", slot |-> 0, block |-> NoHash,
           safe |-> NoHash, final |-> NoHash, id |-> 0]

Init ==
    /\ proc = "running"
    /\ pc = "idle"
    /\ tick = 0
    /\ slot = StartSlot
    /\ parent = NoHash
    /\ known = Ancestry(StoredChain)
    /\ head = StoredChain
    /\ finalized = NoHash
    /\ safe = NoHash
    /\ nextFinalized = NoHash
    /\ task = [t \in Ticks |-> NoTask]
    /\ sendq = <<>>

-----------------------------------------------------------------------------
(* Helpers *)

Running == proc = "running"

\* A goroutine that is waiting for an answer of the engine or computing.
Busy(t) == task[t].pc \in {"newPayload", "forkchoice", "getPayload",
                           "process", "execute"}

\* Payload ids handed out by the engine.
Prepared == {t \in Ticks : task[t].id = t}

\* maybeExit: errors end the process only in a bounded (test) run.
MaybeExit == proc' = IF SlotBound # 0 THEN "exit1" ELSE proc

\* A mutant: the head moves to a block that never reaches the database.
StoreHeadOnly(b) ==
    /\ known' = known
    /\ head' = InsertChain(head, b)

\* A mutant: a reorg deletes the branch it leaves.
StorePruned(b) ==
    /\ known' = {k \in known : IsAncestor(k, b)} \cup {b}
    /\ head' = InsertChain(head, b)

\* What AddNewBlock and ProcessPayload do with a block they accept.
StoreBlock(b) ==
    /\ known' = known \cup {b}
    /\ head' = InsertChain(head, b)

\* A non-blocking receive from payloadId lets the oldest blocked sender go on.
Receive ==
    /\ sendq' = Tail(sendq)
    /\ task' = [task EXCEPT ![Head(sendq)].pc = "done"]

-----------------------------------------------------------------------------
(* The slot loop *)

\* A tick the loop takes off slots.C while it waits in its select.
Tick(s) ==
    /\ Running
    /\ pc = "idle"
    /\ tick < MaxTicks
    /\ EngineTimely => \A t \in Ticks : ~Busy(t)
    /\ tick' = tick + 1
    /\ slot' = s

\* The epoch boundary: what was next becomes final, the head becomes next.
UpdateFinality(s) ==
    IF s % SlotsPerEpoch = 0
    THEN /\ finalized' = nextFinalized
         /\ safe' = nextFinalized
         /\ nextFinalized' = head
    ELSE UNCHANGED finalityVars

BeforeGenesis(s) ==
    /\ Tick(s)
    /\ s < 0
    /\ UNCHANGED <<proc, pc, parent, chainVars, finalityVars, task, sendq>>

AtGenesis(s) ==
    /\ Tick(s)
    /\ s = 0
    /\ safe' = head
    /\ UNCHANGED <<proc, pc, parent, chainVars, finalized, nextFinalized, task, sendq>>

PastBound(s) == SlotBound > 0 /\ s > SlotBound

ReachSlotBound(s) ==
    /\ Tick(s)
    /\ s > 0
    /\ PastBound(s)
    /\ proc' = "exit0"
    /\ UNCHANGED <<pc, parent, chainVars, finalityVars, task, sendq>>

\* A slot that is simulated at all.
LiveSlot(s) ==
    /\ Tick(s)
    /\ s > 0
    /\ ~PastBound(s)
    /\ UpdateFinality(s)

\* A mutant: the gap slot leaves a pending proposal pending.
GapSlotKeepsProposal(s) ==
    /\ LiveSlot(s)
    /\ "gap" \in Faked
    /\ UNCHANGED <<proc, pc, parent, chainVars, task, sendq>>

\* Nothing happens in the slot, but a pending proposal is thrown away.
GapSlot(s) ==
    /\ LiveSlot(s)
    /\ "gap" \in Faked
    /\ \/ sendq = <<>> /\ UNCHANGED <<task, sendq>>
       \/ sendq # <<>> /\ Receive
    /\ UNCHANGED <<proc, pc, parent, chainVars>>

\* A payload with a made-up hash is sent and its answer ignored; a pending
\* proposal stays pending.
BadHashSlot(s) ==
    /\ LiveSlot(s)
    /\ "badHash" \in Faked
    /\ UNCHANGED <<proc, pc, parent, chainVars, task, sendq>>

TriggerSlot(s) ==
    /\ LiveSlot(s)
    /\ pc' = "parent"
    /\ UNCHANGED <<proc, parent, chainVars, task, sendq>>

\* parent := CurrentHeader(), with or without a reorg to fake.
ReadParent ==
    /\ Running
    /\ pc = "parent"
    /\ parent' = head
    /\ \/ pc' = "propose"
       \/ "reorg" \in Faked /\ pc' = "reorg"
    /\ UNCHANGED <<proc, tick, slot, chainVars, finalityVars, task, sendq>>

\* A mutant: only finality bounds a reorg.
ReorgMinFinalizedOnly ==
    IF finalized \in known THEN Number(finalized) ELSE 0

\* The lowest number a reorg may build on.
ReorgMin ==
    IF finalized \in known
    THEN Max({TransitionBlock, Number(finalized)})
    ELSE TransitionBlock

\* A mutant: one block too many.
DepthsOffByOne == 0..(ReorgMaxDepth + 1)

\* The depth is a real number below ReorgMaxDepth, and the target is truncated.
Depths == 0..ReorgMaxDepth

\* calcReorgTarget: go back, never below ReorgMin, on what is canonical now.
CalcReorgTarget ==
    /\ Running
    /\ pc = "reorg"
    /\ \E depth \in Depths :
         parent' = GetHeaderByNumber(head, Max({Number(parent) - depth, ReorgMin}))
    /\ pc' = "propose"
    /\ UNCHANGED <<proc, tick, slot, chainVars, finalityVars, task, sendq>>

\* Mutants: a block is built although a proposal is pending, and a receive
\* without a default, which waits for one.
NotProposingAnyway == TRUE
NotProposingBlocks == FALSE

\* The default branch of the receive: no sender is blocked on the channel.
NotProposing == sendq = <<>>

\* An id is pending: spawn mockProposal.
ReceiveProposal ==
    /\ Running
    /\ pc = "propose"
    /\ sendq # <<>>
    /\ sendq' = Tail(sendq)
    /\ task' = [task EXCEPT ![Head(sendq)].pc = "done",
                            ![tick] = [NoTask EXCEPT !.pc = "getPayload",
                                                     !.slot = slot,
                                                     !.id = Head(sendq)]]
    /\ pc' = "idle"
    /\ parent' = NoHash
    /\ UNCHANGED <<proc, tick, slot, chainVars, finalityVars>>

\* No id is pending: build a block outside the engine and spawn its execution.
BuildExternal ==
    /\ Running
    /\ pc = "propose"
    /\ NotProposing
    /\ parent # NoHash
    /\ LET block == AddNewBlock(parent, [slot |-> slot, src |-> "external", by |-> 0])
       IN  /\ StoreBlock(block)
           /\ task' = [task EXCEPT ![tick] = [pc |-> "newPayload", slot |-> slot,
                                              block |-> block, safe |-> safe,
                                              final |-> finalized, id |-> 0]]
    /\ pc' = "idle"
    /\ parent' = NoHash
    /\ UNCHANGED <<proc, tick, slot, finalityVars, sendq>>

BuildFails ==
    /\ Running
    /\ pc = "propose"
    /\ NotProposing
    /\ parent # NoHash
    /\ BuildMayFail
    /\ pc' = "idle"
    /\ parent' = NoHash
    /\ UNCHANGED <<proc, tick, slot, chainVars, finalityVars, task, sendq>>

\* parent.GasLimit of a nil header: the process panics.
NilParent ==
    /\ Running
    /\ pc = "propose"
    /\ NotProposing
    /\ parent = NoHash
    /\ proc' = "crashed"
    /\ UNCHANGED <<pc, tick, slot, parent, chainVars, finalityVars, task, sendq>>

-----------------------------------------------------------------------------
(* The goroutine of an external block *)

Goto(t, point) == task' = [task EXCEPT ![t].pc = point]

\* mockExecution: the answer of engine_newPayloadV1 is ignored.
MockExecution(t) ==
    /\ Running
    /\ task[t].pc = "newPayload"
    /\ Goto(t, "forkchoice")
    /\ UNCHANGED <<proc, pc, tick, slot, parent, chainVars, finalityVars, sendq>>

\* sendForkchoiceUpdated without attributes, or answered without an id.
ForkchoiceOnly(t) ==
    /\ Running
    /\ task[t].pc = "forkchoice"
    /\ Goto(t, "done")
    /\ UNCHANGED <<proc, pc, tick, slot, parent, chainVars, finalityVars, sendq>>

\* With attributes for the next slot: block on the channel until the id is taken.
ForkchoicePrepares(t) ==
    /\ Running
    /\ task[t].pc = "forkchoice"
    /\ "proposal" \in Faked
    /\ task' = [task EXCEPT ![t].pc = "send", ![t].id = t]
    /\ sendq' = Append(sendq, t)
    /\ UNCHANGED <<proc, pc, tick, slot, parent, chainVars, finalityVars>>

\* A transport error or any status but VALID.
ForkchoiceFails(t) ==
    /\ Running
    /\ task[t].pc = "forkchoice"
    /\ "forkchoice" \in EngineFaults
    /\ MaybeExit
    /\ Goto(t, "done")
    /\ UNCHANGED <<pc, tick, slot, parent, chainVars, finalityVars, sendq>>

-----------------------------------------------------------------------------
(* The goroutine of a proposal: mockProposal *)

\* The block the engine built for payload id i: on the head of the forkchoice
\* update that asked for it, for the slot after it (or, faulty, a later one).
PayloadOf(i, drift) ==
    AddNewBlock(task[i].block,
                [slot |-> task[i].slot + 1 + drift, src |-> "engine", by |-> i])

Drifts == IF "timestamp" \in EngineFaults THEN {0, 1} ELSE {0}

\* The payload ids whose payload getMockProposal may get: the id it asks the
\* engine for, or, from a builder, whatever was prepared on the head of now.
Obtainable(t) ==
    IF UseBuilder THEN {i \in Prepared : task[i].block = head} ELSE {task[t].id}

GetPayload(t) ==
    /\ Running
    /\ task[t].pc = "getPayload"
    /\ \E i \in Obtainable(t), drift \in Drifts :
         task' = [task EXCEPT ![t].pc = "process", ![t].block = PayloadOf(i, drift)]
    /\ UNCHANGED <<proc, pc, tick, slot, parent, chainVars, finalityVars, sendq>>

GetPayloadFails(t) ==
    /\ Running
    /\ task[t].pc = "getPayload"
    /\ "getPayload" \in EngineFaults \/ Obtainable(t) = {}
    /\ MaybeExit
    /\ Goto(t, "done")
    /\ UNCHANGED <<pc, tick, slot, parent, chainVars, finalityVars, sendq>>

\* A mutant: any timestamp will do.
AnyTimestamp(b, s) == TRUE

\* ValidateTimestamp of the payload against the slot of the proposal.
ValidateTimestamp(b, s) == b[Len(b)].slot = s

ProcessPayload(t) ==
    /\ Running
    /\ task[t].pc = "process"
    /\ ValidateTimestamp(task[t].block, task[t].slot)
    /\ ParentOf(task[t].block) \in known
    /\ StoreBlock(task[t].block)
    /\ Goto(t, "execute")
    /\ UNCHANGED <<proc, pc, tick, slot, parent, finalityVars, sendq>>

\* A bad timestamp, an unknown parent, or a payload that does not add up.
ProcessPayloadFails(t) ==
    /\ Running
    /\ task[t].pc = "process"
    /\ \/ ~ValidateTimestamp(task[t].block, task[t].slot)
       \/ ParentOf(task[t].block) \notin known
       \/ "payload" \in EngineFaults
    /\ MaybeExit
    /\ Goto(t, "done")
    /\ UNCHANGED <<pc, tick, slot, parent, chainVars, finalityVars, sendq>>

\* The payload goes back to the engine, which answers VALID.
ExecutePayload(t) ==
    /\ Running
    /\ task[t].pc = "execute"
    /\ Goto(t, "done")
    /\ UNCHANGED <<proc, pc, tick, slot, parent, chainVars, finalityVars, sendq>>

ExecutePayloadFails(t) ==
    /\ Running
    /\ task[t].pc = "execute"
    /\ "execute" \in EngineFaults
    /\ MaybeExit
    /\ Goto(t, "done")
    /\ UNCHANGED <<pc, tick, slot, parent, chainVars, finalityVars, sendq>>

-----------------------------------------------------------------------------

SlotLoop ==
    \/ \E d \in Steps : \/ BeforeGenesis(slot + d)
                        \/ AtGenesis(slot + d)
                        \/ ReachSlotBound(slot + d)
                        \/ GapSlot(slot + d)
                        \/ BadHashSlot(slot + d)
                        \/ TriggerSlot(slot + d)
    \/ ReadParent
    \/ CalcReorgTarget
    \/ ReceiveProposal
    \/ BuildExternal
    \/ BuildFails
    \/ NilParent

Goroutine(t) ==
    \/ MockExecution(t)
    \/ ForkchoiceOnly(t)
    \/ ForkchoicePrepares(t)
    \/ ForkchoiceFails(t)
    \/ GetPayload(t)
    \/ GetPayloadFails(t)
    \/ ProcessPayload(t)
    \/ ProcessPayloadFails(t)
    \/ ExecutePayload(t)
    \/ ExecutePayloadFails(t)

Next == SlotLoop \/ \E t \in Ticks : Goroutine(t)

Spec == Init /\ [][Next]_vars

\* The ticker keeps ticking and the runtime schedules the loop.
FairSpec == Spec /\ WF_vars(SlotLoop)

-----------------------------------------------------------------------------
(* Properties *)

\* Every variable has its type, and the hashes that RunNode remembers (the head,
\* the parent it builds on, finalizedHash, safeHash, nextFinalized) name blocks of
\* its own database.
TypeOK ==
    /\ proc \in {"running", "exit0", "exit1", "crashed"}
    /\ pc \in {"idle", "parent", "reorg", "propose"}
    /\ tick \in 0..MaxTicks
    /\ slot \in Int
    /\ known \subseteq Block
    /\ head \in known
    /\ parent \in known \cup {NoHash}
    /\ {finalized, safe, nextFinalized} \subseteq known \cup {NoHash}
    /\ task \in [Ticks -> Task]
    /\ sendq \in Seq(Ticks)

\* The terminal proof-of-work block.
Terminal == SubSeq(StoredChain, 1, TransitionBlock)

\* The merge is never undone: however reorgs are faked and whatever the engine
\* answers, a block this node adds has the terminal PoW block in its ancestry
\* (the lower bound transitionBlock of calcReorgTarget).
TransitionBuried ==
    \A b \in known : IsAncestor(b, StoredChain) \/ IsAncestor(Terminal, b)

\* Time runs forward along every chain, reorged or not, although VerifyHeader
\* does not look at timestamps: only the clock of the slot loop and
\* ValidateTimestamp stand in the way of an engine that drifts.
SlotsIncrease ==
    \A b \in known : \A i \in 2..Len(b) :
        b[i].src # "pow" => b[i - 1].slot < b[i].slot

\* While the engine answers within the slot, at most one payload id waits in
\* the channel: no goroutine leaks in payloadId <- *id.
OnePendingProposal == Len(sendq) <= 1

\* A forkchoice update names the node's own head, so the engine is told to
\* follow the chain the loop builds on.
ForkchoiceNamesHead ==
    \A t \in Ticks : task[t].pc = "forkchoice" => task[t].block = head

\* a is an ancestor of b, where the zero hash is below everything.
Under(a, b) == a = NoHash \/ (b # NoHash /\ IsAncestor(a, b))

\* Without reorgs, and with a timely engine, finality is consistent: what is
\* final lies under what is next, which lies under the head, and every
\* forkchoice update in flight carries a final block under its head.
FinalityIsPrefix ==
    /\ Under(finalized, nextFinalized)
    /\ Under(nextFinalized, head)
    /\ \A t \in Ticks : task[t].pc = "forkchoice" => Under(task[t].final, task[t].block)

\* A bounded run against an engine that never misbehaves does not report a
\* failure: maybeExit is for the engine's mistakes, not for the mock's own.
NoSpuriousFailure == proc # "exit1"

\* A bounded run ends, although goroutines may wait for ever for the engine or
\* for a receiver: the slot loop never blocks on them.
BoundedRunTerminates == <>(proc # "running")

-----------------------------------------------------------------------------
(* The inductive invariant behind TypeOK, TransitionBuried and the          *)
(* refinement of the abstract tree.                                         *)

\* A block of the database that has the terminal block in its ancestry.
Merged(b) == b \in known /\ IsAncestor(Terminal, b)

\* The loop: whatever it may build on next is merged, and the goroutines of the
\* present and of later ticks are not spawned yet.
LoopInv ==
    /\ Merged(head)
    /\ pc # "idle" => tick \in Ticks
    /\ pc = "reorg" => parent \in known
    /\ pc = "propose" => parent = NoHash \/ Merged(parent)
    /\ \A t \in Ticks : t > tick \/ (t = tick /\ pc # "idle") => task[t] = NoTask

\* The goroutines: a payload id always leads back to the goroutine that
\* requested it, whose block is merged; so is the payload it gets.
TaskInv ==
    /\ \A t \in Ticks :
          /\ task[t].pc = "forkchoice" \/ task[t].pc = "newPayload" \/ task[t].id = t
                => Merged(task[t].block)
          /\ task[t].pc = "getPayload" => task[t].id \in Prepared \ {t}
          /\ task[t].pc = "process" =>
                /\ task[t].block \in Block
                /\ Len(task[t].block) > 0
                /\ IsAncestor(Terminal, task[t].block)
    /\ \A k \in 1..Len(sendq) : sendq[k] \in Prepared

\* The database holds the ancestry of every block in it.
KnownClosed == \A b \in known : \A n \in 0..Len(b) : SubSeq(b, 1, n) \in known

IInv ==
    /\ TypeOK
    /\ KnownClosed
    /\ TransitionBuried
    /\ LoopInv
    /\ TaskInv

-----------------------------------------------------------------------------
(* The clock: the inductive invariant behind SlotsIncrease, for a clock     *)
(* that advances (0 \notin Steps) and a stored chain that is in order.      *)

\* The stored blocks date from before the first slot that is simulated.
StoredInOrder ==
    \A i \in 1..Len(StoredChain) :
        /\ StoredChain[i].slot <= 0 \/ StoredChain[i].slot <= StartSlot
        /\ i > 1 /\ StoredChain[i].src # "pow" => StoredChain[i - 1].slot < StoredChain[i].slot

LastSlot(b) == b[Len(b)].slot

\* No block is from the future, and none is from the slot a block is built for.
BlocksInPast ==
    \A b \in known : Len(b) > 0 =>
        /\ LastSlot(b) <= slot \/ LastSlot(b) <= 0
        /\ pc # "idle" => LastSlot(b) < slot

\* A goroutine is of the slot of its tick; the block of a payload id is not later
\* than the goroutine that requested it, and the payload is later than its parent.
TaskClock(t) ==
    /\ task[t] # NoTask => task[t].slot <= slot /\ (t # tick => task[t].slot < slot)
    /\ task[t].pc = "forkchoice" \/ task[t].pc = "newPayload" \/ task[t].id = t =>
          Len(task[t].block) > 0 /\ LastSlot(task[t].block) <= task[t].slot
    /\ task[t].pc = "process" /\ Len(task[t].block) > 1 =>
          LastSlot(ParentOf(task[t].block)) < LastSlot(task[t].block)

ClockInv ==
    /\ pc # "idle" => slot > 0
    /\ BlocksInPast
    /\ \A t \in Ticks : TaskClock(t)
    /\ SlotsIncrease

-----------------------------------------------------------------------------
(* A timely engine: the inductive invariants behind OnePendingProposal and, *)
(* without reorgs, behind FinalityIsPrefix.                                 *)

\* Only the goroutine of the present tick is at work, and not while the loop is:
\* the loop and the goroutines take turns.
TimelyInv ==
    /\ \A t \in Ticks : Busy(t) => t = tick /\ pc = "idle" /\ sendq = <<>>
    /\ OnePendingProposal

\* The reorgs that are faked, if any, are of depth 0.
NoReorg == ReorgMaxDepth = 0 \/ "reorg" \notin Faked

\* The goroutines work on the head.
TaskLinear(t) ==
    /\ task[t].pc = "forkchoice" \/ task[t].pc = "newPayload" =>
          task[t].block = head /\ Under(task[t].final, task[t].block)
    /\ task[t].pc = "getPayload" => task[task[t].id].block = head
    /\ task[t].pc = "process" => ParentOf(task[t].block) = head

\* The chain is a line: whatever is built or pending is on the head.
LinearInv ==
    /\ pc = "reorg" => "reorg" \in Faked
    /\ pc \in {"reorg", "propose"} => parent = head
    /\ \A t \in Ticks : TaskLinear(t)
    /\ \A k \in 1..Len(sendq) : task[sendq[k]].block = head
    /\ Under(finalized, nextFinalized)
    /\ Under(nextFinalized, head)

-----------------------------------------------------------------------------
(* What comments of consensus.go say, and the code does not do. *)

\* "Fake some forking by building on an ancestor": the parent of a reorg is a
\* block, and it is canonical when it is chosen.
ReorgBuildsOnAncestor ==
    [][pc = "reorg" /\ pc' = "propose" => parent' # NoHash /\ IsAncestor(parent', head)]_vars

\* "proposing next slot!": a payload requested at one slot is proposed at the next.
ProposalForItsSlot ==
    \A t \in Ticks : task[t].pc = "getPayload" => task[t].slot = task[task[t].id].slot + 1

-----------------------------------------------------------------------------
(* A timely engine, and reorgs: the inductive invariants behind what holds  *)
(* of ForkchoiceNamesHead, ReorgBuildsOnAncestor, ProposalForItsSlot and    *)
(* NoSpuriousFailure.                                                       *)

\* Whatever goroutine t is doing, it does on the head.
TaskOnHead(t) ==
    /\ task[t].pc = "forkchoice" \/ task[t].pc = "newPayload" => task[t].block = head
    /\ task[t].pc = "getPayload" => task[task[t].id].block = head
    /\ task[t].pc = "process" => ParentOf(task[t].block) = head

HeadInv ==
    /\ \A t \in Ticks : TaskOnHead(t)
    /\ \A k \in 1..Len(sendq) : task[sendq[k]].block = head

\* Reorgs, if any, go back by one block: the new block is as high as the old head.
ShallowReorgs == ReorgMaxDepth <= 1 \/ "reorg" \notin Faked

\* The number of a block, where the zero hash is below everything.
Height(b) == IF b = NoHash THEN 0 ELSE Number(b)

\* The head never gets lower than what is final, or becomes final next.
ShallowInv ==
    /\ proc # "crashed"
    /\ pc = "reorg" => parent = head /\ "reorg" \in Faked
    /\ pc = "propose" =>
          /\ parent # NoHash
          /\ IsAncestor(parent, head)
          /\ Number(parent) >= Number(head) - 1
    /\ Height(finalized) <= Height(nextFinalized)
    /\ Height(nextFinalized) <= Number(head)

\* A pending id is from the slot before the one the loop is in, or goes to next;
\* goroutines are spawned in slots after genesis.
SlotOfPending == IF pc = "idle" THEN slot ELSE slot - 1

PendingInv ==
    /\ pc # "idle" => slot > 0
    /\ \A t \in Ticks :
          /\ task[t] # NoTask => task[t].slot > 0
          /\ Busy(t) => task[t].slot = slot
    /\ Running => \A k \in 1..Len(sendq) : task[sendq[k]].slot = SlotOfPending
    /\ ProposalForItsSlot

\* An external block is dated by the slot of its goroutine, a payload by the slot
\* of its proposal.
TaskDated(t) ==
    /\ task[t].pc = "forkchoice" \/ task[t].pc = "newPayload" \/ task[t].id = t =>
          LastSlot(task[t].block) = task[t].slot
    /\ task[t].pc = "process" => LastSlot(task[t].block) = task[t].slot

NodeSuccessInv ==
    /\ NoSpuriousFailure
    /\ \A t \in Ticks : TaskDated(t)

-----------------------------------------------------------------------------
\* Whatever the loop and the goroutines insert at the same time, AddNewBlock and
\* ProcessPayload behave as the abstract tree: a child of a known block is added,
\* nothing is lost, and the head never goes back to one of its ancestors.
Tree == INSTANCE ChainTree
ImplementsChainTree == Tree!Spec

=============================================================================
