------------------------------ MODULE MergeMock ------------------------------
(***************************************************************************)
(* The consensus mock and the engine mock run against each other: the      *)
(* goroutines of ConsensusNode call EngineBackend over JSON-RPC (api/      *)
(* engine.go), every call is a request the engine handles step by step,    *)
(* and the answer decides how the goroutine goes on.  Each side has a      *)
(* chain of its own; nothing but the payloads keeps them together.         *)
(*                                                                         *)
(* The terminal total difficulty is 0, as in a run without a peer.         *)
(***************************************************************************)
EXTENDS ConsensusNode

CONSTANTS
    CacheSize,          \* capacity of the engine's recentPayloads
    MaxLate             \* bound: goroutines whose calls may outlast their slot

ASSUME MergeMockAssumption == CacheSize \in Nat \ {0} /\ MaxLate \in Nat

VARIABLES
    engineKnown,        \* blocks in the engine's database
    engineHead,         \* the engine's CurrentHeader()
    payloadIdCounter,
    recentPayloads,
    request,            \* the calls of the goroutines
    late,               \* the ticks whose goroutine may have to wait beyond its
                        \* slot, or for ever, in this behaviour
    expired             \* calls that were given up and may still arrive

engineVars == <<engineKnown, engineHead, payloadIdCounter, recentPayloads, request>>

lateVars == <<late, expired>>

mockVars == <<vars, engineVars, lateVars>>

\* The calls of a goroutine are named after the points it waits for them at.
CallPoints == {"newPayload", "forkchoice", "getPayload", "execute"}

Calls == Ticks \X CallPoints

Engine == INSTANCE EngineBackend WITH
    known <- engineKnown, head <- engineHead, Requests <- Calls,
    Offered <- {}, Slots <- {}, GenesisDifficulty <- 1, PowDifficulty <- 1,
    TerminalTotalDifficulty <- 0

MockInit ==
    /\ Init
    /\ Engine!Init
    /\ late \in {l \in SUBSET Ticks : Cardinality(l) <= MaxLate}
    /\ expired = {}

-----------------------------------------------------------------------------
(* The engine's side of the calls *)

\* A mutant: the engine builds on its own head instead of the one it is told.
AskedHeadOwn(t) == engineHead

\* The head of a forkchoice update is the block of the goroutine.
AskedHead(t) == task[t].block

\* A mutant: the payload of a block does not hash to the block.
NewPayloadCallBadHash(r, b) == Engine!NewPayloadBadHash(r, b)

\* engine_newPayloadV1 of a payload both mocks build alike: its hash is right.
NewPayloadCall(r, b) == Engine!NewPayloadSyncing(r, b) \/ Engine!NewPayloadV1(r, b)

\* engine_forkchoiceUpdatedV1, for a proposal in the next slot or for none.
ForkchoiceCall(t) ==
    LET r == <<t, "forkchoice">>
    IN  \/ Engine!ForkchoiceUpdated(r, AskedHead(t))
        \/ /\ "proposal" \in Faked
           /\ Engine!AllocateId(r, AskedHead(t), task[t].slot + 1)
        \/ Engine!BuildPayload(r)
        \/ Engine!BuildPayloadFails(r)
        \/ Engine!CacheById(r)
        \/ Engine!CacheByParent(r)

\* The engine's name of the payload a goroutine was told to propose.
EngineId(t) == request[<<task[t].id, "forkchoice">>].id

GetPayloadCall(t) ==
    LET r == <<t, "getPayload">>
    IN  Engine!GetPayloadV1(r, EngineId(t)) \/ Engine!GetPayloadUnknown(r, EngineId(t))

EngineStep(t) ==
    /\ Running
    /\ \/ /\ task[t].pc \in {"newPayload", "execute"}
          /\ NewPayloadCall(<<t, task[t].pc>>, task[t].block)
       \/ task[t].pc = "forkchoice" /\ ForkchoiceCall(t)
       \/ task[t].pc = "getPayload" /\ GetPayloadCall(t)
       \/ \E r \in expired : r[1] = t /\ NewPayloadCall(r, task[t].block)
    /\ UNCHANGED <<vars, lateVars>>

-----------------------------------------------------------------------------
(* The goroutines, when they are answered *)

Answered(t) ==
    /\ <<t, task[t].pc>> \in Calls
    /\ request[<<t, task[t].pc>>].pc = "done"

Reply(t) == request[<<t, task[t].pc>>]

\* sendForkchoiceUpdated: an id, no id, or a status that is not VALID.
ForkchoiceAnswered(t) ==
    \/ Reply(t).status = "VALID" /\ Reply(t).id = 0 /\ ForkchoiceOnly(t)
    \/ Reply(t).status = "VALID" /\ Reply(t).id # 0 /\ ForkchoicePrepares(t)
    \/ Reply(t).status # "VALID" /\ ForkchoiceFails(t)

\* getMockProposal: the payload is the one the engine returned.
PayloadReceived(t) ==
    /\ Running
    /\ task' = [task EXCEPT ![t].pc = "process", ![t].block = Reply(t).block]
    /\ UNCHANGED <<proc, pc, tick, slot, parent, chainVars, finalityVars, sendq>>

GetPayloadAnswered(t) ==
    \/ Reply(t).status = "ok" /\ PayloadReceived(t)
    \/ Reply(t).status # "ok" /\ GetPayloadFails(t)

ExecuteAnswered(t) ==
    IF Reply(t).status = "VALID" THEN ExecutePayload(t) ELSE ExecutePayloadFails(t)

GoroutineStep(t) ==
    /\ \/ /\ Answered(t)
          /\ \/ task[t].pc = "newPayload" /\ MockExecution(t)
             \/ task[t].pc = "forkchoice" /\ ForkchoiceAnswered(t)
             \/ task[t].pc = "getPayload" /\ GetPayloadAnswered(t)
             \/ task[t].pc = "execute" /\ ExecuteAnswered(t)
       \/ ProcessPayload(t)
       \/ ProcessPayloadFails(t)
    /\ UNCHANGED <<engineVars, lateVars>>

\* engine_newPayloadV1 is given up after 20 seconds, the other calls are not.
TimesOut(t) ==
    /\ t \in late
    /\ ~Answered(t)
    /\ MockExecution(t) \/ ExecutePayloadFails(t)
    /\ expired' = expired \cup {<<t, task[t].pc>>}
    /\ UNCHANGED <<engineVars, late>>

-----------------------------------------------------------------------------

InSlot(t) == EngineStep(t) \/ GoroutineStep(t) \/ TimesOut(t)

Quiet == \A t \in Ticks : ~Busy(t)

Timely == late = {}

SlotLoopStep ==
    /\ pc = "idle" => \A t \in Ticks \ late : ~Busy(t)
    /\ SlotLoop
    /\ UNCHANGED <<engineVars, lateVars>>

MockNext == SlotLoopStep \/ \E t \in Ticks : InSlot(t)

MockSpec == MockInit /\ [][MockNext]_mockVars

\* The loop is scheduled; calls are answered in time except the late ones.
MockFairSpec ==
    /\ MockSpec
    /\ WF_mockVars(SlotLoopStep)
    /\ WF_mockVars(\E t \in Ticks \ late : InSlot(t))

-----------------------------------------------------------------------------
(* Properties *)

\* The two chains: the engine never has a block the consensus mock has not, and
\* when every call of a slot was answered in time, both have the same blocks and
\* the same head again, whatever was reorged, proposed or thrown away.
ChainsAgree ==
    /\ engineKnown \subseteq known
    /\ Timely /\ Quiet /\ Running => engineKnown = known /\ engineHead = head

\* With a timely engine mock a bounded run never reports a failure: the payload
\* ids are redeemed before they are evicted, in their slot, and every payload is
\* accepted by both sides.
TimelyRunSucceeds == Timely => NoSpuriousFailure

\* With a timely engine mock a forkchoice update names the head the loop builds on.
TimelyForkchoice == Timely => ForkchoiceNamesHead

\* Blocks as ConsensusNode names them: an engine's payload after the tick that
\* asked for it, not after the engine's counter.
TickOf(calls, i) == CHOOSE t \in Ticks : calls[<<t, "forkchoice">>].id = i

Renamed(calls, b) ==
    IF b = NoHash THEN NoHash
    ELSE [k \in DOMAIN b |->
            IF b[k].src = "engine" THEN [b[k] EXCEPT !.by = TickOf(calls, @)] ELSE b[k]]

RenamedTask(calls, g) ==
    [g EXCEPT !.block = Renamed(calls, @), !.safe = Renamed(calls, @), !.final = Renamed(calls, @)]

Node == INSTANCE ConsensusNode WITH
    EngineFaults <- {"forkchoice", "getPayload", "execute"},
    known <- {Renamed(request, b) : b \in known},
    head <- Renamed(request, head),
    parent <- Renamed(request, parent),
    finalized <- Renamed(request, finalized),
    safe <- Renamed(request, safe),
    nextFinalized <- Renamed(request, nextFinalized),
    task <- [t \in Ticks |-> RenamedTask(request, task[t])]

\* The engine mock is one of the engines ConsensusNode is checked and proved with.
\* However slow, it fails a call in three ways only (a forkchoice update whose head
\* has not arrived, a payload that was evicted, an execution that was given up);
\* what it returns is built on the head and for the slot it was asked for.
ImplementsConsensusNode == Node!Spec

-----------------------------------------------------------------------------
(* The inductive invariant behind the safety properties.  First, what holds *)
(* however slow the engine is.                                              *)

Call(t, x) == request[<<t, x>>]

\* The payload that the forkchoice update of a goroutine asks for.
PayloadFor(t) ==
    Append(task[t].block, [slot |-> task[t].slot + 1, src |-> "engine",
                           by |-> Call(t, "forkchoice").id])

\* The engine has no block that the consensus mock has not.
EngineSideInv ==
    /\ engineKnown \subseteq known
    /\ engineHead \in engineKnown
    /\ payloadIdCounter \in Nat
    /\ recentPayloads \subseteq Engine!CacheEntry
    /\ request \in [Calls -> Engine!Request]

\* A call is made at its point of the goroutine.
CallOrder(t) ==
    /\ Call(t, "newPayload").pc # "new" =>
          task[t].pc \in {"newPayload", "forkchoice", "send", "done"}
    /\ Call(t, "forkchoice").pc # "new" => task[t].pc \in {"forkchoice", "send", "done"}
    /\ Call(t, "getPayload").pc # "new" =>
          task[t].pc \in {"getPayload", "process", "execute", "done"}
    /\ Call(t, "execute").pc # "new" => task[t].pc \in {"execute", "done"}
    /\ \A x \in CallPoints : Call(t, x).pc = "new" => Call(t, x) = Engine!NoRequest

\* A forkchoice update that was given an id asks for a payload on the block and
\* after the slot of its goroutine.
AskInv(t) ==
    LET q == Call(t, "forkchoice")
    IN  /\ q.pc \in {"build", "cacheId", "cacheParent"} => q.id # 0
        /\ q.id <= payloadIdCounter
        /\ q.id # 0 =>
              /\ q.fcHead = task[t].block
              /\ q.slot = task[t].slot + 1
              /\ Merged(task[t].block)
        /\ q.pc \in {"cacheId", "cacheParent"} => q.block = PayloadFor(t)

\* What a proposal was given is what the goroutine asked for whose id it took.
GetInv(t) ==
    Call(t, "getPayload").status = "ok" =>
        /\ task[t].id \in Ticks
        /\ Call(task[t].id, "forkchoice").id # 0
        /\ Call(t, "getPayload").block = PayloadFor(task[t].id)

\* Whatever is cached is a payload that was asked for.
CachedInv(e) ==
    \E t \in Ticks :
        /\ Call(t, "forkchoice").id # 0
        /\ e.val = PayloadFor(t)
        /\ e.key.kind = "id" => e.key.id = Call(t, "forkchoice").id

IdsDistinct ==
    \A t, u \in Ticks :
        Call(t, "forkchoice").id = Call(u, "forkchoice").id /\ Call(t, "forkchoice").id # 0
            => t = u

\* The block of a call to come, or to come late, is known.
SendsKnown(t) ==
    /\ task[t].pc = "execute" => task[t].block \in known
    /\ \A x \in {"newPayload", "execute"} : <<t, x>> \in expired =>
          /\ task[t].block \in known
          /\ \/ x = "newPayload" /\ task[t].pc \in {"forkchoice", "send", "done"}
             \/ x = "execute" /\ task[t].pc = "done"

MockInv ==
    /\ IInv
    /\ EngineSideInv
    /\ \A t \in Ticks : CallOrder(t) /\ AskInv(t) /\ GetInv(t) /\ SendsKnown(t)
    /\ \A e \in recentPayloads : CachedInv(e)
    /\ IdsDistinct
    /\ expired \subseteq Ticks \X {"newPayload", "execute"}

(* Then, what holds when every call is answered in its slot. *)

\* A block that the engine has not been sent yet.
Unsent(t) ==
    /\ task[t].pc \in {"newPayload", "execute"}
    /\ Call(t, task[t].pc).pc = "new"

\* The chains differ by the block that is being sent.
SyncInv ==
    /\ (\A t \in Ticks : ~Unsent(t)) => engineKnown = known /\ engineHead = head
    /\ \A t \in Ticks : Unsent(t) =>
          /\ known = engineKnown \cup {task[t].block}
          /\ head = InsertChain(engineHead, task[t].block)
          /\ ParentOf(task[t].block) \in engineKnown

TimelySync == Timely => expired = {} /\ TimelyInv /\ SyncInv

\* The block that is being executed is the head, since it is new.
TimelyHead ==
    Timely => \A t \in Ticks :
        task[t].pc \in {"newPayload", "forkchoice"} => task[t].block = head

\* Nothing fails: a payload stays cached until it is asked for, which is in the
\* slot after the one that asked for it.
AskSucceeds(t) ==
    LET q == Call(t, "forkchoice")
    IN  task[t].pc = "forkchoice" =>
          /\ q.pc = "cacheParent" =>
                \E e \in recentPayloads : e.key = Engine!IdKey(q.id) /\ e.age = 1
          /\ q.pc = "done" =>
                q.status = "VALID" /\ (q.id # 0 => Engine!Cached(Engine!IdKey(q.id)))

ProposalSucceeds(t) ==
    /\ Busy(t) => task[t].slot = slot /\ slot > 0
    /\ task[t].pc = "getPayload" =>
          /\ task[t].slot = task[task[t].id].slot + 1
          /\ IF Call(t, "getPayload").pc = "new"
             THEN Engine!Cached(Engine!IdKey(EngineId(t)))
             ELSE Call(t, "getPayload").status = "ok"
    /\ task[t].pc = "process" =>
          /\ ValidateTimestamp(task[t].block, task[t].slot)
          /\ ParentOf(task[t].block) \in known
    /\ task[t].pc = "execute" /\ Call(t, "execute").pc # "new" =>
          Call(t, "execute").pc = "done" /\ Call(t, "execute").status = "VALID"

SuccessInv ==
    Timely =>
        /\ proc # "exit1"
        /\ pc # "idle" => slot > 0
        /\ \A t \in Ticks : AskSucceeds(t) /\ ProposalSucceeds(t)
        /\ \A k \in 1..Len(sendq) :
              /\ Engine!Cached(Engine!IdKey(Call(sendq[k], "forkchoice").id))
              /\ Running => /\ slot > 0
                            /\ slot = IF pc = "idle" THEN task[sendq[k]].slot
                                      ELSE task[sendq[k]].slot + 1

(* Last, what the renaming rests on: the id in every payload of the engine *)
(* was given to a goroutine.                                                *)

Named(calls, b) ==
    b = NoHash \/ \A k \in 1..Len(b) : b[k].src = "engine" =>
        b[k].by # 0 /\ \E t \in Ticks : calls[<<t, "forkchoice">>].id = b[k].by

NamesInv ==
    /\ \A b \in known : Named(request, b)
    /\ \A t \in Ticks : /\ Named(request, task[t].block)
                        /\ Named(request, task[t].safe)
                        /\ Named(request, task[t].final)

\* The database of an earlier run holds no payload that this engine counts.
StoredByOthers == \A k \in 1..Len(StoredChain) : StoredChain[k].src # "engine"

=============================================================================
