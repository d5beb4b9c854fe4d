--------------------------- MODULE MergeMock_proofs ---------------------------
(***************************************************************************)
(* Proofs about the two mocks together: the engine never has a block that  *)
(* the consensus mock has not; and when every call is answered within its  *)
(* slot, the two chains agree, the forkchoice updates name the head, and   *)
(* the run reports no failure.                                             *)
(***************************************************************************)
EXTENDS MergeMock, ConsensusNode_proofs

-----------------------------------------------------------------------------
(* Calls *)

\* The two mocks speak of the same blocks.
LEMMA SameBlocks ==
    /\ Engine!Block = Block
    /\ Engine!BlockOrNone = BlockOrNone
    /\ \A b : Engine!ParentOf(b) = ParentOf(b)
    /\ \A h, b : Engine!InsertChain(h, b) = InsertChain(h, b)
    /\ \A b, s : Engine!AddNewBlock(b, s) = Append(b, s)
BY DEF Engine!Block, Block, Engine!Seal, Seal, Engine!Builders, Builders, Engine!BlockOrNone,
       BlockOrNone, Engine!ParentOf, ParentOf, Engine!InsertChain, InsertChain,
       Engine!IsAncestor, IsAncestor, Engine!AddNewBlock

\* A call that was not made is a request.
LEMMA NoRequestFacts ==
    /\ Engine!NoRequest \in Engine!Request
    /\ Engine!NoRequest.pc = "new"
    /\ Engine!NoRequest.id = 0
    /\ Engine!NoRequest.status = "none"
BY DEF Engine!NoRequest, Engine!Request, Engine!RequestPoints, Engine!BlockOrNone, Engine!Statuses

\* A step of one call leaves the others alone.
LEMMA CallUpdate ==
    ASSUME request \in [Calls -> Engine!Request], NEW t \in Ticks, NEW x \in CallPoints,
           NEW q \in Engine!Request, request' = [request EXCEPT ![<<t, x>>] = q]
    PROVE  /\ request' \in [Calls -> Engine!Request]
           /\ Call(t, x)' = q
           /\ \A u \in Ticks, y \in CallPoints : u # t \/ y # x => Call(u, y)' = Call(u, y)
<1>1. <<t, x>> \in Calls /\ \A u \in Ticks, y \in CallPoints : <<u, y>> \in Calls
  BY DEF Calls
<1> QED BY <1>1 DEF Call

\* An answer, and the call that gets it.
LEMMA AnswerFacts ==
    ASSUME request \in [Calls -> Engine!Request], NEW t \in Ticks, NEW x \in CallPoints,
           NEW op \in {"getPayload", "newPayload", "forkchoiceUpdated"}, NEW i \in Nat,
           NEW b \in BlockOrNone, NEW s \in Engine!Statuses,
           Engine!Answer(<<t, x>>, op, i, b, s)
    PROVE  \E q \in Engine!Request :
              /\ request' = [request EXCEPT ![<<t, x>>] = q]
              /\ q.pc = "done" /\ q.id = i /\ q.block = b /\ q.status = s
<1> DEFINE q == [Engine!NoRequest EXCEPT !.pc = "done", !.op = op, !.id = i, !.block = b,
                                         !.status = s]
<1>1. q \in Engine!Request
  BY NoRequestFacts, SameBlocks DEF Engine!Request, Engine!RequestPoints
<1>2. q.pc = "done" /\ q.id = i /\ q.block = b /\ q.status = s
  BY NoRequestFacts DEF Engine!Request
<1>3. request' = [request EXCEPT ![<<t, x>>] = q]
  BY DEF Engine!Answer
<1> QED BY <1>1, <1>2, <1>3

\* Cache.Add: the new entry is the most recent one, the others are old ones, and the
\* one that was the most recent stays if there is room for two.
LEMMA AddFacts ==
    ASSUME recentPayloads \subseteq Engine!CacheEntry,
           NEW key \in Engine!CacheKey, NEW p \in Block
    PROVE  /\ Engine!Add(key, p) \subseteq Engine!CacheEntry
           /\ \A e \in Engine!Add(key, p) :
                 \/ e.key = key /\ e.val = p
                 \/ \E f \in recentPayloads : e.key = f.key /\ e.val = f.val
           /\ \E e \in Engine!Add(key, p) : e.key = key /\ e.age = 1
           /\ \A f \in recentPayloads : f.key # key /\ f.age = 1 /\ CacheSize >= 2 =>
                 \E e \in Engine!Add(key, p) : e.key = f.key
<1> DEFINE Moved(f) == IF Engine!Cached(key) /\ f.age > Engine!Entry(key).age THEN f
                       ELSE [f EXCEPT !.age = f.age + 1]
           new == [key |-> key, val |-> p, age |-> 1]
<1>1. CacheSize \in Nat \ {0}
  BY MergeMockAssumption
<1>2. new \in Engine!CacheEntry /\ new.key = key /\ new.val = p /\ new.age = 1
  BY <1>1, SameBlocks DEF Engine!CacheEntry
<1>3. Engine!Add(key, p) =
         {e \in {Moved(f) : f \in {x \in recentPayloads : x.key # key}} : e.age <= CacheSize}
             \cup {new}
  BY DEF Engine!Add, Engine!Older
<1>4. ASSUME NEW f \in recentPayloads
      PROVE  /\ Moved(f).key = f.key
             /\ Moved(f).val = f.val
             /\ Moved(f).age <= CacheSize => Moved(f) \in Engine!CacheEntry
             /\ f.age = 1 /\ CacheSize >= 2 => Moved(f).age <= CacheSize
  <2>1. f \in Engine!CacheEntry /\ f.age \in Nat /\ f.age >= 1
    BY <1>1 DEF Engine!CacheEntry
  <2> QED BY <1>1, <2>1 DEF Engine!CacheEntry
<1> HIDE DEF Moved, new
<1> QED BY <1>2, <1>3, <1>4

-----------------------------------------------------------------------------
(* The engine's side *)

\* IInv speaks of the consensus mock alone.
LEMMA IInvUnchanged ==
    ASSUME IInv, UNCHANGED vars
    PROVE  IInv'
BY DEF vars, IInv, TypeOK, KnownClosed, TransitionBuried, Terminal, LoopInv, TaskInv, Merged,
       Prepared

\* The payload that was asked for with an id: the engine's own child of the block.
LEMMA AskedFacts ==
    ASSUME MockInv, NEW t \in Ticks, Call(t, "forkchoice").id # 0
    PROVE  /\ task[t].pc \in {"forkchoice", "send", "done"}
           /\ Merged(task[t].block)
           /\ task[t].block \in Block
           /\ task[t].slot \in Int
           /\ PayloadFor(t) \in Block
           /\ Len(PayloadFor(t)) > 0
           /\ ParentOf(PayloadFor(t)) = task[t].block
           /\ LastSlot(PayloadFor(t)) = task[t].slot + 1
           /\ IsAncestor(Terminal, PayloadFor(t))
<1>1. <<t, "forkchoice">> \in Calls /\ Call(t, "forkchoice").id \in Nat
  BY DEF MockInv, EngineSideInv, Call, Calls, CallPoints, Engine!Request
<1>2. task[t].pc \in {"forkchoice", "send", "done"} /\ Merged(task[t].block)
  BY NoRequestFacts DEF MockInv, CallOrder, AskInv, CallPoints
<1>3. task[t].block \in Block /\ task[t].slot \in Int
  BY <1>2 DEF MockInv, IInv, TypeOK, Merged, Task
<1> DEFINE s == [slot |-> task[t].slot + 1, src |-> "engine", by |-> Call(t, "forkchoice").id]
<1>4. s \in Seal /\ s.slot = task[t].slot + 1
  BY <1>1, <1>3 DEF Seal, Builders
<1>5. PayloadFor(t) = Append(task[t].block, s)
  BY DEF PayloadFor
<1> HIDE DEF s
<1>6. Len(task[t].block) \in Nat
  BY <1>3, LenProperties DEF Block
<1> QED BY <1>2, <1>3, <1>4, <1>5, <1>6, ChildOfBlock, ParentOfChild, SlotFacts, TerminalBlock,
           AncestorOfChild DEF Merged

\* A call other than a forkchoice update is answered.
LEMMA OtherCallKeeps ==
    ASSUME MockInv, NEW t \in Ticks, NEW x \in {"newPayload", "getPayload", "execute"},
           NEW q \in Engine!Request, request' = [request EXCEPT ![<<t, x>>] = q], q.pc = "done",
           UNCHANGED <<vars, lateVars, payloadIdCounter>>,
           engineKnown' \subseteq known, engineHead' \in engineKnown',
           recentPayloads' \subseteq Engine!CacheEntry,
           \A e \in recentPayloads' : \E f \in recentPayloads : e.key = f.key /\ e.val = f.val,
           task[t].pc = x \/ (x # "getPayload" /\ <<t, x>> \in expired),
           x = "getPayload" /\ q.status = "ok" =>
              /\ task[t].id \in Ticks
              /\ Call(task[t].id, "forkchoice").id # 0
              /\ q.block = PayloadFor(task[t].id)
    PROVE  MockInv'
<1> USE DEF vars, lateVars
<1>1. request \in [Calls -> Engine!Request] /\ x \in CallPoints
  BY DEF MockInv, EngineSideInv, CallPoints
<1>2. /\ request' \in [Calls -> Engine!Request]
      /\ Call(t, x)' = q
      /\ \A u \in Ticks, y \in CallPoints : u # t \/ y # x => Call(u, y)' = Call(u, y)
  BY <1>1, CallUpdate
<1>3. \A u \in Ticks : /\ Call(u, "forkchoice")' = Call(u, "forkchoice")
                       /\ PayloadFor(u)' = PayloadFor(u)
  BY <1>2 DEF CallPoints, PayloadFor
<1>4. IInv'
  BY IInvUnchanged DEF MockInv
<1>5. EngineSideInv'
  BY <1>2 DEF MockInv, EngineSideInv
<1>6. ASSUME NEW u \in Ticks
      PROVE  CallOrder(u)' /\ AskInv(u)' /\ GetInv(u)' /\ SendsKnown(u)'
  <2>1. CallOrder(u) /\ AskInv(u) /\ GetInv(u) /\ SendsKnown(u)
    BY DEF MockInv
  <2>2. SendsKnown(u)'
    BY <2>1 DEF SendsKnown
  <2>3. AskInv(u)'
    BY <1>3, <2>1 DEF AskInv, Merged, Terminal
  <2>4. u = t => task[u].pc \in {"newPayload", "forkchoice", "send", "done"} \/ x # "newPayload"
    BY <2>1 DEF SendsKnown
  <2>5. u = t => task[u].pc \in {"execute", "done"} \/ x # "execute"
    BY <2>1 DEF SendsKnown
  <2>6. CallOrder(u)'
    BY <1>2, <2>1, <2>4, <2>5 DEF CallOrder, CallPoints
  <2>7. GetInv(u)'
    BY <1>2, <1>3, <2>1 DEF GetInv, CallPoints
  <2> QED BY <2>2, <2>3, <2>6, <2>7
<1>7. ASSUME NEW e \in recentPayloads' PROVE CachedInv(e)'
  <2>1. PICK f \in recentPayloads : e.key = f.key /\ e.val = f.val
    OBVIOUS
  <2>2. CachedInv(f)
    BY DEF MockInv
  <2> QED BY <1>3, <2>1, <2>2 DEF CachedInv
<1>8. IdsDistinct'
  BY <1>3 DEF MockInv, IdsDistinct
<1>9. (expired \subseteq Ticks \X {"newPayload", "execute"})'
  BY DEF MockInv
<1> QED BY <1>4, <1>5, <1>6, <1>7, <1>8, <1>9 DEF MockInv

\* A forkchoice update moves on.
LEMMA AskKeeps ==
    ASSUME MockInv, NEW t \in Ticks, task[t].pc = "forkchoice",
           NEW q \in Engine!Request, request' = [request EXCEPT ![<<t, "forkchoice">>] = q],
           q.pc # "new",
           UNCHANGED <<vars, lateVars, engineKnown, engineHead>>,
           payloadIdCounter' \in Nat, payloadIdCounter <= payloadIdCounter',
           recentPayloads' \subseteq Engine!CacheEntry,
           \/ q.id = Call(t, "forkchoice").id
           \/ Call(t, "forkchoice").id = 0 /\ (q.id = 0 \/ q.id > payloadIdCounter),
           AskInv(t)',
           \A e \in recentPayloads' :
              \/ \E f \in recentPayloads : e.key = f.key /\ e.val = f.val
              \/ CachedInv(e)'
    PROVE  MockInv'
<1> USE DEF vars, lateVars
<1>1. request \in [Calls -> Engine!Request] /\ "forkchoice" \in CallPoints
  BY DEF MockInv, EngineSideInv, CallPoints
<1>2. /\ request' \in [Calls -> Engine!Request]
      /\ Call(t, "forkchoice")' = q
      /\ \A u \in Ticks, y \in CallPoints :
            u # t \/ y # "forkchoice" => Call(u, y)' = Call(u, y)
  BY <1>1, CallUpdate
<1>3. \A u \in Ticks : /\ u # t => Call(u, "forkchoice")' = Call(u, "forkchoice")
                       /\ Call(u, "forkchoice").id # 0 =>
                             /\ Call(u, "forkchoice").id' = Call(u, "forkchoice").id
                             /\ PayloadFor(u)' = PayloadFor(u)
                       /\ u # t => PayloadFor(u)' = PayloadFor(u)
  BY <1>1, <1>2 DEF PayloadFor
<1>4. IInv'
  BY IInvUnchanged DEF MockInv
<1>5. EngineSideInv'
  BY <1>2 DEF MockInv, EngineSideInv
<1>6. payloadIdCounter \in Nat /\ \A u \in Ticks : Call(u, "forkchoice").id \in Nat
  BY <1>1 DEF MockInv, EngineSideInv, Call, Calls, Engine!Request
<1>7. ASSUME NEW u \in Ticks
      PROVE  CallOrder(u)' /\ AskInv(u)' /\ GetInv(u)' /\ SendsKnown(u)'
  <2>1. CallOrder(u) /\ AskInv(u) /\ GetInv(u) /\ SendsKnown(u)
    BY DEF MockInv
  <2>2. SendsKnown(u)'
    BY <2>1 DEF SendsKnown
  <2>3. AskInv(u)'
    <3>1. CASE u # t
      BY <1>3, <1>6, <2>1, <3>1 DEF AskInv, Merged, Terminal
    <3> QED BY <3>1
  <2>4. CallOrder(u)'
    BY <1>2, <2>1 DEF CallOrder, CallPoints
  <2>5. GetInv(u)'
    BY <1>2, <1>3, <2>1 DEF GetInv, CallPoints
  <2> QED BY <2>2, <2>3, <2>4, <2>5
<1>8. ASSUME NEW e \in recentPayloads' PROVE CachedInv(e)'
  <2>1. CASE \E f \in recentPayloads : e.key = f.key /\ e.val = f.val
    <3>1. PICK f \in recentPayloads : e.key = f.key /\ e.val = f.val
      BY <2>1
    <3>2. CachedInv(f)
      BY DEF MockInv
    <3> QED BY <1>3, <3>1, <3>2 DEF CachedInv
  <2> QED BY <2>1
<1>9. IdsDistinct'
  <2>1. \A u \in Ticks : Call(u, "forkchoice").id <= payloadIdCounter
    BY DEF MockInv, AskInv
  <2>2. q.id \in Nat
    BY DEF Engine!Request
  <2> SUFFICES ASSUME NEW u \in Ticks, NEW w \in Ticks, Call(u, "forkchoice")'.id # 0,
                      Call(u, "forkchoice")'.id = Call(w, "forkchoice")'.id,
                      u # w
               PROVE  FALSE
    BY DEF IdsDistinct
  <2>3. CASE u # t /\ w # t
    BY <1>3, <2>3 DEF MockInv, IdsDistinct
  <2>4. CASE u = t
    BY <1>2, <1>3, <1>6, <2>1, <2>2, <2>4 DEF MockInv, IdsDistinct
  <2>5. CASE w = t
    BY <1>2, <1>3, <1>6, <2>1, <2>2, <2>5 DEF MockInv, IdsDistinct
  <2> QED BY <2>3, <2>4, <2>5
<1>10. (expired \subseteq Ticks \X {"newPayload", "execute"})'
  BY DEF MockInv
<1> QED BY <1>4, <1>5, <1>7, <1>8, <1>9, <1>10 DEF MockInv

\* engine_newPayloadV1 of a block of the consensus mock, in time or late.
LEMMA NewPayloadCallKeeps ==
    ASSUME MockInv, NEW t \in Ticks, NEW x \in {"newPayload", "execute"},
           task[t].pc = x \/ <<t, x>> \in expired,
           NewPayloadCall(<<t, x>>, task[t].block), UNCHANGED <<vars, lateVars>>
    PROVE  MockInv'
<1> DEFINE b == task[t].block
<1>1. b \in known /\ b \in BlockOrNone
  BY DEF MockInv, IInv, TaskInv, TypeOK, Merged, SendsKnown, BlockOrNone
<1>2. /\ recentPayloads' = recentPayloads /\ payloadIdCounter' = payloadIdCounter
      /\ \E s \in {"SYNCING", "VALID"} : Engine!Answer(<<t, x>>, "newPayload", 0, b, s)
      /\ \/ engineKnown' = engineKnown /\ engineHead' = engineHead
         \/ engineKnown' = engineKnown \cup {b} /\ engineHead' \in {engineHead, b}
  BY SameBlocks DEF NewPayloadCall, Engine!NewPayloadSyncing, Engine!NewPayloadV1, InsertChain
<1> HIDE DEF b
<1>3. request \in [Calls -> Engine!Request] /\ x \in CallPoints
      /\ {"SYNCING", "VALID"} \subseteq Engine!Statuses
      /\ recentPayloads \subseteq Engine!CacheEntry
      /\ engineKnown \subseteq known /\ engineHead \in engineKnown
  BY DEF MockInv, EngineSideInv, CallPoints, Engine!Statuses
<1>4. PICK q \in Engine!Request : request' = [request EXCEPT ![<<t, x>>] = q] /\ q.pc = "done"
  BY <1>1, <1>2, <1>3, AnswerFacts
<1>5. engineKnown' \subseteq known /\ engineHead' \in engineKnown'
  BY <1>1, <1>2, <1>3
<1> QED BY <1>2, <1>3, <1>4, <1>5, OtherCallKeeps

\* engine_getPayloadV1 returns what was asked for with the id, or nothing.
LEMMA GetPayloadCallKeeps ==
    ASSUME MockInv, NEW t \in Ticks, task[t].pc = "getPayload",
           GetPayloadCall(t), UNCHANGED <<vars, lateVars>>
    PROVE  MockInv'
<1> DEFINE i == EngineId(t)
           key == Engine!IdKey(i)
           r == <<t, "getPayload">>
<1>1. task[t].id \in Ticks /\ i = Call(task[t].id, "forkchoice").id
  BY DEF MockInv, IInv, TaskInv, Prepared, EngineId, Call
<1>2. /\ request \in [Calls -> Engine!Request] /\ "getPayload" \in CallPoints
      /\ recentPayloads \subseteq Engine!CacheEntry
      /\ engineKnown \subseteq known /\ engineHead \in engineKnown
      /\ i \in Nat
  BY <1>1 DEF MockInv, EngineSideInv, Call, Calls, CallPoints, Engine!Request
<1>3. key \in Engine!CacheKey /\ key.kind = "id" /\ key.id = i
  BY <1>2 DEF Engine!IdKey, Engine!CacheKey, Engine!BlockOrNone
<1>4. UNCHANGED <<engineKnown, engineHead, payloadIdCounter>>
  BY DEF GetPayloadCall, Engine!GetPayloadV1, Engine!GetPayloadUnknown
<1>5. CASE Engine!GetPayloadV1(r, i)
  <2> DEFINE e == Engine!Entry(key)
  <2>1. e \in recentPayloads /\ e.key = key
    BY <1>5 DEF Engine!GetPayloadV1, Engine!Cached, Engine!Entry
  <2>2. /\ Engine!Answer(r, "getPayload", i, e.val, "ok")
        /\ recentPayloads' = Engine!Add(key, e.val)
    BY <1>5 DEF Engine!GetPayloadV1, Engine!Touch
  <2> HIDE DEF e
  <2>3. e.val \in Block /\ e.val \in BlockOrNone /\ "ok" \in Engine!Statuses
    BY <1>2, <2>1, SameBlocks DEF Engine!CacheEntry, BlockOrNone, Engine!Statuses
  <2>4. /\ recentPayloads' \subseteq Engine!CacheEntry
        /\ \A f \in recentPayloads' : \E g \in recentPayloads : f.key = g.key /\ f.val = g.val
    BY <1>2, <1>3, <2>1, <2>2, <2>3, AddFacts
  <2>5. PICK u \in Ticks : /\ Call(u, "forkchoice").id # 0
                           /\ e.val = PayloadFor(u)
                           /\ Call(u, "forkchoice").id = i
    BY <1>3, <2>1 DEF MockInv, CachedInv
  <2>6. u = task[t].id
    BY <1>1, <2>5 DEF MockInv, IdsDistinct
  <2> HIDE DEF key, i
  <2>7. PICK q \in Engine!Request :
           request' = [request EXCEPT ![r] = q] /\ q.pc = "done" /\ q.block = e.val
    BY <1>2, <2>2, <2>3, AnswerFacts
  <2> QED BY <1>1, <1>2, <1>4, <2>4, <2>5, <2>6, <2>7, OtherCallKeeps
<1>6. CASE Engine!GetPayloadUnknown(r, i)
  <2>1. /\ Engine!Answer(r, "getPayload", i, NoHash, "UnavailablePayload")
        /\ recentPayloads' = recentPayloads
    BY <1>6 DEF Engine!GetPayloadUnknown
  <2> HIDE DEF key, i
  <2>2. NoHash \in BlockOrNone /\ "UnavailablePayload" \in Engine!Statuses
    BY DEF BlockOrNone, Engine!Statuses
  <2>3. PICK q \in Engine!Request :
           request' = [request EXCEPT ![r] = q] /\ q.pc = "done" /\ q.status # "ok"
    BY <1>2, <2>1, <2>2, AnswerFacts
  <2> QED BY <1>2, <1>4, <2>1, <2>3, OtherCallKeeps
<1> QED BY <1>5, <1>6 DEF GetPayloadCall

\* engine_forkchoiceUpdatedV1, step by step.
LEMMA ForkchoiceCallKeeps ==
    ASSUME MockInv, NEW t \in Ticks, task[t].pc = "forkchoice",
           ForkchoiceCall(t), UNCHANGED <<vars, lateVars>>
    PROVE  MockInv'
<1> DEFINE r == <<t, "forkchoice">>
           b == task[t].block
           c == Call(t, "forkchoice")
<1>1. /\ request \in [Calls -> Engine!Request] /\ "forkchoice" \in CallPoints /\ r \in Calls
      /\ recentPayloads \subseteq Engine!CacheEntry
      /\ payloadIdCounter \in Nat
      /\ c = request[r] /\ c \in Engine!Request
  BY DEF MockInv, EngineSideInv, Call, Calls, CallPoints
<1>2. Merged(b) /\ b \in Block /\ task[t].slot \in Int
  BY DEF MockInv, IInv, TaskInv, TypeOK, Merged, Task
<1>3. AskInv(t) /\ CallOrder(t)
  BY DEF MockInv
<1>4. UNCHANGED <<engineKnown, engineHead>>
  BY DEF ForkchoiceCall, Engine!ForkchoiceUpdated, Engine!AllocateId, Engine!BuildPayload,
         Engine!BuildPayloadFails, Engine!CacheById, Engine!CacheByParent
<1>5. UNCHANGED <<payloadIdCounter, recentPayloads>> =>
          /\ payloadIdCounter' \in Nat /\ payloadIdCounter <= payloadIdCounter'
          /\ recentPayloads' \subseteq Engine!CacheEntry
          /\ \A e \in recentPayloads' : \E f \in recentPayloads : e.key = f.key /\ e.val = f.val
  BY <1>1
<1>6. CASE Engine!ForkchoiceUpdated(r, b)
  <2>1. /\ Engine!Answer(r, "forkchoiceUpdated", 0, b, "VALID")
        /\ UNCHANGED <<payloadIdCounter, recentPayloads>>
        /\ c.id = 0
    BY <1>1, <1>3, <1>6, NoRequestFacts DEF Engine!ForkchoiceUpdated, Engine!New, CallOrder
  <2>2. PICK q \in Engine!Request :
           request' = [request EXCEPT ![r] = q] /\ q.pc = "done" /\ q.id = 0
    <3>1. b \in BlockOrNone /\ "VALID" \in Engine!Statuses /\ 0 \in Nat
      BY <1>2 DEF BlockOrNone, Engine!Statuses
    <3> QED BY <1>1, <2>1, <3>1, AnswerFacts
  <2>3. Call(t, "forkchoice")' = q
    BY <1>1, <2>2, CallUpdate
  <2>4. AskInv(t)'
    BY <1>1, <2>1, <2>2, <2>3 DEF AskInv
  <2> QED BY <1>1, <1>4, <1>5, <2>1, <2>2, <2>4, AskKeeps
<1>7. CASE Engine!AllocateId(r, b, task[t].slot + 1)
  <2> DEFINE q == [Engine!NoRequest EXCEPT !.pc = "build", !.op = "forkchoiceUpdated",
                      !.fcHead = b, !.slot = task[t].slot + 1, !.id = payloadIdCounter + 1]
  <2>1. /\ request' = [request EXCEPT ![r] = q]
        /\ payloadIdCounter' = payloadIdCounter + 1
        /\ UNCHANGED recentPayloads
        /\ c.id = 0
    BY <1>1, <1>3, <1>7, NoRequestFacts DEF Engine!AllocateId, Engine!New, CallOrder
  <2>2. q \in Engine!Request
    <3>1. payloadIdCounter + 1 \in Nat /\ task[t].slot + 1 \in Int /\ b \in Engine!BlockOrNone
      BY <1>1, <1>2, SameBlocks DEF BlockOrNone
    <3> HIDE DEF b
    <3> QED BY <3>1, NoRequestFacts DEF Engine!Request, Engine!RequestPoints
  <2>3. /\ q.pc = "build" /\ q.fcHead = b /\ q.slot = task[t].slot + 1
        /\ q.id = payloadIdCounter + 1
    BY NoRequestFacts DEF Engine!Request
  <2> HIDE DEF q
  <2>4. Call(t, "forkchoice")' = q
    BY <1>1, <2>1, <2>2, CallUpdate
  <2>5. AskInv(t)'
    BY <1>1, <1>2, <2>1, <2>3, <2>4 DEF AskInv, Merged, Terminal, vars
  <2>6. payloadIdCounter' \in Nat /\ payloadIdCounter <= payloadIdCounter'
        /\ q.id > payloadIdCounter
    BY <1>1, <2>1, <2>3
  <2> QED BY <1>1, <1>4, <2>1, <2>2, <2>3, <2>5, <2>6, AskKeeps
<1>8. CASE Engine!BuildPayload(r)
  <2> DEFINE p == Append(c.fcHead, [slot |-> c.slot, src |-> "engine", by |-> c.id])
             q == [c EXCEPT !.pc = "cacheId", !.block = p]
  <2>1. /\ request' = [request EXCEPT ![r] = q]
        /\ UNCHANGED <<payloadIdCounter, recentPayloads>>
        /\ c.pc = "build"
    BY <1>1, <1>8, SameBlocks DEF Engine!BuildPayload
  <2>2. c.id # 0 /\ c.fcHead = b /\ c.slot = task[t].slot + 1 /\ c.id <= payloadIdCounter
    BY <1>3, <2>1 DEF AskInv
  <2>3. p = PayloadFor(t) /\ p \in Block
    BY <2>2, AskedFacts DEF PayloadFor
  <2> HIDE DEF p
  <2>4. q \in Engine!Request
    BY <1>1, <2>3, SameBlocks DEF Engine!Request, Engine!RequestPoints, BlockOrNone
  <2>5. /\ q.pc = "cacheId" /\ q.fcHead = c.fcHead /\ q.slot = c.slot /\ q.id = c.id
        /\ q.block = p
    BY <1>1 DEF Engine!Request
  <2> HIDE DEF q
  <2>6. Call(t, "forkchoice")' = q
    BY <1>1, <2>1, <2>4, CallUpdate
  <2>7. PayloadFor(t)' = PayloadFor(t)
    BY <2>5, <2>6 DEF PayloadFor, vars
  <2>8. AskInv(t)'
    BY <1>2, <2>1, <2>2, <2>3, <2>5, <2>6, <2>7 DEF AskInv, Merged, Terminal, vars
  <2> QED BY <1>1, <1>4, <1>5, <2>1, <2>4, <2>5, <2>8, AskKeeps
<1>9. CASE Engine!BuildPayloadFails(r)
  <2> DEFINE q == [c EXCEPT !.pc = "done", !.status = "error"]
  <2>1. /\ request' = [request EXCEPT ![r] = q]
        /\ UNCHANGED <<payloadIdCounter, recentPayloads>>
    BY <1>1, <1>9 DEF Engine!BuildPayloadFails
  <2>2. q \in Engine!Request
    BY <1>1 DEF Engine!Request, Engine!RequestPoints, Engine!Statuses
  <2>3. q.pc = "done" /\ q.fcHead = c.fcHead /\ q.slot = c.slot /\ q.id = c.id
    BY <1>1 DEF Engine!Request
  <2> HIDE DEF q
  <2>4. Call(t, "forkchoice")' = q
    BY <1>1, <2>1, <2>2, CallUpdate
  <2>5. AskInv(t)'
    BY <1>2, <1>3, <2>1, <2>3, <2>4 DEF AskInv, Merged, Terminal, vars
  <2> QED BY <1>1, <1>4, <1>5, <2>1, <2>2, <2>3, <2>5, AskKeeps
<1>10. CASE Engine!CacheById(r) \/ Engine!CacheByParent(r)
  <2> DEFINE key == IF c.pc = "cacheId" THEN Engine!IdKey(c.id)
                    ELSE Engine!ParentKey(ParentOf(c.block))
             q == IF c.pc = "cacheId" THEN [c EXCEPT !.pc = "cacheParent"]
                  ELSE [c EXCEPT !.pc = "done", !.status = "VALID"]
  <2>1. /\ c.pc \in {"cacheId", "cacheParent"}
        /\ request' = [request EXCEPT ![r] = q]
        /\ UNCHANGED payloadIdCounter
        /\ recentPayloads' = Engine!Add(key, c.block)
    BY <1>1, <1>10, SameBlocks DEF Engine!CacheById, Engine!CacheByParent
  <2>2. /\ c.id # 0 /\ c.fcHead = b /\ c.slot = task[t].slot + 1 /\ c.id <= payloadIdCounter
        /\ c.block = PayloadFor(t)
    BY <1>3, <2>1 DEF AskInv
  <2>3. c.block \in Block /\ ParentOf(c.block) \in Block /\ c.id \in Nat
    BY <1>1, <1>2, <2>2, AskedFacts DEF Engine!Request
  <2>4. key \in Engine!CacheKey /\ (key.kind = "id" => key.id = c.id)
    BY <2>3, SameBlocks DEF Engine!IdKey, Engine!ParentKey, Engine!CacheKey, BlockOrNone
  <2>5. q \in Engine!Request
    BY <1>1 DEF Engine!Request, Engine!RequestPoints, Engine!Statuses
  <2>6. /\ q.pc \in {"cacheParent", "done"} /\ q.fcHead = c.fcHead /\ q.slot = c.slot
        /\ q.id = c.id /\ q.block = c.block
    BY <1>1, <2>1 DEF Engine!Request
  <2> HIDE DEF q, key
  <2>7. Call(t, "forkchoice")' = q
    BY <1>1, <2>1, <2>5, CallUpdate
  <2>8. PayloadFor(t)' = PayloadFor(t)
    BY <2>6, <2>7 DEF PayloadFor, vars
  <2>9. AskInv(t)'
    BY <1>2, <2>1, <2>2, <2>6, <2>7, <2>8 DEF AskInv, Merged, Terminal, vars
  <2>10. recentPayloads' \subseteq Engine!CacheEntry
    BY <1>1, <2>1, <2>3, <2>4, AddFacts
  <2>11. ASSUME NEW e \in recentPayloads'
         PROVE  \/ \E f \in recentPayloads : e.key = f.key /\ e.val = f.val
                \/ CachedInv(e)'
    <3>1. CASE e.key = key /\ e.val = c.block
      BY <2>2, <2>4, <2>6, <2>7, <2>8, <3>1 DEF CachedInv
    <3> QED BY <1>1, <2>1, <2>3, <2>4, <3>1, AddFacts
  <2>12. payloadIdCounter' \in Nat /\ payloadIdCounter <= payloadIdCounter'
    BY <1>1, <2>1
  <2> QED BY <1>1, <1>4, <2>1, <2>5, <2>6, <2>9, <2>10, <2>11, <2>12, AskKeeps
<1> QED BY <1>6, <1>7, <1>8, <1>9, <1>10 DEF ForkchoiceCall, AskedHead

\* Every step of the engine keeps the invariant.
LEMMA EngineStepKeeps ==
    ASSUME MockInv, NEW t \in Ticks, EngineStep(t)
    PROVE  MockInv'
<1>1. UNCHANGED <<vars, lateVars>>
  BY DEF EngineStep
<1>2. CASE task[t].pc \in {"newPayload", "execute"} /\ NewPayloadCall(<<t, task[t].pc>>, task[t].block)
  BY <1>1, <1>2, NewPayloadCallKeeps
<1>3. CASE task[t].pc = "forkchoice" /\ ForkchoiceCall(t)
  BY <1>1, <1>3, ForkchoiceCallKeeps
<1>4. CASE task[t].pc = "getPayload" /\ GetPayloadCall(t)
  BY <1>1, <1>4, GetPayloadCallKeeps
<1>5. ASSUME NEW r \in expired, r[1] = t, NewPayloadCall(r, task[t].block)
      PROVE  MockInv'
  <2>1. PICK x \in {"newPayload", "execute"} : r = <<t, x>>
    BY <1>5 DEF MockInv
  <2> QED BY <1>1, <1>5, <2>1, NewPayloadCallKeeps
<1> QED BY <1>2, <1>3, <1>4, <1>5 DEF EngineStep

-----------------------------------------------------------------------------
(* The side of the consensus mock *)

\* A goroutine that is spawned, or that was given its payload.
Restarts(u) ==
    /\ \A x \in {"newPayload", "forkchoice", "execute"} : Call(u, x).pc = "new"
    /\ \/ Call(u, "getPayload").pc = "new"
       \/ task'[u].pc = "process" /\ task'[u].id = task[u].id
    /\ \A x \in {"newPayload", "execute"} : <<u, x>> \notin expired
    /\ task'[u].pc \in {"newPayload", "getPayload", "process"}

\* The steps of the loop and of the goroutines keep the invariant.
LEMMA NodeStepKeeps ==
    ASSUME MockInv, IInv', UNCHANGED engineVars, known \subseteq known',
           \A u \in Ticks : Moves(u) \/ Restarts(u),
           \A u \in Ticks : task'[u].pc = "execute" /\ task[u].pc = "process" =>
              task[u].block \in known',
           expired' \subseteq Ticks \X {"newPayload", "execute"},
           \A u \in Ticks, x \in {"newPayload", "execute"} :
              <<u, x>> \in expired' /\ <<u, x>> \notin expired =>
                 /\ Moves(u) /\ task[u].pc = x /\ task'[u].pc # x
    PROVE  MockInv'
<1>1. \A u \in Ticks, x \in CallPoints : Call(u, x)' = Call(u, x)
  BY DEF Call, engineVars
<1>2. ASSUME NEW u \in Ticks, Call(u, "forkchoice").id # 0
      PROVE  /\ Moves(u)
             /\ PayloadFor(u)' = PayloadFor(u)
             /\ task'[u].block = task[u].block
             /\ task'[u].slot = task[u].slot
  <2>1. Call(u, "forkchoice").pc # "new"
    BY <1>2, NoRequestFacts DEF MockInv, CallOrder, CallPoints
  <2>2. Moves(u)
    BY <2>1 DEF Restarts
  <2> QED BY <1>1, <2>2 DEF Moves, PayloadFor, CallPoints
<1>3. EngineSideInv'
  BY DEF MockInv, EngineSideInv, engineVars
<1>4. \A u \in Ticks : task[u].pc \in TaskPoints /\ task'[u].pc \in TaskPoints
  BY DEF MockInv, IInv, TypeOK, Task
<1>5. ASSUME NEW u \in Ticks PROVE CallOrder(u)'
  <2>1. CallOrder(u)
    BY DEF MockInv
  <2>2. CASE Moves(u)
    BY <1>1, <1>4, <2>1, <2>2 DEF CallOrder, Moves, TaskPoints, CallPoints
  <2>3. CASE Restarts(u)
    BY <1>1, <2>1, <2>3 DEF CallOrder, Restarts, CallPoints
  <2> QED BY <2>2, <2>3
<1>6. ASSUME NEW u \in Ticks PROVE AskInv(u)'
  <2>1. AskInv(u)
    BY DEF MockInv
  <2>2. Call(u, "forkchoice")' = Call(u, "forkchoice") /\ payloadIdCounter' = payloadIdCounter
    BY <1>1 DEF CallPoints, engineVars
  <2>3. CASE Call(u, "forkchoice").id # 0
    BY <1>2, <2>1, <2>2, <2>3 DEF AskInv, Merged, Terminal
  <2>4. CASE Call(u, "forkchoice").id = 0
    BY <2>1, <2>2, <2>4 DEF AskInv
  <2> QED BY <2>3, <2>4
<1>7. ASSUME NEW u \in Ticks PROVE GetInv(u)'
  <2>1. CASE Call(u, "getPayload").status = "ok"
    <3>1. PICK i \in Ticks : /\ task[u].id = i
                             /\ Call(i, "forkchoice").id # 0
                             /\ Call(u, "getPayload").block = PayloadFor(i)
      BY <2>1 DEF MockInv, GetInv
    <3>2. Call(u, "getPayload").pc # "new"
      BY <2>1, NoRequestFacts DEF MockInv, CallOrder, CallPoints
    <3>3. task[u].pc # "forkchoice"
      BY <3>2 DEF MockInv, CallOrder
    <3>4. task'[u].id = i
      BY <3>1, <3>2, <3>3 DEF Moves, Restarts
    <3>5. /\ Call(i, "forkchoice")' = Call(i, "forkchoice")
          /\ Call(u, "getPayload")' = Call(u, "getPayload")
          /\ PayloadFor(i)' = PayloadFor(i)
      BY <1>1, <1>2, <3>1 DEF CallPoints
    <3> QED BY <3>1, <3>4, <3>5 DEF GetInv, PayloadFor, Call
  <2>2. CASE Call(u, "getPayload").status # "ok"
    BY <1>1, <2>2 DEF GetInv, CallPoints
  <2> QED BY <2>1, <2>2
<1>8. ASSUME NEW u \in Ticks PROVE SendsKnown(u)'
  <2>1. SendsKnown(u)
    BY DEF MockInv
  <2>2. CASE Restarts(u)
    BY <2>1, <2>2 DEF SendsKnown, Restarts, Moves
  <2>3. CASE Moves(u)
    <3>1. task'[u].pc = "execute" => task'[u].block \in known'
      BY <2>1, <2>3 DEF SendsKnown, Moves
    <3>2. ASSUME NEW x \in {"newPayload", "execute"}, <<u, x>> \in expired'
          PROVE  /\ task'[u].block \in known'
                 /\ \/ x = "newPayload" /\ task'[u].pc \in {"forkchoice", "send", "done"}
                    \/ x = "execute" /\ task'[u].pc = "done"
      <4>1. CASE <<u, x>> \in expired
        <5>1. /\ task[u].block \in known
              /\ \/ x = "newPayload" /\ task[u].pc \in {"forkchoice", "send", "done"}
                 \/ x = "execute" /\ task[u].pc = "done"
          BY <2>1, <4>1 DEF SendsKnown
        <5> QED BY <1>4, <2>3, <5>1 DEF Moves, TaskPoints
      <4>2. CASE <<u, x>> \notin expired
        <5>1. task[u].pc = x /\ task'[u].pc # x
          BY <3>2, <4>2
        <5>2. task[u].block \in known
          BY <2>1, <5>1 DEF SendsKnown, MockInv, IInv, TaskInv, Merged
        <5> QED BY <1>4, <2>3, <5>1, <5>2 DEF Moves, TaskPoints
      <4> QED BY <4>1, <4>2
    <3> QED BY <3>1, <3>2 DEF SendsKnown
  <2> QED BY <2>2, <2>3
<1>9. ASSUME NEW e \in recentPayloads' PROVE CachedInv(e)'
  <2>1. CachedInv(e)
    BY DEF MockInv, engineVars
  <2>2. PICK u \in Ticks : /\ Call(u, "forkchoice").id # 0
                           /\ e.val = PayloadFor(u)
                           /\ e.key.kind = "id" => e.key.id = Call(u, "forkchoice").id
    BY <2>1 DEF CachedInv
  <2> QED BY <1>1, <1>2, <2>2 DEF CachedInv, CallPoints
<1>10. IdsDistinct'
  BY <1>1 DEF MockInv, IdsDistinct, CallPoints
<1> QED BY <1>3, <1>5, <1>6, <1>7, <1>8, <1>9, <1>10 DEF MockInv

\* A goroutine that was not spawned has made no call.
LEMMA UnspawnedCalls ==
    ASSUME MockInv, NEW u \in Ticks, task[u].pc = "none"
    PROVE  /\ \A x \in CallPoints : Call(u, x).pc = "new"
           /\ \A x \in {"newPayload", "execute"} : <<u, x>> \notin expired
BY DEF MockInv, CallOrder, SendsKnown, CallPoints

\* What the loop does to the goroutines: it spawns the one of its tick, and lets
\* one that waits on the channel end.
LEMMA LoopMoves ==
    ASSUME IInv, SlotLoop
    PROVE  /\ \A u \in Ticks :
                 \/ Moves(u) /\ task'[u].pc \in {task[u].pc, "done"}
                 \/ /\ u = tick /\ task[u] = NoTask
                    /\ \/ BuildExternal /\ task'[u].pc = "newPayload"
                       \/ ReceiveProposal /\ task'[u].pc = "getPayload"
           /\ known \subseteq known'
           /\ BuildExternal \/ UNCHANGED <<known, head>>
<1>0. task \in [Ticks -> Task]
  BY DEF IInv, TypeOK
<1>1. ASSUME NEW d \in Steps,
             \/ BeforeGenesis(slot + d) \/ AtGenesis(slot + d) \/ ReachSlotBound(slot + d)
             \/ GapSlot(slot + d) \/ BadHashSlot(slot + d) \/ TriggerSlot(slot + d)
      PROVE  /\ \A u \in Ticks : Moves(u) /\ task'[u].pc \in {task[u].pc, "done"}
             /\ known' = known /\ head' = head
  <2>1. task' = task \/ Receive
    BY <1>1 DEF BeforeGenesis, AtGenesis, ReachSlotBound, GapSlot, BadHashSlot, TriggerSlot
  <2>2. \A u \in Ticks : task'[u].pc \in {task[u].pc, "done"}
    BY <1>0, <2>1 DEF Receive, Task
  <2> QED BY <1>1, <2>2, TickMoves DEF chainVars
<1>2. CASE ReadParent \/ CalcReorgTarget \/ BuildFails \/ NilParent
  BY <1>2, LookingMoves DEF chainVars
<1>3. CASE ReceiveProposal
  <2>1. task[tick] = NoTask /\ known' = known /\ head' = head /\ tick \in Ticks
    BY <1>3 DEF ReceiveProposal, IInv, LoopInv, chainVars
  <2>2. \A u \in Ticks \ {tick} : task'[u].pc \in {task[u].pc, "done"}
    BY <1>0, <1>3, <2>1 DEF ReceiveProposal, Task
  <2> QED BY <1>3, <2>1, <2>2, ReceiveProposalFacts
<1>4. CASE BuildExternal
  <2>1. task[tick] = NoTask /\ known \subseteq known' /\ tick \in Ticks
    BY <1>4 DEF BuildExternal, StoreBlock, IInv, LoopInv
  <2>2. task'[tick].pc = "newPayload" /\ \A u \in Ticks \ {tick} : task'[u] = task[u]
    BY <1>4, BuildExternalFacts
  <2> QED BY <1>4, <2>1, <2>2, SameMoves
<1> QED BY <1>1, <1>2, <1>3, <1>4 DEF SlotLoop

\* The loop.
LEMMA SlotLoopStepKeeps ==
    ASSUME MockInv, SlotLoopStep
    PROVE  MockInv'
<1>1. IInv /\ SlotLoop /\ UNCHANGED <<engineVars, lateVars>>
  BY DEF MockInv, SlotLoopStep
<1>2. IInv'
  BY <1>1, SlotLoopKeeps
<1>3. ASSUME NEW u \in Ticks PROVE Moves(u) \/ Restarts(u)
  <2>1. CASE u = tick /\ task[u] = NoTask /\ task'[u].pc \in {"newPayload", "getPayload"}
    <3>1. task[u].pc = "none"
      BY <2>1 DEF NoTask
    <3> QED BY <2>1, <3>1, UnspawnedCalls DEF Restarts, CallPoints
  <2> QED BY <1>1, <2>1, LoopMoves
<1>4. \A u \in Ticks : task'[u].pc = "execute" => task[u].pc # "process"
  BY <1>1, LoopMoves
<1>5. known \subseteq known'
  BY <1>1, LoopMoves
<1>6. expired' = expired /\ expired \subseteq Ticks \X {"newPayload", "execute"}
  BY <1>1 DEF lateVars, MockInv
<1> QED BY <1>1, <1>2, <1>3, <1>4, <1>5, <1>6, NodeStepKeeps

\* The payload that a proposal gets is the one that was asked for with its id.
LEMMA ReceivedFacts ==
    ASSUME MockInv, NEW t \in Ticks, task[t].pc = "getPayload", Reply(t).status = "ok",
           PayloadReceived(t)
    PROVE  \E i \in Ticks :
              /\ i \in Prepared
              /\ task[t].id = i
              /\ Call(i, "forkchoice").id # 0
              /\ Call(t, "getPayload").status = "ok"
              /\ task'[t].block = PayloadFor(i)
              /\ task'[t].pc = "process"
              /\ task'[t].slot = task[t].slot
              /\ task'[t].id = task[t].id
              /\ task'[t].safe = task[t].safe
              /\ task'[t].final = task[t].final
              /\ \A u \in Ticks \ {t} : task'[u] = task[u]
<1>1. Reply(t) = Call(t, "getPayload")
  BY DEF Reply, Call
<1>2. PICK i \in Ticks : /\ task[t].id = i
                         /\ Call(i, "forkchoice").id # 0
                         /\ Call(t, "getPayload").block = PayloadFor(i)
  BY <1>1 DEF MockInv, GetInv
<1>3. task' = [task EXCEPT ![t].pc = "process", ![t].block = PayloadFor(i)]
  BY <1>1, <1>2 DEF PayloadReceived
<1>4. i \in Prepared /\ task \in [Ticks -> Task]
  BY <1>2 DEF MockInv, IInv, TypeOK, TaskInv
<1> DEFINE b == PayloadFor(i)
<1> HIDE DEF b
<1>5. task' = [task EXCEPT ![t].pc = "process", ![t].block = b]
  BY <1>3 DEF b
<1>6. /\ task'[t].block = b
      /\ task'[t].pc = "process"
      /\ task'[t].slot = task[t].slot
      /\ task'[t].id = task[t].id
      /\ task'[t].safe = task[t].safe
      /\ task'[t].final = task[t].final
      /\ \A u \in Ticks \ {t} : task'[u] = task[u]
  BY <1>4, <1>5 DEF Task
<1> QED BY <1>1, <1>2, <1>4, <1>6 DEF b

\* A proposal that gets its payload.
LEMMA PayloadReceivedKeeps ==
    ASSUME MockInv, NEW t \in Ticks, task[t].pc = "getPayload", Reply(t).status = "ok",
           PayloadReceived(t), UNCHANGED <<engineVars, lateVars>>
    PROVE  MockInv'
<1> USE DEF chainVars, finalityVars
<1>1. PICK i \in Ticks :
         /\ Call(i, "forkchoice").id # 0
         /\ task'[t].block = PayloadFor(i)
         /\ task'[t].pc = "process"
         /\ task'[t].slot = task[t].slot
         /\ task'[t].id = task[t].id
         /\ task'[t].safe = task[t].safe
         /\ task'[t].final = task[t].final
         /\ \A u \in Ticks \ {t} : task'[u] = task[u]
  BY ReceivedFacts
<1> DEFINE b == PayloadFor(i)
<1>2. b \in Block /\ Len(b) > 0 /\ IsAncestor(Terminal, b)
  BY <1>1, AskedFacts
<1> HIDE DEF b
<1>3. task'[t].block = b /\ task' = [task EXCEPT ![t].pc = "process", ![t].block = Reply(t).block]
  BY <1>1 DEF b, PayloadReceived
<1>4. IInv /\ TypeOK /\ task \in [Ticks -> Task] /\ LoopInv /\ TaskInv
  BY DEF MockInv, IInv, TypeOK
<1>5. task' \in [Ticks -> Task]
  <2>1. Reply(t).block = b
    BY <1>3, <1>4 DEF Task
  <2>2. task' = [task EXCEPT ![t].pc = "process", ![t].block = b]
    BY <1>3, <2>1
  <2> QED BY <1>2, <1>4, <2>2 DEF Task, TaskPoints, BlockOrNone
<1>6. TypeOK'
  BY <1>4, <1>5 DEF TypeOK, PayloadReceived
<1>7. KnownClosed' /\ TransitionBuried'
  BY <1>4 DEF IInv, KnownClosed, TransitionBuried, Terminal, PayloadReceived
<1>8. LoopInv'
  <2>1. task[t] # NoTask BY DEF NoTask
  <2> QED BY <1>1, <1>4, <2>1 DEF LoopInv, Merged, Terminal, PayloadReceived
<1>9. TaskInv'
  <2>1. Prepared' = Prepared
    BY <1>1 DEF Prepared
  <2>2. known' = known /\ sendq' = sendq
    BY DEF PayloadReceived
  <2>3. task[t].id # t
    BY <1>4 DEF TaskInv
  <2> QED BY <1>1, <1>2, <1>3, <1>4, <2>1, <2>2, <2>3 DEF TaskInv, Merged, Terminal
<1>10. IInv'
  BY <1>6, <1>7, <1>8, <1>9 DEF IInv
<1>11. ASSUME NEW u \in Ticks PROVE Moves(u) \/ Restarts(u)
  <2>1. CASE u = t
    BY <1>1, <2>1 DEF Restarts, MockInv, CallOrder, SendsKnown
  <2> QED BY <1>1, <2>1, SameMoves
<1>12. \A u \in Ticks : task'[u].pc = "execute" => task[u].pc = "execute"
  BY <1>1
<1>13. expired' = expired /\ expired \subseteq Ticks \X {"newPayload", "execute"} /\ known' = known
  BY DEF lateVars, MockInv, PayloadReceived
<1> QED BY <1>10, <1>11, <1>12, <1>13, NodeStepKeeps

\* Only ProcessPayload leads to the execution of a payload.
LEMMA ExecuteEntered ==
    ASSUME TypeOK, NEW t \in Ticks, Goroutine(t), ~GetPayload(t),
           NEW u \in Ticks, task'[u].pc = "execute", task[u].pc = "process"
    PROVE  ProcessPayload(t) /\ u = t
BY DEF Goroutine, MockExecution, ForkchoiceOnly, ForkchoicePrepares, ForkchoiceFails,
       GetPayloadFails, ProcessPayload, ProcessPayloadFails, ExecutePayload, ExecutePayloadFails,
       Goto, TypeOK, Task

\* The steps of a goroutine that ConsensusNode has too.
LEMMA GoroutineStepKeeps ==
    ASSUME MockInv, NEW t \in Ticks, Goroutine(t), ~GetPayload(t), UNCHANGED engineVars,
           \/ expired' = expired
           \/ /\ expired' = expired \cup {<<t, task[t].pc>>}
              /\ task[t].pc \in {"newPayload", "execute"}
              /\ task'[t].pc # task[t].pc
    PROVE  MockInv'
<1>1. IInv /\ TypeOK
  BY DEF MockInv, IInv
<1>2. IInv'
  BY <1>1, GoroutineKeeps
<1>3. (\A u \in Ticks : Moves(u)) /\ (ProcessPayload(t) \/ UNCHANGED chainVars)
  BY <1>1, GoroutineMoves
<1>4. known \subseteq known'
  BY <1>3 DEF ProcessPayload, StoreBlock, chainVars
<1>5. ASSUME NEW u \in Ticks, task'[u].pc = "execute", task[u].pc = "process"
      PROVE  task[u].block \in known'
  <2>1. ProcessPayload(t) /\ u = t
    BY <1>1, <1>5, ExecuteEntered
  <2> QED BY <2>1 DEF ProcessPayload, StoreBlock
<1>6. expired' \subseteq Ticks \X {"newPayload", "execute"}
  BY DEF MockInv
<1>7. \A u \in Ticks, x \in {"newPayload", "execute"} :
         <<u, x>> \in expired' /\ <<u, x>> \notin expired =>
            Moves(u) /\ task[u].pc = x /\ task'[u].pc # x
  BY <1>3
<1> QED BY <1>2, <1>3, <1>4, <1>5, <1>6, <1>7, NodeStepKeeps

\* The steps of the two mocks, one by one.
LEMMA GoroutineStepCases ==
    ASSUME TypeOK, NEW t \in Ticks, GoroutineStep(t)
    PROVE  /\ UNCHANGED <<engineVars, lateVars>>
           /\ Answered(t) \/ task[t].pc = "process"
           /\ \/ Goroutine(t) /\ ~GetPayload(t)
              \/ task[t].pc = "getPayload" /\ Reply(t).status = "ok" /\ PayloadReceived(t)
<1>1. UNCHANGED <<engineVars, lateVars>> /\ (Answered(t) \/ task[t].pc = "process")
  BY DEF GoroutineStep, ProcessPayload, ProcessPayloadFails
<1>2. CASE task[t].pc = "getPayload"
  <2>1. CASE Reply(t).status = "ok" /\ PayloadReceived(t)
    BY <1>1, <1>2, <2>1
  <2>2. CASE GetPayloadFails(t)
    <3>1. task'[t].pc = "done"
      BY <2>2 DEF GetPayloadFails, Goto, TypeOK, Task
    <3>2. ~GetPayload(t)
      <4> SUFFICES ASSUME GetPayload(t) PROVE FALSE
        OBVIOUS
      <4>1. task'[t].pc = "process"
        BY DEF GetPayload, TypeOK, Task
      <4> QED BY <3>1, <4>1
    <3> QED BY <1>1, <2>2, <3>2 DEF Goroutine
  <2> QED BY <1>2, <2>1, <2>2 DEF GoroutineStep, GetPayloadAnswered, ProcessPayload,
                                   ProcessPayloadFails
<1>3. CASE task[t].pc # "getPayload"
  <2>1. ~GetPayload(t)
    BY <1>3 DEF GetPayload
  <2>2. Goroutine(t)
    BY <1>3 DEF GoroutineStep, ForkchoiceAnswered, ExecuteAnswered, Goroutine
  <2> QED BY <1>1, <2>1, <2>2
<1> QED BY <1>2, <1>3

\* A call that is given up.
LEMMA TimesOutFacts ==
    ASSUME TypeOK, NEW t \in Ticks, TimesOut(t)
    PROVE  /\ t \in late
           /\ Goroutine(t) /\ ~GetPayload(t)
           /\ task[t].pc \in {"newPayload", "execute"}
           /\ task'[t].pc # task[t].pc
           /\ expired' = expired \cup {<<t, task[t].pc>>}
           /\ UNCHANGED <<engineVars, late>>
<1>1. /\ t \in late
      /\ MockExecution(t) \/ ExecutePayloadFails(t)
      /\ expired' = expired \cup {<<t, task[t].pc>>}
      /\ UNCHANGED <<engineVars, late>>
  BY DEF TimesOut
<1>2. task[t].pc \in {"newPayload", "execute"} /\ task'[t].pc # task[t].pc
  BY <1>1 DEF MockExecution, ExecutePayloadFails, Goto, TypeOK, Task
<1> QED BY <1>1, <1>2 DEF Goroutine, GetPayload

\* Both mocks start on the same stored chain.
LEMMA MockInitInvariant ==
    ASSUME MockInit
    PROVE  MockInv
<1>1. IInv
  BY InitInvariant DEF MockInit
<1>2. engineKnown = known /\ engineHead = head
  BY DEF MockInit, Init, Engine!Init, Engine!Ancestry, Ancestry
<1>3. payloadIdCounter = 0 /\ recentPayloads = {} /\ request = [r \in Calls |-> Engine!NoRequest]
  BY DEF MockInit, Engine!Init
<1>4. \A u \in Ticks, x \in CallPoints : Call(u, x) = Engine!NoRequest
  BY <1>3 DEF Call, Calls
<1>5. EngineSideInv
  BY <1>1, <1>2, <1>3, NoRequestFacts DEF EngineSideInv, IInv, TypeOK
<1>6. ASSUME NEW u \in Ticks PROVE CallOrder(u) /\ AskInv(u) /\ GetInv(u) /\ SendsKnown(u)
  <2>1. task[u].pc = "none" /\ expired = {}
    BY DEF MockInit, Init, NoTask
  <2> QED BY <1>3, <1>4, <2>1, NoRequestFacts DEF CallOrder, AskInv, GetInv, SendsKnown, CallPoints
<1>7. IdsDistinct
  BY <1>4, NoRequestFacts DEF IdsDistinct, CallPoints
<1> QED BY <1>1, <1>3, <1>5, <1>6, <1>7 DEF MockInv, MockInit

\* Every step keeps the invariant.
LEMMA MockStepKeeps ==
    ASSUME MockInv, [MockNext]_mockVars
    PROVE  MockInv'
<1>0. TypeOK
  BY DEF MockInv, IInv
<1>1. CASE SlotLoopStep
  BY <1>1, SlotLoopStepKeeps
<1>2. ASSUME NEW t \in Ticks, EngineStep(t) PROVE MockInv'
  BY <1>2, EngineStepKeeps
<1>3. ASSUME NEW t \in Ticks, GoroutineStep(t) PROVE MockInv'
  BY <1>0, <1>3, GoroutineStepCases, GoroutineStepKeeps, PayloadReceivedKeeps DEF lateVars
<1>4. ASSUME NEW t \in Ticks, TimesOut(t) PROVE MockInv'
  BY <1>0, <1>4, TimesOutFacts, GoroutineStepKeeps
<1>5. CASE UNCHANGED mockVars
  <2>1. UNCHANGED <<vars, engineVars, lateVars>> /\ \A u \in Ticks : Moves(u)
    BY <1>5, SameMoves DEF mockVars, vars
  <2>2. IInv'
    BY <2>1, IInvUnchanged DEF MockInv
  <2> QED BY <2>1, <2>2, NodeStepKeeps DEF vars, lateVars, MockInv
<1> QED BY <1>1, <1>2, <1>3, <1>4, <1>5 DEF MockNext, InSlot

\* Whatever is late and whatever is faked: the engine has no block that the consensus
\* mock has not, a payload id leads to the payload that was asked for with it, and the
\* consensus mock is as safe as against any other engine (consensus.go, engine.go).
THEOREM MockInvariance == MockSpec => []MockInv
<1>1. MockInit => MockInv
  BY MockInitInvariant
<1>2. MockInv /\ [MockNext]_mockVars => MockInv'
  BY MockStepKeeps
<1> QED BY <1>1, <1>2, PTL DEF MockSpec

-----------------------------------------------------------------------------
(* When every call is answered in its slot *)

\* Which calls may be late is fixed.
LEMMA LateIsFixed ==
    ASSUME TypeOK, [MockNext]_mockVars
    PROVE  late' = late
<1>1. ASSUME NEW t \in Ticks, GoroutineStep(t) PROVE late' = late
  BY <1>1, GoroutineStepCases DEF lateVars
<1>2. ASSUME NEW t \in Ticks, TimesOut(t) PROVE late' = late
  BY <1>2, TimesOutFacts
<1> QED BY <1>1, <1>2 DEF MockNext, SlotLoopStep, InSlot, EngineStep, lateVars, mockVars

\* The loop waits for the goroutines.
LEMMA LoopWaits ==
    ASSUME Timely, TimelyInv, SlotLoopStep
    PROVE  SlotLoop /\ (\A t \in Ticks : ~Busy(t)) /\ UNCHANGED <<engineVars, lateVars>>
BY DEF Timely, TimelyInv, SlotLoopStep

\* The loop and the goroutines take turns.
LEMMA TurnsKept ==
    ASSUME MockInv, Timely, expired = {}, TimelyInv, [MockNext]_mockVars
    PROVE  TimelyInv' /\ expired' = {}
<1>0. IInv /\ TypeOK
  BY DEF MockInv, IInv
<1>1. CASE SlotLoopStep
  BY <1>0, <1>1, LoopWaits, LoopKeepsTurns DEF lateVars
<1>2. CASE UNCHANGED <<vars, lateVars>>
  BY <1>2 DEF vars, lateVars, TimelyInv, OnePendingProposal, Busy
<1>3. ASSUME NEW t \in Ticks, GoroutineStep(t) PROVE TimelyInv' /\ expired' = {}
  <2>1. CASE Goroutine(t)
    BY <1>0, <1>3, <2>1, GoroutineStepCases, GoroutineKeepsTurns DEF lateVars
  <2>2. CASE task[t].pc = "getPayload" /\ Reply(t).status = "ok" /\ PayloadReceived(t)
    <3>1. \A u \in Ticks \ {t} : task'[u] = task[u]
      BY <2>2, ReceivedFacts
    <3>2. Busy(t) /\ UNCHANGED <<pc, tick, sendq>>
      BY <2>2 DEF Busy, PayloadReceived
    <3> QED BY <1>0, <1>3, <3>1, <3>2, GoroutineStepCases, PayloadKeepsTurns DEF lateVars
  <2> QED BY <1>0, <1>3, <2>1, <2>2, GoroutineStepCases
<1>4. ASSUME NEW t \in Ticks PROVE ~TimesOut(t)
  BY DEF TimesOut, Timely
<1> QED BY <1>1, <1>2, <1>3, <1>4 DEF MockNext, InSlot, EngineStep, mockVars

\* A goroutine that has a block to send is busy.
LEMMA UnsentIsBusy ==
    ASSUME NEW t \in Ticks, Unsent(t)
    PROVE  Busy(t)
BY DEF Unsent, Busy

\* Nothing is sent, and nothing changes.
LEMMA QuietSync ==
    ASSUME SyncInv, \A u \in Ticks : ~Unsent(u), \A u \in Ticks : ~Unsent(u)',
           UNCHANGED <<engineKnown, engineHead, known, head>>
    PROVE  SyncInv'
BY DEF SyncInv

\* The consensus mock stores a block, and is about to send it.
LEMMA StoreSync ==
    ASSUME SyncInv, \A u \in Ticks : ~Unsent(u),
           NEW t \in Ticks, Unsent(t)', \A u \in Ticks \ {t} : ~Unsent(u)',
           NEW b, task'[t].block = b, StoreBlock(b), ParentOf(b) \in known,
           UNCHANGED <<engineKnown, engineHead>>
    PROVE  SyncInv'
<1>1. engineKnown = known /\ engineHead = head
  BY DEF SyncInv
<1>2. known' = known \cup {b} /\ head' = InsertChain(head, b)
  BY DEF StoreBlock
<1> QED BY <1>1, <1>2 DEF SyncInv

\* The engine takes the block, since it has the parent.
LEMMA SendSync ==
    ASSUME MockInv, TimelyInv, SyncInv, NEW t \in Ticks, task[t].pc \in {"newPayload", "execute"},
           NewPayloadCall(<<t, task[t].pc>>, task[t].block), UNCHANGED vars
    PROVE  /\ SyncInv'
           /\ Unsent(t)
           /\ Call(t, task[t].pc)'.pc = "done"
           /\ Call(t, task[t].pc)'.status = "VALID"
           /\ \A u \in Ticks, y \in CallPoints :
                 u # t \/ y # task[t].pc => Call(u, y)' = Call(u, y)
           /\ UNCHANGED recentPayloads
<1>0. PICK x \in {"newPayload", "execute"} : x = task[t].pc
  OBVIOUS
<1>z. PICK z \in Nat : z = 0
  OBVIOUS
<1> DEFINE b == task[t].block
<1>1. Unsent(t)
  BY DEF Unsent, Call, NewPayloadCall, Engine!NewPayloadSyncing, Engine!NewPayloadV1, Engine!New
<1>2. ParentOf(b) \in engineKnown /\ known = engineKnown \cup {b} /\ head = InsertChain(engineHead, b)
  BY <1>1 DEF SyncInv
<1>3. Engine!NewPayloadV1(<<t, x>>, b)
  BY <1>0, <1>2, SameBlocks DEF NewPayloadCall, Engine!NewPayloadSyncing, Engine!ParentKnown
<1>4. /\ engineKnown' = known /\ engineHead' = head
      /\ Engine!Answer(<<t, x>>, "newPayload", z, b, "VALID")
      /\ UNCHANGED recentPayloads
  BY <1>z, <1>2, <1>3, SameBlocks DEF Engine!NewPayloadV1
<1>5. request \in [Calls -> Engine!Request] /\ x \in CallPoints
      /\ b \in BlockOrNone /\ "VALID" \in Engine!Statuses
  BY DEF MockInv, EngineSideInv, CallPoints, Engine!Statuses, IInv, TypeOK, Task
<1> HIDE DEF b
<1>6. PICK q \in Engine!Request : /\ request' = [request EXCEPT ![<<t, x>>] = q]
                                  /\ q.pc = "done" /\ q.status = "VALID"
  BY <1>4, <1>5, AnswerFacts
<1>7. /\ Call(t, x)' = q
      /\ \A u \in Ticks, y \in CallPoints : u # t \/ y # x => Call(u, y)' = Call(u, y)
  BY <1>5, <1>6, CallUpdate
<1>8. ASSUME NEW u \in Ticks PROVE ~Unsent(u)'
  <2>1. CASE u = t
    BY <1>0, <1>6, <1>7, <2>1 DEF Unsent, vars
  <2>2. CASE u # t
    <3>1. ~Busy(u)
      BY <1>1, <2>2, UnsentIsBusy DEF TimelyInv
    <3> QED BY <3>1 DEF Unsent, Busy, vars
  <2> QED BY <2>1, <2>2
<1>9. SyncInv'
  BY <1>4, <1>8 DEF SyncInv, vars
<1> QED BY <1>0, <1>1, <1>4, <1>6, <1>7, <1>9 DEF vars

\* The other calls neither send a block nor change the engine's chain.
LEMMA OtherCallSync ==
    ASSUME MockInv, SyncInv, NEW t \in Ticks, UNCHANGED vars,
           \/ task[t].pc = "forkchoice" /\ ForkchoiceCall(t)
           \/ task[t].pc = "getPayload" /\ GetPayloadCall(t)
    PROVE  /\ SyncInv'
           /\ \A u \in Ticks, y \in CallPoints :
                 u # t \/ y # task[t].pc => Call(u, y)' = Call(u, y)
<1>1. request \in [Calls -> Engine!Request] /\ <<t, task[t].pc>> \in Calls
  BY DEF MockInv, EngineSideInv, Calls, CallPoints
<1>2. UNCHANGED <<engineKnown, engineHead>>
  BY DEF ForkchoiceCall, Engine!ForkchoiceUpdated, Engine!AllocateId, Engine!BuildPayload,
         Engine!BuildPayloadFails, Engine!CacheById, Engine!CacheByParent,
         GetPayloadCall, Engine!GetPayloadV1, Engine!GetPayloadUnknown
<1>3. \A r \in Calls : r # <<t, task[t].pc>> => request'[r] = request[r]
  BY <1>1 DEF ForkchoiceCall, Engine!ForkchoiceUpdated, Engine!AllocateId, Engine!BuildPayload,
         Engine!BuildPayloadFails, Engine!CacheById, Engine!CacheByParent, Engine!Answer,
         GetPayloadCall, Engine!GetPayloadV1, Engine!GetPayloadUnknown
<1>4. \A u \in Ticks, y \in CallPoints : u # t \/ y # task[t].pc => Call(u, y)' = Call(u, y)
  BY <1>3 DEF Call, Calls
<1>5. ASSUME NEW u \in Ticks PROVE Unsent(u)' <=> Unsent(u)
  BY <1>4 DEF Unsent, CallPoints, Call, vars
<1> QED BY <1>2, <1>4, <1>5 DEF SyncInv, vars

\* A goroutine whose call is answered has nothing to send, and nobody else has.
LEMMA NothingUnsent ==
    ASSUME TimelyInv, NEW t \in Ticks, Busy(t), Answered(t) \/ task[t].pc = "process"
    PROVE  \A u \in Ticks : ~Unsent(u) /\ (u # t => ~Busy(u))
<1>1. ~Unsent(t)
  BY DEF Unsent, Answered, Call
<1>2. \A u \in Ticks \ {t} : ~Busy(u)
  BY DEF TimelyInv
<1> QED BY <1>1, <1>2, UnsentIsBusy

\* The chains stay as much in step as SyncInv says.
LEMMA SyncKept ==
    ASSUME MockInv, Timely, expired = {}, TimelyInv, SyncInv, [MockNext]_mockVars
    PROVE  SyncInv'
<1>0. IInv /\ TypeOK
  BY DEF MockInv, IInv
<1>1. CASE SlotLoopStep
  <2>1. SlotLoop /\ UNCHANGED <<engineKnown, engineHead, request>> /\ \A u \in Ticks : ~Busy(u)
    BY <1>1, LoopWaits DEF engineVars
  <2>2. \A u \in Ticks : ~Unsent(u)
    BY <2>1, UnsentIsBusy
  <2>3. CASE BuildExternal
    <3>1. PICK s \in Seal :
             /\ StoreBlock(Append(parent, s))
             /\ parent \in known
             /\ tick \in Ticks
             /\ task'[tick].pc = "newPayload"
             /\ task'[tick].block = Append(parent, s)
             /\ \A u \in Ticks \ {tick} : task'[u] = task[u]
      BY <1>0, <2>3, BuildExternalFacts
    <3>2. \A u \in Ticks \ {tick} : ~Unsent(u)'
      BY <2>1, <3>1 DEF Unsent, Busy
    <3>3. task[tick].pc = "none" /\ tick' = tick
      BY <1>0, <2>3, <3>1 DEF BuildExternal, IInv, LoopInv, NoTask
    <3>4. Call(tick, "newPayload").pc = "new"
      BY <3>1, <3>3, UnspawnedCalls DEF CallPoints
    <3>5. PICK t \in Ticks : t = tick
      BY <3>1
    <3>6. Unsent(t)'
      BY <2>1, <3>1, <3>4, <3>5 DEF Unsent, Call
    <3>7. ParentOf(Append(parent, s)) \in known
      BY <1>0, <3>1, ParentOfChild DEF TypeOK
    <3> QED BY <2>1, <2>2, <3>1, <3>2, <3>5, <3>6, <3>7, StoreSync
  <2>4. CASE ~BuildExternal
    <3>1. UNCHANGED <<known, head>>
      BY <1>0, <2>1, <2>4, LoopMoves
    <3>2. \A u \in Ticks : task'[u].pc \in {task[u].pc, "done", "getPayload"}
      BY <1>0, <2>1, <2>4, LoopMoves
    <3>3. \A u \in Ticks : ~Unsent(u)'
      BY <2>1, <3>2 DEF Unsent, Busy
    <3> QED BY <2>1, <2>2, <3>1, <3>3, QuietSync
  <2> QED BY <2>3, <2>4
<1>2. ASSUME NEW t \in Ticks, EngineStep(t) PROVE SyncInv'
  BY <1>2, SendSync, OtherCallSync DEF EngineStep
<1>3. ASSUME NEW t \in Ticks, GoroutineStep(t) PROVE SyncInv'
  <2>1. /\ UNCHANGED <<engineKnown, engineHead, request>>
        /\ Answered(t) \/ task[t].pc = "process"
        /\ \/ Goroutine(t) /\ ~GetPayload(t)
           \/ task[t].pc = "getPayload" /\ Reply(t).status = "ok" /\ PayloadReceived(t)
    BY <1>0, <1>3, GoroutineStepCases DEF engineVars
  <2>2. Busy(t)
    BY <1>0, <2>1, GoroutineMoves DEF Busy
  <2>3. \A u \in Ticks : ~Unsent(u) /\ (u # t => ~Busy(u))
    BY <2>1, <2>2, NothingUnsent
  <2>4. CASE ProcessPayload(t)
    <3>1. /\ StoreBlock(task[t].block) /\ ParentOf(task[t].block) \in known
          /\ task[t].pc = "process"
      BY <2>4 DEF ProcessPayload
    <3>2. \A u \in Ticks : /\ task'[u].pc = IF u = t THEN "execute" ELSE task[u].pc
                           /\ task'[u].block = task[u].block
      BY <1>0, <2>4 DEF ProcessPayload, Goto, TypeOK, Task
    <3>3. Call(t, "execute").pc = "new"
      BY <3>1 DEF MockInv, CallOrder
    <3>4. Unsent(t)'
      BY <2>1, <3>2, <3>3 DEF Unsent, Call
    <3>5. \A u \in Ticks \ {t} : ~Unsent(u)'
      BY <2>3, <3>2 DEF Unsent, Busy
    <3> QED BY <2>1, <2>3, <3>1, <3>2, <3>4, <3>5, StoreSync
  <2>5. CASE Goroutine(t) /\ ~GetPayload(t) /\ ~ProcessPayload(t)
    <3>1. (\A u \in Ticks : Moves(u)) /\ UNCHANGED <<known, head>>
      BY <1>0, <2>5, GoroutineMoves DEF chainVars
    <3>2. ASSUME NEW u \in Ticks, task'[u].pc \in {"newPayload", "execute"}
          PROVE  task[u].pc = task'[u].pc
      BY <1>0, <2>5, <3>1, <3>2, ExecuteEntered DEF Moves
    <3>3. \A u \in Ticks : ~Unsent(u)'
      BY <2>1, <2>3, <3>2 DEF Unsent, Call
    <3> QED BY <2>1, <2>3, <3>1, <3>3, QuietSync
  <2>6. CASE task[t].pc = "getPayload" /\ Reply(t).status = "ok" /\ PayloadReceived(t)
    <3>1. task'[t].pc = "process" /\ \A u \in Ticks \ {t} : task'[u] = task[u]
      BY <2>6, ReceivedFacts
    <3>2. \A u \in Ticks : ~Unsent(u)'
      BY <2>1, <2>3, <3>1 DEF Unsent, Call
    <3>3. UNCHANGED <<known, head>>
      BY <2>6 DEF PayloadReceived, chainVars
    <3> QED BY <2>1, <2>3, <3>2, <3>3, QuietSync
  <2> QED BY <2>1, <2>4, <2>5, <2>6
<1>4. ASSUME NEW t \in Ticks PROVE ~TimesOut(t)
  BY DEF TimesOut, Timely
<1>5. CASE UNCHANGED mockVars
  BY <1>5 DEF mockVars, vars, engineVars, SyncInv, Unsent, Call
<1> QED BY <1>1, <1>2, <1>3, <1>4, <1>5 DEF MockNext, InSlot

\* Both mocks start in step.
LEMMA SyncInit ==
    ASSUME MockInit
    PROVE  TimelySync
<1>1. engineKnown = known /\ engineHead = head /\ expired = {}
  BY DEF MockInit, Init, Engine!Init, Engine!Ancestry, Ancestry
<1>2. \A u \in Ticks : ~Busy(u)
  BY DEF MockInit, Init, NoTask, Busy
<1>3. Len(sendq) = 0
  BY EmptySeq DEF MockInit, Init
<1>4. TimelyInv
  BY <1>2, <1>3 DEF TimelyInv, OnePendingProposal
<1>5. SyncInv
  BY <1>1, <1>2, UnsentIsBusy DEF SyncInv
<1> QED BY <1>1, <1>4, <1>5 DEF TimelySync

\* What is timely stays timely, in turns and in step.
THEOREM MocksInStep == MockSpec => []TimelySync
<1>1. MockInit => TimelySync
  BY SyncInit
<1>2. MockInv /\ TimelySync /\ [MockNext]_mockVars => TimelySync'
  <2> SUFFICES ASSUME MockInv, TimelySync, [MockNext]_mockVars, Timely' PROVE TimelySync'
    BY DEF TimelySync
  <2>1. Timely
    BY LateIsFixed DEF Timely, MockInv, IInv
  <2>2. expired = {} /\ TimelyInv /\ SyncInv
    BY <2>1 DEF TimelySync
  <2> QED BY <2>1, <2>2, TurnsKept, SyncKept DEF TimelySync
<1> QED BY <1>1, <1>2, MockInvariance, PTL DEF MockSpec

\* The engine never has a block that the consensus mock has not; and whenever the
\* goroutines are done and every call was answered in time, the two databases and the
\* two heads are the same, whatever was reorged, proposed or thrown away on the way
\* (consensus.go, engine.go).
THEOREM MocksAgree == MockSpec => []ChainsAgree
<1>1. MockInv /\ TimelySync => ChainsAgree
  <2> SUFFICES ASSUME MockInv, TimelySync PROVE ChainsAgree
    OBVIOUS
  <2>1. engineKnown \subseteq known
    BY DEF MockInv, EngineSideInv
  <2>2. ASSUME Timely, Quiet PROVE engineKnown = known /\ engineHead = head
    BY <2>2, UnsentIsBusy DEF Quiet, TimelySync, SyncInv
  <2> QED BY <2>1, <2>2 DEF ChainsAgree
<1> QED BY <1>1, MockInvariance, MocksInStep, PTL

-----------------------------------------------------------------------------
(* Time *)

\* The clock is kept: the engine's payloads are later than their parents.
LEMMA MockKeepsClock ==
    ASSUME 0 \notin Steps, MockInv, ClockInv, [MockNext]_mockVars
    PROVE  ClockInv'
<1>0. IInv /\ TypeOK
  BY DEF MockInv, IInv
<1>1. CASE SlotLoopStep
  BY <1>0, <1>1, LoopKeepsClock DEF SlotLoopStep
<1>2. CASE UNCHANGED vars
  <2>1. (\A u \in Ticks : Moves(u)) /\ UNCHANGED <<pc, tick, slot, known>>
    BY <1>2, SameMoves DEF vars
  <2> QED BY <2>1, QuietKeepsClock
<1>3. ASSUME NEW t \in Ticks, Goroutine(t) PROVE ClockInv'
  BY <1>0, <1>3, GoroutineKeepsClock
<1>4. ASSUME NEW t \in Ticks, task[t].pc = "getPayload", Reply(t).status = "ok",
             PayloadReceived(t)
      PROVE  ClockInv'
  <2>1. PICK i \in Ticks :
           /\ i \in Prepared
           /\ Call(i, "forkchoice").id # 0
           /\ task'[t].block = PayloadFor(i)
           /\ task'[t].pc = "process"
           /\ task'[t].slot = task[t].slot
           /\ task'[t].id = task[t].id
           /\ \A u \in Ticks \ {t} : task'[u] = task[u]
    BY <1>4, ReceivedFacts
  <2> DEFINE b == PayloadFor(i)
  <2>2. /\ b \in Block /\ Len(b) > 0 /\ ParentOf(b) = task[i].block
        /\ LastSlot(b) = task[i].slot + 1 /\ task[i].slot \in Int
    BY <2>1, AskedFacts
  <2>3. task'[t].block = b
    BY <2>1
  <2> HIDE DEF b
  <2>4. LastSlot(b) > task[i].slot /\ UNCHANGED <<slot, tick, pc, known>>
    BY <1>4, <2>2 DEF PayloadReceived, chainVars
  <2> QED BY <1>0, <1>4, <2>1, <2>2, <2>3, <2>4, PayloadKeepsClock
<1>5. ASSUME NEW t \in Ticks, GoroutineStep(t) PROVE ClockInv'
  BY <1>0, <1>3, <1>4, <1>5, GoroutineStepCases
<1>6. ASSUME NEW t \in Ticks, TimesOut(t) PROVE ClockInv'
  BY <1>0, <1>3, <1>6, TimesOutFacts
<1> QED BY <1>1, <1>2, <1>5, <1>6 DEF MockNext, InSlot, EngineStep, mockVars

\* An external block is new, for it is of the present slot: it becomes the head.
LEMMA NewBlockIsHead ==
    ASSUME IInv, ClockInv, BuildExternal
    PROVE  task'[tick].block = head'
<1>1. PICK s \in Seal :
         /\ s.slot = slot
         /\ StoreBlock(Append(parent, s))
         /\ parent \in known
         /\ task'[tick].block = Append(parent, s)
  BY BuildExternalFacts
<1> DEFINE b == Append(parent, s)
<1>2. parent \in Block /\ head \in Block /\ head \in known /\ slot \in Int /\ pc = "propose"
  BY <1>1 DEF IInv, TypeOK, BuildExternal
<1>3. b \in Block /\ Len(b) > 0 /\ LastSlot(b) = slot
  <2>1. Len(parent) \in Nat
    BY <1>2, LenProperties DEF Block
  <2> QED BY <1>1, <1>2, <2>1, ChildOfBlock, SlotFacts
<1>4. task'[tick].block = b /\ head' = InsertChain(head, b)
  BY <1>1 DEF StoreBlock
<1> HIDE DEF b
<1>5. ~IsAncestor(b, head)
  <2> SUFFICES ASSUME IsAncestor(b, head) PROVE FALSE
    OBVIOUS
  <2>1. Len(b) \in 0..Len(head) /\ SubSeq(head, 1, Len(b)) = b
    BY <1>2, <1>3, AncestorIsPrefix
  <2>2. b \in known
    BY <1>2, <2>1 DEF IInv, KnownClosed
  <2>3. LastSlot(b) < slot
    BY <1>2, <1>3, <2>2 DEF ClockInv, BlocksInPast
  <2> QED BY <1>2, <1>3, <2>3
<1> QED BY <1>4, <1>5 DEF InsertChain

\* With timely calls the block that is being executed stays the head.
LEMMA HeadKept ==
    ASSUME MockInv, ClockInv, TimelySync, TimelyHead, Timely, [MockNext]_mockVars
    PROVE  TimelyHead'
<1>0. IInv /\ TypeOK /\ TimelyInv
  BY DEF MockInv, IInv, TimelySync
<1> SUFFICES ASSUME NEW u \in Ticks, task'[u].pc \in {"newPayload", "forkchoice"}
             PROVE  task'[u].block = head'
  BY DEF TimelyHead
<1>1. CASE SlotLoopStep
  <2>1. SlotLoop /\ \A v \in Ticks : ~Busy(v)
    BY <1>0, <1>1, LoopWaits
  <2>2. u = tick /\ BuildExternal
    BY <1>0, <2>1, LoopMoves DEF Busy
  <2> QED BY <1>0, <2>2, NewBlockIsHead
<1>2. CASE UNCHANGED vars
  BY <1>2 DEF vars, TimelyHead
<1>3. ASSUME NEW t \in Ticks, GoroutineStep(t) PROVE task'[u].block = head'
  <2>1. CASE ProcessPayload(t)
    <3>1. task'[u].pc = IF u = t THEN "execute" ELSE task[u].pc
      BY <1>0, <2>1 DEF ProcessPayload, Goto, TypeOK, Task
    <3>2. Busy(t) /\ Busy(u) /\ u # t
      BY <2>1, <3>1 DEF Busy, ProcessPayload
    <3> QED BY <1>0, <3>2 DEF TimelyInv
  <2>2. CASE Goroutine(t) /\ ~GetPayload(t) /\ ~ProcessPayload(t)
    <3>1. Moves(u) /\ head' = head
      BY <1>0, <2>2, GoroutineMoves DEF chainVars
    <3> QED BY <3>1 DEF Moves, TimelyHead
  <2>3. CASE task[t].pc = "getPayload" /\ Reply(t).status = "ok" /\ PayloadReceived(t)
    <3>1. task'[t].pc = "process" /\ \A v \in Ticks \ {t} : task'[v] = task[v]
      BY <2>3, ReceivedFacts
    <3> QED BY <2>3, <3>1 DEF TimelyHead, PayloadReceived, chainVars
  <2> QED BY <1>0, <1>3, <2>1, <2>2, <2>3, GoroutineStepCases
<1>4. ASSUME NEW t \in Ticks PROVE ~TimesOut(t)
  BY DEF TimesOut, Timely
<1> QED BY <1>1, <1>2, <1>3, <1>4 DEF MockNext, InSlot, EngineStep, mockVars

\* Time runs forward against the engine mock too, however late it is.
THEOREM MockClock ==
    ASSUME 0 \notin Steps, StoredInOrder
    PROVE  MockSpec => []ClockInv
<1>1. MockInit => ClockInv
  BY InitClock DEF MockInit
<1>2. MockInv /\ ClockInv /\ [MockNext]_mockVars => ClockInv'
  BY MockKeepsClock
<1> QED BY <1>1, <1>2, MockInvariance, PTL DEF MockSpec

\* With timely calls every forkchoice update names the head of the consensus mock,
\* reorgs included: the block that was just built is never one that it had before
\* (consensus.go, mockExecution).
THEOREM ForkchoiceFollowsHead ==
    ASSUME 0 \notin Steps, StoredInOrder
    PROVE  MockSpec => []TimelyForkchoice
<1>1. MockInit => TimelyHead
  BY DEF MockInit, Init, NoTask, TimelyHead
<1>2. MockInv /\ ClockInv /\ TimelySync /\ TimelyHead /\ [MockNext]_mockVars => TimelyHead'
  <2> SUFFICES ASSUME MockInv, ClockInv, TimelySync, TimelyHead, [MockNext]_mockVars, Timely'
               PROVE  TimelyHead'
    BY DEF TimelyHead
  <2>1. Timely
    BY LateIsFixed DEF Timely, MockInv, IInv
  <2> QED BY <2>1, HeadKept
<1>3. TimelyHead => TimelyForkchoice
  BY DEF TimelyHead, TimelyForkchoice, ForkchoiceNamesHead
<1> QED BY <1>1, <1>2, <1>3, MockInvariance, MocksInStep, MockClock, PTL DEF MockSpec

-----------------------------------------------------------------------------
(* Nothing fails *)

\* One goroutine works after a step, or none, and no id is pending.
LEMMA OneSucceeds ==
    ASSUME proc' # "exit1", pc' # "idle" => slot' > 0, sendq' = <<>>,
           NEW t \in Ticks, \A u \in Ticks \ {t} : ~Busy(u)',
           AskSucceeds(t)' /\ ProposalSucceeds(t)'
    PROVE  SuccessInv'
<1>1. Len(sendq') = 0
  BY EmptySeq
<1>2. ASSUME NEW u \in Ticks PROVE AskSucceeds(u)' /\ ProposalSucceeds(u)'
  <2>1. CASE u # t
    BY <2>1 DEF Busy, AskSucceeds, ProposalSucceeds
  <2> QED BY <2>1
<1> QED BY <1>1, <1>2 DEF SuccessInv

\* A tick: a pending id is of the slot before, or is thrown away.
LEMMA TickSucceeds ==
    ASSUME Steps \subseteq {1}, "badHash" \notin Faked,
           MockInv, TimelyInv, Timely, SuccessInv, \A u \in Ticks : ~Busy(u),
           UNCHANGED engineVars, NEW d \in Steps,
           \/ BeforeGenesis(slot + d) \/ AtGenesis(slot + d) \/ ReachSlotBound(slot + d)
           \/ GapSlot(slot + d) \/ BadHashSlot(slot + d) \/ TriggerSlot(slot + d)
    PROVE  SuccessInv'
<1>1. /\ Tick(slot + d) /\ \A u \in Ticks : Moves(u)
      /\ pc' = "idle" \/ (pc' = "parent" /\ slot + d > 0)
      /\ sendq' = sendq \/ (sendq # <<>> /\ sendq' = Tail(sendq))
  BY TickMoves DEF MockInv
<1>2. Running /\ pc = "idle" /\ slot' = slot + 1 /\ slot \in Int /\ d = 1
  BY <1>1 DEF Tick, MockInv, IInv, TypeOK
<1>3. proc' # "exit1" /\ proc' \in {proc, "exit0"}
  BY <1>2 DEF BeforeGenesis, AtGenesis, ReachSlotBound, GapSlot, BadHashSlot, TriggerSlot, Running
<1>4. \A u \in Ticks : AskSucceeds(u)' /\ ProposalSucceeds(u)'
  <2>1. \A u \in Ticks : ~Busy(u)'
    BY <1>1, MovesBusy
  <2> QED BY <2>1 DEF Busy, AskSucceeds, ProposalSucceeds
<1>5. sendq \in Seq(Ticks) /\ Len(sendq) \in Nat /\ Len(sendq) <= 1
  BY LenProperties DEF MockInv, IInv, TypeOK, TimelyInv, OnePendingProposal
<1>6. CASE sendq' = sendq /\ sendq # <<>>
  <2>1. Len(sendq) = 1 /\ sendq[1] \in Ticks
    <3>1. PICK n \in Nat : n = Len(sendq)
      BY <1>5
    <3>2. n > 0 /\ n <= 1
      BY <1>5, <1>6, <3>1, TailFacts DEF MockInv
    <3>3. n = 1
      BY <3>2
    <3>4. n \in 1..Len(sendq)
      BY <3>1, <3>3
    <3>5. sendq[n] \in Ticks
      BY <1>5, <3>4, ElementOfSeq
    <3> QED BY <3>1, <3>3, <3>5
  <2>2. slot > 0 /\ slot = task[sendq[1]].slot
        /\ Engine!Cached(Engine!IdKey(Call(sendq[1], "forkchoice").id))
    BY <1>2, <2>1 DEF SuccessInv
  <2>3. ReachSlotBound(slot + d) \/ TriggerSlot(slot + d)
    <3>1. Len(Tail(sendq)) = Len(sendq) - 1
      BY <1>6, TailFacts DEF MockInv
    <3>2. sendq' # Tail(sendq)
      <4> SUFFICES ASSUME sendq' = Tail(sendq) PROVE FALSE
        OBVIOUS
      <4>1. Len(sendq) = Len(sendq) - 1 /\ Len(sendq) \in Nat
        BY <1>5, <1>6, <3>1
      <4> QED BY <4>1
    <3> QED BY <1>2, <1>6, <2>2, <3>2 DEF BeforeGenesis, AtGenesis, GapSlot, BadHashSlot, Receive
  <2>4. (Running' => pc' = "parent") /\ task' = task
    BY <1>2, <2>3 DEF ReachSlotBound, TriggerSlot, Running
  <2>5. Engine!Cached(Engine!IdKey(Call(sendq[1], "forkchoice").id))'
    BY <1>6, <2>2 DEF Engine!Cached, Call, engineVars, Engine!IdKey
  <2>6. Running' => slot' > 0 /\ slot' = task'[sendq'[1]].slot + 1
    BY <1>2, <1>6, <2>2, <2>4
  <2> QED BY <1>1, <1>2, <1>3, <1>4, <1>6, <2>1, <2>2, <2>4, <2>5, <2>6 DEF SuccessInv
<1>7. CASE sendq' = <<>>
  <2>1. Len(sendq') = 0
    BY <1>7, EmptySeq
  <2> QED BY <1>1, <1>2, <1>3, <1>4, <2>1 DEF SuccessInv
<1>8. CASE sendq # <<>> /\ sendq' = Tail(sendq)
  <2>1. sendq' \in Seq(Ticks) /\ Len(sendq') = 0
    BY <1>5, <1>8, TailFacts, HeadOfSendq DEF MockInv
  <2> QED BY <1>7, <2>1, EmptySeq
<1> QED BY <1>1, <1>6, <1>7, <1>8

\* The loop fails nothing.
LEMMA LoopSucceeds ==
    ASSUME Steps \subseteq {1}, "badHash" \notin Faked,
           MockInv, TimelyInv, Timely, SuccessInv, SlotLoop, \A u \in Ticks : ~Busy(u),
           UNCHANGED engineVars
    PROVE  SuccessInv'
<1>0. sendq \in Seq(Ticks) /\ Len(sendq) \in Nat /\ Len(sendq) <= 1 /\ IInv
  BY LenProperties DEF MockInv, IInv, TypeOK, TimelyInv, OnePendingProposal
<1>1. ASSUME NEW d \in Steps,
             \/ BeforeGenesis(slot + d) \/ AtGenesis(slot + d) \/ ReachSlotBound(slot + d)
             \/ GapSlot(slot + d) \/ BadHashSlot(slot + d) \/ TriggerSlot(slot + d)
      PROVE  SuccessInv'
  BY <1>1, TickSucceeds
<1>2. CASE ReadParent \/ CalcReorgTarget
  <2>1. UNCHANGED <<proc, slot, task, sendq>> /\ pc # "idle" /\ pc' # "idle"
    BY <1>2 DEF ReadParent, CalcReorgTarget
  <2>2. \A u \in Ticks : AskSucceeds(u)' /\ ProposalSucceeds(u)'
    BY <2>1 DEF Busy, AskSucceeds, ProposalSucceeds
  <2> QED BY <2>1, <2>2 DEF SuccessInv, Running, Engine!Cached, Call, engineVars, Engine!IdKey
<1>3. CASE BuildFails \/ NilParent
  <2>1. sendq' = <<>> /\ slot' = slot /\ pc # "idle" /\ task' = task /\ proc' # "exit1"
    BY <1>3 DEF BuildFails, NilParent, NotProposing, SuccessInv
  <2>2. \A u \in Ticks : AskSucceeds(u)' /\ ProposalSucceeds(u)'
    BY <2>1 DEF Busy, AskSucceeds, ProposalSucceeds
  <2>3. Len(sendq') = 0 /\ slot' > 0
    BY <2>1, EmptySeq DEF SuccessInv
  <2> QED BY <2>1, <2>2, <2>3 DEF SuccessInv
<1>4. CASE ReceiveProposal
  <2>1. /\ tick \in Ticks
        /\ Head(sendq) \in Ticks \ {tick}
        /\ task'[tick].pc = "getPayload"
        /\ task'[tick].slot = slot
        /\ task'[tick].id = Head(sendq)
        /\ \A u \in Ticks \ {tick} : Moves(u)
    BY <1>0, <1>4, ReceiveProposalFacts
  <2>2. /\ pc = "propose" /\ pc' = "idle" /\ sendq # <<>> /\ sendq' = Tail(sendq)
        /\ Running /\ UNCHANGED <<proc, tick, slot>>
    BY <1>4 DEF ReceiveProposal
  <2>3. Head(sendq) = sendq[1] /\ Len(sendq) = 1 /\ sendq' = <<>>
    <3>1. Head(sendq) = sendq[1] /\ Len(sendq) = 1 /\ Len(Tail(sendq)) = 0
      BY <1>0, <2>2, TailFacts
    <3> QED BY <1>0, <2>2, <3>1, HeadOfSendq, EmptySeq
  <2>4. PICK h \in Ticks : h = Head(sendq)
    BY <2>1
  <2>5. PICK t \in Ticks : t = tick
    BY <2>1
  <2>6. /\ Engine!Cached(Engine!IdKey(Call(h, "forkchoice").id))
        /\ slot > 0 /\ slot = task[h].slot + 1
    BY <2>2, <2>3, <2>4 DEF SuccessInv
  <2>7. Call(t, "getPayload").pc = "new"
    <3>1. task[t].pc = "none"
      BY <1>0, <2>1, <2>2, <2>5 DEF IInv, LoopInv, NoTask
    <3> QED BY <3>1, UnspawnedCalls DEF CallPoints
  <2>8. task'[h].slot = task[h].slot
    BY <2>1, <2>4 DEF Moves
  <2>9. ProposalSucceeds(t)' /\ AskSucceeds(t)'
    <3>1. task'[t].pc = "getPayload" /\ task'[t].slot = slot /\ task'[t].id = h
      BY <2>1, <2>4, <2>5
    <3>2. request'[<<t, "getPayload">>].pc = "new" /\ request' = request
          /\ recentPayloads' = recentPayloads
      BY <2>7 DEF Call, engineVars
    <3>3. Engine!Cached(Engine!IdKey(EngineId(t)))'
      BY <2>6, <3>1, <3>2 DEF Engine!Cached, EngineId, Call, Engine!IdKey
    <3>4. slot' > 0 /\ task'[t].slot = slot' /\ task'[t].slot = task'[task'[t].id].slot + 1
      BY <2>2, <2>6, <2>8, <3>1
    <3> QED BY <3>1, <3>2, <3>3, <3>4 DEF ProposalSucceeds, AskSucceeds, Call
  <2>10. \A u \in Ticks \ {t} : ~Busy(u)'
    BY <2>1, <2>5, MovesBusy
  <2>11. proc' # "exit1"
    BY <2>2 DEF Running
  <2> QED BY <2>2, <2>3, <2>9, <2>10, <2>11, OneSucceeds
<1>5. CASE BuildExternal
  <2>1. /\ tick \in Ticks /\ task'[tick].pc = "newPayload" /\ task'[tick].slot = slot
        /\ \A u \in Ticks \ {tick} : task'[u] = task[u]
    BY <1>0, <1>5, BuildExternalFacts
  <2>2. /\ pc = "propose" /\ pc' = "idle" /\ sendq' = <<>>
        /\ Running /\ UNCHANGED <<proc, tick, slot>>
    BY <1>5 DEF BuildExternal, NotProposing
  <2>3. PICK t \in Ticks : t = tick
    BY <2>1
  <2>4. slot' > 0
    BY <2>2 DEF SuccessInv
  <2>5. ProposalSucceeds(t)' /\ AskSucceeds(t)'
    BY <2>1, <2>2, <2>3, <2>4 DEF ProposalSucceeds, AskSucceeds
  <2>6. \A u \in Ticks \ {t} : ~Busy(u)'
    BY <2>1, <2>3 DEF Busy
  <2>7. proc' # "exit1"
    BY <2>2 DEF Running
  <2> QED BY <2>2, <2>5, <2>6, <2>7, OneSucceeds
<1> QED BY <1>1, <1>2, <1>3, <1>4, <1>5 DEF SlotLoop

\* A forkchoice update is answered VALID, and its payload stays in the cache beside
\* the entry for the relay.
LEMMA AskStepSucceeds ==
    ASSUME CacheSize >= 2, MockInv, SyncInv, \A u \in Ticks : ~Unsent(u),
           NEW t \in Ticks, task[t].pc = "forkchoice", AskSucceeds(t),
           ForkchoiceCall(t), UNCHANGED vars
    PROVE  AskSucceeds(t)'
<1> DEFINE r == <<t, "forkchoice">>
           b == task[t].block
           c == Call(t, "forkchoice")
<1>1. /\ request \in [Calls -> Engine!Request] /\ r \in Calls
      /\ recentPayloads \subseteq Engine!CacheEntry
      /\ c = request[r] /\ c \in Engine!Request /\ AskInv(t)
  BY DEF MockInv, EngineSideInv, Call, Calls, CallPoints
<1>2. task'[t].pc = "forkchoice"
  BY DEF vars
<1>3. CASE Engine!ForkchoiceUpdated(r, b)
  <2>z. PICK z \in Nat : z = 0
    OBVIOUS
  <2>1. Engine!Answer(r, "forkchoiceUpdated", z, b, "VALID")
    BY <1>3, <2>z DEF Engine!ForkchoiceUpdated
  <2>2. b \in BlockOrNone /\ "VALID" \in Engine!Statuses /\ "forkchoice" \in CallPoints
    BY DEF MockInv, IInv, TypeOK, Task, Engine!Statuses, CallPoints
  <2>3. PICK q \in Engine!Request :
           request' = [request EXCEPT ![r] = q] /\ q.pc = "done" /\ q.id = z /\ q.status = "VALID"
    BY <1>1, <2>1, <2>2, AnswerFacts
  <2>4. Call(t, "forkchoice")' = q
    BY <1>1, <2>3 DEF Call
  <2> QED BY <1>2, <2>z, <2>3, <2>4 DEF AskSucceeds
<1>4. CASE Engine!AllocateId(r, b, task[t].slot + 1)
  <2>1. Call(t, "forkchoice")'.pc = "build"
    BY <1>1, <1>4, NoRequestFacts DEF Engine!AllocateId, Call, Engine!Request
  <2> QED BY <1>2, <2>1 DEF AskSucceeds
<1>5. CASE Engine!BuildPayload(r)
  <2>1. Call(t, "forkchoice")'.pc = "cacheId"
    BY <1>1, <1>5 DEF Engine!BuildPayload, Call, Engine!Request
  <2> QED BY <1>2, <2>1 DEF AskSucceeds
<1>6. ~Engine!BuildPayloadFails(r)
  <2> SUFFICES ASSUME Engine!BuildPayloadFails(r) PROVE FALSE
    OBVIOUS
  <2>1. c.pc = "build" /\ c.fcHead \notin engineKnown
    BY <1>1 DEF Engine!BuildPayloadFails
  <2>2. c.fcHead = b /\ Merged(b)
    BY <1>1, <2>1 DEF AskInv
  <2>3. b \in known /\ engineKnown = known
    BY <2>2 DEF Merged, SyncInv
  <2> QED BY <2>1, <2>2, <2>3
<1>7. CASE Engine!CacheById(r)
  <2>1. /\ c.pc = "cacheId" /\ recentPayloads' = Engine!Add(Engine!IdKey(c.id), c.block)
        /\ Call(t, "forkchoice")' = [c EXCEPT !.pc = "cacheParent"]
    BY <1>1, <1>7 DEF Engine!CacheById, Call
  <2>2. c.id # 0 /\ c.block = PayloadFor(t) /\ c.id \in Nat
    BY <1>1, <2>1 DEF AskInv, Engine!Request
  <2>3. c.block \in Block /\ Engine!IdKey(c.id) \in Engine!CacheKey
    BY <2>2, AskedFacts, SameBlocks DEF Engine!IdKey, Engine!CacheKey, BlockOrNone
  <2>4. \E e \in recentPayloads' : e.key = Engine!IdKey(c.id) /\ e.age = 1
    BY <1>1, <2>1, <2>3, AddFacts
  <2>5. Call(t, "forkchoice")'.pc = "cacheParent" /\ Call(t, "forkchoice")'.id = c.id
    BY <1>1, <2>1 DEF Engine!Request
  <2>6. \E e \in recentPayloads' : e.key = Engine!IdKey(Call(t, "forkchoice")'.id) /\ e.age = 1
    BY <2>4, <2>5
  <2> QED BY <1>2, <2>5, <2>6 DEF AskSucceeds, Engine!IdKey
<1>8. CASE Engine!CacheByParent(r)
  <2> DEFINE key == Engine!ParentKey(ParentOf(c.block))
  <2>1. /\ c.pc = "cacheParent" /\ recentPayloads' = Engine!Add(key, c.block)
        /\ Call(t, "forkchoice")' = [c EXCEPT !.pc = "done", !.status = "VALID"]
    BY <1>1, <1>8, SameBlocks DEF Engine!CacheByParent, Call
  <2>2. c.id # 0 /\ c.block = PayloadFor(t) /\ c.id \in Nat
    BY <1>1, <2>1 DEF AskInv, Engine!Request
  <2>3. c.block \in Block /\ ParentOf(c.block) \in Block
    BY <2>2, AskedFacts
  <2>4. key \in Engine!CacheKey /\ key.kind = "parent" /\ Engine!IdKey(c.id).kind = "id"
    BY <2>3, SameBlocks DEF Engine!IdKey, Engine!ParentKey, Engine!CacheKey, BlockOrNone
  <2>5. PICK f \in recentPayloads : f.key = Engine!IdKey(c.id) /\ f.age = 1
    BY <2>1 DEF AskSucceeds
  <2>6. f.key # key
    BY <2>4, <2>5
  <2> HIDE DEF key
  <2>7. \E e \in recentPayloads' : e.key = Engine!IdKey(c.id)
    BY <1>1, <2>1, <2>3, <2>4, <2>5, <2>6, AddFacts
  <2>8. /\ Call(t, "forkchoice")'.pc = "done" /\ Call(t, "forkchoice")'.id = c.id
        /\ Call(t, "forkchoice")'.status = "VALID"
    BY <1>1, <2>1 DEF Engine!Request
  <2>9. \E e \in recentPayloads' : e.key = Engine!IdKey(Call(t, "forkchoice")'.id)
    BY <2>7, <2>8
  <2> QED BY <1>2, <2>8, <2>9 DEF AskSucceeds, Engine!Cached, Engine!IdKey
<1> QED BY <1>3, <1>4, <1>5, <1>6, <1>7, <1>8 DEF ForkchoiceCall, AskedHead

\* The engine fails nothing.
LEMMA EngineSucceeds ==
    ASSUME CacheSize >= 2, MockInv, Timely, expired = {}, TimelyInv, SyncInv, SuccessInv,
           NEW t \in Ticks, EngineStep(t)
    PROVE  SuccessInv'
<1>1. /\ UNCHANGED vars
      /\ \/ /\ task[t].pc \in {"newPayload", "execute"}
            /\ NewPayloadCall(<<t, task[t].pc>>, task[t].block)
         \/ task[t].pc = "forkchoice" /\ ForkchoiceCall(t)
         \/ task[t].pc = "getPayload" /\ GetPayloadCall(t)
  BY DEF EngineStep
<1>2. Busy(t) /\ sendq = <<>> /\ \A u \in Ticks \ {t} : ~Busy(u)
  BY <1>1 DEF Busy, TimelyInv
<1>3. /\ proc' # "exit1" /\ (pc' # "idle" => slot' > 0) /\ sendq' = <<>>
      /\ \A u \in Ticks \ {t} : ~Busy(u)'
  BY <1>1, <1>2 DEF vars, Busy, SuccessInv
<1>4. AskSucceeds(t) /\ ProposalSucceeds(t)
  BY DEF SuccessInv
<1>5. UNCHANGED <<slot, task>> /\ (Busy(t) => task[t].slot = slot /\ slot > 0)
  BY <1>1, <1>4 DEF vars, ProposalSucceeds
<1>6. AskSucceeds(t)' /\ ProposalSucceeds(t)'
  <2>1. CASE /\ task[t].pc \in {"newPayload", "execute"}
             /\ NewPayloadCall(<<t, task[t].pc>>, task[t].block)
    <3>1. Call(t, task[t].pc)'.pc = "done" /\ Call(t, task[t].pc)'.status = "VALID"
      BY <1>1, <2>1, SendSync
    <3> QED BY <1>2, <1>5, <2>1, <3>1 DEF AskSucceeds, ProposalSucceeds
  <2>2. CASE task[t].pc = "forkchoice" /\ ForkchoiceCall(t)
    <3>1. \A u \in Ticks : ~Unsent(u)
      BY <1>2, <2>2, UnsentIsBusy DEF Unsent
    <3>2. AskSucceeds(t)'
      BY <1>1, <1>4, <2>2, <3>1, AskStepSucceeds
    <3> QED BY <1>2, <1>5, <2>2, <3>2 DEF ProposalSucceeds
  <2>3. CASE task[t].pc = "getPayload" /\ GetPayloadCall(t)
    <3>1. Call(t, "getPayload").pc = "new"
      BY <2>3 DEF GetPayloadCall, Engine!GetPayloadV1, Engine!GetPayloadUnknown, Engine!New, Call
    <3>2. /\ Engine!Cached(Engine!IdKey(EngineId(t)))
          /\ task[t].slot = task[task[t].id].slot + 1
      BY <1>4, <2>3, <3>1 DEF ProposalSucceeds
    <3>3. PICK p : Engine!Answer(<<t, "getPayload">>, "getPayload", EngineId(t), p, "ok")
      BY <2>3, <3>2 DEF GetPayloadCall, Engine!GetPayloadV1, Engine!GetPayloadUnknown
    <3>4. request \in [Calls -> Engine!Request] /\ <<t, "getPayload">> \in Calls
      BY DEF MockInv, EngineSideInv, Calls, CallPoints
    <3>5. Call(t, "getPayload")'.pc = "done" /\ Call(t, "getPayload")'.status = "ok"
      BY <3>3, <3>4, NoRequestFacts DEF Engine!Answer, Call, Engine!Request
    <3> QED BY <1>2, <1>5, <2>3, <3>2, <3>5 DEF AskSucceeds, ProposalSucceeds
  <2> QED BY <1>1, <2>1, <2>2, <2>3
<1> QED BY <1>3, <1>6, OneSucceeds

\* The payload that a proposal gets is for its slot and on a known block.
LEMMA ReceivedSucceeds ==
    ASSUME MockInv, NEW t \in Ticks, ProposalSucceeds(t), task[t].pc = "getPayload",
           Reply(t).status = "ok", PayloadReceived(t)
    PROVE  /\ task'[t].pc = "process"
           /\ task'[t].slot = task[t].slot
           /\ ValidateTimestamp(task'[t].block, task'[t].slot)
           /\ ParentOf(task'[t].block) \in known
<1>1. PICK i \in Ticks :
         /\ task[t].id = i
         /\ Call(i, "forkchoice").id # 0
         /\ task'[t].block = PayloadFor(i)
         /\ task'[t].pc = "process"
         /\ task'[t].slot = task[t].slot
  BY ReceivedFacts
<1>2. /\ Merged(task[i].block)
      /\ ParentOf(PayloadFor(i)) = task[i].block
      /\ LastSlot(PayloadFor(i)) = task[i].slot + 1
  BY <1>1, AskedFacts
<1>3. task[t].slot = task[i].slot + 1
  BY <1>1 DEF ProposalSucceeds
<1> QED BY <1>1, <1>2, <1>3 DEF Merged, LastSlot, ValidateTimestamp

\* No goroutine fails.
LEMMA GoroutineSucceeds ==
    ASSUME "payload" \notin EngineFaults, MockInv, Timely, TimelyInv, SuccessInv,
           NEW t \in Ticks, GoroutineStep(t)
    PROVE  SuccessInv'
<1>0. TypeOK /\ task \in [Ticks -> Task] /\ task[t] \in Task
  BY DEF MockInv, IInv, TypeOK
<1>1. Running /\ Busy(t) /\ UNCHANGED engineVars
  BY DEF GoroutineStep, MockExecution, ForkchoiceAnswered, ForkchoiceOnly, ForkchoicePrepares,
         ForkchoiceFails, GetPayloadAnswered, PayloadReceived, GetPayloadFails, ExecuteAnswered,
         ExecutePayload, ExecutePayloadFails, ProcessPayload, ProcessPayloadFails, Busy
<1>2. /\ pc = "idle" /\ sendq = <<>> /\ \A u \in Ticks \ {t} : ~Busy(u)
      /\ task[t].slot = slot /\ slot > 0
      /\ AskSucceeds(t) /\ ProposalSucceeds(t)
  BY <1>1 DEF TimelyInv, SuccessInv, ProposalSucceeds
<1>3. request' = request /\ recentPayloads' = recentPayloads
  BY <1>1 DEF engineVars
<1>4. ASSUME NEW p, Goto(t, p), UNCHANGED <<proc, pc, slot, sendq>>,
             \/ p = "done"
             \/ p = "forkchoice" /\ Call(t, "forkchoice").pc = "new"
             \/ p = "execute" /\ Call(t, "execute").pc = "new"
      PROVE  SuccessInv'
  <2>1. /\ task'[t].pc = p /\ task'[t].slot = task[t].slot
        /\ \A u \in Ticks \ {t} : task'[u] = task[u]
    BY <1>0, <1>4 DEF Goto, Task
  <2>2. AskSucceeds(t)' /\ ProposalSucceeds(t)'
    BY <1>2, <1>3, <1>4, <2>1 DEF AskSucceeds, ProposalSucceeds, Call, Busy
  <2>3. \A u \in Ticks \ {t} : ~Busy(u)'
    BY <1>2, <2>1 DEF Busy
  <2> QED BY <1>1, <1>2, <1>4, <2>2, <2>3, OneSucceeds DEF Running
<1>5. CASE Answered(t) /\ task[t].pc = "newPayload" /\ MockExecution(t)
  <2>1. Call(t, "forkchoice").pc = "new"
    BY <1>5 DEF MockInv, CallOrder
  <2> QED BY <1>4, <1>5, <2>1 DEF MockExecution
<1>6. CASE Answered(t) /\ task[t].pc = "forkchoice" /\ ForkchoiceAnswered(t)
  <2>1. /\ Reply(t) = Call(t, "forkchoice")
        /\ Reply(t).status = "VALID"
        /\ Reply(t).id # 0 => Engine!Cached(Engine!IdKey(Reply(t).id))
    BY <1>2, <1>6 DEF Reply, Answered, Call, AskSucceeds
  <2>2. CASE ForkchoiceOnly(t)
    BY <1>4, <2>2 DEF ForkchoiceOnly
  <2>3. CASE Reply(t).id # 0 /\ ForkchoicePrepares(t)
    <3>1. /\ task'[t].pc = "send" /\ task'[t].slot = task[t].slot
          /\ \A u \in Ticks \ {t} : task'[u] = task[u]
      BY <1>0, <2>3 DEF ForkchoicePrepares, Task
    <3>2. UNCHANGED <<proc, pc, slot>> /\ sendq' = Append(sendq, t)
      BY <2>3 DEF ForkchoicePrepares
    <3>3. Len(sendq') = 1 /\ sendq'[1] = t
      BY <1>2, <3>2
    <3>4. \A u \in Ticks : AskSucceeds(u)' /\ ProposalSucceeds(u)'
      <4>1. \A u \in Ticks : ~Busy(u)'
        BY <1>2, <3>1 DEF Busy
      <4> QED BY <4>1 DEF Busy, AskSucceeds, ProposalSucceeds
    <3>5. Engine!Cached(Engine!IdKey(Call(t, "forkchoice").id))'
      BY <1>3, <2>1, <2>3 DEF Engine!Cached, Engine!IdKey, Call
    <3>6. proc' # "exit1" /\ pc' = "idle" /\ slot' > 0 /\ slot' = task'[t].slot
      BY <1>1, <1>2, <3>1, <3>2 DEF Running
    <3>7. \A k \in 1..Len(sendq') : sendq'[k] = t
      BY <3>3
    <3> QED BY <3>4, <3>5, <3>6, <3>7 DEF SuccessInv
  <2> QED BY <1>6, <2>1, <2>2, <2>3 DEF ForkchoiceAnswered
<1>7. CASE Answered(t) /\ task[t].pc = "getPayload" /\ GetPayloadAnswered(t)
  <2>1. Reply(t) = Call(t, "getPayload") /\ Reply(t).status = "ok"
    BY <1>2, <1>7 DEF Reply, Answered, Call, ProposalSucceeds
  <2>2. PayloadReceived(t)
    BY <1>7, <2>1 DEF GetPayloadAnswered
  <2>3. /\ task'[t].pc = "process" /\ task'[t].slot = task[t].slot
        /\ ValidateTimestamp(task'[t].block, task'[t].slot)
        /\ ParentOf(task'[t].block) \in known
    BY <1>2, <1>7, <2>1, <2>2, ReceivedSucceeds
  <2>4. UNCHANGED <<proc, pc, slot, sendq, known>> /\ \A u \in Ticks \ {t} : task'[u] = task[u]
    BY <1>7, <2>1, <2>2, ReceivedFacts DEF PayloadReceived, chainVars
  <2>5. AskSucceeds(t)' /\ ProposalSucceeds(t)'
    BY <1>2, <2>3, <2>4 DEF AskSucceeds, ProposalSucceeds, ValidateTimestamp
  <2>6. \A u \in Ticks \ {t} : ~Busy(u)'
    BY <1>2, <2>4 DEF Busy
  <2> QED BY <1>1, <1>2, <2>4, <2>5, <2>6, OneSucceeds DEF Running
<1>8. CASE Answered(t) /\ task[t].pc = "execute" /\ ExecuteAnswered(t)
  <2>1. Reply(t) = Call(t, "execute") /\ Reply(t).status = "VALID"
    BY <1>2, <1>8 DEF Reply, Answered, Call, ProposalSucceeds
  <2> QED BY <1>4, <1>8, <2>1 DEF ExecuteAnswered, ExecutePayload
<1>9. CASE ProcessPayload(t)
  <2>1. Call(t, "execute").pc = "new"
    BY <1>9 DEF MockInv, CallOrder, ProcessPayload
  <2> QED BY <1>4, <1>9, <2>1 DEF ProcessPayload
<1>10. ~ProcessPayloadFails(t)
  BY <1>2 DEF ProcessPayloadFails, ProposalSucceeds
<1> QED BY <1>5, <1>6, <1>7, <1>8, <1>9, <1>10 DEF GoroutineStep

\* Against the engine mock, with calls that are answered within their slot, a bounded
\* run never reports a failure (consensus.go, maybeExit): every payload id is redeemed
\* in the slot after its own, before it is evicted, and both sides take every block.
\* It needs a clock that misses no slot, no slot with a made-up hash, which would keep
\* an id beyond its slot, and room in the cache for a payload under both its keys.
THEOREM TimelyMocksSucceed ==
    ASSUME Steps \subseteq {1}, "badHash" \notin Faked, "payload" \notin EngineFaults,
           CacheSize >= 2
    PROVE  MockSpec => []TimelyRunSucceeds
<1>1. MockInit => SuccessInv
  <2> SUFFICES ASSUME MockInit PROVE SuccessInv
    OBVIOUS
  <2>1. proc = "running" /\ pc = "idle" /\ Len(sendq) = 0 /\ \A u \in Ticks : ~Busy(u)
    BY EmptySeq DEF MockInit, Init, NoTask, Busy
  <2> QED BY <2>1 DEF SuccessInv, Busy, AskSucceeds, ProposalSucceeds
<1>2. MockInv /\ TimelySync /\ SuccessInv /\ [MockNext]_mockVars => SuccessInv'
  <2> SUFFICES ASSUME MockInv, TimelySync, SuccessInv, [MockNext]_mockVars, Timely'
               PROVE  SuccessInv'
    BY DEF SuccessInv
  <2>1. Timely
    BY LateIsFixed DEF Timely, MockInv, IInv
  <2>2. expired = {} /\ TimelyInv /\ SyncInv
    BY <2>1 DEF TimelySync
  <2>3. CASE SlotLoopStep
    BY <2>1, <2>2, <2>3, LoopWaits, LoopSucceeds
  <2>4. ASSUME NEW t \in Ticks, EngineStep(t) PROVE SuccessInv'
    BY <2>1, <2>2, <2>4, EngineSucceeds
  <2>5. ASSUME NEW t \in Ticks, GoroutineStep(t) PROVE SuccessInv'
    BY <2>1, <2>2, <2>5, GoroutineSucceeds
  <2>6. ASSUME NEW t \in Ticks PROVE ~TimesOut(t)
    BY <2>1 DEF TimesOut, Timely
  <2>7. CASE UNCHANGED mockVars
    BY <2>7 DEF mockVars, vars, engineVars, lateVars, SuccessInv, AskSucceeds, ProposalSucceeds,
                Busy, Call, EngineId, Engine!Cached, Engine!IdKey, Running, Timely,
                ValidateTimestamp
  <2> QED BY <2>3, <2>4, <2>5, <2>6, <2>7 DEF MockNext, InSlot
<1>3. SuccessInv => TimelyRunSucceeds
  BY DEF SuccessInv, TimelyRunSucceeds, NoSpuriousFailure
<1> QED BY <1>1, <1>2, <1>3, MockInvariance, MocksInStep, PTL DEF MockSpec

=============================================================================
