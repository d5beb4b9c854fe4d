------------------------- MODULE EngineBackend_proofs -------------------------
(***************************************************************************)
(* For every value of the constants, whatever requests run concurrently:   *)
(* what an id and a parent hash name in the payload cache of the engine    *)
(* mock, that nothing is evicted early, that no payload is executed before *)
(* the merge, and that the engine implements the abstract block tree.      *)
(* Everything but the eviction and the merge follows from EngineInv, which *)
(* the relay's proofs use again.                                           *)
(***************************************************************************)
EXTENDS EngineBackend, MockChain_proofs, FiniteSetTheorems

-----------------------------------------------------------------------------
(* The cache *)

\* An entry of a key that is cached is the one that Entry finds.
LEMMA EntryFacts ==
    ASSUME EngineTypeOK, NEW key, Cached(key)
    PROVE  /\ Entry(key) \in recentPayloads
           /\ Entry(key).key = key
           /\ Entry(key) \in CacheEntry
           /\ \A e \in recentPayloads : e.key = key => e = Entry(key)
BY DEF EngineTypeOK, Cached, Entry

\* The entries that Older moves: each is an old entry of another key, its age at
\* most one more, ranked above 1 and as before.
LEMMA OlderFacts ==
    ASSUME EngineTypeOK, NEW key, NEW e \in Older(key)
    PROVE  \E x \in recentPayloads :
              /\ x.key # key
              /\ e = [key |-> x.key, val |-> x.val, age |-> e.age]
              /\ e.age \in Int
              /\ e.age >= 2
              /\ e.age = IF Cached(key) /\ x.age > Entry(key).age THEN x.age ELSE x.age + 1
              /\ Cached(key) => x.age # Entry(key).age
<1>1. PICK x \in recentPayloads :
         /\ x.key # key
         /\ e = IF Cached(key) /\ x.age > Entry(key).age THEN x ELSE [x EXCEPT !.age = x.age + 1]
  BY DEF Older
<1>2. x \in CacheEntry /\ x.age \in Nat /\ x.age >= 1
  BY EngineAssumption DEF EngineTypeOK, CacheEntry
<1>3. Cached(key) => /\ Entry(key).age \in Nat
                     /\ Entry(key).age >= 1
                     /\ x.age # Entry(key).age
  BY <1>1, EntryFacts, EngineAssumption DEF EngineTypeOK, CacheEntry
<1> QED BY <1>1, <1>2, <1>3 DEF CacheEntry

\* Cache.Add yields a cache again: the new entry and, of the old ones with another
\* key, those within the capacity, none with a new key or value.
LEMMA AddFacts ==
    ASSUME EngineTypeOK, NEW key \in CacheKey, NEW p \in Block
    PROVE  /\ Add(key, p) \subseteq CacheEntry
           /\ \A e, f \in Add(key, p) : (e.key = f.key \/ e.age = f.age) => e = f
           /\ \A e \in Add(key, p) :
                 \/ e = [key |-> key, val |-> p, age |-> 1]
                 \/ \E x \in recentPayloads : e.key = x.key /\ e.val = x.val
           /\ [key |-> key, val |-> p, age |-> 1] \in Add(key, p)
<1> DEFINE new == [key |-> key, val |-> p, age |-> 1]
<1>1. new \in CacheEntry /\ CacheSize \in Nat
  BY EngineAssumption DEF CacheEntry
<1>2. ASSUME NEW e \in Older(key), e.age <= CacheSize
      PROVE  /\ e \in CacheEntry
             /\ e.key # key
             /\ e.age # 1
             /\ \E x \in recentPayloads : e.key = x.key /\ e.val = x.val
  BY <1>1, <1>2, OlderFacts DEF EngineTypeOK, CacheEntry
<1>3. ASSUME NEW e \in Older(key), NEW f \in Older(key), e.key = f.key \/ e.age = f.age
      PROVE  e = f
  <2>1. PICK x \in recentPayloads :
              /\ x.key # key
              /\ e = [key |-> x.key, val |-> x.val, age |-> e.age]
              /\ e.age \in Int
              /\ e.age = IF Cached(key) /\ x.age > Entry(key).age THEN x.age ELSE x.age + 1
              /\ Cached(key) => x.age # Entry(key).age
    BY OlderFacts
  <2>2. PICK y \in recentPayloads :
              /\ y.key # key
              /\ f = [key |-> y.key, val |-> y.val, age |-> f.age]
              /\ f.age \in Int
              /\ f.age = IF Cached(key) /\ y.age > Entry(key).age THEN y.age ELSE y.age + 1
              /\ Cached(key) => y.age # Entry(key).age
    BY OlderFacts
  <2>3. x.age \in Int /\ y.age \in Int /\ (Cached(key) => Entry(key).age \in Int)
    BY EntryFacts, EngineAssumption DEF EngineTypeOK, CacheEntry
  <2>4. x.key = y.key \/ x.age = y.age
    <3>1. CASE e.key = f.key
      BY <2>1, <2>2, <3>1
    <3>2. CASE e.age = f.age
      BY <2>1, <2>2, <2>3, <3>2
    <3> QED BY <1>3, <3>1, <3>2
  <2>5. x = y
    BY <2>4 DEF EngineTypeOK
  <2> QED BY <2>1, <2>2, <2>5
<1>4. Add(key, p) = {e \in Older(key) : e.age <= CacheSize} \cup {new}
  BY DEF Add
<1> HIDE DEF new
<1>5. new.key = key /\ new.age = 1
  BY DEF new
<1>6. \A e, f \in Add(key, p) : (e.key = f.key \/ e.age = f.age) => e = f
  <2> SUFFICES ASSUME NEW e \in Add(key, p), NEW f \in Add(key, p),
                      e.key = f.key \/ e.age = f.age
               PROVE  e = f
    OBVIOUS
  <2>1. CASE e = new
    BY <1>2, <1>4, <1>5, <2>1
  <2>2. CASE f = new
    BY <1>2, <1>4, <1>5, <2>2
  <2>3. CASE e # new /\ f # new
    BY <1>3, <1>4, <2>3
  <2> QED BY <2>1, <2>2, <2>3
<1>7. Add(key, p) \subseteq CacheEntry
  BY <1>1, <1>2, <1>4
<1>8. \A e \in Add(key, p) : e = new \/ \E x \in recentPayloads : e.key = x.key /\ e.val = x.val
  BY <1>2, <1>4
<1>9. new \in Add(key, p)
  BY <1>4
<1> QED BY <1>6, <1>7, <1>8, <1>9 DEF new

\* As long as the oldest entry leaves room for a new key, Cache.Add drops nothing.
LEMMA AddDropsNothing ==
    ASSUME EngineTypeOK, NEW key \in CacheKey, NEW p \in Block, NEW n \in Nat,
           \A e \in recentPayloads : e.age <= n,
           NEW m \in Nat, m = IF Cached(key) THEN n ELSE n + 1, m <= CacheSize
    PROVE  /\ \A e \in Add(key, p) : e.age <= m
           /\ \A x \in recentPayloads : \E e \in Add(key, p) : e.key = x.key
<1> DEFINE Moved(x) == IF Cached(key) /\ x.age > Entry(key).age THEN x
                       ELSE [x EXCEPT !.age = x.age + 1]
<1>1. Cached(key) => /\ Entry(key) \in recentPayloads
                     /\ Entry(key).key = key
                     /\ Entry(key).age \in Nat
                     /\ Entry(key).age >= 1
                     /\ Entry(key).age <= n
  BY EntryFacts, EngineAssumption DEF CacheEntry
<1>2. m >= 1
  BY <1>1
<1>3. ASSUME NEW x \in recentPayloads, x.key # key
      PROVE  /\ Moved(x).age <= m
             /\ Moved(x).key = x.key
  <2>1. x \in CacheEntry /\ x.age \in Nat /\ x.age <= n
    BY EngineAssumption DEF EngineTypeOK, CacheEntry
  <2>2. Cached(key) => x.age # Entry(key).age
    BY <1>1, <1>3 DEF EngineTypeOK
  <2> QED BY <1>1, <2>1, <2>2 DEF CacheEntry
<1>4. Older(key) = {Moved(x) : x \in {y \in recentPayloads : y.key # key}}
  BY DEF Older
<1> HIDE DEF Moved
<1>5. ASSUME NEW e \in Add(key, p) PROVE e.age <= m
  <2>1. CASE e \in Older(key)
    BY <1>3, <1>4, <2>1
  <2>2. CASE e = [key |-> key, val |-> p, age |-> 1]
    BY <1>2, <2>2
  <2> QED BY <2>1, <2>2 DEF Add
<1>6. ASSUME NEW x \in recentPayloads PROVE \E e \in Add(key, p) : e.key = x.key
  <2>1. CASE x.key = key
    <3>1. [key |-> key, val |-> p, age |-> 1] \in Add(key, p)
      BY AddFacts
    <3>2. [key |-> key, val |-> p, age |-> 1].key = key
      OBVIOUS
    <3> QED BY <2>1, <3>1, <3>2
  <2>2. CASE x.key # key
    <3>1. Moved(x) \in Older(key) /\ Moved(x).age <= m /\ Moved(x).key = x.key
      BY <1>3, <1>4, <2>2
    <3>2. Moved(x).age <= CacheSize
      <4>1. x.age \in Int
        BY EngineAssumption DEF EngineTypeOK, CacheEntry
      <4>2. Moved(x).age \in Int
        BY <4>1 DEF Moved, EngineTypeOK, CacheEntry
      <4> QED BY <3>1, <4>2, EngineAssumption
    <3> QED BY <3>1, <3>2 DEF Add
  <2> QED BY <2>1, <2>2
<1> QED BY <1>5, <1>6

-----------------------------------------------------------------------------
(* The shape of every step: one request moves, the chain and the counter    *)
(* grow, and the cache holds old payloads and at most one new one.          *)

\* A request keeps its part of the invariant in a step of another one.
LEMMA OtherRequestKeeps ==
    ASSUME NEW q \in Requests, RequestInv(q), request'[q] = request[q],
           known \subseteq known', payloadIdCounter \in Int, payloadIdCounter' \in Int,
           payloadIdCounter <= payloadIdCounter', request[q].id \in Nat,
           \A w \in Requests : \A i : \A b \in Block : Prepares(w, i, b) => Prepares(w, i, b)'
    PROVE  RequestInv(q)'
<1>1. request[q].op = "forkchoiceUpdated" /\ request[q].id # 0 => PreparingInv(q)'
  BY DEF RequestInv, PreparingInv
<1>2. request[q].op = "getPayload" /\ request[q].status = "ok" =>
          /\ Built(request[q].block)'
          /\ request[q].id # 0
          /\ \E w \in Requests : Prepares(w, request[q].id, request[q].block)'
  <2> SUFFICES ASSUME request[q].op = "getPayload", request[q].status = "ok"
               PROVE  /\ Built(request[q].block)'
                      /\ request[q].id # 0
                      /\ \E w \in Requests : Prepares(w, request[q].id, request[q].block)'
    OBVIOUS
  <2>1. Built(request[q].block) /\ request[q].id # 0
    BY DEF RequestInv
  <2>2. PICK w \in Requests : Prepares(w, request[q].id, request[q].block)
    BY DEF RequestInv
  <2>3. request[q].block \in Block
    BY <2>1 DEF Built
  <2>4. Built(request[q].block)'
    BY <2>1 DEF Built
  <2>5. Prepares(w, request[q].id, request[q].block)'
    BY <2>2, <2>3 DEF Prepares
  <2> QED BY <2>1, <2>4, <2>5
<1> QED BY <1>1, <1>2 DEF RequestInv

\* A step of the request r keeps the invariant if it leaves the chain and the cache
\* well formed, does not take back what r prepares, and keeps r's own part.
LEMMA StepKeeps ==
    ASSUME EngineInv, NEW r \in Requests,
           known \subseteq known', known' \subseteq Block, head' \in known',
           payloadIdCounter' \in Nat, payloadIdCounter <= payloadIdCounter',
           NEW new \in Request, request' = [request EXCEPT ![r] = new],
           \A i : \A b \in Block : Prepares(r, i, b) => Prepares(r, i, b)',
           recentPayloads' \subseteq CacheEntry,
           \A e, f \in recentPayloads' : (e.key = f.key \/ e.age = f.age) => e = f,
           \A e \in recentPayloads' :
              \/ EntryInv(e)'
              \/ \E x \in recentPayloads : e.key = x.key /\ e.val = x.val,
           RequestInv(r)',
           \/ new.op # "forkchoiceUpdated"
           \/ new.id = 0
           \/ new.id > payloadIdCounter
           \/ new.op = request[r].op /\ new.id = request[r].id
    PROVE  EngineInv'
<1>1. EngineTypeOK /\ request \in [Requests -> Request] /\ payloadIdCounter \in Nat
  BY DEF EngineInv, EngineTypeOK
<1>2. request' \in [Requests -> Request] /\ request'[r] = new
      /\ \A q \in Requests : q # r => request'[q] = request[q]
  BY <1>1
<1>3. EngineTypeOK'
  BY <1>2 DEF EngineTypeOK
<1>4. \A w \in Requests : \A i : \A b \in Block : Prepares(w, i, b) => Prepares(w, i, b)'
  BY <1>2 DEF Prepares
<1>5. ASSUME NEW e \in recentPayloads' PROVE EntryInv(e)'
  <2>1. CASE \E x \in recentPayloads : e.key = x.key /\ e.val = x.val
    <3>1. PICK x \in recentPayloads : e.key = x.key /\ e.val = x.val
      BY <2>1
    <3>2. EntryInv(x) /\ Built(x.val)
      BY DEF EngineInv, EntryInv
    <3>3. Built(e.val)'
      BY <3>1, <3>2 DEF Built
    <3>4. e.key.kind = "parent" => e.key = ParentKey(ParentOf(e.val))
      BY <3>1, <3>2 DEF EntryInv
    <3>5. ASSUME e.key.kind = "id"
          PROVE  e.key.id # 0 /\ \E q \in Requests : Prepares(q, e.key.id, e.val)'
      <4>1. PICK q \in Requests : Prepares(q, x.key.id, x.val)
        BY <3>1, <3>2, <3>5 DEF EntryInv
      <4>2. x.val \in Block
        BY <3>2 DEF Built
      <4>3. Prepares(q, x.key.id, x.val)'
        BY <1>4, <4>1, <4>2
      <4> QED BY <3>1, <3>2, <3>5, <4>3 DEF EntryInv
    <3> QED BY <3>3, <3>4, <3>5 DEF EntryInv
  <2> QED BY <1>5, <2>1
<1>6. ASSUME NEW q \in Requests PROVE RequestInv(q)'
  <2>1. CASE q = r BY <2>1
  <2>2. CASE q # r
    <3>1. RequestInv(q) /\ request'[q] = request[q] /\ request[q].id \in Nat
      BY <1>1, <1>2, <2>2 DEF EngineInv, Request
    <3>2. payloadIdCounter \in Int /\ payloadIdCounter' \in Int
      BY <1>1
    <3> QED BY <1>4, <3>1, <3>2, OtherRequestKeeps
  <2> QED BY <2>1, <2>2
<1>7. IdsUnique'
  <2> SUFFICES ASSUME NEW q \in Requests, NEW w \in Requests,
                      request'[q].op = "forkchoiceUpdated",
                      request'[w].op = "forkchoiceUpdated",
                      request'[q].id = request'[w].id,
                      request'[q].id # 0,
                      q # w
               PROVE  FALSE
    BY DEF IdsUnique
  <2>1. IdsUnique
    BY DEF EngineInv
  <2>2. \A u \in Requests : request[u].op = "forkchoiceUpdated" /\ request[u].id # 0
                               => request[u].id <= payloadIdCounter
    BY DEF EngineInv, RequestInv, PreparingInv
  <2>3. \A u \in Requests : request[u].id \in Nat
    BY <1>1 DEF Request
  <2>4. new.id \in Nat
    BY DEF Request
  <2>5. CASE q = r
    BY <1>1, <1>2, <2>1, <2>2, <2>3, <2>4, <2>5 DEF IdsUnique
  <2>6. CASE w = r
    BY <1>1, <1>2, <2>1, <2>2, <2>3, <2>4, <2>6 DEF IdsUnique
  <2>7. CASE q # r /\ w # r
    BY <1>2, <2>1, <2>7 DEF IdsUnique
  <2> QED BY <2>5, <2>6, <2>7
<1> QED BY <1>3, <1>5, <1>6, <1>7 DEF EngineInv

\* Cache.Get only moves an entry to the front.
LEMMA TouchFacts ==
    ASSUME EngineTypeOK, NEW key, Cached(key)
    PROVE  /\ key \in CacheKey
           /\ Entry(key).val \in Block
           /\ Touch(key) \subseteq CacheEntry
           /\ \A e, f \in Touch(key) : (e.key = f.key \/ e.age = f.age) => e = f
           /\ \A e \in Touch(key) : \E x \in recentPayloads : e.key = x.key /\ e.val = x.val
<1>1. key \in CacheKey /\ Entry(key).val \in Block
      /\ Entry(key) \in recentPayloads /\ Entry(key).key = key
  BY EntryFacts DEF CacheEntry
<1> DEFINE v == Entry(key).val
<1>2. Touch(key) = Add(key, v) /\ v \in Block
  BY <1>1 DEF Touch
<1> HIDE DEF v
<1>3. /\ Touch(key) \subseteq CacheEntry
      /\ \A e, f \in Touch(key) : (e.key = f.key \/ e.age = f.age) => e = f
      /\ \A e \in Touch(key) :
            \/ e = [key |-> key, val |-> v, age |-> 1]
            \/ \E x \in recentPayloads : e.key = x.key /\ e.val = x.val
  <2>1. /\ Add(key, v) \subseteq CacheEntry
        /\ \A e, f \in Add(key, v) : (e.key = f.key \/ e.age = f.age) => e = f
        /\ \A e \in Add(key, v) :
              \/ e = [key |-> key, val |-> v, age |-> 1]
              \/ \E x \in recentPayloads : e.key = x.key /\ e.val = x.val
    BY <1>1, <1>2, AddFacts
  <2> QED BY <1>2, <2>1
<1>4. \A e \in Touch(key) : \E x \in recentPayloads : e.key = x.key /\ e.val = x.val
  <2> SUFFICES ASSUME NEW e \in Touch(key)
               PROVE  \E x \in recentPayloads : e.key = x.key /\ e.val = x.val
    OBVIOUS
  <2>1. CASE e = [key |-> key, val |-> v, age |-> 1]
    <3>1. e.key = key /\ e.val = Entry(key).val
      BY <2>1 DEF v
    <3> QED BY <1>1, <3>1
  <2> QED BY <1>3, <2>1
<1> QED BY <1>1, <1>3, <1>4

\* A request that was not made yet is a request.
LEMMA NoRequestType == NoRequest \in Request
BY DEF NoRequest, Request, RequestPoints, BlockOrNone, Statuses

\* A request that is answered at once keeps the invariant: it prepares nothing.
LEMMA AnswerKeeps ==
    ASSUME EngineInv, NEW r \in Requests, New(r),
           NEW op \in {"getPayload", "newPayload", "forkchoiceUpdated"}, NEW i \in Nat,
           NEW b \in BlockOrNone, NEW st \in Statuses,
           Answer(r, op, i, b, st),
           op = "forkchoiceUpdated" => i = 0,
           op = "newPayload" /\ st = "SYNCING" => b \in Offered,
           op = "getPayload" /\ st = "ok" =>
              /\ Built(b)
              /\ i # 0
              /\ \E q \in Requests : Prepares(q, i, b),
           known \subseteq known', known' \subseteq Block, head' \in known',
           payloadIdCounter' = payloadIdCounter,
           recentPayloads' \subseteq CacheEntry,
           \A e, f \in recentPayloads' : (e.key = f.key \/ e.age = f.age) => e = f,
           \A e \in recentPayloads' : \E x \in recentPayloads : e.key = x.key /\ e.val = x.val
    PROVE  EngineInv'
<1> DEFINE new == [NoRequest EXCEPT !.pc = "done", !.op = op, !.id = i, !.block = b,
                                     !.status = st]
<1>1. request \in [Requests -> Request] /\ payloadIdCounter \in Nat
  BY DEF EngineInv, EngineTypeOK
<1>2. new \in Request
  BY NoRequestType DEF Request, RequestPoints
<1>3. request' = [request EXCEPT ![r] = new]
  BY DEF Answer
<1>4. request'[r] = new /\ \A q \in Requests : q # r => request'[q] = request[q]
  BY <1>1, <1>3
<1>5. new.pc = "done" /\ new.op = op /\ new.id = i /\ new.block = b /\ new.status = st
  BY NoRequestType DEF Request
<1> HIDE DEF new
<1>6. request[r].op = "none"
  BY DEF EngineInv, RequestInv, New, NoRequest
<1>7. ASSUME NEW j, NEW c, NEW w \in Requests, Prepares(w, j, c) PROVE w # r /\ Prepares(w, j, c)'
  BY <1>4, <1>6, <1>7 DEF Prepares
<1>8. RequestInv(r)'
  <2>1. op = "getPayload" /\ st = "ok" => /\ Built(b)'
                                          /\ i # 0
                                          /\ \E q \in Requests : Prepares(q, i, b)'
    BY <1>7 DEF Built
  <2> QED BY <1>4, <1>5, <2>1 DEF RequestInv
<1>9. payloadIdCounter' \in Nat /\ payloadIdCounter <= payloadIdCounter'
  BY <1>1
<1>10. new.op # "forkchoiceUpdated" \/ new.id = 0
  BY <1>5
<1> QED BY <1>2, <1>3, <1>7, <1>8, <1>9, <1>10, StepKeeps

\* engine_getPayloadV1
LEMMA GetPayloadKeeps ==
    ASSUME EngineInv, NEW r \in Requests, GetPayload(r)
    PROVE  EngineInv'
<1>1. PICK i \in 1..Cardinality(Requests) : GetPayloadV1(r, i) \/ GetPayloadUnknown(r, i)
  BY DEF GetPayload
<1>2. i \in Nat /\ i # 0
  BY FS_CardinalityType, EngineAssumption
<1>3. EngineTypeOK
  BY DEF EngineInv
<1>4. CASE GetPayloadV1(r, i)
  <2> DEFINE e == Entry(IdKey(i))
  <2>1. Cached(IdKey(i)) /\ recentPayloads' = Touch(IdKey(i)) /\ New(r)
        /\ Answer(r, "getPayload", i, e.val, "ok")
        /\ known' = known /\ head' = head /\ payloadIdCounter' = payloadIdCounter
    BY <1>4 DEF GetPayloadV1
  <2>2. e \in recentPayloads /\ e.key = IdKey(i)
    BY <1>3, <2>1, EntryFacts
  <2>3. EntryInv(e)
    BY <2>2 DEF EngineInv
  <2>4. Built(e.val) /\ \E q \in Requests : Prepares(q, i, e.val)
    BY <2>2, <2>3 DEF EntryInv, IdKey
  <2>5. /\ recentPayloads' \subseteq CacheEntry
        /\ \A x, y \in recentPayloads' : (x.key = y.key \/ x.age = y.age) => x = y
        /\ \A x \in recentPayloads' : \E y \in recentPayloads : x.key = y.key /\ x.val = y.val
    BY <1>3, <2>1, TouchFacts
  <2>6. e.val \in BlockOrNone /\ "ok" \in Statuses
    BY <2>4 DEF Built, BlockOrNone, Statuses
  <2> HIDE DEF e
  <2>7. known \subseteq known' /\ known' \subseteq Block /\ head' \in known'
    BY <1>3, <2>1 DEF EngineTypeOK
  <2> QED BY <1>2, <2>1, <2>4, <2>5, <2>6, <2>7, AnswerKeeps
<1>5. CASE GetPayloadUnknown(r, i)
  BY <1>2, <1>3, <1>5, AnswerKeeps DEF GetPayloadUnknown, EngineTypeOK, BlockOrNone, Statuses
<1> QED BY <1>1, <1>4, <1>5

\* What a client can send is a block that is not genesis; what the engine handed
\* out was built by it.
LEMMA SentBlocks ==
    ASSUME EngineInv, NEW b \in Offered \cup Given
    PROVE  /\ b \in Block
           /\ Len(b) > 0
           /\ b \notin Offered => Built(b)
<1>1. CASE b \in Offered
  BY <1>1, EngineAssumption, EmptySeq, LenProperties DEF Block, Genesis
<1>2. CASE b \notin Offered
  <2>1. PICK r \in Requests : /\ request[r].op = "getPayload"
                              /\ request[r].status = "ok"
                              /\ b = request[r].block
    BY <1>2 DEF Given
  <2>2. Built(b)
    BY <2>1 DEF EngineInv, RequestInv
  <2> QED BY <2>2 DEF Built
<1> QED BY <1>1, <1>2

\* engine_newPayloadV1
LEMMA NewPayloadKeeps ==
    ASSUME EngineInv, NEW r \in Requests, NewPayload(r)
    PROVE  EngineInv'
<1>1. PICK b \in Offered \cup Given :
        \/ NewPayloadBadHash(r, b)
        \/ NewPayloadSyncing(r, b)
        \/ NewPayloadNotTerminal(r, b)
        \/ NewPayloadV1(r, b)
        \/ NewPayloadFails(r, b)
  BY DEF NewPayload
<1>2. b \in Block /\ Len(b) > 0 /\ (b \notin Offered => Built(b)) /\ b \in BlockOrNone
  BY SentBlocks DEF BlockOrNone
<1>3. EngineTypeOK
  BY DEF EngineInv
<1>4. \A x \in recentPayloads : \E y \in recentPayloads : x.key = y.key /\ x.val = y.val
  OBVIOUS
<1>5. CASE NewPayloadBadHash(r, b)
  BY <1>2, <1>3, <1>4, <1>5, AnswerKeeps DEF NewPayloadBadHash, EngineTypeOK, Statuses
<1>6. CASE NewPayloadSyncing(r, b)
  <2>1. b \in Offered
    BY <1>2, <1>6 DEF NewPayloadSyncing, ParentKnown, Built
  <2> QED BY <1>2, <1>3, <1>4, <1>6, <2>1, AnswerKeeps DEF NewPayloadSyncing, EngineTypeOK, Statuses
<1>7. CASE NewPayloadNotTerminal(r, b)
  BY <1>2, <1>3, <1>4, <1>7, AnswerKeeps DEF NewPayloadNotTerminal, EngineTypeOK, Statuses
<1>8. CASE NewPayloadV1(r, b)
  <2>1. known \subseteq known' /\ known' \subseteq Block /\ head' \in known'
    BY <1>2, <1>3, <1>8 DEF NewPayloadV1, EngineTypeOK, InsertChain
  <2> QED BY <1>2, <1>3, <1>4, <1>8, <2>1, AnswerKeeps DEF NewPayloadV1, EngineTypeOK, Statuses
<1>9. CASE NewPayloadFails(r, b)
  BY <1>2, <1>3, <1>4, <1>9, AnswerKeeps DEF NewPayloadFails, EngineTypeOK, Statuses
<1> QED BY <1>1, <1>5, <1>6, <1>7, <1>8, <1>9

\* atomic.AddUint64: the id is larger than any that was given out.
LEMMA AllocateIdKeeps ==
    ASSUME EngineInv, NEW r \in Requests, NEW b \in Block, NEW s \in Int, AllocateId(r, b, s)
    PROVE  EngineInv'
<1> DEFINE new == [NoRequest EXCEPT !.pc = "build", !.op = "forkchoiceUpdated", !.fcHead = b,
                                    !.slot = s, !.id = payloadIdCounter + 1]
<1>1. EngineTypeOK /\ request \in [Requests -> Request] /\ payloadIdCounter \in Nat
  BY DEF EngineInv, EngineTypeOK
<1>2. new \in Request
  <2>1. payloadIdCounter + 1 \in Nat /\ b \in BlockOrNone
    BY <1>1 DEF BlockOrNone
  <2> QED BY <2>1, NoRequestType DEF Request, RequestPoints
<1>3. request' = [request EXCEPT ![r] = new]
  BY DEF AllocateId
<1>4. /\ new.pc = "build"
      /\ new.op = "forkchoiceUpdated"
      /\ new.fcHead = b
      /\ new.id = payloadIdCounter + 1
      /\ new.block = NoHash
      /\ new.status = "none"
  BY NoRequestType DEF Request, NoRequest
<1>5. request'[r] = new
  BY <1>1, <1>3
<1> HIDE DEF new
<1>6. /\ known' = known /\ head' = head /\ recentPayloads' = recentPayloads
      /\ payloadIdCounter' = payloadIdCounter + 1
      /\ request[r].op = "none"
  BY DEF AllocateId, New, EngineInv, RequestInv, NoRequest
<1>7. \A i : \A c \in Block : ~Prepares(r, i, c)
  BY <1>6 DEF Prepares
<1>8. RequestInv(r)'
  BY <1>1, <1>4, <1>5, <1>6 DEF RequestInv, PreparingInv
<1>9. /\ known \subseteq known' /\ known' \subseteq Block /\ head' \in known'
      /\ payloadIdCounter' \in Nat /\ payloadIdCounter <= payloadIdCounter'
      /\ recentPayloads' \subseteq CacheEntry
      /\ \A e, f \in recentPayloads' : (e.key = f.key \/ e.age = f.age) => e = f
      /\ \A e \in recentPayloads' : \E x \in recentPayloads : e.key = x.key /\ e.val = x.val
      /\ new.id > payloadIdCounter
  BY <1>1, <1>4, <1>6 DEF EngineTypeOK
<1> QED BY <1>2, <1>3, <1>7, <1>8, <1>9, StepKeeps

\* A step of a request that has its id: its head, slot and id stay, its block stays
\* once it is there, and the cache gains at most the block it built.
LEMMA PreparingKeeps ==
    ASSUME EngineInv, NEW r \in Requests, NEW new \in Request,
           request' = [request EXCEPT ![r] = new],
           request[r].pc \in {"build", "cacheId", "cacheParent"},
           new.pc \in {"cacheId", "cacheParent", "done"},
           new.op = request[r].op, new.id = request[r].id,
           new.fcHead = request[r].fcHead, new.slot = request[r].slot,
           request[r].block # NoHash => new.block = request[r].block,
           new.block # NoHash =>
              /\ new.fcHead \in known
              /\ new.block = Append(new.fcHead,
                    [slot |-> new.slot, src |-> "engine", by |-> new.id]),
           new.pc \in {"cacheId", "cacheParent"} \/ new.status = "VALID" => new.block # NoHash,
           UNCHANGED <<known, head, payloadIdCounter>>,
           recentPayloads' \subseteq CacheEntry,
           \A e, f \in recentPayloads' : (e.key = f.key \/ e.age = f.age) => e = f,
           \A e \in recentPayloads' :
              \/ \E x \in recentPayloads : e.key = x.key /\ e.val = x.val
              \/ /\ e.val = new.block
                 /\ new.block # NoHash
                 /\ e.key \in {IdKey(new.id), ParentKey(ParentOf(new.block))}
    PROVE  EngineInv'
<1>1. EngineTypeOK /\ request \in [Requests -> Request] /\ payloadIdCounter \in Nat
      /\ request[r] \in Request
  BY DEF EngineInv, EngineTypeOK
<1>2. request'[r] = new
  BY <1>1
<1>3. /\ request[r].op = "forkchoiceUpdated"
      /\ request[r].id # 0
      /\ PreparingInv(r)
  BY DEF EngineInv, RequestInv
<1>4. \A i : \A b \in Block : Prepares(r, i, b) => Prepares(r, i, b)'
  BY <1>2, NoHashAssumption DEF Prepares
<1>5. RequestInv(r)'
  <2>1. PreparingInv(r)'
    BY <1>2, <1>3 DEF PreparingInv
  <2> QED BY <1>2, <1>3, <2>1 DEF RequestInv
<1>6. ASSUME NEW e \in recentPayloads'
      PROVE  EntryInv(e)' \/ \E x \in recentPayloads : e.key = x.key /\ e.val = x.val
  <2> SUFFICES ASSUME /\ e.val = new.block
                      /\ new.block # NoHash
                      /\ e.key \in {IdKey(new.id), ParentKey(ParentOf(new.block))}
               PROVE  EntryInv(e)'
    BY <1>6
  <2> DEFINE seal == [slot |-> new.slot, src |-> "engine", by |-> new.id]
  <2>1. new.fcHead \in Block /\ seal \in Seal /\ new.block = Append(new.fcHead, seal)
    BY <1>1 DEF EngineTypeOK, Seal, Builders, Request
  <2>2. seal.src = "engine"
    OBVIOUS
  <2> HIDE DEF seal
  <2>3. /\ new.block \in Block
        /\ Len(new.block) > 0
        /\ new.block[Len(new.block)] = seal
        /\ ParentOf(new.block) = new.fcHead
    BY <2>1, ChildOfBlock, ParentOfChild, LenProperties DEF Block
  <2>4. Built(e.val)'
    BY <2>2, <2>3 DEF Built
  <2>5. Prepares(r, new.id, new.block)'
    BY <1>2, <1>3 DEF Prepares
  <2>6. CASE e.key = IdKey(new.id)
    BY <1>3, <2>4, <2>5, <2>6 DEF EntryInv, IdKey
  <2>7. CASE e.key = ParentKey(ParentOf(new.block))
    BY <2>4, <2>7 DEF EntryInv, ParentKey
  <2> QED BY <2>6, <2>7
<1>7. /\ known \subseteq known' /\ known' \subseteq Block /\ head' \in known'
      /\ payloadIdCounter' \in Nat /\ payloadIdCounter <= payloadIdCounter'
  BY <1>1 DEF EngineTypeOK
<1> QED BY <1>4, <1>5, <1>6, <1>7, StepKeeps

\* The payload is built, on a head that is known, or the request fails.
LEMMA BuildKeeps ==
    ASSUME EngineInv, NEW r \in Requests, BuildPayload(r) \/ BuildPayloadFails(r)
    PROVE  EngineInv'
<1>1. EngineTypeOK /\ request \in [Requests -> Request] /\ request[r] \in Request
  BY DEF EngineInv, EngineTypeOK
<1>2. PreparingInv(r) /\ request[r].block = NoHash /\ request[r].pc = "build"
  BY DEF EngineInv, RequestInv, PreparingInv, BuildPayload, BuildPayloadFails
<1>3. /\ \A e \in recentPayloads' : \E x \in recentPayloads : e.key = x.key /\ e.val = x.val
      /\ recentPayloads' \subseteq CacheEntry
      /\ \A e, f \in recentPayloads' : (e.key = f.key \/ e.age = f.age) => e = f
      /\ UNCHANGED <<known, head, payloadIdCounter>>
  BY <1>1 DEF EngineTypeOK, BuildPayload, BuildPayloadFails
<1>4. CASE BuildPayload(r)
  <2> DEFINE b == Append(request[r].fcHead,
                    [slot |-> request[r].slot, src |-> "engine", by |-> request[r].id])
             new == [request[r] EXCEPT !.pc = "cacheId", !.block = b]
  <2>1. request[r].fcHead \in Block /\ request[r].fcHead \in known
    BY <1>1, <1>4 DEF BuildPayload, EngineTypeOK
  <2>2. [slot |-> request[r].slot, src |-> "engine", by |-> request[r].id] \in Seal
    BY <1>1 DEF Request, Seal, Builders
  <2>3. b \in Block
    BY <2>1, <2>2, ChildOfBlock
  <2>4. request' = [request EXCEPT ![r] = new]
    BY <1>1, <1>4 DEF BuildPayload, AddNewBlock
  <2>5. b # NoHash
    BY <2>3, NoHashAssumption
  <2>6. b = Append(request[r].fcHead,
                    [slot |-> request[r].slot, src |-> "engine", by |-> request[r].id])
    OBVIOUS
  <2> HIDE DEF b
  <2>7. /\ new \in Request
        /\ new.pc = "cacheId"
        /\ new.block = b
        /\ new.op = request[r].op
        /\ new.id = request[r].id
        /\ new.fcHead = request[r].fcHead
        /\ new.slot = request[r].slot
    BY <1>1, <2>3 DEF Request, RequestPoints, BlockOrNone
  <2> HIDE DEF new
  <2>8. new.block = Append(new.fcHead, [slot |-> new.slot, src |-> "engine", by |-> new.id])
    BY <2>6, <2>7
  <2> QED BY <1>2, <1>3, <2>1, <2>4, <2>5, <2>7, <2>8, PreparingKeeps
<1>5. CASE BuildPayloadFails(r)
  <2> DEFINE new == [request[r] EXCEPT !.pc = "done", !.status = "error"]
  <2>1. request' = [request EXCEPT ![r] = new]
    BY <1>1, <1>5 DEF BuildPayloadFails
  <2>2. /\ new \in Request
        /\ new.pc = "done"
        /\ new.status = "error"
        /\ new.block = request[r].block
        /\ new.op = request[r].op
        /\ new.id = request[r].id
        /\ new.fcHead = request[r].fcHead
        /\ new.slot = request[r].slot
    BY <1>1 DEF Request, RequestPoints, Statuses
  <2> HIDE DEF new
  <2> QED BY <1>2, <1>3, <2>1, <2>2, PreparingKeeps
<1> QED BY <1>4, <1>5

\* The two places the payload gets in the cache.
LEMMA CacheKeeps ==
    ASSUME EngineInv, NEW r \in Requests, CacheById(r) \/ CacheByParent(r)
    PROVE  EngineInv'
<1> DEFINE b == request[r].block
           i == request[r].id
<1>1. EngineTypeOK /\ request \in [Requests -> Request] /\ request[r] \in Request
  BY DEF EngineInv, EngineTypeOK
<1>2. /\ PreparingInv(r)
      /\ b # NoHash
      /\ request[r].pc \in {"cacheId", "cacheParent"}
      /\ UNCHANGED <<known, head, payloadIdCounter>>
  BY DEF EngineInv, RequestInv, PreparingInv, CacheById, CacheByParent
<1>3. b \in Block /\ i \in Nat /\ ParentOf(b) = request[r].fcHead /\ request[r].fcHead \in Block
  <2> DEFINE seal == [slot |-> request[r].slot, src |-> "engine", by |-> request[r].id]
             h == request[r].fcHead
  <2>1. h \in Block /\ b = Append(h, seal)
    BY <1>2 DEF PreparingInv
  <2>2. seal \in Seal /\ i \in Nat
    BY <1>1 DEF Request, Seal, Builders
  <2> HIDE DEF seal, h, b
  <2>3. b \in Block /\ ParentOf(b) = h
    BY <2>1, <2>2, ParentOfChild, ChildOfBlock
  <2> QED BY <2>1, <2>2, <2>3 DEF h
<1>4. IdKey(i) \in CacheKey /\ ParentKey(ParentOf(b)) \in CacheKey
  BY <1>3 DEF IdKey, ParentKey, CacheKey, BlockOrNone
<1> DEFINE key == IF request[r].pc = "cacheId" THEN IdKey(i) ELSE ParentKey(ParentOf(b))
           new == IF request[r].pc = "cacheId" THEN [request[r] EXCEPT !.pc = "cacheParent"]
                  ELSE [request[r] EXCEPT !.pc = "done", !.status = "VALID"]
<1>5. /\ new \in Request
      /\ new.pc \in {"cacheParent", "done"}
      /\ new.block = b
      /\ new.id = i
      /\ new.op = request[r].op
      /\ new.fcHead = request[r].fcHead
      /\ new.slot = request[r].slot
  BY <1>1, <1>2 DEF Request, RequestPoints, Statuses
<1>6. request' = [request EXCEPT ![r] = new]
  BY <1>1 DEF CacheById, CacheByParent
<1>7. recentPayloads' = Add(key, b)
  BY DEF CacheById, CacheByParent
<1>8. key \in CacheKey /\ key \in {IdKey(new.id), ParentKey(ParentOf(new.block))}
  BY <1>4, <1>5
<1> HIDE DEF new, key
<1>9. /\ recentPayloads' \subseteq CacheEntry
      /\ \A e, f \in recentPayloads' : (e.key = f.key \/ e.age = f.age) => e = f
      /\ \A e \in recentPayloads' :
            \/ e = [key |-> key, val |-> b, age |-> 1]
            \/ \E x \in recentPayloads : e.key = x.key /\ e.val = x.val
  <2>1. /\ Add(key, b) \subseteq CacheEntry
        /\ \A e, f \in Add(key, b) : (e.key = f.key \/ e.age = f.age) => e = f
        /\ \A e \in Add(key, b) :
              \/ e = [key |-> key, val |-> b, age |-> 1]
              \/ \E x \in recentPayloads : e.key = x.key /\ e.val = x.val
    <3> HIDE DEF b
    <3> QED BY <1>1, <1>3, <1>8, AddFacts
  <2> QED BY <1>7, <2>1
<1>10. ASSUME NEW e \in recentPayloads'
       PROVE  \/ \E x \in recentPayloads : e.key = x.key /\ e.val = x.val
              \/ /\ e.val = new.block
                 /\ new.block # NoHash
                 /\ e.key \in {IdKey(new.id), ParentKey(ParentOf(new.block))}
  <2>1. CASE e = [key |-> key, val |-> b, age |-> 1]
    <3>1. e.key = key /\ e.val = b
      BY <2>1
    <3> QED BY <1>2, <1>5, <1>8, <3>1
  <2> QED BY <1>9, <2>1
<1>11. new.block # NoHash =>
              /\ new.fcHead \in known
              /\ new.block = Append(new.fcHead,
                    [slot |-> new.slot, src |-> "engine", by |-> new.id])
  BY <1>2, <1>5 DEF PreparingInv
<1> QED BY <1>2, <1>5, <1>6, <1>9, <1>10, <1>11, PreparingKeeps

\* engine_forkchoiceUpdatedV1
LEMMA ForkchoiceKeeps ==
    ASSUME EngineInv, NEW r \in Requests, Forkchoice(r)
    PROVE  EngineInv'
<1>1. EngineTypeOK
  BY DEF EngineInv
<1>2. Named \subseteq Block
  BY <1>1, EngineAssumption DEF Named, EngineTypeOK
<1>3. ASSUME NEW b \in Named, ForkchoiceUpdated(r, b) PROVE EngineInv'
  <2>1. b \in BlockOrNone /\ "VALID" \in Statuses /\ 0 \in Nat
    BY <1>2 DEF BlockOrNone, Statuses
  <2> QED BY <1>1, <1>3, <2>1, AnswerKeeps DEF ForkchoiceUpdated, EngineTypeOK
<1>4. ASSUME NEW b \in Named, NEW s \in Slots, AllocateId(r, b, s) PROVE EngineInv'
  BY <1>2, <1>4, AllocateIdKeeps, EngineAssumption
<1>5. CASE BuildPayload(r) \/ BuildPayloadFails(r)
  BY <1>5, BuildKeeps
<1>6. CASE CacheById(r) \/ CacheByParent(r)
  BY <1>6, CacheKeeps
<1> QED BY <1>3, <1>4, <1>5, <1>6 DEF Forkchoice

\* The engine starts with the chain of its database and an empty cache.
LEMMA EngineInitInvariant == Init => EngineInv
<1> SUFFICES ASSUME Init PROVE EngineInv
  OBVIOUS
<1>1. known \subseteq Block /\ head \in known
  BY EngineAssumption, AncestryIsClosed DEF Init
<1>2. request \in [Requests -> Request] /\ \A r \in Requests : request[r] = NoRequest
  BY NoRequestType DEF Init
<1>3. EngineTypeOK
  BY <1>1, <1>2 DEF Init, EngineTypeOK
<1>4. \A r \in Requests : RequestInv(r)
  BY <1>2 DEF RequestInv, NoRequest
<1>5. IdsUnique
  BY <1>2 DEF IdsUnique, NoRequest
<1>6. \A e \in recentPayloads : EntryInv(e)
  BY DEF Init
<1> QED BY <1>3, <1>4, <1>5, <1>6 DEF EngineInv

\* Every request keeps the invariant, wherever the others are.
LEMMA EngineNextKeeps ==
    ASSUME EngineInv, EngineNext
    PROVE  EngineInv'
BY GetPayloadKeeps, NewPayloadKeeps, ForkchoiceKeeps DEF EngineNext

\* Nothing the engine keeps changes.
LEMMA EngineStutterKeeps ==
    ASSUME EngineInv, UNCHANGED engineVars
    PROVE  EngineInv'
BY DEF engineVars, EngineInv, EngineTypeOK, EntryInv, RequestInv, PreparingInv, IdsUnique,
       Built, Prepares

-----------------------------------------------------------------------------
(* What the invariant says *)

\* EngineInv holds of the engine on its own.
THEOREM EngineInvariance == EngineSpec => []EngineInv
<1>1. Init => EngineInv
  BY EngineInitInvariant
<1>2. EngineInv /\ [EngineNext]_engineVars => EngineInv'
  BY EngineNextKeeps, EngineStutterKeeps
<1> QED BY <1>1, <1>2, PTL DEF EngineSpec

\* The engine is type correct; in particular its cache holds a key once, ranks its
\* entries and never outgrows its capacity.
THEOREM EngineTypeCorrect == EngineSpec => []EngineTypeOK
<1>1. EngineInv => EngineTypeOK
  BY DEF EngineInv
<1> QED BY <1>1, EngineInvariance, PTL

\* The request that prepared the payload of an id is the one that was told the id.
LEMMA IdsNameOnePayload ==
    ASSUME EngineInv
    PROVE  IdNamesOnePayload
<1> SUFFICES ASSUME NEW r \in Requests, NEW q \in Requests,
                    request[r].op = "getPayload", request[r].status = "ok",
                    PreparedBy(q, request[r].id)
             PROVE  /\ ParentOf(request[r].block) = request[q].fcHead
                    /\ request[r].block[Len(request[r].block)].slot = request[q].slot
  BY DEF IdNamesOnePayload
<1>1. PICK w \in Requests : Prepares(w, request[r].id, request[r].block)
  BY DEF EngineInv, RequestInv
<1>2. w = q
  BY <1>1 DEF EngineInv, IdsUnique, Prepares, PreparedBy
<1> DEFINE seal == [slot |-> request[q].slot, src |-> "engine", by |-> request[q].id]
           h == request[q].fcHead
           b == request[r].block
<1>3. /\ PreparingInv(q)
      /\ request[q].block = b
      /\ b \in Block
      /\ request[q] \in Request
  BY <1>1, <1>2 DEF EngineInv, EngineTypeOK, RequestInv, Prepares, PreparedBy, Built
<1>4. b # NoHash
  BY <1>3, NoHashAssumption
<1>5. b = Append(h, seal) /\ h \in Block
  BY <1>3, <1>4 DEF PreparingInv
<1>6. seal \in Seal /\ seal.slot = request[q].slot
  BY <1>3 DEF Request, Seal, Builders
<1> HIDE DEF seal, h, b
<1>7. ParentOf(b) = h /\ Len(b) = Len(h) + 1 /\ b[Len(h) + 1] = seal
  BY <1>5, <1>6, ParentOfChild, ChildOfBlock
<1>8. ParentOf(b) = h /\ b[Len(b)] = seal
  BY <1>7
<1> QED BY <1>6, <1>8 DEF b, h

\* What was answered SYNCING is not sealed by the engine, what was handed out is.
LEMMA OwnPayloadsInSync ==
    ASSUME EngineInv
    PROVE  OwnPayloadNeverSyncing
<1> SUFFICES ASSUME NEW r \in Requests, NEW q \in Requests,
                    request[r].op = "newPayload", request[r].status = "SYNCING",
                    request[q].op = "getPayload", request[q].status = "ok",
                    request[r].block = request[q].block
             PROVE  FALSE
  BY DEF OwnPayloadNeverSyncing
<1>1. request[r].block \in Offered /\ Built(request[q].block)
  BY DEF EngineInv, RequestInv
<1> QED BY <1>1, EngineAssumption DEF Built

\* However requests interleave, and however the cache is filled, replaced and
\* evicted: engine_getPayloadV1 returns for an id what the request that was told
\* the id asked for, on its head and for its slot.
THEOREM IdsAreFaithful == EngineSpec => []IdNamesOnePayload
<1>1. EngineInv => IdNamesOnePayload
  BY IdsNameOnePayload
<1> QED BY <1>1, EngineInvariance, PTL

\* A payload that the engine handed out is never answered SYNCING.
THEOREM EngineKnowsItsOwn == EngineSpec => []OwnPayloadNeverSyncing
<1>1. EngineInv => OwnPayloadNeverSyncing
  BY OwnPayloadsInSync
<1> QED BY <1>1, EngineInvariance, PTL

-----------------------------------------------------------------------------
(* Eviction.  A request that prepares a payload adds two keys, so twice as  *)
(* many places as such requests are enough.                                 *)

\* Keys that some of finitely many requests added: no more than there are requests.
LEMMA KeyEach ==
    ASSUME NEW C, IsFiniteSet(C), NEW S, S \subseteq C, NEW F, NEW f \in Surjection(S, F)
    PROVE  IsFiniteSet(F) /\ Cardinality(F) <= Cardinality(C) /\ Cardinality(F) \in Nat
<1>1. IsFiniteSet(S) /\ Cardinality(S) <= Cardinality(C)
  BY FS_Subset
<1>2. IsFiniteSet(F) /\ Cardinality(F) <= Cardinality(S)
  BY <1>1, FS_Surjection
<1>3. Cardinality(F) \in Nat /\ Cardinality(S) \in Nat /\ Cardinality(C) \in Nat
  BY <1>1, <1>2, FS_CardinalityType
<1> QED BY <1>1, <1>2, <1>3

\* Two such sets of keys.
LEMMA TwoKeysEach ==
    ASSUME NEW F, IsFiniteSet(F), NEW G, IsFiniteSet(G), NEW n \in Nat,
           Cardinality(F) <= n, Cardinality(G) <= n
    PROVE  /\ IsFiniteSet(F \cup G)
           /\ Cardinality(F \cup G) \in Nat
           /\ Cardinality(F \cup G) <= 2 * n
<1>1. /\ IsFiniteSet(F \cap G)
      /\ IsFiniteSet(F \cup G)
      /\ Cardinality(F \cup G) = Cardinality(F) + Cardinality(G) - Cardinality(F \cap G)
  <2>1. F \cap G \in SUBSET F
    OBVIOUS
  <2> QED BY <2>1, FS_Subset, FS_Union
<1>2. /\ Cardinality(F) \in Nat
      /\ Cardinality(G) \in Nat
      /\ Cardinality(F \cap G) \in Nat
      /\ Cardinality(F \cup G) \in Nat
  BY <1>1, FS_CardinalityType
<1> QED BY <1>1, <1>2

\* At most two keys for each request that prepared a payload.
KeysBounded ==
    /\ IsFiniteSet(Cachers)
    /\ IsFiniteSet(AddedKeys)
    /\ Cardinality(Cachers) \in Nat
    /\ Cardinality(AddedKeys) \in Nat
    /\ Cardinality(AddedKeys) <= 2 * Cardinality(Cachers)

\* That holds in every state, in the next one too.
LEMMA FewKeys == KeysBounded
<1> DEFINE S == {q \in Cachers : request[q].pc \in {"cacheParent", "done"}}
           T == {q \in Cachers : request[q].pc = "done"}
           F == {IdKey(request[r].id) : r \in S}
           G == {ParentKey(ParentOf(request[r].block)) : r \in T}
<1>1. IsFiniteSet(Cachers) /\ Cardinality(Cachers) \in Nat
  <2>1. Cachers \in SUBSET Requests
    BY DEF Cachers
  <2> QED BY <2>1, FS_Subset, FS_CardinalityType, EngineAssumption
<1>2. S \subseteq Cachers /\ T \subseteq Cachers
  OBVIOUS
<1>3. [r \in S |-> IdKey(request[r].id)] \in Surjection(S, F)
  BY DEF Surjection
<1>4. [r \in T |-> ParentKey(ParentOf(request[r].block))] \in Surjection(T, G)
  BY DEF Surjection
<1>5. AddedKeys = F \cup G
  BY DEF AddedKeys
<1> HIDE DEF S, T, F, G
<1>6. /\ IsFiniteSet(F) /\ Cardinality(F) <= Cardinality(Cachers)
      /\ IsFiniteSet(G) /\ Cardinality(G) <= Cardinality(Cachers)
  BY <1>1, <1>2, <1>3, <1>4, KeyEach
<1>7. /\ IsFiniteSet(F \cup G)
      /\ Cardinality(F \cup G) \in Nat
      /\ Cardinality(F \cup G) <= 2 * Cardinality(Cachers)
  BY <1>1, <1>6, TwoKeysEach
<1> QED BY <1>1, <1>5, <1>7 DEF KeysBounded

\* Cache.Add of the next key of a request, or Cache.Get of a key that is cached,
\* evicts nothing while there is room for all.
LEMMA AddKeepsEviction ==
    ASSUME EngineTypeOK, EvictionInv, NEW key \in CacheKey, NEW p \in Block,
           recentPayloads' = Add(key, p), Cachers \subseteq Cachers',
           \/ AddedKeys' = AddedKeys \cup {key}
           \/ AddedKeys' = AddedKeys /\ Cached(key)
    PROVE  EvictionInv'
<1> SUFFICES ASSUME 2 * Cardinality(Cachers') <= CacheSize
             PROVE  /\ \A k \in AddedKeys' : \E e \in recentPayloads' : e.key = k
                    /\ \A e \in recentPayloads' :
                          e.key \in AddedKeys' /\ e.age <= Cardinality(AddedKeys')
  BY DEF EvictionInv, Cached
<1>1. /\ IsFiniteSet(AddedKeys) /\ Cardinality(AddedKeys) \in Nat
      /\ Cardinality(Cachers) \in Nat
  BY FewKeys DEF KeysBounded
<1>2. /\ IsFiniteSet(Cachers') /\ Cardinality(Cachers') \in Nat
      /\ Cardinality(AddedKeys') \in Nat
      /\ Cardinality(AddedKeys') <= 2 * Cardinality(Cachers')
  <2>1. KeysBounded'
    BY FewKeys, PTL
  <2> QED BY <2>1 DEF KeysBounded
<1>3. 2 * Cardinality(Cachers) <= CacheSize
  <2>1. Cardinality(Cachers) <= Cardinality(Cachers')
    BY <1>2, FS_Subset
  <2> QED BY <1>1, <1>2, <2>1, EngineAssumption
<1>4. /\ \A k \in AddedKeys : Cached(k)
      /\ \A e \in recentPayloads : e.key \in AddedKeys /\ e.age <= Cardinality(AddedKeys)
  BY <1>3 DEF EvictionInv
<1>5. Cached(key) <=> key \in AddedKeys
  BY <1>4 DEF Cached
<1>6. AddedKeys' = AddedKeys \cup {key}
  BY <1>5
<1>7. Cardinality(AddedKeys') = IF Cached(key) THEN Cardinality(AddedKeys)
                                ELSE Cardinality(AddedKeys) + 1
  BY <1>1, <1>5, <1>6, FS_AddElement
<1>8. Cardinality(AddedKeys') <= CacheSize
  BY <1>2, EngineAssumption
<1>9. /\ \A e \in Add(key, p) : e.age <= Cardinality(AddedKeys')
      /\ \A x \in recentPayloads : \E e \in Add(key, p) : e.key = x.key
  BY <1>1, <1>2, <1>4, <1>7, <1>8, AddDropsNothing
<1>10. /\ \A e \in Add(key, p) :
             \/ e = [key |-> key, val |-> p, age |-> 1]
             \/ \E x \in recentPayloads : e.key = x.key /\ e.val = x.val
       /\ [key |-> key, val |-> p, age |-> 1] \in Add(key, p)
  BY AddFacts
<1>11. [key |-> key, val |-> p, age |-> 1].key = key
  OBVIOUS
<1>12. ASSUME NEW k \in AddedKeys' PROVE \E e \in recentPayloads' : e.key = k
  <2>1. CASE k = key
    BY <1>10, <1>11, <2>1
  <2>2. CASE k \in AddedKeys
    BY <1>4, <1>9, <2>2 DEF Cached
  <2> QED BY <1>6, <2>1, <2>2
<1>13. ASSUME NEW e \in recentPayloads' PROVE e.key \in AddedKeys'
  BY <1>4, <1>6, <1>10, <1>11
<1> QED BY <1>9, <1>12, <1>13

\* A step of a request that has put nothing into the cache leaves the keys alone.
LEMMA KeysStay ==
    ASSUME NEW r \in Requests, \A q \in Requests \ {r} : request'[q] = request[q],
           r \notin Cachers, r \notin Cachers' \/ request'[r].pc = "cacheId"
    PROVE  Cachers \subseteq Cachers' /\ AddedKeys' = AddedKeys
<1>1. \A q \in Requests : q # r => (q \in Cachers <=> q \in Cachers')
  BY DEF Cachers
<1>2. Cachers \subseteq Requests /\ Cachers' \subseteq Requests
  BY DEF Cachers
<1>3. /\ {q \in Cachers' : request'[q].pc \in {"cacheParent", "done"}}
          = {q \in Cachers : request[q].pc \in {"cacheParent", "done"}}
      /\ {q \in Cachers' : request'[q].pc = "done"} = {q \in Cachers : request[q].pc = "done"}
  BY <1>1, <1>2
<1>4. \A q \in Cachers : request'[q] = request[q]
  BY <1>2
<1>5. AddedKeys' = AddedKeys
  BY <1>3, <1>4 DEF AddedKeys, IdKey, ParentKey
<1> QED BY <1>1, <1>2, <1>5

\* The same keys and the same cache: nothing is evicted.
LEMMA QuietKeepsEviction ==
    ASSUME EvictionInv, recentPayloads' = recentPayloads,
           Cachers \subseteq Cachers', AddedKeys' = AddedKeys
    PROVE  EvictionInv'
<1> SUFFICES ASSUME 2 * Cardinality(Cachers') <= CacheSize
             PROVE  2 * Cardinality(Cachers) <= CacheSize
  BY DEF EvictionInv, Cached
<1>1. Cardinality(Cachers) \in Nat
  BY FewKeys DEF KeysBounded
<1>2. IsFiniteSet(Cachers') /\ Cardinality(Cachers') \in Nat
  <2>1. KeysBounded'
    BY FewKeys, PTL
  <2> QED BY <2>1 DEF KeysBounded
<1>3. Cardinality(Cachers) <= Cardinality(Cachers')
  BY <1>2, FS_Subset
<1> QED BY <1>1, <1>2, <1>3, EngineAssumption

\* A request that was not made yet, or has not built anything, is no cacher.
LEMMA NotYetCacher ==
    ASSUME EngineInv, NEW r \in Requests, request[r].pc \in {"new", "build"}
    PROVE  r \notin Cachers
<1>1. RequestInv(r)
  BY DEF EngineInv
<1>2. CASE request[r].pc = "new"
  BY <1>1, <1>2 DEF RequestInv, Cachers, NoRequest
<1>3. CASE request[r].pc = "build"
  BY <1>1, <1>3 DEF RequestInv, PreparingInv, Cachers
<1> QED BY <1>2, <1>3

\* Cache.Get evicts nothing.
LEMMA TouchKeepsEviction ==
    ASSUME EngineTypeOK, EvictionInv, NEW key, Cached(key), recentPayloads' = Touch(key),
           Cachers \subseteq Cachers', AddedKeys' = AddedKeys
    PROVE  EvictionInv'
<1> DEFINE v == Entry(key).val
<1>1. key \in CacheKey /\ v \in Block /\ recentPayloads' = Add(key, v)
  BY TouchFacts DEF Touch
<1> HIDE DEF v
<1> QED BY <1>1, AddKeepsEviction

\* An answered request evicts nothing.
LEMMA AnswerKeepsEviction ==
    ASSUME EngineInv, EvictionInv, NEW r \in Requests, New(r),
           NEW op, NEW i, NEW b, NEW st, Answer(r, op, i, b, st),
           op = "forkchoiceUpdated" => i = 0
    PROVE  Cachers \subseteq Cachers' /\ AddedKeys' = AddedKeys
<1>1. request \in [Requests -> Request]
  BY DEF EngineInv, EngineTypeOK
<1> DEFINE new == [NoRequest EXCEPT !.pc = "done", !.op = op, !.id = i, !.block = b,
                                     !.status = st]
<1>2. request'[r] = new /\ \A q \in Requests \ {r} : request'[q] = request[q]
  BY <1>1 DEF Answer
<1>3. new.op = op /\ new.id = i
  BY NoRequestType DEF Request
<1> HIDE DEF new
<1>4. r \notin Cachers'
  BY <1>2, <1>3 DEF Cachers
<1>5. r \notin Cachers
  BY NotYetCacher DEF New
<1> QED BY <1>2, <1>4, <1>5, KeysStay

\* The two steps that add a key add it to the keys, too.
LEMMA CacheKeepsEviction ==
    ASSUME EngineInv, EvictionInv, NEW r \in Requests, CacheById(r) \/ CacheByParent(r)
    PROVE  EvictionInv'
<1> DEFINE b == request[r].block
           i == request[r].id
           key == IF request[r].pc = "cacheId" THEN IdKey(i) ELSE ParentKey(ParentOf(b))
<1>1. EngineTypeOK /\ request \in [Requests -> Request] /\ request[r] \in Request
  BY DEF EngineInv, EngineTypeOK
<1>2. /\ PreparingInv(r)
      /\ b # NoHash
      /\ i # 0
      /\ request[r].op = "forkchoiceUpdated"
      /\ request[r].pc \in {"cacheId", "cacheParent"}
  BY DEF EngineInv, RequestInv, PreparingInv, CacheById, CacheByParent
<1>3. b \in Block /\ i \in Nat
  BY <1>1, <1>2 DEF Request, BlockOrNone
<1>4. ParentOf(b) \in Block
  <2>1. Len(b) - 1 \in 0..Len(b)
    <3> DEFINE seal == [slot |-> request[r].slot, src |-> "engine", by |-> request[r].id]
               h == request[r].fcHead
    <3>1. h \in Block /\ b = Append(h, seal)
      BY <1>2 DEF PreparingInv
    <3>2. seal \in Seal
      BY <1>1 DEF Request, Seal, Builders
    <3> HIDE DEF seal, h, b
    <3> QED BY <3>1, <3>2, ChildOfBlock, LenProperties DEF Block
  <2> QED BY <1>3, <2>1, PrefixOfBlock DEF ParentOf
<1>5. key \in CacheKey
  BY <1>3, <1>4 DEF IdKey, ParentKey, CacheKey, BlockOrNone
<1>6. recentPayloads' = Add(key, b)
  BY DEF CacheById, CacheByParent
<1>7. /\ request'[r].op = request[r].op
      /\ request'[r].id = i
      /\ request'[r].block = b
      /\ request'[r].pc = IF request[r].pc = "cacheId" THEN "cacheParent" ELSE "done"
      /\ \A q \in Requests : q # r => request'[q] = request[q]
  BY <1>1 DEF CacheById, CacheByParent, Request
<1>8. Cachers' = Cachers /\ r \in Cachers
  BY <1>2, <1>7 DEF Cachers
<1>9. AddedKeys' = AddedKeys \cup {key}
  <2> DEFINE S == {q \in Cachers : request[q].pc \in {"cacheParent", "done"}}
             T == {q \in Cachers : request[q].pc = "done"}
  <2>1. Cachers \subseteq Requests
    BY DEF Cachers
  <2>2. CASE request[r].pc = "cacheId"
    <3>1. S' = S \cup {r} /\ T' = T
      BY <1>7, <1>8, <2>1, <2>2
    <3>2. \A q \in Cachers : request'[q].id = request[q].id /\ request'[q].block = request[q].block
      BY <1>7, <2>1
    <3>3. {IdKey(request'[q].id) : q \in S \cup {r}}
             = {IdKey(request[q].id) : q \in S} \cup {IdKey(i)}
      <4>1. request'[r].id = i /\ \A q \in S : request'[q].id = request[q].id
        BY <1>7, <3>2
      <4> HIDE DEF S, i
      <4> QED BY <4>1 DEF IdKey
    <3>4. AddedKeys' = {IdKey(request'[q].id) : q \in S'}
                          \cup {ParentKey(ParentOf(request'[q].block)) : q \in T'}
      BY DEF AddedKeys, IdKey, ParentKey
    <3>5. AddedKeys = {IdKey(request[q].id) : q \in S}
                         \cup {ParentKey(ParentOf(request[q].block)) : q \in T}
      BY DEF AddedKeys
    <3>6. {ParentKey(ParentOf(request'[q].block)) : q \in T}
             = {ParentKey(ParentOf(request[q].block)) : q \in T}
      BY <3>2
    <3>7. key = IdKey(i)
      BY <2>2
    <3> HIDE DEF S, T, key
    <3> QED BY <3>1, <3>3, <3>4, <3>5, <3>6, <3>7
  <2>3. CASE request[r].pc = "cacheParent"
    <3>1. S' = S /\ T' = T \cup {r}
      BY <1>7, <1>8, <2>1, <2>3
    <3>2. \A q \in Cachers : request'[q].id = request[q].id /\ request'[q].block = request[q].block
      BY <1>7, <2>1
    <3> QED BY <2>1, <2>3, <3>1, <3>2 DEF AddedKeys, IdKey, ParentKey
  <2> QED BY <1>2, <2>2, <2>3
<1> HIDE DEF key, b
<1> QED BY <1>1, <1>3, <1>5, <1>6, <1>8, <1>9, AddKeepsEviction

\* Allocating an id and building, or failing to build, touch neither cache nor keys.
LEMMA BuildKeepsEviction ==
    ASSUME EngineInv, EvictionInv, NEW r \in Requests,
           \/ \E b \in Named, s \in Slots : AllocateId(r, b, s)
           \/ BuildPayload(r)
           \/ BuildPayloadFails(r)
    PROVE  EvictionInv'
<1>1. request \in [Requests -> Request] /\ request[r] \in Request
  BY DEF EngineInv, EngineTypeOK
<1>2. r \notin Cachers
  BY NotYetCacher DEF AllocateId, New, BuildPayload, BuildPayloadFails
<1>3. recentPayloads' = recentPayloads
  BY DEF AllocateId, BuildPayload, BuildPayloadFails
<1>4. \A q \in Requests \ {r} : request'[q] = request[q]
  BY <1>1 DEF AllocateId, BuildPayload, BuildPayloadFails
<1>5. r \notin Cachers' \/ request'[r].pc = "cacheId"
  <2>1. ASSUME NEW b \in Named, NEW s \in Slots, AllocateId(r, b, s)
        PROVE  r \notin Cachers'
    <3> DEFINE new == [NoRequest EXCEPT !.pc = "build", !.op = "forkchoiceUpdated",
                          !.fcHead = b, !.slot = s, !.id = payloadIdCounter + 1]
    <3>1. request'[r] = new
      BY <1>1, <2>1 DEF AllocateId
    <3>2. new.block = NoHash
      BY NoRequestType DEF Request, NoRequest
    <3> HIDE DEF new
    <3> QED BY <3>1, <3>2 DEF Cachers
  <2>2. CASE BuildPayload(r)
    BY <1>1, <2>2 DEF BuildPayload, Request
  <2>3. CASE BuildPayloadFails(r)
    <3>1. request[r].block = NoHash
      BY <2>3 DEF BuildPayloadFails, EngineInv, RequestInv, PreparingInv
    <3>2. request'[r].block = NoHash
      BY <1>1, <2>3, <3>1 DEF BuildPayloadFails, Request
    <3> QED BY <3>2 DEF Cachers
  <2> QED BY <2>1, <2>2, <2>3
<1>6. Cachers \subseteq Cachers' /\ AddedKeys' = AddedKeys
  BY <1>2, <1>4, <1>5, KeysStay
<1> QED BY <1>3, <1>6, QuietKeepsEviction

\* No request of the engine evicts anything while there is room for all keys.
LEMMA EngineNextKeepsEviction ==
    ASSUME EngineInv, EvictionInv, EngineNext
    PROVE  EvictionInv'
<1> SUFFICES ASSUME NEW r \in Requests, GetPayload(r) \/ NewPayload(r) \/ Forkchoice(r)
             PROVE  EvictionInv'
  BY DEF EngineNext
<1>1. EngineTypeOK
  BY DEF EngineInv
<1>2. ASSUME NEW i, GetPayloadV1(r, i) PROVE EvictionInv'
  <2>1. Cachers \subseteq Cachers' /\ AddedKeys' = AddedKeys
    BY <1>2, AnswerKeepsEviction DEF GetPayloadV1
  <2> QED BY <1>1, <1>2, <2>1, TouchKeepsEviction DEF GetPayloadV1
<1>3. ASSUME NEW i, GetPayloadUnknown(r, i) PROVE EvictionInv'
  <2>1. Cachers \subseteq Cachers' /\ AddedKeys' = AddedKeys
    BY <1>3, AnswerKeepsEviction DEF GetPayloadUnknown
  <2> QED BY <1>3, <2>1, QuietKeepsEviction DEF GetPayloadUnknown
<1>4. CASE NewPayload(r)
  <2>1. PICK b, st : New(r) /\ Answer(r, "newPayload", 0, b, st)
    BY <1>4 DEF NewPayload, NewPayloadBadHash, NewPayloadSyncing, NewPayloadNotTerminal,
                NewPayloadV1, NewPayloadFails
  <2>2. Cachers \subseteq Cachers' /\ AddedKeys' = AddedKeys
    BY <2>1, AnswerKeepsEviction
  <2>3. recentPayloads' = recentPayloads
    BY <1>4 DEF NewPayload, NewPayloadBadHash, NewPayloadSyncing, NewPayloadNotTerminal,
                NewPayloadV1, NewPayloadFails
  <2> QED BY <2>2, <2>3, QuietKeepsEviction
<1>5. ASSUME NEW b, ForkchoiceUpdated(r, b) PROVE EvictionInv'
  <2>1. Cachers \subseteq Cachers' /\ AddedKeys' = AddedKeys
    BY <1>5, AnswerKeepsEviction DEF ForkchoiceUpdated
  <2> QED BY <1>5, <2>1, QuietKeepsEviction DEF ForkchoiceUpdated
<1>6. CASE \/ \E b \in Named, s \in Slots : AllocateId(r, b, s)
           \/ BuildPayload(r)
           \/ BuildPayloadFails(r)
  BY <1>6, BuildKeepsEviction
<1>7. CASE CacheById(r) \/ CacheByParent(r)
  BY <1>7, CacheKeepsEviction
<1> QED BY <1>2, <1>3, <1>4, <1>5, <1>6, <1>7 DEF GetPayload, Forkchoice

\* At the start nothing was put into the cache.
LEMMA InitEviction == Init => EvictionInv
<1> SUFFICES ASSUME Init PROVE EvictionInv
  OBVIOUS
<1>1. Cachers = {}
  BY DEF Init, Cachers, NoRequest
<1> QED BY <1>1 DEF Init, EvictionInv, AddedKeys

\* Requests that do not move add no keys.
LEMMA KeysSame ==
    ASSUME request' = request
    PROVE  Cachers \subseteq Cachers' /\ AddedKeys' = AddedKeys
<1>1. Cachers' = Cachers
  BY DEF Cachers
<1> QED BY <1>1 DEF AddedKeys, IdKey, ParentKey

\* A payload whose id was given out was put into the cache, and nothing was evicted.
LEMMA IdsRedeemable ==
    ASSUME EngineInv, EvictionInv
    PROVE  NoEarlyEviction
<1> SUFFICES ASSUME 2 * Cardinality(Cachers) <= CacheSize,
                    NEW q \in Requests, NEW i \in 1..payloadIdCounter, PreparedBy(q, i)
             PROVE  Cached(IdKey(i))
  BY DEF NoEarlyEviction
<1>1. q \in Cachers /\ request[q].pc = "done" /\ request[q].id = i
  BY DEF PreparedBy, EngineInv, RequestInv, PreparingInv, Cachers
<1>2. IdKey(i) \in AddedKeys
  BY <1>1 DEF AddedKeys
<1> QED BY <1>2 DEF EvictionInv

\* A cache that has room for two keys of every request that prepared a payload still
\* holds every payload whose id was given out, whatever was asked for in between.
THEOREM NothingEvictedEarly == EngineSpec => []NoEarlyEviction
<1>1. Init => EvictionInv
  BY InitEviction
<1>2. EngineInv /\ EvictionInv /\ [EngineNext]_engineVars => EvictionInv'
  <2> SUFFICES ASSUME EngineInv, EvictionInv, UNCHANGED engineVars PROVE EvictionInv'
    BY EngineNextKeepsEviction
  <2> QED BY KeysSame, QuietKeepsEviction DEF engineVars
<1>3. EngineInv /\ EvictionInv => NoEarlyEviction
  BY IdsRedeemable
<1> QED BY <1>1, <1>2, <1>3, EngineInvariance, PTL DEF EngineSpec

-----------------------------------------------------------------------------
(* The terminal total difficulty *)

\* The check of newPayload is stricter than it must be: what the parent block adds to
\* the total difficulty is no more than the total.
LEMMA DifficultyBelowTotal ==
    ASSUME NEW b \in Block
    PROVE  /\ Difficulty(b) \in Nat
           /\ TotalDifficulty(b) \in Nat
           /\ Difficulty(b) <= TotalDifficulty(b)
<1> DEFINE P == {i \in 1..Len(b) : b[i].src = "pow"}
           n == Cardinality(P)
<1>1. Len(b) \in Nat /\ GenesisDifficulty \in Nat /\ PowDifficulty \in Nat
  BY LenProperties, EngineAssumption DEF Block
<1>2. IsFiniteSet(P) /\ n \in Nat
  <2>1. IsFiniteSet(1..Len(b)) /\ P \in SUBSET (1..Len(b))
    BY <1>1, FS_Interval
  <2> HIDE DEF P
  <2> QED BY <2>1, FS_Subset, FS_CardinalityType
<1>3. b # Genesis /\ b[Len(b)].src = "pow" => n >= 1
  <2> SUFFICES ASSUME b # Genesis, b[Len(b)].src = "pow" PROVE n >= 1
    OBVIOUS
  <2>1. Len(b) \in Nat \ {0}
    BY EmptySeq DEF Genesis, Block
  <2>2. Len(b) \in P
    BY <2>1
  <2> HIDE DEF P
  <2>3. n # 0
    BY <1>2, <2>2, FS_EmptySet
  <2> QED BY <1>2, <2>3
<1>4. TotalDifficulty(b) = GenesisDifficulty + PowDifficulty * n
  BY DEF TotalDifficulty
<1> HIDE DEF n, P
<1>5. PowDifficulty * n \in Nat /\ (n >= 1 => PowDifficulty * n >= PowDifficulty)
  BY <1>1, <1>2
<1> QED BY <1>1, <1>3, <1>4, <1>5 DEF Difficulty

\* A step of the engine executes no payload before the merge.
LEMMA EngineNextKeepsTTD ==
    ASSUME EngineInv, NoPayloadBeforeTTD, EngineNext
    PROVE  NoPayloadBeforeTTD'
<1>1. ASSUME NEW r \in Requests, NEW b \in Offered \cup Given, NewPayloadV1(r, b)
      PROVE  NoPayloadBeforeTTD'
  <2>1. known' = known \cup {b} /\ ParentOf(b) \in known /\ ParentAtTTD(b)
    BY <1>1 DEF NewPayloadV1, ParentKnown
  <2>2. ParentOf(b) \in Block
    BY <2>1 DEF EngineInv, EngineTypeOK
  <2>3. TotalDifficulty(ParentOf(b)) >= TerminalTotalDifficulty
    BY <2>1, <2>2, DifficultyBelowTotal, EngineAssumption DEF ParentAtTTD
  <2> QED BY <2>1, <2>3 DEF NoPayloadBeforeTTD
<1>2. CASE known' = known
  BY <1>2 DEF NoPayloadBeforeTTD
<1>3. \/ known' = known
      \/ \E r \in Requests, b \in Offered \cup Given : NewPayloadV1(r, b)
  BY DEF EngineNext, GetPayload, GetPayloadV1, GetPayloadUnknown, NewPayload, NewPayloadBadHash,
         NewPayloadSyncing, NewPayloadNotTerminal, NewPayloadFails, Forkchoice, ForkchoiceUpdated,
         AllocateId, BuildPayload, BuildPayloadFails, CacheById, CacheByParent
<1> QED BY <1>1, <1>2, <1>3

\* What the database holds at the start is the stored chain.
LEMMA InitBeforeTTD == Init => NoPayloadBeforeTTD
BY EngineAssumption, AncestryIsClosed DEF Init, NoPayloadBeforeTTD

-----------------------------------------------------------------------------
(* The block tree *)

\* Whatever clients send, and in whatever order, the engine's chain only grows by
\* children of blocks it knows: it implements the abstract block tree.
THEOREM EngineRefinement == EngineSpec => ImplementsChainTree
<1>1. Init => Tree!Init
  <2> SUFFICES ASSUME Init PROVE Tree!Init
    OBVIOUS
  <2>1. head \in Ancestry(head)
    BY AncestryIsClosed, EngineAssumption DEF Init
  <2> QED BY <2>1 DEF Init, Tree!Init, Ancestry, Tree!Ancestry
<1>2. EngineInv /\ [EngineNext]_engineVars => [Tree!Next]_(Tree!vars)
  <2> SUFFICES ASSUME EngineInv, [EngineNext]_engineVars
               PROVE  Tree!Next \/ UNCHANGED <<known, head>>
    BY DEF Tree!vars
  <2>1. ASSUME NEW r \in Requests, NEW b \in Offered \cup Given, NewPayloadV1(r, b)
        PROVE  Tree!Next
    <3>1. b \in Block /\ Len(b) > 0
      BY SentBlocks
    <3>2. /\ ParentOf(b) \in known
          /\ known' = known \cup {b}
          /\ head' = IF IsAncestor(b, head) THEN head ELSE b
      BY <2>1 DEF NewPayloadV1, ParentKnown, InsertChain
    <3>3. b \in Tree!Block /\ Tree!ParentOf(b) \in known
      BY <3>1, <3>2 DEF Block, Seal, Builders, ParentOf, Tree!Block, Tree!Seal, Tree!Builders,
                        Tree!ParentOf
    <3>4. Tree!IsAncestor(b, head) <=> IsAncestor(b, head)
      BY DEF IsAncestor, Tree!IsAncestor
    <3>5. Tree!Insert(b)
      BY <3>1, <3>2, <3>3, <3>4 DEF Tree!Insert
    <3> QED BY <3>2, <3>5 DEF Tree!Next
  <2>2. \/ UNCHANGED <<known, head>>
        \/ \E r \in Requests, b \in Offered \cup Given : NewPayloadV1(r, b)
    BY DEF engineVars, EngineNext, GetPayload, GetPayloadV1, GetPayloadUnknown, NewPayload,
           NewPayloadBadHash, NewPayloadSyncing, NewPayloadNotTerminal, NewPayloadFails,
           Forkchoice, ForkchoiceUpdated, AllocateId, BuildPayload, BuildPayloadFails, CacheById,
           CacheByParent
  <2> QED BY <2>1, <2>2
<1> QED BY <1>1, <1>2, EngineInvariance, PTL DEF EngineSpec, ImplementsChainTree, Tree!Spec

=============================================================================
