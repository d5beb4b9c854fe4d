---------------------------- MODULE EngineBackend ----------------------------
(***************************************************************************)
(* The engine mock (engine.go): the engine_ API over a mock chain of its   *)
(* own and a bounded cache of the payloads it prepared.  The RPC server    *)
(* runs every request in a goroutine of its own, so requests interleave    *)
(* wherever they touch what they share: the chain, the atomic id counter   *)
(* and the cache, each of which is safe for concurrent use by itself.      *)
(***************************************************************************)
EXTENDS MockChain, FiniteSets

CONSTANTS
    StoredChain,        \* the canonical chain in the engine's database
    Offered,            \* payloads a client may send besides those it was given
    Slots,              \* slots a client may ask a payload for
    CacheSize,          \* capacity of recentPayloads
    GenesisDifficulty, PowDifficulty,
    TerminalTotalDifficulty,
    Requests            \* bound: the requests a client makes, one each

\* No client guesses a payload of the engine: it commits to a random value that
\* is drawn afresh.
ASSUME EngineAssumption ==
    /\ StoredChain \in Block
    /\ Offered \subseteq Block \ {Genesis}
    /\ \A b \in Offered : b[Len(b)].src # "engine"
    /\ Slots \subseteq Int
    /\ CacheSize \in Nat \ {0}
    /\ {GenesisDifficulty, PowDifficulty, TerminalTotalDifficulty} \subseteq Nat
    /\ IsFiniteSet(Requests)

VARIABLES
    known,              \* blocks in the database
    head,               \* CurrentHeader()
    payloadIdCounter,
    recentPayloads,     \* the LRU cache: a set of entries
    request             \* what every request is doing, or was answered

engineVars == <<known, head, payloadIdCounter, recentPayloads, request>>

-----------------------------------------------------------------------------
(* The LRU cache of hashicorp/golang-lru.  Both kinds of key live in it: a  *)
(* payload id and a parent hash.  The ages of its entries are 1, 2, ...,    *)
(* the most recently used entry first.                                      *)

IdKey(i) == [kind |-> "id", id |-> i, parent |-> NoHash]
ParentKey(b) == [kind |-> "parent", id |-> 0, parent |-> b]

Cached(key) == \E e \in recentPayloads : e.key = key
Entry(key) == CHOOSE e \in recentPayloads : e.key = key

\* Everything that was used after the entry of key grows one older; an absent
\* key counts as the oldest of all.
Older(key) ==
    {IF Cached(key) /\ e.age > Entry(key).age THEN e ELSE [e EXCEPT !.age = e.age + 1]
        : e \in {x \in recentPayloads : x.key # key}}

\* A mutant: the capacity is missed by one.
AddOffByOne(key, payload) ==
    {e \in Older(key) : e.age < CacheSize}
        \cup {[key |-> key, val |-> payload, age |-> 1]}

\* A mutant: an entry is added in front of an old one with its key.
AddTwice(key, payload) ==
    {[e EXCEPT !.age = e.age + 1] : e \in {x \in recentPayloads : x.age < CacheSize}}
        \cup {[key |-> key, val |-> payload, age |-> 1]}

\* Cache.Add: insert or replace, most recent; drop the oldest beyond the capacity.
Add(key, payload) ==
    {e \in Older(key) : e.age <= CacheSize}
        \cup {[key |-> key, val |-> payload, age |-> 1]}

\* Cache.Get of a key that is there: the entry becomes the most recent one.
Touch(key) == Add(key, Entry(key).val)

-----------------------------------------------------------------------------
(* Requests *)

\* pc: new, where the handler is, or done.  fcHead and slot: the arguments of
\* engine_forkchoiceUpdatedV1.  id: the payload id it allocated, or the one
\* engine_getPayloadV1 asks for.  block: the payload built, sent or returned.
NoRequest == [pc |-> "new", op |-> "none", fcHead |-> NoHash, slot |-> 0,
              id |-> 0, block |-> NoHash, status |-> "none"]

New(r) == request[r].pc = "new"

Answer(r, op, id, block, status) ==
    request' = [request EXCEPT ![r] = [NoRequest EXCEPT
                   !.pc = "done", !.op = op, !.id = id, !.block = block,
                   !.status = status]]

Init ==
    /\ known = Ancestry(StoredChain)
    /\ head = StoredChain
    /\ payloadIdCounter = 0
    /\ recentPayloads = {}
    /\ request = [r \in Requests |-> NoRequest]

\* header.Difficulty, and what go-ethereum sums up as the total difficulty.
Difficulty(b) ==
    IF b = Genesis THEN GenesisDifficulty
    ELSE IF b[Len(b)].src = "pow" THEN PowDifficulty ELSE 0

TotalDifficulty(b) ==
    GenesisDifficulty + PowDifficulty * Cardinality({i \in 1..Len(b) : b[i].src = "pow"})

\* The blocks a client can name: the engine's, and those of the outside world.
Named == known \cup Offered

\* The payloads a client can send: what it was given, and what it built.
Given == {request[r].block : r \in {q \in Requests :
             request[q].op = "getPayload" /\ request[q].status = "ok"}}

-----------------------------------------------------------------------------
(* engine_getPayloadV1 *)

GetPayloadV1(r, i) ==
    /\ New(r)
    /\ Cached(IdKey(i))
    /\ Answer(r, "getPayload", i, Entry(IdKey(i)).val, "ok")
    /\ recentPayloads' = Touch(IdKey(i))
    /\ UNCHANGED <<known, head, payloadIdCounter>>

GetPayloadUnknown(r, i) ==
    /\ New(r)
    /\ ~Cached(IdKey(i))
    /\ Answer(r, "getPayload", i, NoHash, "UnavailablePayload")
    /\ UNCHANGED <<known, head, payloadIdCounter, recentPayloads>>

-----------------------------------------------------------------------------
(* engine_newPayloadV1.  The database only grows, so its checks and the     *)
(* insertion of ProcessPayload may be taken to happen at once.              *)

NewPayloadBadHash(r, b) ==
    /\ New(r)
    /\ Answer(r, "newPayload", 0, b, "INVALID_BLOCK_HASH")
    /\ UNCHANGED <<known, head, payloadIdCounter, recentPayloads>>

\* A mutant: a payload with an unknown parent is executed.
ParentAssumed(b) == TRUE

ParentKnown(b) == ParentOf(b) \in known

NewPayloadSyncing(r, b) ==
    /\ New(r)
    /\ ~ParentKnown(b)
    /\ Answer(r, "newPayload", 0, b, "SYNCING")
    /\ UNCHANGED <<known, head, payloadIdCounter, recentPayloads>>

\* A mutant: no terminal check.
AnyParent(b) == TRUE

\* The terminal check looks at the difficulty of the parent block alone.
ParentAtTTD(b) == Difficulty(ParentOf(b)) >= TerminalTotalDifficulty

NewPayloadNotTerminal(r, b) ==
    /\ New(r)
    /\ ParentKnown(b)
    /\ ~ParentAtTTD(b)
    /\ Answer(r, "newPayload", 0, b, "INVALID_TERMINAL_BLOCK")
    /\ UNCHANGED <<known, head, payloadIdCounter, recentPayloads>>

NewPayloadV1(r, b) ==
    /\ New(r)
    /\ ParentKnown(b)
    /\ ParentAtTTD(b)
    /\ known' = known \cup {b}
    /\ head' = InsertChain(head, b)
    /\ Answer(r, "newPayload", 0, b, "VALID")
    /\ UNCHANGED <<payloadIdCounter, recentPayloads>>

\* ProcessPayload fails: a payload that does not execute to what it claims.
NewPayloadFails(r, b) ==
    /\ New(r)
    /\ ParentKnown(b)
    /\ ParentAtTTD(b)
    /\ Answer(r, "newPayload", 0, b, "error")
    /\ UNCHANGED <<known, head, payloadIdCounter, recentPayloads>>

-----------------------------------------------------------------------------
(* engine_forkchoiceUpdatedV1 *)

\* Without attributes the answer is VALID, whatever the head is.
ForkchoiceUpdated(r, b) ==
    /\ New(r)
    /\ Answer(r, "forkchoiceUpdated", 0, b, "VALID")
    /\ UNCHANGED <<known, head, payloadIdCounter, recentPayloads>>

\* A mutant: the increment is lost, as a plain counter would in a race.
AllocateIdLost(r, b, s) ==
    /\ New(r)
    /\ request' = [request EXCEPT ![r] = [NoRequest EXCEPT
                      !.pc = "build", !.op = "forkchoiceUpdated", !.fcHead = b,
                      !.slot = s, !.id = payloadIdCounter + 1]]
    /\ UNCHANGED <<known, head, payloadIdCounter, recentPayloads>>

\* With attributes: first an id, by atomic.AddUint64.
AllocateId(r, b, s) ==
    /\ New(r)
    /\ payloadIdCounter' = payloadIdCounter + 1
    /\ request' = [request EXCEPT ![r] = [NoRequest EXCEPT
                      !.pc = "build", !.op = "forkchoiceUpdated", !.fcHead = b,
                      !.slot = s, !.id = payloadIdCounter + 1]]
    /\ UNCHANGED <<known, head, recentPayloads>>

\* A mutant: a payload is built on a head the engine does not have.
BuildAnywhere(r) ==
    /\ request[r].pc = "build"
    /\ request' = [request EXCEPT
           ![r].pc = "cacheId",
           ![r].block = AddNewBlock(request[r].fcHead,
                            [slot |-> request[r].slot, src |-> "engine", by |-> request[r].id])]
    /\ UNCHANGED <<known, head, payloadIdCounter, recentPayloads>>

\* AddNewBlock without storing the block; randomness makes every payload unique.
BuildPayload(r) ==
    /\ request[r].pc = "build"
    /\ request[r].fcHead \in known
    /\ request' = [request EXCEPT
           ![r].pc = "cacheId",
           ![r].block = AddNewBlock(request[r].fcHead,
                            [slot |-> request[r].slot, src |-> "engine", by |-> request[r].id])]
    /\ UNCHANGED <<known, head, payloadIdCounter, recentPayloads>>

\* The head is unknown.  A payload without transactions has no other reason to
\* fail in AddNewBlock or BlockToPayload while the database is intact.
BuildPayloadFails(r) ==
    /\ request[r].pc = "build"
    /\ request[r].fcHead \notin known
    /\ request' = [request EXCEPT ![r].pc = "done", ![r].status = "error"]
    /\ UNCHANGED <<known, head, payloadIdCounter, recentPayloads>>

CacheById(r) ==
    /\ request[r].pc = "cacheId"
    /\ recentPayloads' = Add(IdKey(request[r].id), request[r].block)
    /\ request' = [request EXCEPT ![r].pc = "cacheParent"]
    /\ UNCHANGED <<known, head, payloadIdCounter>>

\* ... and the answer, with the id.
CacheByParent(r) ==
    /\ request[r].pc = "cacheParent"
    /\ recentPayloads' = Add(ParentKey(ParentOf(request[r].block)), request[r].block)
    /\ request' = [request EXCEPT ![r].pc = "done", ![r].status = "VALID"]
    /\ UNCHANGED <<known, head, payloadIdCounter>>

-----------------------------------------------------------------------------

GetPayload(r) ==
    \E i \in 1..Cardinality(Requests) : GetPayloadV1(r, i) \/ GetPayloadUnknown(r, i)

NewPayload(r) ==
    \E b \in Offered \cup Given :
        \/ NewPayloadBadHash(r, b)
        \/ NewPayloadSyncing(r, b)
        \/ NewPayloadNotTerminal(r, b)
        \/ NewPayloadV1(r, b)
        \/ NewPayloadFails(r, b)

Forkchoice(r) ==
    \/ \E b \in Named : \/ ForkchoiceUpdated(r, b)
                        \/ \E s \in Slots : AllocateId(r, b, s)
    \/ BuildPayload(r)
    \/ BuildPayloadFails(r)
    \/ CacheById(r)
    \/ CacheByParent(r)

EngineNext ==
    \E r \in Requests : GetPayload(r) \/ NewPayload(r) \/ Forkchoice(r)

EngineSpec == Init /\ [][EngineNext]_engineVars

-----------------------------------------------------------------------------
(* Properties *)

RequestPoints == {"new", "build", "cacheId", "cacheParent", "done"}

Statuses == {"none", "ok", "UnavailablePayload", "INVALID_BLOCK_HASH", "SYNCING",
             "INVALID_TERMINAL_BLOCK", "VALID", "error"}

BlockOrNone == Block \cup {NoHash}

Request == [pc : RequestPoints, op : {"none", "getPayload", "newPayload", "forkchoiceUpdated"},
            fcHead : BlockOrNone, slot : Int, id : Nat, block : BlockOrNone, status : Statuses]

CacheKey == [kind : {"id", "parent"}, id : Nat, parent : BlockOrNone]

CacheEntry == [key : CacheKey, val : Block, age : 1..CacheSize]

\* Every variable has its type; in the cache a key occurs once and the ages rank
\* the entries from 1 to at most the capacity.
EngineTypeOK ==
    /\ known \subseteq Block
    /\ head \in known
    /\ payloadIdCounter \in Nat
    /\ recentPayloads \subseteq CacheEntry
    /\ \A e, f \in recentPayloads : (e.key = f.key \/ e.age = f.age) => e = f
    /\ request \in [Requests -> Request]

\* The request that prepared a payload and was told its id.
PreparedBy(q, i) ==
    /\ request[q].op = "forkchoiceUpdated"
    /\ request[q].pc = "done"
    /\ request[q].status = "VALID"
    /\ request[q].id = i
    /\ i # 0

\* A payload id names one payload for good: whatever is prepared concurrently,
\* engine_getPayloadV1 returns what the request that was given the id asked for,
\* on its head and for its slot.
IdNamesOnePayload ==
    \A r, q \in Requests :
        /\ request[r].op = "getPayload"
        /\ request[r].status = "ok"
        /\ PreparedBy(q, request[r].id)
        => /\ ParentOf(request[r].block) = request[q].fcHead
           /\ request[r].block[Len(request[r].block)].slot = request[q].slot

\* The engine is never out of sync with itself: a payload it handed out and gets
\* back is not answered SYNCING.
OwnPayloadNeverSyncing ==
    \A r, q \in Requests :
        /\ request[r].op = "newPayload"
        /\ request[r].status = "SYNCING"
        /\ request[q].op = "getPayload"
        /\ request[q].status = "ok"
        => request[r].block # request[q].block

\* Requests that have put something into the cache.
Cachers == {r \in Requests : request[r].op = "forkchoiceUpdated" /\ request[r].id # 0
                                /\ request[r].block # NoHash}

\* A payload takes two of the cache's places, so half the capacity in requests
\* is safe: until more were made, every id that was given out can be redeemed.
NoEarlyEviction ==
    2 * Cardinality(Cachers) <= CacheSize =>
        \A q \in Requests : \A i \in 1..payloadIdCounter :
            PreparedBy(q, i) => Cached(IdKey(i))

\* No payload is executed before the merge: the parent of every block added to
\* the chain has reached the terminal total difficulty.
NoPayloadBeforeTTD ==
    \A b \in known : IsAncestor(b, StoredChain)
                        \/ TotalDifficulty(ParentOf(b)) >= TerminalTotalDifficulty

-----------------------------------------------------------------------------
(* The inductive invariant behind these properties. *)

\* A payload of the engine: its own child of a block it knows.
Built(b) ==
    /\ b \in Block
    /\ Len(b) > 0
    /\ ParentOf(b) \in known
    /\ b[Len(b)].src = "engine"

\* The request that was given the id i prepared b.
Prepares(q, i, b) ==
    /\ request[q].op = "forkchoiceUpdated"
    /\ request[q].id = i
    /\ request[q].block = b

\* Whatever is cached was built, and is where the request that built it put it.
EntryInv(e) ==
    /\ Built(e.val)
    /\ e.key.kind = "parent" => e.key = ParentKey(ParentOf(e.val))
    /\ e.key.kind = "id" => e.key.id # 0 /\ \E q \in Requests : Prepares(q, e.key.id, e.val)

\* A request with an id: it prepares a payload on the head it was told.
PreparingInv(r) ==
    /\ request[r].id <= payloadIdCounter
    /\ request[r].pc = "build" => request[r].block = NoHash
    /\ request[r].pc \in {"cacheId", "cacheParent"} \/ request[r].status = "VALID"
          => request[r].block # NoHash
    /\ request[r].fcHead \in Block
    /\ request[r].block # NoHash =>
          /\ request[r].fcHead \in known
          /\ request[r].block = Append(request[r].fcHead,
                 [slot |-> request[r].slot, src |-> "engine", by |-> request[r].id])

\* Where a request is fits what it does, what it was given was built, and what it
\* sent too early is not one of the engine's own payloads.
RequestInv(r) ==
    /\ request[r].pc = "new" => request[r] = NoRequest
    /\ request[r].pc \in {"build", "cacheId", "cacheParent"}
          => request[r].op = "forkchoiceUpdated" /\ request[r].id # 0
    /\ request[r].op = "forkchoiceUpdated" /\ request[r].id # 0 => PreparingInv(r)
    /\ request[r].op = "getPayload" /\ request[r].status = "ok" =>
          /\ Built(request[r].block)
          /\ request[r].id # 0
          /\ \E q \in Requests : Prepares(q, request[r].id, request[r].block)
    /\ request[r].op = "newPayload" /\ request[r].status = "SYNCING"
          => request[r].block \in Offered

\* An id was given to one request only.
IdsUnique ==
    \A r, q \in Requests :
        /\ request[r].op = "forkchoiceUpdated"
        /\ request[q].op = "forkchoiceUpdated"
        /\ request[r].id = request[q].id
        /\ request[r].id # 0
        => r = q

EngineInv ==
    /\ EngineTypeOK
    /\ \A e \in recentPayloads : EntryInv(e)
    /\ \A r \in Requests : RequestInv(r)
    /\ IdsUnique

\* The keys that requests have put into the cache.
AddedKeys ==
    {IdKey(request[r].id) : r \in {q \in Cachers : request[q].pc \in {"cacheParent", "done"}}}
        \cup {ParentKey(ParentOf(request[r].block)) : r \in {q \in Cachers : request[q].pc = "done"}}

\* Until the capacity is reached all of them are there, and an entry is no older than
\* there are keys.
EvictionInv ==
    2 * Cardinality(Cachers) <= CacheSize =>
        /\ \A k \in AddedKeys : Cached(k)
        /\ \A e \in recentPayloads : e.key \in AddedKeys /\ e.age <= Cardinality(AddedKeys)

-----------------------------------------------------------------------------

\* Payloads that arrive before their parents, twice or on a fork leave the
\* engine's chain an abstract tree: NewPayloadV1 only adds children of known blocks.
Tree == INSTANCE ChainTree
ImplementsChainTree == Tree!Spec

\* "payload is built on parent block that does not meet ttd" (types/engine.go):
\* only then is a payload answered INVALID_TERMINAL_BLOCK.
TerminalMeansTTD ==
    \A r \in Requests : request[r].status = "INVALID_TERMINAL_BLOCK" =>
        TotalDifficulty(ParentOf(request[r].block)) < TerminalTotalDifficulty

=============================================================================
