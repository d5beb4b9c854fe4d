-------------------------- MODULE RelayBackend_proofs --------------------------
(***************************************************************************)
(* For every value of the constants, and with the data races of the code   *)
(* as nondeterminism: to whom the relay reveals a payload and which one,   *)
(* what becomes of registrations, and that the engine in the same process  *)
(* keeps what was proved of it alone.                                      *)
(***************************************************************************)
EXTENDS RelayBackend, EngineBackend_proofs

-----------------------------------------------------------------------------
(* The shape of every step *)

\* A request that was not made yet is a call, and works on the first registration of
\* an empty batch.
LEMMA NoCallType ==
    /\ NoCall \in Call
    /\ Len(NoCall.batch) = 0
    /\ NoCall.at = 1
    /\ NoCall.payload = NoHash
    /\ NoCall.op = "none"
<1>1. Len(<<>>) = 0
  BY EmptySeq
<1> QED BY <1>1 DEF NoCall, Call, CallPoints, BlockOrNone, HttpStatuses

\* A batch is a sequence of registrations.
LEMMA BatchType ==
    ASSUME RelayTypeOK, NEW c \in Calls
    PROVE  /\ call[c] \in Call
           /\ call[c].batch \in Seq(Registration)
           /\ Len(call[c].batch) \in Nat
           /\ \A i \in 1..Len(call[c].batch) : call[c].batch[i] \in Registration
           /\ call[c].at \in Nat
           /\ call[c].at >= 1
           /\ call[c].at <= Len(call[c].batch) + 1
<1>1. call[c] \in Call /\ call[c].at \in 1..(Len(call[c].batch) + 1)
  BY DEF RelayTypeOK
<1>2. call[c].batch \in Batches \cup {<<>>} /\ call[c].at \in Nat
  BY <1>1 DEF Call
<1>3. call[c].batch \in Seq(Registration)
  BY <1>2, EmptySeq, RelayAssumption
<1>4. /\ Len(call[c].batch) \in Nat
      /\ \A i \in 1..Len(call[c].batch) : call[c].batch[i] \in Registration
  BY <1>3, LenProperties, ElementOfSeq
<1> QED BY <1>1, <1>2, <1>3, <1>4

\* A bidder stays one: the requests that move are those that are not done, and the
\* answer to a bid changes neither its key nor its header.
LEMMA BiddersStay ==
    ASSUME RelayInv, NEW c \in Calls, call[c].pc # "done", NEW new,
           call' = [call EXCEPT ![c] = new],
           call[c].pc = "answer" =>
               /\ new.pc = "done"
               /\ new.op = call[c].op
               /\ new.key = call[c].key
               /\ new.header = call[c].header,
           NEW v, Bidder(v)
    PROVE  Bidder(v)'
<1>1. call \in [Calls -> Call]
  BY DEF RelayInv, RelayTypeOK
<1>2. PICK d \in Calls : /\ call[d].op = "getHeader"
                         /\ call[d].key = v
                         /\ call[d].header # NoHash
                         /\ call[d].pc \in {"answer", "done"}
  BY DEF Bidder
<1>3. CASE d # c
  <2>1. call'[d] = call[d]
    BY <1>1, <1>3
  <2> QED BY <1>2, <2>1 DEF Bidder
<1>4. CASE d = c
  <2>1. call'[c] = new /\ call[c].pc = "answer"
    BY <1>1, <1>2, <1>4
  <2>2. /\ call'[c].op = "getHeader"
        /\ call'[c].key = v
        /\ call'[c].header # NoHash
        /\ call'[c].pc = "done"
    BY <1>2, <1>4, <2>1
  <2> QED BY <2>2 DEF Bidder
<1> QED BY <1>3, <1>4

\* A request keeps its part of the invariant in a step of another one.
LEMMA OtherCallKeeps ==
    ASSUME NEW d \in Calls, CallInv(d), call'[d] = call[d], known \subseteq known',
           \A v : Bidder(v) => Bidder(v)'
    PROVE  CallInv(d)'
BY DEF CallInv, Current

\* A step of the request c that registers nobody keeps the invariant if it leaves the
\* engine's alone, checks signatures against a bidder's key only, and keeps c's part.
LEMMA QuietCallKeeps ==
    ASSUME RelayInv, EngineInv', known \subseteq known',
           NEW c \in Calls, call[c].pc # "done",
           NEW new \in Call, call' = [call EXCEPT ![c] = new],
           call[c].pc = "answer" =>
               /\ new.pc = "done"
               /\ new.op = call[c].op
               /\ new.key = call[c].key
               /\ new.header = call[c].header,
           relay' = relay, registrations' = registrations,
           NEW k \in Validators \cup {NoKey}, latestPubkey' = k,
           k \in {latestPubkey, NoKey} \/ Bidder(k)',
           \/ new.batch = call[c].batch /\ new.at = call[c].at
           \/ call[c].pc = "new" /\ new.at = 1,
           CallInv(c)'
    PROVE  RelayInv'
<1>1. RelayTypeOK /\ call \in [Calls -> Call]
  BY DEF RelayInv, RelayTypeOK
<1>2. /\ call' \in [Calls -> Call]
      /\ call'[c] = new
      /\ \A d \in Calls : d # c => call'[d] = call[d]
  BY <1>1
<1>3. \A v : Bidder(v) => Bidder(v)'
  BY BiddersStay
<1>4. new.batch \in Seq(Registration) /\ Len(new.batch) \in Nat
  <2>1. new.batch \in Seq(Registration)
    <3>1. new.batch \in Batches \cup {<<>>}
      BY DEF Call
    <3> QED BY <3>1, EmptySeq, RelayAssumption
  <2> QED BY <2>1, LenProperties
<1>5. new.at \in 1..(Len(new.batch) + 1)
  <2>1. CASE new.batch = call[c].batch /\ new.at = call[c].at
    BY <1>1, <2>1 DEF RelayTypeOK
  <2>2. CASE new.at = 1
    BY <1>4, <2>2
  <2> QED BY <2>1, <2>2
<1>6. RelayTypeOK'
  BY <1>1, <1>2, <1>5 DEF RelayTypeOK
<1>7. \A d \in Calls : CallInv(d)'
  <2> SUFFICES ASSUME NEW d \in Calls PROVE CallInv(d)'
    OBVIOUS
  <2>1. CASE d = c BY <2>1
  <2>2. CASE d # c
    <3>1. CallInv(d) /\ call'[d] = call[d]
      BY <1>2, <2>2 DEF RelayInv
    <3> QED BY <1>3, <3>1, OtherCallKeeps
  <2> QED BY <2>1, <2>2
<1>8. LatestIsBidder'
  <2>1. LatestIsBidder
    BY DEF RelayInv
  <2>2. k # NoKey => Bidder(k)'
    BY <1>3, <2>1 DEF LatestIsBidder
  <2> QED BY <2>2 DEF LatestIsBidder, Bidder
<1>9. RegistrationsKept'
  <2> SUFFICES ASSUME NEW d \in Calls, NEW i \in 1..(call'[d].at - 1)
               PROVE  registrations[call'[d].batch[i].pubkey] # -1
    BY DEF RegistrationsKept
  <2>1. RegistrationsKept
    BY DEF RelayInv
  <2>2. CASE d # c
    BY <1>2, <2>1, <2>2 DEF RegistrationsKept
  <2>3. CASE d = c
    <3>1. CASE new.batch = call[c].batch /\ new.at = call[c].at
      BY <1>2, <2>1, <2>3, <3>1 DEF RegistrationsKept
    <3>2. CASE new.at = 1
      BY <1>2, <2>3, <3>2
    <3> QED BY <3>1, <3>2
  <2> QED BY <2>2, <2>3
<1>10. RegistrationsSigned'
  <2> SUFFICES ASSUME NEW v \in Validators, registrations[v] # -1
               PROVE  \E d \in Calls : \E i \in 1..Len(call'[d].batch) : call'[d].batch[i]
                         = [pubkey |-> v, timestamp |-> registrations[v], signed |-> TRUE]
    BY DEF RegistrationsSigned
  <2>1. PICK d \in Calls : \E i \in 1..Len(call[d].batch) : call[d].batch[i]
            = [pubkey |-> v, timestamp |-> registrations[v], signed |-> TRUE]
    BY DEF RelayInv, RegistrationsSigned
  <2>2. call'[d].batch = call[d].batch
    <3>1. CASE d # c
      BY <1>2, <3>1
    <3>2. CASE d = c
      <4>1. CASE call[c].pc = "new"
        <5>1. call[c] = NoCall
          BY <4>1 DEF RelayInv, CallInv
        <5>2. 1..Len(call[d].batch) = {}
          BY <3>2, <5>1, NoCallType
        <5> QED BY <2>1, <5>2
      <4>2. CASE new.batch = call[c].batch
        BY <1>2, <3>2, <4>2
      <4> QED BY <4>1, <4>2
    <3> QED BY <3>1, <3>2
  <2> QED BY <2>1, <2>2
<1> QED BY <1>6, <1>7, <1>8, <1>9, <1>10 DEF RelayInv

\* Cache.Get by the relay keeps the engine's invariant.
LEMMA RelayTouchKeeps ==
    ASSUME EngineInv, NEW key, Cached(key), recentPayloads' = Touch(key),
           UNCHANGED <<known, head, payloadIdCounter, request>>
    PROVE  EngineInv'
<1>1. EngineTypeOK
  BY DEF EngineInv
<1>2. /\ recentPayloads' \subseteq CacheEntry
      /\ \A e, f \in recentPayloads' : (e.key = f.key \/ e.age = f.age) => e = f
      /\ \A e \in recentPayloads' : \E x \in recentPayloads : e.key = x.key /\ e.val = x.val
  BY <1>1, TouchFacts
<1>3. EngineTypeOK'
  BY <1>1, <1>2 DEF EngineTypeOK
<1>4. ASSUME NEW e \in recentPayloads' PROVE EntryInv(e)'
  <2>1. PICK x \in recentPayloads : e.key = x.key /\ e.val = x.val
    BY <1>2
  <2>2. EntryInv(x)
    BY DEF EngineInv
  <2> QED BY <2>1, <2>2 DEF EntryInv, Built, Prepares
<1>5. ASSUME NEW r \in Requests PROVE RequestInv(r)'
  BY DEF EngineInv, RequestInv, PreparingInv, Built, Prepares
<1>6. IdsUnique'
  BY DEF EngineInv, IdsUnique
<1> QED BY <1>3, <1>4, <1>5, <1>6 DEF EngineInv

\* The answers the relay gives.
LEMMA HttpAnswers ==
    200 \in HttpStatuses /\ 400 \in HttpStatuses /\ WriteResults \subseteq HttpStatuses
BY DEF HttpStatuses, WriteResults

\* An answer ends the request and changes nothing else of it.
LEMMA ReplyFacts ==
    ASSUME RelayTypeOK, NEW c \in Calls, NEW st \in HttpStatuses, Reply(c, st)
    PROVE  \E new \in Call : /\ call' = [call EXCEPT ![c] = new]
                             /\ call'[c] = new
                             /\ new.pc = "done"
                             /\ new.op = call[c].op
                             /\ new.key = call[c].key
                             /\ new.header = call[c].header
                             /\ new.payload = call[c].payload
                             /\ new.at = call[c].at
                             /\ new.batch = call[c].batch
<1>1. call \in [Calls -> Call] /\ call[c] \in Call
  BY DEF RelayTypeOK
<1> DEFINE new == [call[c] EXCEPT !.pc = "done", !.status = st]
<1>2. /\ new \in Call
      /\ new.pc = "done"
      /\ new.op = call[c].op
      /\ new.key = call[c].key
      /\ new.header = call[c].header
      /\ new.payload = call[c].payload
      /\ new.at = call[c].at
      /\ new.batch = call[c].batch
  BY <1>1 DEF Call, CallPoints
<1>3. call' = [call EXCEPT ![c] = new]
  BY <1>1 DEF Reply
<1> HIDE DEF new
<1> QED BY <1>1, <1>2, <1>3

-----------------------------------------------------------------------------
(* handleRegisterValidator *)

\* A step of a registration request that registers nobody and leaves the process up.
LEMMA RegisterKeeps ==
    ASSUME RelayInv, NEW c \in Calls, UNCHANGED engineVars,
           \/ \E batch \in Batches : Register(c, batch)
           \/ CheckRegistration(c)
           \/ RejectRegistration(c)
           \/ FinishRegistration(c)
           \/ BadRequest(c)
    PROVE  RelayInv'
<1>1. RelayTypeOK /\ call \in [Calls -> Call] /\ call[c] \in Call /\ CallInv(c)
  BY DEF RelayInv, RelayTypeOK
<1>2. EngineInv' /\ known' = known
  BY EngineStutterKeeps DEF RelayInv, engineVars
<1>3. /\ relay' = relay /\ registrations' = registrations /\ latestPubkey' = latestPubkey
      /\ latestPubkey \in Validators \cup {NoKey}
      /\ call[c].pc # "done" /\ call[c].pc # "answer" /\ call[c].payload = NoHash
  BY <1>1 DEF RelayTypeOK, CallInv, Register, CheckRegistration, RejectRegistration, FinishRegistration,
              BadRequest
<1>4. ASSUME NEW batch \in Batches, Register(c, batch) PROVE RelayInv'
  <2> DEFINE new == [NoCall EXCEPT !.pc = "check", !.op = "register", !.batch = batch]
  <2>1. /\ new \in Call
        /\ new.pc = "check"
        /\ new.op = "register"
        /\ new.at = 1
        /\ new.payload = NoHash
    BY NoCallType DEF Call, CallPoints
  <2>2. call' = [call EXCEPT ![c] = new] /\ call[c].pc = "new"
    BY <1>4 DEF Register
  <2> HIDE DEF new
  <2>3. call'[c] = new
    BY <1>1, <2>2
  <2>4. CallInv(c)'
    BY <2>1, <2>3 DEF CallInv
  <2> QED BY <1>2, <1>3, <2>1, <2>2, <2>4, QuietCallKeeps
<1>5. CASE CheckRegistration(c)
  <2> DEFINE new == [call[c] EXCEPT !.pc = "store"]
  <2>1. /\ new \in Call
        /\ new.pc = "store"
        /\ new.op = call[c].op
        /\ new.at = call[c].at
        /\ new.batch = call[c].batch
        /\ new.payload = call[c].payload
    BY <1>1 DEF Call, CallPoints
  <2>2. call' = [call EXCEPT ![c] = new]
    BY <1>1, <1>5 DEF CheckRegistration
  <2> HIDE DEF new
  <2>3. call'[c] = new
    BY <1>1, <2>2
  <2>4. CallInv(c)'
    BY <1>1, <1>3, <1>5, <2>1, <2>3 DEF CallInv, CheckRegistration, RegistrationOk, Current
  <2> QED BY <1>2, <1>3, <2>1, <2>2, <2>4, QuietCallKeeps
<1>6. CASE RejectRegistration(c) \/ FinishRegistration(c) \/ BadRequest(c)
  <2>2. Reply(c, 200) \/ Reply(c, 400)
    BY <1>6 DEF RejectRegistration, FinishRegistration, BadRequest
  <2>3. PICK new \in Call : /\ call' = [call EXCEPT ![c] = new]
                            /\ call'[c] = new
                            /\ new.pc = "done"
                            /\ new.payload = call[c].payload
                            /\ new.at = call[c].at
                            /\ new.batch = call[c].batch
    BY <1>1, <2>2, HttpAnswers, ReplyFacts
  <2>4. CallInv(c)'
    BY <1>3, <2>3 DEF CallInv
  <2> QED BY <1>2, <1>3, <2>3, <2>4, QuietCallKeeps
<1> QED BY <1>4, <1>5, <1>6

\* A signed registration is stored: its validator is registered with its timestamp,
\* and every other one as before.
LEMMA StoreKeeps ==
    ASSUME RelayInv, NEW c \in Calls, UNCHANGED engineVars, StoreRegistration(c)
    PROVE  RelayInv'
<1> DEFINE reg == Current(c)
           new == [call[c] EXCEPT !.pc = "check", !.at = call[c].at + 1]
<1>1. RelayTypeOK /\ call \in [Calls -> Call] /\ call[c] \in Call /\ CallInv(c)
  BY DEF RelayInv, RelayTypeOK
<1>2. EngineInv' /\ known' = known
  BY EngineStutterKeeps DEF RelayInv, engineVars
<1>3. /\ call[c].pc = "store" /\ call[c].at <= Len(call[c].batch) /\ Current(c).signed
      /\ call[c].op = "register" /\ call[c].payload = NoHash
  BY <1>1 DEF StoreRegistration, CallInv
<1>4. /\ call[c].batch \in Seq(Registration)
      /\ Len(call[c].batch) \in Nat
      /\ call[c].at \in Nat
      /\ call[c].at \in 1..Len(call[c].batch)
      /\ call[c].at + 1 \in Nat
  BY <1>1, <1>3, BatchType
<1>5. reg \in Registration /\ reg.pubkey \in Validators /\ reg.timestamp \in Nat
  <2>1. reg \in Registration
    BY <1>1, <1>4, BatchType DEF Current
  <2> QED BY <2>1 DEF Registration
<1>6. reg = [pubkey |-> reg.pubkey, timestamp |-> reg.timestamp, signed |-> TRUE]
  <2>1. reg.signed = TRUE
    BY <1>3, <1>5 DEF Registration
  <2> QED BY <1>5, <2>1 DEF Registration
<1>7. /\ new \in Call
      /\ new.pc = "check"
      /\ new.op = call[c].op
      /\ new.at = call[c].at + 1
      /\ new.batch = call[c].batch
      /\ new.payload = call[c].payload
  BY <1>1, <1>4 DEF Call, CallPoints
<1>8. /\ call' = [call EXCEPT ![c] = new]
      /\ relay' = relay /\ latestPubkey' = latestPubkey
      /\ registrations' = [registrations EXCEPT ![reg.pubkey] = reg.timestamp]
  BY <1>1 DEF StoreRegistration
<1>9. reg = call[c].batch[call[c].at]
  BY DEF Current
<1> HIDE DEF new, reg
<1>10. /\ call' \in [Calls -> Call]
       /\ call'[c] = new
       /\ \A d \in Calls : d # c => call'[d] = call[d]
  BY <1>1, <1>7, <1>8
<1>11. registrations \in [Validators -> Nat \cup {-1}]
  BY <1>1 DEF RelayTypeOK
<1>12. /\ registrations' \in [Validators -> Nat \cup {-1}]
       /\ registrations'[reg.pubkey] = reg.timestamp
       /\ \A v \in Validators : v # reg.pubkey => registrations'[v] = registrations[v]
       /\ reg.timestamp # -1
  BY <1>5, <1>8, <1>11
<1>13. RelayTypeOK'
  <2>1. new.at \in 1..(Len(new.batch) + 1)
    BY <1>4, <1>7
  <2> QED BY <1>1, <1>8, <1>10, <1>12, <2>1 DEF RelayTypeOK
<1>14. \A v : Bidder(v) => Bidder(v)'
  <2>1. call[c].pc # "done" /\ call[c].pc # "answer"
    BY <1>3
  <2> QED BY <1>8, <2>1, BiddersStay
<1>15. ASSUME NEW d \in Calls PROVE CallInv(d)'
  <2>1. CASE d = c
    BY <1>3, <1>7, <1>10, <2>1 DEF CallInv
  <2>2. CASE d # c
    BY <1>2, <1>10, <1>14, <2>2, OtherCallKeeps DEF RelayInv
  <2> QED BY <2>1, <2>2
<1>16. LatestIsBidder'
  <2>1. ASSUME NEW k, k = latestPubkey, k # NoKey PROVE Bidder(k)'
    BY <1>14, <2>1 DEF RelayInv, LatestIsBidder
  <2> QED BY <1>8, <2>1 DEF LatestIsBidder, Bidder
<1>17. RegistrationsKept'
  <2> SUFFICES ASSUME NEW d \in Calls, NEW i \in 1..(call'[d].at - 1)
               PROVE  registrations'[call'[d].batch[i].pubkey] # -1
    BY DEF RegistrationsKept
  <2>1. call'[d].batch = call[d].batch
    BY <1>7, <1>10
  <2>2. CASE d = c /\ i = call[c].at
    BY <1>9, <1>12, <2>1, <2>2
  <2>3. CASE ~(d = c /\ i = call[c].at)
    <3>1. i \in 1..(call[d].at - 1) /\ i \in 1..Len(call[d].batch)
      BY <1>1, <1>4, <1>7, <1>10, <2>3, BatchType
    <3>2. registrations[call[d].batch[i].pubkey] # -1
      BY <3>1 DEF RelayInv, RegistrationsKept
    <3>3. call[d].batch[i].pubkey \in Validators
      BY <1>1, <3>1, BatchType DEF Registration
    <3> QED BY <1>12, <2>1, <3>2, <3>3
  <2> QED BY <2>2, <2>3
<1>18. RegistrationsSigned'
  <2> SUFFICES ASSUME NEW v \in Validators, registrations'[v] # -1
               PROVE  \E d \in Calls : \E i \in 1..Len(call'[d].batch) : call'[d].batch[i]
                         = [pubkey |-> v, timestamp |-> registrations'[v], signed |-> TRUE]
    BY DEF RegistrationsSigned
  <2>1. \A d \in Calls : call'[d].batch = call[d].batch
    BY <1>7, <1>10
  <2>2. CASE v = reg.pubkey
    BY <1>4, <1>6, <1>9, <1>12, <2>1, <2>2
  <2>3. CASE v # reg.pubkey
    <3>1. registrations'[v] = registrations[v]
      BY <1>12, <2>3
    <3>2. \E d \in Calls : \E i \in 1..Len(call[d].batch) : call[d].batch[i]
             = [pubkey |-> v, timestamp |-> registrations[v], signed |-> TRUE]
      BY <3>1 DEF RelayInv, RegistrationsSigned
    <3> QED BY <2>1, <3>1, <3>2
  <2> QED BY <2>2, <2>3
<1> QED BY <1>2, <1>13, <1>15, <1>16, <1>17, <1>18 DEF RelayInv

\* The runtime ends the process and nothing else changes.
LEMMA MapRaceKeeps ==
    ASSUME RelayInv, NEW c \in Calls, UNCHANGED engineVars, MapRace(c)
    PROVE  RelayInv'
<1>1. EngineInv' /\ known' = known
  BY EngineStutterKeeps DEF RelayInv, engineVars
<1>2. /\ relay' = "fatal"
      /\ UNCHANGED <<registrations, latestPubkey, call>>
  BY DEF MapRace
<1>3. RelayTypeOK'
  BY <1>2 DEF RelayInv, RelayTypeOK
<1>4. LatestIsBidder'
  BY <1>2 DEF RelayInv, LatestIsBidder, Bidder
<1>5. RegistrationsKept'
  BY <1>2 DEF RelayInv, RegistrationsKept
<1>6. RegistrationsSigned'
  BY <1>2 DEF RelayInv, RegistrationsSigned
<1>7. \A d \in Calls : CallInv(d)'
  BY <1>1, <1>2 DEF RelayInv, CallInv, Current, Bidder
<1> QED BY <1>1, <1>3, <1>4, <1>5, <1>6, <1>7 DEF RelayInv

-----------------------------------------------------------------------------
(* handleGetHeader and handleGetPayload *)

\* What the proposal handlers leave alone of the engine; they only touch the cache.
LEMMA ProposalsKeepEngine ==
    ASSUME RelayInv, NEW c \in Calls, Proposals(c)
    PROVE  EngineInv' /\ known' = known
<1>1. EngineInv /\ UNCHANGED <<known, head, payloadIdCounter, request>>
  BY DEF RelayInv, Proposals
<1>2. \/ recentPayloads' = recentPayloads
      \/ \E key : Cached(key) /\ recentPayloads' = Touch(key)
  BY DEF Proposals, GetHeader, GetHeaderUnknown, RememberPubkey, AnswerBid, GetPayloadSigned,
         GetPayloadBadSignature, RevealPayload, RevealUnknown
<1>3. CASE recentPayloads' = recentPayloads
  BY <1>1, <1>3, EngineStutterKeeps DEF engineVars
<1>4. ASSUME NEW key, Cached(key), recentPayloads' = Touch(key) PROVE EngineInv'
  BY <1>1, <1>4, RelayTouchKeeps
<1> QED BY <1>1, <1>2, <1>3, <1>4

\* A bid is prepared, or there is none.
LEMMA GetHeaderKeeps ==
    ASSUME RelayInv, NEW c \in Calls, Proposals(c), NEW v \in Validators \cup {NoKey},
           NEW b \in known, GetHeader(c, v, b) \/ GetHeaderUnknown(c, v, b)
    PROVE  RelayInv'
<1>1. RelayTypeOK /\ call \in [Calls -> Call] /\ latestPubkey \in Validators \cup {NoKey}
  BY DEF RelayInv, RelayTypeOK
<1>2. EngineInv' /\ known' = known
  BY ProposalsKeepEngine
<1>3. /\ relay' = relay /\ registrations' = registrations /\ latestPubkey' = latestPubkey
      /\ call[c].pc = "new"
  BY DEF GetHeader, GetHeaderUnknown
<1>4. CASE GetHeader(c, v, b)
  <2> DEFINE h == Entry(ParentKey(b)).val
             new == [NoCall EXCEPT !.pc = "remember", !.op = "getHeader", !.key = v, !.header = h]
  <2>1. h \in BlockOrNone /\ h # NoHash
    BY <1>1, <1>4, TouchFacts, NoHashAssumption DEF GetHeader, RelayInv, EngineInv, BlockOrNone
  <2>2. call' = [call EXCEPT ![c] = new]
    BY <1>4 DEF GetHeader
  <2> HIDE DEF h
  <2>3. /\ new \in Call
        /\ new.pc = "remember"
        /\ new.op = "getHeader"
        /\ new.header # NoHash
        /\ new.at = 1
        /\ new.payload = NoHash
    BY <2>1, NoCallType DEF Call, CallPoints
  <2> HIDE DEF new
  <2>4. call'[c] = new
    BY <1>1, <2>2
  <2>5. CallInv(c)'
    BY <2>3, <2>4 DEF CallInv
  <2> QED BY <1>1, <1>2, <1>3, <2>2, <2>3, <2>5, QuietCallKeeps
<1>5. CASE GetHeaderUnknown(c, v, b)
  <2>0. PICK st \in HttpStatuses : st = 400
    BY HttpAnswers
  <2> DEFINE new == [NoCall EXCEPT !.pc = "done", !.op = "getHeader", !.key = v, !.status = st]
  <2>1. call' = [call EXCEPT ![c] = new]
    BY <1>5, <2>0 DEF GetHeaderUnknown
  <2>2. new \in Call /\ new.pc = "done" /\ new.payload = NoHash /\ new.at = 1
    BY NoCallType DEF Call, CallPoints
  <2> HIDE DEF new
  <2>3. call'[c] = new
    BY <1>1, <2>1
  <2>4. CallInv(c)'
    BY <2>2, <2>3 DEF CallInv
  <2> QED BY <1>1, <1>2, <1>3, <2>1, <2>2, <2>4, QuietCallKeeps
<1> QED BY <1>4, <1>5

\* The key of the bid's validator is remembered or torn: it is a bidder's afterwards
\* or nobody's.
LEMMA RememberPubkeyKeeps ==
    ASSUME RelayInv, NEW c \in Calls, Proposals(c), RememberPubkey(c)
    PROVE  RelayInv'
<1>1. RelayTypeOK /\ call \in [Calls -> Call] /\ call[c] \in Call /\ CallInv(c)
  BY DEF RelayInv, RelayTypeOK
<1>2. EngineInv' /\ known' = known
  BY ProposalsKeepEngine
<1> DEFINE new == [call[c] EXCEPT !.pc = "answer"]
<1>3. /\ relay' = relay /\ registrations' = registrations
      /\ call[c].pc = "remember"
      /\ latestPubkey' \in {NoKey, call[c].key}
      /\ call' = [call EXCEPT ![c] = new]
  BY <1>1 DEF RememberPubkey
<1>4. /\ call[c].op = "getHeader"
      /\ call[c].header # NoHash
      /\ call[c].payload = NoHash
  BY <1>1, <1>3 DEF CallInv
<1>5. /\ new \in Call
      /\ new.pc = "answer"
      /\ new.op = call[c].op
      /\ new.key = call[c].key
      /\ new.header = call[c].header
      /\ new.payload = call[c].payload
      /\ new.at = call[c].at
      /\ new.batch = call[c].batch
  BY <1>1 DEF Call, CallPoints
<1> HIDE DEF new
<1>6. call'[c] = new
  BY <1>1, <1>3
<1>7. CallInv(c)'
  BY <1>4, <1>5, <1>6 DEF CallInv
<1>8. PICK w : w = call[c].key
  OBVIOUS
<1>9. PICK k \in Validators \cup {NoKey} : latestPubkey' = k
  BY <1>1, <1>3 DEF Call
<1>10. k \in {latestPubkey, NoKey} \/ Bidder(k)'
  <2>1. /\ call'[c].op = "getHeader"
        /\ call'[c].key = w
        /\ call'[c].header # NoHash
        /\ call'[c].pc = "answer"
    BY <1>4, <1>5, <1>6, <1>8
  <2>2. Bidder(w)'
    BY <2>1 DEF Bidder
  <2>3. k = NoKey \/ k = w
    BY <1>3, <1>8, <1>9
  <2> QED BY <2>2, <2>3
<1>11. call[c].pc # "done" /\ call[c].pc # "answer"
  BY <1>3
<1> QED BY <1>2, <1>3, <1>5, <1>7, <1>9, <1>10, <1>11, QuietCallKeeps

\* The answer to a bid, whether it arrives or not.
LEMMA AnswerBidKeeps ==
    ASSUME RelayInv, NEW c \in Calls, Proposals(c), AnswerBid(c)
    PROVE  RelayInv'
<1>1. RelayTypeOK /\ latestPubkey \in Validators \cup {NoKey} /\ CallInv(c)
  BY DEF RelayInv, RelayTypeOK
<1>2. EngineInv' /\ known' = known
  BY ProposalsKeepEngine
<1>3. /\ relay' = relay /\ registrations' = registrations /\ latestPubkey' = latestPubkey
      /\ call[c].pc = "answer"
      /\ \E st \in WriteResults : Reply(c, st)
  BY DEF AnswerBid
<1>4. call[c].payload = NoHash
  BY <1>1, <1>3 DEF CallInv
<1>5. PICK new \in Call : /\ call' = [call EXCEPT ![c] = new]
                          /\ call'[c] = new
                          /\ new.pc = "done"
                          /\ new.op = call[c].op
                          /\ new.key = call[c].key
                          /\ new.header = call[c].header
                          /\ new.payload = call[c].payload
                          /\ new.at = call[c].at
                          /\ new.batch = call[c].batch
  BY <1>1, <1>3, HttpAnswers, ReplyFacts
<1>6. CallInv(c)'
  BY <1>4, <1>5 DEF CallInv
<1>7. call[c].pc # "done"
  BY <1>3
<1>8. /\ call' = [call EXCEPT ![c] = new]
      /\ call[c].pc = "answer" =>
             /\ new.pc = "done"
             /\ new.op = call[c].op
             /\ new.key = call[c].key
             /\ new.header = call[c].header
      /\ new.at = call[c].at /\ new.batch = call[c].batch
  BY <1>5
<1> QED BY <1>1, <1>2, <1>3, <1>6, <1>7, <1>8, QuietCallKeeps

\* A signature of the remembered validator is one of a bidder.
LEMMA GetPayloadStartKeeps ==
    ASSUME RelayInv, NEW c \in Calls, Proposals(c), NEW v \in Validators, NEW h \in Signable,
           GetPayloadSigned(c, v, h) \/ GetPayloadBadSignature(c, v, h)
    PROVE  RelayInv'
<1>1. RelayTypeOK /\ call \in [Calls -> Call] /\ latestPubkey \in Validators \cup {NoKey}
  BY DEF RelayInv, RelayTypeOK
<1>2. EngineInv' /\ known' = known
  BY ProposalsKeepEngine
<1>3. /\ relay' = relay /\ registrations' = registrations /\ latestPubkey' = latestPubkey
      /\ call[c].pc = "new"
  BY DEF GetPayloadSigned, GetPayloadBadSignature
<1>4. h \in BlockOrNone
  <2>1. h \in Bids \/ h \in known
    BY DEF Signable
  <2>2. known \subseteq Block
    BY DEF RelayInv, EngineInv, EngineTypeOK
  <2> QED BY <1>1, <2>1, <2>2 DEF Bids, Call, BlockOrNone
<1>5. CASE GetPayloadSigned(c, v, h)
  <2> DEFINE new == [NoCall EXCEPT !.pc = "reveal", !.op = "getPayload", !.key = v, !.header = h]
  <2>1. call' = [call EXCEPT ![c] = new]
    BY <1>5 DEF GetPayloadSigned
  <2>2. /\ new \in Call
        /\ new.pc = "reveal"
        /\ new.op = "getPayload"
        /\ new.key = v
        /\ new.at = 1
        /\ new.payload = NoHash
    BY <1>4, NoCallType DEF Call, CallPoints
  <2> HIDE DEF new
  <2>3. call'[c] = new
    BY <1>1, <2>1
  <2>4. Bidder(v)
    BY <1>5, RelayAssumption DEF GetPayloadSigned, VerifySignature, RelayInv, LatestIsBidder
  <2>5. Bidder(v)'
    BY <1>3, <2>1, <2>4, BiddersStay
  <2>6. call'[c].key = v /\ call'[c].payload = NoHash
    BY <2>2, <2>3
  <2>7. CallInv(c)'
    BY <2>2, <2>3, <2>5, <2>6 DEF CallInv, Bidder
  <2> QED BY <1>1, <1>2, <1>3, <2>1, <2>2, <2>7, QuietCallKeeps
<1>6. CASE GetPayloadBadSignature(c, v, h)
  <2>0. PICK st \in HttpStatuses : st = 400
    BY HttpAnswers
  <2> DEFINE new == [NoCall EXCEPT !.pc = "done", !.op = "getPayload", !.key = v, !.header = h,
                                   !.status = st]
  <2>1. call' = [call EXCEPT ![c] = new]
    BY <1>6, <2>0 DEF GetPayloadBadSignature
  <2>2. new \in Call /\ new.pc = "done" /\ new.at = 1 /\ new.payload = NoHash
    BY <1>4, NoCallType DEF Call, CallPoints
  <2> HIDE DEF new
  <2>3. call'[c] = new
    BY <1>1, <2>1
  <2>4. CallInv(c)'
    BY <2>2, <2>3 DEF CallInv
  <2> QED BY <1>1, <1>2, <1>3, <2>1, <2>2, <2>4, QuietCallKeeps
<1> QED BY <1>5, <1>6

\* What the cache holds under the parent of the signed header extends that parent.
LEMMA RevealKeeps ==
    ASSUME RelayInv, NEW c \in Calls, Proposals(c), RevealPayload(c) \/ RevealUnknown(c)
    PROVE  RelayInv'
<1>1. RelayTypeOK /\ call \in [Calls -> Call] /\ latestPubkey \in Validators \cup {NoKey}
      /\ call[c] \in Call /\ CallInv(c) /\ EngineInv /\ EngineTypeOK
  BY DEF RelayInv, RelayTypeOK, EngineInv
<1>2. EngineInv' /\ known' = known
  BY ProposalsKeepEngine
<1>3. /\ relay' = relay /\ registrations' = registrations /\ latestPubkey' = latestPubkey
      /\ call[c].pc = "reveal"
  BY DEF RevealPayload, RevealUnknown
<1>4. call[c].op = "getPayload" /\ Bidder(call[c].key) /\ call[c].payload = NoHash
  BY <1>1, <1>3 DEF CallInv
<1>5. CASE RevealPayload(c)
  <2>0. PICK st \in WriteResults :
           call' = [call EXCEPT ![c].pc = "done", ![c].status = st,
               ![c].payload = Entry(ParentKey(ParentOf(call[c].header))).val]
    BY <1>5 DEF RevealPayload
  <2>a. st \in HttpStatuses
    BY <2>0, HttpAnswers
  <2> DEFINE key == ParentKey(ParentOf(call[c].header))
             e == Entry(key)
             new == [call[c] EXCEPT !.pc = "done", !.status = st, !.payload = e.val]
  <2>1. Cached(key)
    BY <1>5 DEF RevealPayload
  <2>2. e \in recentPayloads /\ e.key = key /\ e.val \in Block
    <3> HIDE DEF key
    <3> QED BY <1>1, <2>1, EntryFacts DEF CacheEntry
  <2>3. EntryInv(e) /\ Built(e.val)
    BY <1>1, <2>2 DEF EngineInv, EntryInv
  <2>4. key.kind = "parent" /\ key.parent = ParentOf(call[c].header)
    BY DEF ParentKey
  <2>5. key = ParentKey(ParentOf(e.val))
    <3> HIDE DEF key, e
    <3> QED BY <2>2, <2>3, <2>4 DEF EntryInv
  <2>6. ParentOf(e.val) = ParentOf(call[c].header) /\ ParentOf(e.val) \in known
    <3>1. ParentKey(ParentOf(e.val)).parent = ParentOf(e.val)
      BY DEF ParentKey
    <3> HIDE DEF key, e
    <3> QED BY <2>3, <2>4, <2>5, <3>1 DEF Built
  <2>7. call' = [call EXCEPT ![c] = new]
    BY <1>1, <2>0
  <2> HIDE DEF e
  <2>8. /\ new \in Call
        /\ new.pc = "done"
        /\ new.op = call[c].op
        /\ new.key = call[c].key
        /\ new.header = call[c].header
        /\ new.payload = e.val
        /\ new.batch = call[c].batch
        /\ new.at = call[c].at
    BY <1>1, <2>a, <2>2 DEF Call, CallPoints, BlockOrNone
  <2> HIDE DEF new
  <2>9. call'[c] = new
    BY <1>1, <2>7
  <2>10. PICK k : k = call[c].key
    OBVIOUS
  <2>11. Bidder(k) /\ call'[c].key = k
    BY <1>4, <2>8, <2>9, <2>10
  <2>12. Bidder(k)'
    BY <1>3, <2>7, <2>11, BiddersStay
  <2>13. /\ call'[c].pc = "done"
         /\ ParentOf(call'[c].payload) = ParentOf(call'[c].header)
         /\ ParentOf(call'[c].payload) \in known'
         /\ call'[c].op = "getPayload"
    BY <1>2, <1>4, <2>6, <2>8, <2>9
  <2>14. CallInv(c)'
    BY <2>11, <2>12, <2>13 DEF CallInv, Bidder
  <2> QED BY <1>1, <1>2, <1>3, <2>7, <2>8, <2>14, QuietCallKeeps
<1>6. CASE RevealUnknown(c)
  <2>1. PICK new \in Call : /\ call' = [call EXCEPT ![c] = new]
                            /\ call'[c] = new
                            /\ new.pc = "done"
                            /\ new.payload = call[c].payload
                            /\ new.at = call[c].at
                            /\ new.batch = call[c].batch
    BY <1>1, <1>6, HttpAnswers, ReplyFacts DEF RevealUnknown
  <2>2. CallInv(c)'
    BY <1>4, <2>1 DEF CallInv
  <2>3. call' = [call EXCEPT ![c] = new] /\ new.at = call[c].at /\ new.batch = call[c].batch
    BY <2>1
  <2> QED BY <1>1, <1>2, <1>3, <2>2, <2>3, QuietCallKeeps
<1> QED BY <1>5, <1>6

-----------------------------------------------------------------------------
(* The process: the relay's handlers and the engine's *)

\* The engine forgets no block.
LEMMA EngineForgetsNothing ==
    ASSUME EngineNext
    PROVE  known \subseteq known'
BY DEF EngineNext, GetPayload, GetPayloadV1, GetPayloadUnknown, NewPayload, NewPayloadBadHash,
       NewPayloadSyncing, NewPayloadNotTerminal, NewPayloadV1, NewPayloadFails, Forkchoice,
       ForkchoiceUpdated, AllocateId, BuildPayload, BuildPayloadFails, CacheById, CacheByParent

\* A step of the engine, or of nobody, keeps the relay's part.
LEMMA RelayVarsStay ==
    ASSUME RelayInv, EngineInv', known \subseteq known', UNCHANGED relayVars
    PROVE  RelayInv'
<1>1. RelayTypeOK' /\ LatestIsBidder' /\ RegistrationsKept' /\ RegistrationsSigned'
  BY DEF relayVars, RelayInv, RelayTypeOK, LatestIsBidder, Bidder, RegistrationsKept,
         RegistrationsSigned
<1>2. \A d \in Calls : CallInv(d)'
  <2> SUFFICES ASSUME NEW d \in Calls PROVE CallInv(d)'
    OBVIOUS
  <2>1. CallInv(d) /\ call' = call
    BY DEF RelayInv, relayVars
  <2> QED BY <2>1, OtherCallKeeps DEF Bidder
<1> QED BY <1>1, <1>2 DEF RelayInv

\* The relay starts with nobody registered, nobody remembered and no request.
LEMMA RelayInitInvariant == RelayInit => RelayInv
<1> SUFFICES ASSUME RelayInit PROVE RelayInv
  OBVIOUS
<1>1. EngineInv
  BY EngineInitInvariant DEF RelayInit
<1>2. call \in [Calls -> Call] /\ \A c \in Calls : call[c] = NoCall
  BY NoCallType DEF RelayInit
<1>3. RelayTypeOK
  <2>1. \A c \in Calls : call[c].at \in 1..(Len(call[c].batch) + 1)
    BY <1>2, NoCallType
  <2>2. registrations \in [Validators -> Nat \cup {-1}]
    BY DEF RelayInit
  <2> QED BY <1>2, <2>1, <2>2 DEF RelayInit, RelayTypeOK
<1>4. \A c \in Calls : CallInv(c)
  BY <1>2 DEF CallInv, NoCall
<1>5. LatestIsBidder
  BY DEF RelayInit, LatestIsBidder
<1>6. RegistrationsKept
  BY <1>2, NoCallType DEF RegistrationsKept
<1>7. RegistrationsSigned
  BY DEF RelayInit, RegistrationsSigned
<1> QED BY <1>1, <1>3, <1>4, <1>5, <1>6, <1>7 DEF RelayInv

\* Every handler keeps the invariant, wherever the others are.
LEMMA RelayStepKeeps ==
    ASSUME RelayInv, [RelayNext]_vars
    PROVE  RelayInv'
<1>1. ASSUME NEW c \in Calls, Registrations(c) PROVE RelayInv'
  BY <1>1, RegisterKeeps, StoreKeeps, MapRaceKeeps DEF Registrations
<1>2. ASSUME NEW c \in Calls, Proposals(c) PROVE RelayInv'
  <2>1. \/ \E v \in Validators \cup {NoKey}, b \in known :
              GetHeader(c, v, b) \/ GetHeaderUnknown(c, v, b)
        \/ RememberPubkey(c)
        \/ AnswerBid(c)
        \/ \E v \in Validators, h \in Signable :
              GetPayloadSigned(c, v, h) \/ GetPayloadBadSignature(c, v, h)
        \/ RevealPayload(c)
        \/ RevealUnknown(c)
    BY <1>2 DEF Proposals
  <2> QED BY <1>2, <2>1, GetHeaderKeeps, RememberPubkeyKeeps, AnswerBidKeeps,
          GetPayloadStartKeeps, RevealKeeps
<1>3. CASE EngineNext /\ UNCHANGED relayVars
  BY <1>3, EngineNextKeeps, EngineForgetsNothing, RelayVarsStay DEF RelayInv
<1>4. CASE UNCHANGED vars
  <2>1. EngineInv' /\ known' = known /\ UNCHANGED relayVars
    BY <1>4, EngineStutterKeeps DEF vars, engineVars, RelayInv
  <2> QED BY <2>1, RelayVarsStay
<1> QED BY <1>1, <1>2, <1>3, <1>4 DEF RelayNext

\* RelayInv holds of the relay and the engine in its process.
THEOREM RelayInvariance == RelaySpec => []RelayInv
<1>1. RelayInit => RelayInv
  BY RelayInitInvariant
<1>2. RelayInv /\ [RelayNext]_vars => RelayInv'
  BY RelayStepKeeps
<1> QED BY <1>1, <1>2, PTL DEF RelaySpec

\* The relay is type correct, whatever batches are sent and whatever keys are torn.
THEOREM RelayTypeCorrect == RelaySpec => []RelayTypeOK
<1>1. RelayInv => RelayTypeOK
  BY DEF RelayInv
<1> QED BY <1>1, RelayInvariance, PTL

\* handleGetPayload reveals a payload only to a validator whose request for a header
\* found a payload and made the relay remember its key, although that key is shared
\* without a lock, is torn, and is remembered before the bid is answered.
THEOREM OnlyBiddersSee == RelaySpec => []RevealedToBidder
<1>1. RelayInv => RevealedToBidder
  BY DEF RelayInv, CallInv, RevealedToBidder
<1> QED BY <1>1, RelayInvariance, PTL

\* What handleGetPayload reveals extends the parent of the header that was signed, and
\* the engine knows that parent, whatever was prepared or evicted since the bid.
THEOREM RevealsOnSignedParent == RelaySpec => []RevealedOnSignedParent
<1>1. RelayInv => RevealedOnSignedParent
  BY DEF RelayInv, CallInv, RevealedOnSignedParent
<1> QED BY <1>1, RelayInvariance, PTL

\* A registration that was accepted is not undone when a later one of its request is
\* refused (handleRegisterValidator).
THEOREM RegistrationsStand == RelaySpec => []RegistrationsKept
<1>1. RelayInv => RegistrationsKept
  BY DEF RelayInv
<1> QED BY <1>1, RelayInvariance, PTL

\* Nobody is registered without having signed, however batches interleave and whatever
\* a race on the map leaves behind (handleRegisterValidator).
THEOREM SignersOnly == RelaySpec => []RegistrationsSigned
<1>1. RelayInv => RegistrationsSigned
  BY DEF RelayInv
<1> QED BY <1>1, RelayInvariance, PTL

\* The relay's use of the cache takes nothing away from the engine's clients: ids
\* name what they named, and no payload of the engine is answered SYNCING.
THEOREM EngineBesideRelay ==
    RelaySpec => [](IdNamesOnePayload /\ OwnPayloadNeverSyncing)
<1>1. RelayInv => IdNamesOnePayload /\ OwnPayloadNeverSyncing
  BY IdsNameOnePayload, OwnPayloadsInSync DEF RelayInv
<1> QED BY <1>1, RelayInvariance, PTL

\* Nor does it push out a payload early: bids are read from the cache, which makes an
\* entry younger and drops none.
THEOREM RelayEvictsNothing == RelaySpec => []NoEarlyEviction
<1>1. RelayInit => EvictionInv
  BY InitEviction DEF RelayInit
<1>2. RelayInv /\ EvictionInv /\ [RelayNext]_vars => EvictionInv'
  <2> SUFFICES ASSUME RelayInv, EvictionInv, [RelayNext]_vars PROVE EvictionInv'
    OBVIOUS
  <2>1. EngineInv /\ EngineTypeOK
    BY DEF RelayInv, EngineInv
  <2>2. CASE EngineNext
    BY <2>1, <2>2, EngineNextKeepsEviction
  <2>3. ASSUME request' = request, recentPayloads' = recentPayloads PROVE EvictionInv'
    BY <2>3, KeysSame, QuietKeepsEviction
  <2>4. ASSUME request' = request, NEW key, Cached(key), recentPayloads' = Touch(key)
        PROVE  EvictionInv'
    BY <2>1, <2>4, KeysSame, TouchKeepsEviction
  <2>5. \/ EngineNext
        \/ request' = request /\ recentPayloads' = recentPayloads
        \/ request' = request /\ \E key : Cached(key) /\ recentPayloads' = Touch(key)
    BY DEF RelayNext, Registrations, Proposals, GetHeader, GetHeaderUnknown, RememberPubkey,
           AnswerBid, GetPayloadSigned, GetPayloadBadSignature, RevealPayload, RevealUnknown, vars, engineVars
  <2> QED BY <2>2, <2>3, <2>4, <2>5
<1>3. RelayInv /\ EvictionInv => NoEarlyEviction
  BY IdsRedeemable DEF RelayInv
<1> QED BY <1>1, <1>2, <1>3, RelayInvariance, PTL DEF RelaySpec

\* No payload is executed on a parent below the terminal total difficulty: the engine
\* looks at the difficulty of the parent alone, which is at most the total.
THEOREM NothingBeforeTheMerge == RelaySpec => []NoPayloadBeforeTTD
<1>1. RelayInit => NoPayloadBeforeTTD
  BY InitBeforeTTD DEF RelayInit
<1>2. RelayInv /\ NoPayloadBeforeTTD /\ [RelayNext]_vars => NoPayloadBeforeTTD'
  <2> SUFFICES ASSUME RelayInv, NoPayloadBeforeTTD, [RelayNext]_vars
               PROVE  NoPayloadBeforeTTD'
    OBVIOUS
  <2>1. CASE EngineNext
    BY <2>1, EngineNextKeepsTTD DEF RelayInv
  <2>2. CASE known' = known
    BY <2>2 DEF NoPayloadBeforeTTD
  <2>3. EngineNext \/ known' = known
    BY DEF RelayNext, Registrations, Proposals, vars, engineVars
  <2> QED BY <2>1, <2>2, <2>3
<1> QED BY <1>1, <1>2, RelayInvariance, PTL DEF RelaySpec

=============================================================================
