---------------------------- MODULE RelayBackend -----------------------------
(***************************************************************************)
(* The builder relay (relay.go): validator registrations, and blinded      *)
(* proposals served from the payload cache of an engine mock that runs in  *)
(* the same process.  Every HTTP request runs in a goroutine of its own;   *)
(* registrations (a Go map) and latestPubkey (a 48 byte array) are shared  *)
(* without a lock, so concurrent use of either is a data race.             *)
(***************************************************************************)
EXTENDS EngineBackend

CONSTANTS
    Validators,     \* the public keys that clients use
    Batches,        \* registration requests: sequences of registrations
    Calls           \* bound: the HTTP requests clients make, one each

\* The zero public key, any torn mixture of two keys, and any other 48 bytes that
\* nobody can sign for.
NoKey == "nobody"

Registration == [pubkey : Validators, timestamp : Nat, signed : BOOLEAN]

ASSUME RelayAssumption ==
    /\ NoKey \notin Validators
    /\ Batches \subseteq Seq(Registration)

VARIABLES
    relay,          \* "up", or "fatal" after the runtime caught a map race
    registrations,  \* registered timestamp of each validator, or -1
    latestPubkey,   \* the validator of the latest getHeader
    call            \* what every HTTP request is doing, or was answered

relayVars == <<relay, registrations, latestPubkey, call>>
vars == <<engineVars, relayVars>>

\* key: the validator that asks for a header, or that signed the block.
\* header: the header asked for (its parent), returned or signed.
\* payload: what handleGetPayload revealed.
\* batch, at: a registration request and the registration it is working on.
NoCall == [pc |-> "new", op |-> "none", key |-> NoKey, header |-> NoHash,
           payload |-> NoHash, batch |-> <<>>, at |-> 1, status |-> 0]

RelayInit ==
    /\ Init
    /\ relay = "up"
    /\ registrations = [v \in Validators |-> -1]
    /\ latestPubkey = NoKey
    /\ call = [c \in Calls |-> NoCall]

Reply(c, status) == call' = [call EXCEPT ![c].pc = "done", ![c].status = status]

\* The response was written, or the connection broke on the way.
WriteResults == {200, 500}

-----------------------------------------------------------------------------
(* handleRegisterValidator *)

Register(c, batch) ==
    /\ call[c].pc = "new"
    /\ call' = [call EXCEPT ![c] = [NoCall EXCEPT !.pc = "check", !.op = "register",
                                                  !.batch = batch]]
    /\ UNCHANGED <<relay, registrations, latestPubkey>>

Current(c) == call[c].batch[call[c].at]

\* The relay accepts a registration unless the stored one is at most as recent.
TimestampOk(stored, timestamp) == stored = -1 \/ stored > timestamp

\* A mutant: signatures are not checked.
UnsignedOk(c) == TimestampOk(registrations[Current(c).pubkey], Current(c).timestamp)

RegistrationOk(c) ==
    /\ Current(c).signed
    /\ TimestampOk(registrations[Current(c).pubkey], Current(c).timestamp)

CheckRegistration(c) ==
    /\ call[c].pc = "check"
    /\ call[c].at <= Len(call[c].batch)
    /\ RegistrationOk(c)
    /\ call' = [call EXCEPT ![c].pc = "store"]
    /\ UNCHANGED <<relay, registrations, latestPubkey>>

\* A mutant: a refused registration undoes the request.
RejectReverts(c) ==
    /\ call[c].pc = "check"
    /\ call[c].at <= Len(call[c].batch)
    /\ ~RegistrationOk(c)
    /\ Reply(c, 400)
    /\ registrations' = [v \in Validators |->
           IF \E i \in 1..(call[c].at - 1) : call[c].batch[i].pubkey = v
           THEN -1 ELSE registrations[v]]
    /\ UNCHANGED <<relay, latestPubkey>>

\* The first registration that is refused ends the request; the ones before
\* it stay registered.
RejectRegistration(c) ==
    /\ call[c].pc = "check"
    /\ call[c].at <= Len(call[c].batch)
    /\ ~RegistrationOk(c)
    /\ Reply(c, 400)
    /\ UNCHANGED <<relay, registrations, latestPubkey>>

\* A mutant: every other registration is skipped.
StoreSkipsOne(c) ==
    /\ call[c].pc = "store"
    /\ registrations' = [registrations EXCEPT ![Current(c).pubkey] = Current(c).timestamp]
    /\ call' = [call EXCEPT ![c].pc = "check", ![c].at = call[c].at + 2]
    /\ UNCHANGED <<relay, latestPubkey>>

StoreRegistration(c) ==
    /\ call[c].pc = "store"
    /\ registrations' = [registrations EXCEPT ![Current(c).pubkey] = Current(c).timestamp]
    /\ call' = [call EXCEPT ![c].pc = "check", ![c].at = call[c].at + 1]
    /\ UNCHANGED <<relay, latestPubkey>>

\* Two goroutines in the map, one of them writing: the Go runtime may notice
\* and abort the process, which no handler can recover from.
MapRace(c) ==
    /\ call[c].pc = "store"
    /\ \E d \in Calls \ {c} : call[d].op = "register" /\ call[d].pc \in {"check", "store"}
    /\ relay' = "fatal"
    /\ UNCHANGED <<registrations, latestPubkey, call>>

FinishRegistration(c) ==
    /\ call[c].pc = "check"
    /\ call[c].at > Len(call[c].batch)
    /\ Reply(c, 200)
    /\ UNCHANGED <<relay, registrations, latestPubkey>>

-----------------------------------------------------------------------------
(* handleGetHeader *)

\* The payload cached under the parent hash becomes a bid; its header is signed.
GetHeader(c, v, b) ==
    /\ call[c].pc = "new"
    /\ Cached(ParentKey(b))
    /\ recentPayloads' = Touch(ParentKey(b))
    /\ call' = [call EXCEPT ![c] = [NoCall EXCEPT !.pc = "remember", !.op = "getHeader",
                                !.key = v, !.header = Entry(ParentKey(b)).val]]
    /\ UNCHANGED <<relay, registrations, latestPubkey>>

GetHeaderUnknown(c, v, b) ==
    /\ call[c].pc = "new"
    /\ ~Cached(ParentKey(b))
    /\ call' = [call EXCEPT ![c] = [NoCall EXCEPT !.pc = "done", !.op = "getHeader",
                                !.key = v, !.status = 400]]
    /\ UNCHANGED <<relay, registrations, latestPubkey, recentPayloads>>

\* latestPubkey.UnmarshalText.  The route and the length check let only hex of 48
\* bytes through, so it decodes.  When the copies of two requests overlap the keys
\* may mix.
RememberPubkey(c) ==
    /\ call[c].pc = "remember"
    /\ \/ latestPubkey' = call[c].key
       \/ /\ \E d \in Calls \ {c} : call[d].pc \in {"remember", "answer"}
                                    /\ call[d].key # call[c].key
          /\ latestPubkey' = NoKey
    /\ call' = [call EXCEPT ![c].pc = "answer"]
    /\ UNCHANGED <<relay, registrations, recentPayloads>>

\* The client has the bid, or the connection broke while it was written.
AnswerBid(c) ==
    /\ call[c].pc = "answer"
    /\ \E status \in WriteResults : Reply(c, status)
    /\ UNCHANGED <<relay, registrations, latestPubkey, recentPayloads>>

-----------------------------------------------------------------------------
(* handleGetPayload *)

\* The headers a client can sign: those of the bids it was answered, and of blocks
\* it knows.
Bids == {call[d].header : d \in {e \in Calls : call[e].op = "getHeader"
                                                /\ call[e].status = 200}}
Signable == Bids \cup {b \in known : Len(b) > 0}

\* A mutant: any signature is good.
AnySignature(signer) == TRUE

VerifySignature(signer) == signer = latestPubkey

GetPayloadSigned(c, v, h) ==
    /\ call[c].pc = "new"
    /\ VerifySignature(v)
    /\ call' = [call EXCEPT ![c] = [NoCall EXCEPT !.pc = "reveal", !.op = "getPayload",
                                !.key = v, !.header = h]]
    /\ UNCHANGED <<relay, registrations, latestPubkey, recentPayloads>>

\* A read of latestPubkey while another request overwrites it may see a mixture.
TornRead == \E d \in Calls : call[d].pc = "remember" /\ call[d].key # latestPubkey

GetPayloadBadSignature(c, v, h) ==
    /\ call[c].pc = "new"
    /\ ~VerifySignature(v) \/ TornRead
    /\ call' = [call EXCEPT ![c] = [NoCall EXCEPT !.pc = "done", !.op = "getPayload",
                                !.key = v, !.header = h, !.status = 400]]
    /\ UNCHANGED <<relay, registrations, latestPubkey, recentPayloads>>

\* A mutant: the payload used last, whatever was signed.
RevealLatest(c) ==
    /\ call[c].pc = "reveal"
    /\ \E e \in recentPayloads :
          /\ e.age = 1
          /\ \E status \in WriteResults :
                call' = [call EXCEPT ![c].pc = "done", ![c].status = status,
                                     ![c].payload = e.val]
    /\ UNCHANGED <<relay, registrations, latestPubkey, recentPayloads>>

\* The payload is looked up by the parent of the signed header, and written to the
\* client, whole or until the connection breaks.
RevealPayload(c) ==
    LET key == ParentKey(ParentOf(call[c].header)) IN
    /\ call[c].pc = "reveal"
    /\ Cached(key)
    /\ recentPayloads' = Touch(key)
    /\ \E status \in WriteResults :
          call' = [call EXCEPT ![c].pc = "done", ![c].status = status,
                               ![c].payload = Entry(key).val]
    /\ UNCHANGED <<relay, registrations, latestPubkey>>

RevealUnknown(c) ==
    /\ call[c].pc = "reveal"
    /\ ~Cached(ParentKey(ParentOf(call[c].header)))
    /\ Reply(c, 400)
    /\ UNCHANGED <<relay, registrations, latestPubkey, recentPayloads>>

-----------------------------------------------------------------------------

\* A request that does not parse is refused before anything is touched.
BadRequest(c) ==
    /\ call[c].pc = "new"
    /\ Reply(c, 400)
    /\ UNCHANGED <<relay, registrations, latestPubkey>>

Registrations(c) ==
    /\ \/ \E batch \in Batches : Register(c, batch)
       \/ CheckRegistration(c)
       \/ RejectRegistration(c)
       \/ StoreRegistration(c)
       \/ MapRace(c)
       \/ FinishRegistration(c)
       \/ BadRequest(c)
    /\ UNCHANGED engineVars

Proposals(c) ==
    /\ \/ \E v \in Validators \cup {NoKey}, b \in known :
             GetHeader(c, v, b) \/ GetHeaderUnknown(c, v, b)
       \/ RememberPubkey(c)
       \/ AnswerBid(c)
       \/ \E v \in Validators, h \in Signable : GetPayloadSigned(c, v, h)
                                                \/ GetPayloadBadSignature(c, v, h)
       \/ RevealPayload(c)
       \/ RevealUnknown(c)
    /\ UNCHANGED <<known, head, payloadIdCounter, request>>

\* The relay's own handlers, and those of the engine in the same process.
RelayNext ==
    /\ relay = "up"
    /\ \/ \E c \in Calls : Registrations(c) \/ Proposals(c)
       \/ EngineNext /\ UNCHANGED relayVars

RelaySpec == RelayInit /\ [][RelayNext]_vars

-----------------------------------------------------------------------------
(* Properties *)

\* Not answered yet, or the answer.
HttpStatuses == {0, 200, 400, 500}

CallPoints == {"new", "check", "store", "remember", "answer", "reveal", "done"}

Call == [pc : CallPoints, op : {"none", "register", "getHeader", "getPayload"},
         key : Validators \cup {NoKey}, header : BlockOrNone, payload : BlockOrNone,
         batch : Batches \cup {<<>>}, at : Nat, status : HttpStatuses]

\* Every variable of the relay has its type.
RelayTypeOK ==
    /\ relay \in {"up", "fatal"}
    /\ registrations \in [Validators -> Nat \cup {-1}]
    /\ latestPubkey \in Validators \cup {NoKey}
    /\ call \in [Calls -> Call]
    /\ \A c \in Calls : call[c].at \in 1..(Len(call[c].batch) + 1)

\* A validator that asked for a header there was a payload for, and whose key the
\* relay then remembered, whether or not the bid reached it.
Bidder(v) ==
    \E d \in Calls : /\ call[d].op = "getHeader"
                     /\ call[d].key = v
                     /\ call[d].header # NoHash
                     /\ call[d].pc \in {"answer", "done"}

\* A payload is revealed, if only in part, to no one but a bidder, who may still be
\* waiting for its bid: the signature check of handleGetPayload against a key that
\* other requests overwrite and tear.
RevealedToBidder ==
    \A c \in Calls : call[c].payload # NoHash => Bidder(call[c].key)

\* What is revealed extends the parent of the header that was signed, and the
\* engine knows that parent, whatever was evicted or prepared in between.
RevealedOnSignedParent ==
    \A c \in Calls : call[c].payload # NoHash =>
        /\ ParentOf(call[c].payload) = ParentOf(call[c].header)
        /\ ParentOf(call[c].payload) \in known

\* "successful registrations are not reverted if an error is encountered on a
\* later validator": whatever a request got past stays registered.
RegistrationsKept ==
    \A c \in Calls : \A i \in 1..(call[c].at - 1) :
        registrations[call[c].batch[i].pubkey] # -1

\* Nobody is registered by a request that the validator did not sign.
RegistrationsSigned ==
    \A v \in Validators : registrations[v] # -1 =>
        \E c \in Calls : \E i \in 1..Len(call[c].batch) :
            call[c].batch[i] = [pubkey |-> v, timestamp |-> registrations[v], signed |-> TRUE]

(* The inductive invariant behind these properties, on top of the engine's. *)

\* Where a request is fits what it does; a registration is stored after its signature
\* was found good; a payload is revealed once a bidder has signed, and on the parent
\* of what it signed.
CallInv(c) ==
    /\ call[c].pc = "new" => call[c] = NoCall
    /\ call[c].pc # "done" => call[c].payload = NoHash
    /\ call[c].pc = "store" => call[c].at <= Len(call[c].batch) /\ Current(c).signed
    /\ call[c].pc \in {"remember", "answer"} =>
          call[c].op = "getHeader" /\ call[c].header # NoHash
    /\ call[c].pc \in {"check", "store"} => call[c].op = "register"
    /\ call[c].pc = "reveal" => call[c].op = "getPayload" /\ Bidder(call[c].key)
    /\ call[c].payload # NoHash =>
          /\ Bidder(call[c].key)
          /\ ParentOf(call[c].payload) = ParentOf(call[c].header)
          /\ ParentOf(call[c].payload) \in known

\* The key that signatures are checked against is a bidder's.
LatestIsBidder == latestPubkey # NoKey => Bidder(latestPubkey)

RelayInv ==
    /\ EngineInv
    /\ RelayTypeOK
    /\ \A c \in Calls : CallInv(c)
    /\ LatestIsBidder
    /\ RegistrationsKept
    /\ RegistrationsSigned

-----------------------------------------------------------------------------
(* What relay_test.go expects, and the code does not do. *)

\* "Call getPayload with correct signature": who got a bid and signs its header is
\* answered 200, and the payload revealed has the block hash of the bid.
BidIsHonoured ==
    \A c, d \in Calls :
        /\ call[c].op = "getPayload"
        /\ call[c].pc = "done"
        /\ call[c].status # 500
        /\ call[d].op = "getHeader"
        /\ call[d].status = 200
        /\ call[c].key = call[d].key
        /\ call[c].header = call[d].header
        => call[c].status = 200 /\ call[c].payload = call[c].header

=============================================================================
