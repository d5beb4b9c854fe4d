# mergemock in TLA+

mergemock tests Ethereum execution clients around the merge. It is one binary
with three commands:

* `mergemock consensus` plays a consensus client. It drives an execution client
  through the engine API: it builds blocks of its own, asks the engine for
  payloads, and fakes gap slots, bad hashes and reorgs.
* `mergemock engine` plays the execution client behind the engine API.
* `mergemock relay` plays a builder relay, with an engine mock in the same
  process.

This directory holds TLA+ models of these three, of the process around them and
of the codecs they use, the TLC runs that check them on small instances, and TLAPS
proofs that hold for all instances. `PROJECT.json` maps every definition to the lines it
models.

## 1. Inventory

### The mock chain (`mock.go`)

State: a go-ethereum `BlockChain` over a database (the blocks known, the
current header) and a genesis configuration. Operations: `AddNewBlock` (build on
any known parent; insert only if `storeBlock`), `ProcessPayload` (rebuild a
block from a payload, compare, insert), `MineBlock` (ethash, before the merge).
`VerifyHeader` checks nothing but that the parent is known: no time, gas or
difficulty.
Correct when: the database grows only by children of known blocks, and the head
is always one of them.

### The consensus mock (`consensus.go`, `behavior.go`)

State: the mock chain; the loop's locals `finalizedHash`, `safeHash`,
`nextFinalized`, `transitionBlock`; the unbuffered channel `payloadId`; one
goroutine for every block built or proposed.
Operations: a tick of the slot ticker, which does one of: count down, genesis,
exit at the slot bound, gap slot, bad hash, propose, build an external block; in
front of the last two possibly a faked reorg. An execution goroutine sends
`newPayload` and `forkchoiceUpdated` and may block on the channel with a payload
id. A proposal goroutine gets the payload, from the engine or from a builder,
checks its timestamp, inserts it and sends it back.
Hard: loop and goroutines share the chain and the channel without further
coordination; ticks are lost; the engine is slow, fails or answers late; ids go
stale; reorgs and finality interact over several epochs.
Correct when: the merge is never undone; time runs forward along a chain;
finality is consistent; proposals do not pile up; a bounded run ends, and ends
with 1 only when the engine is at fault.

### The proof-of-work prologue (`consensus.go` 189-252, `mock.go` 327-387) and `p2p/`

State: a temporary ethash chain over the same database and a connection to the
client under test. Operations: dial, handshake, status exchange; then mine on the
head or, faking a reorg, on an ancestor as old as genesis, announce every block,
and stop when the total difficulty of the head reaches the terminal one. A
goroutine pings the client meanwhile.
Hard: branches of equal difficulty, a client that pings when it should send its
status, or says nothing.
Correct when: it returns the number of the first block at the terminal total
difficulty, the client can follow the announcements, and the pings end.

### The process (`main.go`, and `Run`, `RunNode`, `Close` of the commands)

State: the channel `interrupt` of capacity one, the context, the close channel of
the command, and what the command opened. `main` runs the command in a goroutine,
then waits for an interrupt and hands a token over the close channel.
Hard: the receiver of the token is the slot loop, which does not run before the
prologue is over; `main` exits while the receiver is still closing things; an
interrupt during the start is consumed by cancelling a context.
Correct when: an interrupt ends a command that started, and exit code 0 means
that the command took the token, that a test run reached its slot bound, or that
only the usage was asked for.

### The codecs (`types/`)

State: the receiver. Every decoder writes into an object that may not be new, and
encoding and measuring change their object too: they create children that are
nil. Operations: for 21 containers `MarshalSSZ`, `UnmarshalSSZ`, `SizeSSZ` and
`HashTreeRoot`, all generated; for 8 types a text form; for the payload and the
payload attributes a JSON form.
Hard: offsets and literal bounds that must fit together, decodes that fail
half-way, a receiver that is used again, errors that are ignored.
Correct when: a decode shows nothing of an earlier failure, what is accepted can be
used, and sizes and encodings agree.

### The engine mock (`engine.go`)

State: its own mock chain, an atomic id counter, an LRU cache of ten entries
in which each payload sits under its id and under its parent hash.
Operations: `engine_newPayloadV1`, `engine_forkchoiceUpdatedV1`,
`engine_getPayloadV1`, each request in a goroutine of its own.
Hard: interleaved requests, eviction, payloads out of order, the terminal check.
Correct when: an id names exactly the payload it was given out for; what was
promised is not evicted early; nothing is executed before the merge; the chain
is a tree.

### The relay (`relay.go`)

State: the payload cache of its engine; `registrations`, a Go map;
`latestPubkey`, the validator of the latest `getHeader`. Neither is locked.
Operations: `registerValidator`, `getHeader`, `getPayload`, `status`.
Hard: data races on both, another validator or another payload between
`getHeader` and `getPayload`, requests refused half-way.
Correct when: a payload is revealed only to who may have it, and extends what was
signed; registrations are signed and kept.

### The rest

`api/` holds the clients of the engine and the relay; `rpc/` the servers; `eth.go`
read-only queries; `log*.go` logging. `PROJECT.json` lists every part with its
status and, under `hazards`, what is hard to test in them, line by line.

### How the parts interact

    main ──close──┐
                  v
    slot ticker ──> slot loop ──spawn──> goroutines ──engine API──> engine mock
                       ^  |                  |   └──REST──> relay ──cache──┘
                       |  └── mock chain <───┘
                       └──── payloadId ──────┘

The consensus mock is used against real engines, so `ConsensusNode` takes the
engine as its environment, with whatever faults a run allows. The engine mock is
used by arbitrary clients, so `EngineBackend` takes the client as its
environment. `MergeMock` puts the two together: the calls of the one are the requests
of the other. The relay shares memory with its engine, so `RelayBackend` extends
`EngineBackend` and their steps interleave. The prologue runs in the goroutine that
later receives the token of `Close`, so `Lifecycle` extends `PowPrologue`.

## 2. Modules

| module | models | role |
|---|---|---|
| `MockChain` | the block tree of `mock.go` | operators only, used by all |
| `ChainTree` | what a node promises about its chain | abstract specification |
| `ConsensusNode` | slot loop and goroutines | detailed specification |
| `EngineBackend` | the engine API | detailed specification |
| `RelayBackend` | the builder API, beside an engine | composition, extends `EngineBackend` |
| `MergeMock` | consensus mock against engine mock | composition, extends `ConsensusNode`, instantiates `EngineBackend`; implements `ConsensusNode` |
| `PowPrologue` | the prologue and the p2p connection | detailed specification |
| `Lifecycle` | `main` and the three commands | composition, extends `PowPrologue` |
| `SszSchema` | the containers with SSZ methods | data: sizes, kinds and literal bounds |
| `SszCodec` | the four generated functions | recursive operators over the schema |
| `TextCodec` | text and JSON forms, the base fee | operators |
| `TextReceiver` | the life of one object that arrives as text or JSON | detailed specification over `TextCodec` |
| `Receiver` | the life of any object | composition, extends `SszCodec` and `TextReceiver` |
| `MC...` | | constants for TLC |
| `MockChain_proofs` | | lemmas on blocks, prefixes and ancestors |
| `ConsensusNode_proofs` | | theorems on the consensus mock: its chain, its clock, its turns, its finality, its reorgs, its proposals |
| `EngineBackend_proofs` | | theorems on ids, cache and chain of the engine |
| `RelayBackend_proofs` | | theorems on the relay and the engine beside it |
| `Lifecycle_proofs` | | theorems on the prologue and the process |
| `MergeMock_proofs` | | theorems on the two mocks together |
| `Renaming_proofs` | | that the two mocks together implement `ConsensusNode` |
| `TextReceiver_proofs` | | theorems on the text and JSON forms and the base fee |

**Blocks.** A hash commits to the header and through it to the ancestry, so a
block is the sequence of the *seals* of its ancestry: two blocks are equal exactly
when their hashes are, the number is the length, an ancestor is a prefix. A seal
keeps the fields that tell siblings apart: the slot (for the timestamp), who
built the block, and for an engine's payload the request behind it (`prevRandao`
is drawn for each).

**go-ethereum** is external. `InsertChain` after the merge makes an inserted
block the head unless it is on the canonical chain already;
`GetHeaderByNumber` reads the canonical chain and knows nothing above the head.

**`ConsensusNode`.** `pc` is where the loop is: `idle` in the select, then `parent`,
`reorg`, `propose`, cut at the places where it touches what goroutines change: the
head and the channel. `task[t]` is the goroutine that tick `t` spawned, with the
hashes it captured; `task[t].id` is a payload id, named after the tick that
requested it; `sendq` holds the senders blocked in `payloadId <- *id`, oldest first,
which is how a Go channel serves them. `os.Exit` and a panic end the process
(`proc`). Whether a slot is a gap, a bad hash or a reorg depends on a random number;
in the model every outcome with a non-zero frequency (`Faked`) is possible. `Steps`
is by how much the slot may grow from one tick to the next: more than 1 is a lost
tick. `EngineFaults` says how the engine may misbehave, `EngineTimely` that it answers
before the next tick.

**`EngineBackend`.** A request is answered at once, except a forkchoice update with
attributes, which takes four steps: allocate the id, build, cache under the id,
cache under the parent. The cache is a set of entries with ages, so that capacity,
replacement and recency are those of the LRU library. The database only grows, so
the checks of `NewPayloadV1` and its insertion may be taken together.

**`RelayBackend`.** The undefined behaviour of the races is a choice: two concurrent
`UnmarshalText` may leave a mixture (`NoKey`), a concurrent reader may see one, and two
goroutines in the map may be aborted by the runtime (`relay = "fatal"`). A `getHeader`
writes `latestPubkey` first and answers its bid afterwards (`RememberPubkey`, `AnswerBid`),
and the write of an answer may fail with 500: in between, and after such a failure, the
key counts although nobody got the bid. The route and the check of its length let only
keys of 48 hexadecimal bytes through, so `UnmarshalText` does not fail there. A validator may
sign the header of any bid that was answered and of any block the engine knows.

**`MergeMock`.** A goroutine of the consensus mock that waits for the engine has a
request there, named `<<tick, call>>`; the request takes the steps of `EngineBackend`,
and its answer decides which of the goroutine's actions of `ConsensusNode` is taken.
Each side has its own chain. `late` is chosen at the start: the ticks whose goroutines may
still wait when the next tick comes, or for ever. `newPayload` is called with 20
seconds, so a late one may be given up (`TimesOut`) and arrive at the engine
afterwards (`expired`); the other calls have no deadline in the code. The refinement
maps a block to the name `ConsensusNode` has for it: there an engine's payload is named after
the tick that asked for it, here after the engine's counter.

**`PowPrologue`.** `MineBlock` dates a block one second after its parent, so the
difficulty is a function of the number (`DifficultyOf`); siblings differ in their
nonce. `Winners` is go-ethereum's rule before the merge: the greater total difficulty,
a coin for a tie. A panic while mining is taken for a failure: either way the process
is gone.

**`Lifecycle`.** `main` is where `main` is; `run` is the result of the command's `Run`; `step`
is where `RunNode` is, with the slot loop as one place, since `ConsensusNode` is
about what happens in it; what remains of it here are the ways in which it ends the process:
at `SlotBound` with 0, by `maybeExit` with 1, by a panic. A command that was asked for its usage
runs nothing and exits with 0. Taking the token and closing things one after the other are
steps of their own, and `main` may exit between any two. The keep-alive goroutine is at its
select or in the write of a ping, which has no deadline. `AwaitsClient` is where the prologue
waits for the client without one: the encryption handshake of `Dial`, the status exchange and
the write of a block.

**The codecs.** The generated functions of all containers have one shape, so `SszCodec`
has it once, for any table `Container`, and `SszSchema` is the table of this code. Bytes are kept as bytes:
offsets are read from the buffer they point into. A result of `UnmarshalSSZ` is its error and
the receiver it leaves. `HashTreeRootWith` is modelled by whether it returns a root,
an error or panics: it panics on a child that is nil, and `PutBitlist` on more bits than its
limit, which the encoder does not refuse. What a root is belongs to fastssz. `Receiver` calls the methods in
any order on a new object or one that a caller filled in, with buffers that are encodings of
sample objects, cut short, blanked at the end, with a gap, or with an offset moved.
The text and JSON forms are not recursive; they are in a module apart, `TextReceiver`, so that
they can be proved about for all texts (`Texts`, `Jsons`), of which a run has samples.

## 3. Runs

Passing runs:

| run | question | bounds |
|---|---|---|
| `ConsensusHostile` | is the chain sound whatever the engine does? | 5 ticks from the countdown on, epochs of 2, reorgs up to 2, two stored PoW blocks, lost ticks, every fake and fault |
| `MergeMock` | does the engine mock pass a bounded test, in time or late, and do the chains agree? | slot bound 4, 5 ticks, epochs of 2, gaps, reorgs up to 2, cache of 2 entries (one payload), one late goroutine |
| `Lifecycle` | does the prologue reach the right block, is what it mines a tree, and does an interrupt end every command? | three commands, 2 interrupts, slot bound 4, a database with one block, terminal difficulty 10 (two more blocks, with siblings), reorgs up to 2 |
| `Codec` | do encoders and decoders fit together on objects that are reused? | 9 containers (with their parts, all 21), all text and JSON types; lists of 0 and 2, and bits that fit the hasher once but not twice; offsets and ends off by 4; two calls |
| `ConsensusFinality` | are finality and proposals consistent without deep reorgs? | 7 ticks from the countdown on, epochs of 2, lost ticks, every fake, drifting payloads of a builder; `SlotBound` 11, which the run reaches only if every second tick is lost |
| `EngineRace` | are ids, cache and chain right under interleaving? | 4 requests, a fork at genesis, a cache of 4: two payloads fit, a third evicts |
| `RelayCalls` | are payloads revealed only to validators whose key was remembered with a bid, registrations sound, and nothing executed before the merge? | 3 calls, 2 engine requests, cache of 2, two validators, one PoW block |

Runs that show a disagreement between the code and what the repository says of it:

| run | the code does | the repository says |
|---|---|---|
| `ConsensusReorgNil` | goes on with a nil parent, and panics | "building on an ancestor" |
| `ConsensusStaleId` | proposes a payload in a later slot than it was built for | "proposing next slot!" |
| `EngineTerminal` | refuses a parent that meets the TTD | "does not meet ttd" |
| `RelayBid` | reveals another block than the signed one | test "Call getPayload with correct signature" |
| `LifecycleSilentClient` | waits for a silent client without a deadline, and `Close` waits with it | "so we can stop it at any time" |

With a second validator `BidIsHonoured` fails in another way: a `getHeader` of somebody
else overwrites `latestPubkey` and a correct signature is refused. One more disagreement
needs no run: `consensus.go` 395 says that head and safe hash are the same, and the code
sends the finalized or the zero hash as safe.

Further observations that need no run, or for which the repository says nothing to
compare with:

* `relay.go` 219 compares the wrong way round (`TimestampOk`): a registration is refused when the
  stored timestamp is less than or equal to the new one, so an older registration replaces a
  newer one and a newer one is refused. The test "Old registration" (`relay_test.go` 160-178)
  expects `errInvalidTimestamp` but sends equal timestamps, for which both directions agree.
* `types/builder.go` 116 limits `ExtraData` to 32 bytes, the generated code to 2048.
* `p2p/server.go` 74 says that `Peer` performs "both the protocol handshake and the status
  message exchange"; after a ping it performs only the former, and
  `PeerCanFollow` has to leave out such a client.
* An interrupt during the start cancels a context that `Run` hardly uses, and is then gone: a
  command that starts all the same has to be interrupted again.
* Aggregation bits that were decoded into twice can be encoded again, up to 2048 bytes, while
  `HashTreeRoot` panics beyond 256 (`EncodedIsHashable` leaves out exactly these objects).
* A `NewBlock` message carries the total difficulty of the head, not of the block.
* A decoder of text other than `Signature` accepts what does not parse and keeps its old
  value; `Bloom` accepts any length.
* With `ReorgFreq` at 1 the prologue need not end.
* A database that is already past the terminal difficulty gets one more proof-of-work
  block.

`MergeMock` leaves bad hashes out of `Faked` because of `ConsensusStaleId`: with
them the mock itself causes an exit with 1. `ConsensusFinality` sets the reorg depth to
0 because a deeper reorg may abandon `nextFinalized`, which `ConsensusReorgNil` shows.

**Why the bounds are enough.** A stale id needs three ticks, a reorg across an epoch
boundary four, a nil parent six; the eviction of a payload id needs more payloads than half
the cache; the races of the relay need two calls and a third that observes them. A forkchoice
update that overtakes its payload needs one late goroutine; an interrupt that waits for the
prologue one interrupt, and one that is lost to the start a second; two branches of equal
difficulty need two nonces and one block more than a reorg; what one call leaves in an object
shows in the next, so two calls per object are enough, and a list of two has offsets that
point past an element. Each
property has a mutant, a plausible bug in one definition, which the same run finds
within these bounds.

**Assumptions that are not in the code.** `EngineTimely` and an empty `late` are the intended
use (slots of 12 seconds against a local engine); the properties and theorems that need it
say so. In `EngineBackend` no client offers a payload that the engine sealed before it was
given it: a payload commits to randomness that is drawn afresh.

**Fairness.** `MergeMock`: weak fairness of the slot loop and of the goroutines that are not
late. The ticker keeps firing and the Go scheduler runs a ready goroutine; the loop never
blocks outside its select. `BoundedRunTerminates` needs only the loop: goroutines that are
late may be stuck. `Lifecycle`: weak fairness of `main` and of the prologue except at
`AwaitsClient`, where the code has no deadline and a client may stay silent for ever; so
`LateInterruptStops` has a silent client as its other outcome, and the run
`LifecycleSilentClient` shows that it is one. (The protocol handshake has a deadline of ten
seconds.) Nothing is assumed of the start of a command, of the slot loop or of a ping on its way.
Strong fairness of mining on the head, since every block draws again whether to reorg, with
a frequency below 1: without it TLC finds the run in which every block is a reorg. Strong
fairness of the end of the pings: the keep-alive goroutine is back at its select after every ping
that the client takes, with a context that is done and a ticker of twenty seconds.

**Deadlock** is not checked: the process exits, and clients make a bounded number of
requests or calls.

**Symmetry** is used for requests and calls, which occur in no expression but as
indices. The properties checked with it are invariants and step properties.

## 4. Proofs

Every safety invariant of the passing runs is a theorem, those of the SSZ containers excepted,
and so is every refinement: of `ChainTree` by each chain, and of `ConsensusNode` by the two mocks
together. They hold for every stored chain, epoch length, reorg depth,
cache size, number of ticks, requests and calls, and set of fakes and faults that the
assumptions of the modules admit. Hypotheses beyond those assumptions are stated in the
theorems; they are about constants, and for the theorems that state a property of a passing run
the MC modules assume them (`HypothesesHold`), so that TLC shows that the instances meet them.
Four theorems about the consensus mock state no such property: they say under which settings a
disagreement of section 3 cannot occur.

### The consensus mock against any engine (`ConsensusNode_proofs`)

* `TypeCorrect`, `MergeIsNeverUndone`, `ChainRefinement`: `TypeOK`, `TransitionBuried`,
  `ImplementsChainTree`.

They follow from `Invariance`: `Spec => []IInv`. `TransitionBuried` is not inductive. A
late payload is inserted long after the forkchoice update that asked for it, so the
invariant must say that the block *behind every id* is above the terminal block
(`TaskInv`), that an id in the channel or in a proposal leads back to such a block, that
what the loop may build on next is above it too, also between `calcReorgTarget` and the
build, while the head may move (`LoopInv`), and that the database holds all ancestors of its
blocks (`KnownClosed`), so that a reorg target exists in it. `LoopInv` also says that the
goroutine of the present tick is not spawned yet, which keeps a new goroutine from
overwriting an old one. The step from the head to a reorg target is
`ReorgTargetIsMerged`: a prefix of the head that is no shorter than the terminal block
has it as a prefix. The facts on sequences behind this are the lemmas of
`MockChain_proofs`.

The assumptions are `ConstantsAssumption` and `NoHashAssumption`: types, a transition
block that is on the stored chain, and that no block hashes to zero.

### Its clock, its turns, its finality (`ConsensusNode_proofs`)

* `TimeRunsForward`: `SlotsIncrease`, if the slot grows from tick to tick and the stored blocks
  are in order and not from the future. The ticker computes the slot from the time, so it
  grows, by more than one if ticks are lost. `ClockInv` says in addition that no block is from
  a later slot, nor from the present one while the loop is about to build for it; that a
  goroutine belongs to the slot of its tick, and the block behind an id is not later than it;
  and that a retrieved payload is later than its parent, which is where a payload for the slot
  *after* the one of its forkchoice update is needed, and `ValidateTimestamp` against the
  drifting ones.
* `NoProposalLeaks`: `OnePendingProposal`, with a timely engine. `TimelyInv` says that the loop and
  the goroutines take turns: who is busy is of the present tick, while the loop is idle and
  the channel is empty.
* `FinalityIsConsistent`: `FinalityIsPrefix`, with a timely engine and reorgs of depth 0.
  `LinearInv` says that whatever is built, pending or retrieved is on the head.

Deep reorgs refute the last one: `ConsensusReorgNil`.

### Where its promises end (`ConsensusNode_proofs`)

`ConsensusReorgNil` and `ConsensusStaleId` show that two comments of `consensus.go` are not true in
general. These theorems say when they are, all with a timely engine:

* `ShallowReorgsAreSafe`: with reorgs of at most one block, `calcReorgTarget` finds an ancestor of
  the head (`ReorgBuildsOnAncestor`), the loop never meets a nil parent, and every forkchoice
  update names the head, whatever the engine answers. `ShallowInv` says that the head never gets
  lower than what is final or next to be: a block on the head or on its parent is as high as
  the head. With a depth of 2 the head may get lower than the finalized block, and the
  canonical chain has no header of its number: `ConsensusReorgNil`. The bound is tight.
* `HeadIsPursued`: with a clock that advances, `ForkchoiceNamesHead` and `HeadInv`, however deep the
  reorgs: whatever is pending, retrieved or executed is on the head. A block of the present slot
  is later than all others (`ClockInv`), so it is not on the canonical chain already.
* `ProposalsInTime`: `ProposalForItsSlot`, if no tick is lost and no made-up hash is sent.
  `PendingInv` dates what waits in the channel: it is of the last slot once the loop works for a
  slot, of the present one before. A gap slot takes the id out, a slot with a made-up hash
  does not (`ConsensusStaleId`), and a lost tick makes an id old at once.
* `TimelyNodeSucceeds`: `NoSpuriousFailure`, under the same hypotheses and with an engine without
  faults, with a builder or without, whatever gaps and reorgs are faked. `NodeSuccessInv` says
  that an external block is dated by its goroutine and a payload by its proposal, so
  `ValidateTimestamp` passes; that the payload is on the head makes its parent known, and that the
  id leads to the head means that a builder has something to offer. TLC finds an exit with 1 as
  soon as a tick may be lost or a made-up hash sent.

### The engine (`EngineBackend_proofs`)

* `EngineTypeCorrect`, `IdsAreFaithful`, `EngineKnowsItsOwn`: from
  `EngineInv`. It says of every entry of the cache that the engine built it on a block it knows,
  and under which id; of every request that has an id, which payload it stands for, at each
  of its four steps; and that ids are given out once. An entry under an id outlives the
  request, so both sides are tied to the block, whose last seal carries the id.
* `NothingEvictedEarly`: `NoEarlyEviction`. The keys that were ever added are at most two per
  preparing request; as long as that many fit, `EvictionInv` says that all of them are still
  there and that no entry is older than there are keys.
* `EngineRefinement`: `ImplementsChainTree`.

`EngineAssumption` says, besides types, that there are finitely many requests and that
what clients offer of their own was not sealed by the engine.

### The relay (`RelayBackend_proofs`)

* `RelayTypeCorrect`, `OnlyBiddersSee`, `RevealsOnSignedParent`, `RegistrationsStand`,
  `SignersOnly`: from `RelayInv`, which adds to `EngineInv` what each call knows at its program
  point. For `OnlyBiddersSee` it says that `latestPubkey`, torn or not, is no key or one that was
  sent with a `getHeader` that found a bid and got as far as remembering it. That the bid was
  answered does not follow: the payload may be revealed before the answer, or after the answer
  failed.
* `EngineBesideRelay`, `RelayEvictsNothing`: what is proved of the engine survives the relay,
  whose lookups change the order of the cache.
* `NothingBeforeTheMerge`: `NoPayloadBeforeTTD`. The difficulty of a block is at most its total
  difficulty, so the engine's wrong comparison errs on the safe side here.

### The prologue and the process (`Lifecycle_proofs`)

* `ExitIsClean`: `CleanExit`. `CloseInv` says that `main` gets past its select only with a command
  that started, and past `Close` only with one that took the token; that everything the command
  opened stays open until then; that the slot loop comes after the terminal block; and which
  three ways lead to exit code 0.
* `StopsAtFirstTerminal`, `ClientCanFollow`: `TerminalIsFirst`, `PeerCanFollow`, for a database below
  the terminal difficulty (where a run that was stopped in the prologue leaves it), and given
  that a total difficulty is a number, which is an induction over a sum. `PrologueInv` says
  that while it mines every block of the database is below the terminal difficulty, the one
  just mined excepted, and that a client knows the ancestry of whatever it was announced.
* `MinerRefinement`: `ImplementsChainTree`, without these hypotheses.

### The two mocks together (`MergeMock_proofs`)

* `MockInvariance`: `MockInv`, however late the engine is. It joins `IInv` with the state of every
  call: at which point of its goroutine it was made (`CallOrder`), what an id was given out for
  (`AskInv`, `IdsDistinct`), that the cache holds nothing else (`CachedInv`), that a proposal gets
  what was asked for with its id (`GetInv`), and that the engine is sent known blocks only, by
  calls that were given up as well (`SendsKnown`).
* `MocksAgree`: `ChainsAgree`, without hypotheses. When nobody is late, `SyncInv`: the two chains
  differ by the one block that is being sent, whose parent the engine has.
* `ForkchoiceFollowsHead`: `TimelyForkchoice`, with the hypotheses of `TimeRunsForward`. A block that
  was just built is later than every other, so it is not on the canonical chain already, and
  becomes the head.
* `TimelyMocksSucceed`: `TimelyRunSucceeds`, if no tick is lost, no made-up hashes are sent (see
  `ConsensusStaleId`), payloads add up, and the cache has room for two entries (it has ten).
  `SuccessInv` follows an id through its life: cached beside the entry for the relay, pending
  until the next slot and no longer, cached still when the proposal asks for it, its payload
  for the slot of the proposal and on a known block.

`MockInvariance` and `MockClock` prove `IInv` and `ClockInv` of the two mocks directly, not
through the refinement: they need none of its hypotheses, and `TimelyMocksSucceed` needs both in
the names of `MergeMock`.

### The engine mock is an engine (`Renaming_proofs`)

* `MocksImplementNode`: `ImplementsConsensusNode`, if payloads come from the engine and not from a
  builder, payloads add up, and the stored chain holds no payload of an engine (`StoredByOthers`:
  the counter of a new engine starts again, so ids in stored payloads would be ambiguous).

`ConsensusNode` names a payload after the tick that asked for it, `MergeMock` after the engine's
counter. `Renamed` takes the one to the other through the forkchoice updates made so far, so two
things are to be shown beside the steps. The renaming must be one to one, and keep ancestors,
parents, children, prefixes and insertion: `RenamedAncestor` to `RenamedParent`, from ids being
given out once (`IdsDistinct`) and every id in a block having been given to somebody (`NamesInv`,
the invariant this theorem adds to `MockInv`). And names must not change when the engine gives
out another id: `RenamingKept`, by which all steps of the engine are invisible to
`ConsensusNode` (`EngineStepInvisible`). Then every step of the loop and of a goroutine is the
step of the same name there, with the same answer of the engine; only the retrieval of a payload
differs, where `GetInv` shows that what the engine returns is what `ConsensusNode` says it
builds (`RenamedPayload`).

### The text forms (`TextReceiver_proofs`)

* `TextTypeCorrect`: whatever arrives, an array keeps its width and a JSON object its fields.
* `TextDecodeForgets`: `TextForgets`, which is what `DecodeForgets` says of text and JSON. A decoder
  that succeeds need not overwrite everything (`KeepsOldText`), so the invariant `TextInv` adds
  `NewStaysNew`: the types that could show an old value are left alone by a decoder that fails, so
  that the first that succeeds meets a new object. `ExecutionPayloadV1` is the type that is half
  written by a failure; it is overwritten as a whole by a success.
* `ArraysNeverMix`: `TextNeverMixes`, for all texts.
* `BaseFeeRoundTrip`: `BaseFeeSurvives`, for all 256-bit numbers. `SetBytes` drops leading zeros,
  `FillBytes` puts them back (`LeadingZeros`, `FillSetBytes`), and the two reversals cancel
  (`U256RoundTrip`), although what lies between is another number.

`TextAssumption` says that a text parses to bytes or does not, and that JSON has some of the fields
of its object.

### Only model-checked

* `BoundedRunTerminates`, `LateInterruptStops`, `PingsEnd`: liveness under fairness is out of
  the prover's reach.
* `DecodeForgets` for containers, `DecodedIsUsable`, `SizeIsLength`, `EncodedIsHashable`: `SszCodec`
  is recursive over the schema, and what a recursive operator computes for every object is an
  induction over data, which the prover cannot do.

## 5. Not modelled

* The value of a hash tree root, of a block hash and of a signature.
* Fields that the conversions of `types/builder.go` only copy.
* Transactions, state, gas and receipts: a payload adds up or does not.
* JWT, HTTP and websocket servers, RLPx, logging, and the read-only `eth` queries.
* The outcome of `ListenAndServe`, which the code drops.
* The two calls of a consensus mock to a builder, `getHeader` and `getPayload` (`consensus.go` 437
  and 462): they are one step of `ConsensusNode`, which returns a payload or fails. What may
  happen between them at a relay is in `RelayBackend`.
* A registration without a `message`: the handler panics, which `net/http` recovers from, and no
  state has changed.
* In `getHeader` and `getPayload`, the refusal of a payload that does not convert: those in the
  cache were built by the engine, and convert.
* The errors of `json.Unmarshal` on malformed JSON, which return before anything is written.
* The flags `--ignore` and `--finality`: the code reads neither.

## 6. State of the project

The chain, the three mocks, their composition, the prologue, the process and the codecs are
modelled; there is a theorem for every safety invariant that is not about SSZ containers, and for
every refinement. What is left to TLC is liveness and the SSZ containers.
