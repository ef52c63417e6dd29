# A specification of pulse-protocol-go

pulse-protocol-go is the Go library of the Pulse consent protocol. A *grantor* seals a data-sharing
consent for a *grantee*; both sign it; a *mid-tier* service pins it on IPFS and registers it on chain;
either signer may later revoke it. This directory models the library in TLA+, checks the models with
TLC on small instances, and proves their main invariants with TLAPS for all values of the constants.

The first part below is the inventory of the system, the second the models that exist, the third the
plan for the rest.

## 1. The system

| part | source | state it keeps | operations |
|---|---|---|---|
| consent engine | `consent/inbound.go`, `callback.go`, `revoke.go`, `sync.go`, `engine.go` | none of its own: records and cursor are in the application's `ConsentStore`, indices and xpubs in its `CounterpartyDirectory` | `HandleInboundConsent`, `ApproveConsent`, `RejectConsent`, `RevokeConsent`, `HandleTransactionCallback`, `Synchronize`, `HandleXpubRequest(ByDID)` |
| consent check | `consent/check.go` | none | `CheckConsent` |
| mid-tier client | `consent/midtierclient/` | none | `SubmitGrant`, `SubmitRevoke`, `GetConsentsSince` over HTTP |
| mid-tier service | not in the repository | transactions, event log | pins, submits, reports |
| registry | `registry/memory.go` | slot per counterparty, consent number per slot and chain, a mutex | `LookupOrCreate`, `Lookup`, `NextConsentNumber` |
| HD wallet | `crypto/hdwallet.go`, `crypto/purposes/` | the master key | derive keys along m / 4410704' / party / chain / number / purpose; seal, open, sign |
| signing | `crypto/signing.go`, `verify.go` | none | build and sign the message over CID, contract, chain; recover signers; was the revoker a signer of the consent |
| record encryption | `crypto/internal/key_exchange`, `key_encapsulate` | none | EC for two parties, PQ for several recipients |
| primitives | `crypto/internal/hkdf`, `symmetric`, `context`, ... | none | HKDF, AES-GCM, associated data |
| codecs | `ipfs/` | none | DAG-CBOR of the records, CIDs, version and scheme dispatch when decoding |
| wire types | `types/` | none | structs and JSON |
| examples | `crypto/examples/` | none | two programs: Alice grants Bob a consent and revokes it |

How they interact. An application calls the engine from its HTTP handlers and timers. The engine
derives keys and signs through `crypto`, encodes through `ipfs`, and reads and writes its records
through the interfaces of `consent/interfaces.go`. It calls the mid-tier to submit; the mid-tier answers
later through callbacks, which the application passes to `HandleTransactionCallback`, and through the
event log that `Synchronize` fetches and replays through the same method. The registry (or the
application's directory) numbers counterparties and consents; the numbers become HD path components.

What is hard about it:

* `ConsentEngine` has no goroutine and *no lock*. Every method is read record, compute, write record,
  call out. Two methods at work on one record interleave at each of these calls.
* Status reports come by two routes (callback and log), late, repeated, reordered or never, for a
  grant and a revocation of the same record at the same time.
* The process may die, or an interface may fail, between any two steps: after the record was stored
  and before the grant was submitted, after an event was applied and before its cursor was stored.
* The registry runs out of indices at the border to the hardened ones, inside a uint32 that wraps, and
  several goroutines are in its methods at once.
* `CheckConsent` judges a copy of a record by a clock that it reads later.
* The key paths have a sentinel (slot 0) and several purposes that must not be confused.
* Decoders try four record formats in turn.

What makes each part correct: the engine's records never say more than the chain (StoreIsBacked), grants
go out only decided, stored and signed once, terminal records are final, announcements are true
and made once, and a repeated sync catches up. The registry's slots and numbers are unique, stable and
in range. The wallet's two parties derive the same shared secret and nobody else's path coincides. A
signature covers what it must; a revocation verifies only for a signer of its grant. A decoder
returns what was encoded or an error.

## 2. The models

| module | what it is |
|---|---|
| `ConsentTypes` | the statuses of `consent/types.go` |
| `MidTier` | the environment: transactions, the callbacks they may cause, the event log |
| `ConsentEngine` | the engine: one action per step of each method; properties |
| `ConsentLifecycle` | the abstract specification: what is promised of a consent's status and announcements |
| `MCConsentEngine` | the values the configurations give to the constants |
| `ConsentCheck` | `CheckConsent` beside the running engine |
| `MCConsentCheck` | its instance: two consents for one question |
| `ConsentCheckProofs` | theorems on `ConsentCheck` |
| `ConsentEngineProofs` | inductive invariants and theorems on `ConsentEngine` |
| `ConsentEngineSerialProofs` | the same when no two calls write one record at once, and the refinement of `ConsentLifecycle` |
| `MemoryRegistry` | `registry/memory.go`, and its properties |
| `MemoryRegistryProofs` | theorems on `MemoryRegistry` |
| `RegistryCalls` | its methods statement by statement, with threads and the mutex; implements `MemoryRegistry` |
| `RegistryCallsProofs` | that it does, and what follows |
| `HDWallet` | key paths and purposes, both sides of their derivation |
| `RecordEncryption` | sealing and opening with ECDH and with encapsulated keys |
| `RecordEncryptionProofs` | theorems on `HDWallet` and `RecordEncryption` |
| `RecordCodec` | the maps that records are encoded as, and their detection |
| `SignedRequests` | sealed and signed consents and revocations, and their verification |
| `SignedRequestsProofs` | theorems on `RecordCodec` and `SignedRequests` |
| `ConsentExchange` | parties with a wallet and a registry each, composed of the modules above; properties |
| `Examples` | the two example programs, run by the parties of `ConsentExchange` |
| `MCConsentExchange` | the symmetry used to check both |
| `ConsentExchangeProofs` | the invariant of `ConsentExchange` and theorems on it and on `Examples` |

Operators whose comment begins with *Slip* are faulty variants of the definition they stand beside: a
dropped guard, a wrong status tested, a cursor stored too early. No specification uses them. They are kept
because each shows one property to be sensitive to the code it is about: with the slip in place
of the definition, TLC finds the property violated.

### 2.1 MidTier

The mid-tier is not in the repository, so the module is an overapproximation taken from how `consent/`
uses it. A transaction is the *set* of statuses it has reached (`grantTx`, `revokeTx`); it only grows. A
callback may carry any reached status, at any time, any number of times, or never: that is loss,
duplication, delay and reordering in one definition (`Callbacks`). `chainLog` is what
`GetConsentsSince` returns, in order; the opaque cursor is a position in it. `Logged` says which statuses
the log has. `midtierclient` casts the status on the wire to a `TransactionStatus` unchecked, so the log
may contain a status the engine does not know (`LogsForeign`, once). Events whose status is in `Uncursored` come
without a cursor, which `sync.go:74` allows for; then the stored one stays where it is. A revocation confirms only after
its grant did; the other party may revoke too. Revocations are `RevokeRecord`s up to what they say of
their grant: `of` is the consent, `ref` the CID the signature binds, `inner` the GrantCID in the
encrypted payload.

### 2.2 ConsentEngine

`Calls` is a set of activations of engine methods; `call[t]` holds an activation's program counter and its
local variables, above all `rec`, the copy of the record it read. A method is cut at its calls through
the interfaces, since these are the points where other activations (other requests of the same process,
or other processes on the same store) get in:

| code | actions |
|---|---|
| `HandleXpubRequestByDID` | `HandleXpubRequestByDID` |
| `HandleInboundConsent` | `InboundReceive` (or `InboundGarbage`), `Review` (or `ReviewFails`), `StoreSet`, `SubmitGrant` |
| `ApproveConsent` | `Approve`, `StoreSet`, `SubmitGrant` |
| `RejectConsent` | `Reject`, `StoreSet` |
| `HandleTransactionCallback` | `Callback`, `StoreSet`, `OnTransactionUpdate`, `OnConsentRevoked` |
| `RevokeConsent` | `Revoke`, `SubmitRevoke` |
| `Synchronize` | `SyncStart` (cursor), `SyncFetch`, then per event `SyncEvent` (first Get), `SyncHandle` (second Get), `StoreSet`, `OnTransactionUpdate`, `OnConsentRevoked`, `SetSyncCursor`; `SyncDone` |

A step that reads also computes the record to be written, because nothing shared is read in between. An
error return that changed nothing is a stutter. Failures that leave something behind are actions:
`StoreFails`, `NetworkFails`, `ReviewFails`, `OnTransactionUpdateFails`, a handler error in
`OnConsentRevoked` and `Crash`, which empties every activation and keeps the store, the directory and the
mid-tier. A lost *answer* to a delivered request needs no action of its own: in each method the
request is the last thing done, so error and success leave the same state.

`Redelivery` lets a sealed consent be delivered again after it was ingested. `MissingIsError` chooses
between a store whose `Get` fails on a missing record, as `interfaces.go:40` says, and one that answers
nil, which is what the engine's methods test for and what the stub store of its tests does. The theorems are about both. In
`catchup` `Get` fails; the other runs have one that answers nil. With the former, Synchronize gets on as long as every event is of a
consent that the store has: `catchup` shows that none is logged before its record is stored. An event of a consent that the store
never had, one of an earlier device for example, ends every pass before its cursor is stored (`sync.go:56`), as the event of unknown
status does in `stall`. No run repeats that: it is `stall` with `MissingIsError = TRUE` and the consents and log of `atomic`.

`OnConsentRevoked` is given the revocation's CID from the record (`callback.go:87`), which knows it from an earlier
report. `SyncAnnouncesCID` claims it of `Synchronize`, whose reports come in order; after a callback the CID may be
missing, or be that of another party's revocation.

Stores hand out copies. A store that hands out a pointer to its own record, as the stub of the tests
does, would make changes visible before `Set`; the interface does not ask for that and the model leaves
it out. `decided` and `notices` are history variables; the engine does not read them.

What is left out of a record: party, feed type, numbers, payload, keys and times, none of which changes
in the lifecycle. Signatures are the number of the engine's own.

### 2.3 MemoryRegistry, RegistryCalls

In `MemoryRegistry` a method is one action. `MaxIndex` stands for 0x7fffffff and `Width` for 2^32, in the same ratio.
The consent counters are modelled for every uint32 slot. `times` counts how often each number was handed out.

`RegistryCalls` justifies that grain. Each thread has a program counter and steps through `memory.go`:

| code | actions |
|---|---|
| `r.mu.Lock()`, `defer r.mu.Unlock()` | `Lock`, `Unlock` |
| `LookupOrCreate` | `LookupOrCreate`, `Lock`, `Find` (43-49), `IncrementPartyNo` (50), `Assign` (51), `Unlock` |
| `Lookup` | `Lookup`, `Lock`, `Look`, `Unlock` |
| `NextConsentNumber` | `NextNumber`, `Lock`, `Count`, `Store`, `Unlock` |

`CallsAreAtomic` is the refinement of `MemoryRegistry`. The abstract `identifiers` is that of the code, except while a thread
is between the two writes of an assignment: then the identifier counts as assigned already. So the abstract step is the
increment. `AnswersAreCurrent` and `CallsReturn` say what the refinement cannot: what a caller is told, and that it is told.
Fairness: a method that runs goes on (weak), and a waiter gets the mutex at some time (strong), which Go's
`sync.Mutex` ensures by its starvation mode.

### 2.4 Wallets, records and requests

`HDWallet`, `RecordEncryption`, `RecordCodec` and `SignedRequests` have no state; their operators carry the
names of the functions they model. A key is named by its place in a wallet's tree; a private key and its
public key share the name. A derived key is the record of all it is derived from (secret, transcript, recipient,
context); a ciphertext holds its plaintext, key and additional data, and opens for the same key and
data only. A signature recovers to its signer for the message that was signed, and for any other message to an
address nobody has a key of. A block is a map with its type and version; its CID is one-to-one. So the
primitives are ideal, and what is modelled is how the library uses them: which key on which path for
which purpose, what a key, a seal and a signature are bound to, which key of a record the opener takes
for its own, what a verifier recomputes. `Failed` is the result of an operation that returns an error. Lists that the
code sorts before it hashes them are sets. Of the payloads, `RecordCodec` keeps the fields that other parts use.

`ConsentExchange` gives each party a wallet, a registry and the extended keys it received:

| code | action |
|---|---|
| `registry.LookupOrCreate` | `LookupOrCreate` |
| `HandleXpubRequest`, and the caller that keeps the answer | `HandleXpubRequest` |
| a grantor's application: `NextConsentNumber`, payload, seal, sign | `Grant` |
| `HandleInboundConsent`: open, keep an extended key, counter-sign | `HandleInboundConsent` |
| `RevokeConsent`: notary block, payload, seal, sign | `RevokeConsent` |

The engine handles ECDH records, as grantee. The grantor's side and all of PQ belong to an application and are
modelled from the library's public functions and its two examples. Status, review, storage,
repeated delivery and the mid-tier are left to `ConsentEngine`. A PQ public key cannot be derived from an extended
key, so the sender is assumed to have received it. Random bytes and timestamps are numbers that do not
repeat.

`Examples` has the two programs as what they compute, one operator per step, for a run: two wallets and the
coordinates under which each party sees the consent. The programs fix the slots to 1 and 2; here the slots are those that
two parties of `ConsentExchange` happen to have for each other, equal or not, 0 included. The EC program does what its header
says unless Bob's slot for Alice is 0. The PQ program gets to its last step and there prints that Alice is *not*
authorised, as it recomputes the revocation's CID from another block than was signed.

### 2.5 CheckConsent

`ConsentCheck` adds a reader to the engine: `CheckConsent` takes what `FindActive` returns, `Answer` reads the clock and
judges the first record. Between the two the engine may do anything. Which record is first is open, as no order is promised.
`filters` is chosen at the start: a store that leaves out expired records, as `interfaces.go:46` asks, or one that does not,
as the stub of the tests. `lapses` is a history: how often the answer was "expired".

An "active" answer is always true of the chain and unexpired at the moment it is given, with either store
(`ActiveAnswersHold`): this is what the check in `check.go:30` adds. It may be about a consent revoked meanwhile, but a
question asked after the revocation was announced does not find it (`DeadIsNotFound`). With a store that filters,
"expired" is answered at most once for each consent, when it expires between the two steps (`ExpiredInPassing`); afterwards the
answer is "not-found", whatever `types.go:60` says. With one that does not, an expired record may hide a valid one for good.

### 2.6 What is checked

| run | instance | properties | result |
|---|---|---|---|
| `concurrent` | 1 consent, 1 own revocation, 2 calls, all faults, redelivery | `TypeOK`, `StoreIsBacked`, `NoticesAreBacked`, `GrantsAreAccounted`, `SubmittedSignedOnce`, `RevocationsBindGrant` | holds |
| `atomic` | 1 new and 1 pre-existing consent, 1 revocation by the other party, 2 calls that are not both between the read and the write of one record, all faults, confirmations without a cursor | `RevokedNoticeOnce`, `SyncAnnouncesCID`, `SyncedIsReflected`, `RejectedNeverSubmitted`, `KeepsLifecycle`, `TerminalIsFinal` | holds |
| `catchup` | 1 consent, 1 revocation, 1 call, expiry, all faults, all grant outcomes, confirmed revocations without a cursor, a `Get` that fails on a missing record | `CatchesUp`, `CursorMovesOn`, `CursorNeverRewinds` | holds |
| `check` | 2 consents of one party and feed, 1 own call, 1 question, failing handler, stores of either kind | `ReaderTypeOK`, `ExpiredInPassing`, `ActiveAnswersHold`, `DeadIsNotFound` | holds |
| `registry` | 2 threads, 3 counterparties, 2 slots, 1 chain | `TypeOK`, `SlotsAreDistinct`, `NumbersAreIssuedOnce`, `NumbersCountFromZero`, `AnswersAreCurrent`, `SlotsAreStable`, `CallsAreAtomic`, `CallsReturn` | holds |
| `exchange` | 2 parties with 1 further counterparty, 2 slots, 2 numbers, 1 chain, 2 contracts, both schemes, 2 consents, 1 revocation | `TypeOK`, `OnlySlotZeroIsClosed`, `NotaryBlocksOpen`, `RevocationsVerify`, `SealingKeysAreFresh`, `BlocksAreDetected`, `ECExampleAuthorises`, `PQExampleTurnsSignerAway`, `KeepsRegistry` | holds |
| `race` | 2 calls, no fault | `RevokedIsFinal` | violated |
| `redelivery` | 1 call, no fault, redelivery | `TerminalIsFinal` | violated |
| `untold` | 1 call, failing handler | `RevocationIsTold` | violated |
| `stall` | 1 call, one event of unknown status | `CursorMovesOn` | violated |
| `payload` | 1 call, no fault | `PayloadsNameGrant` | violated |
| `pending` | 1 call, lost request | `PendingIsSubmitted` | violated |

The split between `concurrent` and `atomic` is a result. With calls that overlap at will, or grants
that are redelivered, terminal records are *not* final, and the runs `race` and `redelivery` give the
traces. What survives is that the record never claims more than the chain. What is lacking is one thing: that nobody
else gets in between the read and the write of a record (`OneWriter`), as a lock per record or a store with
transactions would ensure. Under `AtomicSpec`, with no redelivery, the engine implements `ConsentLifecycle` (refinement:
`status` is the stored status and `told` the number of announcements), and every event behind the cursor is applied, across crashes, though
reviews, submissions, announcements and whole syncs overlap. Only the order of the cursors asks for more, that no two syncs
overlap (`OneSync`); it is checked in `catchup`, which has one call.

`exchange` shows that what one party seals the other opens, though each addresses the other by
a slot of its own, that the notary opens what is sealed for it, that a revocation verifies exactly for a signer of the
consent it names and under its contract, that no party seals twice with one key, and that no block of either version is
taken for another kind. It also shows the one exception: when the receiver gave the sealer slot 0, the extended key it
shared is the root's (`hdwallet.go:155`), and an ECDH record sealed under keys derived from that is closed to
the receiver. The registry gives slot 0 to the first counterparty, while `engine.go:46` promises the key at
m/4410704'/{otherpartyId}. Each party's registry behaves as `MemoryRegistry` says (`KeepsRegistry`), `times` being mapped
to the consents granted.

The violated properties are statements of the repository's comments:

* `types.go:53` and `57`: revoked and rejected are terminal. A stale copy (`callback.go:70`) or a redelivered
  grant (`inbound.go:110`) overwrites such a record.
* `interfaces.go:75`: OnConsentRevoked fires once. If OnTransactionUpdate returns an error for
  rev_confirmed, the record is already revoked and nothing gets to OnConsentRevoked again.
* `sync.go:50`: a single bad event cannot stall the sync. One of unknown status does.
* `README.md:58`: the fallback for a missed ipfs_live. It reaches the signature, not the payload
  (`revoke.go:103`).
* `types.go:46`: pending means submitted. It is stored before the submission, which may fail for good.

Three statements are contradicted by what passing runs show the code to do instead:

* `registry.go:33`: numbers start at 1. They start at 0 (`NumbersCountFromZero`).
* `types.go:60`: CheckConsent returns "expired" for an active record that has expired. With a store that follows
  `interfaces.go:46` it returns "not-found" (`ExpiredInPassing`).
* `pq_encrypt_decrypt_sign/main.go:12`: the revocation's signer is confirmed to be the consent's. It is turned away
  (`PQExampleTurnsSignerAway`).

The slot-0 exception above is the fourth (`OnlySlotZeroIsClosed`).

Bounds. One consent is enough for the engine's safety properties because methods touch only the
record they are about; the one thing that relates consents is the cursor, and `atomic`
has a second, earlier consent in the log; and the answer of `CheckConsent`, for which `check` has two that match. Two calls suffice for a stale write; one
revocation for every transition of a record (a second one would repeat the same reports). In `concurrent` the
revocation is the engine's own and every status is reported, in `atomic` it is the other party's and the log has the outcomes and the
revocation's pinning; the theorems are about any of them. Reported statuses that change no field are
represented by one, "pending". The log is finite since each status of a transaction is logged once.
In `registry` three counterparties exceed the two slots, so that a slot past the border is handed out if a guard allows it. Two
threads suffice to interleave, as each method is about one identifier or counter. The theorems remove these bounds
for the properties they cover. In `check` a second question would not interact with the first: readers change nothing.

In `exchange` two slots reach slot 0 and another one, and the further counterparty lets slot 0 be anybody's; two consents
compare numbers, keys and signers; two contracts tell a signature under the wrong one. The revocation may
be of either consent, by either party, before or after the counter-signature. Parties and contracts are symmetric.

Deadlock is checked in every run but `exchange`, where the bounds on consents and slots stop it.

Fairness. Of the engine's runs only `catchup` and the two liveness violations use `FairSpec`; for `registry` see 2.3. `Synchronize` is called
periodically (`consent/README.md`: "e.g. every 60 s"), hence strong fairness of starting a sync between
other calls; a call that started runs on (weak fairness of `Progress`); and each fallible step of a
sync that is tried over and over succeeds some time (strong fairness of each step). Fairness is by step and not by event, which is
enough for the log of one consent; with several consents and events without a cursor, a step could succeed for the one event
always and for the other never, and it would have to be assumed for each event. Nothing is assumed of callbacks,
of users, or of the mid-tier's progress: the liveness properties say that what *is* in the log gets
into the record.

### 2.7 What is proved

Every safety invariant, action property and refinement of the passing runs is a theorem, for all values of the constants. The
listed theorems, with the property of the runs that each states:

| module | hypotheses | theorems |
|---|---|---|
| `ConsentEngineProofs` | | `TypeCorrect` (`TypeOK`), `StoreBacked`, `NoticesBacked`, `RevocationsBound`, `GrantsAccounted`, `SignedOnce` (of `concurrent`) |
| `ConsentEngineSerialProofs` | `AtomicSpec`, `NoRedelivery` | `NoticeOnce`, `RejectedKeptBack`, `SyncedReflected`, `TerminalFinal`, `LifecycleKept` (`KeepsLifecycle`), `SyncCIDAnnounced` (also `PinsLogged`) (of `atomic`) |
| | `OneSync` | `CursorAdvances` (`CursorNeverRewinds` of `catchup`) |
| `ConsentCheckProofs` | | `ReaderTypeCorrect`, `ExpiredOnlyInPassing`, `ActiveHolds` (of `check`) |
| | `OneWriter`, `NoRedelivery` | `DeadNotFound` (`DeadIsNotFound` of `check`) |
| `MemoryRegistryProofs` | | `TypeCorrect`, `DistinctSlots`, `IssuedOnce`, `CountFromZero`, `StableSlots`, of the registry as one step per method |
| `RegistryCallsProofs` | | `CallsRefine` (`CallsAreAtomic`), `AnswersCurrent`, `CallsTypeCorrect`, `CallsDistinctSlots`, `CallsIssuedOnce`, `CallsCountFromZero`, `CallsStableSlots` (of `registry`) |
| `RecordEncryptionProofs` | | `KeysAreDistinct`, `SharedKeysMatch`, `RootKeysNeverMatch`, `BothPartiesOpen`, `BothRecipientsOpen` |
| `SignedRequestsProofs` | `FailedIsNoRecord` | `ConsentRequestsRoundTrip`, `RevokeRequestsRoundTrip`, `ConsentsAreDetected`, `RevocationsAreDetected`, `VersionOneIsDetected`, `PayloadsRoundTrip` |
| | | `RevokersAreSigners` |
| `ConsentExchangeProofs` | `FailedIsNoRecord` | `InductiveInvariant`, `ExchangeTypeCorrect`, `FreshSealingKeys`, `ClosedOnlyForSlotZero`, `NotaryBlocksAlwaysOpen`, `OnlySignersRevoke`, `EveryBlockIsDetected`, `RegistriesAreKept` (`KeepsRegistry`), `ECExampleHolds`, `PQExampleHolds` (of `exchange`) |

Beside their hypotheses the theorems use only the named assumptions that the modules make of their constants, which TLC evaluates
in the runs.

*The hypotheses.* `OneWriter` (no two calls are between the read and the write of one record, at any time), `OneSync` (no two syncs
overlap) and `NoRedelivery` say how the application and its store use the engine. `AtomicSpec` is `Spec` with `OneWriter`
kept by every step; an application that runs one call at a time, as in the instances `catchup` and `check`, satisfies it (`OneAtATimeIsAtomic`). Neither
condition can be dropped: `race` and `redelivery` refute what `TerminalFinal`
proves, the one with two calls, the other with redelivery. `PinsLogged` is that
`GetConsentsSince` reports pinned revocations. `FailedIsNoRecord` is that an error is not a function, hence no record:
in Go it is the second result. It quantifies over all sets, so it is a hypothesis of the theorems and not an assumption
that TLC could evaluate.

*The engine with overlapping calls.* None of the properties is inductive as a statement about the store, since what an activation
writes is a copy read long before. The mid-tier never takes back what it reported (`ChainGrows`), so what was true of a record when
it was read is still true when it is written (`StillBacked`). The inductive invariants speak of the copies in hand as well as of
the store: `TypeInv` says where each call is and what it holds, and that the log holds only what transactions went
through; `BackedInv` that every copy is backed by the chain; `SignedInv` that a copy awaiting review is unsigned and one
about to be submitted is decided and signed once.

*One writer at a time.* Then a copy is not stale when it is written, and the invariants may say more. `LifeInv` says what each call can
rely on (`HeldOK`, by program counter): between read and write, that the record is still the one that was read; before a review's
outcome is stored, that there is none; before a submission, that the consent is live; before an announcement, that the
record is revoked and nothing was announced. The first is what `OneWriter` protects. The others are stable under the
writes of the other calls, each of which finds the status its guard was tested on: a live consent stays live, a revoked record is not written, and a
missing one is written by its only ingestion (`ApartFrom`: no two calls ingest or announce the same consent). So does the
chain: an undecided or rejected consent has left no trace at the mid-tier. That gives `TerminalFinal`, `RejectedKeptBack`, `NoticeOnce`
and each step of the refinement of `ConsentLifecycle`. `SyncInv`: every event before the one a sync is at is reflected, which no write
of another call undoes (`WrittenReflects`); so the cursor may go back and forth between syncs, but never past what is not reflected, and a
crash leaves one behind which all is. `CIDInv`: a confirmed revocation is preceded in the log by its pinning, so the record that a sync revokes
has a CID, of one that was published. `CursorAdvances` rests on `AheadInv` alone: a sync is ahead of the stored cursor. TLC checked `LifeInv` and `SyncInv`
as invariants of the instance `atomic` before they were proved.

*CheckConsent.* `ReaderInv` says what a question that is being answered knows: its first record was confirmed on chain, which does
not change, and the answers "expired" so far are fewer than the consents that have expired. It is shown for the engine's
steps with no restriction on calls; only `DeadNotFound` needs `LifeInv`.

*The registry.* In `MemoryRegistry`: assigned slots lie below the next slot, and exactly the numbers below a counter were handed out,
once each. In `RegistryCalls`: whoever is between `Lock` and `Unlock` is the holder of the mutex (`ThreadOK`), hence alone, and
what it read of the registry is still so. An assignment takes effect for callers with the increment, the second write changes
nothing that `AssignedNumbers` shows. The theorems on `MemoryRegistry` are then instances at the mapped state, and
are carried back.

*Wallets and records.* `KeysAreDistinct` (places of the trees that differ have different keys), `SharedKeysMatch` and
`RootKeysNeverMatch` (the two halves of the slot-0 rule), what a record opens to (`BothPartiesOpen`, `BothRecipientsOpen`, the
lemma `NobodyElseOpens`), and for every codec that decoding gives back what was encoded and that the detection of
the four formats never takes one kind for another. They take the primitives to be ideal, as described in 2.4.

*The exchange.* The properties quantify over records that are functions of state at several times: the slots when a consent was granted,
the number that was next, the signatures it has now. The invariant `IInv` describes a record without that history: a consent
is one that was sealed and signed by its parties for the slots they *have* for each other (`IsConsent`), which is
preserved because slots are never given anew (`SlotsInv`); its number is below the grantor's counter (`ConsentsInv`) and
so different from the next (`NumbersInv`); a revocation names the block of a consent with its coordinates (`RevocationsInv`), and counter-signing
does not change a block. TLC checked the parts of `IInv` as invariants of the instance `exchange` before they were proved.
Each property then follows from what one or two such records are: `FreshSealingKeys` from `NumbersInv` and `KeysAreDistinct`,
`ClosedOnlyForSlotZero` from the theorems on sealing, `OnlySignersRevoke` from `RevokersAreSigners`, `EveryBlockIsDetected` from those on
detection. `RegistriesAreKept` maps each party's registry to `MemoryRegistry`, with the number of consents that took a number
for `times`. The two example theorems are about any two parties that know each other, and use no invariant.

*What the proofs changed in the models.* `Find` of `RegistryCalls` was a `CASE` whose arms overlapped; it is an `IF` now, in
the order of `memory.go:43-51`. `ConsentCheck` names the assumption that finitely many consents may expire, which its bound
`MaxLapses` takes for granted.

Only model-checked: the liveness properties `CatchesUp`, `CursorMovesOn` and `CallsReturn`, as fairness and ENABLED are out of the prover's
reach. The runs that show a violation (2.6) are counterexamples and have nothing to prove. That TLC's instances reach the
interesting cases is shown by the *Slip* variants.

### 2.8 What is not modelled

HTTP, JSON, CBOR byte layout, the computation inside the cryptographic primitives and the JSON of the wire structs have no
control state of their own. `types/consent_store.go` declares interfaces that nothing in the repository implements or calls.
Of the wallet and the codecs, the tests of arguments that the modelled callers never fail are left out: the purpose check of
`derivePublicKeyFromParent`, empty contract addresses, signatures that do not recover, iterators over malformed bytes.

Two hazards are excluded by a hypothesis rather than checked. If `ApproveConsent` and `RejectConsent` of one record overlap,
a grant that was rejected may be submitted: `OneWriter` rules that out. If two syncs overlap, the cursor may go back:
`OneSync` rules that out, while `SyncedIsReflected` is checked and proved with overlapping syncs.

The casts of `inbound.go:36` from int to uint32 are left out: indices are in range. A consent that was deferred may be approved
after it expired (`inbound.go:55` is the only check); the model lets it, and no line of the code promises otherwise.

## 3. Plan

1. *(done)* `MidTier`, `ConsentEngine`, `ConsentLifecycle`: the core. `MemoryRegistry`.
2. *(done)* `HDWallet`, `RecordEncryption`, `RecordCodec`, `SignedRequests`, composed with the registry in
   `ConsentExchange`.
3. *(done)* `ConsentCheck`; events without a cursor and the CID of announcements in `ConsentEngine`; `RegistryCalls` with the
   refinement of `MemoryRegistry`; `Examples`.
4. *(done)* Theorems on `ConsentEngine` with one writer of a record at a time and no redelivery, the refinement of `ConsentLifecycle` included; on
   `ConsentCheck`.
5. *(done)* The refinement of `MemoryRegistry` by `RegistryCalls` as a theorem.
6. *(done)* Theorems on `SignedRequests`, `RecordCodec`, `ConsentExchange` and `Examples`.
7. What redelivery, and calls that overlap at will, leave of `LifeInv`: which of its parts hold without `OneWriter` and `NoRedelivery`, stated
   as properties and proved (a redelivered grant is signed anew and once; a revocation is not announced before it is recorded).
