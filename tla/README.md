# Midnight DID: models and proofs

TLA+ specifications of the Midnight DID method as this repository implements it:
the ledger contract that holds a DID document, the authorizations that move it,
the API operations that callers make of it, the private-state store that keeps
the controller's key, the resolver that turns a ledger back into a document, the
documents of the domain crate, and the off-chain DIDs that carry a document in
their own text. TLC checks small instances; TLAPS proves the safety properties
for every value of the constants.

`PROJECT.json` is the index: components, runs, the line ranges that each
definition translates, the faulty variants that each property rules out, the
hazards of the code and the theorems. Paths below are relative to `src/`;
`api/`, `runtime/`, `domain/`, `method/`, `uniffi/` and `cli/` stand for
`crates/midnight-did-<name>/src/`.

## 1. The system

| Component | State it keeps | Operations |
|---|---|---|
| DID contract (`runtime/contract/generated.rs`, compiled from `did.compact`) | 19 ledger cells: keys, id, aliases, two maps of verification methods, five relations, services, two status cells, `version`, `operationCount`, timestamps, `contractVersion` | the constructor, 11 mutating circuits and one that only checks a signature |
| Contract wrapper and backends (`runtime/contract_wrapper.rs`, `contract_call.rs`, `backend.rs`) | none; `RecordingBackend` logs calls and returns a canned snapshot | one envelope per circuit, `submit_tx`, `read_snapshot` |
| Document operations (`api/verification_method_operations.rs`, `service_operations.rs`, `document_operations.rs`, `did_operations.rs`) | none between calls; a snapshot and a list of calls within one | add, update and remove methods, relations, services and aliases; deactivate; patches |
| Controller keys (`api/controller_operations.rs`, `private_state.rs`, `did_operations.rs`) | two slots, Active and Pending | create, rotate, recover, repair, deactivate and clear |
| Resolver (`api/resolution.rs`, `ledger_mappers.rs`) | none | ledger snapshot to DID document and metadata |
| Domain types (`domain/`) | the builder's draft | building, creating and parsing documents; validation of ids, JWKs, services; normal form of endpoints |
| FFI surface (`uniffi/`) | one handle with a mutex | the API, one call at a time |
| Off-chain DID method (`method/offchain.rs`, `midnight_did.rs`) | none | framing of chunks; short and long forms, made, parsed and decoded; projection to a document |
| CLI (`cli/flow.rs`) | a shadow ledger beside the recording backend | a scripted walk through the API |

How they interact. An API operation converts its arguments, perhaps reads a
snapshot, and makes one or several calls of `Contract<B>`; each is an envelope
handed to `Backend::submit_tx` and awaited. Proving, signing and the network are
behind that trait and outside this repository (`LiveBackend` is `todo!()`). The
contract accepts a call if it is signed by the right key for the version that the
ledger has at that moment. Key operations also move keys between the two slots
of a store, whose writes may fail. The resolver reads the ledger and validates
everything again.

What is hard:

- Several clients hold the controller key. Between the snapshot and the
  transaction, and between the transactions of one operation, others write.
- `remove_verification_method` is up to six transactions and `apply_patch` any
  number; both stop at the first error and leave the rest undone.
- An authorization may be delivered late, twice or out of order.
- A rotation spans a store write, a transaction, and two more store writes; it
  may be cut off after each, and the answer of `submit_tx` may be lost.
- Five relations and two maps are separate cells; each circuit checks what it
  changes against the others by hand.
- What the API wrote, the resolver validates again with other functions, and
  whoever gets the resolved document validates it once more.
- One id, one URI, one DID can be spelled in several ways, and the comparisons
  are spread over the code: some of the text, some of what it means.
- An off-chain DID comes from anywhere, and nothing but its own checks
  protects the reader.

What makes each part correct is stated as the properties below; the hazards they
are for are listed, line by line, in `PROJECT.json`.

## 2. The modules

```
DidLifecycle <-- refinement -- DidContract <-- ContractCalls <-+- DidAuthorization
     ^                                                         +- ApiOperations <-- Resolution
     +---- INSTANCE Chain ---- ControllerKeys                                          |
                                                        DidDocument <-- INSTANCE Domain +

IsoTimestamp (the resolver's dates)        Mod1Frame .. chunks .. OffchainDid
```

`XProofs` holds the theorems about `X` (`ApiProofs` those about `ApiOperations`
and `Resolution`, `DidContractProofs` also the lemmas about `ContractCalls`);
`MCX` holds TLC's values for it.

**DidLifecycle** is the abstract specification: a key in control, a recovery
authority, a document, a version, an active flag; three steps (amend, hand over,
deactivate). It knows nothing of cells, circuits or signatures.

**DidContract** (`generated.rs`) has one variable per ledger cell (the five
relations are one function; `contractVersion` is never written and left out) and
one action per mutating circuit, with the assertions in its guards in the names of the
generated functions (`AssertControllerCanUpdate`, `RecordUpdate`,
`AssertVerificationMethodIsNotReferenced`, ...). A failed assertion rejects the
transaction, so the action is not enabled. `...Tx` actions let any key sign the
call for any version up to the present one. `verifySchnorrJubjubDigestSignature`
writes nothing and is left out. A digest is the tuple of what is hashed and a
signature the pair of its signer and the digest: hashing is injective, nobody
signs with a key he does not hold. The prover's clock is a witness, so `updated'`
is any timestamp.

**ContractCalls** (`contract_call.rs`) makes calls values, as `DidContractCall`
does, and says which circuit a call runs.

**DidAuthorization** puts clients and network around the contract. `Sign` reads
the ledger and signs one call for the version read; `Deliver` runs any circuit,
with any arguments and any version, under any authorization ever signed, at any
time and any number of times. Both are external to the repository; what they
exercise are the digests and the assertions of `generated.rs`.

**ApiOperations** has several callers, each running one operation at a time.
`ApiCall` is the body of the API function up to its first submission: the checks
against the snapshot and the list of calls it will make. `Submit`, then `Accept`,
`Reject`, `LoseCall` or `LoseAnswer` are one submission and what the backend
reports of it; `FailToConvert` is an argument that turns out to be malformed when
its turn comes, in the middle of a patch. Reading the snapshot is one step with
the decision made on it: nothing happens between them in the code. A lost call
that takes effect later is covered by another caller's write. Rotation and
recovery are in `ControllerKeys`; here the controller key stays.

**Resolution** extends `ApiOperations` with what callers have in hand: ids in ten
spellings (`#n`, `n`, `<did>#n`, another DID's `#n`, `/n`, `text#n`, `//n`,
`scheme:n`, a DID without fragment, blank), JWKs with or without `y` and with or
without further members (`extensions`), service types single or many, endpoints in
several spellings of one URI. `ToLedger` is
what the API makes of them, `Maps` whether it accepts them at all, `Resolves`
whether the resolver can read the ledger, `LedgerStateToDidDocument` and
`LedgerStateToMetadata` what it reads. `written` is the document that the
accepted calls should have made, with the number of transactions and whether the
DID is deactivated. It is kept without the conversions: `Spellings` says by
which texts an entry goes, `Meant` turns a text back into the entries that go by it,
and that this agrees with `normalize_bound_fragment_id` on the texts it accepts is
part of what is checked (and the lemma `MeantIs`). What it has in common with the code is
`Service::new`, which a caller has called before, and `Kept`: the ledger has no cells for
the further members of a key, so they are not expected back. `Domain` is an instance of `DidDocument`: `DomainDocument` is the
resolved document as that module knows documents. An id is a pair of spelling
and name; the text of the JSON in a service's cells is left out. `ReadsBack` says
of a call that what it writes can be read again, where the code does not see to
it: the id of a SchnorrJubjub method and the text of a service type. `MCResolution`
asserts it of the calls of `resolution` (`ReadableAssumption`); those of
`resolution_any_text` include some that violate it.

**IsoTimestamp** is `timestamp_to_iso` and `format_iso8601`, one step per turn of
the two loops that count years and months off a number of days. The units
(milliseconds in a second, ... hours in a day) are constants. The calendar that
the result is held against is arithmetic on leap years and does not count.

**Mod1Frame** is `compact_value_to_bytes` and `compact_value_from_bytes`, byte by
byte, one step per chunk. A behavior encodes a list of chunks and then decodes
what it wrote, or decodes bytes from elsewhere. `marks` and `starts` record the
offsets at which chunks were written and read. `to_be_bytes` and `from_be_bytes`
are constants, assumed to be inverse to each other. Offsets are natural numbers:
`checked_add` never fails where a `usize` is wider than a `u32`.

**OffchainDid** puts holders, who make short and long forms, and readers, who take
texts from anywhere, around the functions of `offchain.rs` and of
`midnight_did.rs` that make, parse, decode and project such DIDs. A text is a
record of what stands between its colons: network, hash, and payloads. Hex and
base64url are the forms a value may be spelled in, and only one of each is
canonical. A frame is its chunks (`Mod1Frame` says why that is no loss); hashes
do not collide. `CompactValueCodec`, which turns a state into chunks, is a trait whose
only implementation here always fails (`method/offchain.rs:697-707`). `ToChunks`,
`HasState` and `FromChunks` are external. They assume of a real codec that it writes a
key as its kind and coordinates and relations as their mask, with the two tables that
the code provides for implementers, reads them with the tables of the other
direction, and keeps everything else. What follows of states and DIDs holds for such a
codec. `PublicKeyJwk` also has `extensions`, members of any name but `d`. They are part
of its equality, `validate_state_shape` lets them pass, and `jwk_from_key_kind` leaves
them out; the model has their names (`ext`). A mask of 32 or more and a `y` that an OKP key does not
have are ignored, so that several frames, each with its own hash, hold one state.

**DidDocument** has a document that was read, a draft in the builder and the
document made of it. `New`, `AddVerificationMethod`, `AddService`, `SetRelation`,
`Build` and `CreateDidDocument` are the ways to make one, `ParseDidDocument` the
way to read one. What goes into a draft has come through the `::new` of its type,
or is a part of the document that was read; the latter has not, because serde
derives the reading of methods, services and ids without their checks. Ids are in
three spellings, `#n`, `n` and `<did>#n`. A URI is a record of what
`normalize_uri_string` tells apart: scheme, capitals, port, path, tail. A JWK is
what is checked of it: types, curve, whether `x` and `y` are canonical base64url
of the right length, whether there is a private part.

**ControllerKeys** has the two slots and, per client, a program counter: every
`.await` of `rotate_controller_key`, `recover_controller_key`,
`recover_pending_controller_private_state`, `create_did` and
`deactivate_and_clear` is a step; so `create_did` first looks whether the Active
slot is taken (`CreateDid`) and then stores the secret (`StoreSecret`), and may be
cancelled between. `Cancel` ends a call at any of them, because
its future is dropped or the process dies; slots stay, calls do not. Every store
write may fail. (A failing first save returns at once and changes nothing, so it
is a step that stutters.) The chain is an instance of `DidLifecycle` with
transactions in flight. A secret key and its public key are one value, since
callers pass both together. Binding the store to an address is left out: there
is one DID. Three switches say what the environment grants:

- `Serialised`: one call at a time, as the mutex of the FFI handle makes it
  (`uniffi/handle.rs`). The Rust API itself does not.
- `Reconciles`: a caller settles an interrupted rotation before the next.
- `LostAnswers`: an error of `submit_tx` may hide a transaction that takes effect.

## 3. The runs

| Run | Question | Distinct states |
|---|---|---|
| `contract` | Does any order of circuits break the document, the separation of keys, or the lifecycle? | 39,814 |
| `authorization` | What can late, repeated, reordered or mispaired authorizations do? | 64,850 |
| `api` | What do multi-transaction operations leave behind among other writers and lost answers, and does a repeated removal end? | 544,666 |
| `resolution` | Is what resolves what was written, and can it be parsed again? | 20,930 |
| `wallet` | Is the controller key always in a slot, never promoted early, and caught up with in the end? | 421,359 |
| `timestamps` | Do the counting loops name the right date, and end? | 100,632 |
| `mod1_frame` | Is what is accepted the one frame of what is returned? | 37,134 |
| `offchain_did` | Does an off-chain DID stand for one state, and is what was made read back? | 4,816 |
| `did_document` | Is every accepted document sound, and accepted again? | 559,635 |
| `wallet_lost_answer` | Does an error of the submission say that it took no effect? (violation) | until violated |
| `resolution_any_text` | Can everything the API writes be resolved? (violation) | until violated |
| `did_document_rechecked` | Does `build` check the parts it is given once more? (violation) | until violated |

**contract.** `RelationsReferToMethods`: no relation names a method that is not
stored. `OneMapPerMethodId`: an id is a JWK or a SchnorrJubjub method, not both.
`KeyAgreementSeparation`: X25519 keys and only they are in key agreement.
`ControllerIsNotRecoveryAuthority`. `CellsAgree`: the two status cells and the
two counters agree. `DeactivationIsFinal`: nothing moves after deactivation.
`VersionNamesState`: two different documents, controllers or statuses never have
the same version, which signatures rely on. `LifecycleSpec`: the contract
implements `DidLifecycle`.

**authorization.** `AtMostOnce`: an authorization acts at most once, even when
key and document are back to what they were. `ActsOnWhatTheSignerSaw`: no lost
update. `SignedByTheKeyInForce`: what runs is what was signed, by the key in
force at that moment.

**api.** `AtomicWhenAlone`: a removal or a patch that nobody disturbs ends with
Ok and leaves the document that was asked for, as if it had been one transaction.
`RemovedMeansGone`: when a removal returns Ok the id is in no map and in no
relation, whatever others inserted after its snapshot. A removal by the
operation of the other kind (a JWK method with the SchnorrJubjub operation)
purges the relations and then fails, even alone; `AtomicWhenAlone` says nothing
of it, since there is nothing it could have been meant to leave, and
`resolution` follows what it does.

`RemovalEnds`: half-purged relations never stand in the way of another attempt;
a removal repeated by its caller after each failure ends.

**resolution.** `ResolvesAsWritten`: the ledger resolves, and to the document the
accepted calls made: no id is doubled, renamed or taken over from another DID,
types and endpoints come back as they went in and keys without their further
members, `versionId` counts the transactions. `ResolvedCanBeParsed`: the resolver assembles a document without
`DidDocument::validate`, which whoever reads it as JSON applies; it passes exactly
if no service was given one endpoint twice. (If one was, the DID resolves and its
document cannot be read: `Service::new`, the ledger and the resolver do not
compare endpoints.)

The further members of a key are lost, and the property says so. `PublicKeyJwk::new`
takes them (`domain/did_document.rs:515-525`), and its parameters are said to keep
them "so we don't drop resolver-specific keywords on the floor"
(`domain/did_document.rs:494-496`); `public_key_jwk_to_ledger`
(`api/ledger_mappers.rs:127-132`) has no cell to put them in, and
`ledger_jwk_to_domain` (`api/resolution.rs:225-231`) gives the key none. A key written
with `kid` or `alg` is accepted and comes back without. Neither function says so.

**wallet.** `KeyIsPersisted`: the key in control is in one of the slots at every
instant. `PromotionFollowsFinalization`: Active never runs ahead of the chain.
`RotationIsCompleted`: Active catches up with the chain, after any number of
interruptions. The run has `Serialised` and `Reconciles` TRUE; with either set to
FALSE in the cfg TLC finds `KeyIsPersisted` violated, since a rotation overwrites
Pending without looking at it. So these properties say what one careful caller can
rely on. They do not cover overlapping rotations of the Rust API, and they do not cover a
lost answer, which is `wallet_lost_answer`'s. Nor do they say anything of a
deactivation whose sentinel is not stored, or of a key left in Pending by it: the model
has both, and no doc says what should hold then (listed hazards).

**timestamps.** `NamesTheDay`, `NamesTheTimeOfDay`: the text is the date and the
time of that instant, in leap years, century years of both kinds, at the ends of
months and of the last year. `NoneOutsideTheRange`: None means a cell never
written or a date past 9999, and nothing else. `Answers`: the loops end.

**mod1_frame.** `AcceptsOnlyFrames`: bytes that are accepted are, to the last one,
the frame of the chunks that are returned; so one list of chunks has one hash.
`ReadsWhatItWrote`: what was encoded is decoded as it was, and only a length
that does not fit its field is refused.

**offchain_did.** `MadeCanBeRead`: what a holder made, a reader accepts, and gets
the same keys in the same relations, each key without its further members.
`OneStatePerDid`: no text that bears the name of a DID gives another state than what
the DID carries of the one it was made of (`Carried`: everything but those members).
Two states that differ in them only share one hash and one DID; the instance has such
a pair, and the same loss is on this path `jwk_from_key_kind`'s
(`method/offchain.rs:231-237`). `OneTextPerDid`: one DID
has one long form, so that texts may be compared as texts. `ReadCanBeMade`: what
is accepted from other programs is a state a holder could have made.

**did_document.** `ReferencesNameOneMethod`: however ids are spelled, every
reference names one method, and no relation one method twice. `AcceptedAgain`: an
accepted document is accepted again, as it is, by parsing and by creating.
`KeysAreValid`: no way into a document leads round the checks of `PublicKeyJwk`.

The three violation runs show where the code does not do what its documentation
or tests say; the findings in `PROJECT.json` quote both sides:

- `wallet_lost_answer`: `rotate_controller_key` clears Pending on every error of
  the submission, including a network error that hides a finalized transaction.
- `resolution_any_text`: a SchnorrJubjub method may be stored under an id such as
  `#`, which the resolver refuses; from then on the whole DID does not resolve.
- `did_document_rechecked`: `build` says that methods and services are "re-checked
  defensively", and does not look at them; a method that was read with an id that
  is no key id goes into a document that is built.

### Bounds, and why they are enough

- `contract`: 3 keys (controller, recovery authority, a third to rotate to), 2
  method ids (one to change, one to stay), one key each of the kinds that the
  circuits tell apart, 1 service, alias and SchnorrJubjub key, 2 timestamps, 8
  operations. Five relations and both maps are exercised by 8 operations:
  insert, relate, update, remove and insert again fit. Keys, ids and bodies that
  the circuits only compare are symmetric.
- `authorization`: 3 keys, 3 requests and 3 executions: enough to sign twice for
  one version, to replay after an intermediate operation, and to rotate or
  recover in between.
- `api`: 2 callers, 1 method id; operations begin while fewer than 3 transactions
  have taken effect, and those begun go on past that. A method with references in
  two relations is three transactions and more to build and remove; the purge of
  one relation, an interfering insertion and the rejection all occur. The bound
  also says that disturbers stop: at it only a failed removal may begin again.
  Without such an end a busy writer could make each attempt fail, and the code
  has nothing against that.
- `resolution`: one name in every spelling and the empty name, 3 kinds of JWK, one
  endpoint in three spellings of which two are equal, 5 operations by one caller.
  Spellings matter pairwise: two operations decide whether two spellings mean one
  entry.
- `wallet`: 3 keys (the current, the next, one more), 2 clients, 2 transactions
  that take effect: a rotation, interrupted at will, and another after it.
- `timestamps`: TLC's integers have 32 bits, so a day is 16 milliseconds long; the
  loops only see days, and the split of a day is the same arithmetic with other
  units. The proof is for all units. Years: the first, a leap year, 2000, 2001, 2100
  and 9999, each at the ends of January, February, November and the year.
- `mod1_frame`: a byte has two values, so that a word of four counts to 15; every
  string of up to 13 bytes after the magic word, which is a number, two lengths
  and a byte, and every short list of chunks, some too long for 15. The proof has
  no such bounds.
- `offchain_did`: at most two DIDs made and two texts read, since the properties
  compare pairs; the limits of 4 are scaled down to 2 and 1 so that states at and
  beyond them occur. Two of the states differ in the further members of a key only.
- `did_document`: drafts of up to 3 parts (a method, another spelling of it, and
  a relation), 2 DIDs, 2 names and the empty one; texts with two methods in every
  pair of spellings, every key, every pair of endpoints.

`MaxVersion` stands for the end of the model's run, not for a limit of the code;
the `u64` counters of the contract are out of reach of 2^64 operations. Where
`CHECK_DEADLOCK FALSE` is set, the system may stop: after deactivation, at the
bound, or because no caller has to call.

### Fairness

`api` and `wallet` assume that the executor polls a task it was given
(weak fairness of a call's own steps), and that the chain answers: in
`api` weak fairness of rejection and strong fairness of acceptance, which
is to say that it does not lose one caller's calls for ever; in `wallet`
weak fairness of settling. Store failures may be any number but not for ever
(strong fairness of `Promote`). The caller's part is what the documentation asks
of it: repeat a failed removal, and call
`recover_pending_controller_private_state` for a finalized rotation
(`api/error.rs:87-91`). Nothing is assumed of the callers that disturb.

`timestamps` has weak fairness of its only process: a function that was called
runs.

## 4. The proofs

All theorems hold for any sets of keys, ids, methods, services, clients and
operations, under the named assumptions of the modules. They say of which types
the constants are: fields of a JWK are of the generated enums (`MethodAssumption`);
bounds, times and units are numbers, units positive (`BoundAssumption`,
`MaxAssumption`, `TimestampAssumption`, `UnitAssumption`); what marks an absence is
no value (`AbsentAssumption`, `KeyAssumption`, `NotDidAssumption`, `NoTextAssumption`,
`JunkAssumption`); clients call what exists (`CallAssumption`, `OperationAssumption`,
`DomainCallAssumption`); inputs are what the constructors of their types let
through, or what can be written as a text (`NameAssumption`, `InputAssumption`,
`DomainMethodAssumption`, `StateAssumption`, `TextAssumption`); and `to_be_bytes` and
`from_be_bytes` are inverse (`WordAssumption`).

Every invariant and every safety property of the passing runs is the conclusion
of a theorem, `AtomicWhenAlone` under a hypothesis about `ENABLED` (below).

**DidContractProofs.** The invariant is `LedgerInv`: types, the document
invariant (references, disjoint maps, key separation), separate authorities,
agreement of cells. The parts of the document invariant need one another. That a
relation stays compatible when a method is inserted holds only because no
relation names an id that is not stored; that it stays compatible when a
SchnorrJubjub method is written holds only because the maps are disjoint. Each
circuit that touches maps or relations has a lemma; the others share a frame
lemma. `Finality` and `VersionsNameStates` follow from what every mutation does;
`ImplementsLifecycle` maps each circuit to a step of `DidLifecycle`.

**DidAuthorizationProofs.** The invariant adds to the properties that a request
carries a signature over its own call and version and that its view is the
state of that version (`RequestsAreSigned`), and that the n-th execution was
meant for version n - 1 (`EachVersionOnce`). At-most-once is a consequence: one
request has one version and each version one execution. The step for `Deliver`
rests on a lemma that a circuit which accepts a signature has its own call
and version in the digest. `AuthorizationImplementsContract` says that
`DidContract` loses nothing by not modelling clients.

**ControllerKeysProofs.** `WalletTypes` holds unconditionally. `KeyIsNeverLost`
and `PromotionIsSafe` are proved for specifications with `Serialised`,
`Reconciles` and without `LostAnswers`; none of the three can be dropped
(`wallet_lost_answer`, and section 3 on `wallet`). The invariant says of each stage
of a call which slot holds the key of which transaction, that at most one
transaction is in flight, that none is before the Active slot was first filled, and
that what `create_did` is about to store is the key in control. `FailuresComeFirst` is the other side of the run
`wallet_lost_answer`: under the same three assumptions what it refutes is true, so
the lost answer, and nothing else a single careful caller can meet, is to blame.

**ApiProofs**, on the operations. `ApiInv` adds to the contract's invariant that
the call which removes the method is the last of a removal's list.
`RemovalsRemove` follows since only that call ends a removal with Ok, and the
circuit it runs has checked all five relations. `ApiReferentialIntegrity`,
`ApiFinality` and `ApiImplementsLifecycle` carry the contract's promises to the
states between the transactions of an operation: several clients, lost calls and
lost answers do nothing to the ledger that `DidLifecycle` does not allow.

`UndisturbedInv` says of a removal whose calls are the only ones accepted since
its snapshot that the calls left are the purges of exactly the relations that
still hold the id, each once, and then the removal; that the method is there; that
the call under way is signed for the present version; and that the document
without the method is, after every purge, still the goal of the snapshot. Hence
`UndisturbedRemovalsAreAdmitted`, that each call finds every assertion of its
circuit true (`AdmittedRuns` is the lemma that nothing else is in the way of its
effect), and `UndisturbedRemovalsRemove`, that Ok leaves the goal.

**ApiProofs**, on patches. A patch is any number of calls, each of which depends on
what the earlier ones wrote: a service may be added, updated and removed by one patch.
The calls of a patch write *cells*, one alias or one service each, and a list of calls
`Executes` along a sequence of cells if each adds to an empty cell or changes a full one
and leaves the next cells of the sequence. Two lemmas about the list carry the
proof. `FittingPatchRuns`: the calls of a patch that `PatchFits` execute from its
snapshot, since the list is five parts (`PartOf`) in the order in which the writes
of one cell make sense, and only updates write a cell twice in one part
(`FittingParts`).
`FittingPatchLeaves`: the cells at the end are those of the goal. What is in a cell
after n calls is what the last of them that wrote it left, the greatest index of a
set, not a recursion (`CellsAfter`); that there is a greatest one is the only
induction, and is well-foundedness of the numbers. `PatchInv` says of a patch that
nobody disturbs that the calls left execute from the ledger as it is and lead to the
goal; a step takes the head of the list (`ExecutesTail`), and the circuit of the head
writes its cell and nothing else of the document (`CircuitWritesCell`). `GoalInv`, that
only removals and patches have a goal, closes the case split. So every call of an
undisturbed patch finds the assertions of its circuit true (`PatchAdmitted`) and the
last one leaves the goal (`PatchEnds`, as cells determine aliases and services).

Both kinds together are `UndisturbedOperationsAreAdmitted` and
`UndisturbedOperationsAreAtomic`. The latter concludes `AtomicWhenAlone` itself from
`ApiSpec` and `AdmittedCallsRun`, that a call whose assertions hold can run. The
hypothesis is `AdmittedRuns` in terms of `ENABLED`: that lemma shows that any next
state with the writes of such a call in it is a step of its circuit, and what is left
is that such a next state exists, about which the prover has no rules. It is a
hypothesis about the circuits alone, not about who calls them when.

**ApiProofs**, on what resolves. `ResolutionInv` adds three parts to `ApiInv`. `AskedInv`:
the operation under way is `ToLedger` of what its client asked, and its calls are
purges of that id followed by the one call the operation is for. `Readable`:
every entry stored can be read. `Written`: what the ledger would resolve to is
what the accepted calls made. None is inductive alone: which entry a circuit
changes is known only from the first, that the changed entry reads as the caller
meant it only from `ReadsBack` and the second, and `Written` must hold in the
middle of a removal, whose purges are transactions of their own.
The lemmas are per kind of call (`MethodIsWritten`, `RelationIsChanged`, ...) and
about conversions: `MeantIs`, that an accepted text means the one entry that its
normal form names; `KeyReadsBack`, that a key comes back less its further members; `ServiceReadsBack`, and `NormalUri` and
`NormalEndpoint`, that the normal form of an endpoint is its own normal form, on
which it rests that an endpoint normalized three times on its way is normalized
once.

`DocumentsResolveAsWritten` and `ResolvedDocumentsParse` have the hypothesis that
the calls that map also read back. It is not a property of the code: nothing
checks the two things that `ReadsBack` asks for. `resolution_any_text` shows the
first to be needed, a listed hazard (`domain/ledger_utils.rs:226`) is the second.
TLC evaluates it for the calls of `resolution`, so it can be met. For the second
theorem the sets that the resolver turns into lists have to be finite; `Finite`
is an invariant of its own, since the constants may be infinite.
`ParsesExactly` then goes through `DidDocument`'s conditions one by one: ids are
in the subject's DID and different because the two maps are disjoint, references
name methods because of referential integrity, and what is left is that no
service has an endpoint twice.

**IsoTimestampProofs.** `DatesAreCorrect`, `TimesOfDayAreCorrect` and
`RangeIsComplete` hold for every timestamp and every unit. The invariant says that
the days left and the days of the years and months counted off add up to the days
since the epoch; the work is the lemmas about the calendar, that `DaysBeforeYear`
grows by the length of a year and `DaysBeforeMonth` by that of a month.

**Mod1FrameProofs.** `FramesAreCanonical` and `DecodingInvertsEncoding` hold for
lists and frames of any length. The invariant of the decoder says where each
chunk read so far lies, that of the encoder where each chunk written so far lies;
the decoder then meets the encoder's marks one after the other. Chunks of the
frame are compared byte by byte, without a recursive definition.

**OffchainDidProofs.** The invariant, that whatever was made or read is what the
functions return for it, holds step by step; the work is in those functions.
`NamesDetermineStates` and `TextsAreCanonical` follow from what `ParseLongForm`
compares: hash and payload of an accepted text are each other's, so two accepted
texts of one DID have one hash, one frame, one payload. The state is determined up to
the further members of keys (`Carried`), and no further. `LongFormsCanBeRead` needs
that key kinds and masks, written by one table and read by the other, come back;
`AcceptedStatesAreValid` that the limits are checked on the way in as on the way out.

**DidDocumentProofs.** The invariant is that whatever was accepted has passed
`Validate` and is in normal form, and that the keys of a draft are valid already.
`AcceptingIsStable` needs that normalization is idempotent and leaves alone what
`Validate` looks at; `ReferencesAreSound` that two ids have one canonical form
exactly if they name the same.

Only model-checked:

- Liveness (`RemovalEnds`, `RotationIsCompleted`, `Answers`): fairness is out of
  this prover's reach.
- The hypothesis of `UndisturbedOperationsAreAtomic`: that a step is possible is a
  statement about `ENABLED`, which the prover does not know. `api` checks
  `AtomicWhenAlone` without it.
- The violation runs, which are counterexamples.

## 5. Not modelled, and why

- `LiveBackend`, proof server, node, wallet: not in this repository; the models
  allow whatever the `Backend` trait lets them report.
- `RecordingBackend`, `ResolverBackend`: test doubles without decisions of their
  own.
- `verifySchnorrJubjubDigestSignature`: reads only.
- `domain/`: resolution-result types, the newtypes of `ids.rs` and the byte codecs of
  `crypto_codecs.rs` are values without state; of base64url and JWK syntax only
  what is checked of it, of JSON only which parts are checked when it is read.
- `method/network_mapping.rs`, `hex_ext.rs`: tables and conversions.
- `CompactValueCodec`: a trait; its implementation is in another crate, and what
  is assumed of it is in section 2. The values of a key's further members: only their
  names are modelled.
- `cli/`: a demonstration, a fixed script over the recording backend with a shadow
  ledger moved by hand.
- `uniffi/`: JSON and hex conversions; its mutex is `Serialised`.
- That `updated` is not before `created`: nothing in the code orders them.
- Service ids that mean the same: `DidDocument::validate` compares them as text,
  and no doc says otherwise (a listed hazard).
- Service types that begin with `[` and ledgers written by other programs than
  this API: outside `resolution`'s instances, listed as hazards.
- Two DIDs on one store: `ControllerKeys` has one DID (a listed hazard).

## 6. Plan

1. `Resolution` with other writers: any ledger that the contract accepts, the
   duplicate check before ids are absolute (`api/resolution.rs:90`), service types
   that begin with `[`.
2. `ControllerKeys` with two DIDs on one store (`api/private_state.rs:208`).
3. That `DidLifecycle` is implemented by the chain of `ControllerKeys` together
   with what its clients believe of it.
