# Formal model of the Sovereign SDK MetaMask snap

This directory holds TLA+ models of the snap that signs Sovereign SDK rollup transactions inside
MetaMask, together with TLC configurations and TLAPS proofs. The snap's handler
(`packages/snap/src/index.ts`) and the site component are concatenated in
`src/packages/site/src/components/Sovereign.tsx`. Lines 1-394 are the site component, lines
395-479 the snap README, lines 480-550 the snap tests, and lines 551-743 the handler. The
request schemas are in `src/unnamed/part_000`.

## 1. Inventory

### Components

| Component | Source | State it keeps | Operations |
|---|---|---|---|
| RPC dispatcher `onRpcRequest` | Sovereign.tsx 575-725 | per request: locals that live across `await`s | `getAddress`, `signTransaction`, default "Method not found." |
| Request validator | part_000 15-70 | none | `superstructValidate` against `GetAddressStruct`, `SignTransactionStruct` |
| Path deriver | Sovereign.tsx 727-733 | none | `getKeypairParams(keyId)` gives `m/44'/1551'/<keyId>'` |
| Key custody (MetaMask, external) | 597-603, 634-641 | the keys | `snap_getBip32PublicKey`, `snap_getBip32Entropy`: both are `await`s |
| Address encoder | 735-738, 607, 646 | none | `cleanPublicKeyResponse` strips the flag byte; `wasm.bechEncodePublicKey` |
| Confirmation gate (external) | 649-678 | none | `snap_dialog` is an `await` on the operator, with no timeout |
| Signing orchestration | 680-710 | locals | `serializeCall`, `omitKey` + `runtime_msg`, `serializeUnsignedTransaction`, `sign`, assemble, `serializeTransaction`, hex |
| Codec resource `SovWasm` | 563, 609, 614, 712, 716 | **one module-level instance shared by every request** | every codec call; `dealloc()` |
| Site component `Sovereign` | 1-394 | React state: form fields, `tx`, `address`, `status` | input handlers, `parseGasLimit`, `getAddress`, sign click, submit tx/batch to the sequencer |
| Example script, batch script, Makefile, docs | test/index.ts, scripts/, Makefile, docs/, part_001/002 | none | not run-time behaviour |

### How they interact

A dApp calls `wallet_invokeSnap`, and MetaMask calls `onRpcRequest`. JavaScript gives no
preemption, but every `await` lets another request's handler run. So several requests can be
in flight at once. They share exactly one thing: the module-level `wasm` codec. A request
validates its params, derives a path and awaits the custody. `signTransaction` then encodes the
address with the shared codec and awaits the operator's dialog. On approval it serializes the
call and the unsigned transaction with the shared codec and awaits the signer. Finally it
serializes the signed transaction and calls `wasm.dealloc()`. Every exit after validation calls
`dealloc()`, through the `catch` block on errors.

### What is hard

- **Interleaving on shared state.** `dealloc()` frees the whole shared codec. Another request
  may still be between two of its codec calls, suspended at the dialog or at the signer.
- **Ordering at an irreversible gate.** Nothing may be encoded or signed before the operator
  approves. A rejection must still release the codec.
- **Partial failure.** An encoder failure after approval takes the `catch` path. Validation
  failures are thrown before the `try` and release nothing.
- **Conversions the operator reads.** The panel renders every field. An absent gas limit
  ("Not Set") and an empty one ("") are signed differently, so the operator must be able to
  tell them apart.
- **Unbounded waits.** The dialog has no timeout.
- **Numeric edges.** `number()` admits negative, fractional and huge key ids and fees.

### Properties that make each component correct

- Dispatcher and gate: a failure at any step skips the steps after it. A failing request
  returns nothing. A rejection, or any earlier failure, never reaches the encoder or the
  signer. An encoder failure after approval never reaches the signer
  (`FailureSkipsRemainingSteps`, spec 4.5 and 7). The returned artifact is exactly what the
  panel showed, signed by the key whose address was shown (`SignedAsShown`).
- Codec resource: each admitted request releases exactly once, on any exit; a refused one
  releases nothing (`ReleaseExactlyOnce`). The confirmation dialog is the only place a
  request can stall (`OnlyTheOperatorStalls`). No request frees another's allocations (`NoForeignRelease`).
- Validator: only non-negative integer key ids reach the custody (`CustodyPathsValid`). The
  test's request shape is accepted (`GoldenRequestAccepted`).

## 2. Modules

### `SnapRpc.tla`: the handler with concurrent requests

- **Constants.** `Req` is the set of request identifiers. The input sets (`KeyIdInputs`,
  `NonceInputs`, `GasInputs`, `ObjectCalls`, `StringCalls`, `EncodableCalls`) are the values a
  caller can send. `NotANumber`, `NotSet` and `None` are model values.
- **State.** There is one function per request-local value: `input`, `pc` (where the request
  is suspended), `outcome`, `custody` (the path it requested), `pubKey`, `shown` (the panel),
  `msg` (the serialized unsigned transaction being signed), `result`, and the counters
  `encCalls`, `signCalls` and `released` (calls to `dealloc`). The shared codec is `wasmLive`,
  the set of requests with live allocations in it.
- **Actions.** Each action is one whole segment of code between two `await`s, run
  atomically, as JavaScript runs it.
  - `MethodNotFound` covers lines 722-723.
  - `GetAddressRequest` covers lines 582-603 and `GetAddressResponse` lines 603-616.
  - `SignTransactionRequest` covers lines 619-637.
  - `SignEntropyResponse` covers lines 634-673. The `await SLIP10Node.fromJSON` touches no
    shared state, so it is merged into this step.
  - `SignDialogAnswer` covers lines 675-695 and `SignComplete` lines 695-719.

  The custody's answer, the operator's answer and the signer's completion are disjuncts of the
  resuming action. The custody can always refuse (a locked wallet or a revoked permission), and
  it always refuses a path it cannot derive.
- **Data.** Data is abstracted to injective records. A path is a record with an index. The raw
  key is a flag byte followed by the key. The address is a record with `hrp` and `data`. The
  rendered text of a field is a record, and serialization and signing are tagged records. The
  three numeric envelope fields behave alike, so `nonce` stands for `chain_id`,
  `max_priority_fee_bips` and `max_fee`.
- **Encoder failures.** A call outside `EncodableCalls` fails in `serializeCall`. A negative
  number fails the u64 encoding in `serializeUnsignedTransaction`.
- **`SovWasm`.** Its source is not in the repository. The model follows spec 4.6: each codec
  call allocates in the handle, and `dealloc()` frees everything.
- **Faults.** `dealloc()` throwing and `sign` rejecting are not in `Spec`. They are in
  `SnapRpcFaults.tla` (below).

`MC_SnapRpc.tla` instantiates it with two requests and the following inputs:

- key ids `0`, `-1` and a non-number;
- numbers `0`, `-1` and a non-number;
- gas limits absent, `<<>>` and `<<5>>`;
- an encodable object call, an object the runtime refuses, and a string call.

Every branch of every action is reachable with these values: validation failure, a custody
refusal, an underivable path, rejection, both encoder failures, and success. Two requests are
enough for every pairwise interleaving of the suspension points. Symmetry over `Req` is sound
because requests are interchangeable; the liveness run does not use it.

The instance's `MC_SnapRpc.tla` extends `SnapRpcFaults`, so one MC module serves the
fault-free and the fault runs.

### `SnapRpcFaults.tla`: signer and codec faults

It extends `SnapRpc` with two actions:

- `SignFails(r)`: `await sign` rejects. The `catch` block (lines 715-719) calls `dealloc()` and
  rethrows, so the request ends with `SigningError` and one release.
- `DeallocThrows(r)`: the last `wasm.dealloc()` inside the `try` (line 609 for `getAddress`,
  line 712 for `signTransaction`) throws. The `catch` block calls `dealloc()` again and
  rethrows, so the request ends with two releases.

`SignerFaultSpec` adds only `SignFails`. `CodecFaultSpec` adds both. `SovWasm` is not in the
repository, so a throwing `dealloc` is an **assumption** of this fault model. The run asks what
the code does if it happens.

### `SigningProtocol.tla`: what the snap promises for each request

This is an abstract specification. Each request is in one of five stages: `received`,
`admitted`, `awaitingOperator`, `signing`, `done`. It carries a verdict and the counters
`signings` and `freed`. Its actions are:

- `Refuse` (a validation failure or an unknown method);
- `Admit`;
- `CustodyFails`;
- `Present` (the dialog);
- `Decline` (a rejection, or an encoder failure after approval);
- `Approve` (starts the one signing);
- `Deliver`;
- `SignerFails` (the signer rejects while signing; spec 7's `SigningError`).

A request frees its resources exactly once, in the step that ends it, if and only if it was
admitted.

`SnapRpc` maps onto it through `Protocol == INSTANCE SigningProtocol WITH ...`:

- `request <- input`, `verdict <- outcome`, `signings <- signCalls`, `freed <- released`;
- `stage <- Stage`, where `StageOfPc` maps each suspension point to its stage;
- `Admissible <- AdmissibleInput`, the validator's verdict.

`ImplementsSigningProtocol == Protocol!ASpec` is checked by TLC and proved by TLAPS.

### `SiteUi.tla`: the site component (lines 1-394)

- **State.**
  - `ui`: the React state, with the fields `keyId`, `numbers` (nonce, chain id and the two fees
    share one handler shape, so `NumberFields` stands for them), `gasLimit`, `callMessage`,
    `address`, `tx`, `sequencer` and `status`.
  - `gasText`: the gas-limit text the input keeps.
  - `pending`: the clicks whose promise has not settled. Each carries the state `captured` at
    the click.
  - `signed`: the transactions the wallet returned.
  - `posted`: the requests sent to the sequencer.
  - `clicks` and `edits`: the counters of the bounds.
- **Input handlers.** They are synchronous, so they read the current state.
  - `KeyIdChange` (returns early on `""`) and `NumberChange` (stores `parseInt`, which is NaN
    for `""`).
  - `GasLimitChange` stores `parseGasLimit` of the text, with `ParseGasLimit` modelled on
    comma-separated pieces: a trim, `parseInt` by the kind of the text, then the filters.
    `Filter(s, Keep)` is `Array.prototype.filter` written without recursion: the elements of
    `s` in `Keep`, read along the increasing map onto the kept indices. `MC_SiteUi.tla`
    checks it against `SelectSeq` on every gas text of the instance (`FilterIsSelectSeq`), and
    `TextsAssumption` states that the input texts are of the kinds `Texts` lists.
  - `CallMessageChange` and `SequencerChange`.
- **Async handlers.** Each is split at its `await`.
  - The click part (`SignClick`, `GetAddressClick`, `SubmitClick`) runs on the current state and
    records the captured state in `pending`.
  - The answer part (`SignAnswer`, `GetAddressAnswer`, `SubmitAnswer`) runs
    `setState({...captured, x})`, as the code's closures do.
  - The wallet, the snap and the sequencer may answer in any order, or fail. An unhandled
    rejection of `getAddress` changes nothing.
- **Data.** A text is a record of its kind (`empty`, `digits`, `negative`, `decimal`, digits
  then letters). A signed transaction, an address and base64 are tagged records. A URL is a host
  plus a count of trailing slashes.
- **Bounds.** `MaxClicks` and `MaxEdits` are named bounds: 3 each in `MC_SiteUi.cfg`. Three
  clicks allow a sign answer to land after an edit and after another click's answer. Three edits
  allow an edit before, between and after the answers. `Exhausted` lets a run stop when both
  bounds are reached and nothing is pending. The page then waits for the user, which is not a
  deadlock.
- **Instance.** `MC_SiteUi.tla` uses one numeric field with the texts `""`, `7` and `-1`. Its
  gas texts are `""`, `" "`, `"5"`, `"5,"`, `"5,-3"`, `"12abc"` and `"1.5,5"`. Together they
  reach every branch of `parseGasLimit`. It also has a valid and an invalid call message, and an
  empty and a default sequencer URL.

### Proof modules

`SnapRpcProofs.tla`, `SnapRpcWysiwyg.tla`, `SnapRpcRefinement.tla`, `SnapRpcFaultProofs.tla`
and `SiteUiProofs.tla` are described in section 4.

## 3. Runs

| Run | cfg | Expect | What it shows |
|---|---|---|---|
| snap_safety | MC_SnapRpc.cfg | pass (28,731 states) | `TypeOK`, `FailureSkipsRemainingSteps`, `ReleaseExactlyOnce` and `SignedAsShown` hold over every interleaving of two requests and every input. |
| snap_liveness | MC_SnapRpc_live.cfg | pass (57,226 states) | `OnlyTheOperatorStalls` holds under `FairSpec`: every request ends, or waits at the dialog for good. |
| snap_refines_protocol | MC_SnapRpc_refine.cfg | pass (57,226 states) | The handler implements `SigningProtocol` (`ImplementsSigningProtocol`). |
| snap_signer_fault | MC_SnapRpc_signfail.cfg | pass (58,741 states) | `ReleaseExactlyOnce` and `ImplementsSigningProtocol` still hold when `await sign` may reject: the rejection is the protocol's `SignerFails`. |
| snap_shared_codec | MC_SnapRpc_shared.cfg | violation | `NoForeignRelease` fails. A `getAddress` for key -1 is refused by the custody and its `catch` calls `dealloc()`. A `signTransaction` waiting at the dialog loses its codec allocations. |
| snap_keyid_validation | MC_SnapRpc_keyid.cfg | violation | `CustodyPathsValid` fails. Key id -1 passes `number()` and the custody is asked for `m/44'/1551'/-1'`. |
| snap_golden_request | MC_SnapRpc_golden.cfg | violation | `GoldenRequestAccepted` fails. The test's `call` is a JSON string, and `call: object()` refuses it. |
| snap_dealloc_throws | MC_SnapRpc_dealloc.cfg | violation | `ReleaseExactlyOnce` fails under `CodecFaultSpec`. A `dealloc()` that throws inside the `try` is followed by the `catch` block's `dealloc()`, so the request releases twice. |
| site_safety | MC_SiteUi.cfg | pass (2,574,082 states) | `TypeOK` and `PostedTxsWereSigned` hold: only wallet-signed transactions are POSTed, whatever the order of edits, clicks and answers. |
| site_stale_setstate | MC_SiteUi_stale.cfg | violation | `AnswersKeepOtherFields` fails. A sign click, then a Key ID edit, then the wallet's answer: the answer writes back the captured state and the edit is lost. |
| site_number_nan | MC_SiteUi_nan.cfg | violation | `FormNumbersAreNaturals` fails. Clearing the nonce stores `parseInt("")`, which is NaN. |

**Fairness.** `FairSpec` assumes weak fairness of `CodeStep(r)`: every step of a request
except the operator's answer at the dialog. For the handler's own code and for the custody and
signer this follows from how the code runs: they are promises that settle. The operator gets
no fairness, because the dialog has no timeout (line 649; spec 5: "operator-paced and
unbounded"). So the liveness property does not claim that a request ends. It claims that the
dialog is the only place a request can wait forever, whatever the other requests do. With
`ReleaseExactlyOnce`, a request that does not stall there releases the codec. A request that
does stall keeps its allocations for good (the liveness hazard at line 649). Its mutant,
`SignCompleteExclusiveCodec`, is a lock on the shared codec held across another request's
dialog. It stalls a request that is waiting on the signer, and TLC finds that run. The site has no liveness
property: its answers depend on the user, the wallet and a remote sequencer.

**Findings.** They are recorded in `PROJECT.json`. Each is a disagreement between the code and
the spec, a comment or a test:

- the shared codec, where the spec says each request has its own handle;
- the key-id validation, where the spec requires a non-negative integer;
- the golden test's string `call`;
- the stale `setState` of the site;
- NaN in the site's numeric fields;
- the double `dealloc` when `dealloc` throws. The spec asks for a finally-style release.

Every property of a passing run has a mutant in `PROJECT.json`: a plausible bug in a mapped
definition that TLC must catch under the run's own cfg.

## 4. Proofs

All theorems hold for every value of the constants: any number of concurrent requests and any
input sets for the snap, and any bounds for the site.

**`SnapRpcProofs.tla`.**

- `TypeCorrect`: `Spec => []TypeOK`.
- `FailureSkipsRemainingStepsTheorem`: `Spec => []FailureSkipsRemainingSteps`.
- `ReleaseExactlyOnceTheorem`: `Spec => []ReleaseExactlyOnce`.

The proofs rest on `ConstantsAssumption` and `NoneAssumption` ("no value yet" is not a path or
an outcome). None of the three properties is inductive by itself. `TypeOK` does not say that a
suspended request holds a path. `ReleaseExactlyOnce` does not say that a request has released
nothing before it ends. So the proofs go through the inductive invariant
`IInv == TypeOK /\ (\A r : RequestControl(r)) /\ FailureSkipsRemainingSteps /\ ReleaseExactlyOnce`.
`RequestControl(r)` states what the control flow of one request guarantees:

- before `done` it has no outcome, no result and has released nothing;
- at `start` it holds no path, and while suspended it holds a path of `Paths`;
- each suspension point belongs to its method;
- before the operator's answer it has made no encoder or signer call.

TLC checked `IInv` on the snap_safety instance first. `InitIInv` and `NextIInv` (one step per
action) are combined by `IInvInvariant`. `FailureSkipsRemainingSteps` is kept by every step
because `RequestControl` says a request that has not yet answered the dialog has made no encoder
or signer call. So each failure found at or before the dialog ends the request with both
counts at zero, and an encoder failure ends it with no signer call.

**`SnapRpcWysiwyg.tla`.**

- `SignedAsShownTheorem`: `Spec => []SignedAsShown`.

It follows from `DInv == IInv /\ Shape /\ \A r : RequestData(r)`. `RequestData(r)` says what
a request holds at each point:

- its public key is the key of the path it asked for;
- from the dialog on, `shown` is the panel rendered from its input and that key;
- while signing, `msg` is the serialization of its input;
- a delivered result is the signature of that message by that key.

TLC checked `DInv` on 57,226 states before the proof. The proof is one lemma per action:

- `DataFrame` carries the requests an action does not touch;
- `DataFail` and `DataAdmit` cover the common exits and entries.

**`SnapRpcRefinement.tla`.**

- `Refinement`: `Spec => ImplementsSigningProtocol`.

`InitRefines` shows that the initial states map to initial states. `StepRefines` shows that
every step, under `IInv`, is one protocol action of the same request or a stutter. Each branch
of a handler step is its own case. `StageAfter` and `StageKept` compute the mapped `Stage`.
`IInv` is needed because the mapping of `awaitPublicKey` to `admitted` is only right for a
`getAddress` request.

**`SnapRpcFaultProofs.tla`.** The same three results under `SignerFaultSpec`, where the signer
may reject:

- `SignerFaultReleaseExactlyOnce`: `SignerFaultSpec => []ReleaseExactlyOnce`.
- `SignerFaultSignedAsShown`: `SignerFaultSpec => []SignedAsShown`.
- `SignerFaultRefinement`: `SignerFaultSpec => ImplementsSigningProtocol`.

No new invariant is needed. `SignFailsIInv` and `SignFailsData` show that the rejection keeps
`IInv` and `DInv`, as the handler's other exits do. `SignFailsRefines` maps it to the
protocol's `SignerFails`.

**`SiteUiProofs.tla`.**

- `SiteTypeCorrect`: `Spec => []TypeOK`, for any bounds and any input texts.

- `PostedTxsWereSignedTheorem`: `Spec => []PostedTxsWereSigned`.

The property is not inductive: a submit reads `ui.tx`, and `ui` is written back from states
captured at earlier clicks. `UiInv` therefore also says that the `tx` of the current state and
of every captured state is unset or signed. `signed` only grows (`TxSignedMono`).

`TypeOK` is not inductive either: an answer writes back a captured state, whose fields
`TypeOK` does not constrain. `TypeInv` types the live state and every captured one alike
(`UiTyped`). The lemmas on the operators carry it:

- `FilterType`: `Filter(s, Keep)` is a sequence over `S \cap Keep` for `s \in Seq(S)`;
- `ParseIntType`: `parseInt` of a text is an integer or NaN;
- `ParseGasLimitType`: `parseGasLimit` is unset or a vector of naturals.

`FilterType` rests on `FcnIsSeq` and on the finite-set facts `FS_Interval`, `FS_Subset` and
`FS_CardinalityType`. It holds whichever increasing map `CHOOSE` picks.

**Only model-checked:**

- `OnlyTheOperatorStalls`: TLAPS does not handle liveness or ENABLED.
- The violation runs. A property they violate is false, so there is nothing to prove.
- That `Filter` equals `SelectSeq`: TLAPS has no facts about the recursive `SelectSeq`. TLC
  checks it on the instance's texts.

## 5. Plan for the next sittings

1. **`SnapSystem.tla`.** It will compose `SiteUi` with `SnapRpc`: the site's requests become
   the snap's inputs, and the site's `SnapAccepts` becomes the snap's validator.
2. **Faults of the site.** The unhandled rejection of `getAddress` (line 126) has no property
   yet.

## 6. Not modelled

- The example script `test/index.ts`: it prints one address.
- The batch publishing script: an endless loop of POSTs that keeps no state.
- The Makefile and the docs.
- Inside the snap: logging and the exact bytes of bech32m and of the codec. These are
  abstracted as injective records, because no property depends on them.
- In the site: rendering and layout, and the text of the status messages.
