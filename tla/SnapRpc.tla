------------------------------ MODULE SnapRpc ------------------------------
(***************************************************************************)
(* The snap's JSON-RPC handler `onRpcRequest` (packages/snap/src/index.ts, *)
(* concatenated into Sovereign.tsx lines 551-743) serving several requests *)
(* that are in flight at the same time.                                    *)
(*                                                                         *)
(* JavaScript runs a handler without preemption between two `await`s, so  *)
(* each action below is the code of one request from one `await` (or the *)
(* entry) to the next `await` (or the return / throw), the whole segment. *)
(* The awaited collaborators are the environment: the key custody         *)
(* (snap_getBip32PublicKey / snap_getBip32Entropy), the operator's        *)
(* confirmation dialog (snap_dialog) and the ed25519 signer.              *)
(*                                                                         *)
(* The codec `wasm` is ONE module-level SovWasm object (line 563) shared  *)
(* by every request: `wasmLive` is the set of requests whose codec        *)
(* allocations are live in it, and `wasm.dealloc()` frees all of them.    *)
(* SovWasm is not under src/; its semantics (every call allocates in the  *)
(* handle, dealloc frees everything) are taken from the spec, section 4.6. *)
(***************************************************************************)
EXTENDS Integers, Sequences

CONSTANTS
    Req,            \* identifiers of the requests handled concurrently
    KeyIdInputs,    \* values a caller may pass as `keyId`
    NonceInputs,    \* values a caller may pass as a numeric envelope field
    GasInputs,      \* values a caller may pass as `gas_limit` (or NotSet)
    ObjectCalls,    \* `call` payloads that are JSON objects
    StringCalls,    \* `call` payloads that are JSON strings
    EncodableCalls, \* object payloads the runtime's call codec accepts
    NotANumber,     \* a JSON value that is not a number (e.g. "0")
    NotSet,         \* an absent optional field
    None            \* "no value yet"

ASSUME ConstantsAssumption ==
    /\ KeyIdInputs \subseteq Int \cup {NotANumber}
    /\ NonceInputs \subseteq Int \cup {NotANumber}
    /\ EncodableCalls \subseteq ObjectCalls
    /\ ObjectCalls \cap StringCalls = {}
    /\ NotSet \notin Seq(Int)
    /\ \A g \in GasInputs : g = NotSet \/ g \in Seq(Int \cup {NotANumber})

(***************************************************************************)
(* Requests.  A request is `getAddress`, `signTransaction` or any other   *)
(* method name; its params are drawn from the input sets.                 *)
(***************************************************************************)
Calls == ObjectCalls \cup StringCalls

Txs == [call : Calls, nonce : NonceInputs, gas_limit : GasInputs]

Inputs ==
    [method : {"getAddress"}, keyId : KeyIdInputs]
    \cup [method : {"signTransaction"}, keyId : KeyIdInputs, tx : Txs]
    \cup [method : {"foo"}]

Outcomes == {"ok", "ValidationError", "DerivationError", "EncodingError",
             "UserRejection", "SigningError", "MethodNotFound"}

(***************************************************************************)
(* Validation with superstruct (part_000): `number()` accepts any JS      *)
(* number, negative or huge; `object()` accepts objects only; gas_limit   *)
(* is `optional(array(number()))`.                                        *)
(***************************************************************************)
IsNumber(v) == v \in Int

ValidGasLimit(g) == IF g = NotSet THEN TRUE ELSE \A i \in DOMAIN g : IsNumber(g[i])

ValidTransaction(t) ==
    /\ t.call \in ObjectCalls
    /\ IsNumber(t.nonce)
    /\ ValidGasLimit(t.gas_limit)

ValidGetAddress(p) == IsNumber(p.keyId)

ValidSignTransaction(p) == IsNumber(p.keyId) /\ ValidTransaction(p.tx)

(***************************************************************************)
(* getKeypairParams: the path m/44'/1551'/<keyId>'.  The custody only    *)
(* derives a hardened child for an index in 0 .. 2^31-1.                 *)
(***************************************************************************)
MaxHardenedIndex == 2147483647

KeypairPath(k) == <<"m", "44'", "1551'", [index |-> k, hardened |-> TRUE]>>

DerivablePath(path) == path[4].index \in 0..MaxHardenedIndex

(* The custody's public key: a flag byte followed by the key bytes.      *)
RawPublicKey(path) == <<"flag00", [key |-> path[4].index]>>

(* cleanPublicKeyResponse: drop the flag byte.                           *)
CleanPublicKey(raw) == Tail(raw)

(* The paths and cleaned keys requests can hold.                         *)
Paths == {KeypairPath(k) : k \in KeyIdInputs \cap Int}

PublicKeys == {CleanPublicKey(RawPublicKey(p)) : p \in Paths}

(* wasm.bechEncodePublicKey: bech32m with the chain's prefix.            *)
BechAddress(pk) == [hrp |-> "sov", data |-> pk]

(***************************************************************************)
(* The confirmation panel (lines 653-671): each field is rendered as     *)
(* text.  `gas_limit` is joined with ", " when present (an empty array   *)
(* renders as ""), and shown as "Not Set" only when absent.              *)
(***************************************************************************)
Render(v) == [text |-> v]

(* Mutant: an empty gas limit rendered as "Not Set" (a length test).    *)
RenderGasLimitByLength(g) ==
    IF g = NotSet \/ g = <<>> THEN Render("Not Set") ELSE [joined |-> g]

RenderGasLimit(g) == IF g = NotSet THEN Render("Not Set") ELSE [joined |-> g]

ConfirmationPanel(t, address) ==
    [call |-> Render(t.call), from |-> address,
     nonce |-> Render(t.nonce), gas_limit |-> RenderGasLimit(t.gas_limit)]

(***************************************************************************)
(* The canonical encoder and the signer.  The numeric fields are u64 in  *)
(* the runtime, so a negative number fails to encode.                    *)
(***************************************************************************)
SerializeCall(c) == [runtime_msg_of |-> c]

EncodableNumbers(t) ==
    /\ t.nonce >= 0
    /\ t.gas_limit # NotSet => \A i \in DOMAIN t.gas_limit : t.gas_limit[i] >= 0

(* omitKey("call", transaction) spread together with runtime_msg.        *)
UnsignedTransaction(t) ==
    [runtime_msg |-> SerializeCall(t.call), nonce |-> t.nonce,
     gas_limit |-> t.gas_limit]

SerializeUnsigned(u) == [unsigned_bytes |-> u]

Sign(bytes, path) == [msg |-> bytes, signer |-> path[4].index]

SignedTransaction(sig, pk, u) ==
    [signature |-> [msg_sig |-> sig], pub_key |-> pk,
     runtime_msg |-> u.runtime_msg, nonce |-> u.nonce, gas_limit |-> u.gas_limit]

SerializeTransactionHex(st) == [tx_hex |-> st]

(* "No value yet" is none of the values a request can hold.              *)
ASSUME NoneAssumption ==
    /\ None \notin Paths
    /\ None \notin Outcomes

-----------------------------------------------------------------------------
VARIABLES
    input,      \* input[r]: the method and params of request r
    pc,         \* pc[r]: where request r is suspended
    outcome,    \* outcome[r]: what r returned or threw (None while running)
    custody,    \* custody[r]: the path r asked the custody for, or None
    pubKey,     \* pubKey[r]: the cleaned public key r derived, or None
    shown,      \* shown[r]: the confirmation panel r displayed, or None
    msg,        \* msg[r]: the serialized unsigned tx r is signing, or None
    result,     \* result[r]: the value r returned, or None
    encCalls,   \* encCalls[r]: canonical encoder calls made by r
    signCalls,  \* signCalls[r]: signer calls made by r
    released,   \* released[r]: wasm.dealloc() calls made by r
    wasmLive    \* requests with live allocations in the shared codec

vars == <<input, pc, outcome, custody, pubKey, shown, msg, result,
          encCalls, signCalls, released, wasmLive>>

Pcs == {"start", "awaitPublicKey", "awaitEntropy", "awaitDialog",
        "awaitSign", "done"}

Init ==
    /\ input \in [Req -> Inputs]
    /\ pc = [r \in Req |-> "start"]
    /\ outcome = [r \in Req |-> None]
    /\ custody = [r \in Req |-> None]
    /\ pubKey = [r \in Req |-> None]
    /\ shown = [r \in Req |-> None]
    /\ msg = [r \in Req |-> None]
    /\ result = [r \in Req |-> None]
    /\ encCalls = [r \in Req |-> 0]
    /\ signCalls = [r \in Req |-> 0]
    /\ released = [r \in Req |-> 0]
    /\ wasmLive = {}

(* Request r finishes with outcome o; `release` when it calls dealloc.  *)
Finish(r, o, release) ==
    /\ pc' = [pc EXCEPT ![r] = "done"]
    /\ outcome' = [outcome EXCEPT ![r] = o]
    /\ released' = [released EXCEPT ![r] = @ + (IF release THEN 1 ELSE 0)]
    /\ wasmLive' = IF release THEN {} ELSE wasmLive

(***************************************************************************)
(* default: an unknown method throws "Method not found." (line 723).     *)
(***************************************************************************)
MethodNotFound(r) ==
    /\ pc[r] = "start"
    /\ input[r].method \notin {"getAddress", "signTransaction"}
    /\ Finish(r, "MethodNotFound", FALSE)
    /\ UNCHANGED <<input, custody, pubKey, shown, msg, result, encCalls, signCalls>>

(* Mutant: getAddress without the validation guard.                      *)
GetAddressRequestUnvalidated(r) ==
    /\ pc[r] = "start"
    /\ input[r].method = "getAddress"
    /\ pc' = [pc EXCEPT ![r] = "awaitPublicKey"]
    /\ custody' = [custody EXCEPT ![r] = KeypairPath(input[r].keyId)]
    /\ UNCHANGED <<input, outcome, released, wasmLive, pubKey, shown, msg,
                   result, encCalls, signCalls>>

(***************************************************************************)
(* getAddress, entry (lines 582-603): validate the params, throwing      *)
(* invalidParams before the try block, else ask the custody for the      *)
(* public key of the key id's path and suspend.                          *)
(***************************************************************************)
GetAddressRequest(r) ==
    /\ pc[r] = "start"
    /\ input[r].method = "getAddress"
    /\ \/ /\ ~ValidGetAddress(input[r])
          /\ Finish(r, "ValidationError", FALSE)
          /\ UNCHANGED custody
       \/ /\ ValidGetAddress(input[r])
          /\ pc' = [pc EXCEPT ![r] = "awaitPublicKey"]
          /\ custody' = [custody EXCEPT ![r] = KeypairPath(input[r].keyId)]
          /\ UNCHANGED <<outcome, released, wasmLive>>
    /\ UNCHANGED <<input, pubKey, shown, msg, result, encCalls, signCalls>>

(* Mutant: getAddress whose catch block rethrows without dealloc.        *)
GetAddressResponseNoCatchRelease(r) ==
    /\ pc[r] = "awaitPublicKey"
    /\ \/ /\ DerivablePath(custody[r])
          /\ LET pk == CleanPublicKey(RawPublicKey(custody[r])) IN
               /\ pubKey' = [pubKey EXCEPT ![r] = pk]
               /\ result' = [result EXCEPT ![r] = BechAddress(pk)]
          /\ Finish(r, "ok", TRUE)
       \/ /\ Finish(r, "DerivationError", FALSE)
          /\ UNCHANGED <<pubKey, result>>
    /\ UNCHANGED <<input, custody, shown, msg, encCalls, signCalls>>

(***************************************************************************)
(* getAddress, resumed by the custody (lines 603-616): on an answer,     *)
(* clean the key, bech-encode it, dealloc and return the address; if    *)
(* the request throws (always for a path the custody cannot derive, and *)
(* whenever the wallet refuses), the catch block deallocs and rethrows. *)
(***************************************************************************)
GetAddressResponse(r) ==
    /\ pc[r] = "awaitPublicKey"
    /\ \/ /\ DerivablePath(custody[r])
          /\ LET pk == CleanPublicKey(RawPublicKey(custody[r])) IN
               /\ pubKey' = [pubKey EXCEPT ![r] = pk]
               /\ result' = [result EXCEPT ![r] = BechAddress(pk)]
          /\ Finish(r, "ok", TRUE)
       \/ /\ Finish(r, "DerivationError", TRUE)
          /\ UNCHANGED <<pubKey, result>>
    /\ UNCHANGED <<input, custody, shown, msg, encCalls, signCalls>>

(***************************************************************************)
(* signTransaction, entry (lines 619-637): validate, else ask the        *)
(* custody for the key pair's entropy and suspend.                       *)
(***************************************************************************)
SignTransactionRequest(r) ==
    /\ pc[r] = "start"
    /\ input[r].method = "signTransaction"
    /\ \/ /\ ~ValidSignTransaction(input[r])
          /\ Finish(r, "ValidationError", FALSE)
          /\ UNCHANGED custody
       \/ /\ ValidSignTransaction(input[r])
          /\ pc' = [pc EXCEPT ![r] = "awaitEntropy"]
          /\ custody' = [custody EXCEPT ![r] = KeypairPath(input[r].keyId)]
          /\ UNCHANGED <<outcome, released, wasmLive>>
    /\ UNCHANGED <<input, pubKey, shown, msg, result, encCalls, signCalls>>

(***************************************************************************)
(* signTransaction, resumed by the custody (lines 634-673): build the   *)
(* SLIP-10 node, clean its public key, bech-encode it with the shared   *)
(* codec, open the confirmation dialog and suspend.  (The `await` of    *)
(* SLIP10Node.fromJSON touches no shared state and is merged here.)     *)
(***************************************************************************)
SignEntropyResponse(r) ==
    /\ pc[r] = "awaitEntropy"
    /\ \/ /\ DerivablePath(custody[r])
          /\ LET pk == CleanPublicKey(RawPublicKey(custody[r])) IN
               /\ pubKey' = [pubKey EXCEPT ![r] = pk]
               /\ shown' = [shown EXCEPT ![r] =
                               ConfirmationPanel(input[r].tx, BechAddress(pk))]
          /\ pc' = [pc EXCEPT ![r] = "awaitDialog"]
          /\ wasmLive' = wasmLive \cup {r}
          /\ UNCHANGED <<outcome, released>>
       \/ /\ Finish(r, "DerivationError", TRUE)
          /\ UNCHANGED <<pubKey, shown>>
    /\ UNCHANGED <<input, custody, msg, result, encCalls, signCalls>>

(* Mutants: the call serialized before `approved` is tested; and a      *)
(* rejection thrown past the dealloc of the catch block.                *)
SignDialogAnswerLateCheck(r) ==
    /\ pc[r] = "awaitDialog"
    /\ LET t == input[r].tx IN
       \/ /\ encCalls' = [encCalls EXCEPT ![r] = @ + 1]
          /\ Finish(r, "UserRejection", TRUE)
          /\ UNCHANGED <<msg, signCalls>>
       \/ /\ t.call \notin EncodableCalls
          /\ encCalls' = [encCalls EXCEPT ![r] = @ + 1]
          /\ Finish(r, "EncodingError", TRUE)
          /\ UNCHANGED <<msg, signCalls>>
       \/ /\ t.call \in EncodableCalls
          /\ ~EncodableNumbers(t)
          /\ encCalls' = [encCalls EXCEPT ![r] = @ + 2]
          /\ Finish(r, "EncodingError", TRUE)
          /\ UNCHANGED <<msg, signCalls>>
       \/ /\ t.call \in EncodableCalls
          /\ EncodableNumbers(t)
          /\ encCalls' = [encCalls EXCEPT ![r] = @ + 2]
          /\ msg' = [msg EXCEPT ![r] = SerializeUnsigned(UnsignedTransaction(t))]
          /\ signCalls' = [signCalls EXCEPT ![r] = @ + 1]
          /\ pc' = [pc EXCEPT ![r] = "awaitSign"]
          /\ wasmLive' = wasmLive \cup {r}
          /\ UNCHANGED <<outcome, released>>
    /\ UNCHANGED <<input, custody, pubKey, shown, result>>

SignDialogAnswerRejectNoRelease(r) ==
    /\ pc[r] = "awaitDialog"
    /\ LET t == input[r].tx IN
       \/ /\ Finish(r, "UserRejection", FALSE)
          /\ UNCHANGED <<msg, encCalls, signCalls>>
       \/ /\ t.call \notin EncodableCalls
          /\ encCalls' = [encCalls EXCEPT ![r] = @ + 1]
          /\ Finish(r, "EncodingError", TRUE)
          /\ UNCHANGED <<msg, signCalls>>
       \/ /\ t.call \in EncodableCalls
          /\ ~EncodableNumbers(t)
          /\ encCalls' = [encCalls EXCEPT ![r] = @ + 2]
          /\ Finish(r, "EncodingError", TRUE)
          /\ UNCHANGED <<msg, signCalls>>
       \/ /\ t.call \in EncodableCalls
          /\ EncodableNumbers(t)
          /\ encCalls' = [encCalls EXCEPT ![r] = @ + 2]
          /\ msg' = [msg EXCEPT ![r] = SerializeUnsigned(UnsignedTransaction(t))]
          /\ signCalls' = [signCalls EXCEPT ![r] = @ + 1]
          /\ pc' = [pc EXCEPT ![r] = "awaitSign"]
          /\ wasmLive' = wasmLive \cup {r}
          /\ UNCHANGED <<outcome, released>>
    /\ UNCHANGED <<input, custody, pubKey, shown, result>>

(***************************************************************************)
(* signTransaction, resumed by the operator (lines 675-695).  A reject  *)
(* throws userRejectedRequest into the catch block (dealloc).  On       *)
(* approval: serializeCall, then serializeUnsignedTransaction, either   *)
(* of which may throw into the catch block, then start signing the     *)
(* serialized bytes and suspend.                                        *)
(***************************************************************************)
SignDialogAnswer(r) ==
    /\ pc[r] = "awaitDialog"
    /\ LET t == input[r].tx IN
       \/ /\ Finish(r, "UserRejection", TRUE)
          /\ UNCHANGED <<msg, encCalls, signCalls>>
       \/ /\ t.call \notin EncodableCalls
          /\ encCalls' = [encCalls EXCEPT ![r] = @ + 1]
          /\ Finish(r, "EncodingError", TRUE)
          /\ UNCHANGED <<msg, signCalls>>
       \/ /\ t.call \in EncodableCalls
          /\ ~EncodableNumbers(t)
          /\ encCalls' = [encCalls EXCEPT ![r] = @ + 2]
          /\ Finish(r, "EncodingError", TRUE)
          /\ UNCHANGED <<msg, signCalls>>
       \/ /\ t.call \in EncodableCalls
          /\ EncodableNumbers(t)
          /\ encCalls' = [encCalls EXCEPT ![r] = @ + 2]
          /\ msg' = [msg EXCEPT ![r] = SerializeUnsigned(UnsignedTransaction(t))]
          /\ signCalls' = [signCalls EXCEPT ![r] = @ + 1]
          /\ pc' = [pc EXCEPT ![r] = "awaitSign"]
          /\ wasmLive' = wasmLive \cup {r}
          /\ UNCHANGED <<outcome, released>>
    /\ UNCHANGED <<input, custody, pubKey, shown, result>>

(* Mutant: a lock on the shared codec held across the await of the     *)
(* dialog: the signer's continuation waits while another request's      *)
(* dialog is open.                                                       *)
SignCompleteExclusiveCodec(r) ==
    /\ \A q \in Req \ {r} : pc[q] # "awaitDialog"
    /\ pc[r] = "awaitSign"
    /\ LET sig == Sign(msg[r], custody[r])
           st  == SignedTransaction(sig, pubKey[r], UnsignedTransaction(input[r].tx))
       IN  result' = [result EXCEPT ![r] = SerializeTransactionHex(st)]
    /\ encCalls' = [encCalls EXCEPT ![r] = @ + 1]
    /\ Finish(r, "ok", TRUE)
    /\ UNCHANGED <<input, custody, pubKey, shown, msg, signCalls>>

(***************************************************************************)
(* signTransaction, resumed by the signer (lines 695-714): assemble the *)
(* signed transaction, serializeTransaction, hex it, dealloc, return.   *)
(***************************************************************************)
SignComplete(r) ==
    /\ pc[r] = "awaitSign"
    /\ LET sig == Sign(msg[r], custody[r])
           st  == SignedTransaction(sig, pubKey[r], UnsignedTransaction(input[r].tx))
       IN  result' = [result EXCEPT ![r] = SerializeTransactionHex(st)]
    /\ encCalls' = [encCalls EXCEPT ![r] = @ + 1]
    /\ Finish(r, "ok", TRUE)
    /\ UNCHANGED <<input, custody, pubKey, shown, msg, signCalls>>

(* Every request has been answered: the handler has nothing left to do. *)
Terminated ==
    /\ \A r \in Req : pc[r] = "done"
    /\ UNCHANGED vars

Step(r) ==
    \/ MethodNotFound(r)
    \/ GetAddressRequest(r)
    \/ GetAddressResponse(r)
    \/ SignTransactionRequest(r)
    \/ SignEntropyResponse(r)
    \/ SignDialogAnswer(r)
    \/ SignComplete(r)

Next == (\E r \in Req : Step(r)) \/ Terminated

Spec == Init /\ [][Next]_vars

(* The steps of r that the handler's code and its collaborators take: all *)
(* but the operator's answer at the dialog.                               *)
CodeStep(r) == Step(r) /\ pc[r] # "awaitDialog"

(* Every step of the handler's own code, of the custody and of the       *)
(* signer is eventually taken while it stays possible: each is a        *)
(* promise that settles.  The operator's answer is not: the dialog has  *)
(* no timeout and the operator may never answer.                         *)
FairSpec == Spec /\ \A r \in Req : WF_vars(CodeStep(r))

-----------------------------------------------------------------------------
(***************************************************************************)
(* Type invariant.                                                        *)
(***************************************************************************)
TypeOK ==
    /\ input \in [Req -> Inputs]
    /\ pc \in [Req -> Pcs]
    /\ outcome \in [Req -> Outcomes \cup {None}]
    /\ custody \in [Req -> Paths \cup {None}]
    /\ pubKey \in [Req -> PublicKeys \cup {None}]
    /\ encCalls \in [Req -> Nat]
    /\ signCalls \in [Req -> Nat]
    /\ released \in [Req -> Nat]
    /\ wasmLive \subseteq Req

(***************************************************************************)
(* Spec 4.4, 4.5 and 7: a failure at any step raises its error and skips *)
(* the steps after it.  A request that fails returns nothing; one that   *)
(* fails before the operator approves (validation, unknown method,       *)
(* custody, rejection at lines 675-678) never reaches the canonical      *)
(* encoder nor the signer; and one whose encoding fails after approval   *)
(* (serializeCall at 681, serializeUnsignedTransaction at 691) never     *)
(* reaches the signer.                                                    *)
(***************************************************************************)
FailsBeforeEncoding ==
    {"ValidationError", "MethodNotFound", "DerivationError", "UserRejection"}

FailureSkipsRemainingSteps ==
    \A r \in Req :
        /\ outcome[r] \notin {"ok", None} => result[r] = None
        /\ outcome[r] \in FailsBeforeEncoding => encCalls[r] = 0 /\ signCalls[r] = 0
        /\ outcome[r] = "EncodingError" => signCalls[r] = 0

(***************************************************************************)
(* Spec 4.6 and 7: every request that got past validation releases the   *)
(* codec exactly once when it returns or throws, whichever of its exits  *)
(* it takes (lines 609, 614, 712, 716); a request refused by validation  *)
(* or with an unknown method never reached the custody and releases     *)
(* nothing; no request releases before it ends.                          *)
(***************************************************************************)
ReleaseExactlyOnce ==
    \A r \in Req :
        /\ pc[r] # "done" => released[r] = 0
        /\ pc[r] = "done" =>
              /\ released[r] = IF custody[r] = None THEN 0 ELSE 1
              /\ (custody[r] = None) =
                    (outcome[r] \in {"ValidationError", "MethodNotFound"})

(***************************************************************************)
(* Spec 4.5 (what you see is what you sign): a signed transaction the    *)
(* handler returns carries exactly the fields the operator approved in   *)
(* the panel, read back from their rendering, a public key whose address *)
(* is the one the panel showed, and a signature by that key over the    *)
(* serialization of exactly those fields (lines 653-714).                *)
(***************************************************************************)
ReadGasLimit(rendered) ==
    IF rendered = Render("Not Set") THEN NotSet ELSE rendered.joined

SignedAsShown ==
    \A r \in Req :
        (outcome[r] = "ok" /\ input[r].method = "signTransaction") =>
            LET st    == result[r].tx_hex
                panel == shown[r]
                sig   == st.signature.msg_sig
            IN  /\ BechAddress(st.pub_key) = panel.from
                /\ st.runtime_msg = SerializeCall(panel.call.text)
                /\ st.nonce = panel.nonce.text
                /\ st.gas_limit = ReadGasLimit(panel.gas_limit)
                /\ sig.msg = SerializeUnsigned([runtime_msg |-> st.runtime_msg,
                                                nonce |-> st.nonce,
                                                gas_limit |-> st.gas_limit])
                /\ st.pub_key = <<[key |-> sig.signer]>>

(***************************************************************************)
(* Spec 5: the confirmation dialog (line 649) is the only place a request *)
(* may wait forever, since the wait there is operator-paced and          *)
(* unbounded.  Under fair scheduling of the handler, the custody and the *)
(* signer, but not of the operator, every request either ends (and so,  *)
(* by ReleaseExactlyOnce, has released the codec) or from some point on *)
(* waits at the dialog for good, whatever the other requests do.         *)
(***************************************************************************)
OnlyTheOperatorStalls ==
    \A r \in Req : <>(pc[r] = "done") \/ <>[](pc[r] = "awaitDialog")

(***************************************************************************)
(* Spec 4.6 and 5: each request owns its codec resources, released at    *)
(* the end of THAT request.  The code shares the one module-level `wasm` *)
(* (line 563): a request's allocations must leave the codec only in the  *)
(* step in which that request itself returns or throws.                  *)
(***************************************************************************)
NoForeignRelease ==
    [][\A r \in Req :
          (r \in wasmLive /\ r \notin wasmLive') =>
              (pc[r] # "done" /\ pc'[r] = "done")]_vars

(***************************************************************************)
(* Spec 3, 4.1 and 4.2: the validator only lets a non-negative integer   *)
(* key id through, so every path the custody is asked for has an index  *)
(* in Nat (getKeypairParams, line 729, formats whatever number it gets). *)
(***************************************************************************)
CustodyPathsValid ==
    \A r \in Req : custody[r] # None => custody[r][4].index \in Nat

(***************************************************************************)
(* The golden test (lines 519-544) and the README example send `call` as *)
(* a JSON string and expect a signed transaction: such a request, with   *)
(* every other field well-formed, is not refused by validation.          *)
(***************************************************************************)
GoldenRequestAccepted ==
    \A r \in Req :
        /\ input[r].method = "signTransaction"
        /\ input[r].tx.call \in StringCalls
        /\ IsNumber(input[r].keyId)
        /\ IsNumber(input[r].tx.nonce)
        /\ ValidGasLimit(input[r].tx.gas_limit)
        => outcome[r] # "ValidationError"


(***************************************************************************)
(* Refinement: the handler implements the per-request protocol of        *)
(* SigningProtocol.  A request's stage is read off where it is suspended; *)
(* its verdict, signings and releases are outcome, signCalls and         *)
(* released; validation (lines 587-591, 624-629) decides admission.      *)
(***************************************************************************)
AdmissibleInput(i) ==
    CASE i.method = "getAddress"      -> ValidGetAddress(i)
      [] i.method = "signTransaction" -> ValidSignTransaction(i)
      [] OTHER                        -> FALSE

StageOfPc(p) ==
    CASE p = "start"                              -> "received"
      [] p \in {"awaitPublicKey", "awaitEntropy"} -> "admitted"
      [] p = "awaitDialog"                        -> "awaitingOperator"
      [] p = "awaitSign"                          -> "signing"
      [] p = "done"                               -> "done"

Stage == [r \in Req |-> StageOfPc(pc[r])]

Protocol == INSTANCE SigningProtocol
              WITH request <- input, stage <- Stage,
                   verdict <- outcome, signings <- signCalls, freed <- released,
                   Requests <- Inputs, Admissible <- AdmissibleInput

(* Every behaviour of the concurrent handler is one of the protocol's:   *)
(* each await-to-await segment of onRpcRequest is a protocol step of its  *)
(* request, so no request is signed without an approval, signed twice,   *)
(* ended twice, or left without its one release.                           *)
ImplementsSigningProtocol == Protocol!ASpec

=============================================================================
