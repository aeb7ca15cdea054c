-------------------------- MODULE SnapRpcWysiwyg --------------------------
(***************************************************************************)
(* Proof of what-you-see-is-what-you-sign (SignedAsShown) for every      *)
(* value of the constants.  It follows from RequestData: what each        *)
(* request's path, key, panel, message and result are, as functions of    *)
(* its own input, at each point of its control flow.  Requests share the  *)
(* codec but none of these values, so the facts survive every            *)
(* interleaving.                                                           *)
(***************************************************************************)
EXTENDS SnapRpcProofs

(* The cleaned public key of r's key id.                                  *)
KeyOf(r) == CleanPublicKey(RawPublicKey(KeypairPath(input[r].keyId)))

(* r showed the panel of its own transaction and address.                *)
ShownFor(r) ==
    /\ pubKey[r] = KeyOf(r)
    /\ shown[r] = ConfirmationPanel(input[r].tx, BechAddress(KeyOf(r)))

(* The signed transaction r returns when it succeeds.                     *)
SignedResult(r) ==
    LET u == UnsignedTransaction(input[r].tx) IN
    SerializeTransactionHex(
        SignedTransaction(Sign(SerializeUnsigned(u), KeypairPath(input[r].keyId)),
                          KeyOf(r), u))

RequestData(r) ==
    /\ custody[r] # None => custody[r] = KeypairPath(input[r].keyId)
    /\ shown[r] = None \/ ShownFor(r)
    /\ pc[r] \in {"awaitDialog", "awaitSign"} => ShownFor(r)
    /\ pc[r] = "awaitSign" =>
          msg[r] = SerializeUnsigned(UnsignedTransaction(input[r].tx))
    /\ outcome[r] = "ok" /\ input[r].method = "signTransaction" =>
          ShownFor(r) /\ result[r] = SignedResult(r)
    /\ outcome[r] = "ok" /\ input[r].method = "getAddress" =>
          result[r] = BechAddress(KeyOf(r))

(* The request-local functions that TypeOK does not type are over Req.  *)
Shape == DOMAIN shown = Req /\ DOMAIN msg = Req /\ DOMAIN result = Req

DInv == IInv /\ Shape /\ \A r \in Req : RequestData(r)

-----------------------------------------------------------------------------
(* The panel's gas limit reads back as the gas limit it renders.          *)
LEMMA GasLimitReadable ==
    ASSUME NEW g PROVE ReadGasLimit(RenderGasLimit(g)) = g
<1>1. CASE g = NotSet
    BY <1>1 DEF ReadGasLimit, RenderGasLimit
<1>2. CASE g # NotSet
    <2>1. [joined |-> g] # Render("Not Set")
        BY DEF Render
    <2>2. QED
        BY <1>2, <2>1 DEF ReadGasLimit, RenderGasLimit
<1>3. QED
    BY <1>1, <1>2

(* The cleaned key of key id k is the key k alone.                        *)
LEMMA CleanKeyOfPath ==
    ASSUME NEW k
    PROVE  CleanPublicKey(RawPublicKey(KeypairPath(k))) = <<[key |-> k]>>
BY DEF CleanPublicKey, RawPublicKey, KeypairPath

(* A step that leaves request q's values alone keeps q's data facts.     *)
LEMMA DataFrame ==
    ASSUME NEW q, RequestData(q), input' = input,
           pc'[q] = pc[q], outcome'[q] = outcome[q], custody'[q] = custody[q],
           pubKey'[q] = pubKey[q], shown'[q] = shown[q], msg'[q] = msg[q],
           result'[q] = result[q]
    PROVE  RequestData(q)'
BY DEF RequestData, ShownFor, KeyOf, SignedResult

(* A request that ends with an error keeps its data facts.               *)
LEMMA DataFail ==
    ASSUME NEW r, RequestData(r), input' = input,
           custody'[r] = custody[r], pubKey'[r] = pubKey[r], shown'[r] = shown[r],
           pc'[r] = "done", outcome'[r] # "ok"
    PROVE  RequestData(r)'
BY DEF RequestData, ShownFor, KeyOf

(* A request admitted by validation holds the path of its key id.        *)
LEMMA DataAdmit ==
    ASSUME NEW r, RequestData(r), input' = input,
           custody'[r] = KeypairPath(input[r].keyId),
           pubKey'[r] = pubKey[r], shown'[r] = shown[r],
           pc'[r] \in {"awaitPublicKey", "awaitEntropy"}, outcome'[r] # "ok"
    PROVE  RequestData(r)'
BY DEF RequestData, ShownFor, KeyOf

LEMMA InitDInv == Init => DInv
<1> SUFFICES ASSUME Init PROVE DInv
    OBVIOUS
<1>1. IInv
    BY InitIInv
<1>2. Shape /\ \A r \in Req : RequestData(r)
    BY NoneAssumption DEF Init, Shape, RequestData, Outcomes
<1>3. QED
    BY <1>1, <1>2 DEF DInv

(***************************************************************************)
(* Each action keeps the data facts: of the request it runs, by what the  *)
(* action computes; of every other request, by DataFrame.                 *)
(***************************************************************************)
LEMMA NextData ==
    ASSUME DInv, [Next]_vars
    PROVE  Shape' /\ \A q \in Req : RequestData(q)'
<1> USE NoneAssumption
<1>a. /\ TypeOK /\ Shape
      /\ \A r \in Req : RequestControl(r) /\ RequestData(r)
    BY DEF DInv, IInv
<1> USE <1>a DEF TypeOK
<1>0. Shape'
    BY DEF Shape, Next, Step, vars, Terminated, MethodNotFound, GetAddressRequest,
           GetAddressResponse, SignTransactionRequest, SignEntropyResponse,
           SignDialogAnswer, SignComplete
<1>1. ASSUME NEW r \in Req, MethodNotFound(r) PROVE \A q \in Req : RequestData(q)'
    <2>1. RequestData(r)'
        BY <1>1, DataFail DEF MethodNotFound, Finish, Shape
    <2>2. ASSUME NEW q \in Req, q # r PROVE RequestData(q)'
        BY <1>1, <2>2, DataFrame DEF MethodNotFound, Finish, Shape
    <2>3. QED
        BY <2>1, <2>2
<1>2. ASSUME NEW r \in Req, GetAddressRequest(r) PROVE \A q \in Req : RequestData(q)'
    <2>1. outcome[r] # "ok"
        BY <1>2 DEF GetAddressRequest, RequestControl, Outcomes
    <2>2. RequestData(r)'
        BY <1>2, <2>1, DataFail, DataAdmit DEF GetAddressRequest, Finish, Shape
    <2>3. ASSUME NEW q \in Req, q # r PROVE RequestData(q)'
        BY <1>2, <2>3, DataFrame DEF GetAddressRequest, Finish, Shape
    <2>4. QED
        BY <2>2, <2>3
<1>3. ASSUME NEW r \in Req, GetAddressResponse(r) PROVE \A q \in Req : RequestData(q)'
    <2>1. custody[r] = KeypairPath(input[r].keyId) /\ input[r].method = "getAddress"
        BY <1>3, NoneAssumption DEF GetAddressResponse, RequestControl, Awaiting, RequestData
    <2>2. RequestData(r)'
        <3>1. CASE /\ DerivablePath(custody[r])
                   /\ LET pk == CleanPublicKey(RawPublicKey(custody[r])) IN
                        /\ pubKey' = [pubKey EXCEPT ![r] = pk]
                        /\ result' = [result EXCEPT ![r] = BechAddress(pk)]
                   /\ Finish(r, "ok", TRUE)
            BY <1>3, <2>1, <3>1 DEF GetAddressResponse, Finish, RequestData, Shape,
                                    ShownFor, KeyOf
        <3>2. CASE Finish(r, "DerivationError", TRUE) /\ UNCHANGED <<pubKey, result>>
            BY <1>3, <2>1, <3>2 DEF GetAddressResponse, Finish, RequestData, Shape,
                                    ShownFor, KeyOf
        <3>3. QED
            BY <1>3, <3>1, <3>2 DEF GetAddressResponse
    <2>3. ASSUME NEW q \in Req, q # r PROVE RequestData(q)'
        BY <1>3, <2>3, DataFrame DEF GetAddressResponse, Finish, Shape
    <2>4. QED
        BY <2>2, <2>3
<1>4. ASSUME NEW r \in Req, SignTransactionRequest(r) PROVE \A q \in Req : RequestData(q)'
    <2>1. outcome[r] # "ok"
        BY <1>4 DEF SignTransactionRequest, RequestControl, Outcomes
    <2>2. RequestData(r)'
        BY <1>4, <2>1, DataFail, DataAdmit DEF SignTransactionRequest, Finish, Shape
    <2>3. ASSUME NEW q \in Req, q # r PROVE RequestData(q)'
        BY <1>4, <2>3, DataFrame DEF SignTransactionRequest, Finish, Shape
    <2>4. QED
        BY <2>2, <2>3
<1>5. ASSUME NEW r \in Req, SignEntropyResponse(r) PROVE \A q \in Req : RequestData(q)'
    <2>1. custody[r] = KeypairPath(input[r].keyId) /\ input[r].method = "signTransaction"
        BY <1>5, NoneAssumption DEF SignEntropyResponse, RequestControl, Awaiting, RequestData
    <2>2. RequestData(r)'
        <3>1. CASE /\ DerivablePath(custody[r])
                   /\ LET pk == CleanPublicKey(RawPublicKey(custody[r])) IN
                        /\ pubKey' = [pubKey EXCEPT ![r] = pk]
                        /\ shown' = [shown EXCEPT ![r] =
                                        ConfirmationPanel(input[r].tx, BechAddress(pk))]
                   /\ pc' = [pc EXCEPT ![r] = "awaitDialog"]
                   /\ UNCHANGED <<outcome, released>>
            <4>1. ShownFor(r)' /\ pc'[r] = "awaitDialog" /\ input' = input
                BY <1>5, <2>1, <3>1 DEF SignEntropyResponse, Shape, ShownFor, KeyOf
            <4>2. custody'[r] = custody[r] /\ outcome'[r] = outcome[r]
                BY <1>5, <3>1 DEF SignEntropyResponse
            <4>3. outcome[r] # "ok"
                BY <1>5 DEF SignEntropyResponse, RequestControl, Outcomes
            <4>4. QED
                BY <2>1, <4>1, <4>2, <4>3 DEF RequestData
        <3>2. CASE Finish(r, "DerivationError", TRUE) /\ UNCHANGED <<pubKey, shown>>
            BY <1>5, <3>2, DataFail DEF SignEntropyResponse, Finish
        <3>3. QED
            BY <1>5, <3>1, <3>2 DEF SignEntropyResponse
    <2>3. ASSUME NEW q \in Req, q # r PROVE RequestData(q)'
        BY <1>5, <2>3, DataFrame DEF SignEntropyResponse, Finish, Shape
    <2>4. QED
        BY <2>2, <2>3
<1>6. ASSUME NEW r \in Req, SignDialogAnswer(r) PROVE \A q \in Req : RequestData(q)'
    <2>1. ShownFor(r) /\ input[r].method = "signTransaction"
        BY <1>6 DEF SignDialogAnswer, RequestData, RequestControl
    <2>2. RequestData(r)'
        <3>1. /\ input' = input /\ custody' = custody
              /\ pubKey' = pubKey /\ shown' = shown /\ result' = result
            BY <1>6 DEF SignDialogAnswer
        <3>2. CASE \E v \in {"UserRejection", "EncodingError"} : Finish(r, v, TRUE)
            BY <1>6, <3>1, <3>2, DataFail DEF Finish
        <3>3. CASE /\ msg' = [msg EXCEPT ![r] = SerializeUnsigned(UnsignedTransaction(input[r].tx))]
                   /\ pc' = [pc EXCEPT ![r] = "awaitSign"]
                   /\ UNCHANGED outcome
            <4>1. ShownFor(r)'
                BY <2>1, <3>1 DEF ShownFor, KeyOf
            <4>2. outcome[r] # "ok"
                BY <1>6 DEF SignDialogAnswer, RequestControl, Outcomes
            <4>3. QED
                BY <1>6, <2>1, <3>1, <3>3, <4>1, <4>2 DEF RequestData, Shape
        <3>4. QED
            BY <1>6, <3>2, <3>3 DEF SignDialogAnswer
    <2>3. ASSUME NEW q \in Req, q # r PROVE RequestData(q)'
        BY <1>6, <2>3, DataFrame DEF SignDialogAnswer, Finish, Shape
    <2>4. QED
        BY <2>2, <2>3
<1>7. ASSUME NEW r \in Req, SignComplete(r) PROVE \A q \in Req : RequestData(q)'
    <2>1. /\ ShownFor(r)
          /\ input[r].method = "signTransaction"
          /\ msg[r] = SerializeUnsigned(UnsignedTransaction(input[r].tx))
          /\ custody[r] = KeypairPath(input[r].keyId)
        BY <1>7, NoneAssumption DEF SignComplete, RequestData, RequestControl, Awaiting
    <2>2. RequestData(r)'
        <3>1. /\ input' = input /\ custody' = custody
              /\ pubKey' = pubKey /\ shown' = shown
            BY <1>7 DEF SignComplete
        <3>2. ShownFor(r)'
            BY <2>1, <3>1 DEF ShownFor, KeyOf
        <3>3. result'[r] = SignedResult(r)
            BY <1>7, <2>1 DEF SignComplete, Shape, ShownFor, SignedResult
        <3>4. pc'[r] = "done" /\ outcome'[r] = "ok"
            BY <1>7 DEF SignComplete, Finish
        <3>5. QED
            BY <2>1, <3>1, <3>2, <3>3, <3>4 DEF RequestData, SignedResult, ShownFor, KeyOf
    <2>3. ASSUME NEW q \in Req, q # r PROVE RequestData(q)'
        BY <1>7, <2>3, DataFrame DEF SignComplete, Finish, Shape
    <2>4. QED
        BY <2>2, <2>3
<1>8. ASSUME Terminated \/ UNCHANGED vars PROVE \A q \in Req : RequestData(q)'
    BY <1>8, DataFrame DEF Terminated, vars
<1>9. QED
    BY <1>0, <1>1, <1>2, <1>3, <1>4, <1>5, <1>6, <1>7, <1>8 DEF Next, Step

LEMMA NextDInv == DInv /\ [Next]_vars => DInv'
<1> SUFFICES ASSUME DInv, [Next]_vars PROVE DInv'
    OBVIOUS
<1>1. IInv'
    BY NextIInv DEF DInv
<1>2. QED
    BY <1>1, NextData DEF DInv

(* DInv holds in every state of every behaviour of the handler.          *)
LEMMA DInvInvariant == Spec => []DInv
<1>1. Init => DInv
    BY InitDInv
<1>2. DInv /\ [Next]_vars => DInv'
    BY NextDInv
<1>3. QED
    BY <1>1, <1>2, PTL DEF Spec

LEMMA DInvSignedAsShown == DInv => SignedAsShown
<1> SUFFICES ASSUME DInv, NEW r \in Req, outcome[r] = "ok",
                    input[r].method = "signTransaction"
             PROVE  LET st    == result[r].tx_hex
                        panel == shown[r]
                        sig   == st.signature.msg_sig
                    IN  /\ BechAddress(st.pub_key) = panel.from
                        /\ st.runtime_msg = SerializeCall(panel.call.text)
                        /\ st.nonce = panel.nonce.text
                        /\ st.gas_limit = ReadGasLimit(panel.gas_limit)
                        /\ sig.msg = SerializeUnsigned([runtime_msg |-> st.runtime_msg,
                                                        nonce |-> st.nonce,
                                                        gas_limit |-> st.gas_limit])
                        /\ st.pub_key = <<[key |-> sig.signer]>>
    BY DEF SignedAsShown
<1>1. ShownFor(r) /\ result[r] = SignedResult(r)
    BY DEF DInv, RequestData
<1>2. KeyOf(r) = <<[key |-> input[r].keyId]>>
    BY CleanKeyOfPath DEF KeyOf
<1>3. ReadGasLimit(RenderGasLimit(input[r].tx.gas_limit)) = input[r].tx.gas_limit
    BY GasLimitReadable
<1>4. QED
    BY <1>1, <1>2, <1>3
    DEF ShownFor, SignedResult, ConfirmationPanel, Render, SerializeTransactionHex,
        SignedTransaction, Sign, UnsignedTransaction, KeypairPath

(***************************************************************************)
(* What you see is what you sign (spec 4.5): a signed transaction that   *)
(* signTransaction returns carries exactly the fields the panel showed   *)
(* the operator (lines 653-671), the key whose address the panel showed, *)
(* and a signature by that key over those fields (lines 680-714), for    *)
(* any number of concurrent requests and any inputs.                      *)
(***************************************************************************)
THEOREM SignedAsShownTheorem == Spec => []SignedAsShown
BY DInvInvariant, DInvSignedAsShown, PTL

=============================================================================
