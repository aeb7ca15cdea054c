--------------------------- MODULE SnapRpcProofs ---------------------------
(***************************************************************************)
(* Proofs about SnapRpc for every value of its constants: the type        *)
(* invariant, that a failure skips the steps after it                    *)
(* (FailureSkipsRemainingSteps) and the release discipline of the codec  *)
(* (ReleaseExactlyOnce), from one inductive invariant IInv.               *)
(***************************************************************************)
EXTENDS SnapRpc, TLAPS

Awaiting == {"awaitPublicKey", "awaitEntropy", "awaitDialog", "awaitSign"}

(***************************************************************************)
(* What the control flow of one request guarantees about its own state:  *)
(* until it ends it has no outcome, no result and has released nothing;  *)
(* it holds a custody path exactly while suspended or after it got past  *)
(* validation; and it calls neither the encoder nor the signer before the *)
(* operator's answer.                                                     *)
(***************************************************************************)
RequestControl(r) ==
    /\ pc[r] # "done" => outcome[r] = None /\ result[r] = None /\ released[r] = 0
    /\ pc[r] = "start" => custody[r] = None
    /\ pc[r] \in Awaiting => custody[r] \in Paths
    /\ pc[r] = "awaitPublicKey" => input[r].method = "getAddress"
    /\ pc[r] \in {"awaitEntropy", "awaitDialog", "awaitSign"} =>
          input[r].method = "signTransaction"
    /\ pc[r] \in {"start", "awaitPublicKey", "awaitEntropy", "awaitDialog"} =>
          encCalls[r] = 0 /\ signCalls[r] = 0

IInv ==
    /\ TypeOK
    /\ \A r \in Req : RequestControl(r)
    /\ FailureSkipsRemainingSteps
    /\ ReleaseExactlyOnce


-----------------------------------------------------------------------------
(* The key id of a getAddress or signTransaction request is an input.    *)
LEMMA InputKeyId ==
    ASSUME NEW i \in Inputs, i.method \in {"getAddress", "signTransaction"}
    PROVE  i.keyId \in KeyIdInputs
BY DEF Inputs, Txs

(* The path of a key id that passed validation is a path of Paths.       *)
LEMMA PathOfValidKeyId ==
    ASSUME NEW k \in KeyIdInputs, IsNumber(k)
    PROVE  KeypairPath(k) \in Paths
BY DEF Paths, IsNumber

(* The cleaned key of a path of Paths is a key of PublicKeys.            *)
LEMMA KeyOfPath ==
    ASSUME NEW p \in Paths
    PROVE  CleanPublicKey(RawPublicKey(p)) \in PublicKeys
BY DEF PublicKeys

LEMMA InitIInv == Init => IInv
<1> SUFFICES ASSUME Init PROVE IInv
    OBVIOUS
<1>1. TypeOK
    BY DEF Init, TypeOK, Pcs
<1>2. \A r \in Req : RequestControl(r)
    BY DEF Init, RequestControl, Awaiting
<1>3. FailureSkipsRemainingSteps /\ ReleaseExactlyOnce
    BY NoneAssumption DEF Init, FailureSkipsRemainingSteps, FailsBeforeEncoding, ReleaseExactlyOnce, Outcomes
<1>4. QED
    BY <1>1, <1>2, <1>3 DEF IInv


LEMMA NextIInv == IInv /\ [Next]_vars => IInv'
<1> SUFFICES ASSUME IInv, [Next]_vars PROVE IInv'
    OBVIOUS
<1> USE NoneAssumption
<1>1. ASSUME NEW r \in Req, MethodNotFound(r) PROVE IInv'
    BY <1>1 DEF IInv, TypeOK, RequestControl, FailureSkipsRemainingSteps, FailsBeforeEncoding, ReleaseExactlyOnce,
               MethodNotFound, Finish, Pcs, Outcomes, Awaiting
<1>2. ASSUME NEW r \in Req, GetAddressRequest(r) PROVE IInv'
    BY <1>2, InputKeyId, PathOfValidKeyId
       DEF IInv, TypeOK, RequestControl, FailureSkipsRemainingSteps, FailsBeforeEncoding, ReleaseExactlyOnce,
           GetAddressRequest, ValidGetAddress, Finish, Pcs, Outcomes, Awaiting
<1>3. ASSUME NEW r \in Req, GetAddressResponse(r) PROVE IInv'
    <2>1. custody[r] \in Paths
        BY <1>3 DEF GetAddressResponse, IInv, RequestControl, Awaiting
    <2>2. CASE /\ DerivablePath(custody[r])
               /\ LET pk == CleanPublicKey(RawPublicKey(custody[r])) IN
                    /\ pubKey' = [pubKey EXCEPT ![r] = pk]
                    /\ result' = [result EXCEPT ![r] = BechAddress(pk)]
               /\ Finish(r, "ok", TRUE)
        BY <1>3, <2>1, <2>2, KeyOfPath
           DEF IInv, TypeOK, RequestControl, FailureSkipsRemainingSteps, FailsBeforeEncoding, ReleaseExactlyOnce,
               GetAddressResponse, Finish, Pcs, Outcomes, Awaiting
    <2>3. CASE /\ Finish(r, "DerivationError", TRUE)
               /\ UNCHANGED <<pubKey, result>>
        BY <1>3, <2>1, <2>3
           DEF IInv, TypeOK, RequestControl, FailureSkipsRemainingSteps, FailsBeforeEncoding, ReleaseExactlyOnce,
               GetAddressResponse, Finish, Pcs, Outcomes, Awaiting
    <2>4. QED
        BY <1>3, <2>2, <2>3 DEF GetAddressResponse
<1>4. ASSUME NEW r \in Req, SignTransactionRequest(r) PROVE IInv'
    BY <1>4, InputKeyId, PathOfValidKeyId
       DEF IInv, TypeOK, RequestControl, FailureSkipsRemainingSteps, FailsBeforeEncoding, ReleaseExactlyOnce,
           SignTransactionRequest, ValidSignTransaction, Finish, Pcs, Outcomes, Awaiting
<1>5. ASSUME NEW r \in Req, SignEntropyResponse(r) PROVE IInv'
    BY <1>5, KeyOfPath
       DEF IInv, TypeOK, RequestControl, FailureSkipsRemainingSteps, FailsBeforeEncoding, ReleaseExactlyOnce,
           SignEntropyResponse, Finish, Pcs, Outcomes, Awaiting
<1>6. ASSUME NEW r \in Req, SignDialogAnswer(r) PROVE IInv'
    BY <1>6
       DEF IInv, TypeOK, RequestControl, FailureSkipsRemainingSteps, FailsBeforeEncoding, ReleaseExactlyOnce,
           SignDialogAnswer, Finish, Pcs, Outcomes, Awaiting
<1>7. ASSUME NEW r \in Req, SignComplete(r) PROVE IInv'
    BY <1>7
       DEF IInv, TypeOK, RequestControl, FailureSkipsRemainingSteps, FailsBeforeEncoding, ReleaseExactlyOnce,
           SignComplete, Finish, Pcs, Outcomes, Awaiting
<1>8. CASE Terminated \/ UNCHANGED vars
    BY <1>8 DEF IInv, TypeOK, RequestControl, FailureSkipsRemainingSteps, FailsBeforeEncoding, ReleaseExactlyOnce,
                Terminated, vars
<1>9. QED
    BY <1>1, <1>2, <1>3, <1>4, <1>5, <1>6, <1>7, <1>8 DEF Next, Step


(* IInv holds in every state of every behaviour of the handler.          *)
LEMMA IInvInvariant == Spec => []IInv
<1>1. Init => IInv
    BY InitIInv
<1>2. IInv /\ [Next]_vars => IInv'
    BY NextIInv
<1>3. QED
    BY <1>1, <1>2, PTL DEF Spec

(***************************************************************************)
(* Type correctness: every request's state keeps its type, whatever the  *)
(* interleaving of the requests and the answers of the custody, the      *)
(* operator and the codec.                                                *)
(***************************************************************************)
THEOREM TypeCorrect == Spec => []TypeOK
BY IInvInvariant, PTL DEF IInv

(***************************************************************************)
(* A failing request returns nothing and skips the steps after the one  *)
(* that failed: a rejection (lines 675-678) or an earlier failure never  *)
(* reaches the canonical encoder nor the signer, and an encoder failure   *)
(* after approval (lines 681, 691) never reaches the signer, for any     *)
(* number of concurrent requests and any inputs.                          *)
(***************************************************************************)
THEOREM FailureSkipsRemainingStepsTheorem == Spec => []FailureSkipsRemainingSteps
BY IInvInvariant, PTL DEF IInv

(***************************************************************************)
(* Every request that got past validation calls wasm.dealloc exactly    *)
(* once, on whichever exit it takes (lines 609, 614, 712, 716), and one *)
(* refused by validation or with an unknown method never reaches the    *)
(* custody and calls it not at all.                                      *)
(***************************************************************************)
THEOREM ReleaseExactlyOnceTheorem == Spec => []ReleaseExactlyOnce
BY IInvInvariant, PTL DEF IInv

=============================================================================
