------------------------- MODULE SnapRpcRefinement -------------------------
(***************************************************************************)
(* Proof that the concurrent handler of SnapRpc implements the abstract   *)
(* per-request protocol SigningProtocol under the refinement mapping of   *)
(* SnapRpc (Protocol == INSTANCE SigningProtocol WITH ...), for every     *)
(* value of the constants.  It rests on the inductive invariant IInv of   *)
(* SnapRpcProofs: a request's suspension point belongs to its method.     *)
(***************************************************************************)
EXTENDS SnapRpcProofs

(* A step that moves request r to p moves r, and r only, to p's stage.   *)
LEMMA StageAfter ==
    ASSUME NEW r \in Req, NEW p \in Pcs, pc \in [Req -> Pcs],
           pc' = [pc EXCEPT ![r] = p]
    PROVE  Stage' = [Stage EXCEPT ![r] = StageOfPc(p)]
BY DEF Stage

(* A step that leaves pc alone leaves every stage alone.                  *)
LEMMA StageKept ==
    ASSUME pc' = pc PROVE Stage' = Stage
BY DEF Stage

(* The handler's initial states are initial states of the protocol.      *)
LEMMA InitRefines == Init => Protocol!AInit
BY DEF Init, Protocol!AInit, Stage, StageOfPc

(***************************************************************************)
(* Every step of the handler is a protocol step of the request it runs,  *)
(* or leaves the protocol's state unchanged.  Each action is split into  *)
(* its branches; each branch is one protocol action of the same request. *)
(***************************************************************************)
LEMMA StepRefines == IInv /\ [Next]_vars => [Protocol!ANext]_Protocol!avars
<1> SUFFICES ASSUME IInv, [Next]_vars PROVE [Protocol!ANext]_Protocol!avars
    OBVIOUS
<1>0. pc \in [Req -> Pcs]
    BY DEF IInv, TypeOK
<1>1. ASSUME NEW r \in Req, MethodNotFound(r) PROVE Protocol!Refuse(r)
    <2>1. Stage' = [Stage EXCEPT ![r] = "done"] /\ Stage[r] = "received"
        BY <1>0, <1>1, StageAfter DEF MethodNotFound, Finish, Pcs, StageOfPc, Stage
    <2>2. QED
        BY <1>1, <2>1 DEF MethodNotFound, Finish, Protocol!Refuse, Protocol!End,
                          Protocol!Methods, AdmissibleInput
<1>2. ASSUME NEW r \in Req, GetAddressRequest(r)
      PROVE  Protocol!Refuse(r) \/ Protocol!Admit(r)
    <2>1. Stage[r] = "received"
        BY <1>2 DEF GetAddressRequest, Stage, StageOfPc
    <2>2. CASE ~ValidGetAddress(input[r])
        <3>1. Stage' = [Stage EXCEPT ![r] = "done"]
            BY <1>0, <1>2, <2>2, StageAfter DEF GetAddressRequest, Finish, Pcs, StageOfPc
        <3>2. QED
            BY <1>2, <2>1, <2>2, <3>1
            DEF GetAddressRequest, Finish, Protocol!Refuse, Protocol!End,
                Protocol!Methods, AdmissibleInput
    <2>3. CASE ValidGetAddress(input[r])
        <3>1. Stage' = [Stage EXCEPT ![r] = "admitted"]
            BY <1>0, <1>2, <2>3, StageAfter DEF GetAddressRequest, Finish, Pcs, StageOfPc
        <3>2. QED
            BY <1>2, <2>1, <2>3, <3>1 DEF GetAddressRequest, Protocol!Admit, AdmissibleInput
    <2>4. QED
        BY <2>2, <2>3
<1>3. ASSUME NEW r \in Req, GetAddressResponse(r)
      PROVE  Protocol!Deliver(r) \/ Protocol!CustodyFails(r)
    <2>1. input[r].method = "getAddress" /\ Stage[r] = "admitted"
        BY <1>3 DEF GetAddressResponse, IInv, RequestControl, Stage, StageOfPc
    <2>2. Stage' = [Stage EXCEPT ![r] = "done"]
        BY <1>0, <1>3, StageAfter DEF GetAddressResponse, Finish, Pcs, StageOfPc
    <2>3. QED
        BY <1>3, <2>1, <2>2 DEF GetAddressResponse, Finish, Protocol!Deliver,
                                Protocol!CustodyFails, Protocol!End
<1>4. ASSUME NEW r \in Req, SignTransactionRequest(r)
      PROVE  Protocol!Refuse(r) \/ Protocol!Admit(r)
    <2>1. Stage[r] = "received"
        BY <1>4 DEF SignTransactionRequest, Stage, StageOfPc
    <2>2. CASE ~ValidSignTransaction(input[r])
        <3>1. Stage' = [Stage EXCEPT ![r] = "done"]
            BY <1>0, <1>4, <2>2, StageAfter DEF SignTransactionRequest, Finish, Pcs, StageOfPc
        <3>2. QED
            BY <1>4, <2>1, <2>2, <3>1
            DEF SignTransactionRequest, Finish, Protocol!Refuse, Protocol!End,
                Protocol!Methods, AdmissibleInput
    <2>3. CASE ValidSignTransaction(input[r])
        <3>1. Stage' = [Stage EXCEPT ![r] = "admitted"]
            BY <1>0, <1>4, <2>3, StageAfter DEF SignTransactionRequest, Finish, Pcs, StageOfPc
        <3>2. QED
            BY <1>4, <2>1, <2>3, <3>1 DEF SignTransactionRequest, Protocol!Admit, AdmissibleInput
    <2>4. QED
        BY <2>2, <2>3
<1>5. ASSUME NEW r \in Req, SignEntropyResponse(r)
      PROVE  Protocol!Present(r) \/ Protocol!CustodyFails(r)
    <2>1. input[r].method = "signTransaction" /\ Stage[r] = "admitted"
        BY <1>5 DEF SignEntropyResponse, IInv, RequestControl, Stage, StageOfPc
    <2>2. CASE pc' = [pc EXCEPT ![r] = "awaitDialog"] /\ UNCHANGED <<outcome, released>>
        <3>1. Stage' = [Stage EXCEPT ![r] = "awaitingOperator"]
            BY <1>0, <2>2, StageAfter DEF Pcs, StageOfPc
        <3>2. QED
            BY <1>5, <2>1, <2>2, <3>1 DEF SignEntropyResponse, Protocol!Present
    <2>3. CASE Finish(r, "DerivationError", TRUE)
        <3>1. Stage' = [Stage EXCEPT ![r] = "done"]
            BY <1>0, <2>3, StageAfter DEF Finish, Pcs, StageOfPc
        <3>2. QED
            BY <1>5, <2>1, <2>3, <3>1
            DEF SignEntropyResponse, Finish, Protocol!CustodyFails, Protocol!End
    <2>4. QED
        BY <1>5, <2>2, <2>3 DEF SignEntropyResponse
<1>6. ASSUME NEW r \in Req, SignDialogAnswer(r)
      PROVE  Protocol!Decline(r) \/ Protocol!Approve(r)
    <2>1. Stage[r] = "awaitingOperator"
        BY <1>6 DEF SignDialogAnswer, Stage, StageOfPc
    <2>2. CASE \E v \in {"UserRejection", "EncodingError"} :
                  Finish(r, v, TRUE) /\ UNCHANGED signCalls
        <3>1. Stage' = [Stage EXCEPT ![r] = "done"]
            BY <1>0, <2>2, StageAfter DEF Finish, Pcs, StageOfPc
        <3>2. QED
            BY <1>6, <2>1, <2>2, <3>1 DEF SignDialogAnswer, Finish, Protocol!Decline,
                                          Protocol!End
    <2>3. CASE /\ signCalls' = [signCalls EXCEPT ![r] = @ + 1]
               /\ pc' = [pc EXCEPT ![r] = "awaitSign"]
               /\ UNCHANGED <<outcome, released>>
        <3>1. Stage' = [Stage EXCEPT ![r] = "signing"]
            BY <1>0, <2>3, StageAfter DEF Pcs, StageOfPc
        <3>2. QED
            BY <1>6, <2>1, <2>3, <3>1 DEF SignDialogAnswer, Protocol!Approve
    <2>4. QED
        BY <1>6, <2>2, <2>3 DEF SignDialogAnswer
<1>7. ASSUME NEW r \in Req, SignComplete(r) PROVE Protocol!Deliver(r)
    <2>1. Stage[r] = "signing" /\ Stage' = [Stage EXCEPT ![r] = "done"]
        BY <1>0, <1>7, StageAfter DEF SignComplete, Finish, Pcs, Stage, StageOfPc
    <2>2. QED
        BY <1>7, <2>1 DEF SignComplete, Finish, Protocol!Deliver, Protocol!End
<1>8. CASE Terminated \/ UNCHANGED vars
    <2>1. UNCHANGED <<input, pc, outcome, signCalls, released>>
        BY <1>8 DEF Terminated, vars
    <2>2. QED
        BY <2>1, StageKept DEF Protocol!avars
<1>9. QED
    BY <1>1, <1>2, <1>3, <1>4, <1>5, <1>6, <1>7, <1>8
       DEF Next, Step, Protocol!ANext

(***************************************************************************)
(* The handler onRpcRequest, with any number of requests in flight and   *)
(* any inputs, implements the protocol: each request is refused or        *)
(* admitted, is signed only after the operator's approval and at most    *)
(* once, ends once, and frees its codec resources once iff admitted.     *)
(***************************************************************************)
THEOREM Refinement == Spec => ImplementsSigningProtocol
<1>1. Init => Protocol!AInit
    BY InitRefines
<1>2. IInv /\ [Next]_vars => [Protocol!ANext]_Protocol!avars
    BY StepRefines
<1>3. QED
    BY <1>1, <1>2, IInvInvariant, PTL DEF Spec, ImplementsSigningProtocol, Protocol!ASpec

=============================================================================
