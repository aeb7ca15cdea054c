------------------------ MODULE SnapRpcFaultProofs ------------------------
(***************************************************************************)
(* Proofs that the handler keeps its guarantees when the ed25519 signer   *)
(* rejects at `await sign` (SignerFaultSpec of SnapRpcFaults): the codec  *)
(* is still released exactly once, the request still returns only what    *)
(* the operator saw, and the handler still implements the abstract        *)
(* protocol, whose SignerFails step the rejection maps to.  The proofs    *)
(* reuse the inductive invariants IInv and DInv of the fault-free proofs: *)
(* SignFails preserves them as the other exits do.                         *)
(***************************************************************************)
EXTENDS SnapRpcFaults, SnapRpcRefinement, SnapRpcWysiwyg

(* The next-state relation of SignerFaultSpec.                            *)
FaultNext == Next \/ \E r \in Req : SignFails(r)

(* A rejection of the signer keeps the control invariant.                *)
LEMMA SignFailsIInv ==
    ASSUME IInv, NEW r \in Req, SignFails(r) PROVE IInv'
BY NoneAssumption
   DEF IInv, TypeOK, RequestControl, FailureSkipsRemainingSteps, FailsBeforeEncoding, ReleaseExactlyOnce,
       SignFails, Finish, Pcs, Outcomes, Awaiting

(* ... and the data invariant: r ends without a result, the others keep   *)
(* their values.                                                           *)
LEMMA SignFailsData ==
    ASSUME DInv, NEW r \in Req, SignFails(r)
    PROVE  Shape' /\ \A q \in Req : RequestData(q)'
<1>a. TypeOK /\ Shape /\ RequestData(r) /\ \A q \in Req : RequestData(q)
    BY DEF DInv, IInv
<1>1. Shape'
    BY <1>a DEF SignFails, Shape
<1>2. RequestData(r)'
    BY <1>a, DataFail, NoneAssumption DEF SignFails, Finish, TypeOK, Outcomes
<1>3. ASSUME NEW q \in Req, q # r PROVE RequestData(q)'
    BY <1>a, <1>3, DataFrame DEF SignFails, Finish, TypeOK
<1>4. QED
    BY <1>1, <1>2, <1>3

LEMMA FaultNextIInv == IInv /\ [FaultNext]_vars => IInv'
<1> SUFFICES ASSUME IInv, [FaultNext]_vars PROVE IInv'
    OBVIOUS
<1>1. CASE [Next]_vars
    BY <1>1, NextIInv
<1>2. CASE \E r \in Req : SignFails(r)
    BY <1>2, SignFailsIInv
<1>3. QED
    BY <1>1, <1>2 DEF FaultNext, vars

LEMMA FaultNextDInv == DInv /\ [FaultNext]_vars => DInv'
<1> SUFFICES ASSUME DInv, [FaultNext]_vars PROVE DInv'
    OBVIOUS
<1>1. CASE [Next]_vars
    BY <1>1, NextDInv
<1>2. CASE \E r \in Req : SignFails(r)
    <2>1. PICK r \in Req : SignFails(r)
        BY <1>2
    <2>2. IInv'
        BY <2>1, SignFailsIInv DEF DInv
    <2>3. QED
        BY <2>1, <2>2, SignFailsData DEF DInv
<1>3. QED
    BY <1>1, <1>2 DEF FaultNext, vars

LEMMA FaultDInvInvariant == SignerFaultSpec => []DInv
<1>1. Init => DInv
    BY InitDInv
<1>2. DInv /\ [FaultNext]_vars => DInv'
    BY FaultNextDInv
<1>3. QED
    BY <1>1, <1>2, PTL DEF SignerFaultSpec, FaultNext

(* A rejection of the signer maps to the protocol's SignerFails step.    *)
LEMMA SignFailsRefines ==
    ASSUME IInv, NEW r \in Req, SignFails(r) PROVE Protocol!SignerFails(r)
<1>0. pc \in [Req -> Pcs]
    BY DEF IInv, TypeOK
<1>1. Stage[r] = "signing" /\ Stage' = [Stage EXCEPT ![r] = "done"]
    BY <1>0, StageAfter DEF SignFails, Finish, Pcs, Stage, StageOfPc
<1>2. QED
    BY <1>1 DEF SignFails, Finish, Protocol!SignerFails, Protocol!End

(***************************************************************************)
(* Spec 4.6 and 7: when `await sign` rejects (line 695), the catch block  *)
(* (lines 715-719) still releases the codec: every admitted request       *)
(* releases exactly once and a refused one never, for any number of       *)
(* concurrent requests and any signer failures.                            *)
(***************************************************************************)
THEOREM SignerFaultReleaseExactlyOnce == SignerFaultSpec => []ReleaseExactlyOnce
<1>1. SignerFaultSpec => []IInv
    <2>1. Init => IInv
        BY InitIInv
    <2>2. IInv /\ [FaultNext]_vars => IInv'
        BY FaultNextIInv
    <2>3. QED
        BY <2>1, <2>2, PTL DEF SignerFaultSpec, FaultNext
<1>2. QED
    BY <1>1, PTL DEF IInv

(***************************************************************************)
(* A signTransaction whose signer rejects returns nothing, so what the    *)
(* handler returns is still exactly the envelope the panel showed, signed *)
(* by the key whose address it showed (lines 649-712).                     *)
(***************************************************************************)
THEOREM SignerFaultSignedAsShown == SignerFaultSpec => []SignedAsShown
BY FaultDInvInvariant, DInvSignedAsShown, PTL

(***************************************************************************)
(* With a signer that may reject, onRpcRequest still implements the       *)
(* abstract per-request protocol: the rejection ends a request that was   *)
(* signing, with a SigningError and one release of its resources.         *)
(***************************************************************************)
THEOREM SignerFaultRefinement == SignerFaultSpec => ImplementsSigningProtocol
<1>1. Init => Protocol!AInit
    BY InitRefines
<1>2. IInv /\ [FaultNext]_vars => [Protocol!ANext]_Protocol!avars
    <2> SUFFICES ASSUME IInv, [FaultNext]_vars
                 PROVE  [Protocol!ANext]_Protocol!avars
        OBVIOUS
    <2>1. CASE [Next]_vars
        BY <2>1, StepRefines
    <2>2. CASE \E r \in Req : SignFails(r)
        BY <2>2, SignFailsRefines DEF Protocol!ANext
    <2>3. QED
        BY <2>1, <2>2 DEF FaultNext, vars
<1>3. SignerFaultSpec => []IInv
    <2>1. IInv /\ [FaultNext]_vars => IInv'
        BY FaultNextIInv
    <2>2. QED
        BY <2>1, InitIInv, PTL DEF SignerFaultSpec, FaultNext
<1>4. QED
    BY <1>1, <1>2, <1>3, PTL
       DEF SignerFaultSpec, FaultNext, ImplementsSigningProtocol, Protocol!ASpec

=============================================================================
