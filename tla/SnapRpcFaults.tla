--------------------------- MODULE SnapRpcFaults ---------------------------
(***************************************************************************)
(* Faults of the handler's collaborators that SnapRpc leaves out: the    *)
(* ed25519 signer rejecting (`await sign`, line 695), and the codec's     *)
(* dealloc() throwing where it is called inside the try block (lines 609  *)
(* and 712).  SovWasm is not under src/: that dealloc can throw is an     *)
(* assumption of this fault model, not a fact of its code.                 *)
(***************************************************************************)
EXTENDS SnapRpc

(* Mutant: the signer's rejection escapes without the catch's dealloc.    *)
SignFailsNoRelease(r) ==
    /\ pc[r] = "awaitSign"
    /\ Finish(r, "SigningError", FALSE)
    /\ UNCHANGED <<input, custody, pubKey, shown, msg, result, encCalls, signCalls>>

(* The signer rejects: the catch block (lines 715-719) deallocs and       *)
(* rethrows.                                                                *)
SignFails(r) ==
    /\ pc[r] = "awaitSign"
    /\ Finish(r, "SigningError", TRUE)
    /\ UNCHANGED <<input, custody, pubKey, shown, msg, result, encCalls, signCalls>>

(* getAddress (lines 603-616) or signTransaction (lines 695-719) reaches  *)
(* its last wasm.dealloc() inside the try block and it throws: the catch  *)
(* block calls wasm.dealloc() a second time and rethrows.                 *)
DeallocThrows(r) ==
    /\ \/ pc[r] = "awaitPublicKey" /\ DerivablePath(custody[r])
       \/ pc[r] = "awaitSign"
    /\ pc' = [pc EXCEPT ![r] = "done"]
    /\ outcome' = [outcome EXCEPT ![r] = "CodecError"]
    /\ released' = [released EXCEPT ![r] = @ + 2]
    /\ wasmLive' = {}
    /\ UNCHANGED <<input, custody, pubKey, shown, msg, result, encCalls, signCalls>>

(* The handler with a signer that may reject.                              *)
SignerFaultSpec == Init /\ [][Next \/ \E r \in Req : SignFails(r)]_vars

(* The handler with a signer that may reject and a dealloc that may throw. *)
CodecFaultSpec ==
    Init /\ [][Next \/ \E r \in Req : SignFails(r) \/ DeallocThrows(r)]_vars

=============================================================================
