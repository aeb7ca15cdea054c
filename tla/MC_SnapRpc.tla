----------------------------- MODULE MC_SnapRpc -----------------------------
(***************************************************************************)
(* Instance of SnapRpc for TLC: two concurrent requests; key ids 0 (a     *)
(* derivable path), -1 (a number the custody cannot derive) and a        *)
(* non-number; numeric fields 0, -1 (not u64) and a non-number; gas      *)
(* limit absent, empty and one entry; an encodable object call, an       *)
(* object the runtime refuses, and a string call.                        *)
(***************************************************************************)
EXTENDS SnapRpcFaults, TLC

CONSTANTS r1, r2, objA, objB, strC

MCReq == {r1, r2}
MCKeyIdInputs == {0, -1, NotANumber}
MCNonceInputs == {0, -1, NotANumber}
MCGasInputs == {NotSet, <<>>, <<5>>}
MCObjectCalls == {objA, objB}
MCStringCalls == {strC}
MCEncodableCalls == {objA}

MCSymmetry == Permutations(MCReq)
=============================================================================
