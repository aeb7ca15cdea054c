--------------------------- MODULE SigningProtocol ---------------------------
(***************************************************************************)
(* What the snap promises for each request, whatever the code does        *)
(* inside (spec sections 4 and 7): a request is received, then refused or *)
(* admitted; an admitted getAddress delivers or fails at the custody; an  *)
(* admitted signTransaction is put before the operator, who declines or   *)
(* approves; only an approval starts the one signing, which delivers or  *)
(* fails.                                                                  *)
(* Each admitted request frees its codec resources once, in the step that *)
(* ends it; a refused request frees nothing.                               *)
(***************************************************************************)
EXTENDS Naturals

CONSTANTS
    Req,            \* request identifiers
    Requests,       \* the requests a caller can send
    Admissible(_),  \* the requests validation lets through
    None            \* "no verdict yet"

Methods == {"getAddress", "signTransaction"}

Stages == {"received", "admitted", "awaitingOperator", "signing", "done"}

VARIABLES
    request,   \* request[r]: what r asks for
    stage,     \* stage[r]: where r is in the protocol
    verdict,   \* verdict[r]: what r returned or threw, None before the end
    signings,  \* signings[r]: signings started for r
    freed      \* freed[r]: releases of r's codec resources

avars == <<request, stage, verdict, signings, freed>>

AInit ==
    /\ request \in [Req -> Requests]
    /\ stage = [r \in Req |-> "received"]
    /\ verdict = [r \in Req |-> None]
    /\ signings = [r \in Req |-> 0]
    /\ freed = [r \in Req |-> 0]

(* r ends with verdict v, freeing its resources when it was admitted.    *)
End(r, v) ==
    /\ stage' = [stage EXCEPT ![r] = "done"]
    /\ verdict' = [verdict EXCEPT ![r] = v]
    /\ freed' = [freed EXCEPT ![r] = @ + (IF stage[r] = "received" THEN 0 ELSE 1)]

Refuse(r) ==
    /\ stage[r] = "received"
    /\ ~Admissible(request[r])
    /\ End(r, IF request[r].method \in Methods THEN "ValidationError"
              ELSE "MethodNotFound")
    /\ UNCHANGED <<request, signings>>

Admit(r) ==
    /\ stage[r] = "received"
    /\ Admissible(request[r])
    /\ stage' = [stage EXCEPT ![r] = "admitted"]
    /\ UNCHANGED <<request, verdict, signings, freed>>

CustodyFails(r) ==
    /\ stage[r] = "admitted"
    /\ End(r, "DerivationError")
    /\ UNCHANGED <<request, signings>>

Present(r) ==
    /\ stage[r] = "admitted"
    /\ request[r].method = "signTransaction"
    /\ stage' = [stage EXCEPT ![r] = "awaitingOperator"]
    /\ UNCHANGED <<request, verdict, signings, freed>>

(* The operator rejects, or approves a transaction that cannot be        *)
(* encoded: nothing is signed.                                            *)
Decline(r) ==
    /\ stage[r] = "awaitingOperator"
    /\ \E v \in {"UserRejection", "EncodingError"} : End(r, v)
    /\ UNCHANGED <<request, signings>>

Approve(r) ==
    /\ stage[r] = "awaitingOperator"
    /\ stage' = [stage EXCEPT ![r] = "signing"]
    /\ signings' = [signings EXCEPT ![r] = @ + 1]
    /\ UNCHANGED <<request, verdict, freed>>

(* The signer fails: the request ends with a SigningError (spec 7).      *)
SignerFails(r) ==
    /\ stage[r] = "signing"
    /\ End(r, "SigningError")
    /\ UNCHANGED <<request, signings>>

Deliver(r) ==
    /\ \/ stage[r] = "signing"
       \/ stage[r] = "admitted" /\ request[r].method = "getAddress"
    /\ End(r, "ok")
    /\ UNCHANGED <<request, signings>>

ANext ==
    \E r \in Req :
        \/ Refuse(r) \/ Admit(r) \/ CustodyFails(r) \/ Present(r)
        \/ Decline(r) \/ Approve(r) \/ SignerFails(r) \/ Deliver(r)

ASpec == AInit /\ [][ANext]_avars

=============================================================================
