------------------------------ MODULE SiteUi ------------------------------
(***************************************************************************)
(* The site's React component `Sovereign` (Sovereign.tsx lines 1-394).     *)
(*                                                                         *)
(* `ui` is the component's React state.  Every handler is a closure over   *)
(* the `state` of the render that created it: a synchronous handler reads  *)
(* the current state, but an async handler keeps the state it captured at  *)
(* the click and, after its `await`, calls setState({...state, x}) with    *)
(* it.  Each click that awaits is a `pending` record carrying that         *)
(* captured copy; its answer (the wallet's or the sequencer's) is the      *)
(* environment's step.                                                     *)
(***************************************************************************)
EXTENDS Integers, Sequences, FiniteSets

CONSTANTS
    NumberFields,   \* numeric form fields with the same handler code
    NumberTexts,    \* values a number <input> can hold
    GasTexts,       \* gas-limit texts, as sequences of comma-separated pieces
    CallMessages,   \* call-message texts
    ValidJson,      \* those that JSON.parse accepts
    SequencerUrls,  \* sequencer texts, as a host and its trailing slashes
    MaxClicks,      \* bound on the async clicks of a behaviour
    MaxEdits,       \* bound on the user's edits of a behaviour
    NaN,            \* JavaScript's NaN
    NotSet          \* undefined

(* The initial call message (line 61) is JSON; the sequencer input can   *)
(* be cleared and starts with the default URL (line 62).                  *)
ASSUME SiteAssumption ==
    /\ ValidJson \subseteq CallMessages
    /\ ValidJson # {}
    /\ [host |-> "", slashes |-> 0] \in SequencerUrls
    /\ [host |-> "localhost:12346/sequencer", slashes |-> 1] \in SequencerUrls
    /\ MaxClicks \in Nat
    /\ MaxEdits \in Nat

(***************************************************************************)
(* Texts.  A number <input> holds "" (cleared or not a number), a string  *)
(* of digits, or another numeric text ("-1", "1.5", "1e3").  A gas-limit  *)
(* piece is the text between two commas: optional blanks around a core,   *)
(* the core being "", digits, digits followed by other characters         *)
(* ("12abc"), a decimal ("1.5"), a negative ("-3") or a word.             *)
(***************************************************************************)
Empty == [kind |-> "empty"]

(* /^[0-9\b]+$/u.test(value)                                              *)
IsDigits(t) == t.kind = "digits"

(* parseInt(text, 10): the longest leading integer, NaN when none.       *)
ParseInt(t) ==
    CASE t.kind \in {"digits", "digitsThen", "decimal"} -> t.n
      [] t.kind = "negative"                          -> -t.n
      [] OTHER                                        -> NaN

(* The texts: "", a numeral whose leading digits denote n, or a word.    *)
Numerals == [kind : {"digits", "digitsThen", "decimal", "negative"}, n : Nat]

Texts == {Empty} \cup Numerals \cup {[kind |-> "word"]}

(* A piece between two commas: blanks or not, around a core text.         *)
Pieces == [ws : BOOLEAN, core : Texts]

(* An <input> holds a text; split(',') gives at least one piece.          *)
ASSUME TextsAssumption ==
    /\ NumberTexts \subseteq Texts
    /\ GasTexts \subseteq Seq(Pieces) \ {<<>>}

(* String.prototype.trim on a piece.                                      *)
Trim(piece) == piece.core

(***************************************************************************)
(* parseGasLimit (lines 37-48): undefined for a blank text; otherwise     *)
(* split on ',', trim, drop empty pieces, parseInt, drop NaN and          *)
(* negatives.                                                              *)
(***************************************************************************)
(* Array.prototype.filter: the elements of s in Keep, in their order,    *)
(* i.e. s read along the increasing map onto the indices kept.  That map  *)
(* exists and is unique; the IF only lets the definition be read without  *)
(* a proof of it.                                                           *)
Filter(s, Keep) ==
    LET kept  == {i \in 1..Len(s) : s[i] \in Keep}
        n     == Cardinality(kept)
        order == {f \in [1..n -> kept] : \A a, b \in 1..n : a < b => f[a] < f[b]}
    IN  IF order = {} THEN << >>
        ELSE LET f == CHOOSE g \in order : TRUE IN [k \in 1..n |-> s[f[k]]]

(* .filter(item => item !== '') on trimmed pieces, which are texts.       *)
TypedEntries(pieces) ==
    Filter([i \in 1..Len(pieces) |-> Trim(pieces[i])], Texts \ {Empty})

(* .filter(item => !isNaN(item) && item >= 0) on integers and NaN keeps  *)
(* exactly the naturals.                                                    *)
ParseGasLimit(pieces) ==
    IF Len(pieces) = 1 /\ Trim(pieces[1]) = Empty
    THEN NotSet
    ELSE LET cores == TypedEntries(pieces)
             ints  == [i \in 1..Len(cores) |-> ParseInt(cores[i])]
         IN  Filter(ints, Nat)

(***************************************************************************)
(* What the wallet and the sequencer answer.  The snap signs a request    *)
(* whose numbers are numbers; NaN does not survive the request's JSON     *)
(* and fails validation.  Answers are abstracted to injective records.    *)
(***************************************************************************)
SignedHex(params) == [tx_hex_of |-> params]

AddressOf(keyId) == [address_of |-> keyId]

Base64(tx) == [base64_of |-> tx]

EmptyUrl == [host |-> "", slashes |-> 0]

(* trimTrailingSlash (lines 21-26): a URL text is a host followed by a   *)
(* number of slashes; one trailing slash is removed.                      *)
TrimTrailingSlash(url) ==
    IF url.slashes > 0 THEN [url EXCEPT !.slashes = @ - 1] ELSE url

(* trimTrailingSlash(state.sequencer) + "/" + endpoint (line 84).        *)
EndpointUrl(url, endpoint) ==
    [host |-> url.host, slashes |-> TrimTrailingSlash(url).slashes + 1,
     endpoint |-> endpoint]

SubmitBody(endpoint, tx) ==
    IF endpoint = "txs" THEN [endpoint |-> "txs", body |-> Base64(tx)]
    ELSE [endpoint |-> "batches", body |-> [transactions |-> <<Base64(tx)>>]]

-----------------------------------------------------------------------------
VARIABLES
    ui,       \* the component's React state
    pending,  \* the clicks suspended at an await, with their captured state
    clicks,   \* async clicks so far (bounded by MaxClicks)
    signed,   \* the signed transactions the wallet has returned
    posted,   \* the requests POSTed to the sequencer
    gasText,  \* the text of the gas-limit <input>, which is uncontrolled
    edits     \* edits so far (bounded by MaxEdits)

vars == <<ui, pending, clicks, signed, posted, gasText, edits>>

(* initialState (lines 53-64).                                           *)
InitialState ==
    [keyId |-> 0, numbers |-> [f \in NumberFields |-> 0],
     gasLimit |-> NotSet, callMessage |-> CHOOSE m \in ValidJson : TRUE,
     address |-> NotSet, tx |-> NotSet,
     sequencer |-> [host |-> "localhost:12346/sequencer", slashes |-> 1],
     status |-> ""]

Init ==
    /\ ui = InitialState
    /\ pending = {}
    /\ clicks = 0
    /\ signed = {}
    /\ posted = {}
    /\ gasText = <<[ws |-> FALSE, core |-> Empty]>>
    /\ edits = 0

(* An async click: it captures the current state and suspends.           *)
Suspend(kind, data) ==
    /\ clicks < MaxClicks
    /\ clicks' = clicks + 1
    /\ pending' = pending \cup {[id |-> clicks, kind |-> kind,
                                 captured |-> ui, data |-> data]}

(***************************************************************************)
(* Input handlers: synchronous, so they read the current state.          *)
(***************************************************************************)

(* A change event of the user (bounded).                                  *)
Edit ==
    /\ edits < MaxEdits
    /\ edits' = edits + 1

(* Mutant: the Key ID handler without the early return on "".           *)
KeyIdChangeNoEarlyReturn(v) ==
    /\ Edit
    /\ v = Empty \/ IsDigits(v)
    /\ ui' = [ui EXCEPT !.keyId = ParseInt(v)]
    /\ UNCHANGED <<pending, clicks, signed, posted, gasText>>

(* Key ID (lines 147-162): "" returns early; digits set keyId.            *)
KeyIdChange(v) ==
    /\ Edit
    /\ v # Empty
    /\ v = Empty \/ IsDigits(v)
    /\ ui' = [ui EXCEPT !.keyId = ParseInt(v)]
    /\ UNCHANGED <<pending, clicks, signed, posted, gasText>>

(* Nonce, Chain Id, Max Priority Fee, Max Fee (lines 167-240): "" or      *)
(* digits set the field to parseInt(value), which is NaN for "".          *)
NumberChange(f, v) ==
    /\ Edit
    /\ v = Empty \/ IsDigits(v)
    /\ ui' = [ui EXCEPT !.numbers[f] = ParseInt(v)]
    /\ UNCHANGED <<pending, clicks, signed, posted, gasText>>

(* Gas Limit (lines 243-253): the input keeps the text, the state the     *)
(* parsed vector.                                                          *)
GasLimitChange(text) ==
    /\ Edit
    /\ gasText' = text
    /\ ui' = [ui EXCEPT !.gasLimit = ParseGasLimit(text)]
    /\ UNCHANGED <<pending, clicks, signed, posted>>

(* Call message (lines 260-267).                                          *)
CallMessageChange(m) ==
    /\ Edit
    /\ ui' = [ui EXCEPT !.callMessage = m]
    /\ UNCHANGED <<pending, clicks, signed, posted, gasText>>

(* Sequencer (lines 344-353).                                             *)
SequencerChange(u) ==
    /\ Edit
    /\ ui' = [ui EXCEPT !.sequencer = u]
    /\ UNCHANGED <<pending, clicks, signed, posted, gasText>>

(***************************************************************************)
(* Async handlers.  The part before the first await runs at the click,   *)
(* on the current state; the rest runs at the answer, on the state the   *)
(* click captured.                                                         *)
(***************************************************************************)

(* The params the sign click builds from the state (lines 286-306).       *)
SignParams(s) ==
    [keyId |-> s.keyId,
     transaction |-> [call |-> s.callMessage, numbers |-> s.numbers,
                      gas_limit |-> s.gasLimit]]

(* NaN becomes null in the request's JSON and fails number().             *)
SnapAccepts(params) == \A f \in NumberFields : params.transaction.numbers[f] # NaN

(* Sign click up to the await (lines 278-319).  JSON.parse failing is     *)
(* caught at once (lines 324-328).                                         *)
SignClick ==
    \/ /\ ui.callMessage \in ValidJson
       /\ Suspend("sign", SignParams(ui))
       /\ UNCHANGED <<ui, signed, posted, gasText, edits>>
    \/ /\ ui.callMessage \notin ValidJson
       /\ ui' = [ui EXCEPT !.status = [error |-> "SyntaxError"]]
       /\ UNCHANGED <<pending, clicks, signed, posted, gasText, edits>>

(* The wallet answers a sign click (lines 319-329): setState with the     *)
(* captured state and the signed tx, or the captured state and the        *)
(* error.                                                                   *)
SignAnswer(p) ==
    /\ p.kind = "sign"
    /\ pending' = pending \ {p}
    /\ \/ /\ SnapAccepts(p.data)
          /\ signed' = signed \cup {SignedHex(p.data)}
          /\ ui' = [p.captured EXCEPT !.tx = SignedHex(p.data)]
       \/ /\ ui' = [p.captured EXCEPT !.status = [error |-> "WalletError"]]
          /\ UNCHANGED signed
    /\ UNCHANGED <<clicks, posted, gasText, edits>>

(* getAddress (lines 111-126): the request is sent, the promise is not    *)
(* awaited.                                                                 *)
GetAddressClick ==
    /\ Suspend("address", ui.keyId)
    /\ UNCHANGED <<ui, signed, posted, gasText, edits>>

(* Its .then (lines 126-132) sets the address on the captured state; a    *)
(* rejection has no handler and changes nothing.                           *)
GetAddressAnswer(p) ==
    /\ p.kind = "address"
    /\ pending' = pending \ {p}
    /\ \/ ui' = [p.captured EXCEPT !.address = AddressOf(p.data)]
       \/ UNCHANGED ui
    /\ UNCHANGED <<clicks, signed, posted, gasText, edits>>

(* Mutant: the submit handlers without the empty-tx check.               *)
SubmitClickNoTxCheck(endpoint) ==
    /\ \/ /\ ui.sequencer = EmptyUrl
          /\ ui' = [ui EXCEPT !.status = [error |-> "SequencerEmpty"]]
          /\ UNCHANGED <<pending, clicks, posted>>
       \/ /\ ui.sequencer # EmptyUrl
          /\ Suspend("submit", endpoint)
          /\ posted' = posted \cup
                {[url |-> EndpointUrl(ui.sequencer, endpoint),
                  body |-> SubmitBody(endpoint, ui.tx)]}
          /\ UNCHANGED ui
    /\ UNCHANGED <<signed, gasText, edits>>

(* Submit Tx / Submit Batch (lines 358-380) and submitSequencer up to     *)
(* its fetch (lines 68-86).  An empty tx throws outside any try and       *)
(* changes nothing; an empty sequencer is caught at once (lines 103-107). *)
SubmitClick(endpoint) ==
    /\ ui.tx # NotSet
    /\ \/ /\ ui.sequencer = EmptyUrl
          /\ ui' = [ui EXCEPT !.status = [error |-> "SequencerEmpty"]]
          /\ UNCHANGED <<pending, clicks, posted>>
       \/ /\ ui.sequencer # EmptyUrl
          /\ Suspend("submit", endpoint)
          /\ posted' = posted \cup
                {[url |-> EndpointUrl(ui.sequencer, endpoint),
                  body |-> SubmitBody(endpoint, ui.tx)]}
          /\ UNCHANGED ui
    /\ UNCHANGED <<signed, gasText, edits>>

(* The sequencer answers (lines 83-108): after fetch and response.json(),  *)
(* status is set on the captured state to the data or to the error of a   *)
(* failed fetch, a non-ok response or a body that is not JSON.            *)
SubmitAnswer(p) ==
    /\ p.kind = "submit"
    /\ pending' = pending \ {p}
    /\ \/ ui' = [p.captured EXCEPT !.status = [data |-> p.data]]
       \/ \E e \in {"FetchFailed", "NotOk", "BadJson"} :
             ui' = [p.captured EXCEPT !.status = [error |-> e]]
    /\ UNCHANGED <<clicks, signed, posted, gasText, edits>>

(* Every edit and click the bounds allow is made and answered: the page  *)
(* waits for the user.                                                      *)
Exhausted ==
    /\ pending = {}
    /\ edits = MaxEdits
    /\ clicks = MaxClicks
    /\ UNCHANGED vars

Next ==
    \/ \E v \in NumberTexts : KeyIdChange(v)
    \/ \E f \in NumberFields, v \in NumberTexts : NumberChange(f, v)
    \/ \E t \in GasTexts : GasLimitChange(t)
    \/ \E m \in CallMessages : CallMessageChange(m)
    \/ \E u \in SequencerUrls : SequencerChange(u)
    \/ SignClick
    \/ GetAddressClick
    \/ \E e \in {"txs", "batches"} : SubmitClick(e)
    \/ \E p \in pending : SignAnswer(p) \/ GetAddressAnswer(p) \/ SubmitAnswer(p)
    \/ Exhausted

Spec == Init /\ [][Next]_vars

-----------------------------------------------------------------------------
(***************************************************************************)
(* Properties                                                              *)
(***************************************************************************)

IsGasVector(g) == g = NotSet \/ \A i \in DOMAIN g : g[i] \in Nat

(* The state's types.  keyId is a natural number: the Key ID handler      *)
(* returns on "" (line 152) and accepts digits only; the gas limit is     *)
(* undefined or a vector of naturals (parseGasLimit's filters).            *)
TypeOK ==
    /\ ui.keyId \in Nat
    /\ \A f \in NumberFields : ui.numbers[f] \in Nat \cup {NaN}
    /\ IsGasVector(ui.gasLimit)
    /\ ui.callMessage \in CallMessages
    /\ ui.sequencer \in SequencerUrls
    /\ clicks \in 0..MaxClicks
    /\ \A p \in pending : p.id \in 0..MaxClicks - 1

(* Every request POSTed to the sequencer (lines 364-365, 376-377, 83-86)  *)
(* carries, as txs or as a one-transaction batch, a transaction the       *)
(* wallet returned for a sign click, although the tx field is written     *)
(* back from captured states by every answer.                              *)
PostedTxsWereSigned ==
    \A q \in posted : \E t \in signed : q.body = SubmitBody(q.url.endpoint, t)

(* The fields of the state an answer sets.                                 *)
AnswerSets(kind) ==
    CASE kind = "sign"    -> {"tx", "status"}
      [] kind = "address" -> {"address"}
      [] kind = "submit"  -> {"status"}

(* An answer from the wallet or the sequencer changes only the fields it  *)
(* sets: it does not undo the user's edits or another answer made while   *)
(* it was awaited.  setState({...state, x}) on the state captured at the  *)
(* click (lines 99-107, 126-130, 320-328) breaks it.                       *)
AnswersKeepOtherFields ==
    [][\A p \in pending \ pending' :
          \A f \in DOMAIN ui \ AnswerSets(p.kind) : ui'[f] = ui[f]]_vars

(* The numeric fields hold whole numbers >= 0, as the comment of their    *)
(* handlers says (lines 173, 192, 211, 230).                                *)
FormNumbersAreNaturals == \A f \in NumberFields : ui.numbers[f] \in Nat

====
