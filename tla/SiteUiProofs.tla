---------------------------- MODULE SiteUiProofs ----------------------------
(***************************************************************************)
(* Proof that the site POSTs to the sequencer only transactions the       *)
(* wallet signed, for every value of the constants (any number of edits   *)
(* and clicks).  PostedTxsWereSigned is not inductive: a submit reads      *)
(* ui.tx, and ui is written back from states captured at earlier clicks.  *)
(* The strengthening says that the tx of the current state and of every   *)
(* captured state is unset or signed.                                      *)
(***************************************************************************)
EXTENDS SiteUi, FiniteSetTheorems, SequenceTheorems, TLAPS

(* The tx field of a state is unset or a transaction the wallet signed.  *)
TxSigned(s) == "tx" \in DOMAIN s /\ (s.tx = NotSet \/ s.tx \in signed)

UiInv ==
    /\ TxSigned(ui)
    /\ \A p \in pending : TxSigned(p.captured)
    /\ PostedTxsWereSigned

LEMMA InitUiInv == Init => UiInv
<1> SUFFICES ASSUME Init PROVE UiInv
    OBVIOUS
<1>1. ui.tx = NotSet /\ "tx" \in DOMAIN ui
    BY DEF Init, InitialState
<1>2. pending = {} /\ posted = {}
    BY DEF Init
<1>3. QED
    BY <1>1, <1>2 DEF UiInv, TxSigned, PostedTxsWereSigned

(* signed only grows, so what was signed stays signed.                   *)
LEMMA TxSignedMono ==
    ASSUME NEW s, TxSigned(s), signed \subseteq signed'
    PROVE  TxSigned(s)'
BY DEF TxSigned

LEMMA NextUiInv == UiInv /\ [Next]_vars => UiInv'
<1> SUFFICES ASSUME UiInv, [Next]_vars PROVE UiInv'
    OBVIOUS
<1>1. ASSUME NEW v, KeyIdChange(v) PROVE UiInv'
    BY <1>1 DEF KeyIdChange, Edit, UiInv, TxSigned, PostedTxsWereSigned
<1>2. ASSUME NEW f, NEW v, NumberChange(f, v) PROVE UiInv'
    BY <1>2 DEF NumberChange, Edit, UiInv, TxSigned, PostedTxsWereSigned
<1>3. ASSUME NEW t, GasLimitChange(t) PROVE UiInv'
    BY <1>3 DEF GasLimitChange, Edit, UiInv, TxSigned, PostedTxsWereSigned
<1>4. ASSUME NEW m, CallMessageChange(m) PROVE UiInv'
    BY <1>4 DEF CallMessageChange, Edit, UiInv, TxSigned, PostedTxsWereSigned
<1>5. ASSUME NEW u, SequencerChange(u) PROVE UiInv'
    BY <1>5 DEF SequencerChange, Edit, UiInv, TxSigned, PostedTxsWereSigned
<1>6. ASSUME SignClick PROVE UiInv'
    BY <1>6 DEF SignClick, Suspend, UiInv, TxSigned, PostedTxsWereSigned
<1>7. ASSUME NEW p \in pending, SignAnswer(p) PROVE UiInv'
    <2>1. signed \subseteq signed' /\ pending' \subseteq pending
        BY <1>7 DEF SignAnswer
    <2>2. TxSigned(ui)'
        BY <1>7 DEF SignAnswer, UiInv, TxSigned
    <2>3. \A q \in pending' : TxSigned(q.captured)'
        BY <2>1, TxSignedMono DEF UiInv
    <2>4. PostedTxsWereSigned'
        BY <1>7, <2>1 DEF SignAnswer, UiInv, PostedTxsWereSigned
    <2>5. QED
        BY <2>2, <2>3, <2>4 DEF UiInv
<1>8. ASSUME GetAddressClick PROVE UiInv'
    BY <1>8 DEF GetAddressClick, Suspend, UiInv, TxSigned, PostedTxsWereSigned
<1>9. ASSUME NEW p \in pending, GetAddressAnswer(p) PROVE UiInv'
    BY <1>9 DEF GetAddressAnswer, UiInv, TxSigned, PostedTxsWereSigned
<1>10. ASSUME NEW e, SubmitClick(e) PROVE UiInv'
    <2>1. ui.tx \in signed
        BY <1>10 DEF SubmitClick, UiInv, TxSigned
    <2>2. QED
        BY <1>10, <2>1 DEF SubmitClick, Suspend, EndpointUrl, UiInv, TxSigned,
                           PostedTxsWereSigned
<1>11. ASSUME NEW p \in pending, SubmitAnswer(p) PROVE UiInv'
    BY <1>11 DEF SubmitAnswer, UiInv, TxSigned, PostedTxsWereSigned
<1>12. CASE Exhausted \/ UNCHANGED vars
    BY <1>12 DEF Exhausted, vars, UiInv, TxSigned, PostedTxsWereSigned
<1>13. QED
    BY <1>1, <1>2, <1>3, <1>4, <1>5, <1>6, <1>7, <1>8, <1>9, <1>10, <1>11, <1>12
       DEF Next

(***************************************************************************)
(* Every request the Submit Tx and Submit Batch buttons POST to the        *)
(* sequencer carries a transaction the wallet returned for a sign click,  *)
(* for any number of edits, clicks and orders of answers, although the    *)
(* answers write back states captured at their clicks (lines 99-107,      *)
(* 126-130, 320-328).                                                      *)
(***************************************************************************)
THEOREM PostedTxsWereSignedTheorem == Spec => []PostedTxsWereSigned
<1>1. Init => UiInv
    BY InitUiInv
<1>2. UiInv /\ [Next]_vars => UiInv'
    BY NextUiInv
<1>3. QED
    BY <1>1, <1>2, PTL DEF Spec, UiInv

-----------------------------------------------------------------------------
(***************************************************************************)
(* Type correctness.  The answers write back captured states, so the      *)
(* invariant types the current state and every captured one alike.  The  *)
(* gas limit rests on what the two .filter calls of parseGasLimit keep.   *)
(***************************************************************************)

(* A function on 1..m is a sequence.                                       *)
LEMMA FcnIsSeq ==
    ASSUME NEW T, NEW m \in Nat, NEW g \in [1..m -> T] PROVE g \in Seq(T)
<1>1. g \in UNION {[1..k -> T] : k \in Nat}
    OBVIOUS
<1>2. QED
    BY <1>1, SeqDef

(* filter keeps elements of s, and only those in Keep.                     *)
LEMMA FilterType ==
    ASSUME NEW S, NEW s \in Seq(S), NEW Keep
    PROVE  Filter(s, Keep) \in Seq(S \cap Keep)
<1> DEFINE kept  == {i \in 1..Len(s) : s[i] \in Keep}
           n     == Cardinality(kept)
           order == {f \in [1..n -> kept] : \A a, b \in 1..n : a < b => f[a] < f[b]}
<1>1. n \in Nat
    <2>1. IsFiniteSet(1..Len(s))
        BY FS_Interval
    <2>2. IsFiniteSet(kept)
        BY <2>1, FS_Subset
    <2>3. QED
        BY <2>2, FS_CardinalityType
<1>2. CASE order = {}
    BY <1>2 DEF Filter
<1>3. CASE order # {}
    <2> DEFINE f == CHOOSE g \in order : TRUE
    <2>1. f \in [1..n -> kept]
        BY <1>3
    <2>2. [k \in 1..n |-> s[f[k]]] \in Seq(S \cap Keep)
        <3>1. \A k \in 1..n : f[k] \in 1..Len(s) /\ s[f[k]] \in Keep
            BY <2>1
        <3>2. \A k \in 1..n : s[f[k]] \in S
            BY <3>1, ElementOfSeq
        <3>3. [k \in 1..n |-> s[f[k]]] \in [1..n -> S \cap Keep]
            BY <3>1, <3>2
        <3>4. QED
            BY <1>1, <3>3, FcnIsSeq
    <2>3. Filter(s, Keep) = [k \in 1..n |-> s[f[k]]]
        BY <1>3 DEF Filter
    <2>4. QED
        BY <2>2, <2>3
<1>4. QED
    BY <1>2, <1>3

(* parseInt of a text is an integer or NaN.                                *)
LEMMA ParseIntType ==
    ASSUME NEW x \in Texts PROVE ParseInt(x) \in Int \cup {NaN}
BY DEF Texts, Numerals, Empty, ParseInt

(* parseGasLimit returns undefined or a vector of naturals.               *)
LEMMA ParseGasLimitType ==
    ASSUME NEW t \in GasTexts PROVE IsGasVector(ParseGasLimit(t))
<1>1. t \in Seq(Pieces)
    BY TextsAssumption
<1>2. CASE Len(t) = 1 /\ Trim(t[1]) = Empty
    BY <1>2 DEF ParseGasLimit, IsGasVector
<1>3. CASE ~(Len(t) = 1 /\ Trim(t[1]) = Empty)
    <2> DEFINE cores == TypedEntries(t)
               ints  == [i \in 1..Len(cores) |-> ParseInt(cores[i])]
    <2>1. [i \in 1..Len(t) |-> Trim(t[i])] \in Seq(Texts)
        <3>1. Len(t) \in Nat
            BY <1>1, LenProperties
        <3>2. ASSUME NEW i \in 1..Len(t) PROVE Trim(t[i]) \in Texts
            <4>1. t[i] \in Pieces
                BY <1>1, ElementOfSeq
            <4>2. QED
                BY <4>1 DEF Pieces, Trim
        <3>3. [i \in 1..Len(t) |-> Trim(t[i])] \in [1..Len(t) -> Texts]
            BY <3>2
        <3>4. QED
            BY <3>1, <3>3, FcnIsSeq
    <2>2. cores \in Seq(Texts)
        <3>1. cores \in Seq(Texts \cap (Texts \ {Empty}))
            BY <2>1, FilterType DEF TypedEntries
        <3>2. QED
            BY <3>1, SeqMonotonic
    <2>3. ints \in Seq(Int \cup {NaN})
        BY <2>2, ParseIntType
    <2>4. Filter(ints, Nat) \in Seq((Int \cup {NaN}) \cap Nat)
        BY <2>3, FilterType
    <2>5. ParseGasLimit(t) = Filter(ints, Nat)
        BY <1>3 DEF ParseGasLimit
    <2>6. QED
        BY <2>4, <2>5 DEF IsGasVector
<1>4. QED
    BY <1>2, <1>3

UiFields ==
    {"keyId", "numbers", "gasLimit", "callMessage", "address", "tx", "sequencer",
     "status"}

(* A state of the form: the fields setState keeps, with their types.      *)
UiTyped(s) ==
    /\ DOMAIN s = UiFields
    /\ s.keyId \in Nat
    /\ s.numbers \in [NumberFields -> Nat \cup {NaN}]
    /\ IsGasVector(s.gasLimit)
    /\ s.callMessage \in CallMessages
    /\ s.sequencer \in SequencerUrls

TypeInv ==
    /\ UiTyped(ui)
    /\ \A p \in pending : UiTyped(p.captured) /\ p.id \in 0..MaxClicks - 1
    /\ clicks \in 0..MaxClicks

LEMMA InitTypeInv == Init => TypeInv
<1> SUFFICES ASSUME Init PROVE TypeInv
    OBVIOUS
<1>1. InitialState.callMessage \in CallMessages
    BY SiteAssumption DEF InitialState
<1>2. UiTyped(InitialState)
    <2>1. DOMAIN InitialState = UiFields
        BY DEF InitialState, UiFields
    <2>2. InitialState.numbers \in [NumberFields -> Nat \cup {NaN}]
        BY DEF InitialState
    <2>3. IsGasVector(InitialState.gasLimit)
        BY DEF InitialState, IsGasVector
    <2>4. InitialState.sequencer \in SequencerUrls /\ InitialState.keyId \in Nat
        BY SiteAssumption DEF InitialState
    <2>5. QED
        BY <1>1, <2>1, <2>2, <2>3, <2>4 DEF UiTyped
<1>3. ui = InitialState /\ pending = {} /\ clicks = 0
    BY DEF Init
<1>4. 0 \in 0..MaxClicks
    <2>1. MaxClicks \in Nat
        BY SiteAssumption
    <2>2. QED
        BY <2>1
<1>5. QED
    BY <1>2, <1>3, <1>4 DEF TypeInv

(* Replacing a field by a value of its type keeps a state typed.           *)
LEMMA UiTypedExcept ==
    ASSUME NEW s, UiTyped(s)
    PROVE  /\ \A v : UiTyped([s EXCEPT !.tx = v])
           /\ \A v : UiTyped([s EXCEPT !.status = v])
           /\ \A v : UiTyped([s EXCEPT !.address = v])
           /\ \A v \in Nat : UiTyped([s EXCEPT !.keyId = v])
           /\ \A f \in NumberFields, v \in Nat \cup {NaN} :
                 UiTyped([s EXCEPT !.numbers[f] = v])
           /\ \A v : IsGasVector(v) => UiTyped([s EXCEPT !.gasLimit = v])
           /\ \A v \in CallMessages : UiTyped([s EXCEPT !.callMessage = v])
           /\ \A v \in SequencerUrls : UiTyped([s EXCEPT !.sequencer = v])
BY DEF UiTyped, UiFields

LEMMA NextTypeInv == TypeInv /\ [Next]_vars => TypeInv'
<1> SUFFICES ASSUME TypeInv, [Next]_vars PROVE TypeInv'
    OBVIOUS
<1>a. UiTyped(ui)
    BY DEF TypeInv
<1>1. ASSUME NEW v \in NumberTexts, KeyIdChange(v) PROVE TypeInv'
    <2>1. ParseInt(v) \in Nat
        BY <1>1, TextsAssumption DEF KeyIdChange, IsDigits, ParseInt, Texts, Numerals,
                                     Empty
    <2>2. QED
        BY <1>1, <1>a, <2>1, UiTypedExcept DEF KeyIdChange, Edit, TypeInv
<1>2. ASSUME NEW f \in NumberFields, NEW v \in NumberTexts, NumberChange(f, v)
      PROVE  TypeInv'
    <2>1. ParseInt(v) \in Nat \cup {NaN}
        BY <1>2, TextsAssumption DEF NumberChange, IsDigits, ParseInt, Texts, Numerals,
                                     Empty
    <2>2. QED
        BY <1>2, <1>a, <2>1, UiTypedExcept DEF NumberChange, Edit, TypeInv
<1>3. ASSUME NEW t \in GasTexts, GasLimitChange(t) PROVE TypeInv'
    BY <1>3, <1>a, ParseGasLimitType, UiTypedExcept DEF GasLimitChange, Edit, TypeInv
<1>4. ASSUME NEW m \in CallMessages, CallMessageChange(m) PROVE TypeInv'
    BY <1>4, <1>a, UiTypedExcept DEF CallMessageChange, Edit, TypeInv
<1>5. ASSUME NEW u \in SequencerUrls, SequencerChange(u) PROVE TypeInv'
    BY <1>5, <1>a, UiTypedExcept DEF SequencerChange, Edit, TypeInv
<1>b. ASSUME NEW k, NEW d, Suspend(k, d), ui' = ui PROVE TypeInv'
    <2> DEFINE new == [id |-> clicks, kind |-> k, captured |-> ui, data |-> d]
    <2>1. pending' = pending \cup {new} /\ clicks < MaxClicks /\ clicks' = clicks + 1
        BY <1>b DEF Suspend
    <2>2. clicks \in 0..MaxClicks /\ MaxClicks \in Nat
        BY SiteAssumption DEF TypeInv
    <2>3. UiTyped(new.captured) /\ new.id \in 0..MaxClicks - 1
        BY <1>a, <2>1, <2>2
    <2>4. clicks' \in 0..MaxClicks
        BY <2>1, <2>2
    <2>5. \A p \in pending : UiTyped(p.captured) /\ p.id \in 0..MaxClicks - 1
        BY DEF TypeInv
    <2>6. QED
        BY <1>b, <1>a, <2>1, <2>3, <2>4, <2>5 DEF TypeInv
<1>c. ASSUME NEW e, ui' = [ui EXCEPT !.status = e],
             UNCHANGED <<pending, clicks>>
      PROVE  TypeInv'
    BY <1>c, <1>a, UiTypedExcept DEF TypeInv
<1>6. ASSUME SignClick PROVE TypeInv'
    BY <1>6, <1>b, <1>c DEF SignClick
<1>7. ASSUME GetAddressClick PROVE TypeInv'
    BY <1>7, <1>b DEF GetAddressClick
<1>8. ASSUME NEW e \in {"txs", "batches"}, SubmitClick(e) PROVE TypeInv'
    BY <1>8, <1>b, <1>c DEF SubmitClick
<1>9. ASSUME NEW p \in pending, SignAnswer(p) \/ GetAddressAnswer(p) \/ SubmitAnswer(p)
      PROVE  TypeInv'
    <2>1. UiTyped(p.captured)
        BY DEF TypeInv
    <2>2. pending' \subseteq pending /\ clicks' = clicks
        BY <1>9 DEF SignAnswer, GetAddressAnswer, SubmitAnswer
    <2>3. UiTyped(ui')
        BY <1>9, <1>a, <2>1, UiTypedExcept DEF SignAnswer, GetAddressAnswer, SubmitAnswer
    <2>4. QED
        BY <2>2, <2>3 DEF TypeInv
<1>10. CASE Exhausted \/ UNCHANGED vars
    BY <1>10 DEF Exhausted, vars, TypeInv
<1>11. QED
    BY <1>1, <1>2, <1>3, <1>4, <1>5, <1>6, <1>7, <1>8, <1>9, <1>10 DEF Next

(***************************************************************************)
(* The form's state keeps its types for any number of edits and clicks,   *)
(* whatever order the answers come in: the Key ID is a natural (the       *)
(* handler returns early on "", line 152), the other numbers naturals or  *)
(* NaN, and the gas limit undefined or a vector of naturals, which is     *)
(* what the two .filter calls of parseGasLimit (lines 44-46) guarantee.   *)
(***************************************************************************)
THEOREM SiteTypeCorrect == Spec => []TypeOK
<1>1. Init => TypeInv
    BY InitTypeInv
<1>2. TypeInv /\ [Next]_vars => TypeInv'
    BY NextTypeInv
<1>3. TypeInv => TypeOK
    BY DEF TypeInv, TypeOK, UiTyped
<1>4. QED
    BY <1>1, <1>2, <1>3, PTL DEF Spec

=============================================================================
