----------------------------- MODULE MC_SiteUi -----------------------------
(* A small instance of SiteUi: one numeric field standing for the four   *)
(* with the same handler, number texts "", "7" and "-1", a valid and an   *)
(* invalid call message, an empty and a set sequencer URL.                *)
EXTENDS SiteUi, TLC

CONSTANTS invalidJson

MCNumberFields == {"nonce"}

Digits(n) == [kind |-> "digits", n |-> n]

MCNumberTexts == {Empty, Digits(7), [kind |-> "negative", n |-> 1]}

Piece(c) == [ws |-> FALSE, core |-> c]

(* "", " ", "5", "5,", "5,-3", "12abc", "1.5,5" *)
MCGasTexts ==
    { <<Piece(Empty)>>, <<[ws |-> TRUE, core |-> Empty]>>, <<Piece(Digits(5))>>,
      <<Piece(Digits(5)), Piece(Empty)>>,
      <<Piece(Digits(5)), Piece([kind |-> "negative", n |-> 3])>>,
      <<Piece([kind |-> "digitsThen", n |-> 12])>>,
      <<Piece([kind |-> "decimal", n |-> 1]), Piece(Digits(5))>> }

MCCallMessages == {"validJson", invalidJson}

MCValidJson == {"validJson"}

MCSequencerUrls == {EmptyUrl, [host |-> "localhost:12346/sequencer", slashes |-> 1]}

(* Filter, the model of the two .filter calls of parseGasLimit, agrees   *)
(* with the standard SelectSeq under the code's own predicates on every   *)
(* sequence the instance filters.                                          *)
ASSUME FilterIsSelectSeq ==
    \A t \in MCGasTexts :
        LET cores == [i \in 1..Len(t) |-> Trim(t[i])]
            ints  == [i \in 1..Len(TypedEntries(t)) |-> ParseInt(TypedEntries(t)[i])]
            Typed(c) == c # Empty
            Valid(n) == IF n = NaN THEN FALSE ELSE n >= 0
        IN  /\ Filter(cores, Texts \ {Empty}) = SelectSeq(cores, Typed)
            /\ Filter(ints, Nat) = SelectSeq(ints, Valid)
=============================================================================
