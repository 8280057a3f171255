--------------------------- MODULE MCAutoValidate ---------------------------
(* Two numbers, a word, a dash and a plus; columns of numbers, dashes and  *)
(* codes.                                                                  *)
EXTENDS AutoValidate

CONSTANTS five, fifteen, jan, dash, plus

D5 == [text |-> five, class |-> "digit", length |-> 1]
D15 == [text |-> fifteen, class |-> "digit", length |-> 2]
L == [text |-> jan, class |-> "letter", length |-> 3]
S == [text |-> dash, class |-> "symbol", length |-> 1]
P == [text |-> plus, class |-> "symbol", length |-> 1]
SmallTokens == {D5, D15, L, S, P}
BehindPlus == plus :> NoText

Numbers == << <<D5>>, <<D15>> >>
Mixed == << <<D5>>, <<L>>, <<D15>> >>
Dashes == << <<S>>, Null, <<S>> >>
Codes == << <<D5, S, D15>>, <<D15, S, D5>> >>

Words == << <<L>>, <<L>> >>
Sparse == << <<D5>>, <<S>>, <<D15>> >>
Grades == << <<D5>>, <<D5, P>> >>

SmallCorpora ==
  { <<Numbers, Dashes, Codes>>,
    <<Mixed, Dashes, Mixed>>,
    <<Codes, Words, Sparse>>,
    <<Sparse>>,
    <<Grades, Numbers>>,
    <<Numbers, BadEntry, Dashes>> }

Scanned ==
  { Codes,
    << <<D5>>, << >>, <<D5>> >>,
    << <<D5>>, <<L>>, <<D5>> >>,
    << <<D5, S, D15>>, <<L, S, D15>>, <<D5, S, D15>> >>,
    << <<L, S, D5>>, <<L, S, D15>> >>,
    << <<D5, S, L>>, <<L>>, Null >>,
    << <<D5, P>>, <<D15, P>> >> }

Strict(v) == [variant |-> v, r |-> 6, m |-> 2, tau |-> 4, theta |-> <<2, 5>>]
Loose(v, t) == [variant |-> v, r |-> 36, m |-> 1, tau |-> t, theta |-> <<2, 5>>]
SmallConfigs == UNION {{Strict(v), Loose(v, 3), Loose(v, 4)} : v \in Variants}
Vertical == {Loose("fmdv_v", 3)}
Defaults == {Loose("fmdv_vh", 3)}

ASSUME \A k \in SmallCorpora : \A j \in DOMAIN k :
         k[j] # BadEntry => \A i \in DOMAIN k[j] : k[j][i] = Null \/ IsValue(k[j][i])
=============================================================================
