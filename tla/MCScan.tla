-------------------------------- MODULE MCScan --------------------------------
(* Small catalogs, each aimed at what can go wrong for one error type, and  *)
(* every pair of similar words up to a length.                              *)
EXTENDS Scan

CONSTANT WordLength

-----------------------------------------------------------------------------
\* The edit distance, row by row.
EditDistance(u, v) ==
  LET NextRow(above, i) ==
        FoldLeftDomain(LAMBDA row, j :
                         Append(row, Min({row[j] + 1, above[j + 1] + 1,
                                          above[j] + (IF u[i] = v[j] THEN 0 ELSE 1)})), <<i>>, v)
  IN Last(FoldLeftDomain(NextRow, [k \in 1..(Len(v) + 1) |-> k - 1], u))

\* Prefers, of two pairs of columns, the one on the right.
SmallDigest(t, p) == 0 - 2 * p[1] - p[2]

-----------------------------------------------------------------------------
\* Values.  A token is a number that stands for the lower-case text.
Token(text) == FoldLeft(LAMBDA a, c : 10 * a + Lower(c), 1, text)
W(text) == [text |-> text, number |-> NoNumber, tokens |-> <<Token(text)>>, type |-> "string"]
N(n) == [text |-> <<n + 20>>, number |-> n, tokens |-> <<n + 20>>, type |-> "integer"]
Words(texts) == [i \in DOMAIN texts |-> W(texts[i])]
Numbers(s) == [i \in DOMAIN s |-> N(s[i])]

a == W(<<1, 1>>)
b == W(<<2, 2>>)
c == W(<<3>>)

-----------------------------------------------------------------------------
Default == [epsilon |-> <<1, 2>>, alpha |-> <<1, 2>>, smoothing |-> <<1, 2>>, blockSize |-> 2, maxPairs |-> 2,
            maxFailure |-> <<1, 3>>, rowEdges |-> <<5>>, prevalenceEdges |-> <<1>>, lengthEdges |-> <<4>>]

Input(type, schemas, tables, targets, config) ==
  [et |-> type, schemas |-> schemas, tables |-> tables, targets |-> targets, cfg |-> config]

Duplicated ==
  [t1 |-> <<<<a, b, a, b, b, c>>, Numbers(<<1, 2, 3, 4, 5, 6>>)>>,
   t2 |-> <<<<a, a, a, a, a>>, <<N(1), a, Missing, N(2), a>>>>,
   t3 |-> <<<<c, a, Missing, a, b, b, b>>, Numbers(<<1, 2, 3, 4, 5, 6, 6>>)>>,
   t4 |-> <<<<a, b, c, N(1), N(2)>>>>,
   t5 |-> << << >> >>]

Uniqueness ==
  {Input("uniqueness", s, Duplicated, {"t1", "t2", "t3"}, [Default EXCEPT !.epsilon = e]) :
     s \in {{{"t1", "t2"}, {"t3", "t5"}}, {{"t2"}, {"t4"}}}, e \in {<<1, 100>>, <<1, 2>>, <<1, 1>>}}

Dependent ==
  [t1 |-> <<<<a, a, a, b, b>>, Numbers(<<1, 1, 2, 3, 3>>)>>,
   t2 |-> <<<<b, b, b, b, c>>, Numbers(<<1, 2, 3, 4, 5>>), <<a, a, a, a, a>>>>,
   t3 |-> <<<<a, a, b, b, b, c, Missing>>, Numbers(<<1, 2, 3, 3, 4, 5, 5>>)>>,
   t4 |-> <<<<a, b, c, a, b>>, Numbers(<<1, 2, 3, 1, 2>>)>>]

FunctionalDependency ==
  {Input("functional_dependency", s, Dependent, {"t1", "t2", "t3"}, [Default EXCEPT !.epsilon = e]) :
     s \in {{{"t1", "t2"}, {"t4"}}, {{"t3"}}}, e \in {<<1, 100>>, <<1, 1>>}}

Numeric ==
  [t1 |-> <<Numbers(<<1, 2, 3, 4, 20>>), Numbers(<<3, 3, 3, 9, 3>>), Numbers(<<1, 2, 3, 5, 9>>)>>,
   t2 |-> <<Numbers(<<0, 0, 1, 2, 2>>), Numbers(<<1, 2, 4, 8, 16>>), Numbers(<<2, 3, 4, 6, 8>>)>>,
   t3 |-> <<<<c, N(1), N(2), N(3), N(4), N(9)>>>>,
   t4 |-> <<<<N(5), a, N(1), b, N(1), c, N(2), N(7)>>, <<a, N(1), a, N(2), a, N(3), a, N(4)>>>>]

Outlier ==
  {Input("numeric_outlier", s, Numeric, {"t1", "t3", "t4"}, [Default EXCEPT !.blockSize = 4]) :
     s \in {{{"t1", "t2"}, {"t3"}}, {{"t2", "t4"}}}}

\* t1 has a block that is thinned, the words of t2 and t3 share no key, t4 is one word.
Spelled ==
  [t1 |-> <<Words(<< <<1, 1, 1, 1>>, <<1, 1, 1, 2>>, <<1, 1, 1, 3>>, <<1, 1, 5, 6>>, <<4>> >>),
            Words(<< <<1, 1, 1, 1>>, <<1, 1, 2, 2>>, <<1, 1, 2, 3>>, <<1, 1, 2, 3>>, <<1, 1, 2, 3>> >>)>>,
   t2 |-> <<Words(<< <<1, 1, 1, 1>>, <<2, 2, 2, 2>>, <<3, 3, 3, 3>> >>)>>,
   t3 |-> <<Words(<< <<1, 1, 1, 1>>, <<2, 2, 2, 2>>, <<3, 3, 3, 3>> >>),
            Words(<< <<1, 2, 1>>, <<1, 2, 3>>, <<1, -2, 1>> >>)>>,
   t4 |-> <<Words(<< <<1>>, <<1>>, <<1>> >>), Words(<< <<1, 2>>, <<1, 3>>, <<1, 2>> >>),
            Words(<< <<1, 2>>, <<1, 4>>, <<1, 4>> >>)>>]

Spelling ==
  {Input("spelling", s, Spelled, {"t1", "t3", "t4"}, [Default EXCEPT !.maxFailure = f]) :
     s \in {{{"t1", "t2"}, {"t4"}}, {{"t3"}}}, f \in {<<0, 1>>, <<1, 3>>, <<1, 1>>}}

\* No corpus; two words of two letters that are one edit apart, and one far from both.
Texts == UNION {[1..n -> {1, 2}] : n \in 1..WordLength}
Similar == {p \in Texts \X Texts : Before(p[1], p[2]) /\ EditDistance(p[1], p[2]) = 1}
SimilarWords ==
  {Input("spelling", {}, [t |-> <<Words(<<p[1], p[2], <<3, 3, 3, 3, 3, 3, 3, 3>> >>)>>], {"t"}, Default) :
     p \in Similar}

SmallInputs == Uniqueness \cup FunctionalDependency \cup Outlier \cup Spelling \cup SimilarWords
SmallLogShaped == {<<1, 2, 4, 8, 16>>, <<1, 2, 3, 4, 20>>}
=============================================================================
