------------------------ MODULE AutoValidatePatterns ------------------------
(***************************************************************************)
(* The pattern language of Auto-Validate (algorithms/auto_validate/        *)
(* hierarchy.py and patterns.py).  A value is the sequence of its tokens   *)
(* (the empty string is << >>), a pattern the sequence of its parts: a     *)
(* literal token, or a character class with an exact length or with "+"    *)
(* (length Plus).  P(v) replaces every token by one of its generalizations. *)
(*                                                                         *)
(* A pattern is a string in the code, and _parse reads its parts off it.   *)
(* Here a pattern is what _parse reads, which is the same for two patterns *)
(* if and only if their strings are the same.                              *)
(*                                                                         *)
(* Abstracted: the characters of a token, and the cap of 2048 patterns per *)
(* value.  patterns.py:36 says the cap drops the most specialized patterns *)
(* of long values; the values here have fewer patterns than that.          *)
(***************************************************************************)
EXTENDS Integers, Sequences, FiniteSets

CONSTANTS
  Tokens,      \* records [text, class, length]
  Plus,        \* the length a "+" stands for
  AfterPlus,   \* a text that begins with "+" -> the text behind the "+"
  NoText       \* the empty text

Classes == {"digit", "letter", "alphanum", "symbol"}

(* tokenize cuts a value into maximal runs, each of one class; the texts   *)
(* with a character that is alphanumeric but neither a digit nor a letter  *)
(* (one half, say) are left out, and so are texts with "<" or "{", which   *)
(* may spell a whole part.                                                 *)
ASSUME TokensAssumption ==
  \A t \in Tokens : t.class \in Classes /\ t.length \in Nat \ {0}

ASSUME AfterPlusAssumption ==
  \A t \in Tokens : t.text \in DOMAIN AfterPlus => t.class = "symbol"

ASSUME PlusAssumption == Plus \notin Nat

(* A value alternates alphanumeric runs with runs of symbols.              *)
IsValue(v) ==
  /\ v \in Seq(Tokens)
  /\ \A i \in 1 .. Len(v) - 1 : (v[i].class = "symbol") # (v[i + 1].class = "symbol")

Literal(text) == [kind |-> "literal", text |-> text]
Class(c, n)   == [kind |-> "class", class |-> c, count |-> n]

Broader(t) == IF t.class = "symbol" THEN {} ELSE {"alphanum"}

(* A number stands for a whole run of digits, whatever its length.         *)
Generalizations(t) ==
  {Literal(t.text)}
    \union {Class(c, n) : c \in {t.class} \union Broader(t), n \in {Plus, t.length}}
    \union (IF t.class = "digit" THEN {Class("num", 1)} ELSE {})

PartMatches(part, t) ==
  IF part.kind = "literal"
  THEN part.text = t.text
  ELSE /\ CASE part.class \in {"num", "digit"} -> t.class = "digit"
            [] part.class = "alphanum"         -> t.class # "symbol"
            [] OTHER                           -> t.class = part.class
       /\ part.class = "num" \/ part.count \in {Plus, t.length}

Matches(pattern, v) ==
  /\ Len(pattern) = Len(v)
  /\ \A i \in 1 .. Len(v) : PartMatches(pattern[i], v[i])

(* A class of one character, and a number, is written without its length.  *)
(* In the string of a pattern a "+" behind it is read as its length.       *)
Joins(p, i) ==
  /\ p[i].kind = "class" /\ p[i].count = 1
  /\ i + 1 \in DOMAIN p /\ p[i + 1].kind = "literal" /\ p[i + 1].text \in DOMAIN AfterPlus

Behind(p, i) == i - 1 \in DOMAIN p /\ Joins(p, i - 1)

ReadAs(p, i) ==
  IF Joins(p, i) THEN Class(p[i].class, Plus)
  ELSE IF Behind(p, i) THEN Literal(AfterPlus[p[i].text])
  ELSE p[i]

(* The values of a function on numbers, in the order of the numbers.       *)
InOrder(f) ==
  LET rows == DOMAIN f
      row(k) == CHOOSE i \in rows : Cardinality({h \in rows : h < i}) = k - 1
  IN  [k \in 1 .. Cardinality(rows) |-> f[row(k)]]

(* The parts that are read from the string of p; a "+" alone disappears.   *)
Parsed(p) ==
  LET kept == {i \in DOMAIN p : ReadAs(p, i) # Literal(NoText)}
  IN  IF \E i \in DOMAIN p : Joins(p, i) THEN InOrder([i \in kept |-> ReadAs(p, i)]) ELSE p

(* One generalization for each token.                                      *)
Products(v) ==
  {p \in [1 .. Len(v) -> UNION {Generalizations(v[i]) : i \in 1 .. Len(v)}] :
     \A i \in 1 .. Len(v) : p[i] \in Generalizations(v[i])}

(* P(v), without the values of tau tokens or more.                         *)
PatternsOf(v, tau) == IF Len(v) >= tau \/ v = << >> THEN {} ELSE {Parsed(p) : p \in Products(v)}

=============================================================================
