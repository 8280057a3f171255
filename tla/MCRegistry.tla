----------------------------- MODULE MCRegistry -----------------------------
(* Three plugins: an algorithm that also registers itself, one that wants  *)
(* the name of a built-in, and a module that registers and then fails.     *)
EXTENDS Registry

CONSTANTS raha, mine, extra, gone

Installed ==
  << [name |-> mine, kind |-> "algorithm", registers |-> {mine}],
     [name |-> raha, kind |-> "algorithm", registers |-> {}],
     [name |-> gone, kind |-> "broken", registers |-> {extra}] >>
=============================================================================
