----------------------------- MODULE MCFrontEnd -----------------------------
(***************************************************************************)
(* FrontEnd on every source of few characters: all kinds of them, and      *)
(* longer ones of those that open and close something.                     *)
(***************************************************************************)
EXTENDS FrontEnd

CONSTANTS Size, NestedSize

Characters ==
  {" ", "a", "t", "0", "8", "9", "_", "+", "&", "[", "]", "!", "{", "}", "\"", ")"}
Delimiters == {" ", "a", "[", "]", "{", "}", "\""}

UpTo(n, chars) == UNION {[1 .. k -> chars] : k \in 0 .. n}
MCSources == UpTo(Size, Characters) \cup UpTo(NestedSize, Delimiters)
MCLetters == {"a", "t"}
MCKeywords == <<"t">> :> "TRUE"
=============================================================================
