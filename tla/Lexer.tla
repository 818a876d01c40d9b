------------------------------- MODULE Lexer -------------------------------
(***************************************************************************)
(* The scanner of src/src/lexer.cpp: a position in the source and a        *)
(* register for one token.  One step is one call of find_next_token, which *)
(* scan_next repeats after a comment.  The loops over characters are        *)
(* closed forms: the position at which they stop.                          *)
(*                                                                         *)
(* Positions count from 0, as in the code.  Line and column are left out:  *)
(* they are never initialized, and no one reads them.                      *)
(***************************************************************************)
EXTENDS Integers, SequencesExt

CONSTANTS
  Sources,     \* the files the program may be given, sequences of characters
  Letters,     \* the letters they are written with
  Keywords     \* the words that are no references, with their token types

ASSUME SourcesAssumption == Sources \subseteq Seq(STRING)
ASSUME LettersAssumption == Letters \subseteq STRING

VARIABLES
  source,
  start, curr,   \* where the token begins, and the next character
  scanning,      \* scan_next has not returned
  has_token,     \* _has_token
  token,         \* the register: it keeps its token when has_token is reset
  status         \* "running", "done", or "exited" with an error

lexerVars == <<source, start, curr, scanning, has_token, token, status>>

Token(type, raw, from, to) ==
  [type |-> type, raw |-> raw, start |-> from, end |-> to]
NoToken == Token("none", <<>>, 0, 0)

-----------------------------------------------------------------------------
(* Characters.                                                             *)

Digits == {"0", "1", "2", "3", "4", "5", "6", "7", "8", "9"}
Spaces == {" ", "\t", "\n"}
Quote == "\""
OpenBrace == "{"
CloseBrace == "}"
WordCharacters == Letters \cup Digits \cup {"_"}

\* The function with these arguments and values.
Mapping(pairs) ==
  [x \in {p[1] : p \in pairs} |-> (CHOOSE p \in pairs : p[1] = x)[2]]

\* The characters that are a token each.
Operators == Mapping({
  <<"+", "ADD">>, <<"-", "SUB">>, <<"*", "MUL">>, <<"/", "DIV">>, <<"%", "MOD">>,
  <<"=", "EQUAL">>, <<"<", "LESS">>, <<">", "GREATER">>,
  <<"~", "NOT">>, <<"&", "AND">>, <<"|", "OR">>, <<";", "LOAD">>, <<":", "STORE">>,
  <<"$", "DUP">>, <<"@", "DROP">>, <<"^", "SWAP">>, <<"_", "ROT">>,
  <<"\\", "NEWOBJECT">>, <<".", "GETPROP">>, <<",", "SETPROP">>,
  <<"[", "LAMBDA_START">>, <<"]", "LAMBDA_END">>,
  <<"!", "EXECUTE">>, <<"?", "CONDEXEC">>, <<"#", "WHILE">>})

\* A character begins tokens of one kind, and keywords are constants.
ASSUME CharactersAssumption ==
  /\ Letters \cap (Digits \cup Spaces \cup DOMAIN Operators) = {}
  /\ Letters \cap {OpenBrace, CloseBrace, Quote} = {}
  /\ \A word \in DOMAIN Keywords : Keywords[word] \in {"TRUE", "FALSE", "NIL"}

-----------------------------------------------------------------------------
(* Positions in the source, from 0 to its length.                          *)

Length == Len(source)
At(i) == source[i + 1]
Text(i, j) == SubSeq(source, i + 1, j)

\* The first position from i on that is not among the characters, or is.
After(chars, i) == Min({j \in i .. Length : j = Length \/ At(j) \notin chars})
Find(char, i) == Min({j \in i .. Length : j = Length \/ At(j) = char})

Count(char, i, j) == Cardinality({k \in i .. j - 1 : At(k) = char})

\* Mutant of CommentEnds: comments do not nest.
CommentEndsFlat(i) == {j \in i .. Length : Count(CloseBrace, i, j) > 0}

\* Where the comment whose text begins at i may be over.
CommentEnds(i) ==
  {j \in i .. Length : Count(CloseBrace, i, j) = Count(OpenBrace, i, j) + 1}

-----------------------------------------------------------------------------
LexerInit ==
  /\ source \in Sources
  /\ start = 0 /\ curr = 0
  /\ scanning = TRUE
  /\ has_token = FALSE
  /\ token = NoToken
  /\ status = "running"

\* eat_token: ignore, then scan_next.
Eat ==
  /\ start' = curr
  /\ has_token' = FALSE
  /\ scanning' = TRUE
  /\ UNCHANGED <<source, curr, token, status>>

-----------------------------------------------------------------------------
(* find_next_token.  Whitespace is skipped first, and start follows.       *)

First == After(Spaces, curr)
Meets(chars) ==
  status = "running" /\ scanning /\ First < Length /\ At(First) \in chars

Emit(type, raw, end) ==
  /\ start' = First
  /\ curr' = end
  /\ scanning' = FALSE
  /\ has_token' = TRUE
  /\ token' = Token(type, raw, First, end)
  /\ UNCHANGED <<source, status>>

\* An error message and exit(1).
Exit ==
  /\ status' = "exited"
  /\ UNCHANGED <<source, start, curr, scanning, has_token, token>>

ScanOperator ==
  /\ Meets(DOMAIN Operators)
  /\ Emit(Operators[At(First)], <<At(First)>>, First + 1)

\* Mutant of ScanComment: scan_next begins again where it began.
ScanCommentAgain == Meets({OpenBrace}) /\ UNCHANGED lexerVars

ScanComment ==
  /\ Meets({OpenBrace})
  /\ LET ends == CommentEnds(First + 1)
     IN  IF ends = {} THEN Exit
         ELSE /\ start' = First
              /\ curr' = Min(ends)
              /\ UNCHANGED <<source, scanning, has_token, token, status>>

\* Mutant of ScanString: the character after the string is passed over.
ScanStringLong ==
  /\ Meets({Quote})
  /\ LET quote == Find(Quote, First + 1)
     IN  IF quote = Length THEN Exit
         ELSE Emit("STRING", Text(First + 1, quote), quote + 2)

ScanString ==
  /\ Meets({Quote})
  /\ LET quote == Find(Quote, First + 1)
     IN  IF quote = Length THEN Exit
         ELSE Emit("STRING", Text(First + 1, quote), quote + 1)

ScanNumber ==
  /\ Meets(Digits)
  /\ LET end == After(Digits, First + 1) IN Emit("NUMBER", Text(First, end), end)

ScanWord ==
  /\ Meets(Letters)
  /\ LET end == After(WordCharacters, First + 1)
         word == Text(First, end)
         type == IF word \in DOMAIN Keywords THEN Keywords[word] ELSE "REFERENCE"
     IN  Emit(type, word, end)

Expected == DOMAIN Operators \cup {OpenBrace, Quote} \cup Digits \cup Letters
ScanUnexpected ==
  /\ status = "running" /\ scanning /\ First < Length
  /\ At(First) \notin Expected
  /\ Exit

\* The source is at its end: no token is put in the register.
ScanEnd ==
  /\ status = "running" /\ scanning /\ First = Length
  /\ curr' = First
  /\ scanning' = FALSE
  /\ UNCHANGED <<source, start, has_token, token, status>>

Scan ==
  \/ ScanOperator \/ ScanComment \/ ScanString \/ ScanNumber \/ ScanWord
  \/ ScanUnexpected \/ ScanEnd
=============================================================================
