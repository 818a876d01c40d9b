------------------------------- MODULE Parser -------------------------------
(***************************************************************************)
(* The recursive descent of src/src/parser.cpp over the scanner of         *)
(* Lexer.tla.  The activations of parse_lambda are a stack of the node     *)
(* lists they are filling; the first is parse's own.  parse_any takes a     *)
(* copy of the token, has the next one scanned, and only then looks at     *)
(* what it took: between the two the scanner runs.                         *)
(***************************************************************************)
EXTENDS Lexer

CONSTANT MaxNumber   \* the largest s64

ASSUME MaxNumberAssumption == MaxNumber \in Nat

VARIABLES
  open,        \* the node lists of parse and of the open lambdas
  taken        \* the token parse_any took and has not looked at yet

parserVars == <<lexerVars, open, taken>>

-----------------------------------------------------------------------------
(* Nodes.                                                                  *)

Node(op, text, number, code) ==
  [op |-> op, text |-> text, number |-> number, code |-> code]
LambdaNode(code) == Node("lambda", <<>>, 0, code)

Constants == {"TRUE", "FALSE", "NIL"}

\* The instruction each token stands for.  AND is given NOT's.
Instructions == Mapping({
  <<"ADD", "add">>, <<"SUB", "sub">>, <<"MUL", "mul">>, <<"DIV", "div">>,
  <<"NEG", "neg">>, <<"MOD", "mod">>,
  <<"EQUAL", "eq">>, <<"LESS", "lt">>, <<"GREATER", "gt">>,
  <<"NOT", "not">>, <<"AND", "not">>, <<"OR", "or">>,
  <<"STORE", "store">>, <<"LOAD", "load">>,
  <<"DUP", "dup">>, <<"DROP", "drop">>, <<"SWAP", "swap">>, <<"ROT", "rot">>,
  <<"NEWOBJECT", "new_object">>, <<"GETPROP", "get_prop">>,
  <<"SETPROP", "set_prop">>,
  <<"EXECUTE", "exec">>, <<"CONDEXEC", "cond_exec">>, <<"WHILE", "while">>})

-----------------------------------------------------------------------------
(* strtoll with base 0: a leading 0 makes the number octal, and it ends at *)
(* the first digit that is not; a number too large is the largest.         *)

DigitValue == Mapping({
  <<"0", 0>>, <<"1", 1>>, <<"2", 2>>, <<"3", 3>>, <<"4", 4>>,
  <<"5", 5>>, <<"6", 6>>, <<"7", 7>>, <<"8", 8>>, <<"9", 9>>})

InBase(base, digits) ==
  LET value[n \in 0 .. Len(digits)] ==
        IF n = 0 THEN 0 ELSE base * value[n - 1] + DigitValue[digits[n]]
  IN  value[Len(digits)]

OctalPart(raw) ==
  LET stops == {i \in DOMAIN raw : DigitValue[raw[i]] > 7} \cup {Len(raw) + 1}
  IN  SubSeq(raw, 1, Min(stops) - 1)

Strtoll(raw) ==
  Min({MaxNumber,
       IF raw[1] = "0" THEN InBase(8, OctalPart(raw)) ELSE InBase(10, raw)})

NodeOf(t) ==
  CASE t.type \in Constants -> Node(t.type, <<>>, 0, <<>>)
    [] t.type = "NUMBER" -> Node("NUMBER", <<>>, Strtoll(t.raw), <<>>)
    [] t.type \in {"STRING", "REFERENCE"} -> Node(t.type, t.raw, 0, <<>>)
    [] t.type \in DOMAIN Instructions ->
         Node(Instructions[t.type], <<>>, 0, <<>>)

Leaves == Constants \cup {"NUMBER", "STRING", "REFERENCE"} \cup DOMAIN Instructions

-----------------------------------------------------------------------------
Init ==
  /\ LexerInit
  /\ open = << <<>> >>
  /\ taken = NoToken

ScanNext == Scan /\ UNCHANGED <<open, taken>>

Ready == status = "running" /\ ~scanning
InLoop == Ready /\ taken = NoToken
InLambda == Len(open) > 1

Pushed(lists, node) == Append(Front(lists), Append(Last(lists), node))

-----------------------------------------------------------------------------
(* The parser between two calls of the scanner.                            *)

\* parse and parse_lambda go on to parse_any while there is a token; a lambda
\* also stops at its end.
TakeToken ==
  /\ InLoop /\ has_token
  /\ InLambda => token.type # "LAMBDA_END"
  /\ Eat
  /\ taken' = token
  /\ UNCHANGED open

\* Mutant of ParseLeaf: parse_any looks at the register, which holds the next
\* token by now.
ParseLeafLate ==
  /\ Ready /\ taken # NoToken /\ token.type \in Leaves
  /\ open' = Pushed(open, NodeOf(token))
  /\ taken' = NoToken
  /\ UNCHANGED lexerVars

ParseLeaf ==
  /\ Ready /\ taken.type \in Leaves
  /\ open' = Pushed(open, NodeOf(taken))
  /\ taken' = NoToken
  /\ UNCHANGED lexerVars

OpenLambda ==
  /\ Ready /\ taken.type = "LAMBDA_START"
  /\ open' = Append(open, <<>>)
  /\ taken' = NoToken
  /\ UNCHANGED lexerVars

\* Outside every lambda, the end of one is an unexpected token.
UnexpectedToken ==
  /\ Ready /\ taken.type = "LAMBDA_END"
  /\ Exit
  /\ UNCHANGED <<open, taken>>

\* The register is looked at whether or not there is a token: at the end of
\* the source it still holds the last one.
LambdaEnds == token.type = "LAMBDA_END"

CloseLambda ==
  /\ InLoop /\ InLambda /\ (has_token => token.type = "LAMBDA_END")
  /\ IF LambdaEnds
     THEN /\ Eat
          /\ open' = Pushed(Front(open), LambdaNode(Last(open)))
          /\ UNCHANGED taken
     ELSE Exit /\ UNCHANGED <<open, taken>>

Finish ==
  /\ InLoop /\ ~InLambda /\ ~has_token
  /\ status' = "done"
  /\ UNCHANGED <<source, start, curr, scanning, has_token, token>>
  /\ UNCHANGED <<open, taken>>

Next ==
  \/ ScanNext \/ TakeToken \/ ParseLeaf \/ OpenLambda \/ UnexpectedToken
  \/ CloseLambda \/ Finish

\* parse is called once and keeps running.
Spec == Init /\ [][Next]_parserVars /\ WF_parserVars(Next)

-----------------------------------------------------------------------------
(* Type correctness; what the tree says is the subject of FrontEnd.tla.    *)

\* Positions stay within the source, and so do the spans of the register's
\* and of parse_any's token: no character behind the source is ever looked at.
\* There is a token in the register whenever a lambda is open, so the look at
\* a register without has_token meets a token that was read.
InSource(t) == 0 <= t.start /\ t.start <= t.end /\ t.end <= Length
ParserTypeOK ==
  /\ 0 <= start /\ start <= curr /\ curr <= Length
  /\ scanning \in BOOLEAN /\ has_token \in BOOLEAN
  /\ InSource(token) /\ InSource(taken)
  /\ status \in {"running", "done", "exited"}
  /\ Len(open) > 0
  /\ has_token \/ InLambda \/ taken # NoToken => token # NoToken
=============================================================================
