---------------------------- MODULE ParserProofs ----------------------------
(***************************************************************************)
(* The scanner and the parser stay within the source, for every source of  *)
(* any length and whatever its letters and keywords are, and the register  *)
(* is never looked at before it held a token.                              *)
(*                                                                         *)
(* The register is the point: parse_lambda looks at it without asking      *)
(* whether there is a token.  It keeps its token when has_token is reset,  *)
(* so what is to be carried along is that a lambda is opened, and a token  *)
(* taken, only after one was read.  A token that was read is not empty:    *)
(* that, and not its type, tells it from the register as it was made.      *)
(*                                                                         *)
(* What is accepted is what Language finds well-formed. The scanner jumps  *)
(* from token to token, and Language reads every character: that they      *)
(* agree is shown loop by loop. The parser is a token behind the scanner,  *)
(* so its open lambdas are those that were read, but for the token taken   *)
(* and the one that waits.                                                 *)
(*                                                                         *)
(* What the tree says is what was read.  Each list of nodes is told as a   *)
(* run of the words, whatever stands around it; the open lists lie one     *)
(* behind the other, each after the bracket that opened it, and the words  *)
(* behind the last are those of the two tokens on their way.               *)
(***************************************************************************)
EXTENDS FrontEnd, NumberProofs, SequenceTheorems

\* The node lists are a sequence; what the nodes are plays no part.
Lists == \E S : open \in Seq(S)

ParserInv ==
  /\ source \in Seq(STRING) /\ start \in Nat /\ curr \in Nat
  /\ token.start \in Nat /\ token.end \in Nat
  /\ taken.start \in Nat /\ taken.end \in Nat
  /\ Lists
  /\ ParserTypeOK

-----------------------------------------------------------------------------
(* Where the loops over characters stop.                                   *)

\* The least of a set of positions is one of them.
LEMMA LeastPosition ==
  ASSUME NEW S, S \subseteq Nat, S # {}
  PROVE  Min(S) \in S
BY LeastNatural DEF Min

\* A loop over characters goes on from where it is, and not past the end.
LEMMA LoopsStop ==
  ASSUME ParserInv, NEW i \in 0 .. Length
  PROVE  /\ \A chars : After(chars, i) \in i .. Length
         /\ \A char : Find(char, i) \in i .. Length
<1>1. Length \in Nat
  BY LenProperties DEF ParserInv, Length
<1>2. ASSUME NEW chars
      PROVE  After(chars, i) \in i .. Length
  <2> DEFINE S == {j \in i .. Length : j = Length \/ At(j) \notin chars}
  <2>1. S \subseteq Nat /\ S # {} /\ S \subseteq i .. Length
    BY <1>1
  <2> HIDE DEF S
  <2>2. Min(S) \in i .. Length
    BY <2>1, LeastPosition
  <2> QED BY <2>2 DEF S, After
<1>3. ASSUME NEW char
      PROVE  Find(char, i) \in i .. Length
  <2> DEFINE S == {j \in i .. Length : j = Length \/ At(j) = char}
  <2>1. S \subseteq Nat /\ S # {} /\ S \subseteq i .. Length
    BY <1>1
  <2> HIDE DEF S
  <2>2. Min(S) \in i .. Length
    BY <2>1, LeastPosition
  <2> QED BY <2>2 DEF S, Find
<1> QED BY <1>2, <1>3

\* Behind the whitespace, still in the source.
LEMMA FirstInSource ==
  ASSUME ParserInv
  PROVE  Length \in Nat /\ First \in curr .. Length /\ First \in Nat
<1>1. Length \in Nat /\ curr \in 0 .. Length
  BY LenProperties DEF ParserInv, ParserTypeOK, Length
<1>2. First \in curr .. Length
  BY <1>1, LoopsStop DEF First
<1> QED BY <1>1, <1>2

-----------------------------------------------------------------------------
(* The scanner.                                                            *)

\* What the scanner leaves alone: the source, the nodes and the token taken.
LEMMA KeptOK ==
  ASSUME ParserInv, UNCHANGED <<source, open, taken>>
  PROVE  /\ source' \in Seq(STRING) /\ Length' = Length /\ Length \in Nat
         /\ Lists' /\ Len(open') > 0 /\ InLambda' = InLambda
         /\ taken'.start \in Nat /\ taken'.end \in Nat /\ InSource(taken)'
         /\ (taken' # NoToken => token # NoToken)
<1>1. Length' = Length /\ Length \in Nat
  BY LenProperties DEF Length, ParserInv
<1>2. Lists' /\ Len(open') > 0 /\ InLambda' = InLambda
  BY DEF ParserInv, ParserTypeOK, Lists, InLambda
<1>3. taken' = taken /\ InSource(taken)
  BY DEF ParserInv, ParserTypeOK
<1>4. InSource(taken)'
  BY <1>1, <1>3 DEF InSource
<1> QED BY <1>1, <1>2, <1>3, <1>4 DEF ParserInv, ParserTypeOK

\* A token that is put into the register lies in the source and is not empty.
LEMMA EmitOK ==
  ASSUME ParserInv, NEW type, NEW raw, NEW end \in First + 1 .. Length,
         Emit(type, raw, end), UNCHANGED <<open, taken>>
  PROVE  ParserInv'
<1>1. Length \in Nat /\ First \in curr .. Length /\ First \in Nat /\ curr \in Nat
  BY FirstInSource DEF ParserInv
<1>2. /\ token'.start = First /\ token'.end = end /\ end \in Nat
      /\ token' # NoToken
  <2>1. token' = Token(type, raw, First, end)
    BY DEF Emit
  <2>2. NoToken.end = 0 /\ token'.start = First /\ token'.end = end
    BY <2>1 DEF NoToken, Token
  <2> QED BY <1>1, <2>2
<1>3. /\ start' = First /\ curr' = end /\ scanning' = FALSE /\ has_token' = TRUE
      /\ UNCHANGED <<source, status, open, taken>> /\ Length' = Length
  BY DEF Emit, Length
<1>4. InSource(token)'
  BY <1>1, <1>2, <1>3 DEF InSource
<1>5. /\ 0 <= start' /\ start' <= curr' /\ curr' <= Length'
      /\ status' \in {"running", "done", "exited"}
      /\ start' \in Nat /\ curr' \in Nat
  BY <1>1, <1>3 DEF ParserInv, ParserTypeOK
<1>6. UNCHANGED <<source, open, taken>>
  BY <1>3
<1> QED BY <1>1, <1>2, <1>3, <1>4, <1>5, <1>6, KeptOK
        DEF ParserInv, ParserTypeOK

\* The program is given up with the register as it is.
LEMMA ExitOK ==
  ASSUME ParserInv, Exit, UNCHANGED <<open, taken>>
  PROVE  ParserInv'
BY DEF Exit, ParserInv, ParserTypeOK, InSource, Lists, InLambda, Length

\* The scanner moves on and leaves the register alone.
LEMMA MovedOK ==
  ASSUME ParserInv, UNCHANGED <<source, has_token, token, status, open, taken>>,
         scanning' \in BOOLEAN,
         curr' \in First .. Length, start' \in 0 .. curr'
  PROVE  ParserInv'
<1>1. Length \in Nat /\ First \in Nat
  BY FirstInSource
<1>2. Length' = Length
  BY DEF Length
<1>3. token' = token /\ InSource(token)
  BY DEF ParserInv, ParserTypeOK
<1>4. InSource(token)'
  BY <1>2, <1>3 DEF InSource
<1>5. /\ start' \in Nat /\ curr' \in Nat
      /\ 0 <= start' /\ start' <= curr' /\ curr' <= Length'
  BY <1>1, <1>2
<1> QED BY <1>3, <1>4, <1>5, KeptOK DEF ParserInv, ParserTypeOK

\* Every call of find_next_token keeps the invariant.
LEMMA ScanOK ==
  ASSUME ParserInv, Scan, UNCHANGED <<open, taken>>
  PROVE  ParserInv'
<1>0. Length \in Nat /\ First \in curr .. Length /\ First \in Nat /\ curr \in Nat
  BY FirstInSource DEF ParserInv
<1>a. ASSUME NEW chars, Meets(chars)
      PROVE  First + 1 \in 0 .. Length
  BY <1>0, <1>a DEF Meets
<1>1. CASE ScanOperator
  <2>1. First + 1 \in First + 1 .. Length
    BY <1>0, <1>1, <1>a DEF ScanOperator
  <2> QED BY <1>1, <2>1, EmitOK DEF ScanOperator
<1>2. CASE ScanComment
  <2> DEFINE ends == CommentEnds(First + 1)
  <2>1. CASE ends = {}
    BY <1>2, <2>1, ExitOK DEF ScanComment
  <2>2. CASE ends # {}
    <3>1. ends \subseteq Nat /\ ends \subseteq First + 1 .. Length
      <4> DEFINE Ends(i, j) == Count(CloseBrace, i, j) = Count(OpenBrace, i, j) + 1
      <4>1. ends = {j \in First + 1 .. Length : Ends(First + 1, j)}
        BY DEF CommentEnds
      <4> HIDE DEF ends, Ends
      <4> QED BY <1>0, <4>1
    <3>2. Min(ends) \in ends
      <4> HIDE DEF ends
      <4> QED BY <2>2, <3>1, LeastPosition
    <3>3. /\ start' = First /\ curr' = Min(ends)
          /\ UNCHANGED <<source, scanning, has_token, token, status, open, taken>>
      BY <1>2, <2>2 DEF ScanComment
    <3> HIDE DEF ends
    <3>4. curr' \in First + 1 .. Length
      BY <3>1, <3>2, <3>3
    <3>5. UNCHANGED <<source, has_token, token, status, open, taken>>
      BY <3>3
    <3>6. /\ scanning' \in BOOLEAN
          /\ curr' \in First .. Length /\ start' \in 0 .. curr'
      BY <1>0, <3>3, <3>4 DEF ParserInv, ParserTypeOK
    <3> QED BY <3>5, <3>6, MovedOK
  <2> QED BY <2>1, <2>2
<1>3. CASE ScanString
  <2> DEFINE quote == Find(Quote, First + 1)
  <2>1. CASE quote = Length
    BY <1>3, <2>1, ExitOK DEF ScanString
  <2>2. CASE quote # Length
    <3>1. First + 1 \in 0 .. Length
      BY <1>3, <1>a DEF ScanString
    <3>2. quote \in First + 1 .. Length
      BY <3>1, LoopsStop
    <3>3. Emit("STRING", Text(First + 1, quote), quote + 1)
      BY <1>3, <2>2 DEF ScanString
    <3> HIDE DEF quote
    <3>4. quote + 1 \in First + 1 .. Length
      BY <1>0, <2>2, <3>2
    <3> QED BY <3>3, <3>4, EmitOK
  <2> QED BY <2>1, <2>2
<1>4. CASE ScanNumber
  <2> DEFINE end == After(Digits, First + 1)
  <2>1. end \in First + 1 .. Length
    BY <1>4, <1>a, LoopsStop DEF ScanNumber
  <2> QED BY <1>4, <2>1, EmitOK DEF ScanNumber
<1>5. CASE ScanWord
  <2> DEFINE end == After(WordCharacters, First + 1)
  <2>1. end \in First + 1 .. Length
    BY <1>5, <1>a, LoopsStop DEF ScanWord
  <2> QED BY <1>5, <2>1, EmitOK DEF ScanWord
<1>6. CASE ScanUnexpected
  BY <1>6, ExitOK DEF ScanUnexpected
<1>7. CASE ScanEnd
  <2>1. /\ UNCHANGED <<source, has_token, token, status, open, taken>>
        /\ start' = start /\ curr' = First /\ scanning' = FALSE
    BY <1>7 DEF ScanEnd
  <2>2. UNCHANGED <<source, has_token, token, status, open, taken>>
    BY <2>1
  <2>3. /\ scanning' \in BOOLEAN
        /\ curr' \in First .. Length /\ start' \in 0 .. curr'
    <3>1. start \in Nat /\ start <= curr
      BY DEF ParserInv, ParserTypeOK
    <3>2. First \in First .. Length /\ start \in 0 .. First
      BY <1>0, <3>1
    <3> QED BY <2>1, <3>2
  <2> QED BY <2>2, <2>3, MovedOK
<1> QED BY <1>1, <1>2, <1>3, <1>4, <1>5, <1>6, <1>7 DEF Scan

-----------------------------------------------------------------------------
(* The parser.                                                             *)

\* Adding a node to the innermost list, and a list for a lambda, keep the
\* number of open lambdas or make it one more.
LEMMA ListFacts ==
  ASSUME NEW lists, \E S : lists \in Seq(S), Len(lists) > 0, NEW node
  PROVE  /\ Len(lists) \in Nat
         /\ \E S : Pushed(lists, node) \in Seq(S)
         /\ Len(Pushed(lists, node)) = Len(lists)
         /\ \E S : Append(lists, <<>>) \in Seq(S)
         /\ Len(Append(lists, <<>>)) = Len(lists) + 1
         /\ \E S : Front(lists) \in Seq(S)
         /\ Len(Front(lists)) = Len(lists) - 1
<1> PICK S : lists \in Seq(S)
  OBVIOUS
<1> DEFINE list == Append(Last(lists), node)
           U == S \cup {list, <<>>}
<1>1. Len(lists) \in Nat /\ lists \in Seq(U)
  <2>1. lists \in [1 .. Len(lists) -> S] /\ Len(lists) \in Nat
    BY LenProperties
  <2> HIDE DEF list
  <2>2. lists \in [1 .. Len(lists) -> U]
    BY <2>1
  <2> QED BY <2>1, <2>2
<1> HIDE DEF U
<1>2. Front(lists) \in Seq(U) /\ Len(Front(lists)) = Len(lists) - 1
  <2>1. /\ lists \in [1 .. Len(lists) -> U]
        /\ 1 \in Int /\ Len(lists) - 1 \in Int
    BY <1>1, LenProperties
  <2>2. /\ SubSeq(lists, 1, Len(lists) - 1) \in Seq(U)
        /\ Len(SubSeq(lists, 1, Len(lists) - 1)) = Len(lists) - 1
    BY <1>1, <2>1, SubSeqProperties
  <2> QED BY <2>2 DEF Front
<1>3. list \in U /\ <<>> \in U
  BY DEF U
<1> HIDE DEF list
<1>4. /\ Append(Front(lists), list) \in Seq(U)
      /\ Len(Append(Front(lists), list)) = Len(lists)
      /\ Append(lists, <<>>) \in Seq(U)
      /\ Len(Append(lists, <<>>)) = Len(lists) + 1
  <2>1. /\ Append(Front(lists), list) \in Seq(U)
        /\ Len(Append(Front(lists), list)) = Len(Front(lists)) + 1
    BY <1>2, <1>3, AppendProperties
  <2>2. /\ Append(lists, <<>>) \in Seq(U)
        /\ Len(Append(lists, <<>>)) = Len(lists) + 1
    BY <1>1, <1>3, AppendProperties
  <2> QED BY <1>1, <1>2, <2>1, <2>2
<1>5. Pushed(lists, node) = Append(Front(lists), list)
  BY DEF Pushed, list
<1> QED BY <1>1, <1>2, <1>4, <1>5

\* eat_token leaves the scanner behind the token it drops, which stays in the
\* register.
EatenOK ==
  /\ source' \in Seq(STRING) /\ start' \in Nat /\ curr' \in Nat
  /\ token'.start \in Nat /\ token'.end \in Nat
  /\ 0 <= start' /\ start' <= curr' /\ curr' <= Length'
  /\ scanning' = TRUE /\ has_token' = FALSE
  /\ InSource(token)'
  /\ status' \in {"running", "done", "exited"}

\* That holds whenever the invariant did before.
LEMMA EatOK ==
  ASSUME ParserInv, Eat
  PROVE  EatenOK
BY DEF Eat, EatenOK, ParserInv, ParserTypeOK, InSource, Length

\* What was taken is dropped, once the node lists are seen to.
LEMMA DroppedOK ==
  ASSUME ParserInv, UNCHANGED lexerVars, taken' = NoToken,
         Lists', Len(open') > 0,
         \/ Len(open') = Len(open)
         \/ taken # NoToken
  PROVE  ParserInv'
<1>1. /\ NoToken.start = 0 /\ NoToken.end = 0
      /\ taken'.start = 0 /\ taken'.end = 0
  BY DEF NoToken, Token
<1>2. UNCHANGED <<source, start, curr, scanning, has_token, token, status>>
  BY DEF lexerVars
<1>3. has_token \/ Len(open') > 1 => token # NoToken
  BY DEF ParserInv, ParserTypeOK, InLambda
<1>4. Length' = Length /\ Length \in Nat
  BY <1>2, LenProperties DEF Length, ParserInv
<1>5. InSource(taken)' /\ InSource(token)'
  BY <1>1, <1>2, <1>4 DEF InSource, ParserInv, ParserTypeOK
<1>6. has_token' \/ InLambda' \/ taken' # NoToken => token' # NoToken
  BY <1>2, <1>3 DEF InLambda
<1> QED BY <1>1, <1>2, <1>4, <1>5, <1>6 DEF ParserInv, ParserTypeOK

\* What the parser does between two calls of the scanner keeps the invariant.
LEMMA ParseOK ==
  ASSUME ParserInv,
         \/ TakeToken \/ ParseLeaf \/ OpenLambda \/ UnexpectedToken
         \/ CloseLambda \/ Finish
  PROVE  ParserInv'
<1>0. Len(open) > 0 /\ Lists
  BY DEF ParserInv, ParserTypeOK
<1>1. CASE TakeToken
  <2>1. taken' = token /\ has_token /\ Eat /\ open' = open
    BY <1>1 DEF TakeToken
  <2>2. EatenOK
    BY <2>1, EatOK
  <2>3. /\ token # NoToken /\ InSource(token)
        /\ token.start \in Nat /\ token.end \in Nat
    BY <2>1 DEF ParserInv, ParserTypeOK
  <2>4. Lists' /\ Len(open') > 0
    BY <1>0, <2>1 DEF Lists
  <2>5. token' = token /\ InSource(taken)' /\ taken'.start \in Nat /\ taken'.end \in Nat
    BY <2>1, <2>3 DEF Eat, InSource, Length
  <2> QED BY <2>2, <2>3, <2>4, <2>5 DEF EatenOK, ParserInv, ParserTypeOK
<1>2. CASE ParseLeaf
  <2>1. /\ open' = Pushed(open, NodeOf(taken)) /\ taken' = NoToken
        /\ UNCHANGED lexerVars
    BY <1>2 DEF ParseLeaf
  <2>2. Lists' /\ Len(open') = Len(open)
    BY <1>0, <2>1, ListFacts DEF Lists
  <2>3. Len(open') > 0
    BY <1>0, <2>2
  <2> QED BY <2>1, <2>2, <2>3, DroppedOK
<1>3. CASE OpenLambda
  <2>1. /\ open' = Append(open, <<>>) /\ taken' = NoToken
        /\ UNCHANGED lexerVars /\ taken.type = "LAMBDA_START"
    BY <1>3 DEF OpenLambda
  <2>2. Lists' /\ Len(open') = Len(open) + 1 /\ Len(open) \in Nat
    BY <1>0, <2>1, ListFacts DEF Lists
  <2>3. taken # NoToken
    BY <2>1 DEF NoToken, Token
  <2> QED BY <1>0, <2>1, <2>2, <2>3, DroppedOK
<1>4. CASE UnexpectedToken
  BY <1>4, ExitOK DEF UnexpectedToken
<1>5. CASE CloseLambda
  <2>1. CASE ~LambdaEnds
    BY <1>5, <2>1, ExitOK DEF CloseLambda
  <2>2. CASE LambdaEnds
    <3>1. /\ open' = Pushed(Front(open), LambdaNode(Last(open)))
          /\ Eat /\ taken' = taken /\ InLambda
      BY <1>5, <2>2 DEF CloseLambda
    <3> DEFINE rest == Front(open)
               node == LambdaNode(Last(open))
    <3>2. /\ \E S : rest \in Seq(S)
          /\ Len(rest) = Len(open) - 1 /\ Len(open) \in Nat
      BY <1>0, ListFacts DEF Lists
    <3>3. open' = Pushed(rest, node)
      BY <3>1
    <3> HIDE DEF rest, node
    <3>4. Len(rest) > 0
      BY <3>1, <3>2 DEF InLambda
    <3>5. Lists' /\ Len(open') = Len(rest)
      BY <3>2, <3>3, <3>4, ListFacts DEF Lists
    <3>6. EatenOK
      BY <3>1, EatOK
    <3>7. /\ token' = token /\ token # NoToken
          /\ InSource(taken)' /\ taken'.start \in Nat /\ taken'.end \in Nat
      BY <3>1 DEF Eat, InSource, Length, ParserInv, ParserTypeOK
    <3> QED BY <3>4, <3>5, <3>6, <3>7 DEF EatenOK, ParserInv, ParserTypeOK
  <2> QED BY <2>1, <2>2
<1>6. CASE Finish
  BY <1>6
     DEF Finish, ParserInv, ParserTypeOK, InSource, Length, Lists, InLambda
<1> QED BY <1>1, <1>2, <1>3, <1>4, <1>5, <1>6

-----------------------------------------------------------------------------
(* Positions.                                                              *)

\* parse begins before the first character, with an empty list of nodes.
LEMMA InitParser ==
  ASSUME Init
  PROVE  ParserInv
<1>1. /\ source \in Seq(STRING) /\ start = 0 /\ curr = 0 /\ scanning = TRUE
      /\ has_token = FALSE /\ token = NoToken /\ taken = NoToken
      /\ status = "running" /\ open = << <<>> >>
  BY SourcesAssumption DEF Init, LexerInit
<1>2. NoToken.start = 0 /\ NoToken.end = 0
  BY DEF NoToken, Token
<1>3. Length \in Nat
  BY <1>1, LenProperties DEF Length
<1>4. open \in Seq({<<>>}) /\ Len(open) = 1
  BY <1>1
<1>5. InSource(token) /\ InSource(taken)
  BY <1>1, <1>2, <1>3 DEF InSource
<1>6. ~(has_token \/ InLambda \/ taken # NoToken)
  BY <1>1, <1>4 DEF InLambda
<1>7. Lists
  BY <1>4 DEF Lists
<1>8. token.start = 0 /\ token.end = 0 /\ taken.start = 0 /\ taken.end = 0
  BY <1>1, <1>2
<1>9. ParserTypeOK
  <2>1. 0 <= start /\ start <= curr /\ curr <= Length
    BY <1>1, <1>3
  <2>2. scanning \in BOOLEAN /\ has_token \in BOOLEAN
    BY <1>1
  <2>3. status \in {"running", "done", "exited"}
    BY <1>1
  <2>4. Len(open) > 0
    BY <1>4
  <2> QED BY <2>1, <2>2, <2>3, <2>4, <1>5, <1>6 DEF ParserTypeOK
<1> QED BY <1>1, <1>7, <1>8, <1>9 DEF ParserInv

\* Every step keeps the invariant.
LEMMA ParserStep ==
  ASSUME ParserInv, [Next]_parserVars
  PROVE  ParserInv'
<1>1. CASE UNCHANGED parserVars
  BY <1>1 DEF parserVars, lexerVars, ParserInv, ParserTypeOK, InSource, Lists,
              InLambda, Length
<1>2. CASE ScanNext
  BY <1>2, ScanOK DEF ScanNext
<1> QED BY <1>1, <1>2, ParseOK DEF Next

\* No position passes the end of the source, no matter what the source is, and
\* the look at the register behind a lambda meets a token that was read
\* (parser.cpp:195, which does not ask has_token).
THEOREM PositionsInSource == Spec => []ParserTypeOK
<1>1. ParserInv /\ [Next]_parserVars => ParserInv'
  BY ParserStep
<1>2. ParserInv => ParserTypeOK
  BY DEF ParserInv
<1> QED BY InitParser, <1>1, <1>2, PTL DEF Spec

-----------------------------------------------------------------------------
(* Sequences of whatever elements.                                         *)

IsSeq(s) == \E S : s \in Seq(S)

\* The positions of a sequence.
LEMMA SeqDomain ==
  ASSUME NEW s, IsSeq(s)
  PROVE  DOMAIN s = 1 .. Len(s) /\ Len(s) \in Nat
BY LenProperties DEF IsSeq

\* The sequence without elements.
LEMMA TheEmptySeq == IsSeq(<<>>) /\ Len(<<>>) = 0
<1>1. <<>> \in Seq({})
  OBVIOUS
<1> QED BY <1>1 DEF IsSeq

\* Three sequences have a set of elements in common.
LEMMA Together ==
  ASSUME NEW s, NEW t, NEW u, IsSeq(s), IsSeq(t), IsSeq(u)
  PROVE  \E S : s \in Seq(S) /\ t \in Seq(S) /\ u \in Seq(S)
<1>1. PICK A : s \in Seq(A)
  BY DEF IsSeq
<1>2. PICK B : t \in Seq(B)
  BY DEF IsSeq
<1>3. PICK C : u \in Seq(C)
  BY DEF IsSeq
<1> DEFINE S == A \cup B \cup C
<1>4. A \subseteq S /\ B \subseteq S /\ C \subseteq S
  OBVIOUS
<1> HIDE DEF S
<1>5. s \in Seq(S) /\ t \in Seq(S) /\ u \in Seq(S)
  BY <1>1, <1>2, <1>3, <1>4, SeqMonotonic
<1> QED BY <1>5

\* One sequence behind another.
LEMMA ConcatFacts ==
  ASSUME NEW s, NEW t, IsSeq(s), IsSeq(t)
  PROVE  /\ IsSeq(s \o t) /\ Len(s) \in Nat /\ Len(t) \in Nat
         /\ Len(s \o t) = Len(s) + Len(t)
         /\ \A i \in 1 .. Len(s) + Len(t) :
              (s \o t)[i] = IF i <= Len(s) THEN s[i] ELSE t[i - Len(s)]
         /\ s \o <<>> = s /\ <<>> \o s = s
<1>1. PICK S : s \in Seq(S) /\ t \in Seq(S)
  BY Together
<1>2. /\ s \o t \in Seq(S) /\ Len(s \o t) = Len(s) + Len(t)
      /\ \A i \in 1 .. Len(s) + Len(t) :
           (s \o t)[i] = IF i <= Len(s) THEN s[i] ELSE t[i - Len(s)]
  BY <1>1, ConcatProperties
<1>3. Len(s) \in Nat /\ Len(t) \in Nat
  BY <1>1, LenProperties
<1>4. s \o <<>> = s /\ <<>> \o s = s
  BY <1>1, ConcatEmptySeq
<1>5. IsSeq(s \o t)
  BY <1>2 DEF IsSeq
<1> QED BY <1>2, <1>3, <1>4, <1>5

\* Three sequences behind one another.
LEMMA ConcatTwice ==
  ASSUME NEW s, NEW t, NEW u, IsSeq(s), IsSeq(t), IsSeq(u)
  PROVE  (s \o t) \o u = s \o (t \o u)
<1>1. PICK S : s \in Seq(S) /\ t \in Seq(S) /\ u \in Seq(S)
  BY Together
<1> QED BY <1>1, ConcatAssociative

\* An element behind a sequence.
LEMMA Appended ==
  ASSUME NEW s, IsSeq(s), NEW e
  PROVE  /\ IsSeq(Append(s, e)) /\ Len(s) \in Nat /\ Len(Append(s, e)) = Len(s) + 1
         /\ \A i \in 1 .. Len(s) : Append(s, e)[i] = s[i]
         /\ Append(s, e)[Len(s) + 1] = e
<1>1. PICK A : s \in Seq(A)
  BY DEF IsSeq
<1> DEFINE S == A \cup {e}
<1>2. A \subseteq S /\ e \in S
  OBVIOUS
<1> HIDE DEF S
<1>3. s \in Seq(S)
  BY <1>1, <1>2, SeqMonotonic
<1>4. /\ Append(s, e) \in Seq(S) /\ Len(Append(s, e)) = Len(s) + 1
      /\ \A i \in 1 .. Len(s) : Append(s, e)[i] = s[i]
      /\ Append(s, e)[Len(s) + 1] = e
  BY <1>2, <1>3, AppendProperties
<1>5. IsSeq(Append(s, e))
  BY <1>4 DEF IsSeq
<1> QED BY <1>3, <1>4, <1>5, LenProperties

\* It is one more sequence, of one element.
LEMMA AppendFacts ==
  ASSUME NEW s, IsSeq(s), NEW e
  PROVE  /\ IsSeq(Append(s, e)) /\ Len(s) \in Nat /\ Len(Append(s, e)) = Len(s) + 1
         /\ \A i \in 1 .. Len(s) : Append(s, e)[i] = s[i]
         /\ Append(s, e)[Len(s) + 1] = e
         /\ Append(s, e) = s \o <<e>>
         /\ IsSeq(<<e>>) /\ IsSeq(<<>>) /\ Len(<<>>) = 0 /\ Len(<<e>>) = 1
<1>1. PICK A : s \in Seq(A)
  BY DEF IsSeq
<1>2. s \in Seq(A \cup {e}) /\ e \in A \cup {e}
  BY <1>1, SeqMonotonic
<1>3. Append(s, e) = s \o <<e>>
  BY <1>2, AppendIsConcat
<1>4. <<e>> \in Seq({e}) /\ <<>> \in Seq({e}) /\ Len(<<>>) = 0 /\ Len(<<e>>) = 1
  OBVIOUS
<1>5. IsSeq(<<e>>) /\ IsSeq(<<>>)
  BY <1>4 DEF IsSeq
<1>6. /\ IsSeq(Append(s, e)) /\ Len(s) \in Nat /\ Len(Append(s, e)) = Len(s) + 1
      /\ \A i \in 1 .. Len(s) : Append(s, e)[i] = s[i]
      /\ Append(s, e)[Len(s) + 1] = e
  BY Appended
<1> QED BY <1>3, <1>4, <1>5, <1>6

\* An element before a sequence.
LEMMA HeadFacts ==
  ASSUME NEW s, IsSeq(s), NEW e
  PROVE  /\ IsSeq(<<e>> \o s) /\ <<e>> \o s # <<>>
         /\ Head(<<e>> \o s) = e /\ Tail(<<e>> \o s) = s
<1>1. PICK A : s \in Seq(A)
  BY DEF IsSeq
<1> DEFINE S == A \cup {e}
<1>2. A \subseteq S /\ e \in S
  OBVIOUS
<1> HIDE DEF S
<1>3. s \in Seq(S) /\ Len(s) \in Nat
  BY <1>1, <1>2, SeqMonotonic, LenProperties
<1>4. <<e>> \in Seq(S) /\ Len(<<e>>) = 1 /\ <<e>>[1] = e
  BY <1>2
<1>5. PICK t : t = <<e>> \o s
  OBVIOUS
<1>6. /\ t \in Seq(S) /\ Len(t) = 1 + Len(s)
      /\ \A i \in 1 .. 1 + Len(s) : t[i] = IF i <= 1 THEN <<e>>[i] ELSE s[i - 1]
  BY <1>3, <1>4, <1>5, ConcatProperties
<1>7. t # <<>>
  <2>1. Len(t) # 0
    BY <1>3, <1>6
  <2> QED BY <2>1
<1>8. t[1] = e
  BY <1>3, <1>4, <1>6
<1>9. Head(t) = e
  BY <1>8
<1>10. Tail(t) = s
  <2>1. PICK u : u = Tail(t)
    OBVIOUS
  <2>2. /\ u \in Seq(S) /\ Len(u) = Len(t) - 1
        /\ \A i \in 1 .. Len(u) : u[i] = t[i + 1]
    BY <1>6, <1>7, <2>1, HeadTailProperties
  <2>3. Len(u) = Len(s)
    BY <1>3, <1>6, <2>2
  <2>4. ASSUME NEW i \in 1 .. Len(u)
        PROVE  u[i] = s[i]
    <3>1. i + 1 \in 1 .. 1 + Len(s) /\ ~(i + 1 <= 1) /\ (i + 1) - 1 = i
      BY <1>3, <2>3
    <3>2. t[i + 1] = s[i]
      BY <1>6, <3>1
    <3> QED BY <2>2, <3>2
  <2> QED BY <1>3, <2>1, <2>2, <2>3, <2>4, SeqEqual
<1>11. IsSeq(t)
  BY <1>6 DEF IsSeq
<1> QED BY <1>5, <1>7, <1>9, <1>10, <1>11

-----------------------------------------------------------------------------
(* What was read.                                                          *)

\* What is known behind the first k characters.
R(k) == Readings(source)[k]

\* What a reading says, but for its words.
Fields == {"mode", "comment", "lambdas", "closing", "wrong", "words"}
Says(r, mode, comment, lambdas, closing, wrong) ==
  /\ DOMAIN r = Fields
  /\ r.mode = mode /\ r.comment = comment /\ r.lambdas = lambdas
  /\ (r.closing <=> closing) /\ (r.wrong <=> wrong)

\* A reading is a record of these fields.
Shaped(r) == DOMAIN r = Fields /\ r.comment \in Nat /\ r.lambdas \in Int

\* The last word is one character longer.
Grew(r, q, c) ==
  \A words, word : IsSeq(words) /\ r.words = Append(words, word) =>
    q.words = Append(words, Append(word, c))

\* No word was begun, or one was.
Same(r, q) == q.words = r.words
Begun(r, q, c) == q.words = Append(r.words, <<c>>)

\* A new token, comment or blank begins.
Free(r, c) == r.comment = 0 /\ r.mode # "string" /\ ~Goes(r, c)

\* The function of some pairs has their first parts for arguments, and a pair
\* for each of them.
LEMMA MappingIs ==
  ASSUME NEW pairs
  PROVE  /\ DOMAIN Mapping(pairs) = {p[1] : p \in pairs}
         /\ \A x \in DOMAIN Mapping(pairs) :
              \E p \in pairs : p[1] = x /\ Mapping(pairs)[x] = p[2]
BY DEF Mapping

\* Each character begins tokens of one kind.
LEMMA OperatorsAre ==
  /\ DOMAIN Operators \cap (Spaces \cup Digits \cup {OpenBrace, CloseBrace, Quote}) = {}
  /\ "[" \in DOMAIN Operators /\ "]" \in DOMAIN Operators
  /\ \A c \in DOMAIN Operators :
       /\ Operators[c] = "LAMBDA_START" <=> c = "["
       /\ Operators[c] = "LAMBDA_END" <=> c = "]"
<1> DEFINE pairs == {
  <<"+", "ADD">>, <<"-", "SUB">>, <<"*", "MUL">>, <<"/", "DIV">>, <<"%", "MOD">>,
  <<"=", "EQUAL">>, <<"<", "LESS">>, <<">", "GREATER">>,
  <<"~", "NOT">>, <<"&", "AND">>, <<"|", "OR">>, <<";", "LOAD">>, <<":", "STORE">>,
  <<"$", "DUP">>, <<"@", "DROP">>, <<"^", "SWAP">>, <<"_", "ROT">>,
  <<"\\", "NEWOBJECT">>, <<".", "GETPROP">>, <<",", "SETPROP">>,
  <<"[", "LAMBDA_START">>, <<"]", "LAMBDA_END">>,
  <<"!", "EXECUTE">>, <<"?", "CONDEXEC">>, <<"#", "WHILE">>}
<1>1. Operators = Mapping(pairs)
  BY DEF Operators
<1>2. /\ \A p \in pairs :
           /\ p[1] \notin Spaces \cup Digits \cup {OpenBrace, CloseBrace, Quote}
           /\ p[2] = "LAMBDA_START" <=> p[1] = "["
           /\ p[2] = "LAMBDA_END" <=> p[1] = "]"
      /\ <<"[", "LAMBDA_START">> \in pairs /\ <<"]", "LAMBDA_END">> \in pairs
  BY DEF Spaces, Digits, Quote, OpenBrace, CloseBrace
<1> HIDE DEF pairs
<1>3. "[" \in {p[1] : p \in pairs} /\ "]" \in {p[1] : p \in pairs}
  <2>1. <<"[", "LAMBDA_START">>[1] = "[" /\ <<"]", "LAMBDA_END">>[1] = "]"
    OBVIOUS
  <2> QED BY <1>2, <2>1
<1>4. DOMAIN Operators = {p[1] : p \in pairs}
  BY <1>1, MappingIs
<1>5. DOMAIN Operators \cap (Spaces \cup Digits \cup {OpenBrace, CloseBrace, Quote}) = {}
  BY <1>2, <1>4
<1>6. ASSUME NEW c \in DOMAIN Operators
      PROVE  /\ Operators[c] = "LAMBDA_START" <=> c = "["
             /\ Operators[c] = "LAMBDA_END" <=> c = "]"
  <2>1. PICK p \in pairs : p[1] = c /\ Operators[c] = p[2]
    BY <1>1, MappingIs
  <2> QED BY <1>2, <2>1
<1> QED BY <1>3, <1>4, <1>5, <1>6

\* The last of some words is made longer.
LEMMA LastLonger ==
  ASSUME NEW words, IsSeq(words), NEW word, NEW longer
  PROVE  LET old == Append(words, word)
         IN  [old EXCEPT ![Len(old)] = longer] = Append(words, longer)
             /\ old[Len(old)] = word
<1>1. PICK n : n = Len(words) + 1
  OBVIOUS
<1>2. PICK old : old = Append(words, word)
  OBVIOUS
<1>3. /\ IsSeq(old) /\ Len(old) = n /\ old[n] = word /\ Len(words) \in Nat
      /\ \A i \in 1 .. Len(words) : old[i] = words[i]
  <2>1. /\ IsSeq(Append(words, word)) /\ Len(Append(words, word)) = Len(words) + 1
        /\ Append(words, word)[Len(words) + 1] = word /\ Len(words) \in Nat
        /\ \A i \in 1 .. Len(words) : Append(words, word)[i] = words[i]
    BY Appended
  <2> QED BY <1>1, <1>2, <2>1
<1>4. PICK new : new = [old EXCEPT ![n] = longer]
  OBVIOUS
<1>5. PICK wanted : wanted = Append(words, longer)
  OBVIOUS
<1>6. /\ IsSeq(wanted) /\ Len(wanted) = n /\ wanted[n] = longer
      /\ \A i \in 1 .. Len(words) : wanted[i] = words[i]
  <2>1. /\ IsSeq(Append(words, longer)) /\ Len(Append(words, longer)) = Len(words) + 1
        /\ Append(words, longer)[Len(words) + 1] = longer
        /\ \A i \in 1 .. Len(words) : Append(words, longer)[i] = words[i]
    BY Appended
  <2> QED BY <1>1, <1>5, <2>1
<1>7. n \in 1 .. n /\ n \in Nat
  BY <1>1, <1>3
<1>8. PICK A : old \in Seq(A) /\ wanted \in Seq(A)
  BY <1>3, <1>6, Together
<1>9. longer \in A
  BY <1>6, <1>7, <1>8, ElementOfSeq
<1>10. /\ new \in Seq(A) /\ Len(new) = n
       /\ \A j \in 1 .. n : new[j] = IF j = n THEN longer ELSE old[j]
  BY <1>3, <1>4, <1>7, <1>8, <1>9, ExceptSeq
<1>11. ASSUME NEW i \in 1 .. n
       PROVE  new[i] = wanted[i]
  <2>1. i # n => i \in 1 .. Len(words)
    BY <1>1, <1>3
  <2> QED BY <1>3, <1>6, <1>10, <2>1
<1>12. new = wanted
  BY <1>6, <1>8, <1>10, <1>11, SeqEqual
<1> QED BY <1>2, <1>3, <1>4, <1>5, <1>12

\* A character is put behind the last word.
LEMMA WentGrows ==
  ASSUME NEW r, Shaped(r), NEW c
  PROVE  Grew(r, Went(r, c), c) /\ DOMAIN Went(r, c) = Fields
<1>1. /\ Went(r, c).words =
           [r.words EXCEPT ![Len(r.words)] = Append(r.words[Len(r.words)], c)]
      /\ DOMAIN Went(r, c) = Fields
  BY DEF Went, Shaped, Fields
<1>2. PICK before : before = r.words
  OBVIOUS
<1>3. PICK after : after = Went(r, c).words
  OBVIOUS
<1>4. after = [before EXCEPT ![Len(before)] = Append(before[Len(before)], c)]
  BY <1>1, <1>2, <1>3
<1>5. ASSUME NEW words, NEW word, IsSeq(words), before = Append(words, word)
      PROVE  after = Append(words, Append(word, c))
  <2>1. PICK longer : longer = Append(word, c)
    OBVIOUS
  <2>2. /\ [before EXCEPT ![Len(before)] = longer] = Append(words, longer)
        /\ before[Len(before)] = word
    BY <1>5, LastLonger, Zenon
  <2> QED BY <1>4, <2>1, <2>2, Zenon
<1> QED BY <1>1, <1>2, <1>3, <1>5, Zenon DEF Grew

\* The words are a sequence still.
LEMMA WentWords ==
  ASSUME NEW r, Shaped(r), NEW c, IsSeq(r.words)
  PROVE  IsSeq(Went(r, c).words)
<1>1. Went(r, c).words = [r.words EXCEPT ![Len(r.words)] = Append(r.words[Len(r.words)], c)]
  BY DEF Went, Shaped, Fields
<1>2. PICK S : r.words \in Seq(S)
  BY DEF IsSeq
<1> DEFINE new == Append(r.words[Len(r.words)], c)
           T == S \cup {new}
<1>3. r.words \in [1 .. Len(r.words) -> T] /\ Len(r.words) \in Nat /\ new \in T
  BY <1>2, LenProperties
<1> HIDE DEF new, T
<1>4. Went(r, c).words \in [1 .. Len(r.words) -> T]
  BY <1>1, <1>3 DEF new
<1>5. Went(r, c).words \in Seq(T)
  BY <1>3, <1>4, SeqDef
<1> QED BY <1>5 DEF IsSeq

\* A token begins with a character as its word.
LEMMA BeganWord ==
  ASSUME NEW r, Shaped(r), NEW mode, NEW c
  PROVE  /\ DOMAIN Began(r, mode, c) = Fields
         /\ Began(r, mode, c).words = Append(r.words, <<c>>)
BY DEF Began, Shaped, Fields

\* In a comment only braces matter.
LEMMA ReadInComment ==
  ASSUME NEW r, Shaped(r), r.comment > 0, NEW c
  PROVE  Says(ReadCharacter(r, c), r.mode,
              IF c = OpenBrace THEN r.comment + 1
              ELSE IF c = CloseBrace THEN r.comment - 1 ELSE r.comment,
              r.lambdas, r.closing, r.wrong)
         /\ Same(r, ReadCharacter(r, c))
<1>1. ReadCharacter(r, c) =
        [r EXCEPT !.comment = IF c = OpenBrace THEN @ + 1
                              ELSE IF c = CloseBrace THEN @ - 1 ELSE @]
  BY DEF ReadCharacter
<1> QED BY <1>1 DEF Says, Same, Fields, Shaped

\* In a string only its end does.
LEMMA ReadInString ==
  ASSUME NEW r, Shaped(r), r.comment = 0, r.mode = "string", NEW c
  PROVE  /\ Says(ReadCharacter(r, c), IF c = Quote THEN "code" ELSE "string",
                 0, r.lambdas, r.closing, r.wrong)
         /\ Grew(r, ReadCharacter(r, c), c)
<1>1. Says(Went(r, c), r.mode, 0, r.lambdas, r.closing, r.wrong)
  BY DEF Went, Says, Fields, Shaped
<1>2. ReadCharacter(r, c) = [Went(r, c) EXCEPT !.mode = IF c = Quote THEN "code" ELSE @]
  BY DEF ReadCharacter
<1>3. ReadCharacter(r, c).words = Went(r, c).words
  BY <1>1, <1>2 DEF Says, Fields
<1>4. Grew(r, ReadCharacter(r, c), c)
  <2>1. Grew(r, Went(r, c), c)
    BY WentGrows
  <2> QED BY <1>3, <2>1, Zenon DEF Grew
<1> QED BY <1>1, <1>2, <1>4 DEF Says, Fields

\* A word or a number goes on.
LEMMA ReadGoing ==
  ASSUME NEW r, Shaped(r), r.comment = 0, NEW c, Goes(r, c)
  PROVE  /\ Says(ReadCharacter(r, c), r.mode, 0, r.lambdas, r.closing, r.wrong)
         /\ Grew(r, ReadCharacter(r, c), c)
<1>1. r.mode # "string" /\ ~(r.comment > 0)
  BY DEF Goes
<1>2. ReadCharacter(r, c) = Went(r, c)
  BY <1>1 DEF ReadCharacter
<1>3. Grew(r, ReadCharacter(r, c), c)
  BY <1>2, WentGrows
<1> QED BY <1>2, <1>3 DEF Went, Says, Fields, Shaped

\* A character that begins something.
LEMMA ReadFree ==
  ASSUME NEW r, NEW c, Free(r, c)
  PROVE  ReadCharacter(r, c) = ReadOn(r, c)
BY DEF Free, ReadCharacter

\* It begins one thing.
LEMMA OneKind ==
  ASSUME NEW c
  PROVE  /\ c \in Spaces => c \notin Expected
         /\ c \in Digits =>
              c \notin DOMAIN Operators \cup Letters \cup {OpenBrace, Quote, "[", "]"}
         /\ c \in Letters => c \notin DOMAIN Operators \cup {OpenBrace, Quote, "[", "]"}
         /\ c \in DOMAIN Operators => c \notin {OpenBrace, Quote}
         /\ c \in {OpenBrace, CloseBrace, Quote} =>
              c \notin Letters \cup Digits \cup DOMAIN Operators
         /\ c \in {"[", "]"} => c \in DOMAIN Operators
         /\ c \notin Expected => c \notin DOMAIN Operators \cup Letters \cup Digits
         /\ c \notin Expected => c \notin {OpenBrace, Quote, "[", "]"}
         /\ OpenBrace # CloseBrace /\ OpenBrace # Quote
<1>1. "[" \in DOMAIN Operators /\ "]" \in DOMAIN Operators
      /\ DOMAIN Operators \cap (Spaces \cup Digits \cup {OpenBrace, CloseBrace, Quote}) = {}
  BY OperatorsAre
<1>2. /\ Letters \cap (Digits \cup Spaces \cup DOMAIN Operators) = {}
      /\ Letters \cap {OpenBrace, CloseBrace, Quote} = {}
  BY CharactersAssumption
<1>3. /\ Spaces \cap (Digits \cup {OpenBrace, CloseBrace, Quote}) = {}
      /\ Digits \cap {OpenBrace, CloseBrace, Quote} = {}
      /\ OpenBrace # CloseBrace /\ OpenBrace # Quote
  BY DEF Spaces, Digits, Quote, OpenBrace, CloseBrace
<1> QED BY <1>1, <1>2, <1>3 DEF Expected

\* A blank is nothing.
LEMMA ReadSpace ==
  ASSUME NEW r, Shaped(r), NEW c, c \in Spaces, Free(r, c)
  PROVE  /\ Says(ReadCharacter(r, c), "code", 0, r.lambdas, r.closing, r.wrong)
         /\ Same(r, ReadCharacter(r, c))
<1>1. ReadCharacter(r, c) = [r EXCEPT !.mode = "code"]
  BY ReadFree, OneKind DEF ReadOn, Expected
<1> QED BY <1>1 DEF Says, Same, Fields, Shaped, Free

\* A comment begins.
LEMMA ReadComment ==
  ASSUME NEW r, Shaped(r), NEW c, c = OpenBrace, Free(r, c)
  PROVE  /\ Says(ReadCharacter(r, c), "code", 1, r.lambdas, r.closing, r.wrong)
         /\ Same(r, ReadCharacter(r, c))
<1>1. ReadCharacter(r, c) = [r EXCEPT !.mode = "code", !.comment = 1]
  BY ReadFree, OneKind DEF ReadOn, Expected
<1> QED BY <1>1 DEF Says, Same, Fields, Shaped, Free

\* A string begins.
LEMMA ReadQuote ==
  ASSUME NEW r, Shaped(r), NEW c, c = Quote, Free(r, c)
  PROVE  /\ Says(ReadCharacter(r, c), "string", 0, r.lambdas, FALSE, r.wrong)
         /\ Begun(r, ReadCharacter(r, c), c)
<1>1. ReadCharacter(r, c) = Began(r, "string", c)
  BY ReadFree, OneKind DEF ReadOn, Expected
<1>2. Begun(r, ReadCharacter(r, c), c)
  BY <1>1, BeganWord DEF Begun
<1> QED BY <1>1, <1>2 DEF Began, Says, Fields, Shaped, Free

\* A number begins.
LEMMA ReadDigit ==
  ASSUME NEW r, Shaped(r), NEW c, c \in Digits, Free(r, c)
  PROVE  /\ Says(ReadCharacter(r, c), "number", 0, r.lambdas, FALSE, r.wrong)
         /\ Begun(r, ReadCharacter(r, c), c)
<1>1. ReadCharacter(r, c) = Began(r, "number", c)
  BY ReadFree, OneKind DEF ReadOn, Expected
<1>2. Begun(r, ReadCharacter(r, c), c)
  BY <1>1, BeganWord DEF Begun
<1> QED BY <1>1, <1>2 DEF Began, Says, Fields, Shaped, Free

\* A word begins.
LEMMA ReadLetter ==
  ASSUME NEW r, Shaped(r), NEW c, c \in Letters, Free(r, c)
  PROVE  /\ Says(ReadCharacter(r, c), "word", 0, r.lambdas, FALSE, r.wrong)
         /\ Begun(r, ReadCharacter(r, c), c)
<1>1. ReadCharacter(r, c) = Began(r, "word", c)
  BY ReadFree, OneKind DEF ReadOn, Expected
<1>2. Begun(r, ReadCharacter(r, c), c)
  BY <1>1, BeganWord DEF Begun
<1> QED BY <1>1, <1>2 DEF Began, Says, Fields, Shaped, Free

\* A token of one character that is nothing else.
LEMMA ReadSimple ==
  ASSUME NEW r, Shaped(r), NEW c, c \in DOMAIN Operators \ {"[", "]"}, Free(r, c)
  PROVE  /\ Says(ReadCharacter(r, c), "code", 0, r.lambdas, FALSE, r.wrong)
         /\ Begun(r, ReadCharacter(r, c), c)
<1>1. ReadCharacter(r, c) = Began(r, "code", c)
  BY ReadFree, OneKind DEF ReadOn, Expected
<1>2. Begun(r, ReadCharacter(r, c), c)
  BY <1>1, BeganWord DEF Begun
<1> QED BY <1>1, <1>2 DEF Began, Says, Fields, Shaped, Free

\* A lambda is opened.
LEMMA ReadOpening ==
  ASSUME NEW r, Shaped(r), NEW c, c = "[", Free(r, c)
  PROVE  /\ Says(ReadCharacter(r, c), "code", 0, r.lambdas + 1, FALSE, r.wrong)
         /\ Begun(r, ReadCharacter(r, c), c)
<1>1. ReadCharacter(r, c) = [Began(r, "code", c) EXCEPT !.lambdas = @ + 1]
  BY ReadFree, OneKind DEF ReadOn, Expected
<1>2. Begun(r, ReadCharacter(r, c), c)
  BY <1>1, BeganWord DEF Begun, Fields
<1> QED BY <1>1, <1>2 DEF Began, Says, Fields, Shaped, Free

\* A lambda is closed, if there is one.
LEMMA ReadClosing ==
  ASSUME NEW r, Shaped(r), NEW c, c = "]", Free(r, c)
  PROVE  /\ Says(ReadCharacter(r, c), "code", 0, r.lambdas - 1, TRUE,
                 r.wrong \/ r.lambdas = 0)
         /\ Begun(r, ReadCharacter(r, c), c)
<1>1. ReadOn(r, c) = [Began(r, "code", c) EXCEPT !.lambdas = @ - 1, !.closing = TRUE,
                                                 !.wrong = @ \/ r.lambdas = 0]
  BY OneKind DEF ReadOn, Expected
<1>2. Says(Began(r, "code", c), "code", 0, r.lambdas, FALSE, r.wrong)
  BY DEF Began, Says, Fields, Shaped, Free
<1>3. PICK b : b = Began(r, "code", c)
  OBVIOUS
<1>4. PICK q : q = ReadCharacter(r, c)
  OBVIOUS
<1>5. DOMAIN b = Fields
  BY <1>2, <1>3 DEF Says
<1>6. q = [b EXCEPT !.lambdas = b.lambdas - 1, !.closing = TRUE,
                    !.wrong = b.wrong \/ r.lambdas = 0]
  BY <1>1, <1>3, <1>4, ReadFree
<1>7. /\ DOMAIN q = Fields /\ q.mode = b.mode /\ q.comment = b.comment
      /\ q.lambdas = b.lambdas - 1
  BY <1>5, <1>6 DEF Fields
<1>8. q.closing = TRUE /\ q.wrong = (b.wrong \/ r.lambdas = 0)
  BY <1>5, <1>6 DEF Fields
<1>9. q.closing /\ (q.wrong <=> b.wrong \/ r.lambdas = 0)
  BY <1>8
<1>10. q.words = b.words
  BY <1>5, <1>6 DEF Fields
<1>11. Begun(r, ReadCharacter(r, c), c)
  BY <1>3, <1>4, <1>10, BeganWord DEF Begun
<1> QED BY <1>2, <1>3, <1>4, <1>7, <1>9, <1>11 DEF Says

\* Everything else is wrong.
LEMMA ReadUnexpected ==
  ASSUME NEW r, Shaped(r), NEW c, c \notin Expected \cup Spaces, Free(r, c)
  PROVE  /\ Says(ReadCharacter(r, c), r.mode, 0, r.lambdas, r.closing, TRUE)
         /\ Same(r, ReadCharacter(r, c))
<1>1. ReadCharacter(r, c) = [r EXCEPT !.wrong = TRUE]
  BY ReadFree, OneKind DEF ReadOn
<1> QED BY <1>1 DEF Says, Same, Fields, Shaped, Free

\* What is wrong stays wrong.
LEMMA ReadKeeps ==
  ASSUME NEW r, Shaped(r), NEW c
  PROVE  LET q == ReadCharacter(r, c) IN Shaped(q) /\ (r.wrong => q.wrong)
<1>1. CASE r.comment > 0
  <2> DEFINE n == IF c = OpenBrace THEN r.comment + 1
                  ELSE IF c = CloseBrace THEN r.comment - 1 ELSE r.comment
  <2>1. Says(ReadCharacter(r, c), r.mode, n, r.lambdas, r.closing, r.wrong)
    BY <1>1, ReadInComment
  <2>2. n \in Nat /\ r.lambdas \in Int
    <3>1. r.comment \in Nat /\ r.comment + 1 \in Nat /\ r.comment - 1 \in Nat
          /\ r.lambdas \in Int
      BY <1>1 DEF Shaped
    <3> QED BY <3>1
  <2> HIDE DEF n
  <2> QED BY <2>1, <2>2 DEF Says, Shaped
<1>2. CASE ~(r.comment > 0)
  <2>1. r.comment = 0
    BY <1>2 DEF Shaped
  <2>2. CASE r.mode = "string"
    BY <2>1, <2>2, ReadInString DEF Says, Shaped
  <2>3. CASE r.mode # "string" /\ Goes(r, c)
    BY <2>1, <2>3, ReadGoing DEF Says, Shaped
  <2>4. CASE r.mode # "string" /\ ~Goes(r, c)
    <3>1. Free(r, c)
      BY <2>1, <2>4 DEF Free
    <3>2. CASE c \in Spaces
      BY <3>1, <3>2, ReadSpace DEF Says, Shaped
    <3>3. CASE c = OpenBrace
      <4>1. Says(ReadCharacter(r, c), "code", 1, r.lambdas, r.closing, r.wrong)
        BY <3>1, <3>3, ReadComment
      <4> QED BY <4>1 DEF Says, Shaped
    <3>4. CASE c = Quote
      <4>1. Says(ReadCharacter(r, c), "string", 0, r.lambdas, FALSE, r.wrong)
        BY <3>1, <3>4, ReadQuote
      <4> QED BY <4>1 DEF Says, Shaped
    <3>5. CASE c \in Digits
      BY <3>1, <3>5, ReadDigit DEF Says, Shaped
    <3>6. CASE c \in Letters
      BY <3>1, <3>6, ReadLetter DEF Says, Shaped
    <3>7. CASE c \in DOMAIN Operators
      <4>1. CASE c = "["
        BY <3>1, <4>1, ReadOpening DEF Says, Shaped
      <4>2. CASE c = "]"
        BY <3>1, <4>2, ReadClosing DEF Says, Shaped
      <4>3. CASE c \notin {"[", "]"}
        BY <3>1, <3>7, <4>3, ReadSimple DEF Says, Shaped
      <4> QED BY <4>1, <4>2, <4>3
    <3>8. CASE c \notin Expected \cup Spaces
      BY <3>1, <3>8, ReadUnexpected DEF Says, Shaped
    <3> QED BY <3>2, <3>3, <3>4, <3>5, <3>6, <3>7, <3>8 DEF Expected
  <2> QED BY <2>2, <2>3, <2>4
<1> QED BY <1>1, <1>2

\* What was read are words after every character.
LEMMA ReadWords ==
  ASSUME NEW r, Shaped(r), NEW c, IsSeq(r.words)
  PROVE  IsSeq(ReadCharacter(r, c).words)
<1>1. PICK q : q = ReadCharacter(r, c)
  OBVIOUS
<1>2. CASE Same(r, q)
  BY <1>1, <1>2 DEF Same
<1>a. IsSeq(Append(r.words, <<c>>))
  BY AppendFacts
<1>3. CASE Begun(r, q, c)
  BY <1>1, <1>3, <1>a DEF Begun
<1>4. CASE q = Went(r, c) \/ q = [Went(r, c) EXCEPT !.mode = "code"]
  <2>1. q.words = Went(r, c).words
    BY <1>4, WentGrows DEF Fields
  <2> QED BY <1>1, <2>1, WentWords
<1>5. CASE r.comment > 0
  BY <1>1, <1>2, <1>5, ReadInComment
<1>6. CASE ~(r.comment > 0)
  <2>1. r.comment = 0
    BY <1>6 DEF Shaped
  <2>2. CASE r.mode = "string"
    <3>1. q = [Went(r, c) EXCEPT !.mode = IF c = Quote THEN "code" ELSE @]
      BY <1>1, <1>6, <2>2 DEF ReadCharacter
    <3>2. DOMAIN Went(r, c) = Fields
      BY WentGrows
    <3>3. q.words = Went(r, c).words
      BY <3>1, <3>2 DEF Fields
    <3> QED BY <1>1, <3>3, WentWords
  <2>3. CASE r.mode # "string" /\ Goes(r, c)
    BY <1>1, <1>4, <1>6, <2>3 DEF ReadCharacter
  <2>4. CASE r.mode # "string" /\ ~Goes(r, c)
    <3>1. Free(r, c)
      BY <2>1, <2>4 DEF Free
    <3>2. CASE c \in Spaces
      BY <1>1, <1>2, <3>1, <3>2, ReadSpace
    <3>3. CASE c = OpenBrace
      BY <1>1, <1>2, <3>1, <3>3, ReadComment
    <3>4. CASE c = Quote
      BY <1>1, <1>3, <3>1, <3>4, ReadQuote
    <3>5. CASE c \in Digits
      BY <1>1, <1>3, <3>1, <3>5, ReadDigit
    <3>6. CASE c \in Letters
      BY <1>1, <1>3, <3>1, <3>6, ReadLetter
    <3>7. CASE c \in DOMAIN Operators
      <4>1. CASE c = "["
        BY <1>1, <1>3, <3>1, <4>1, ReadOpening
      <4>2. CASE c = "]"
        BY <1>1, <1>3, <3>1, <4>2, ReadClosing
      <4>3. CASE c \notin {"[", "]"}
        BY <1>1, <1>3, <3>1, <3>7, <4>3, ReadSimple
      <4> QED BY <4>1, <4>2, <4>3
    <3>8. CASE c \notin Expected \cup Spaces
      BY <1>1, <1>2, <3>1, <3>8, ReadUnexpected
    <3> QED BY <3>2, <3>3, <3>4, <3>5, <3>6, <3>7, <3>8 DEF Expected
  <2> QED BY <2>2, <2>3, <2>4
<1> QED BY <1>5, <1>6

\* What holds at the first position, and at the next whenever it holds at one,
\* holds up to the last.
LEMMA Along ==
  ASSUME NEW i \in Nat, NEW j \in Nat, NEW S, i \in S,
         \A k \in i .. j - 1 : k \in S => k + 1 \in S
  PROVE  \A k \in i .. j : k \in S
<1> DEFINE Bad == {k \in i .. j : k \notin S}
<1> SUFFICES ASSUME Bad # {}
             PROVE  FALSE
  OBVIOUS
<1>1. PICK m \in Bad : \A y \in Bad : m <= y
  <2>1. Bad \in SUBSET Nat
    OBVIOUS
  <2> HIDE DEF Bad
  <2> QED BY <2>1, LeastNatural
<1>2. m \in i .. j /\ m \notin S /\ m # i
  BY <1>1
<1>3. m - 1 \in i .. j - 1 /\ m - 1 \in i .. j /\ ~(m <= m - 1) /\ (m - 1) + 1 = m
  BY <1>2
<1>4. m - 1 \in S
  BY <1>1, <1>3
<1> QED BY <1>2, <1>3, <1>4

\* The readings are what their definition says.
LEMMA ReadingsAre ==
  ASSUME source \in Seq(STRING)
  PROVE  /\ Length \in Nat /\ R(0) = Unread
         /\ \A k \in 0 .. Length - 1 : R(k + 1) = ReadCharacter(R(k), At(k))
<1> DEFINE Is(f, k) == f = [n \in 0 .. k |-> IF n = 0 THEN Unread
                                             ELSE ReadCharacter(f[n - 1], source[n])]
           Good == {k \in Nat : \E f : Is(f, k)}
<1>0. Length \in Nat
  BY LenProperties DEF Length
<1>1. 0 \in Good
  <2>1. Is([n \in 0 .. 0 |-> Unread], 0)
    OBVIOUS
  <2> QED BY <2>1
<1>2. ASSUME NEW k \in Nat, k \in Good
      PROVE  k + 1 \in Good
  <2>1. PICK f : Is(f, k)
    BY <1>2
  <2> DEFINE g == [n \in 0 .. k + 1 |->
                     IF n = k + 1 THEN ReadCharacter(f[k], source[k + 1]) ELSE f[n]]
  <2>2. ASSUME NEW n \in 0 .. k + 1
        PROVE  g[n] = IF n = 0 THEN Unread ELSE ReadCharacter(g[n - 1], source[n])
    <3>1. CASE n = k + 1
      <4>1. g[n] = ReadCharacter(f[k], source[k + 1])
        BY <3>1
      <4>2. g[k] = f[k] /\ n # 0 /\ n - 1 = k
        BY <3>1
      <4> HIDE DEF g
      <4> QED BY <3>1, <4>1, <4>2
    <3>2. CASE n # k + 1
      <4>1. g[n] = f[n] /\ n \in 0 .. k
        BY <3>2
      <4>2. n # 0 => g[n - 1] = f[n - 1]
        BY <4>1
      <4>3. f[n] = IF n = 0 THEN Unread ELSE ReadCharacter(f[n - 1], source[n])
        BY <2>1, <4>1
      <4> HIDE DEF g
      <4> QED BY <4>1, <4>2, <4>3
    <3> QED BY <3>1, <3>2
  <2>3. Is(g, k + 1)
    BY <2>2
  <2> HIDE DEF g, Is
  <2>4. k + 1 \in Nat /\ \E h : Is(h, k + 1)
    BY <2>3
  <2> QED BY <2>4
<1>3. Length \in Good
  <2> HIDE DEF Good
  <2>1. \A k \in 0 .. Length - 1 : k \in Good => k + 1 \in Good
    BY <1>0, <1>2
  <2>2. \A k \in 0 .. Length : k \in Good
    BY <1>0, <1>1, <2>1, Along
  <2> QED BY <1>0, <2>2
<1> DEFINE read == CHOOSE f : Is(f, Length)
<1>4. Is(read, Length)
  BY <1>3
<1>5. Readings(source) = read
  BY DEF Readings, Length
<1>6. ASSUME NEW n \in 0 .. Length
      PROVE  R(n) = IF n = 0 THEN Unread ELSE ReadCharacter(R(n - 1), source[n])
  <2> HIDE DEF read
  <2> QED BY <1>4, <1>5 DEF R
<1> HIDE DEF read
<1>7. R(0) = Unread
  BY <1>0, <1>6
<1>8. ASSUME NEW k \in 0 .. Length - 1
      PROVE  R(k + 1) = ReadCharacter(R(k), At(k))
  <2>1. k + 1 \in 0 .. Length /\ k + 1 # 0 /\ (k + 1) - 1 = k
    BY <1>0
  <2> QED BY <1>6, <2>1 DEF At
<1> QED BY <1>0, <1>7, <1>8

\* Every reading is one, and what was wrong at one position is so behind it.
LEMMA ReadingsOK ==
  ASSUME source \in Seq(STRING)
  PROVE  /\ \A k \in 0 .. Length : Shaped(R(k))
         /\ \A j \in 0 .. Length : R(j).wrong => R(Length).wrong
<1>0. /\ Length \in Nat /\ R(0) = Unread
      /\ \A k \in 0 .. Length - 1 : R(k + 1) = ReadCharacter(R(k), At(k))
  BY ReadingsAre
<1>1. \A k \in 0 .. Length : Shaped(R(k))
  <2> DEFINE S == {k \in 0 .. Length : Shaped(R(k))}
  <2>1. 0 \in S
    BY <1>0 DEF Unread, Shaped, Fields
  <2>2. ASSUME NEW k \in 0 .. Length - 1, k \in S
        PROVE  k + 1 \in S
    <3>1. Shaped(R(k)) /\ k + 1 \in 0 .. Length
      BY <1>0, <2>2
    <3> QED BY <1>0, <3>1, ReadKeeps
  <2>3. \A k \in 0 .. Length : k \in S
    <3> HIDE DEF S
    <3> QED BY <1>0, <2>1, <2>2, Along
  <2> QED BY <2>3
<1>2. ASSUME NEW j \in 0 .. Length, R(j).wrong
      PROVE  R(Length).wrong
  <2> DEFINE S == {k \in 0 .. Length : R(k).wrong}
  <2>1. j \in S
    BY <1>2
  <2>2. ASSUME NEW k \in j .. Length - 1, k \in S
        PROVE  k + 1 \in S
    <3>1. Shaped(R(k)) /\ R(k).wrong /\ k \in 0 .. Length - 1 /\ k + 1 \in 0 .. Length
      BY <1>0, <1>1, <2>2
    <3> QED BY <1>0, <3>1, ReadKeeps
  <2>3. \A k \in j .. Length : k \in S
    <3> HIDE DEF S
    <3>1. \A k \in j .. Length - 1 : k \in S => k + 1 \in S
      BY <2>2
    <3>2. j \in Nat
      BY <1>0
    <3> QED BY <1>0, <2>1, <3>1, <3>2, Along
  <2>4. Length \in j .. Length
    BY <1>0
  <2> QED BY <2>3, <2>4
<1> QED BY <1>1, <1>2

\* The words are a sequence.
LEMMA WordsAre ==
  ASSUME source \in Seq(STRING)
  PROVE  \A k \in 0 .. Length : IsSeq(R(k).words)
<1>0. /\ Length \in Nat /\ R(0) = Unread
      /\ \A k \in 0 .. Length - 1 : R(k + 1) = ReadCharacter(R(k), At(k))
      /\ \A k \in 0 .. Length : Shaped(R(k))
  BY ReadingsAre, ReadingsOK
<1> DEFINE S == {k \in 0 .. Length : IsSeq(R(k).words)}
<1>1. 0 \in S
  BY <1>0, TheEmptySeq DEF Unread
<1>2. ASSUME NEW k \in 0 .. Length - 1, k \in S
      PROVE  k + 1 \in S
  <2>1. /\ Shaped(R(k)) /\ k + 1 \in 0 .. Length /\ IsSeq(R(k).words)
        /\ R(k + 1) = ReadCharacter(R(k), At(k))
    BY <1>0, <1>2
  <2>2. IsSeq(R(k + 1).words)
    BY <2>1, ReadWords
  <2> QED BY <2>1, <2>2
<1>3. \A k \in 0 .. Length : k \in S
  <2> HIDE DEF S
  <2> QED BY <1>0, <1>1, <1>2, Along
<1> QED BY <1>3

-----------------------------------------------------------------------------
(* The scanner's loops, read one character at a time.                      *)

\* The next character, if there is one, begins something.
Clear(k) ==
  /\ R(k).comment = 0 /\ R(k).mode # "string"
  /\ k = Length \/ ~Goes(R(k), At(k))

\* What a reading says of the lambdas, where the next character is free.
Lexed(k, lambdas, closing, wrong) ==
  /\ Clear(k)
  /\ R(k).lambdas = lambdas /\ (R(k).closing <=> closing) /\ (R(k).wrong <=> wrong)

\* A loop stops at the first character that makes it stop.
LEMMA AfterIs ==
  ASSUME Length \in Nat, NEW i \in 0 .. Length, NEW chars
  PROVE  /\ After(chars, i) \in i .. Length
         /\ \A k \in i .. After(chars, i) - 1 : At(k) \in chars
         /\ After(chars, i) = Length \/ At(After(chars, i)) \notin chars
<1> DEFINE S == {j \in i .. Length : j = Length \/ At(j) \notin chars}
<1>1. S \in SUBSET Nat /\ Length \in S
  OBVIOUS
<1>2. PICK m \in S : \A y \in S : m <= y
  <2> HIDE DEF S
  <2> QED BY <1>1, LeastNatural
<1>3. Min(S) \in S /\ \A y \in S : Min(S) <= y
  <2> HIDE DEF S
  <2> QED BY <1>2 DEF Min
<1>4. After(chars, i) = Min(S)
  BY DEF After
<1>5. PICK a : a = Min(S)
  OBVIOUS
<1>6. a \in i .. Length /\ (a = Length \/ At(a) \notin chars)
  BY <1>3, <1>5
<1>7. ASSUME NEW k \in i .. a - 1
      PROVE  At(k) \in chars
  <2>1. k \in i .. Length /\ ~(a <= k) /\ k \in Int /\ k # Length
    BY <1>6
  <2>2. k \notin S
    BY <1>3, <1>5, <2>1
  <2> QED BY <2>1, <2>2
<1> HIDE DEF S
<1> QED BY <1>4, <1>5, <1>6, <1>7

\* So does a search.
LEMMA FindIs ==
  ASSUME Length \in Nat, NEW i \in 0 .. Length, NEW char
  PROVE  /\ Find(char, i) \in i .. Length
         /\ \A k \in i .. Find(char, i) - 1 : At(k) # char
         /\ Find(char, i) = Length \/ At(Find(char, i)) = char
<1> DEFINE S == {j \in i .. Length : j = Length \/ At(j) = char}
<1>1. S \in SUBSET Nat /\ Length \in S
  OBVIOUS
<1>2. PICK m \in S : \A y \in S : m <= y
  <2> HIDE DEF S
  <2> QED BY <1>1, LeastNatural
<1>3. Min(S) \in S /\ \A y \in S : Min(S) <= y
  <2> HIDE DEF S
  <2> QED BY <1>2 DEF Min
<1>4. Find(char, i) = Min(S)
  BY DEF Find
<1>5. PICK a : a = Min(S)
  OBVIOUS
<1>6. a \in i .. Length /\ (a = Length \/ At(a) = char)
  BY <1>3, <1>5
<1>7. ASSUME NEW k \in i .. a - 1
      PROVE  At(k) # char
  <2>1. k \in i .. Length /\ ~(a <= k) /\ k \in Int /\ k # Length
    BY <1>6
  <2>2. k \notin S
    BY <1>3, <1>5, <2>1
  <2> QED BY <2>1, <2>2
<1> HIDE DEF S
<1> QED BY <1>4, <1>5, <1>6, <1>7

\* A text is made longer a character at a time.
LEMMA TextGrows ==
  ASSUME source \in Seq(STRING), NEW i \in Nat, NEW k \in 0 .. Length - 1, i <= k
  PROVE  /\ Append(Text(i, k), At(k)) = Text(i, k + 1)
         /\ Text(k, k + 1) = <<At(k)>>
<1>1. Length \in Nat /\ Len(source) = Length
  BY ReadingsAre DEF Length
<1>2. i + 1 \in 1 .. Len(source) /\ k + 1 \in i + 1 .. Len(source) /\ (k + 1) - 1 = k
      /\ k + 1 \in 1 .. Len(source) /\ k + 1 \in k + 1 .. Len(source)
  BY <1>1
<1>3. PICK here : here = Text(i, k)
  OBVIOUS
<1>4. IsSeq(here)
  <2>1. \A j \in i + 1 .. k : source[j] \in STRING
    <3>1. \A j \in i + 1 .. k : j \in 1 .. Len(source)
      BY <1>1
    <3> QED BY <3>1, ElementOfSeq
  <2>2. i + 1 \in Int /\ k \in Int
    BY <1>1
  <2>3. here \in Seq(STRING)
    BY <1>3, <2>1, <2>2, SubSeqProperties DEF Text
  <2> QED BY <2>3 DEF IsSeq
<1>5. Text(i, k + 1) = here \o <<At(k)>>
  BY <1>2, <1>3, SubSeqRecursiveSecond DEF Text, At
<1>6. Append(here, At(k)) = here \o <<At(k)>>
  BY <1>4, AppendFacts
<1>7. Text(k, k + 1) = <<At(k)>>
  <2>1. k < k + 1 /\ k \in Int /\ k + 1 \in Int
    BY <1>1
  <2>2. SubSeq(source, k + 1, k + 1) = SubSeq(source, k + 1, k) \o <<source[k + 1]>>
    BY <1>2, SubSeqRecursiveSecond
  <2>3. SubSeq(source, k + 1, k) = <<>>
    BY <2>1, SubSeqEmpty
  <2>4. <<>> \o <<source[k + 1]>> = <<source[k + 1]>>
    BY AppendFacts, ConcatFacts, TheEmptySeq
  <2> QED BY <2>2, <2>3, <2>4 DEF Text, At
<1> QED BY <1>3, <1>5, <1>6, <1>7

\* If the last word is the text from somewhere up to one position, then it is
\* that up to another.
Spelling(i, k) ==
  \A words, from : IsSeq(words) /\ from \in 0 .. i
                     /\ R(i).words = Append(words, Text(from, i))
    => R(k).words = Append(words, Text(from, k))

\* That is carried along where a word goes on.
LEMMA SpellingGrows ==
  ASSUME source \in Seq(STRING), NEW i \in Nat, NEW k \in 0 .. Length - 1, i <= k,
         Spelling(i, k), Grew(R(k), R(k + 1), At(k))
  PROVE  Spelling(i, k + 1)
<1> SUFFICES ASSUME NEW words, NEW from, IsSeq(words), from \in 0 .. i,
                    R(i).words = Append(words, Text(from, i))
             PROVE  R(k + 1).words = Append(words, Text(from, k + 1))
  BY DEF Spelling
<1>1. R(k).words = Append(words, Text(from, k))
  BY DEF Spelling
<1>2. R(k + 1).words = Append(words, Append(Text(from, k), At(k)))
  BY <1>1, Zenon DEF Grew
<1>3. from \in Nat /\ from <= k
  BY ReadingsAre
<1>4. Append(Text(from, k), At(k)) = Text(from, k + 1)
  BY <1>3, TextGrows
<1> QED BY <1>2, <1>4

\* A character that begins something is free.
LEMMA ClearIsFree ==
  ASSUME source \in Seq(STRING), NEW k \in 0 .. Length, Clear(k), k # Length
  PROVE  /\ Free(R(k), At(k)) /\ Shaped(R(k)) /\ k + 1 \in 0 .. Length
         /\ R(k + 1) = ReadCharacter(R(k), At(k))
<1>1. Length \in Nat /\ k \in 0 .. Length - 1
  BY ReadingsAre
<1>2. R(k + 1) = ReadCharacter(R(k), At(k)) /\ Shaped(R(k)) /\ k + 1 \in 0 .. Length
  BY <1>1, ReadingsAre, ReadingsOK
<1>3. Free(R(k), At(k))
  BY DEF Clear, Free
<1> QED BY <1>2, <1>3

\* Behind a token of one character the next is free.
LEMMA CodeIsClear ==
  ASSUME NEW k, NEW lambdas, NEW closing, NEW wrong,
         Says(R(k), "code", 0, lambdas, closing, wrong)
  PROVE  Lexed(k, lambdas, closing, wrong)
BY DEF Says, Lexed, Clear, Goes

\* Skipping blanks changes nothing.
LEMMA Blanks ==
  ASSUME source \in Seq(STRING), NEW i \in 0 .. Length,
         NEW lambdas, NEW closing, NEW wrong, Lexed(i, lambdas, closing, wrong)
  PROVE  /\ Lexed(After(Spaces, i), lambdas, closing, wrong)
         /\ Same(R(i), R(After(Spaces, i)))
<1>1. Length \in Nat
  BY ReadingsAre
<1>2. PICK f : f = After(Spaces, i)
  OBVIOUS
<1>3. f \in i .. Length /\ \A k \in i .. f - 1 : At(k) \in Spaces
  BY <1>1, <1>2, AfterIs
<1> DEFINE S == {k \in 0 .. Length : /\ Lexed(k, lambdas, closing, wrong)
                                      /\ Same(R(i), R(k))}
<1>4. i \in S
  BY DEF Same
<1>5. ASSUME NEW k \in i .. f - 1, k \in S
      PROVE  k + 1 \in S
  <2>1. k \in 0 .. Length /\ k # Length /\ At(k) \in Spaces
    BY <1>1, <1>3
  <2>2. Lexed(k, lambdas, closing, wrong) /\ Same(R(i), R(k))
    BY <1>5
  <2>3. /\ Free(R(k), At(k)) /\ Shaped(R(k)) /\ k + 1 \in 0 .. Length
        /\ R(k + 1) = ReadCharacter(R(k), At(k))
    BY <2>1, <2>2, ClearIsFree DEF Lexed
  <2>4. /\ Says(R(k + 1), "code", 0, R(k).lambdas, R(k).closing, R(k).wrong)
        /\ Same(R(i), R(k + 1))
    BY <2>1, <2>2, <2>3, ReadSpace DEF Same
  <2>5. Says(R(k + 1), "code", 0, lambdas, closing, wrong)
    BY <2>2, <2>4 DEF Says, Lexed
  <2>6. Lexed(k + 1, lambdas, closing, wrong)
    BY <2>5, CodeIsClear
  <2> QED BY <2>3, <2>4, <2>6
<1>6. f \in S
  <2> HIDE DEF S
  <2>1. \A k \in i .. f - 1 : k \in S => k + 1 \in S
    BY <1>5
  <2>2. i \in Nat /\ f \in Nat /\ f \in i .. f
    BY <1>1, <1>3
  <2> QED BY <1>4, <2>1, <2>2, Along
<1> QED BY <1>2, <1>6

\* A word or a number is read on to its end.
LEMMA Runs ==
  ASSUME source \in Seq(STRING), NEW i \in 0 .. Length, NEW mode, NEW chars,
         \/ mode = "word" /\ chars = WordCharacters
         \/ mode = "number" /\ chars = Digits,
         NEW lambdas, NEW closing, NEW wrong,
         Says(R(i), mode, 0, lambdas, closing, wrong)
  PROVE  Lexed(After(chars, i), lambdas, closing, wrong) /\ Spelling(i, After(chars, i))
<1>1. Length \in Nat
  BY ReadingsAre
<1>2. PICK f : f = After(chars, i)
  OBVIOUS
<1>3. /\ f \in i .. Length /\ \A k \in i .. f - 1 : At(k) \in chars
      /\ f = Length \/ At(f) \notin chars
  BY <1>1, <1>2, AfterIs
<1> DEFINE S == {k \in 0 .. Length : /\ Says(R(k), mode, 0, lambdas, closing, wrong)
                                      /\ Spelling(i, k)}
<1>4. i \in S
  BY DEF Spelling
<1>5. ASSUME NEW k \in i .. f - 1, k \in S
      PROVE  k + 1 \in S
  <2>1. k \in 0 .. Length - 1 /\ k \in 0 .. Length /\ k + 1 \in 0 .. Length
        /\ At(k) \in chars /\ i \in Nat /\ i <= k
    BY <1>1, <1>3
  <2>2. Says(R(k), mode, 0, lambdas, closing, wrong) /\ Spelling(i, k)
    BY <1>5
  <2>3. R(k + 1) = ReadCharacter(R(k), At(k)) /\ Shaped(R(k))
    BY <2>1, ReadingsAre, ReadingsOK
  <2>4. Goes(R(k), At(k)) /\ R(k).comment = 0
    BY <2>1, <2>2 DEF Goes, Says
  <2>5. /\ Says(R(k + 1), R(k).mode, 0, R(k).lambdas, R(k).closing, R(k).wrong)
        /\ Grew(R(k), R(k + 1), At(k))
    BY <2>3, <2>4, ReadGoing
  <2>6. Says(R(k + 1), mode, 0, lambdas, closing, wrong)
    BY <2>2, <2>5 DEF Says
  <2>7. Spelling(i, k + 1)
    BY <2>1, <2>2, <2>5, SpellingGrows
  <2> QED BY <2>1, <2>6, <2>7
<1>6. f \in S
  <2> HIDE DEF S
  <2>1. \A k \in i .. f - 1 : k \in S => k + 1 \in S
    BY <1>5
  <2>2. i \in Nat /\ f \in Nat /\ f \in i .. f
    BY <1>1, <1>3
  <2> QED BY <1>4, <2>1, <2>2, Along
<1>7. Says(R(f), mode, 0, lambdas, closing, wrong) /\ Spelling(i, f)
  BY <1>6
<1>8. f = Length \/ ~Goes(R(f), At(f))
  BY <1>3, <1>7 DEF Says, Goes
<1> QED BY <1>2, <1>7, <1>8 DEF Says, Lexed, Clear

\* A string is read on to its end, or to the end of the source.
LEMMA Strings ==
  ASSUME source \in Seq(STRING), NEW i \in 0 .. Length,
         NEW lambdas, NEW closing, NEW wrong,
         Says(R(i), "string", 0, lambdas, closing, wrong)
  PROVE  IF Find(Quote, i) = Length THEN ~WellFormed(R(Length))
         ELSE /\ Lexed(Find(Quote, i) + 1, lambdas, closing, wrong)
              /\ Spelling(i, Find(Quote, i) + 1)
<1>1. Length \in Nat
  BY ReadingsAre
<1>2. PICK f : f = Find(Quote, i)
  OBVIOUS
<1>3. /\ f \in i .. Length /\ \A k \in i .. f - 1 : At(k) # Quote
      /\ f = Length \/ At(f) = Quote
  BY <1>1, <1>2, FindIs
<1>a. ASSUME NEW k \in 0 .. Length - 1, Says(R(k), "string", 0, lambdas, closing, wrong)
      PROVE  /\ Says(R(k + 1), IF At(k) = Quote THEN "code" ELSE "string",
                     0, lambdas, closing, wrong)
             /\ Grew(R(k), R(k + 1), At(k))
  <2>1. k \in 0 .. Length
    BY <1>1
  <2>2. R(k + 1) = ReadCharacter(R(k), At(k)) /\ Shaped(R(k))
    BY <2>1, ReadingsAre, ReadingsOK
  <2>3. R(k).comment = 0 /\ R(k).mode = "string"
    BY <1>a DEF Says
  <2>4. /\ Says(R(k + 1), IF At(k) = Quote THEN "code" ELSE "string",
                0, R(k).lambdas, R(k).closing, R(k).wrong)
        /\ Grew(R(k), R(k + 1), At(k))
    BY <2>2, <2>3, ReadInString
  <2> QED BY <1>a, <2>4 DEF Says
<1> DEFINE S == {k \in 0 .. Length : /\ Says(R(k), "string", 0, lambdas, closing, wrong)
                                      /\ Spelling(i, k)}
<1>4. i \in S
  BY DEF Spelling
<1>5. ASSUME NEW k \in i .. f - 1, k \in S
      PROVE  k + 1 \in S
  <2>1. k \in 0 .. Length - 1 /\ k + 1 \in 0 .. Length /\ At(k) # Quote
        /\ i \in Nat /\ i <= k
    BY <1>1, <1>3
  <2>2. Says(R(k), "string", 0, lambdas, closing, wrong) /\ Spelling(i, k)
    BY <1>5
  <2>3. /\ Says(R(k + 1), "string", 0, lambdas, closing, wrong)
        /\ Grew(R(k), R(k + 1), At(k))
    BY <1>a, <2>1, <2>2
  <2>4. Spelling(i, k + 1)
    BY <2>1, <2>2, <2>3, SpellingGrows
  <2> QED BY <2>1, <2>3, <2>4
<1>6. f \in S
  <2> HIDE DEF S
  <2>1. \A k \in i .. f - 1 : k \in S => k + 1 \in S
    BY <1>5
  <2>2. i \in Nat /\ f \in Nat /\ f \in i .. f
    BY <1>1, <1>3
  <2> QED BY <1>4, <2>1, <2>2, Along
<1>7. Says(R(f), "string", 0, lambdas, closing, wrong) /\ Spelling(i, f)
  BY <1>6
<1>8. CASE f = Length
  <2>1. R(Length).mode = "string"
    BY <1>7, <1>8 DEF Says
  <2> QED BY <1>2, <1>8, <2>1 DEF WellFormed
<1>9. CASE f # Length
  <2>1. f \in 0 .. Length - 1 /\ At(f) = Quote /\ i \in Nat /\ i <= f
    BY <1>1, <1>3, <1>9
  <2>2. /\ Says(R(f + 1), "code", 0, lambdas, closing, wrong)
        /\ Grew(R(f), R(f + 1), At(f))
    BY <1>7, <1>a, <2>1
  <2>3. Spelling(i, f + 1)
    BY <1>7, <2>1, <2>2, SpellingGrows
  <2>4. Lexed(f + 1, lambdas, closing, wrong)
    BY <2>2, CodeIsClear
  <2> QED BY <1>2, <1>9, <2>3, <2>4
<1> QED BY <1>8, <1>9

\* A character is counted where it is met.
LEMMA CountIs ==
  ASSUME NEW char, NEW i \in Nat, NEW k \in Nat, i <= k
  PROVE  /\ Count(char, i, i) = 0 /\ Count(char, i, k) \in Nat
         /\ Count(char, i, k + 1) = Count(char, i, k) + IF At(k) = char THEN 1 ELSE 0
<1> DEFINE Met(n) == {x \in i .. n - 1 : At(x) = char}
<1>1. Met(i) = {} /\ Count(char, i, i) = 0
  <2>1. Met(i) = {}
    OBVIOUS
  <2> QED BY <2>1, FS_EmptySet DEF Count
<1>2. IsFiniteSet(Met(k))
  <2>1. IsFiniteSet(i .. k - 1)
    BY FS_Interval
  <2> QED BY <2>1, FS_Subset
<1>3. /\ Count(char, i, k) = Cardinality(Met(k))
      /\ Count(char, i, k + 1) = Cardinality(Met(k + 1))
  BY DEF Count
<1>4. k \notin Met(k) /\ Met(k + 1) = IF At(k) = char THEN Met(k) \cup {k} ELSE Met(k)
  OBVIOUS
<1> HIDE DEF Met
<1>5. /\ Cardinality(Met(k)) \in Nat
      /\ Cardinality(Met(k) \cup {k}) = Cardinality(Met(k)) + 1
  BY <1>2, <1>4, FS_CardinalityType, FS_AddElement
<1> QED BY <1>1, <1>3, <1>4, <1>5

\* A comment is read on until its braces are balanced, or to the end of the
\* source.
LEMMA Comments ==
  ASSUME source \in Seq(STRING), NEW i \in 0 .. Length,
         NEW lambdas, NEW closing, NEW wrong,
         Says(R(i), "code", 1, lambdas, closing, wrong)
  PROVE  IF CommentEnds(i) = {} THEN ~WellFormed(R(Length))
         ELSE /\ Lexed(Min(CommentEnds(i)), lambdas, closing, wrong)
              /\ Same(R(i), R(Min(CommentEnds(i))))
<1>1. Length \in Nat /\ i \in Nat
  BY ReadingsAre
<1> DEFINE ends == CommentEnds(i)
           Nested(k) == 1 + Count(OpenBrace, i, k) - Count(CloseBrace, i, k)
           Is(k) == /\ Says(R(k), "code", Nested(k), lambdas, closing, wrong)
                    /\ Same(R(i), R(k))
<1>2. \A k \in i .. Length : k \in ends <=> Nested(k) = 0
  <2>1. \A k \in i .. Length :
          k \in ends <=> Count(CloseBrace, i, k) = Count(OpenBrace, i, k) + 1
    BY DEF CommentEnds
  <2>2. ASSUME NEW k \in i .. Length
        PROVE  Count(OpenBrace, i, k) \in Nat /\ Count(CloseBrace, i, k) \in Nat
    <3>1. k \in Nat /\ i <= k
      BY <1>1
    <3> QED BY <1>1, <3>1, CountIs
  <2> QED BY <2>1, <2>2
<1>3. ends \in SUBSET (i .. Length)
  BY DEF CommentEnds
<1>4. Is(i)
  <2>1. Nested(i) = 1
    BY <1>1, CountIs
  <2> HIDE DEF Nested
  <2> QED BY <2>1 DEF Same
<1>5. ASSUME NEW k \in i .. Length - 1, Is(k), k \notin ends
      PROVE  Is(k + 1)
  <2>1. /\ k \in i .. Length /\ k \in 0 .. Length /\ k \in 0 .. Length - 1
        /\ k \in Nat /\ i <= k
    BY <1>1
  <2>2. R(k + 1) = ReadCharacter(R(k), At(k)) /\ Shaped(R(k))
    BY <2>1, ReadingsAre, ReadingsOK
  <2>3. /\ R(k).comment = Nested(k) /\ R(k).mode = "code"
        /\ Nested(k) # 0 /\ Nested(k) \in Nat
    <3>1. R(k).comment = Nested(k) /\ R(k).mode = "code" /\ R(k).comment \in Nat
      BY <1>5, <2>2 DEF Says, Shaped
    <3> HIDE DEF Nested
    <3>2. Nested(k) # 0
      BY <1>2, <1>5, <2>1
    <3> QED BY <3>1, <3>2
  <2>4. Nested(k + 1) = IF At(k) = OpenBrace THEN Nested(k) + 1
                        ELSE IF At(k) = CloseBrace THEN Nested(k) - 1 ELSE Nested(k)
    <3>1. /\ Count(OpenBrace, i, k) \in Nat /\ Count(CloseBrace, i, k) \in Nat
          /\ Count(OpenBrace, i, k + 1) =
               Count(OpenBrace, i, k) + IF At(k) = OpenBrace THEN 1 ELSE 0
          /\ Count(CloseBrace, i, k + 1) =
               Count(CloseBrace, i, k) + IF At(k) = CloseBrace THEN 1 ELSE 0
      BY <1>1, <2>1, CountIs
    <3>2. OpenBrace # CloseBrace
      BY DEF OpenBrace, CloseBrace
    <3> QED BY <3>1, <3>2
  <2> HIDE DEF Nested
  <2>5. /\ Says(R(k + 1), R(k).mode,
                IF At(k) = OpenBrace THEN R(k).comment + 1
                ELSE IF At(k) = CloseBrace THEN R(k).comment - 1 ELSE R(k).comment,
                R(k).lambdas, R(k).closing, R(k).wrong)
        /\ Same(R(k), R(k + 1))
    <3>1. R(k).comment > 0
      BY <2>3
    <3> QED BY <2>2, <3>1, ReadInComment
  <2>6. Says(R(k + 1), "code", Nested(k + 1), lambdas, closing, wrong)
    BY <1>5, <2>3, <2>4, <2>5 DEF Says
  <2>7. Same(R(i), R(k + 1))
    BY <1>5, <2>5 DEF Same
  <2> QED BY <2>6, <2>7
<1> HIDE DEF ends
<1>6. ASSUME NEW f \in i .. Length, \A k \in i .. f - 1 : k \notin ends
      PROVE  Is(f)
  <2> DEFINE S == {k \in i .. Length : Is(k)}
  <2>1. i \in S
    BY <1>1, <1>4
  <2>2. ASSUME NEW k \in i .. f - 1, k \in S
        PROVE  k + 1 \in S
    <3>1. k \in i .. Length - 1 /\ k + 1 \in i .. Length /\ k \notin ends
      BY <1>1, <1>6
    <3>2. Is(k)
      BY <2>2
    <3> HIDE DEF Is
    <3>3. Is(k + 1)
      BY <1>5, <3>1, <3>2
    <3> QED BY <3>1, <3>3
  <2> HIDE DEF Is
  <2>3. f \in S
    <3> HIDE DEF S
    <3>1. \A k \in i .. f - 1 : k \in S => k + 1 \in S
      BY <2>2
    <3>2. f \in Nat /\ f \in i .. f
      BY <1>1
    <3> QED BY <1>1, <2>1, <3>1, <3>2, Along
  <2> QED BY <2>3
<1>7. CASE ends = {}
  <2>1. Length \in i .. Length /\ \A k \in i .. Length - 1 : k \notin ends
    BY <1>1, <1>7
  <2>2. Is(Length)
    <3> HIDE DEF Is
    <3> QED BY <1>6, <2>1
  <2>3. R(Length).comment = Nested(Length)
    BY <2>2 DEF Says
  <2>4. Nested(Length) # 0
    <3> HIDE DEF Nested
    <3> QED BY <1>2, <1>7, <2>1
  <2>5. R(Length).comment # 0
    <3> HIDE DEF Nested
    <3> QED BY <2>3, <2>4
  <2> QED BY <1>7, <2>5 DEF ends, WellFormed
<1>8. CASE ends # {}
  <2>1. PICK m \in ends : \A y \in ends : m <= y
    <3>1. ends \in SUBSET Nat
      BY <1>1, <1>3
    <3> QED BY <1>8, <3>1, LeastNatural
  <2>2. Min(ends) \in ends /\ \A y \in ends : Min(ends) <= y
    BY <2>1 DEF Min
  <2>3. PICK f : f = Min(ends)
    OBVIOUS
  <2>4. f \in i .. Length
    BY <1>3, <2>2, <2>3
  <2>5. ASSUME NEW k \in i .. f - 1
        PROVE  k \notin ends
    <3>1. ~(f <= k)
      BY <1>1, <2>4
    <3> QED BY <2>2, <2>3, <3>1
  <2>6. Is(f)
    <3> HIDE DEF Is
    <3> QED BY <1>6, <2>4, <2>5
  <2>7. Nested(f) = 0
    <3> HIDE DEF Nested
    <3> QED BY <1>2, <2>2, <2>3, <2>4
  <2>8. Says(R(f), "code", 0, lambdas, closing, wrong) /\ Same(R(i), R(f))
    <3> HIDE DEF Nested
    <3> QED BY <2>6, <2>7
  <2>9. Lexed(f, lambdas, closing, wrong)
    BY <2>8, CodeIsClear
  <2> QED BY <1>8, <2>3, <2>8, <2>9 DEF ends
<1> QED BY <1>7, <1>8

-----------------------------------------------------------------------------
(* The scanner's steps, read one character at a time.                      *)

\* How many lambdas a token opens.
Depth(type) ==
  IF type = "LAMBDA_START" THEN 1 ELSE IF type = "LAMBDA_END" THEN -1 ELSE 0

\* The word a token was read from.
Word(t, word) ==
  \/ \E c \in DOMAIN Operators : word = <<c>> /\ t.type = Operators[c]
  \/ /\ t.type = "STRING" /\ word[1] = Quote
     /\ t.raw = SubSeq(word, 2, Len(word) - 1)
  \/ /\ t.type = "NUMBER" /\ t.raw = word
     /\ word \in Seq(Digits) /\ Len(word) > 0
  \/ /\ t.raw = word /\ word[1] \in Letters
     /\ t.type = IF word \in DOMAIN Keywords THEN Keywords[word] ELSE "REFERENCE"

\* It is the only one the token adds to those that were read.
Worded(t, k) ==
  \E word : Word(t, word) /\ R(k).words = Append(R(curr).words, word)

\* A token was read, and the reading counts it.
Emitted ==
  /\ scanning' = FALSE /\ has_token' = TRUE /\ UNCHANGED <<source, status>>
  /\ curr # Length /\ curr' \in 0 .. Length
  /\ Lexed(curr', R(curr).lambdas + Depth(token'.type), token'.type = "LAMBDA_END",
           R(curr).wrong \/ (token'.type = "LAMBDA_END" /\ R(curr).lambdas = 0))
  /\ Worded(token', curr')

\* No token was read, and the reading tells nothing new.
Skipped ==
  /\ UNCHANGED <<source, has_token, token, status>>
  /\ scanning' \in BOOLEAN /\ curr' \in curr .. Length /\ (~scanning' => curr' = Length)
  /\ Lexed(curr', R(curr).lambdas, R(curr).closing, R(curr).wrong)
  /\ Same(R(curr), R(curr'))

\* The program is given up, rightly.
Rejected ==
  status' = "exited" /\ source' = source /\ ~WellFormed(R(Length))

\* What follows from the token that is put into the register.
LEMMA EmitReads ==
  ASSUME ParserInv, First # Length,
         NEW type, NEW raw, NEW end \in 0 .. Length, Emit(type, raw, end),
         Lexed(end, R(curr).lambdas + Depth(type), type = "LAMBDA_END",
               R(curr).wrong \/ (type = "LAMBDA_END" /\ R(curr).lambdas = 0)),
         Worded(Token(type, raw, First, end), end)
  PROVE  Emitted
<1>1. /\ curr' = end /\ scanning' = FALSE /\ has_token' = TRUE
      /\ UNCHANGED <<source, status>> /\ token' = Token(type, raw, First, end)
  BY DEF Emit
<1>2. token'.type = type
  BY <1>1 DEF Token
<1>3. curr # Length
  BY FirstInSource DEF ParserInv
<1>4. Worded(token', curr')
  BY <1>1
<1> QED BY <1>1, <1>2, <1>3, <1>4 DEF Emitted

\* A token that is no bracket.
LEMMA EmitPlain ==
  ASSUME ParserInv, First # Length,
         NEW type, NEW raw, NEW end \in 0 .. Length, Emit(type, raw, end),
         type \notin {"LAMBDA_START", "LAMBDA_END"},
         Lexed(end, R(curr).lambdas, FALSE, R(curr).wrong),
         Worded(Token(type, raw, First, end), end)
  PROVE  Emitted
<1>1. R(curr).lambdas \in Int
  BY ReadingsOK, FirstInSource DEF ParserInv, ParserTypeOK, Shaped
<1>2. R(curr).lambdas + Depth(type) = R(curr).lambdas
  BY <1>1 DEF Depth
<1>3. Lexed(end, R(curr).lambdas + Depth(type), type = "LAMBDA_END",
            R(curr).wrong \/ (type = "LAMBDA_END" /\ R(curr).lambdas = 0))
  BY <1>2 DEF Lexed
<1> QED BY <1>3, EmitReads

\* Where the scanner stands when it looks at a character.
LEMMA FirstReads ==
  ASSUME ParserInv, Clear(curr)
  PROVE  /\ First \in 0 .. Length /\ Length \in Nat /\ curr \in 0 .. Length
         /\ R(curr).lambdas \in Int
         /\ Lexed(First, R(curr).lambdas, R(curr).closing, R(curr).wrong)
         /\ Same(R(curr), R(First)) /\ IsSeq(R(curr).words)
         /\ First # Length =>
              /\ Free(R(First), At(First)) /\ Shaped(R(First)) /\ First + 1 \in 0 .. Length
              /\ R(First + 1) = ReadCharacter(R(First), At(First))
<1>1. First \in curr .. Length /\ Length \in Nat /\ curr \in Nat /\ source \in Seq(STRING)
  BY FirstInSource DEF ParserInv
<1>2. First \in 0 .. Length /\ curr \in 0 .. Length
  BY <1>1
<1>3. R(curr).lambdas \in Int
  BY <1>1, <1>2, ReadingsOK DEF Shaped
<1>4. /\ Lexed(First, R(curr).lambdas, R(curr).closing, R(curr).wrong)
      /\ Same(R(curr), R(First))
  BY <1>1, <1>2, Blanks DEF Lexed, First
<1>5. First # Length =>
        /\ Free(R(First), At(First)) /\ Shaped(R(First)) /\ First + 1 \in 0 .. Length
        /\ R(First + 1) = ReadCharacter(R(First), At(First))
  BY <1>1, <1>2, <1>4, ClearIsFree DEF Lexed
<1>6. IsSeq(R(curr).words)
  BY <1>1, <1>2, WordsAre
<1> QED BY <1>1, <1>2, <1>3, <1>4, <1>5, <1>6

\* A text is the characters between two positions.
LEMMA TextIs ==
  ASSUME source \in Seq(STRING), NEW i \in 0 .. Length, NEW j \in i + 1 .. Length
  PROVE  /\ Text(i, j) \in Seq(STRING) /\ Len(Text(i, j)) = j - i
         /\ Text(i, j)[1] = At(i)
         /\ \A S : (\A k \in i .. j - 1 : At(k) \in S) => Text(i, j) \in Seq(S)
         /\ SubSeq(Text(i, j), 2, Len(Text(i, j)) - 1) = Text(i + 1, j - 1)
<1>1. Length \in Nat /\ Len(source) = Length
  BY ReadingsAre DEF Length
<1>2. i + 1 \in Int /\ j \in Int /\ i + 1 <= j
  BY <1>1
<1>3. \A k \in i + 1 .. j : source[k] \in STRING
  <2>1. \A k \in i + 1 .. j : k \in 1 .. Len(source)
    BY <1>1
  <2> QED BY <2>1, ElementOfSeq
<1>4. PICK text : text = SubSeq(source, i + 1, j)
  OBVIOUS
<1>5. /\ text \in Seq(STRING) /\ Len(text) = j - (i + 1) + 1
      /\ \A k \in 1 .. j - (i + 1) + 1 : text[k] = source[(i + 1) + k - 1]
  BY <1>2, <1>3, <1>4, SubSeqProperties
<1>6. Len(text) = j - i
  BY <1>1, <1>5
<1>7. text[1] = At(i)
  <2>1. 1 \in 1 .. j - (i + 1) + 1 /\ (i + 1) + 1 - 1 = i + 1
    BY <1>1
  <2> QED BY <1>5, <2>1 DEF At
<1>8. ASSUME NEW S, \A k \in i .. j - 1 : At(k) \in S
      PROVE  text \in Seq(S)
  <2>1. ASSUME NEW k \in i + 1 .. j
        PROVE  source[k] \in S
    <3>1. k - 1 \in i .. j - 1 /\ (k - 1) + 1 = k
      BY <1>1
    <3> QED BY <1>8, <3>1 DEF At
  <2> QED BY <1>2, <1>4, <2>1, SubSeqProperties
<1>9. SubSeq(text, 2, Len(text) - 1) = Text(i + 1, j - 1)
  <2>1. PICK n : n = Len(text) - 1
    OBVIOUS
  <2>2. n = j - i - 1 /\ n \in Nat
    BY <1>1, <1>6, <2>1
  <2>3. CASE n = 0
    <3>1. /\ n < 2 /\ 2 \in Int /\ n \in Int
          /\ j - 1 < (i + 1) + 1 /\ (i + 1) + 1 \in Int /\ j - 1 \in Int
      BY <1>1, <2>2, <2>3
    <3> QED BY <2>1, <3>1, SubSeqEmpty DEF Text
  <2>4. CASE n # 0
    <3>1. /\ i + 1 \in 1 .. Len(source) /\ j \in 1 .. Len(source)
          /\ 2 \in 1 .. j - (i + 1) + 1 /\ n \in 1 .. j - (i + 1) + 1
      BY <1>1, <2>2, <2>4
    <3>2. SubSeq(text, 2, n) = SubSeq(source, (i + 1) + 2 - 1, (i + 1) + n - 1)
      BY <1>4, <3>1, SubSeqOfSubSeq
    <3>3. (i + 1) + 2 - 1 = (i + 1) + 1 /\ (i + 1) + n - 1 = j - 1
      BY <1>1, <2>2
    <3> QED BY <2>1, <3>2, <3>3 DEF Text
  <2> QED BY <2>3, <2>4
<1>10. Text(i, j) = text
  BY <1>4 DEF Text
<1> QED BY <1>5, <1>6, <1>7, <1>8, <1>9, <1>10

\* The word that begins behind the blanks is the text from there.
LEMMA WordReads ==
  ASSUME ParserInv, Clear(curr), First # Length,
         Begun(R(First), R(First + 1), At(First))
  PROVE  /\ R(First + 1).words = Append(R(curr).words, <<At(First)>>)
         /\ \A end : Spelling(First + 1, end) =>
              R(end).words = Append(R(curr).words, Text(First, end))
<1>1. /\ First \in 0 .. Length - 1 /\ First \in Nat /\ First + 1 \in Nat
      /\ source \in Seq(STRING) /\ First \in 0 .. First + 1
      /\ Same(R(curr), R(First)) /\ IsSeq(R(curr).words)
  <2>1. First \in 0 .. Length /\ Length \in Nat
    BY FirstReads
  <2>2. Same(R(curr), R(First)) /\ IsSeq(R(curr).words)
    BY FirstReads
  <2> QED BY <2>1, <2>2 DEF ParserInv
<1>2. R(First + 1).words = Append(R(curr).words, <<At(First)>>)
  BY <1>1 DEF Begun, Same
<1>3. Text(First, First + 1) = <<At(First)>>
  BY <1>1, TextGrows
<1>4. ASSUME NEW end, Spelling(First + 1, end)
      PROVE  R(end).words = Append(R(curr).words, Text(First, end))
  <2>1. R(First + 1).words = Append(R(curr).words, Text(First, First + 1))
    BY <1>2, <1>3
  <2> QED BY <1>1, <1>4, <2>1 DEF Spelling
<1> QED BY <1>2, <1>4

\* A token of one character.
LEMMA OperatorReads ==
  ASSUME ParserInv, Clear(curr), ScanOperator
  PROVE  Emitted
<1> DEFINE f == First
           c == At(First)
<1>1. f < Length /\ c \in DOMAIN Operators /\ Emit(Operators[c], <<c>>, f + 1)
  BY DEF ScanOperator, Meets
<1>2. /\ f # Length /\ R(curr).lambdas \in Int
      /\ Lexed(f, R(curr).lambdas, R(curr).closing, R(curr).wrong)
      /\ Free(R(f), c) /\ Shaped(R(f)) /\ f + 1 \in 0 .. Length
      /\ R(f + 1) = ReadCharacter(R(f), c)
  BY <1>1, FirstReads
<1>3. /\ Operators[c] = "LAMBDA_START" <=> c = "["
      /\ Operators[c] = "LAMBDA_END" <=> c = "]"
  BY <1>1, OperatorsAre
<1>a. First # Length
  BY <1>2
<1>b. Begun(R(f), R(f + 1), c) => Worded(Token(Operators[c], <<c>>, First, f + 1), f + 1)
  <2>1. Token(Operators[c], <<c>>, First, f + 1).type = Operators[c]
    BY DEF Token
  <2>2. Word(Token(Operators[c], <<c>>, First, f + 1), <<c>>)
    BY <1>1, <2>1 DEF Word
  <2> QED BY <1>a, <2>2, WordReads DEF Worded
<1> HIDE DEF f, c
<1>4. /\ R(f).lambdas = R(curr).lambdas /\ (R(f).wrong <=> R(curr).wrong)
  BY <1>2 DEF Lexed
<1>5. CASE c = "["
  <2>1. /\ Says(R(f + 1), "code", 0, R(f).lambdas + 1, FALSE, R(f).wrong)
        /\ Begun(R(f), R(f + 1), c)
    BY <1>2, <1>5, ReadOpening
  <2>2. Lexed(f + 1, R(f).lambdas + 1, FALSE, R(f).wrong)
    BY <2>1, CodeIsClear
  <2>3. Operators[c] = "LAMBDA_START" /\ Depth(Operators[c]) = 1
    BY <1>3, <1>5 DEF Depth
  <2>4. Lexed(f + 1, R(curr).lambdas + Depth(Operators[c]), Operators[c] = "LAMBDA_END",
              R(curr).wrong \/ (Operators[c] = "LAMBDA_END" /\ R(curr).lambdas = 0))
    BY <1>4, <2>2, <2>3 DEF Lexed
  <2> QED BY <1>1, <1>2, <1>a, <1>b, <2>1, <2>4, EmitReads
<1>6. CASE c = "]"
  <2>1. /\ Says(R(f + 1), "code", 0, R(f).lambdas - 1, TRUE,
                R(f).wrong \/ R(f).lambdas = 0)
        /\ Begun(R(f), R(f + 1), c)
    BY <1>2, <1>6, ReadClosing
  <2>2. Lexed(f + 1, R(f).lambdas - 1, TRUE, R(f).wrong \/ R(f).lambdas = 0)
    BY <2>1, CodeIsClear
  <2>3. Operators[c] = "LAMBDA_END" /\ Depth(Operators[c]) = -1
    BY <1>3, <1>6 DEF Depth
  <2>4. R(f).lambdas - 1 = R(curr).lambdas + Depth(Operators[c])
    BY <1>2, <1>4, <2>3
  <2>5. Lexed(f + 1, R(curr).lambdas + Depth(Operators[c]), Operators[c] = "LAMBDA_END",
              R(curr).wrong \/ (Operators[c] = "LAMBDA_END" /\ R(curr).lambdas = 0))
    BY <1>4, <2>2, <2>3, <2>4 DEF Lexed
  <2> QED BY <1>1, <1>2, <1>a, <1>b, <2>1, <2>5, EmitReads
<1>7. CASE c \notin {"[", "]"}
  <2>1. /\ Says(R(f + 1), "code", 0, R(f).lambdas, FALSE, R(f).wrong)
        /\ Begun(R(f), R(f + 1), c)
    BY <1>1, <1>2, <1>7, ReadSimple
  <2>2. Lexed(f + 1, R(f).lambdas, FALSE, R(f).wrong)
    BY <2>1, CodeIsClear
  <2>3. Lexed(f + 1, R(curr).lambdas, FALSE, R(curr).wrong)
    BY <1>4, <2>2 DEF Lexed
  <2>4. Operators[c] \notin {"LAMBDA_START", "LAMBDA_END"}
    BY <1>3, <1>7
  <2> QED BY <1>1, <1>2, <1>a, <1>b, <2>1, <2>3, <2>4, EmitPlain
<1> QED BY <1>5, <1>6, <1>7

\* A number or a word.
LEMMA RunReads ==
  ASSUME ParserInv, Clear(curr), ScanNumber \/ ScanWord
  PROVE  Emitted
<1> DEFINE f == First
           c == At(First)
<1>0. /\ f # Length => /\ Free(R(f), c) /\ Shaped(R(f)) /\ f + 1 \in 0 .. Length
                       /\ R(f + 1) = ReadCharacter(R(f), c)
      /\ Length \in Nat /\ source \in Seq(STRING) /\ f \in 0 .. Length
  BY FirstReads DEF ParserInv
<1>1. R(f).lambdas = R(curr).lambdas /\ (R(f).wrong <=> R(curr).wrong)
  BY FirstReads DEF Lexed
<1>2. CASE ScanNumber
  <2> DEFINE end == After(Digits, f + 1)
  <2>1. f < Length /\ c \in Digits /\ Emit("NUMBER", Text(f, end), end)
    BY <1>2 DEF ScanNumber, Meets
  <2>a. First # Length
    BY <1>0, <2>1
  <2>b. Begun(R(f), R(f + 1), c) =>
          \A last : Spelling(f + 1, last) =>
            R(last).words = Append(R(curr).words, Text(f, last))
    BY <2>a, WordReads
  <2>c. f = First /\ c = At(f)
    OBVIOUS
  <2> HIDE DEF f, c
  <2>2. f # Length
    BY <1>0, <2>1
  <2>3. /\ Says(R(f + 1), "number", 0, R(f).lambdas, FALSE, R(f).wrong)
        /\ Begun(R(f), R(f + 1), c)
    BY <1>0, <2>1, <2>2, ReadDigit
  <2>4. Says(R(f + 1), "number", 0, R(curr).lambdas, FALSE, R(curr).wrong)
    BY <1>1, <2>3 DEF Says
  <2>5. Lexed(end, R(curr).lambdas, FALSE, R(curr).wrong) /\ Spelling(f + 1, end)
    BY <1>0, <2>2, <2>4, Runs
  <2>6. end \in 0 .. Length /\ end \in f + 1 .. Length
    <3>1. end \in f + 1 .. Length /\ f + 1 \in 0 .. Length
      BY <1>0, <2>2, AfterIs
    <3> HIDE DEF end
    <3> QED BY <1>0, <3>1
  <2>7. \A k \in f + 1 .. end - 1 : At(k) \in Digits
    BY <1>0, <2>2, AfterIs
  <2> HIDE DEF end
  <2>8. Worded(Token("NUMBER", Text(f, end), First, end), end)
    <3>1. PICK word : word = Text(f, end)
      OBVIOUS
    <3>2. R(end).words = Append(R(curr).words, word)
      BY <2>3, <2>5, <2>b, <3>1
    <3>3. ASSUME NEW k \in f .. end - 1
          PROVE  At(k) \in Digits
      <4>1. CASE k = f
        BY <2>1, <2>c, <4>1
      <4>2. CASE k # f
        <5>1. k \in f + 1 .. end - 1
          BY <1>0, <4>2
        <5> QED BY <2>7, <5>1
      <4> QED BY <4>1, <4>2
    <3>4. word \in Seq(Digits) /\ Len(word) = end - f
      BY <1>0, <2>6, <3>1, <3>3, TextIs
    <3>5. Len(word) > 0
      BY <1>0, <2>6, <3>4
    <3>6. /\ Token("NUMBER", word, First, end).type = "NUMBER"
          /\ Token("NUMBER", word, First, end).raw = word
      BY DEF Token
    <3>7. Word(Token("NUMBER", word, First, end), word)
      BY <3>4, <3>5, <3>6 DEF Word
    <3> QED BY <3>1, <3>2, <3>7 DEF Worded
  <2> QED BY <2>1, <2>5, <2>6, <2>8, <2>a, EmitPlain
<1>3. CASE ScanWord
  <2> DEFINE end == After(WordCharacters, f + 1)
             word == Text(f, end)
             type == IF word \in DOMAIN Keywords THEN Keywords[word] ELSE "REFERENCE"
  <2>1. f < Length /\ c \in Letters /\ Emit(type, word, end)
    BY <1>3 DEF ScanWord, Meets
  <2>a. First # Length
    BY <1>0, <2>1
  <2>b. Begun(R(f), R(f + 1), c) =>
          \A last : Spelling(f + 1, last) =>
            R(last).words = Append(R(curr).words, Text(f, last))
    BY <2>a, WordReads
  <2>c. f = First /\ c = At(f)
    OBVIOUS
  <2> HIDE DEF f, c
  <2>2. f # Length
    BY <1>0, <2>1
  <2>3. /\ Says(R(f + 1), "word", 0, R(f).lambdas, FALSE, R(f).wrong)
        /\ Begun(R(f), R(f + 1), c)
    BY <1>0, <2>1, <2>2, ReadLetter
  <2>4. Says(R(f + 1), "word", 0, R(curr).lambdas, FALSE, R(curr).wrong)
    BY <1>1, <2>3 DEF Says
  <2>5. Lexed(end, R(curr).lambdas, FALSE, R(curr).wrong) /\ Spelling(f + 1, end)
    BY <1>0, <2>2, <2>4, Runs
  <2>6. end \in 0 .. Length /\ end \in f + 1 .. Length
    <3>1. end \in f + 1 .. Length /\ f + 1 \in 0 .. Length
      BY <1>0, <2>2, AfterIs
    <3> HIDE DEF end
    <3> QED BY <1>0, <3>1
  <2>7. type \notin {"LAMBDA_START", "LAMBDA_END"}
    <3> HIDE DEF word
    <3> QED BY CharactersAssumption
  <2>8. Worded(Token(type, word, First, end), end)
    <3> HIDE DEF end
    <3>1. R(end).words = Append(R(curr).words, word)
      BY <2>3, <2>5, <2>b
    <3>2. word[1] \in Letters
      BY <1>0, <2>1, <2>6, <2>c, TextIs
    <3> HIDE DEF word
    <3>3. /\ Token(type, word, First, end).type = type
          /\ Token(type, word, First, end).raw = word
      BY DEF Token
    <3>4. Word(Token(type, word, First, end), word)
      BY <3>2, <3>3 DEF Word
    <3> QED BY <3>1, <3>4 DEF Worded
  <2> HIDE DEF end, word, type
  <2> QED BY <2>1, <2>5, <2>6, <2>7, <2>8, <2>a, EmitPlain
<1> QED BY <1>2, <1>3

\* A string, closed or not.
LEMMA StringReads ==
  ASSUME ParserInv, Clear(curr), ScanString
  PROVE  Emitted \/ Rejected
<1> DEFINE f == First
           c == At(First)
           quote == Find(Quote, f + 1)
<1>0. /\ f # Length => /\ Free(R(f), c) /\ Shaped(R(f)) /\ f + 1 \in 0 .. Length
                       /\ R(f + 1) = ReadCharacter(R(f), c)
      /\ Length \in Nat /\ source \in Seq(STRING) /\ f \in 0 .. Length
  BY FirstReads DEF ParserInv
<1>1. R(f).lambdas = R(curr).lambdas /\ (R(f).wrong <=> R(curr).wrong)
  BY FirstReads DEF Lexed
<1>2. /\ f < Length /\ c = Quote
      /\ IF quote = Length THEN Exit
         ELSE Emit("STRING", Text(f + 1, quote), quote + 1)
  BY DEF ScanString, Meets
<1>a. First # Length
  BY <1>0, <1>2
<1>b. Begun(R(f), R(f + 1), c) =>
        \A last : Spelling(f + 1, last) =>
          R(last).words = Append(R(curr).words, Text(f, last))
  BY <1>a, WordReads
<1>c. c = At(f)
  OBVIOUS
<1> HIDE DEF f, c
<1>3. f # Length /\ f + 1 \in 0 .. Length
  BY <1>0, <1>2
<1>4. /\ Says(R(f + 1), "string", 0, R(f).lambdas, FALSE, R(f).wrong)
      /\ Begun(R(f), R(f + 1), c)
  BY <1>0, <1>2, <1>3, ReadQuote
<1>5. Says(R(f + 1), "string", 0, R(curr).lambdas, FALSE, R(curr).wrong)
  BY <1>1, <1>4 DEF Says
<1>6. IF quote = Length THEN ~WellFormed(R(Length))
      ELSE /\ Lexed(quote + 1, R(curr).lambdas, FALSE, R(curr).wrong)
           /\ Spelling(f + 1, quote + 1)
  BY <1>0, <1>3, <1>5, Strings
<1>7. quote \in f + 1 .. Length
  BY <1>0, <1>3, FindIs
<1> HIDE DEF quote
<1>8. CASE quote = Length
  BY <1>2, <1>6, <1>8 DEF Exit, Rejected
<1>9. CASE quote # Length
  <2>1. quote + 1 \in 0 .. Length /\ quote + 1 \in f + 1 .. Length
        /\ (quote + 1) - 1 = quote
    BY <1>0, <1>7, <1>9
  <2>2. Emit("STRING", Text(f + 1, quote), quote + 1)
    BY <1>2, <1>9
  <2>3. Lexed(quote + 1, R(curr).lambdas, FALSE, R(curr).wrong)
    BY <1>6, <1>9
  <2>4. PICK type : type = "STRING"
    OBVIOUS
  <2>5. type \notin {"LAMBDA_START", "LAMBDA_END"}
    BY <2>4
  <2>6. Emit(type, Text(f + 1, quote), quote + 1)
    BY <2>2, <2>4
  <2>7. Worded(Token(type, Text(f + 1, quote), First, quote + 1), quote + 1)
    <3>1. PICK word : word = Text(f, quote + 1)
      OBVIOUS
    <3>2. R(quote + 1).words = Append(R(curr).words, word)
      BY <1>4, <1>6, <1>9, <1>b, <3>1
    <3>3. word[1] = Quote /\ SubSeq(word, 2, Len(word) - 1) = Text(f + 1, quote)
      BY <1>0, <1>2, <1>c, <2>1, <3>1, TextIs
    <3>4. PICK raw : raw = Text(f + 1, quote)
      OBVIOUS
    <3>5. /\ Token(type, raw, First, quote + 1).type = "STRING"
          /\ Token(type, raw, First, quote + 1).raw = raw
      BY <2>4 DEF Token
    <3>6. Word(Token(type, raw, First, quote + 1), word)
      BY <3>3, <3>4, <3>5 DEF Word
    <3> QED BY <3>2, <3>4, <3>6 DEF Worded
  <2> QED BY <1>a, <2>1, <2>3, <2>5, <2>6, <2>7, EmitPlain
<1> QED BY <1>8, <1>9

\* A comment, closed or not.
LEMMA CommentReads ==
  ASSUME ParserInv, Clear(curr), ScanComment
  PROVE  Skipped \/ Rejected
<1> DEFINE f == First
           c == At(First)
           ends == CommentEnds(f + 1)
<1>0. /\ f # Length => /\ Free(R(f), c) /\ Shaped(R(f)) /\ f + 1 \in 0 .. Length
                       /\ R(f + 1) = ReadCharacter(R(f), c)
      /\ Length \in Nat /\ source \in Seq(STRING) /\ f \in 0 .. Length
  BY FirstReads DEF ParserInv
<1>1. /\ R(f).lambdas = R(curr).lambdas /\ (R(f).wrong <=> R(curr).wrong)
      /\ (R(f).closing <=> R(curr).closing) /\ Same(R(curr), R(f))
  BY FirstReads DEF Lexed
<1>2. /\ f < Length /\ c = OpenBrace /\ scanning
      /\ IF ends = {} THEN Exit
         ELSE /\ start' = f /\ curr' = Min(ends)
              /\ UNCHANGED <<source, scanning, has_token, token, status>>
  BY DEF ScanComment, Meets
<1> HIDE DEF f, c
<1>3. f # Length /\ f + 1 \in 0 .. Length
  BY <1>0, <1>2
<1>4. /\ Says(R(f + 1), "code", 1, R(f).lambdas, R(f).closing, R(f).wrong)
      /\ Same(R(f), R(f + 1))
  BY <1>0, <1>2, <1>3, ReadComment
<1>5. Says(R(f + 1), "code", 1, R(curr).lambdas, R(curr).closing, R(curr).wrong)
  BY <1>1, <1>4 DEF Says
<1>6. IF ends = {} THEN ~WellFormed(R(Length))
      ELSE /\ Lexed(Min(ends), R(curr).lambdas, R(curr).closing, R(curr).wrong)
           /\ Same(R(f + 1), R(Min(ends)))
  BY <1>0, <1>3, <1>5, Comments
<1>7. CASE ends = {}
  <2> HIDE DEF ends
  <2> QED BY <1>2, <1>6, <1>7 DEF Exit, Rejected
<1>8. CASE ends # {}
  <2>1. Min(ends) \in f + 1 .. Length
    <3>1. ends \in SUBSET (f + 1 .. Length)
      BY DEF CommentEnds
    <3> HIDE DEF ends
    <3>2. ends \subseteq Nat /\ ends \subseteq f + 1 .. Length
      BY <1>0, <1>3, <3>1
    <3>3. Min(ends) \in ends
      BY <1>8, <3>2, LeastPosition
    <3> QED BY <3>2, <3>3
  <2> HIDE DEF ends
  <2>2. curr' = Min(ends) /\ UNCHANGED <<source, scanning, has_token, token, status>>
    BY <1>2, <1>8
  <2>3. scanning' = TRUE
    BY <1>2, <2>2 DEF ParserInv, ParserTypeOK
  <2>4. /\ Lexed(curr', R(curr).lambdas, R(curr).closing, R(curr).wrong)
        /\ Same(R(curr), R(curr'))
    BY <1>1, <1>4, <1>6, <1>8, <2>2 DEF Same
  <2>5. curr' \in curr .. Length
    <3>1. f \in curr .. Length /\ curr \in Nat
      BY FirstInSource DEF f, ParserInv
    <3> QED BY <1>0, <2>1, <2>2, <3>1
  <2> QED BY <2>2, <2>3, <2>4, <2>5 DEF Skipped
<1> QED BY <1>7, <1>8

\* Every call of find_next_token does what the reading says.
LEMMA ScanReads ==
  ASSUME ParserInv, Clear(curr), Scan
  PROVE  Emitted \/ Skipped \/ Rejected
<1>1. CASE ScanOperator
  BY <1>1, OperatorReads
<1>2. CASE ScanComment
  BY <1>2, CommentReads
<1>3. CASE ScanString
  BY <1>3, StringReads
<1>4. CASE ScanNumber \/ ScanWord
  BY <1>4, RunReads
<1>5. CASE ScanUnexpected
  <2>1. /\ First # Length /\ First + 1 \in 0 .. Length
        /\ Free(R(First), At(First)) /\ Shaped(R(First))
        /\ R(First + 1) = ReadCharacter(R(First), At(First))
    BY <1>5, FirstReads DEF ScanUnexpected
  <2>2. At(First) \notin Expected \cup Spaces
    <3>1. At(First) \notin Spaces
      BY <2>1, AfterIs, FirstReads DEF First
    <3> QED BY <1>5, <3>1 DEF ScanUnexpected
  <2>3. R(First + 1).wrong
    BY <2>1, <2>2, ReadUnexpected DEF Says
  <2>4. R(Length).wrong
    BY <2>1, <2>3, ReadingsOK DEF ParserInv
  <2> QED BY <1>5, <2>4 DEF ScanUnexpected, Exit, Rejected, WellFormed
<1>6. CASE ScanEnd
  <2>1. /\ First = Length /\ curr' = Length /\ scanning' = FALSE
        /\ UNCHANGED <<source, has_token, token, status>>
    BY <1>6 DEF ScanEnd
  <2>2. /\ Lexed(Length, R(curr).lambdas, R(curr).closing, R(curr).wrong)
        /\ Same(R(curr), R(Length))
    BY <2>1, FirstReads
  <2>3. curr' \in curr .. Length /\ scanning' \in BOOLEAN
    <3>1. Length \in Nat /\ curr \in 0 .. Length
      BY FirstReads
    <3>2. Length \in curr .. Length
      BY <3>1
    <3>3. curr' \in curr .. Length
      BY <2>1, <3>2
    <3>4. scanning' \in BOOLEAN
      BY <2>1
    <3> QED BY <3>2, <3>3, <3>4
  <2>4. /\ Lexed(curr', R(curr).lambdas, R(curr).closing, R(curr).wrong)
        /\ Same(R(curr), R(curr'))
    BY <2>1, <2>2
  <2>5. Skipped
    BY <2>1, <2>3, <2>4 DEF Skipped
  <2> QED BY <2>5
<1> QED BY <1>1, <1>2, <1>3, <1>4, <1>5, <1>6 DEF Scan

-----------------------------------------------------------------------------
(* The parser, against the reading so far.                                 *)

\* The token that waits in the register.
Waiting == IF has_token THEN token.type ELSE "none"

\* The lambdas that are open, the bracket taken and the one that waits are
\* those the reading counts.
Balanced ==
  /\ ~R(curr).wrong /\ R(curr).lambdas >= 0
  /\ taken.type # "LAMBDA_END"
  /\ R(curr).lambdas = Len(open) - 1 + Depth(taken.type) + Depth(Waiting)

\* The end of a lambda that was never begun is on its way to be refused.
Doomed ==
  /\ R(curr).wrong
  /\ Len(open) = 1 /\ taken.type # "LAMBDA_START"
  /\ taken.type = "LAMBDA_END" \/ Waiting = "LAMBDA_END"

\* The source is at its end, and its last token closes all that is open.
Closed ==
  /\ ~R(curr).wrong /\ R(curr).closing
  /\ curr = Length /\ ~has_token /\ taken = NoToken

Underway ==
  /\ Clear(curr)
  /\ scanning => ~has_token
  /\ ~scanning /\ ~has_token => curr = Length
  /\ R(curr).closing <=> token.type = "LAMBDA_END"
  /\ Balanced \/ Doomed \/ Closed

\* No lambda was closed by a token that closed one before.
Ordered == Balanced \/ Doomed

AcceptInv ==
  /\ status = "running" => Underway
  /\ status = "done" => WellFormed(R(Length))
  /\ status = "exited" => ~WellFormed(R(Length))

\* No leaf of the tree is a bracket.
LEMMA LeavesAre == Leaves \cap {"LAMBDA_START", "LAMBDA_END", "none"} = {}
<1> DEFINE pairs == {
  <<"ADD", "add">>, <<"SUB", "sub">>, <<"MUL", "mul">>, <<"DIV", "div">>,
  <<"NEG", "neg">>, <<"MOD", "mod">>,
  <<"EQUAL", "eq">>, <<"LESS", "lt">>, <<"GREATER", "gt">>,
  <<"NOT", "not">>, <<"AND", "not">>, <<"OR", "or">>,
  <<"STORE", "store">>, <<"LOAD", "load">>,
  <<"DUP", "dup">>, <<"DROP", "drop">>, <<"SWAP", "swap">>, <<"ROT", "rot">>,
  <<"NEWOBJECT", "new_object">>, <<"GETPROP", "get_prop">>,
  <<"SETPROP", "set_prop">>,
  <<"EXECUTE", "exec">>, <<"CONDEXEC", "cond_exec">>, <<"WHILE", "while">>}
<1>1. \A p \in pairs : p[1] \notin {"LAMBDA_START", "LAMBDA_END", "none"}
  OBVIOUS
<1>2. Instructions = Mapping(pairs)
  BY DEF Instructions
<1> HIDE DEF pairs
<1>3. DOMAIN Instructions = {p[1] : p \in pairs}
  BY <1>2, MappingIs
<1>4. (Constants \cup {"NUMBER", "STRING", "REFERENCE"})
        \cap {"LAMBDA_START", "LAMBDA_END", "none"} = {}
  BY DEF Constants
<1> QED BY <1>1, <1>3, <1>4 DEF Leaves

\* What a step that leaves the source alone leaves alone too.
LEMMA SourceKept ==
  ASSUME UNCHANGED source
  PROVE  /\ Length' = Length /\ R(curr)' = R(curr') /\ R(Length)' = R(Length)
         /\ Clear(curr)' <=> Clear(curr')
         /\ WellFormed(R(Length))' <=> WellFormed(R(Length))
<1>1. Length' = Length
  BY DEF Length
<1>2. R(curr)' = R(curr') /\ R(Length)' = R(Length)
  BY <1>1 DEF R
<1>3. At(curr)' = At(curr')
  BY DEF At
<1>4. Clear(curr)' <=> Clear(curr')
  BY <1>1, <1>2, <1>3 DEF Clear
<1>5. WellFormed(R(Length))' <=> WellFormed(R(Length))
  BY <1>2 DEF WellFormed
<1> QED BY <1>1, <1>2, <1>4, <1>5

\* The numbers in the invariant are numbers.
LEMMA CountsAre ==
  ASSUME ParserInv
  PROVE  /\ Len(open) \in Nat /\ Len(open) > 0 /\ Length \in Nat
         /\ curr \in 0 .. Length /\ R(curr).lambdas \in Int
<1>1. Len(open) \in Nat /\ Len(open) > 0
  BY ListFacts DEF ParserInv, ParserTypeOK, Lists
<1>2. Length \in Nat /\ curr \in 0 .. Length
  BY FirstInSource DEF ParserInv, ParserTypeOK
<1> QED BY <1>1, <1>2, ReadingsOK DEF ParserInv, Shaped

\* A token opens a lambda, closes one, or neither.
LEMMA DepthIs ==
  ASSUME NEW type
  PROVE  /\ Depth(type) \in -1 .. 1
         /\ Depth(type) = 1 <=> type = "LAMBDA_START"
         /\ Depth(type) = -1 <=> type = "LAMBDA_END"
BY DEF Depth

\* The scanner reads a token.
LEMMA EmittedKeeps ==
  ASSUME ParserInv, Underway, status = "running", scanning,
         Emitted, UNCHANGED <<open, taken>>
  PROVE  Underway' /\ (Ordered => Ordered')
<1>1. /\ Length' = Length /\ R(curr)' = R(curr') /\ (Clear(curr)' <=> Clear(curr'))
  BY SourceKept DEF Emitted
<1>2. /\ Clear(curr') /\ R(curr').lambdas = R(curr).lambdas + Depth(token'.type)
      /\ R(curr').closing <=> token'.type = "LAMBDA_END"
      /\ R(curr').wrong <=>
           R(curr).wrong \/ (token'.type = "LAMBDA_END" /\ R(curr).lambdas = 0)
  BY DEF Emitted, Lexed
<1>3. scanning' = FALSE /\ has_token' = TRUE /\ curr # Length
      /\ Waiting = "none" /\ Waiting' = token'.type
  BY DEF Emitted, Underway, Waiting
<1>4. Len(open) \in Nat /\ Len(open) > 0 /\ R(curr).lambdas \in Int
  BY CountsAre
<1>5. /\ Balanced \/ Doomed => Balanced' \/ Doomed'
      /\ Closed => Closed'
  <2>1. ASSUME Balanced
        PROVE  Balanced' \/ Doomed'
    <3>1. /\ ~R(curr).wrong /\ R(curr).lambdas >= 0 /\ taken.type # "LAMBDA_END"
          /\ R(curr).lambdas = Len(open) - 1 + Depth(taken.type)
      BY <1>3, <1>4, <2>1 DEF Balanced, Depth
    <3>a. /\ R(curr).lambdas >= 0
          /\ R(curr).lambdas = Len(open) - 1 + Depth(taken.type)
          /\ R(curr').lambdas = R(curr).lambdas + Depth(token'.type)
      BY <1>2, <3>1
    <3>2. CASE token'.type = "LAMBDA_END" /\ R(curr).lambdas = 0
      <4>1. Len(open) = 1 /\ taken.type # "LAMBDA_START"
        <5>1. Depth(taken.type) = 0 \/ Depth(taken.type) = 1
          BY <3>1, DepthIs
        <5>2. Len(open) = 1 /\ Depth(taken.type) # 1
          <6>1. 0 = Len(open) - 1 + Depth(taken.type)
            BY <3>2, <3>a
          <6>2. Len(open) \in Nat /\ Len(open) > 0
            BY <1>4
          <6>3. CASE Depth(taken.type) = 0
            BY <6>1, <6>2, <6>3
          <6>4. CASE Depth(taken.type) = 1
            BY <6>1, <6>2, <6>4
          <6> QED BY <5>1, <6>3, <6>4
        <5> QED BY <5>2, DepthIs
      <4> QED BY <1>1, <1>2, <1>3, <3>2, <4>1 DEF Doomed
    <3>3. CASE ~(token'.type = "LAMBDA_END" /\ R(curr).lambdas = 0)
      <4>1. ~R(curr').wrong
        BY <1>2, <3>1, <3>3
      <4>2. R(curr').lambdas >= 0
        <5>1. Depth(token'.type) \in -1 .. 1
          BY DepthIs
        <5>2. CASE token'.type = "LAMBDA_END"
          <6>1. R(curr).lambdas # 0
            BY <3>3, <5>2
          <6> QED BY <1>4, <3>a, <5>1, <6>1
        <5>3. CASE token'.type # "LAMBDA_END"
          <6>1. Depth(token'.type) >= 0
            BY <5>1, <5>3, DepthIs
          <6> QED BY <1>4, <3>a, <5>1, <6>1
        <5> QED BY <5>2, <5>3
      <4>3. R(curr').lambdas = Len(open) - 1 + Depth(taken.type) + Depth(token'.type)
        BY <1>2, <3>1
      <4> QED BY <1>1, <1>3, <3>1, <4>1, <4>2, <4>3 DEF Balanced
    <3> QED BY <3>2, <3>3
  <2>2. ASSUME Doomed
        PROVE  Doomed'
    <3>1. R(curr').wrong /\ Len(open) = 1 /\ taken.type = "LAMBDA_END"
      BY <1>2, <1>3, <2>2 DEF Doomed
    <3> QED BY <1>1, <3>1 DEF Doomed
  <2>3. ASSUME Closed
        PROVE  Closed'
    BY <1>3, <2>3 DEF Closed
  <2> QED BY <2>1, <2>2, <2>3
<1> QED BY <1>1, <1>2, <1>3, <1>5 DEF Underway, Ordered

\* The scanner skips blanks and a comment.
LEMMA SkippedKeeps ==
  ASSUME ParserInv, Underway, status = "running", scanning,
         Skipped, UNCHANGED <<open, taken>>
  PROVE  Underway' /\ (Ordered => Ordered') /\ (Closed => Closed')
<1>1. /\ Length' = Length /\ R(curr)' = R(curr') /\ (Clear(curr)' <=> Clear(curr'))
  BY SourceKept DEF Skipped
<1>2. /\ Clear(curr') /\ R(curr').lambdas = R(curr).lambdas
      /\ R(curr').closing <=> R(curr).closing
      /\ R(curr').wrong <=> R(curr).wrong
  BY DEF Skipped, Lexed
<1>3. /\ has_token' = has_token /\ token' = token /\ Waiting' = Waiting
      /\ ~has_token /\ (~scanning' => curr' = Length)
  BY DEF Skipped, Underway, Waiting
<1>4. curr = Length => curr' = Length
  <2>1. curr' \in curr .. Length
    BY DEF Skipped
  <2> QED BY <2>1, CountsAre
<1>5. /\ Balanced \/ Doomed => Balanced' \/ Doomed'
      /\ Closed => Closed'
  <2>1. ASSUME Balanced
        PROVE  Balanced' \/ Doomed'
    BY <1>1, <1>2, <1>3, <2>1 DEF Balanced
  <2>2. ASSUME Doomed
        PROVE  Doomed'
    BY <1>1, <1>2, <1>3, <2>2 DEF Doomed
  <2>3. ASSUME Closed
        PROVE  Closed'
    BY <1>1, <1>2, <1>3, <1>4, <2>3 DEF Closed
  <2> QED BY <2>1, <2>2, <2>3
<1>6. R(curr').closing <=> token'.type = "LAMBDA_END"
  BY <1>2, <1>3 DEF Underway
<1> QED BY <1>1, <1>2, <1>3, <1>5, <1>6 DEF Underway, Ordered

\* The parser takes a token, or closes a lambda: the reading is as it was.
LEMMA EatKeeps ==
  ASSUME Eat
  PROVE  /\ Length' = Length /\ R(curr)' = R(curr) /\ (Clear(curr)' <=> Clear(curr))
         /\ curr' = curr /\ token' = token /\ status' = status
         /\ scanning' = TRUE /\ has_token' = FALSE /\ Waiting' = "none"
<1>1. /\ source' = source /\ curr' = curr /\ token' = token /\ status' = status
      /\ scanning' = TRUE /\ has_token' = FALSE
  BY DEF Eat
<1>2. Waiting' = "none"
  BY <1>1 DEF Waiting
<1> QED BY <1>1, <1>2, SourceKept

\* Nothing that was taken is a bracket once it is dropped.
LEMMA NothingTaken ==
  NoToken.type = "none" /\ Depth("none") = 0 /\ Depth(NoToken.type) = 0
BY DEF NoToken, Token, Depth

\* parse_any takes the token.
LEMMA TakeKeeps ==
  ASSUME ParserInv, Underway, TakeToken
  PROVE  Underway' /\ (Ordered => Ordered')
<1>1. /\ taken = NoToken /\ has_token /\ (InLambda => token.type # "LAMBDA_END")
      /\ Eat /\ taken' = token /\ open' = open
  BY DEF TakeToken, InLoop, Ready
<1>2. /\ Length' = Length /\ R(curr)' = R(curr) /\ (Clear(curr)' <=> Clear(curr))
      /\ curr' = curr /\ token' = token
      /\ scanning' = TRUE /\ has_token' = FALSE /\ Waiting' = "none"
  BY <1>1, EatKeeps
<1>3. Waiting = token.type
  BY <1>1 DEF Waiting
<1>4. Len(open) \in Nat /\ Len(open) > 0 /\ R(curr).lambdas \in Int
  BY CountsAre
<1>5. /\ Balanced \/ Doomed => Balanced' \/ Doomed'
      /\ Closed => Closed'
  <2>1. ASSUME Balanced
        PROVE  Balanced' \/ Doomed'
    <3>1. /\ ~R(curr).wrong /\ R(curr).lambdas >= 0
          /\ R(curr).lambdas = Len(open) - 1 + Depth(token.type)
      BY <1>1, <1>3, <1>4, <2>1, NothingTaken DEF Balanced
    <3>2. token.type # "LAMBDA_END"
      BY <1>1, <1>4, <3>1 DEF InLambda, Depth
    <3>3. R(curr).lambdas = Len(open) - 1 + Depth(token.type) + Depth("none")
      BY <1>4, <3>1, NothingTaken DEF Depth
    <3> QED BY <1>1, <1>2, <3>1, <3>2, <3>3 DEF Balanced
  <2>2. ASSUME Doomed
        PROVE  Doomed'
    BY <1>1, <1>2, <1>3, <2>2, NothingTaken DEF Doomed
  <2>3. ASSUME Closed
        PROVE  Closed'
    BY <1>1, <2>3 DEF Closed
  <2> QED BY <2>1, <2>2, <2>3
<1> QED BY <1>1, <1>2, <1>5 DEF Underway, Ordered

\* parse_any looks at what it took.
LEMMA DropKeeps ==
  ASSUME ParserInv, Underway, UNCHANGED lexerVars, taken' = NoToken,
         taken.type \notin {"LAMBDA_END", "none"},
         Len(open') = Len(open) + Depth(taken.type)
  PROVE  Underway' /\ (Ordered => Ordered')
<1>1. UNCHANGED <<source, start, curr, scanning, has_token, token, status>>
  BY DEF lexerVars
<1>2. /\ Length' = Length /\ R(curr)' = R(curr) /\ (Clear(curr)' <=> Clear(curr))
      /\ Waiting' = Waiting
  BY <1>1, SourceKept DEF Waiting
<1>3. Len(open) \in Nat /\ Len(open) > 0 /\ R(curr).lambdas \in Int
  BY CountsAre
<1>4. taken'.type = "none" /\ Depth(taken'.type) = 0
  BY NothingTaken
<1>5. /\ Balanced \/ Doomed => Balanced' \/ Doomed'
      /\ Closed => Closed'
  <2>1. ASSUME Balanced
        PROVE  Balanced' \/ Doomed'
    <3>1. R(curr).lambdas = Len(open') - 1 + Depth(taken'.type) + Depth(Waiting)
      BY <1>3, <1>4, <2>1 DEF Balanced, Depth
    <3> QED BY <1>2, <1>4, <2>1, <3>1 DEF Balanced
  <2>2. ASSUME Doomed
        PROVE  Doomed'
    <3>1. Len(open') = 1
      BY <2>2 DEF Doomed, Depth
    <3> QED BY <1>2, <1>4, <2>2, <3>1 DEF Doomed
  <2>3. ASSUME Closed
        PROVE  Closed'
    BY <2>3, NothingTaken DEF Closed
  <2> QED BY <2>1, <2>2, <2>3
<1> QED BY <1>1, <1>2, <1>5 DEF Underway, Ordered

\* A lambda is closed, by the token that waits or by the stale register.
LEMMA CloseKeeps ==
  ASSUME ParserInv, AcceptInv, status = "running", CloseLambda
  PROVE  /\ AcceptInv'
         /\ LambdaEnds /\ has_token /\ Ordered => Ordered'
         /\ LambdaEnds /\ ~has_token => Closed'
<1>1. Underway /\ ~scanning /\ taken = NoToken /\ Len(open) > 1
      /\ (has_token => token.type = "LAMBDA_END")
  BY DEF AcceptInv, CloseLambda, InLoop, Ready, InLambda
<1>2. /\ Clear(curr) /\ (R(curr).closing <=> token.type = "LAMBDA_END")
      /\ (~has_token => curr = Length) /\ (Balanced \/ Closed)
  <2>1. ~Doomed
    <3>1. Doomed => Len(open) = 1
      BY DEF Doomed
    <3>2. Len(open) # 1
      <4>1. Len(open) > 1 /\ Len(open) \in Nat
        BY <1>1, CountsAre
      <4> QED BY <4>1
    <3> QED BY <3>1, <3>2
  <2> QED BY <1>1, <2>1 DEF Underway
<1>3. Len(open) \in Nat /\ R(curr).lambdas \in Int
  BY CountsAre
<1>4. CASE ~LambdaEnds
  <2>1. Exit /\ ~has_token /\ token.type # "LAMBDA_END"
    BY <1>1, <1>4 DEF CloseLambda, LambdaEnds
  <2>2. ~R(curr).closing /\ curr = Length /\ Balanced
    BY <1>2, <2>1 DEF Closed
  <2>3. R(curr).lambdas # 0
    BY <1>1, <1>3, <2>1, <2>2, NothingTaken DEF Balanced, Waiting
  <2>4. ~WellFormed(R(Length))
    BY <2>2, <2>3 DEF WellFormed
  <2>5. status' = "exited" /\ source' = source
    BY <2>1 DEF Exit
  <2> QED BY <1>4, <2>4, <2>5, SourceKept DEF AcceptInv
<1>5. CASE LambdaEnds
  <2>1. /\ Eat /\ open' = Pushed(Front(open), LambdaNode(Last(open)))
        /\ taken' = taken /\ token.type = "LAMBDA_END"
    BY <1>5 DEF CloseLambda, LambdaEnds
  <2>2. Len(open') = Len(open) - 1
    <3> DEFINE rest == Front(open)
               node == LambdaNode(Last(open))
    <3>1. (\E S : rest \in Seq(S)) /\ Len(rest) = Len(open) - 1
      BY <1>1, ListFacts DEF ParserInv, Lists
    <3>2. open' = Pushed(rest, node)
      BY <2>1
    <3> HIDE DEF rest, node
    <3>3. Len(rest) > 0
      BY <1>1, <1>3, <3>1
    <3> QED BY <3>1, <3>2, <3>3, ListFacts
  <2>3. /\ Length' = Length /\ R(curr)' = R(curr) /\ (Clear(curr)' <=> Clear(curr))
        /\ curr' = curr /\ token' = token /\ status' = status
        /\ scanning' = TRUE /\ has_token' = FALSE /\ Waiting' = "none"
    BY <2>1, EatKeeps
  <2>4. ASSUME has_token, Balanced
        PROVE  Balanced'
    <3>1. Depth(Waiting) = -1
      BY <2>1, <2>4 DEF Waiting, Depth
    <3>2. R(curr).lambdas = Len(open') - 1 + Depth(taken.type) + Depth("none")
      BY <1>1, <1>3, <2>2, <2>4, <3>1, NothingTaken DEF Balanced
    <3> QED BY <2>1, <2>3, <2>4, <3>2 DEF Balanced
  <2>5. ASSUME ~has_token, Balanced
        PROVE  Closed'
    BY <1>1, <1>2, <2>1, <2>3, <2>5 DEF Balanced, Closed
  <2>6. ASSUME Closed
        PROVE  Closed'
    BY <2>1, <2>3, <2>6 DEF Closed
  <2>7. Balanced' \/ Closed'
    BY <1>2, <2>4, <2>5, <2>6
  <2>8. Underway'
    BY <1>2, <2>3, <2>7 DEF Underway
  <2>9. ASSUME has_token, Ordered
        PROVE  Ordered'
    <3>1. ~Doomed
      <4>1. Len(open) # 1
        <5>1. Len(open) > 1 /\ Len(open) \in Nat
          BY <1>1, <1>3
        <5> QED BY <5>1
      <4> QED BY <4>1 DEF Doomed
    <3> QED BY <2>4, <2>9, <3>1 DEF Ordered
  <2>10. ~has_token => Closed'
    BY <1>2, <2>5, <2>6
  <2> QED BY <2>3, <2>8, <2>9, <2>10 DEF AcceptInv
<1> QED BY <1>4, <1>5

\* A step of a program that is still running.
LEMMA AcceptStep ==
  ASSUME ParserInv, AcceptInv, status = "running", Next
  PROVE  AcceptInv'
<1>0. Underway
  BY DEF AcceptInv
<1>1. CASE ScanNext
  <2>1. Scan /\ UNCHANGED <<open, taken>> /\ scanning
    BY <1>1 DEF ScanNext, Scan, ScanOperator, ScanComment, ScanString, ScanNumber,
                ScanWord, ScanUnexpected, ScanEnd, Meets
  <2>2. Emitted \/ Skipped \/ Rejected
    BY <1>0, <2>1, ScanReads DEF Underway
  <2>3. CASE Emitted
    BY <1>0, <2>1, <2>3, EmittedKeeps DEF AcceptInv, Emitted
  <2>4. CASE Skipped
    BY <1>0, <2>1, <2>4, SkippedKeeps DEF AcceptInv, Skipped
  <2>5. CASE Rejected
    BY <2>5, SourceKept DEF AcceptInv, Rejected
  <2> QED BY <2>2, <2>3, <2>4, <2>5
<1>2. CASE TakeToken
  <2>1. status' = status
    BY <1>2 DEF TakeToken, Eat
  <2> QED BY <1>0, <1>2, <2>1, TakeKeeps DEF AcceptInv
<1>3. CASE ParseLeaf
  <2>1. /\ open' = Pushed(open, NodeOf(taken)) /\ taken' = NoToken
        /\ UNCHANGED lexerVars /\ taken.type \in Leaves
    BY <1>3 DEF ParseLeaf
  <2>2. taken.type \notin {"LAMBDA_START", "LAMBDA_END", "none"}
    BY <2>1, LeavesAre
  <2>3. Len(open') = Len(open)
    BY <2>1, ListFacts DEF ParserInv, ParserTypeOK, Lists
  <2>4. Len(open') = Len(open) + Depth(taken.type)
    BY <2>2, <2>3, CountsAre DEF Depth
  <2>5. Underway' /\ status' = status
    BY <1>0, <2>1, <2>2, <2>4, DropKeeps DEF lexerVars
  <2> QED BY <2>5 DEF AcceptInv
<1>4. CASE OpenLambda
  <2>1. /\ open' = Append(open, <<>>) /\ taken' = NoToken
        /\ UNCHANGED lexerVars /\ taken.type = "LAMBDA_START"
    BY <1>4 DEF OpenLambda
  <2>2. Len(open') = Len(open) + 1
    BY <2>1, ListFacts DEF ParserInv, ParserTypeOK, Lists
  <2>3. Len(open') = Len(open) + Depth(taken.type)
    BY <2>1, <2>2 DEF Depth
  <2>4. Underway' /\ status' = status
    BY <1>0, <2>1, <2>3, DropKeeps DEF lexerVars
  <2> QED BY <2>4 DEF AcceptInv
<1>5. CASE UnexpectedToken
  <2>1. taken.type = "LAMBDA_END" /\ status' = "exited" /\ source' = source
    BY <1>5 DEF UnexpectedToken, Exit
  <2>2. R(curr).wrong
    BY <1>0, <2>1, NothingTaken DEF Underway, Balanced, Doomed, Closed
  <2>3. ~WellFormed(R(Length))
    BY <2>2, CountsAre, ReadingsOK DEF ParserInv, WellFormed
  <2> QED BY <2>1, <2>3, SourceKept DEF AcceptInv
<1>6. CASE CloseLambda
  BY <1>6, CloseKeeps
<1>7. CASE Finish
  <2>1. /\ taken = NoToken /\ ~has_token /\ ~scanning /\ ~(Len(open) > 1)
        /\ status' = "done" /\ source' = source
    BY <1>7 DEF Finish, InLoop, Ready, InLambda
  <2>2. /\ curr = Length /\ R(curr).comment = 0 /\ R(curr).mode # "string"
        /\ Waiting = "none"
    BY <1>0, <2>1 DEF Underway, Clear, Waiting
  <2>3. Balanced \/ Closed
    BY <1>0, <2>1, <2>2, NothingTaken DEF Underway, Doomed
  <2>4. R(curr).lambdas = 0 \/ R(curr).closing
    <3>1. CASE Balanced
      BY <2>1, <2>2, <3>1, CountsAre, NothingTaken DEF Balanced
    <3> QED BY <2>3, <3>1 DEF Closed
  <2>5. WellFormed(R(Length))
    BY <2>2, <2>3, <2>4 DEF WellFormed, Balanced, Closed
  <2> QED BY <2>1, <2>5, SourceKept DEF AcceptInv
<1> QED BY <1>1, <1>2, <1>3, <1>4, <1>5, <1>6, <1>7 DEF Next

\* A program that has stopped stays so.
LEMMA StoppedStays ==
  ASSUME AcceptInv, status # "running", Next
  PROVE  FALSE
BY DEF Next, ScanNext, Scan, ScanOperator, ScanComment, ScanString, ScanNumber,
       ScanWord, ScanUnexpected, ScanEnd, Meets, TakeToken, ParseLeaf, OpenLambda,
       UnexpectedToken, CloseLambda, Finish, InLoop, Ready

\* Nothing was read yet, and nothing is open.
LEMMA InitAccept ==
  ASSUME Init
  PROVE  AcceptInv
<1>1. /\ source \in Seq(STRING) /\ curr = 0 /\ scanning = TRUE
      /\ has_token = FALSE /\ token = NoToken /\ taken = NoToken
      /\ status = "running" /\ open = << <<>> >>
  BY SourcesAssumption DEF Init, LexerInit
<1>2. R(curr) = Unread
  BY <1>1, ReadingsAre
<1>3. Clear(curr)
  BY <1>2 DEF Unread, Clear, Goes
<1>4. ~R(curr).closing /\ ~R(curr).wrong /\ R(curr).lambdas = 0
  BY <1>2 DEF Unread
<1>5. Len(open) = 1 /\ Waiting = "none"
  BY <1>1 DEF Waiting
<1>6. Balanced
  BY <1>1, <1>4, <1>5, NothingTaken DEF Balanced
<1>7. token.type # "LAMBDA_END"
  BY <1>1, NothingTaken
<1> QED BY <1>1, <1>3, <1>4, <1>6, <1>7 DEF AcceptInv, Underway

\* The invariants are kept.
LEMMA AcceptKept ==
  ASSUME ParserInv, AcceptInv, [Next]_parserVars
  PROVE  ParserInv' /\ AcceptInv'
<1>1. ParserInv'
  BY ParserStep
<1>2. CASE UNCHANGED parserVars
  <2>1. UNCHANGED <<source, start, curr, scanning, has_token, token, status,
                    open, taken>>
    BY <1>2 DEF parserVars, lexerVars
  <2>2. /\ Length' = Length /\ R(curr)' = R(curr) /\ (Clear(curr)' <=> Clear(curr))
        /\ (WellFormed(R(Length))' <=> WellFormed(R(Length)))
    BY <2>1, SourceKept
  <2>3. Underway' <=> Underway
    BY <2>1, <2>2 DEF Underway, Balanced, Doomed, Closed, Waiting
  <2>4. AcceptInv'
    BY <2>1, <2>2, <2>3 DEF AcceptInv
  <2> QED BY <1>1, <2>4
<1>3. CASE Next
  BY <1>1, <1>3, AcceptStep, StoppedStays
<1> QED BY <1>1, <1>2, <1>3

\* Exactly the well-formed sources are accepted, however long they are and
\* however deep their lambdas and comments are: the scanner, which jumps from
\* token to token, and the parser, which is one token behind it, reject what
\* the reading character by character finds wrong, and no more; lambdas left
\* open are let through exactly behind the end of one (parser.cpp:195).
THEOREM AcceptsExactly == Spec => []AcceptsWellFormed
<1>1. Init => ParserInv /\ AcceptInv
  BY InitParser, InitAccept
<1>2. ParserInv /\ AcceptInv /\ [Next]_parserVars => ParserInv' /\ AcceptInv'
  BY AcceptKept
<1>3. ParserInv /\ AcceptInv => AcceptsWellFormed
  <2> SUFFICES ASSUME ParserInv, AcceptInv
               PROVE  AcceptsWellFormed
    OBVIOUS
  <2>1. Reading = R(Length)
    BY DEF Reading, R
  <2>2. status \in {"running", "done", "exited"}
    BY DEF ParserInv, ParserTypeOK
  <2> QED BY <2>1, <2>2 DEF AcceptInv, AcceptsWellFormed
<1> QED BY <1>1, <1>2, <1>3, PTL DEF Spec

-----------------------------------------------------------------------------
(* The tree, told node by node.                                            *)

\* A walk over the tree goes on from where it is.
LEMMA WalkedIs ==
  ASSUME NEW walk
  PROVE  /\ Walked(walk, 0) = walk
         /\ \A n \in Nat : Walked(walk, n + 1) = Told(Walked(walk, n))
<1> DEFINE Is(f, k) == f = [n \in 0 .. k |-> IF n = 0 THEN walk ELSE Told(f[n - 1])]
           Good == {k \in Nat : \E f : Is(f, k)}
           At_(k) == CHOOSE f : Is(f, k)
<1>1. 0 \in Good
  <2>1. Is([n \in 0 .. 0 |-> walk], 0)
    OBVIOUS
  <2> QED BY <2>1
<1>2. ASSUME NEW k \in Nat, k \in Good
      PROVE  k + 1 \in Good
  <2>1. PICK f : Is(f, k)
    BY <1>2
  <2> DEFINE g == [n \in 0 .. k + 1 |-> IF n = k + 1 THEN Told(f[k]) ELSE f[n]]
  <2>2. ASSUME NEW n \in 0 .. k + 1
        PROVE  g[n] = IF n = 0 THEN walk ELSE Told(g[n - 1])
    <3>1. CASE n = k + 1
      <4>1. g[n] = Told(f[k])
        BY <3>1
      <4>2. g[k] = f[k] /\ n # 0 /\ n - 1 = k
        BY <3>1
      <4> HIDE DEF g
      <4> QED BY <3>1, <4>1, <4>2
    <3>2. CASE n # k + 1
      <4>1. g[n] = f[n] /\ n \in 0 .. k
        BY <3>2
      <4>2. n # 0 => g[n - 1] = f[n - 1]
        BY <4>1
      <4>3. f[n] = IF n = 0 THEN walk ELSE Told(f[n - 1])
        BY <2>1, <4>1
      <4> HIDE DEF g
      <4> QED BY <4>1, <4>2, <4>3
    <3> QED BY <3>1, <3>2
  <2>3. Is(g, k + 1)
    BY <2>2
  <2> HIDE DEF g, Is
  <2>4. k + 1 \in Nat /\ \E h : Is(h, k + 1)
    BY <2>3
  <2> QED BY <2>4
<1>3. ASSUME NEW k \in Nat
      PROVE  Is(At_(k), k) /\ Walked(walk, k) = At_(k)[k]
  <2>1. k \in Good
    <3> HIDE DEF Good
    <3>1. \A n \in 0 .. k - 1 : n \in Good => n + 1 \in Good
      BY <1>2
    <3>2. \A n \in 0 .. k : n \in Good
      BY <1>1, <3>1, Along
    <3> QED BY <3>2
  <2>2. Is(At_(k), k)
    <3>1. \E f : Is(f, k)
      BY <2>1
    <3> HIDE DEF Is
    <3> QED BY <3>1
  <2>3. Walked(walk, k) = At_(k)[k]
    BY DEF Walked
  <2> QED BY <2>2, <2>3
<1> HIDE DEF At_
<1>4. Walked(walk, 0) = walk
  BY <1>3
<1>5. ASSUME NEW n \in Nat
      PROVE  Walked(walk, n + 1) = Told(Walked(walk, n))
  <2>1. PICK f : Is(f, n) /\ Walked(walk, n) = f[n]
    BY <1>3
  <2>2. PICK g : Is(g, n + 1) /\ Walked(walk, n + 1) = g[n + 1]
    BY <1>3
  <2> DEFINE S == {k \in 0 .. n : f[k] = g[k]}
  <2>3. 0 \in S
    BY <2>1, <2>2
  <2>4. ASSUME NEW k \in 0 .. n - 1, k \in S
        PROVE  k + 1 \in S
    <3>1. k + 1 \in 0 .. n /\ k + 1 \in 0 .. n + 1 /\ k + 1 # 0 /\ (k + 1) - 1 = k
      OBVIOUS
    <3>2. f[k + 1] = Told(f[k]) /\ g[k + 1] = Told(g[k])
      BY <2>1, <2>2, <3>1
    <3> QED BY <2>4, <3>1, <3>2
  <2>5. n \in S
    <3> HIDE DEF S, Is
    <3>1. \A k \in 0 .. n - 1 : k \in S => k + 1 \in S
      BY <2>4
    <3>2. \A k \in 0 .. n : k \in S
      BY <2>3, <3>1, Along
    <3> QED BY <3>2
  <2>6. n + 1 \in 0 .. n + 1 /\ n + 1 # 0 /\ (n + 1) - 1 = n
    OBVIOUS
  <2>7. g[n + 1] = Told(g[n])
    BY <2>2, <2>6
  <2> QED BY <2>1, <2>2, <2>5, <2>7
<1> QED BY <1>4, <1>5

\* Some nodes further, and then some more.
LEMMA WalkedOn ==
  ASSUME NEW walk, NEW m \in Nat, NEW n \in Nat
  PROVE  Walked(walk, m + n) = Walked(Walked(walk, m), n)
<1> DEFINE there == Walked(walk, m)
           S == {k \in 0 .. n : Walked(walk, m + k) = Walked(there, k)}
<1>1. 0 \in S
  <2>1. Walked(there, 0) = there /\ m + 0 = m
    BY WalkedIs
  <2> QED BY <2>1
<1>2. ASSUME NEW k \in 0 .. n - 1, k \in S
      PROVE  k + 1 \in S
  <2>1. k \in Nat /\ m + k \in Nat /\ (m + k) + 1 = m + (k + 1) /\ k + 1 \in 0 .. n
    OBVIOUS
  <2>2. Walked(walk, m + k) = Walked(there, k)
    BY <1>2
  <2> HIDE DEF there
  <2>3. /\ Walked(walk, (m + k) + 1) = Told(Walked(walk, m + k))
        /\ Walked(there, k + 1) = Told(Walked(there, k))
    BY <2>1, WalkedIs
  <2> QED BY <2>1, <2>2, <2>3
<1>3. n \in S
  <2> HIDE DEF S
  <2>1. \A k \in 0 .. n - 1 : k \in S => k + 1 \in S
    BY <1>2
  <2>2. \A k \in 0 .. n : k \in S
    BY <1>1, <2>1, Along
  <2> QED BY <2>2
<1> QED BY <1>3

\* A walk: what is left to tell, and what is told.
Walk(left, spelled) == [left |-> left, spelled |-> spelled]

\* A list of nodes is told as some other, whatever is told before and is left
\* behind it.
Telling(list, told) ==
  /\ IsSeq(list) /\ IsSeq(told)
  /\ \A rest, before : IsSeq(rest) /\ IsSeq(before) =>
       Walked(Walk(list \o rest, before), Len(told)) = Walk(rest, before \o told)

\* The next node, when it is no lambda.
LEMMA TellLeaf ==
  ASSUME NEW node, node.op # "lambda", NEW rest, NEW before, IsSeq(rest)
  PROVE  Told(Walk(<<node>> \o rest, before)) = Walk(rest, Append(before, node))
<1>1. PICK left : left = <<node>> \o rest
  OBVIOUS
<1>2. left # <<>> /\ Head(left) = node /\ Tail(left) = rest
  BY <1>1, HeadFacts
<1>3. Told(Walk(left, before)) = Walk(rest, Append(before, node))
  BY <1>2 DEF Told, Walk
<1> QED BY <1>1, <1>3

\* The next node, when it is one.
LEMMA TellLambda ==
  ASSUME NEW code, NEW rest, NEW before, IsSeq(rest)
  PROVE  Told(Walk(<<LambdaNode(code)>> \o rest, before)) =
           Walk(code \o (<<Bracket("]")>> \o rest), Append(before, Bracket("[")))
<1>1. PICK left : left = <<LambdaNode(code)>> \o rest
  OBVIOUS
<1>2. left # <<>> /\ Head(left) = LambdaNode(code) /\ Tail(left) = rest
  BY <1>1, HeadFacts
<1>3. LambdaNode(code).op = "lambda" /\ LambdaNode(code).code = code
  BY DEF LambdaNode, Node
<1>4. Told(Walk(left, before)) =
        Walk(code \o (<<Bracket("]")>> \o rest), Append(before, Bracket("[")))
  BY <1>2, <1>3 DEF Told, Walk
<1> QED BY <1>1, <1>4

\* No nodes are told as nothing.
LEMMA TellingNothing == Telling(<<>>, <<>>)
<1>1. IsSeq(<<>>) /\ Len(<<>>) = 0
  <2>1. <<>> \in Seq({})
    OBVIOUS
  <2> QED BY <2>1 DEF IsSeq
<1>2. ASSUME NEW rest, NEW before, IsSeq(rest), IsSeq(before)
      PROVE  Walked(Walk(<<>> \o rest, before), 0) = Walk(rest, before \o <<>>)
  <2>1. <<>> \o rest = rest /\ before \o <<>> = before
    BY <1>1, <1>2, ConcatFacts
  <2> QED BY <2>1, WalkedIs
<1> QED BY <1>1, <1>2 DEF Telling

\* One more leaf is one more node told.
LEMMA TellingLeaf ==
  ASSUME NEW list, NEW told, Telling(list, told), NEW node, node.op # "lambda"
  PROVE  Telling(Append(list, node), Append(told, node))
<1>0. IsSeq(list) /\ IsSeq(told)
  BY DEF Telling
<1>1. /\ IsSeq(Append(list, node)) /\ IsSeq(Append(told, node)) /\ IsSeq(<<node>>)
      /\ Append(list, node) = list \o <<node>> /\ Append(told, node) = told \o <<node>>
      /\ Len(told) \in Nat /\ Len(Append(told, node)) = Len(told) + 1
  BY <1>0, AppendFacts
<1>2. ASSUME NEW rest, NEW before, IsSeq(rest), IsSeq(before)
      PROVE  Walked(Walk(Append(list, node) \o rest, before), Len(told) + 1)
               = Walk(rest, before \o Append(told, node))
  <2>1. Append(list, node) \o rest = list \o (<<node>> \o rest) /\ IsSeq(<<node>> \o rest)
    BY <1>0, <1>1, <1>2, ConcatTwice, ConcatFacts
  <2>2. PICK x : x = Walk(Append(list, node) \o rest, before)
    OBVIOUS
  <2>3. Walked(x, Len(told)) = Walk(<<node>> \o rest, before \o told)
    BY <1>2, <2>1, <2>2 DEF Telling
  <2>4. Walked(x, Len(told) + 1) = Told(Walked(x, Len(told)))
    BY <1>1, WalkedIs
  <2>5. Walked(x, Len(told) + 1) = Walk(rest, Append(before \o told, node))
    BY <1>2, <2>3, <2>4, TellLeaf
  <2>6. Append(before \o told, node) = before \o Append(told, node)
    <3>1. IsSeq(before \o told)
      BY <1>0, <1>2, ConcatFacts
    <3>2. Append(before \o told, node) = (before \o told) \o <<node>>
      BY <3>1, AppendFacts
    <3>3. (before \o told) \o <<node>> = before \o (told \o <<node>>)
      <4>1. IsSeq(before) /\ IsSeq(told) /\ IsSeq(<<node>>)
        BY <1>0, <1>1, <1>2
      <4> QED BY <4>1, ConcatTwice
    <3> QED BY <1>1, <3>2, <3>3
  <2> QED BY <2>2, <2>5, <2>6
<1> QED BY <1>1, <1>2 DEF Telling

\* A lambda is told as its nodes, between brackets.
LEMMA TellingLambda ==
  ASSUME NEW list, NEW told, Telling(list, told),
         NEW code, NEW inside, Telling(code, inside)
  PROVE  Telling(Append(list, LambdaNode(code)),
                 Append(Append(told, Bracket("[")) \o inside, Bracket("]")))
<1> DEFINE node == LambdaNode(code)
           opened == Append(told, Bracket("["))
           closed == Append(opened \o inside, Bracket("]"))
<1>0. IsSeq(list) /\ IsSeq(told) /\ IsSeq(code) /\ IsSeq(inside)
  BY DEF Telling
<1>1. /\ IsSeq(Append(list, node)) /\ IsSeq(<<node>>)
      /\ Append(list, node) = list \o <<node>>
      /\ IsSeq(<<Bracket("]")>>) /\ Len(told) \in Nat
  BY <1>0, AppendFacts
<1>2. IsSeq(opened) /\ Len(opened) = Len(told) + 1 /\ opened = told \o <<Bracket("[")>>
      /\ IsSeq(<<Bracket("[")>>)
  BY <1>0, AppendFacts
<1>3. IsSeq(opened \o inside) /\ Len(opened \o inside) = Len(told) + 1 + Len(inside)
      /\ Len(inside) \in Nat
  <2> HIDE DEF opened
  <2> QED BY <1>0, <1>2, ConcatFacts
<1>4. /\ IsSeq(closed) /\ closed = (opened \o inside) \o <<Bracket("]")>>
      /\ Len(closed) = (Len(told) + 1 + Len(inside)) + 1
  <2>1. PICK body : body = opened \o inside
    OBVIOUS
  <2> HIDE DEF opened
  <2>2. IsSeq(body) /\ Len(body) = Len(told) + 1 + Len(inside)
    BY <1>3, <2>1
  <2>3. IsSeq(Append(body, Bracket("]"))) /\ Len(Append(body, Bracket("]"))) = Len(body) + 1
    BY <2>2, Appended
  <2>4. Append(body, Bracket("]")) = body \o <<Bracket("]")>>
    BY <2>2, AppendFacts
  <2> QED BY <2>1, <2>2, <2>3, <2>4
<1> HIDE DEF node, opened, closed
<1>5. ASSUME NEW rest, NEW before, IsSeq(rest), IsSeq(before)
      PROVE  Walked(Walk(Append(list, node) \o rest, before), Len(closed))
               = Walk(rest, before \o closed)
  <2>1. Append(list, node) \o rest = list \o (<<node>> \o rest) /\ IsSeq(<<node>> \o rest)
    <3>1. IsSeq(list) /\ IsSeq(<<node>>) /\ IsSeq(rest)
      BY <1>0, <1>1, <1>5
    <3>2. (list \o <<node>>) \o rest = list \o (<<node>> \o rest)
      BY <3>1, ConcatTwice
    <3>3. IsSeq(<<node>> \o rest)
      BY <3>1, ConcatFacts
    <3> QED BY <1>1, <3>2, <3>3
  <2>2. PICK x : x = Walk(Append(list, node) \o rest, before)
    OBVIOUS
  <2>3. Walked(x, Len(told)) = Walk(<<node>> \o rest, before \o told)
    BY <1>5, <2>1, <2>2 DEF Telling
  <2>4. Walked(x, Len(told) + 1) = Told(Walked(x, Len(told)))
    BY <1>1, WalkedIs
  <2> DEFINE tail == <<Bracket("]")>> \o rest
             first == Append(before \o told, Bracket("["))
  <2>5. Walked(x, Len(told) + 1) = Walk(code \o tail, first)
    BY <1>5, <2>3, <2>4, TellLambda DEF node
  <2>6. IsSeq(before \o told) /\ IsSeq(tail) /\ IsSeq(first)
        /\ first = (before \o told) \o <<Bracket("[")>>
    BY <1>0, <1>1, <1>5, ConcatFacts, AppendFacts
  <2> HIDE DEF first
  <2>7. first = before \o opened
    <3>1. (before \o told) \o <<Bracket("[")>> = before \o (told \o <<Bracket("[")>>)
      <4>1. IsSeq(before) /\ IsSeq(told) /\ IsSeq(<<Bracket("[")>>)
        BY <1>0, <1>2, <1>5
      <4> QED BY <4>1, ConcatTwice
    <3> QED BY <1>2, <2>6, <3>1
  <2>8. Walked(Walk(code \o tail, first), Len(inside)) = Walk(tail, first \o inside)
    <3> HIDE DEF tail
    <3> QED BY <2>6 DEF Telling
  <2>9. PICK k : k = Len(told) + 1 + Len(inside) /\ k \in Nat
    BY <1>1, <1>3
  <2>10. Walked(x, k) = Walk(tail, first \o inside)
    <3> HIDE DEF tail
    <3>1. Len(told) + 1 \in Nat
      BY <1>1
    <3>2. Walked(x, (Len(told) + 1) + Len(inside))
            = Walked(Walked(x, Len(told) + 1), Len(inside))
      BY <1>3, <3>1, WalkedOn
    <3> QED BY <2>5, <2>8, <2>9, <3>2
  <2>11. Walked(x, k + 1) = Told(Walk(tail, first \o inside))
    <3> HIDE DEF tail
    <3>1. Walked(x, k + 1) = Told(Walked(x, k))
      BY <2>9, WalkedIs
    <3> QED BY <2>10, <3>1
  <2>12. Bracket("]").op # "lambda"
    BY DEF Bracket, Node
  <2>13. Walked(x, k + 1) = Walk(rest, Append(first \o inside, Bracket("]")))
    BY <1>5, <2>11, <2>12, TellLeaf
  <2>14. Append(first \o inside, Bracket("]")) = before \o closed
    <3>1. first \o inside = before \o (opened \o inside)
      <4>1. (before \o opened) \o inside = before \o (opened \o inside)
        <5>1. IsSeq(before) /\ IsSeq(opened) /\ IsSeq(inside)
          BY <1>0, <1>2, <1>5
        <5> QED BY <5>1, ConcatTwice
      <4> QED BY <2>7, <4>1
    <3>2. IsSeq(first \o inside)
      BY <1>0, <2>6, ConcatFacts
    <3>3. Append(first \o inside, Bracket("]")) = (first \o inside) \o <<Bracket("]")>>
      BY <3>2, AppendFacts
    <3>4. (before \o (opened \o inside)) \o <<Bracket("]")>>
            = before \o ((opened \o inside) \o <<Bracket("]")>>)
      <4>1. IsSeq(before) /\ IsSeq(opened \o inside) /\ IsSeq(<<Bracket("]")>>)
        BY <1>1, <1>3, <1>5
      <4> QED BY <4>1, ConcatTwice
    <3> QED BY <1>4, <3>1, <3>3, <3>4
  <2>15. Len(closed) = k + 1
    BY <1>4, <2>9
  <2> QED BY <2>2, <2>13, <2>14, <2>15
<1>6. Telling(Append(list, node), closed)
  BY <1>1, <1>4, <1>5 DEF Telling
<1> QED BY <1>6 DEF node, opened, closed

-----------------------------------------------------------------------------
(* The open lists, against the words.                                      *)

\* The words a list of nodes stands for, from one position to another.
Spans(list, words, from, to) ==
  \E told : /\ Telling(list, told) /\ from + Len(told) = to
            /\ \A j \in 1 .. Len(told) : Spells(told[j], words, from + j)

\* Where each open list begins: behind the bracket that opened it, and the
\* list around it ends before that bracket.
Layout(lists, words, begin, to) ==
  /\ IsSeq(lists) /\ Len(lists) > 0 /\ to \in Nat
  /\ begin \in [1 .. Len(lists) -> Nat] /\ begin[1] = 0
  /\ \A i \in 1 .. Len(lists) - 1 :
       /\ Spans(lists[i], words, begin[i], begin[i + 1] - 1)
       /\ begin[i + 1] \in 1 .. Len(words) /\ words[begin[i + 1]] = <<"[">>
  /\ Spans(lists[Len(lists)], words, begin[Len(lists)], to)

\* No nodes stand for no words.
LEMMA SpansNothing ==
  ASSUME NEW words, NEW n \in Nat
  PROVE  Spans(<<>>, words, n, n)
<1>1. Len(<<>>) = 0
  OBVIOUS
<1>2. Telling(<<>>, <<>>) /\ n + Len(<<>>) = n
      /\ \A j \in 1 .. Len(<<>>) : Spells(<<>>[j], words, n + j)
  BY <1>1, TellingNothing
<1> QED BY <1>2 DEF Spans

\* One more leaf is one more word.
LEMMA SpansLeaf ==
  ASSUME NEW list, NEW words, NEW from \in Nat, NEW to \in Nat,
         Spans(list, words, from, to),
         NEW node, node.op # "lambda", Spells(node, words, to + 1)
  PROVE  Spans(Append(list, node), words, from, to + 1)
<1>1. PICK told : /\ Telling(list, told) /\ from + Len(told) = to
                  /\ \A j \in 1 .. Len(told) : Spells(told[j], words, from + j)
  BY DEF Spans
<1>2. PICK longer : longer = Append(told, node)
  OBVIOUS
<1>3. Telling(Append(list, node), longer)
  BY <1>1, <1>2, TellingLeaf
<1>4. /\ Len(told) \in Nat /\ Len(longer) = Len(told) + 1
      /\ \A i \in 1 .. Len(told) : longer[i] = told[i]
      /\ longer[Len(told) + 1] = node
  BY <1>1, <1>2, AppendFacts DEF Telling
<1>5. ASSUME NEW j \in 1 .. Len(longer)
      PROVE  Spells(longer[j], words, from + j)
  <2>1. CASE j \in 1 .. Len(told)
    BY <1>1, <1>4, <2>1
  <2>2. CASE j = Len(told) + 1
    <3>1. from + j = to + 1
      BY <1>1, <1>4, <2>2
    <3> QED BY <1>4, <2>2, <3>1
  <2> QED BY <1>4, <2>1, <2>2
<1>6. from + Len(longer) = to + 1
  BY <1>1, <1>4
<1> QED BY <1>3, <1>5, <1>6 DEF Spans

\* A lambda stands for the words of its nodes and the two brackets.
LEMMA SpansLambda ==
  ASSUME NEW list, NEW words, NEW from \in Nat, NEW at \in Nat, NEW to \in Nat,
         Spans(list, words, from, at - 1), Spells(Bracket("["), words, at),
         NEW code, Spans(code, words, at, to), Spells(Bracket("]"), words, to + 1)
  PROVE  Spans(Append(list, LambdaNode(code)), words, from, to + 1)
<1>1. PICK told : /\ Telling(list, told) /\ from + Len(told) = at - 1
                  /\ \A j \in 1 .. Len(told) : Spells(told[j], words, from + j)
  BY DEF Spans
<1>2. PICK inside : /\ Telling(code, inside) /\ at + Len(inside) = to
                    /\ \A j \in 1 .. Len(inside) : Spells(inside[j], words, at + j)
  BY DEF Spans
<1>3. PICK opened : opened = Append(told, Bracket("["))
  OBVIOUS
<1>4. PICK body : body = opened \o inside
  OBVIOUS
<1>5. PICK longer : longer = Append(body, Bracket("]"))
  OBVIOUS
<1>6. Telling(Append(list, LambdaNode(code)), longer)
  BY <1>1, <1>2, <1>3, <1>4, <1>5, TellingLambda
<1>7. /\ Len(told) \in Nat /\ Len(opened) = Len(told) + 1 /\ IsSeq(opened)
      /\ \A i \in 1 .. Len(told) : opened[i] = told[i]
      /\ opened[Len(told) + 1] = Bracket("[")
  <2>1. IsSeq(told)
    BY <1>1 DEF Telling
  <2> QED BY <1>3, <2>1, Appended
<1>8. /\ Len(inside) \in Nat /\ Len(body) = Len(opened) + Len(inside) /\ IsSeq(body)
      /\ \A i \in 1 .. Len(opened) + Len(inside) :
           body[i] = IF i <= Len(opened) THEN opened[i] ELSE inside[i - Len(opened)]
  BY <1>2, <1>4, <1>7, ConcatFacts DEF Telling
<1>9. /\ Len(longer) = Len(body) + 1
      /\ \A i \in 1 .. Len(body) : longer[i] = body[i]
      /\ longer[Len(body) + 1] = Bracket("]")
  BY <1>5, <1>8, AppendFacts
<1>a. PICK t \in Nat, n \in Nat : t = Len(told) /\ n = Len(inside)
  BY <1>7, <1>8
<1>b. from + t = at - 1 /\ at + n = to
  BY <1>1, <1>2, <1>a
<1>c. Len(opened) = t + 1 /\ Len(body) = (t + 1) + n /\ Len(longer) = ((t + 1) + n) + 1
  BY <1>7, <1>8, <1>9, <1>a
<1>10. ASSUME NEW j \in 1 .. Len(longer)
       PROVE  Spells(longer[j], words, from + j)
  <2>1. CASE j \in 1 .. Len(told)
    <3>1. j \in 1 .. Len(opened) + Len(inside) /\ j <= Len(opened) /\ j \in 1 .. Len(body)
      BY <1>7, <1>8, <2>1
    <3>2. longer[j] = told[j]
      BY <1>7, <1>8, <1>9, <2>1, <3>1
    <3> QED BY <1>1, <2>1, <3>2
  <2>2. CASE j = Len(told) + 1
    <3>1. /\ j \in 1 .. Len(opened) + Len(inside) /\ j <= Len(opened)
          /\ j \in 1 .. Len(body) /\ from + j = at
      BY <1>1, <1>7, <1>8, <2>2
    <3>2. longer[j] = Bracket("[")
      BY <1>7, <1>8, <1>9, <2>2, <3>1
    <3> QED BY <3>1, <3>2
  <2>3. CASE j \in Len(told) + 2 .. Len(body)
    <3>1. PICK i : i = j - Len(opened)
      OBVIOUS
    <3>2. /\ j \in 1 .. Len(opened) + Len(inside) /\ ~(j <= Len(opened))
          /\ j \in 1 .. Len(body) /\ i \in 1 .. Len(inside) /\ from + j = at + i
      BY <1>a, <1>b, <1>c, <2>3, <3>1, SMTT(30)
    <3>3. longer[j] = inside[i]
      BY <1>8, <1>9, <3>1, <3>2
    <3> QED BY <1>2, <3>2, <3>3
  <2>4. CASE j = Len(body) + 1
    <3>1. from + j = to + 1
      <4>1. j = ((t + 1) + n) + 1
        BY <1>c, <2>4
      <4> QED BY <1>b, <4>1
    <3> QED BY <1>9, <2>4, <3>1
  <2>5. j \in 1 .. Len(body) + 1 /\ Len(body) \in Nat
    BY <1>7, <1>8, <1>9
  <2> QED BY <1>7, <2>1, <2>2, <2>3, <2>4, <2>5
<1>11. from + Len(longer) = to + 1
  <2>1. PICK l : l = Len(longer)
    OBVIOUS
  <2>2. l = ((t + 1) + n) + 1
    BY <1>c, <2>1
  <2>3. from + l = to + 1
    BY <1>b, <2>2
  <2> QED BY <2>1, <2>3
<1> QED BY <1>6, <1>10, <1>11 DEF Spans

\* One more word changes nothing in front of it.
LEMMA SpansGrow ==
  ASSUME NEW list, NEW words, IsSeq(words), NEW word, NEW from \in Nat, NEW to \in Int,
         Spans(list, words, from, to), to <= Len(words)
  PROVE  Spans(list, Append(words, word), from, to)
<1>1. PICK told : /\ Telling(list, told) /\ from + Len(told) = to
                  /\ \A j \in 1 .. Len(told) : Spells(told[j], words, from + j)
  BY DEF Spans
<1>2. PICK more : more = Append(words, word)
  OBVIOUS
<1>3. /\ Len(words) \in Nat /\ Len(more) = Len(words) + 1
      /\ \A i \in 1 .. Len(words) : more[i] = words[i]
  BY <1>2, AppendFacts
<1>4. Len(told) \in Nat
  BY <1>1, AppendFacts DEF Telling
<1>5. ASSUME NEW j \in 1 .. Len(told)
      PROVE  Spells(told[j], more, from + j)
  <2>1. PICK i : i = from + j
    OBVIOUS
  <2>2. i \in 1 .. Len(words) /\ ~(i > Len(words)) /\ ~(i > Len(more))
    BY <1>1, <1>3, <1>4, <2>1
  <2>3. Spells(told[j], words, i)
    BY <1>1, <2>1
  <2>4. more[i] = words[i]
    BY <1>3, <2>2
  <2>5. Spells(told[j], more, i)
    BY <2>2, <2>3, <2>4 DEF Spells
  <2> QED BY <2>1, <2>5
<1> QED BY <1>1, <1>2, <1>5 DEF Spans

\* Adding a node to the innermost list leaves the others alone.
LEMMA PushedIs ==
  ASSUME NEW lists, IsSeq(lists), Len(lists) > 0, NEW node
  PROVE  /\ IsSeq(Pushed(lists, node)) /\ Len(Pushed(lists, node)) = Len(lists)
         /\ \A i \in 1 .. Len(lists) - 1 : Pushed(lists, node)[i] = lists[i]
         /\ Pushed(lists, node)[Len(lists)] = Append(lists[Len(lists)], node)
         /\ IsSeq(Front(lists)) /\ Len(Front(lists)) = Len(lists) - 1
         /\ \A i \in 1 .. Len(lists) - 1 : Front(lists)[i] = lists[i]
         /\ Last(lists) = lists[Len(lists)]
         /\ Len(lists) \in Nat
<1>1. PICK S : lists \in Seq(S)
  BY DEF IsSeq
<1>2. Len(lists) \in Nat
  BY <1>1, LenProperties
<1>3. PICK front : front = Front(lists)
  OBVIOUS
<1>4. /\ front \in Seq(S) /\ Len(front) = Len(lists) - 1
      /\ \A i \in 1 .. Len(lists) - 1 : front[i] = lists[i]
  <2>1. \A i \in 1 .. Len(lists) - 1 : lists[i] \in S
    BY <1>1, <1>2, ElementOfSeq
  <2>2. 1 \in Int /\ Len(lists) - 1 \in Int
    BY <1>2
  <2>3. front = SubSeq(lists, 1, Len(lists) - 1)
    BY <1>3 DEF Front
  <2>4. PICK n : n = Len(lists) - 1
    OBVIOUS
  <2>5. /\ front \in Seq(S) /\ Len(front) = IF 1 <= n THEN n - 1 + 1 ELSE 0
        /\ \A i \in 1 .. n - 1 + 1 : front[i] = lists[1 + i - 1]
    BY <2>1, <2>2, <2>3, <2>4, SubSeqProperties
  <2>6. n \in Nat /\ n - 1 + 1 = n
    BY <1>2, <2>4
  <2>7. Len(front) = n
    BY <2>5, <2>6
  <2>8. ASSUME NEW i \in 1 .. n
        PROVE  front[i] = lists[i]
    <3>1. i \in 1 .. n - 1 + 1 /\ 1 + i - 1 = i
      BY <2>6
    <3> QED BY <2>5, <3>1
  <2> QED BY <2>4, <2>5, <2>7, <2>8
<1>5. IsSeq(front)
  BY <1>4 DEF IsSeq
<1>6. Last(lists) = lists[Len(lists)]
  BY DEF Last
<1>7. PICK new : new = Append(lists[Len(lists)], node)
  OBVIOUS
<1>8. PICK pushed : pushed = Append(front, new)
  OBVIOUS
<1>9. Pushed(lists, node) = pushed
  BY <1>3, <1>6, <1>7, <1>8 DEF Pushed
<1>10. /\ IsSeq(pushed) /\ Len(pushed) = Len(front) + 1
       /\ \A i \in 1 .. Len(front) : pushed[i] = front[i]
       /\ pushed[Len(front) + 1] = new
  BY <1>5, <1>8, Appended
<1>11. Len(front) + 1 = Len(lists)
  BY <1>2, <1>4
<1>12. \A i \in 1 .. Len(lists) - 1 : pushed[i] = lists[i]
  BY <1>4, <1>10
<1> QED BY <1>2, <1>3, <1>4, <1>5, <1>6, <1>7, <1>9, <1>10, <1>11, <1>12

\* A leaf is put behind the nodes of the innermost list.
LEMMA LayoutLeaf ==
  ASSUME NEW lists, NEW words, NEW begin, NEW to, Layout(lists, words, begin, to),
         NEW node, node.op # "lambda", Spells(node, words, to + 1)
  PROVE  Layout(Pushed(lists, node), words, begin, to + 1)
<1>1. PICK k : k = Len(lists)
  OBVIOUS
<1>2. PICK new : new = Pushed(lists, node)
  OBVIOUS
<1>3. IsSeq(lists) /\ k > 0 /\ to \in Nat
  BY <1>1 DEF Layout
<1>4. /\ IsSeq(new) /\ Len(new) = k /\ k \in Nat
      /\ \A i \in 1 .. k - 1 : new[i] = lists[i]
      /\ new[k] = Append(lists[k], node)
  BY <1>1, <1>2, <1>3, PushedIs
<1>5. /\ begin \in [1 .. k -> Nat] /\ begin[1] = 0
      /\ \A i \in 1 .. k - 1 :
           /\ Spans(lists[i], words, begin[i], begin[i + 1] - 1)
           /\ begin[i + 1] \in 1 .. Len(words) /\ words[begin[i + 1]] = <<"[">>
      /\ Spans(lists[k], words, begin[k], to)
  BY <1>1 DEF Layout
<1>6. begin[k] \in Nat
  <2>1. k \in 1 .. k
    BY <1>3, <1>4
  <2> QED BY <1>5, <2>1
<1>7. Spans(new[k], words, begin[k], to + 1)
  BY <1>3, <1>4, <1>5, <1>6, SpansLeaf
<1>8. ASSUME NEW i \in 1 .. k - 1
      PROVE  /\ Spans(new[i], words, begin[i], begin[i + 1] - 1)
             /\ begin[i + 1] \in 1 .. Len(words) /\ words[begin[i + 1]] = <<"[">>
  BY <1>4, <1>5
<1>9. to + 1 \in Nat
  BY <1>3
<1>10. Layout(new, words, begin, to + 1)
  BY <1>3, <1>4, <1>5, <1>7, <1>8, <1>9 DEF Layout
<1> QED BY <1>2, <1>10

\* The word [ opens a list behind it.
LEMMA LayoutOpen ==
  ASSUME NEW lists, NEW words, NEW begin, NEW to, Layout(lists, words, begin, to),
         to + 1 <= Len(words), words[to + 1] = <<"[">>, Len(words) \in Nat
  PROVE  \E b : Layout(Append(lists, <<>>), words, b, to + 1)
<1>1. PICK k : k = Len(lists)
  OBVIOUS
<1>2. PICK new : new = Append(lists, <<>>)
  OBVIOUS
<1>3. IsSeq(lists) /\ k > 0 /\ to \in Nat
  BY <1>1 DEF Layout
<1>4. /\ IsSeq(new) /\ Len(new) = k + 1 /\ k \in Nat
      /\ \A i \in 1 .. k : new[i] = lists[i]
      /\ new[k + 1] = <<>>
  BY <1>1, <1>2, <1>3, Appended
<1>5. /\ begin \in [1 .. k -> Nat] /\ begin[1] = 0
      /\ \A i \in 1 .. k - 1 :
           /\ Spans(lists[i], words, begin[i], begin[i + 1] - 1)
           /\ begin[i + 1] \in 1 .. Len(words) /\ words[begin[i + 1]] = <<"[">>
      /\ Spans(lists[k], words, begin[k], to)
  BY <1>1 DEF Layout
<1>6. PICK b : b = [i \in 1 .. k + 1 |-> IF i = k + 1 THEN to + 1 ELSE begin[i]]
  OBVIOUS
<1>7. b[k + 1] = to + 1 /\ \A i \in 1 .. k : b[i] = begin[i]
  <2>1. k + 1 \in 1 .. k + 1
    BY <1>4
  <2>2. ASSUME NEW i \in 1 .. k
        PROVE  b[i] = begin[i]
    <3>1. i \in 1 .. k + 1 /\ i # k + 1
      BY <1>4
    <3> QED BY <1>6, <3>1
  <2> QED BY <1>6, <2>1, <2>2
<1>8. b \in [1 .. k + 1 -> Nat]
  <2>1. ASSUME NEW i \in 1 .. k + 1
        PROVE  (IF i = k + 1 THEN to + 1 ELSE begin[i]) \in Nat
    <3>1. CASE i = k + 1
      BY <1>3, <3>1
    <3>2. CASE i # k + 1
      <4>1. i \in 1 .. k
        BY <1>4, <3>2
      <4> QED BY <1>5, <3>2, <4>1
    <3> QED BY <3>1, <3>2
  <2> QED BY <1>6, <2>1
<1>9. Spans(new[k + 1], words, b[k + 1], to + 1)
  <2>1. to + 1 \in Nat
    BY <1>3
  <2> QED BY <1>4, <1>7, <2>1, SpansNothing
<1>10. ASSUME NEW i \in 1 .. k
       PROVE  /\ Spans(new[i], words, b[i], b[i + 1] - 1)
              /\ b[i + 1] \in 1 .. Len(words) /\ words[b[i + 1]] = <<"[">>
  <2>1. CASE i = k
    <3>1. b[i + 1] = to + 1 /\ b[i + 1] - 1 = to /\ b[i] = begin[k] /\ new[i] = lists[k]
      BY <1>3, <1>4, <1>7, <2>1
    <3>2. to + 1 \in 1 .. Len(words)
      BY <1>3
    <3> QED BY <1>5, <3>1, <3>2
  <2>2. CASE i # k
    <3>1. i \in 1 .. k - 1 /\ i + 1 \in 1 .. k
      BY <1>4, <2>2
    <3>2. b[i] = begin[i] /\ b[i + 1] = begin[i + 1] /\ new[i] = lists[i]
      BY <1>4, <1>7, <3>1
    <3> QED BY <1>5, <3>1, <3>2
  <2> QED BY <2>1, <2>2
<1>11. b[1] = 0 /\ to + 1 \in Nat /\ (k + 1) - 1 = k /\ k + 1 > 0
  <2>1. 1 \in 1 .. k
    BY <1>3, <1>4
  <2> QED BY <1>3, <1>4, <1>5, <1>7, <2>1
<1>12. Layout(new, words, b, to + 1)
  BY <1>4, <1>8, <1>9, <1>10, <1>11 DEF Layout
<1> QED BY <1>2, <1>12

\* A bracket stands for the word [ alone.
LEMMA OpeningSpelled ==
  ASSUME NEW words, NEW i, ~(i > Len(words)), words[i] = <<"[">>
  PROVE  Spells(Bracket("["), words, i)
<1>1. <<"[">>[1] = "["
  OBVIOUS
<1>2. "[" # Quote /\ "[" \notin Digits /\ "[" \notin Letters
  BY OneKind
<1>3. Meant(<<"[">>) = Bracket("[")
  BY <1>1, <1>2 DEF Meant
<1> QED BY <1>3 DEF Spells

\* The innermost list is closed, and put behind the nodes around it.
LEMMA LayoutClose ==
  ASSUME NEW lists, NEW words, NEW begin, NEW to, Layout(lists, words, begin, to),
         Len(lists) > 1, Len(words) \in Nat, Spells(Bracket("]"), words, to + 1)
  PROVE  \E b : Layout(Pushed(Front(lists), LambdaNode(Last(lists))), words, b, to + 1)
<1>1. PICK k : k = Len(lists) - 1
  OBVIOUS
<1>2. IsSeq(lists) /\ Len(lists) \in Nat /\ to \in Nat
  BY AppendFacts DEF Layout
<1>3. k \in Nat /\ k > 0 /\ Len(lists) = k + 1 /\ Len(lists) > 0
  BY <1>1, <1>2
<1>4. PICK front : front = Front(lists)
  OBVIOUS
<1>5. PICK node : node = LambdaNode(lists[k + 1])
  OBVIOUS
<1>6. /\ IsSeq(front) /\ Len(front) = k /\ Last(lists) = lists[k + 1]
      /\ \A i \in 1 .. k : front[i] = lists[i]
  BY <1>1, <1>2, <1>3, <1>4, PushedIs
<1>7. PICK new : new = Pushed(front, node)
  OBVIOUS
<1>8. /\ IsSeq(new) /\ Len(new) = k
      /\ \A i \in 1 .. k - 1 : new[i] = front[i]
      /\ new[k] = Append(front[k], node)
  BY <1>3, <1>6, <1>7, PushedIs
<1>9. /\ begin \in [1 .. k + 1 -> Nat] /\ begin[1] = 0
      /\ \A i \in 1 .. k :
           /\ Spans(lists[i], words, begin[i], begin[i + 1] - 1)
           /\ begin[i + 1] \in 1 .. Len(words) /\ words[begin[i + 1]] = <<"[">>
      /\ Spans(lists[k + 1], words, begin[k + 1], to)
  BY <1>1, <1>3 DEF Layout
<1>10. PICK b : b = [i \in 1 .. k |-> begin[i]]
  OBVIOUS
<1>11. b \in [1 .. k -> Nat] /\ \A i \in 1 .. k : b[i] = begin[i]
  <2>1. \A i \in 1 .. k : begin[i] \in Nat
    <3>1. \A i \in 1 .. k : i \in 1 .. k + 1
      BY <1>3
    <3> QED BY <1>9, <3>1
  <2> QED BY <1>10, <2>1
<1>12. k \in 1 .. k /\ 1 \in 1 .. k /\ k \in 1 .. k + 1 /\ k + 1 \in 1 .. k + 1
  BY <1>3
<1>13. Spans(new[k], words, b[k], to + 1)
  <2>1. PICK at : at = begin[k + 1]
    OBVIOUS
  <2>2. /\ Spans(lists[k], words, begin[k], at - 1)
        /\ at \in 1 .. Len(words) /\ words[at] = <<"[">>
        /\ Spans(lists[k + 1], words, at, to)
    BY <1>9, <1>12, <2>1
  <2>3. at \in Nat /\ begin[k] \in Nat /\ ~(at > Len(words))
    BY <1>9, <1>12, <2>1, <2>2
  <2>4. Spells(Bracket("["), words, at)
    BY <2>2, <2>3, OpeningSpelled
  <2>5. Spans(Append(lists[k], node), words, begin[k], to + 1)
    BY <1>2, <1>5, <2>2, <2>3, <2>4, SpansLambda
  <2> QED BY <1>6, <1>8, <1>11, <1>12, <2>5
<1>14. ASSUME NEW i \in 1 .. k - 1
       PROVE  /\ Spans(new[i], words, b[i], b[i + 1] - 1)
              /\ b[i + 1] \in 1 .. Len(words) /\ words[b[i + 1]] = <<"[">>
  <2>1. i \in 1 .. k /\ i + 1 \in 1 .. k
    BY <1>3
  <2>2. b[i] = begin[i] /\ b[i + 1] = begin[i + 1] /\ new[i] = lists[i]
    BY <1>6, <1>8, <1>11, <2>1
  <2> QED BY <1>9, <2>1, <2>2
<1>15. b[1] = 0 /\ to + 1 \in Nat
  BY <1>2, <1>9, <1>11, <1>12
<1>16. Layout(new, words, b, to + 1)
  BY <1>3, <1>8, <1>11, <1>13, <1>14, <1>15 DEF Layout
<1>17. new = Pushed(Front(lists), LambdaNode(Last(lists)))
  BY <1>4, <1>5, <1>6, <1>7
<1> QED BY <1>16, <1>17

\* One more word is read.
LEMMA LayoutGrow ==
  ASSUME NEW lists, NEW words, IsSeq(words), NEW word,
         NEW begin, NEW to, Layout(lists, words, begin, to), to <= Len(words)
  PROVE  Layout(lists, Append(words, word), begin, to)
<1>1. PICK k : k = Len(lists)
  OBVIOUS
<1>2. PICK more : more = Append(words, word)
  OBVIOUS
<1>3. /\ Len(words) \in Nat /\ Len(more) = Len(words) + 1
      /\ \A i \in 1 .. Len(words) : more[i] = words[i]
  BY <1>2, AppendFacts
<1>4. IsSeq(lists) /\ k \in Nat /\ k > 0 /\ to \in Nat
  BY <1>1, AppendFacts DEF Layout
<1>5. /\ begin \in [1 .. k -> Nat] /\ begin[1] = 0
      /\ \A i \in 1 .. k - 1 :
           /\ Spans(lists[i], words, begin[i], begin[i + 1] - 1)
           /\ begin[i + 1] \in 1 .. Len(words) /\ words[begin[i + 1]] = <<"[">>
      /\ Spans(lists[k], words, begin[k], to)
  BY <1>1 DEF Layout
<1>6. ASSUME NEW i \in 1 .. k - 1
      PROVE  /\ Spans(lists[i], more, begin[i], begin[i + 1] - 1)
             /\ begin[i + 1] \in 1 .. Len(more) /\ more[begin[i + 1]] = <<"[">>
  <2>1. PICK at : at = begin[i + 1]
    OBVIOUS
  <2>2. /\ Spans(lists[i], words, begin[i], at - 1)
        /\ at \in 1 .. Len(words) /\ words[at] = <<"[">> /\ begin[i] \in Nat
    <3>1. i \in 1 .. k
      BY <1>4
    <3> QED BY <1>5, <2>1, <3>1
  <2>3. at - 1 \in Int /\ at - 1 <= Len(words) /\ at \in 1 .. Len(more)
    BY <1>3, <2>2
  <2>4. Spans(lists[i], more, begin[i], at - 1)
    BY <1>2, <2>2, <2>3, SpansGrow
  <2> QED BY <1>3, <2>1, <2>2, <2>3, <2>4
<1>7. Spans(lists[k], more, begin[k], to)
  <2>1. k \in 1 .. k /\ to \in Int
    BY <1>4
  <2>2. begin[k] \in Nat
    BY <1>5, <2>1
  <2> QED BY <1>2, <1>5, <2>1, <2>2, SpansGrow
<1>8. Layout(lists, more, begin, to)
  BY <1>1, <1>4, <1>5, <1>6, <1>7 DEF Layout
<1> QED BY <1>2, <1>8

\* At the end, the outermost list is told as the words.
LEMMA LayoutTold ==
  ASSUME NEW lists, NEW words, NEW begin, NEW to, Layout(lists, words, begin, to),
         Len(lists) = 1
  PROVE  LET walk == Walked(Walk(lists[1], <<>>), to)
         IN  /\ walk.left = <<>> /\ Len(walk.spelled) = to
             /\ \A i \in 1 .. to : Spells(walk.spelled[i], words, i)
<1>1. Spans(lists[1], words, 0, to) /\ to \in Nat
  BY DEF Layout
<1>2. PICK told : /\ Telling(lists[1], told) /\ 0 + Len(told) = to
                  /\ \A j \in 1 .. Len(told) : Spells(told[j], words, 0 + j)
  BY <1>1 DEF Spans
<1>3. IsSeq(lists[1]) /\ IsSeq(told) /\ IsSeq(<<>>) /\ Len(told) \in Nat
  BY <1>2, AppendFacts DEF Telling
<1>4. Len(told) = to
  BY <1>2, <1>3
<1>5. Walked(Walk(lists[1] \o <<>>, <<>>), Len(told)) = Walk(<<>>, <<>> \o told)
  BY <1>2, <1>3 DEF Telling
<1>6. lists[1] \o <<>> = lists[1] /\ <<>> \o told = told
  BY <1>3, ConcatFacts
<1>7. Walked(Walk(lists[1], <<>>), to) = Walk(<<>>, told)
  BY <1>4, <1>5, <1>6
<1>8. ASSUME NEW i \in 1 .. to
      PROVE  Spells(told[i], words, i)
  <2>1. 0 + i = i
    OBVIOUS
  <2> QED BY <1>2, <1>4, <2>1
<1> QED BY <1>4, <1>7, <1>8 DEF Walk

-----------------------------------------------------------------------------
(* Tokens, nodes and words.                                                *)

\* Every digit has a value.
LEMMA DigitsAre ==
  /\ \A d \in Digits : DigitValue[d] \in Nat
  /\ DigitValue["0"] = 0
<1> DEFINE pairs == {
  <<"0", 0>>, <<"1", 1>>, <<"2", 2>>, <<"3", 3>>, <<"4", 4>>,
  <<"5", 5>>, <<"6", 6>>, <<"7", 7>>, <<"8", 8>>, <<"9", 9>>}
<1>1. DigitValue = Mapping(pairs)
  BY DEF DigitValue
<1>2. \A p \in pairs : p[2] \in Nat /\ (p[1] = "0" => p[2] = 0)
  OBVIOUS
<1>3. Digits \subseteq {p[1] : p \in pairs}
  BY DEF Digits
<1> HIDE DEF pairs
<1>4. \A d \in Digits : \E p \in pairs : p[1] = d /\ DigitValue[d] = p[2]
  <2>1. \A d \in Digits : d \in DOMAIN Mapping(pairs)
    <3>1. DOMAIN Mapping(pairs) = {p[1] : p \in pairs}
      BY MappingIs
    <3> QED BY <1>3, <3>1
  <2> QED BY <1>1, <2>1, MappingIs
<1>5. "0" \in Digits
  BY DEF Digits
<1> QED BY <1>2, <1>4, <1>5

\* Digits make a number, and the digit 0 makes zero.
LEMMA InBaseIs ==
  ASSUME NEW base \in Nat, NEW digits \in Seq(Digits)
  PROVE  /\ InBase(base, digits) \in Nat
         /\ digits = <<"0">> => InBase(base, digits) = 0
<1> DEFINE Is(f, k) == f = [n \in 0 .. k |-> IF n = 0 THEN 0
                              ELSE base * f[n - 1] + DigitValue[digits[n]]]
           Good == {k \in Nat : \E f : Is(f, k)}
<1>0. /\ Len(digits) \in Nat
      /\ \A n \in 1 .. Len(digits) : DigitValue[digits[n]] \in Nat
  <2>1. \A n \in 1 .. Len(digits) : digits[n] \in Digits
    BY ElementOfSeq
  <2> QED BY <2>1, DigitsAre, LenProperties
<1>1. 0 \in Good
  <2>1. Is([n \in 0 .. 0 |-> 0], 0)
    OBVIOUS
  <2> QED BY <2>1
<1>2. ASSUME NEW k \in Nat, k \in Good
      PROVE  k + 1 \in Good
  <2>1. PICK f : Is(f, k)
    BY <1>2
  <2>a. PICK last : last = base * f[k] + DigitValue[digits[k + 1]]
    OBVIOUS
  <2> DEFINE g == [n \in 0 .. k + 1 |-> IF n = k + 1 THEN last ELSE f[n]]
  <2>2. ASSUME NEW n \in 0 .. k + 1
        PROVE  g[n] = IF n = 0 THEN 0 ELSE base * g[n - 1] + DigitValue[digits[n]]
    <3>1. CASE n = k + 1
      <4>1. g[n] = last
        BY <3>1
      <4>2. g[k] = f[k] /\ n # 0 /\ n - 1 = k
        BY <3>1
      <4> HIDE DEF g
      <4> QED BY <2>a, <3>1, <4>1, <4>2
    <3>2. CASE n # k + 1
      <4>1. g[n] = f[n] /\ n \in 0 .. k
        BY <3>2
      <4>2. n # 0 => g[n - 1] = f[n - 1]
        BY <4>1
      <4>3. f[n] = IF n = 0 THEN 0 ELSE base * f[n - 1] + DigitValue[digits[n]]
        BY <2>1, <4>1
      <4> HIDE DEF g
      <4> QED BY <4>1, <4>2, <4>3
    <3> QED BY <3>1, <3>2
  <2>3. Is(g, k + 1)
    BY <2>2
  <2> HIDE DEF g, Is
  <2>4. k + 1 \in Nat /\ \E h : Is(h, k + 1)
    BY <2>3
  <2> QED BY <2>4
<1>3. Len(digits) \in Good
  <2> HIDE DEF Good
  <2>1. \A k \in 0 .. Len(digits) - 1 : k \in Good => k + 1 \in Good
    BY <1>0, <1>2
  <2>2. \A k \in 0 .. Len(digits) : k \in Good
    BY <1>0, <1>1, <2>1, Along
  <2> QED BY <1>0, <2>2
<1> DEFINE value == CHOOSE f : Is(f, Len(digits))
<1>4. Is(value, Len(digits))
  BY <1>3
<1>5. InBase(base, digits) = value[Len(digits)]
  BY DEF InBase
<1> HIDE DEF value
<1>6. value[0] = 0
  BY <1>0, <1>4
<1>7. ASSUME NEW k \in 0 .. Len(digits) - 1
      PROVE  value[k + 1] = base * value[k] + DigitValue[digits[k + 1]]
  <2>1. k + 1 \in 0 .. Len(digits) /\ k + 1 # 0 /\ (k + 1) - 1 = k
    BY <1>0
  <2> QED BY <1>4, <2>1
<1> HIDE DEF Is
<1> DEFINE S == {k \in 0 .. Len(digits) : value[k] \in Nat}
<1>8. 0 \in S
  BY <1>0, <1>6
<1>9. ASSUME NEW k \in 0 .. Len(digits) - 1, k \in S
      PROVE  k + 1 \in S
  <2>1. PICK v \in Nat : v = value[k]
    BY <1>9
  <2>2. PICK d \in Nat : d = DigitValue[digits[k + 1]]
    <3>1. k + 1 \in 1 .. Len(digits)
      BY <1>0
    <3> QED BY <1>0, <3>1
  <2>3. value[k + 1] = base * v + d
    BY <1>7, <2>1, <2>2
  <2>4. base * v + d \in Nat
    OBVIOUS
  <2>5. k + 1 \in 0 .. Len(digits)
    BY <1>0
  <2> QED BY <2>3, <2>4, <2>5
<1>10. Len(digits) \in S
  <2> HIDE DEF S
  <2>1. \A k \in 0 .. Len(digits) : k \in S
    BY <1>0, <1>8, <1>9, Along
  <2> QED BY <1>0, <2>1
<1>11. ASSUME digits = <<"0">>
       PROVE  value[Len(digits)] = 0
  <2>1. Len(digits) = 1 /\ digits[0 + 1] = "0" /\ 0 \in 0 .. Len(digits) - 1
    BY <1>11
  <2>2. value[0 + 1] = base * value[0] + DigitValue[digits[0 + 1]]
    BY <1>7, <2>1
  <2>3. value[0 + 1] = base * 0 + 0
    BY <1>6, <2>1, <2>2, DigitsAre
  <2> QED BY <2>1, <2>3
<1> QED BY <1>5, <1>10, <1>11

\* The digits up to the first that is not octal: all of them, when 0 is the
\* only one.
LEMMA OctalZero == OctalPart(<<"0">>) = <<"0">>
<1> DEFINE raw == <<"0">>
           stops == {i \in DOMAIN raw : DigitValue[raw[i]] > 7} \cup {Len(raw) + 1}
<1>1. DOMAIN raw = 1 .. 1 /\ Len(raw) = 1 /\ raw[1] = "0"
  OBVIOUS
<1>2. stops = {2}
  <2> HIDE DEF raw
  <2>1. \A i \in DOMAIN raw : DigitValue[raw[i]] = 0
    BY <1>1, DigitsAre
  <2> QED BY <1>1, <2>1
<1>3. Min({2}) = 2
  BY DEF Min
<1>4. OctalPart(raw) = SubSeq(raw, 1, 2 - 1)
  BY <1>2, <1>3 DEF OctalPart
<1>5. SubSeq(raw, 1, 1) = raw
  <2>1. raw \in Seq({"0"})
    OBVIOUS
  <2> HIDE DEF raw
  <2>2. SubSeq(raw, 1, Len(raw)) = raw
    BY <2>1, SubSeqFull
  <2> QED BY <1>1, <2>2
<1> QED BY <1>4, <1>5

\* The digits that strtoll reads end before the first that is not octal.
LEMMA OctalPartIs ==
  ASSUME NEW word \in Seq(Digits), Len(word) > 0, word[1] = "0"
  PROVE  \E n \in 1 .. Len(word) :
           OctalUpTo(word, n) /\ OctalPart(word) = SubSeq(word, 1, n)
<1> DEFINE others == {i \in DOMAIN word : DigitValue[word[i]] > 7}
           stops == others \cup {Len(word) + 1}
<1>1. Len(word) \in Nat /\ DOMAIN word = 1 .. Len(word)
  BY LenProperties
<1>2. \A i \in 1 .. Len(word) : DigitValue[word[i]] \in Nat
  BY <1>1, ElementOfSeq, DigitsAre
<1>3. stops \subseteq Nat /\ stops # {}
  BY <1>1
<1>4. PICK m : m = Min(stops)
  OBVIOUS
<1>5. m \in stops /\ \A i \in stops : m <= i
  BY <1>3, <1>4, LeastNatural DEF Min
<1>6. 1 \notin stops
  BY <1>1, DigitsAre
<1>7. m \in 2 .. Len(word) + 1
  BY <1>1, <1>3, <1>5, <1>6
<1>8. PICK n : n = m - 1
  OBVIOUS
<1>9. n \in 1 .. Len(word) /\ n + 1 = m
  BY <1>1, <1>7, <1>8
<1>10. OctalPart(word) = SubSeq(word, 1, n)
  BY <1>4, <1>8 DEF OctalPart
<1>11. OctalUpTo(word, n)
  <2>1. ASSUME NEW i \in 1 .. n
        PROVE  DigitValue[word[i]] <= 7
    <3>1. i \in 1 .. Len(word) /\ ~(m <= i)
      BY <1>1, <1>9
    <3>2. i \notin others
      BY <1>5, <3>1
    <3>3. ~(DigitValue[word[i]] > 7)
      BY <1>1, <3>1, <3>2
    <3> QED BY <1>2, <3>1, <3>3
  <2>2. ASSUME n < Len(word)
        PROVE  DigitValue[word[n + 1]] > 7
    <3>1. m # Len(word) + 1
      BY <1>1, <1>9, <2>2
    <3>2. m \in others
      BY <1>5, <3>1
    <3> QED BY <1>9, <3>2
  <2> QED BY <2>1, <2>2 DEF OctalUpTo
<1> QED BY <1>9, <1>10, <1>11

\* The lesser of two numbers.
LEMMA LesserIs ==
  ASSUME NEW m \in Nat, NEW n \in Nat
  PROVE  Min({m, n}) = IF n <= m THEN n ELSE m
BY DEF Min

\* A number is what its digits say, but for the mistaken ones.
LEMMA NumberMeant ==
  ASSUME NEW word \in Seq(Digits), Len(word) > 0,
         ~(word[1] = "0" /\ Len(word) > 1)
  PROVE  /\ word[1] \in Digits /\ InBase(10, word) \in Nat
         /\ Strtoll(word) =
              IF InBase(10, word) <= MaxNumber THEN InBase(10, word) ELSE MaxNumber
<1>1. word[1] \in Digits /\ Len(word) \in Nat
  <2>1. Len(word) \in Nat
    BY LenProperties
  <2>2. 1 \in 1 .. Len(word)
    BY <2>1
  <2> QED BY <2>1, <2>2, ElementOfSeq
<1>2. InBase(10, word) \in Nat
  BY InBaseIs
<1>3. CASE word[1] = "0"
  <2>1. Len(word) = 1
    BY <1>1, <1>3
  <2>2. word = <<"0">>
    BY <1>3, <2>1
  <2>3. OctalPart(word) = word
    BY <2>2, OctalZero
  <2>4. InBase(8, word) = 0 /\ InBase(10, word) = 0
    BY <2>2, InBaseIs
  <2>5. Strtoll(word) = Min({MaxNumber, 0})
    BY <1>3, <2>3, <2>4 DEF Strtoll
  <2>6. Min({MaxNumber, 0}) = 0 /\ 0 <= MaxNumber
    BY MaxNumberAssumption, LesserIs
  <2> QED BY <1>1, <1>2, <2>4, <2>5, <2>6
<1>4. CASE word[1] # "0"
  <2>1. Strtoll(word) = Min({MaxNumber, InBase(10, word)})
    BY <1>4 DEF Strtoll
  <2> QED BY <1>1, <1>2, <2>1, MaxNumberAssumption, LesserIs
<1> QED BY <1>3, <1>4

\* The types of the tokens of one character are those of no other token, and &
\* is AND.
LEMMA OperatorTypes ==
  /\ \A c \in DOMAIN Operators :
       Operators[c] \notin Constants \cup {"NUMBER", "STRING", "REFERENCE"}
  /\ "&" \in DOMAIN Operators /\ Operators["&"] = "AND"
<1> DEFINE pairs == {
  <<"+", "ADD">>, <<"-", "SUB">>, <<"*", "MUL">>, <<"/", "DIV">>, <<"%", "MOD">>,
  <<"=", "EQUAL">>, <<"<", "LESS">>, <<">", "GREATER">>,
  <<"~", "NOT">>, <<"&", "AND">>, <<"|", "OR">>, <<";", "LOAD">>, <<":", "STORE">>,
  <<"$", "DUP">>, <<"@", "DROP">>, <<"^", "SWAP">>, <<"_", "ROT">>,
  <<"\\", "NEWOBJECT">>, <<".", "GETPROP">>, <<",", "SETPROP">>,
  <<"[", "LAMBDA_START">>, <<"]", "LAMBDA_END">>,
  <<"!", "EXECUTE">>, <<"?", "CONDEXEC">>, <<"#", "WHILE">>}
<1>1. Operators = Mapping(pairs)
  BY DEF Operators
<1>2. /\ \A p \in pairs : p[2] \notin {"TRUE", "FALSE", "NIL"}
      /\ \A p \in pairs : p[2] \notin {"NUMBER", "STRING", "REFERENCE"}
      /\ \A p \in pairs : p[1] = "&" => p[2] = "AND"
      /\ <<"&", "AND">> \in pairs
  OBVIOUS
<1> HIDE DEF pairs
<1>6. \A c \in DOMAIN Operators : \E p \in pairs : p[1] = c /\ Operators[c] = p[2]
  BY <1>1, MappingIs
<1>7. "&" \in DOMAIN Operators
  <2>1. <<"&", "AND">>[1] = "&"
    OBVIOUS
  <2>2. "&" \in {p[1] : p \in pairs}
    BY <1>2, <2>1
  <2> QED BY <1>1, <2>2, MappingIs
<1> QED BY <1>2, <1>6, <1>7 DEF Constants

\* No instruction has the type of another node or is a lambda, and AND is not.
LEMMA InstructionsAre ==
  \A type \in DOMAIN Instructions :
    /\ type \notin Constants \cup {"NUMBER", "STRING", "REFERENCE"}
    /\ Instructions[type] # "lambda"
    /\ type = "AND" => Instructions[type] = "not"
<1> DEFINE pairs == {
  <<"ADD", "add">>, <<"SUB", "sub">>, <<"MUL", "mul">>, <<"DIV", "div">>,
  <<"NEG", "neg">>, <<"MOD", "mod">>,
  <<"EQUAL", "eq">>, <<"LESS", "lt">>, <<"GREATER", "gt">>,
  <<"NOT", "not">>, <<"AND", "not">>, <<"OR", "or">>,
  <<"STORE", "store">>, <<"LOAD", "load">>,
  <<"DUP", "dup">>, <<"DROP", "drop">>, <<"SWAP", "swap">>, <<"ROT", "rot">>,
  <<"NEWOBJECT", "new_object">>, <<"GETPROP", "get_prop">>,
  <<"SETPROP", "set_prop">>,
  <<"EXECUTE", "exec">>, <<"CONDEXEC", "cond_exec">>, <<"WHILE", "while">>}
<1>1. Instructions = Mapping(pairs)
  BY DEF Instructions
<1>2. \A p \in pairs :
        /\ p[1] \notin Constants \cup {"NUMBER", "STRING", "REFERENCE"}
        /\ p[2] # "lambda"
        /\ p[1] = "AND" => p[2] = "not"
  BY DEF Constants
<1> HIDE DEF pairs
<1>3. \A t \in DOMAIN Instructions :
        \E p \in pairs : p[1] = t /\ Instructions[t] = p[2]
  BY <1>1, MappingIs
<1> QED BY <1>2, <1>3

\* The node of a token is what its word means, or one of the mistakes.
LEMMA NodeMeant ==
  ASSUME NEW t, NEW word, Word(t, word), t.type \in Leaves
  PROVE  /\ NodeOf(t) = Meant(word) \/ Mistaken(word, NodeOf(t))
         /\ NodeOf(t).op # "lambda"
<1>0. /\ "lambda" \notin Constants \cup {"NUMBER", "STRING", "REFERENCE"}
      /\ {"NUMBER", "STRING", "REFERENCE"} \cap Constants = {}
      /\ (Constants \cup {"NUMBER", "STRING", "REFERENCE"}) \cap DOMAIN Instructions = {}
  BY InstructionsAre DEF Constants
<1>a. "&" \in DOMAIN Operators
  BY OperatorTypes
<1>b. word[1] = Quote => word[1] \notin Digits \cup Letters \cup {"[", "]", "&"}
  BY <1>a, OneKind
<1>c. word[1] \in Digits => /\ word[1] # Quote
                            /\ word[1] \notin Letters \cup {"[", "]", "&"}
  BY <1>a, OneKind
<1>d. word[1] \in Letters => /\ word[1] # Quote
                             /\ word[1] \notin Digits \cup {"[", "]", "&"}
  BY <1>a, OneKind
<1>1. CASE \E c \in DOMAIN Operators : word = <<c>> /\ t.type = Operators[c]
  <2>1. PICK c \in DOMAIN Operators : word = <<c>> /\ t.type = Operators[c]
    BY <1>1
  <2>2. /\ t.type \notin Constants \cup {"NUMBER", "STRING", "REFERENCE"}
        /\ t.type \in DOMAIN Instructions
    BY <2>1, OperatorTypes DEF Leaves
  <2>3. NodeOf(t) = Node(Instructions[t.type], <<>>, 0, <<>>)
    BY <2>2 DEF NodeOf
  <2>4. NodeOf(t).op = Instructions[t.type] /\ NodeOf(t).op # "lambda"
    BY <2>2, <2>3, InstructionsAre DEF Node
  <2>5. word[1] = c
    BY <2>1
  <2>6. c # Quote /\ c \notin Digits /\ c \notin Letters
    BY OneKind
  <2>7. c \notin {"[", "]"}
    <3>1. t.type \notin {"LAMBDA_START", "LAMBDA_END"}
      BY LeavesAre
    <3> QED BY <2>1, <3>1, OperatorsAre
  <2>8. CASE c = "&"
    <3>1. NodeOf(t) = Node("not", <<>>, 0, <<>>)
      BY <2>1, <2>2, <2>3, <2>8, OperatorTypes, InstructionsAre
    <3> QED BY <2>1, <2>4, <2>8, <3>1 DEF Mistaken
  <2>9. CASE c # "&"
    <3>1. Meant(word) = Node(Instructions[Operators[c]], <<>>, 0, <<>>)
      BY <2>5, <2>6, <2>7, <2>9 DEF Meant
    <3> QED BY <2>1, <2>3, <2>4, <3>1
  <2> QED BY <2>8, <2>9
<1>2. CASE /\ t.type = "STRING" /\ word[1] = Quote
           /\ t.raw = SubSeq(word, 2, Len(word) - 1)
  <2>1. NodeOf(t) = Node("STRING", t.raw, 0, <<>>)
    BY <1>0, <1>2 DEF NodeOf
  <2>2. Meant(word) = Node("STRING", SubSeq(word, 2, Len(word) - 1), 0, <<>>)
    BY <1>2, <1>b DEF Meant
  <2>3. NodeOf(t).op = "STRING"
    BY <2>1 DEF Node
  <2> QED BY <1>0, <1>2, <2>1, <2>2, <2>3
<1>3. CASE /\ t.type = "NUMBER" /\ t.raw = word
           /\ word \in Seq(Digits) /\ Len(word) > 0
  <2>1. NodeOf(t) = Node("NUMBER", <<>>, Strtoll(word), <<>>)
    BY <1>0, <1>3 DEF NodeOf
  <2>2. NodeOf(t).op = "NUMBER" /\ NodeOf(t).number = Strtoll(word)
    BY <2>1 DEF Node
  <2>3. CASE word[1] = "0" /\ Len(word) > 1
    <3>1. PICK n \in 1 .. Len(word) :
            OctalUpTo(word, n) /\ OctalPart(word) = SubSeq(word, 1, n)
      BY <1>3, <2>3, OctalPartIs
    <3>2. Strtoll(word) = Min({MaxNumber, InBase(8, SubSeq(word, 1, n))})
      BY <2>3, <3>1 DEF Strtoll
    <3>3. NodeOf(t) = Numeral(InBase(8, SubSeq(word, 1, n)))
      BY <2>1, <3>2 DEF Numeral
    <3>4. Mistaken(word, NodeOf(t))
      BY <2>3, <3>1, <3>3 DEF Mistaken
    <3> QED BY <1>0, <2>2, <3>4
  <2>4. CASE ~(word[1] = "0" /\ Len(word) > 1)
    <3>1. PICK n : n = InBase(10, word)
      OBVIOUS
    <3>2. /\ word[1] \in Digits /\ n \in Nat
          /\ Strtoll(word) = IF n <= MaxNumber THEN n ELSE MaxNumber
      BY <1>3, <2>4, <3>1, NumberMeant
    <3>3. CASE n <= MaxNumber
      <4>1. Meant(word) = Node("NUMBER", <<>>, n, <<>>)
        BY <1>c, <3>1, <3>2 DEF Meant
      <4>2. Strtoll(word) = n
        BY <3>2, <3>3
      <4> QED BY <1>0, <2>1, <2>2, <4>1, <4>2
    <3>4. CASE ~(n <= MaxNumber)
      <4>1. n > MaxNumber /\ Strtoll(word) = MaxNumber
        BY <3>2, <3>4, MaxNumberAssumption
      <4>2. Mistaken(word, NodeOf(t))
        BY <2>1, <3>1, <3>2, <4>1 DEF Mistaken
      <4> QED BY <1>0, <2>2, <4>2
    <3> QED BY <3>3, <3>4
  <2> QED BY <2>3, <2>4
<1>4. CASE /\ t.raw = word /\ word[1] \in Letters
           /\ t.type = IF word \in DOMAIN Keywords THEN Keywords[word] ELSE "REFERENCE"
  <2>1. word[1] # Quote /\ word[1] \notin Digits \cup {"[", "]", "&"}
    BY <1>4, <1>d
  <2>2. CASE word \in DOMAIN Keywords
    <3>1. t.type = Keywords[word] /\ t.type \in Constants
      BY <1>4, <2>2, CharactersAssumption DEF Constants
    <3>2. NodeOf(t) = Node(t.type, <<>>, 0, <<>>)
      BY <1>0, <3>1 DEF NodeOf
    <3>3. Meant(word) = Node(t.type, <<>>, 0, <<>>)
      BY <1>4, <2>1, <2>2, <3>1 DEF Meant
    <3>4. NodeOf(t).op = t.type
      BY <3>2 DEF Node
    <3> QED BY <1>0, <3>1, <3>2, <3>3, <3>4
  <2>3. CASE word \notin DOMAIN Keywords
    <3>1. t.type = "REFERENCE"
      BY <1>4, <2>3
    <3>2. NodeOf(t) = Node("REFERENCE", word, 0, <<>>)
      BY <1>0, <1>4, <3>1 DEF NodeOf
    <3>3. Meant(word) = Node("REFERENCE", word, 0, <<>>)
      BY <1>4, <2>1, <2>3 DEF Meant
    <3>4. NodeOf(t).op = "REFERENCE"
      BY <3>2 DEF Node
    <3> QED BY <1>0, <3>2, <3>3, <3>4
  <2> QED BY <2>2, <2>3
<1> QED BY <1>1, <1>2, <1>3, <1>4 DEF Word

\* A bracket was read from the character it is.
LEMMA BracketWord ==
  ASSUME NEW t, NEW word, Word(t, word)
  PROVE  /\ t.type = "LAMBDA_START" => word = <<"[">>
         /\ t.type = "LAMBDA_END" => word = <<"]">>
<1>1. ASSUME t.type \in {"LAMBDA_START", "LAMBDA_END"}
      PROVE  \E c \in DOMAIN Operators : word = <<c>> /\ t.type = Operators[c]
  <2>1. word \in DOMAIN Keywords => Keywords[word] \in {"TRUE", "FALSE", "NIL"}
    BY CharactersAssumption
  <2> QED BY <1>1, <2>1 DEF Word
<1> QED BY <1>1, OperatorsAre

\* The end of a lambda stands for the word ], or for none behind the last.
LEMMA ClosingSpelled ==
  ASSUME NEW words, NEW i, i > Len(words) \/ words[i] = <<"]">>
  PROVE  Spells(Bracket("]"), words, i)
<1>1. <<"]">>[1] = "]"
  OBVIOUS
<1>2. "]" # Quote /\ "]" \notin Digits /\ "]" \notin Letters
  BY OneKind
<1>3. Meant(<<"]">>) = Bracket("]")
  BY <1>1, <1>2 DEF Meant
<1> QED BY <1>3 DEF Spells

-----------------------------------------------------------------------------
(* The tree that grows, against the words read so far.                     *)

\* A token that is there is one word.
One(there) == IF there THEN 1 ELSE 0

\* The words behind those of the lists are the word of the token taken and the
\* word of the one that waits.
Behind(words, to) ==
  /\ Len(words) = to + One(taken # NoToken) + One(has_token)
  /\ taken # NoToken => Word(taken, words[to + 1])
  /\ has_token => Word(token, words[Len(words)])

\* Every lambda closed behind the last word is one that was left open.
Beyond(words, to) ==
  /\ Closed
  /\ to >= Len(words) /\ R(curr).lambdas = Len(open) - 1 + (to - Len(words))

\* While the program runs, the open lists and what is on its way to them are
\* the words read so far.
Planted ==
  \E words, begin, to :
    /\ words = R(curr).words /\ IsSeq(words)
    /\ Layout(open, words, begin, to)
    /\ (Ordered /\ Behind(words, to)) \/ Beyond(words, to)

\* The tree of an accepted program is told as the words and the ends of the
\* lambdas left open.
Grown ==
  /\ Len(open) = 1
  /\ \E words, begin, to :
       /\ words = R(Length).words
       /\ Layout(open, words, begin, to)
       /\ to = Len(words) + R(Length).lambdas

\* The inductive invariant of the tree.
TreeInv ==
  /\ status = "running" => Planted
  /\ status = "done" => Grown

\* Where the words end, when the last token has closed nothing twice.
LEMMA BehindIs ==
  ASSUME NEW words, IsSeq(words), NEW to \in Nat, Behind(words, to)
  PROVE  /\ Len(words) \in Nat /\ to <= Len(words)
         /\ taken # NoToken => to + 1 <= Len(words)
         /\ taken = NoToken /\ has_token => to + 1 = Len(words)
         /\ taken = NoToken /\ ~has_token => to = Len(words)
         /\ taken # NoToken /\ ~has_token => to + 1 = Len(words)
<1>1. PICK n \in Nat : n = Len(words)
  BY AppendFacts
<1> QED BY <1>1 DEF Behind, One

\* One more token waits, and one more word was read.
LEMMA BehindGrows ==
  ASSUME NEW words, IsSeq(words), NEW to \in Nat, Behind(words, to), ~has_token,
         NEW word, Word(token', word), has_token' = TRUE, taken' = taken
  PROVE  Behind(Append(words, word), to)'
<1>1. PICK more : more = Append(words, word)
  OBVIOUS
<1>2. /\ Len(words) \in Nat /\ Len(more) = Len(words) + 1
      /\ \A i \in 1 .. Len(words) : more[i] = words[i]
      /\ more[Len(words) + 1] = word
  BY <1>1, AppendFacts
<1>3. taken # NoToken => to + 1 \in 1 .. Len(words)
  BY <1>2, BehindIs
<1>4. taken # NoToken => more[to + 1] = words[to + 1]
  BY <1>2, <1>3
<1>5. taken' # NoToken => Word(taken', more[to + 1])
  BY <1>4 DEF Behind
<1>6. Len(more) = to + One(taken' # NoToken) + One(has_token')
  <2>1. PICK n \in Nat : n = Len(words)
    BY <1>2
  <2>2. n = to + One(taken # NoToken) /\ Len(more) = n + 1
    BY <1>2, <2>1 DEF Behind, One
  <2> QED BY <2>2 DEF One
<1>7. Word(token', more[Len(more)])
  BY <1>2
<1>8. Behind(more, to)'
  BY <1>5, <1>6, <1>7 DEF Behind
<1> QED BY <1>1, <1>8

\* A token is read.
LEMMA EmittedTree ==
  ASSUME ParserInv, Underway, Planted, status = "running", scanning,
         Emitted, UNCHANGED <<open, taken>>
  PROVE  Planted'
<1>1. PICK words, begin, to :
        /\ words = R(curr).words /\ IsSeq(words)
        /\ Layout(open, words, begin, to)
        /\ (Ordered /\ Behind(words, to)) \/ Beyond(words, to)
  BY DEF Planted
<1>2. /\ ~has_token /\ has_token' = TRUE /\ ~Closed /\ UNCHANGED source
  BY DEF Emitted, Underway, Closed
<1>3. Ordered /\ Behind(words, to)
  BY <1>1, <1>2 DEF Beyond
<1>4. PICK word : Word(token', word) /\ R(curr').words = Append(words, word)
  BY <1>1 DEF Emitted, Worded
<1>5. PICK more : more = Append(words, word)
  OBVIOUS
<1>6. R(curr)' = R(curr')
  BY <1>2, SourceKept
<1>7. to \in Nat
  BY <1>1 DEF Layout
<1>8. to <= Len(words)
  BY <1>1, <1>3, <1>7, BehindIs
<1>9. Layout(open, more, begin, to)
  BY <1>1, <1>5, <1>8, LayoutGrow
<1>10. Behind(more, to)'
  BY <1>1, <1>2, <1>3, <1>4, <1>5, <1>7, BehindGrows
<1>11. Ordered'
  BY <1>3, EmittedKeeps
<1>12. IsSeq(more)
  BY <1>1, <1>5, AppendFacts
<1>13. more = R(curr)'.words
  BY <1>4, <1>5, <1>6
<1>14. Layout(open', more, begin, to)
  BY <1>9
<1> QED BY <1>10, <1>11, <1>12, <1>13, <1>14 DEF Planted

\* Blanks and a comment are no words.
LEMMA SkippedTree ==
  ASSUME ParserInv, Underway, Planted, status = "running", scanning,
         Skipped, UNCHANGED <<open, taken>>
  PROVE  Planted'
<1>1. PICK words, begin, to :
        /\ words = R(curr).words /\ IsSeq(words)
        /\ Layout(open, words, begin, to)
        /\ (Ordered /\ Behind(words, to)) \/ Beyond(words, to)
  BY DEF Planted
<1>2. UNCHANGED <<source, has_token, token, open, taken>>
  BY DEF Skipped
<1>3. R(curr)' = R(curr')
  BY <1>2, SourceKept
<1>4. R(curr').words = words /\ R(curr').lambdas = R(curr).lambdas
  BY <1>1 DEF Skipped, Same, Lexed
<1>5. (Ordered => Ordered') /\ (Closed => Closed')
  BY SkippedKeeps
<1>6. Ordered /\ Behind(words, to) => (Ordered /\ Behind(words, to))'
  BY <1>2, <1>5 DEF Behind
<1>7. Beyond(words, to) => Beyond(words, to)'
  BY <1>2, <1>3, <1>4, <1>5 DEF Beyond
<1>8. words = R(curr)'.words /\ Layout(open', words, begin, to)
  BY <1>1, <1>2, <1>3, <1>4
<1> QED BY <1>1, <1>6, <1>7, <1>8 DEF Planted

\* parse_any takes the token that waits.
LEMMA TakeTree ==
  ASSUME ParserInv, Underway, Planted, TakeToken
  PROVE  Planted'
<1>1. PICK words, begin, to :
        /\ words = R(curr).words /\ IsSeq(words)
        /\ Layout(open, words, begin, to)
        /\ (Ordered /\ Behind(words, to)) \/ Beyond(words, to)
  BY DEF Planted
<1>2. taken = NoToken /\ has_token /\ Eat /\ taken' = token /\ open' = open
  BY DEF TakeToken, InLoop, Ready
<1>3. R(curr)' = R(curr) /\ has_token' = FALSE
  BY <1>2, EatKeeps
<1>4. Ordered /\ Behind(words, to)
  BY <1>1, <1>2 DEF Beyond, Closed
<1>5. to \in Nat
  BY <1>1 DEF Layout
<1>6. to + 1 = Len(words)
  BY <1>1, <1>2, <1>4, <1>5, BehindIs
<1>7. Word(token, words[to + 1])
  BY <1>2, <1>4, <1>6 DEF Behind
<1>8. token # NoToken
  BY <1>2 DEF ParserInv, ParserTypeOK
<1>9. Len(words) = to + One(taken' # NoToken) + One(has_token')
  BY <1>2, <1>3, <1>5, <1>6, <1>8 DEF One
<1>10. Behind(words, to)'
  BY <1>2, <1>3, <1>7, <1>9 DEF Behind
<1>11. Ordered'
  BY <1>4, TakeKeeps
<1>12. words = R(curr)'.words /\ Layout(open', words, begin, to)
  BY <1>1, <1>2, <1>3
<1> QED BY <1>1, <1>10, <1>11, <1>12 DEF Planted

\* The token that was taken is dropped, and its word is one of the lists'.
LEMMA BehindDropped ==
  ASSUME NEW words, IsSeq(words), NEW to \in Nat, Behind(words, to),
         taken # NoToken, taken' = NoToken, UNCHANGED lexerVars
  PROVE  Behind(words, to + 1)'
<1>1. has_token' = has_token /\ token' = token
  BY DEF lexerVars
<1>2. PICK n \in Nat : n = Len(words)
  BY AppendFacts
<1>3. n = to + 1 + One(has_token)
  BY <1>2 DEF Behind, One
<1>4. Len(words) = (to + 1) + One(taken' # NoToken) + One(has_token')
  BY <1>1, <1>2, <1>3 DEF One
<1> QED BY <1>1, <1>4 DEF Behind

\* parse_any adds a leaf.
LEMMA LeafTree ==
  ASSUME ParserInv, Underway, Planted, ParseLeaf, Ordered => Ordered'
  PROVE  Planted'
<1>1. PICK words, begin, to :
        /\ words = R(curr).words /\ IsSeq(words)
        /\ Layout(open, words, begin, to)
        /\ (Ordered /\ Behind(words, to)) \/ Beyond(words, to)
  BY DEF Planted
<1>2. /\ taken.type \in Leaves /\ open' = Pushed(open, NodeOf(taken))
      /\ taken' = NoToken /\ UNCHANGED lexerVars
  BY DEF ParseLeaf
<1>3. taken # NoToken
  BY <1>2, LeavesAre, NothingTaken
<1>4. R(curr)' = R(curr)
  <2>1. source' = source /\ curr' = curr
    BY <1>2 DEF lexerVars
  <2> QED BY <2>1, SourceKept
<1>5. Ordered /\ Behind(words, to)
  BY <1>1, <1>3 DEF Beyond, Closed
<1>6. to \in Nat
  BY <1>1 DEF Layout
<1>7. to + 1 <= Len(words) /\ Len(words) \in Nat /\ Word(taken, words[to + 1])
  <2>1. to + 1 <= Len(words) /\ Len(words) \in Nat
    BY <1>1, <1>3, <1>5, <1>6, BehindIs
  <2> QED BY <1>3, <1>5, <2>1 DEF Behind
<1>8. PICK node : node = NodeOf(taken)
  OBVIOUS
<1>9. PICK word : word = words[to + 1]
  OBVIOUS
<1>10. (node = Meant(word) \/ Mistaken(word, node)) /\ node.op # "lambda"
  BY <1>2, <1>7, <1>8, <1>9, NodeMeant
<1>11. Spells(node, words, to + 1)
  <2>1. ~(to + 1 > Len(words))
    BY <1>6, <1>7
  <2> QED BY <1>9, <1>10, <2>1 DEF Spells
<1>12. Layout(open', words, begin, to + 1)
  <2>1. Layout(Pushed(open, node), words, begin, to + 1)
    BY <1>1, <1>10, <1>11, LayoutLeaf
  <2> QED BY <1>2, <1>8, <2>1
<1>13. Behind(words, to + 1)'
  BY <1>1, <1>2, <1>3, <1>5, <1>6, BehindDropped
<1> QED BY <1>1, <1>4, <1>5, <1>12, <1>13 DEF Planted

\* parse_any begins a lambda.
LEMMA OpenTree ==
  ASSUME ParserInv, Underway, Planted, OpenLambda, Ordered => Ordered'
  PROVE  Planted'
<1>1. PICK words, begin, to :
        /\ words = R(curr).words /\ IsSeq(words)
        /\ Layout(open, words, begin, to)
        /\ (Ordered /\ Behind(words, to)) \/ Beyond(words, to)
  BY DEF Planted
<1>2. /\ taken.type = "LAMBDA_START" /\ open' = Append(open, <<>>)
      /\ taken' = NoToken /\ UNCHANGED lexerVars
  BY DEF OpenLambda
<1>3. taken # NoToken
  BY <1>2, NothingTaken
<1>4. R(curr)' = R(curr)
  <2>1. source' = source /\ curr' = curr
    BY <1>2 DEF lexerVars
  <2> QED BY <2>1, SourceKept
<1>5. Ordered /\ Behind(words, to)
  BY <1>1, <1>3 DEF Beyond, Closed
<1>6. to \in Nat
  BY <1>1 DEF Layout
<1>7. to + 1 <= Len(words) /\ Len(words) \in Nat
  BY <1>1, <1>3, <1>5, <1>6, BehindIs
<1>8. words[to + 1] = <<"[">>
  BY <1>2, <1>3, <1>5, BracketWord DEF Behind
<1>9. PICK b : Layout(open', words, b, to + 1)
  BY <1>1, <1>2, <1>7, <1>8, LayoutOpen
<1>10. Behind(words, to + 1)'
  BY <1>1, <1>2, <1>3, <1>5, <1>6, BehindDropped
<1> QED BY <1>1, <1>4, <1>5, <1>9, <1>10 DEF Planted

\* A lambda is closed, by the word that waits or behind the last.
LEMMA CloseTree ==
  ASSUME ParserInv, AcceptInv, Planted, status = "running", CloseLambda, LambdaEnds
  PROVE  Planted'
<1>1. PICK words, begin, to :
        /\ words = R(curr).words /\ IsSeq(words)
        /\ Layout(open, words, begin, to)
        /\ (Ordered /\ Behind(words, to)) \/ Beyond(words, to)
  BY DEF Planted
<1>2. /\ taken = NoToken /\ taken' = taken /\ Eat /\ Len(open) > 1
      /\ open' = Pushed(Front(open), LambdaNode(Last(open)))
      /\ token.type = "LAMBDA_END"
  BY DEF CloseLambda, InLoop, InLambda, LambdaEnds
<1>3. R(curr)' = R(curr) /\ has_token' = FALSE
  BY <1>2, EatKeeps
<1>4. to \in Nat /\ Len(words) \in Nat
  BY <1>1, AppendFacts DEF Layout
<1>5. /\ Len(open) \in Nat /\ Len(open') = Len(open) - 1 /\ R(curr).lambdas \in Int
  <2>1. IsSeq(open) /\ Len(open) \in Nat
    BY <1>1, AppendFacts DEF Layout
  <2>2. PICK front : front = Front(open)
    OBVIOUS
  <2>3. IsSeq(front) /\ Len(front) = Len(open) - 1
    BY <1>2, <2>1, <2>2, PushedIs
  <2>4. Len(front) > 0
    BY <1>2, <2>1, <2>3
  <2>5. PICK node : node = LambdaNode(Last(open))
    OBVIOUS
  <2>6. Len(Pushed(front, node)) = Len(front)
    BY <2>3, <2>4, PushedIs
  <2> QED BY <1>2, <2>1, <2>2, <2>3, <2>5, <2>6, CountsAre
<1>6. ASSUME Spells(Bracket("]"), words, to + 1)
      PROVE  \E b : Layout(open', words, b, to + 1)
  BY <1>1, <1>2, <1>4, <1>6, LayoutClose
<1>7. CASE Ordered /\ Behind(words, to) /\ has_token
  <2>1. to + 1 = Len(words)
    BY <1>1, <1>2, <1>4, <1>7, BehindIs
  <2>2. Word(token, words[to + 1])
    BY <1>7, <2>1 DEF Behind
  <2>3. words[to + 1] = <<"]">>
    BY <1>2, <2>2, BracketWord
  <2>4. PICK b : Layout(open', words, b, to + 1)
    BY <1>6, <2>3, ClosingSpelled
  <2>5. Behind(words, to + 1)'
    <3>1. Len(words) = (to + 1) + One(taken' # NoToken) + One(has_token')
      BY <1>2, <1>3, <1>4, <2>1 DEF One
    <3> QED BY <1>2, <1>3, <3>1 DEF Behind
  <2>6. Ordered'
    BY <1>7, CloseKeeps
  <2> QED BY <1>1, <1>3, <2>4, <2>5, <2>6 DEF Planted
<1>8. ASSUME ~has_token, to >= Len(words),
             R(curr).lambdas = Len(open) - 1 + (to - Len(words))
      PROVE  Planted'
  <2>1. to + 1 > Len(words) /\ to + 1 >= Len(words)
    BY <1>4, <1>8
  <2>2. PICK b : Layout(open', words, b, to + 1)
    BY <1>6, <2>1, ClosingSpelled
  <2>3. R(curr).lambdas = Len(open') - 1 + ((to + 1) - Len(words))
    <3>1. PICK n \in Nat, k \in Nat, l \in Int :
            n = Len(words) /\ k = Len(open) /\ l = R(curr).lambdas
      BY <1>4, <1>5
    <3>2. l = k - 1 + (to - n)
      BY <1>8, <3>1
    <3>3. l = (k - 1) - 1 + ((to + 1) - n)
      BY <1>4, <3>2
    <3> QED BY <1>5, <3>1, <3>3
  <2>4. Closed'
    BY <1>8, CloseKeeps
  <2>5. Beyond(words, to + 1)'
    BY <1>3, <2>1, <2>3, <2>4 DEF Beyond
  <2> QED BY <1>1, <1>3, <2>2, <2>5 DEF Planted
<1>9. CASE Ordered /\ Behind(words, to) /\ ~has_token
  <2>1. to = Len(words)
    BY <1>1, <1>2, <1>4, <1>9, BehindIs
  <2>2. Balanced
    <3>1. Len(open) # 1
      BY <1>2, <1>5
    <3> QED BY <1>9, <3>1 DEF Ordered, Doomed
  <2>3. R(curr).lambdas = Len(open) - 1 + (to - Len(words))
    <3>1. R(curr).lambdas = Len(open) - 1
      BY <1>2, <1>5, <1>9, <2>2, NothingTaken DEF Balanced, Waiting
    <3> QED BY <1>4, <1>5, <2>1, <3>1
  <2>4. to >= Len(words)
    BY <1>4, <2>1
  <2> QED BY <1>8, <1>9, <2>3, <2>4
<1>10. CASE Beyond(words, to)
  BY <1>8, <1>10 DEF Beyond, Closed
<1> QED BY <1>1, <1>7, <1>9, <1>10

\* parse returns the outermost list.
LEMMA FinishTree ==
  ASSUME ParserInv, Underway, Planted, Finish
  PROVE  Grown'
<1>1. PICK words, begin, to :
        /\ words = R(curr).words /\ IsSeq(words)
        /\ Layout(open, words, begin, to)
        /\ (Ordered /\ Behind(words, to)) \/ Beyond(words, to)
  BY DEF Planted
<1>2. /\ taken = NoToken /\ ~has_token /\ ~scanning /\ ~(Len(open) > 1)
      /\ UNCHANGED <<source, open>>
  BY DEF Finish, InLoop, Ready, InLambda
<1>3. curr = Length /\ Waiting = "none"
  BY <1>2 DEF Underway, Waiting
<1>4. to \in Nat /\ Len(words) \in Nat
  BY <1>1, AppendFacts DEF Layout
<1>5. Len(open) = 1 /\ R(curr).lambdas \in Int
  <2>1. Len(open) \in Nat /\ Len(open) > 0 /\ R(curr).lambdas \in Int
    BY CountsAre
  <2> QED BY <1>2, <2>1
<1>6. to = Len(words) + R(curr).lambdas
  <2>1. CASE Ordered /\ Behind(words, to)
    <3>1. to = Len(words)
      BY <1>1, <1>2, <1>4, <2>1, BehindIs
    <3>2. Balanced
      BY <1>2, <1>3, <2>1, NothingTaken DEF Ordered, Doomed
    <3>3. R(curr).lambdas = 0
      BY <1>2, <1>3, <1>5, <3>2, NothingTaken DEF Balanced
    <3> QED BY <1>4, <3>1, <3>3
  <2>2. CASE Beyond(words, to)
    <3>1. PICK n \in Nat, l \in Int : n = Len(words) /\ l = R(curr).lambdas
      BY <1>4, <1>5
    <3>2. l = 1 - 1 + (to - n)
      BY <1>5, <2>2, <3>1 DEF Beyond
    <3>3. to = n + l
      BY <1>4, <3>2
    <3> QED BY <3>1, <3>3
  <2> QED BY <1>1, <2>1, <2>2
<1>7. R(Length)' = R(curr)
  BY <1>2, <1>3, SourceKept
<1> QED BY <1>1, <1>2, <1>5, <1>6, <1>7 DEF Grown

\* A step of a program that is still running.
LEMMA TreeStep ==
  ASSUME ParserInv, AcceptInv, Planted, status = "running", Next
  PROVE  TreeInv'
<1>0. Underway
  BY DEF AcceptInv
<1>1. CASE ScanNext
  <2>1. Scan /\ UNCHANGED <<open, taken>> /\ scanning
    BY <1>1 DEF ScanNext, Scan, ScanOperator, ScanComment, ScanString, ScanNumber,
                ScanWord, ScanUnexpected, ScanEnd, Meets
  <2>2. Emitted \/ Skipped \/ Rejected
    BY <1>0, <2>1, ScanReads DEF Underway
  <2>3. CASE Emitted
    BY <1>0, <2>1, <2>3, EmittedTree DEF TreeInv, Emitted
  <2>4. CASE Skipped
    BY <1>0, <2>1, <2>4, SkippedTree DEF TreeInv, Skipped
  <2>5. CASE Rejected
    BY <2>5 DEF TreeInv, Rejected
  <2> QED BY <2>2, <2>3, <2>4, <2>5
<1>2. CASE TakeToken
  <2>1. status' = status
    BY <1>2 DEF TakeToken, Eat
  <2> QED BY <1>0, <1>2, <2>1, TakeTree DEF TreeInv
<1>3. CASE ParseLeaf
  <2>1. /\ open' = Pushed(open, NodeOf(taken)) /\ taken' = NoToken
        /\ UNCHANGED lexerVars /\ taken.type \in Leaves
    BY <1>3 DEF ParseLeaf
  <2>2. taken.type \notin {"LAMBDA_START", "LAMBDA_END", "none"}
    BY <2>1, LeavesAre
  <2>3. Len(open') = Len(open)
    BY <2>1, ListFacts DEF ParserInv, ParserTypeOK, Lists
  <2>4. Len(open') = Len(open) + Depth(taken.type)
    BY <2>2, <2>3, CountsAre DEF Depth
  <2>5. Ordered => Ordered'
    BY <1>0, <2>1, <2>2, <2>4, DropKeeps
  <2>6. Planted' /\ status' = status
    BY <1>0, <1>3, <2>1, <2>5, LeafTree DEF lexerVars
  <2> QED BY <2>6 DEF TreeInv
<1>4. CASE OpenLambda
  <2>1. /\ open' = Append(open, <<>>) /\ taken' = NoToken
        /\ UNCHANGED lexerVars /\ taken.type = "LAMBDA_START"
    BY <1>4 DEF OpenLambda
  <2>2. Len(open') = Len(open) + 1
    BY <2>1, ListFacts DEF ParserInv, ParserTypeOK, Lists
  <2>3. Len(open') = Len(open) + Depth(taken.type)
    BY <2>1, <2>2 DEF Depth
  <2>4. Ordered => Ordered'
    BY <1>0, <2>1, <2>3, DropKeeps
  <2>5. Planted' /\ status' = status
    BY <1>0, <1>4, <2>1, <2>4, OpenTree DEF lexerVars
  <2> QED BY <2>5 DEF TreeInv
<1>5. CASE UnexpectedToken
  BY <1>5 DEF UnexpectedToken, Exit, TreeInv
<1>6. CASE CloseLambda
  <2>1. CASE LambdaEnds
    <3>1. status' = status
      BY <1>6, <2>1 DEF CloseLambda, Eat
    <3> QED BY <1>6, <2>1, <3>1, CloseTree DEF TreeInv
  <2>2. CASE ~LambdaEnds
    BY <1>6, <2>2 DEF CloseLambda, Exit, TreeInv
  <2> QED BY <2>1, <2>2
<1>7. CASE Finish
  <2>1. status' = "done"
    BY <1>7 DEF Finish
  <2> QED BY <1>0, <1>7, <2>1, FinishTree DEF TreeInv
<1> QED BY <1>1, <1>2, <1>3, <1>4, <1>5, <1>6, <1>7 DEF Next

\* No word was read yet, and the tree has no node.
LEMMA InitTree ==
  ASSUME Init
  PROVE  TreeInv
<1>1. /\ source \in Seq(STRING) /\ curr = 0 /\ has_token = FALSE
      /\ taken = NoToken /\ status = "running" /\ open = << <<>> >>
  BY SourcesAssumption DEF Init, LexerInit
<1>2. R(curr) = Unread
  BY <1>1, ReadingsAre
<1>3. R(curr).words = <<>> /\ ~R(curr).wrong /\ R(curr).lambdas = 0
  BY <1>2 DEF Unread
<1>4. Len(open) = 1 /\ open[1] = <<>> /\ Waiting = "none"
  BY <1>1 DEF Waiting
<1>5. Ordered
  BY <1>1, <1>3, <1>4, NothingTaken DEF Ordered, Balanced
<1>6. PICK words : words = <<>> /\ IsSeq(words) /\ Len(words) = 0
  BY TheEmptySeq
<1>7. Behind(words, 0)
  BY <1>1, <1>6 DEF Behind, One
<1>8. PICK begin : begin = [i \in 1 .. 1 |-> 0]
  OBVIOUS
<1>9. begin \in [1 .. 1 -> Nat] /\ begin[1] = 0
  BY <1>8
<1>10. IsSeq(open)
  <2>1. <<>> \in {<<>>}
    OBVIOUS
  <2>2. PICK x : x = <<>>
    OBVIOUS
  <2>3. <<x>> \in Seq({x})
    OBVIOUS
  <2> QED BY <1>1, <2>2, <2>3 DEF IsSeq
<1>11. Spans(open[1], words, 0, 0)
  BY <1>4, SpansNothing
<1>12. Layout(open, words, begin, 0)
  BY <1>4, <1>9, <1>10, <1>11 DEF Layout
<1> QED BY <1>1, <1>3, <1>5, <1>6, <1>7, <1>12 DEF TreeInv, Planted

\* The tree of every accepted program spells its source, however long it is and
\* however deep its lambdas are, although parse_any looks at a token only when
\* the next one is scanned: nothing is lost, doubled, moved or made up but the
\* ends of the lambdas that the stale register closes (parser.cpp:195), and no
\* word is mistaken but those named.
THEOREM SpellsSource == Spec => []TreeSpellsSource
<1>1. Init => ParserInv /\ AcceptInv /\ TreeInv
  BY InitParser, InitAccept, InitTree
<1>2. ParserInv /\ AcceptInv /\ TreeInv /\ [Next]_parserVars
        => ParserInv' /\ AcceptInv' /\ TreeInv'
  <2> SUFFICES ASSUME ParserInv, AcceptInv, TreeInv, [Next]_parserVars
               PROVE  ParserInv' /\ AcceptInv' /\ TreeInv'
    OBVIOUS
  <2>1. ParserInv' /\ AcceptInv'
    BY AcceptKept
  <2>2. CASE UNCHANGED parserVars
    <3>1. UNCHANGED <<source, start, curr, scanning, has_token, token, status,
                      open, taken>>
      BY <2>2 DEF parserVars, lexerVars
    <3>2. Length' = Length /\ R(curr)' = R(curr) /\ R(Length)' = R(Length)
      BY <3>1, SourceKept
    <3>3. (Ordered' <=> Ordered) /\ (Closed' <=> Closed)
      BY <3>1, <3>2 DEF Ordered, Balanced, Doomed, Closed, Waiting
    <3>4. Planted => Planted'
      BY <3>1, <3>2, <3>3 DEF Planted, Behind, Beyond
    <3>5. Grown => Grown'
      BY <3>1, <3>2 DEF Grown
    <3>6. TreeInv'
      BY <3>1, <3>4, <3>5 DEF TreeInv
    <3> QED BY <2>1, <3>6
  <2>3. CASE Next
    <3>1. status = "running"
      BY <2>3, StoppedStays
    <3>2. TreeInv'
      BY <2>3, <3>1, TreeStep DEF TreeInv
    <3> QED BY <2>1, <3>2
  <2> QED BY <2>2, <2>3
<1>3. TreeInv => TreeSpellsSource
  <2> SUFFICES ASSUME TreeInv, status = "done"
               PROVE  LET length == Len(Reading.words) + Reading.lambdas
                          walk == Walked([left |-> Tree, spelled |-> <<>>], length)
                      IN  /\ walk.left = <<>> /\ Len(walk.spelled) = length
                          /\ \A i \in 1 .. length :
                               Spells(walk.spelled[i], Reading.words, i)
    BY DEF TreeSpellsSource
  <2>1. Reading = R(Length)
    BY DEF Reading, R
  <2>2. PICK words, begin, to :
          /\ Len(open) = 1 /\ words = Reading.words
          /\ Layout(open, words, begin, to)
          /\ to = Len(words) + Reading.lambdas
    BY <2>1 DEF TreeInv, Grown
  <2>3. PICK walk : walk = Walked(Walk(open[1], <<>>), to)
    OBVIOUS
  <2>4. /\ walk.left = <<>> /\ Len(walk.spelled) = to
        /\ \A i \in 1 .. to : Spells(walk.spelled[i], words, i)
    BY <2>2, <2>3, LayoutTold
  <2>5. walk = Walked([left |-> Tree, spelled |-> <<>>], to)
    BY <2>3 DEF Walk, Tree
  <2> QED BY <2>2, <2>4, <2>5
<1> QED BY <1>1, <1>2, <1>3, PTL DEF Spec
=============================================================================
