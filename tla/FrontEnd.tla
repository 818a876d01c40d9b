------------------------------ MODULE FrontEnd ------------------------------
(***************************************************************************)
(* The tree that Parser builds, against the words of Language.             *)
(***************************************************************************)
EXTENDS Language

-----------------------------------------------------------------------------
(* The tree, spelled as the language spells it.                            *)

Tree == open[1]

Bracket(op) == Node(op, <<>>, 0, <<>>)

\* The tree is told node by node from the left: what is told so far, and what
\* is left to tell.  A lambda is its nodes between brackets.
Told(walk) ==
  LET node == Head(walk.left)
      rest == Tail(walk.left)
  IN  IF walk.left = <<>> THEN walk
      ELSE IF node.op = "lambda"
      THEN [left |-> node.code \o (<<Bracket("]")>> \o rest),
            spelled |-> Append(walk.spelled, Bracket("["))]
      ELSE [left |-> rest, spelled |-> Append(walk.spelled, node)]

\* Some nodes further on.
Walked(walk, nodes) ==
  LET told[n \in 0 .. nodes] == IF n = 0 THEN walk ELSE Told(told[n - 1])
  IN  told[nodes]

\* What a word of the source should be in the tree.
Meant(word) ==
  LET c == word[1]
  IN  CASE c = Quote -> Node("STRING", SubSeq(word, 2, Len(word) - 1), 0, <<>>)
        [] c \in Digits -> Node("NUMBER", <<>>, InBase(10, word), <<>>)
        [] c \in Letters ->
             IF word \in DOMAIN Keywords THEN Node(Keywords[word], <<>>, 0, <<>>)
             ELSE Node("REFERENCE", word, 0, <<>>)
        [] c \in {"[", "]"} -> Bracket(c)
        [] c = "&" -> Node("and", <<>>, 0, <<>>)
        [] OTHER -> Node(Instructions[Operators[c]], <<>>, 0, <<>>)

Numeral(n) == Node("NUMBER", <<>>, Min({MaxNumber, n}), <<>>)

\* The first n digits are octal ones, and the next is not.
OctalUpTo(word, n) ==
  /\ \A i \in 1 .. n : DigitValue[word[i]] <= 7
  /\ n < Len(word) => DigitValue[word[n + 1]] > 7

\* The words the parser takes for something else, and what it takes them for:
\* & for ~, a number with a leading zero for what its octal digits say, a
\* number that does not fit for the largest.
Mistaken(word, node) ==
  \/ word = <<"&">> /\ node = Node("not", <<>>, 0, <<>>)
  \/ /\ word[1] = "0" /\ Len(word) > 1
     /\ \E n \in 1 .. Len(word) :
          OctalUpTo(word, n) /\ node = Numeral(InBase(8, SubSeq(word, 1, n)))
  \/ /\ word[1] \in Digits /\ InBase(10, word) > MaxNumber
     /\ node = Node("NUMBER", <<>>, MaxNumber, <<>>)

\* What stands at a position of the spelled tree, behind the words the ends of
\* the lambdas that were left open.
Spells(node, words, i) ==
  IF i > Len(words) THEN node = Bracket("]")
  ELSE node = Meant(words[i]) \/ Mistaken(words[i], node)

-----------------------------------------------------------------------------
(* Properties.                                                             *)

\* The tree of an accepted program spells the source: every token outside
\* comments, in order, once, at its nesting, and nothing else, although the
\* token is taken before the next is scanned and used after.  The exceptions
\* are the mistaken words, whose nodes are named, and the ends of the lambdas
\* left open.
TreeSpellsSource ==
  status = "done" =>
    LET length == Len(Reading.words) + Reading.lambdas
        walk == Walked([left |-> Tree, spelled |-> <<>>], length)
    IN  /\ walk.left = <<>> /\ Len(walk.spelled) = length
        /\ \A i \in 1 .. length : Spells(walk.spelled[i], Reading.words, i)

\* Scanning and parsing come to an end on every source.
FrontEndEnds == <>(status # "running")
=============================================================================
