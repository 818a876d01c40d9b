------------------------------ MODULE Language ------------------------------
(***************************************************************************)
(* The language, told one character at a time with no register and no      *)
(* recursion, and which sources the scanner and the parser together are to *)
(* accept.                                                                 *)
(***************************************************************************)
EXTENDS Parser

-----------------------------------------------------------------------------
(* The language.  `mode' is what the character before belongs to, `comment' *)
(* and `lambdas' count what is open, `closing' holds when the last token is *)
(* the end of a lambda.                                                    *)

Unread ==
  [mode |-> "code", comment |-> 0, lambdas |-> 0, closing |-> FALSE,
   wrong |-> FALSE, words |-> <<>>]

Began(r, mode, c) ==
  [r EXCEPT !.mode = mode, !.closing = FALSE, !.words = Append(@, <<c>>)]
Went(r, c) == [r EXCEPT !.words[Len(r.words)] = Append(@, c)]

Goes(r, c) ==
  \/ r.mode = "word" /\ c \in WordCharacters
  \/ r.mode = "number" /\ c \in Digits

ReadOn(r, c) ==
  CASE c \in Spaces -> [r EXCEPT !.mode = "code"]
    [] c = OpenBrace -> [r EXCEPT !.mode = "code", !.comment = 1]
    [] c = Quote -> Began(r, "string", c)
    [] c \in Digits -> Began(r, "number", c)
    [] c \in Letters -> Began(r, "word", c)
    [] c = "[" -> [Began(r, "code", c) EXCEPT !.lambdas = @ + 1]
    [] c = "]" -> [Began(r, "code", c) EXCEPT !.lambdas = @ - 1, !.closing = TRUE,
                                              !.wrong = @ \/ r.lambdas = 0]
    [] c \in DOMAIN Operators \ {"[", "]"} -> Began(r, "code", c)
    [] OTHER -> [r EXCEPT !.wrong = TRUE]

ReadCharacter(r, c) ==
  IF r.comment > 0
  THEN [r EXCEPT !.comment = IF c = OpenBrace THEN @ + 1
                             ELSE IF c = CloseBrace THEN @ - 1 ELSE @]
  ELSE IF r.mode = "string"
  THEN [Went(r, c) EXCEPT !.mode = IF c = Quote THEN "code" ELSE @]
  ELSE IF Goes(r, c) THEN Went(r, c)
  ELSE ReadOn(r, c)

\* What is known after each of the characters of a text.
Readings(text) ==
  LET read[n \in 0 .. Len(text)] ==
        IF n = 0 THEN Unread ELSE ReadCharacter(read[n - 1], text[n])
  IN  read

Reading == Readings(source)[Length]

-----------------------------------------------------------------------------
(* Properties.                                                             *)

\* The program is rejected exactly when its source is malformed: a comment or
\* a string is not closed, a character has no meaning, or the lambdas are not
\* balanced.  The one exception are lambdas left open by a source whose last
\* token closes one: the stale register closes all that are open.
WellFormed(r) ==
  /\ r.comment = 0 /\ r.mode # "string" /\ ~r.wrong
  /\ r.lambdas = 0 \/ r.closing
AcceptsWellFormed == status # "running" => (status = "done" <=> WellFormed(Reading))
=============================================================================
