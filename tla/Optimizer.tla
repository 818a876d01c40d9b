----------------------------- MODULE Optimizer -----------------------------
(***************************************************************************)
(* optimize() of src/src/optimizer.cpp: the lambdas of a code array first, *)
(* recursively, then three passes that put the code of a lambda in the     *)
(* place of the instruction that would have run it.  One step is one       *)
(* iteration of a loop, over an explicit stack of the activations of       *)
(* optimize().  What it leaves is compiled in Compiler.tla.                *)
(*                                                                         *)
(* An Array<Node*> is the sequence of its nodes; indices start at 1 here.  *)
(* The nodes that are freed come from the parser's arena, whose free does  *)
(* nothing, and are still read afterwards.                                 *)
(***************************************************************************)
EXTENDS Program

CONSTANTS
  Programs,    \* the code main may pass to optimize
  Operands,    \* what may be on the stack when a program starts
  Watched,     \* the numbers of steps a program is watched for
  MaxDepth     \* of the lambdas in a program

\* What parse builds: branches and their targets are made in optimize only, and
\* what is in a lambda may as well be a program.
ASSUME ProgramsAssumption ==
  LET nodes == UNION {Range(code) : code \in Programs}
  IN  /\ MaxDepth \in Nat
      /\ \A code \in Programs : code \in Seq(Range(code))
      /\ \A n \in nodes : /\ n = Node(n.op, n.code, n.label)
                          /\ n.op \in Ops \ (Branches \cup {"branch_target"})
      /\ {n.code : n \in {m \in nodes : IsLambda(m)}} \subseteq Programs

\* Operands are what a program would push.
ASSUME OperandsAssumption ==
  \A operands \in Operands :
    /\ operands \in Seq(Range(operands))
    /\ \A v \in Range(operands) : /\ v = Node(v.op, v.code, v.label)
                                  /\ Constant(v)
                                  /\ IsLambda(v) => v.code \in Programs

VARIABLES
  calls,       \* activations of optimize: its code, its loop and its index
  next_label,
  status,      \* "running", "done", or "aborted" by a failed assert
  source,      \* history: the program before it was optimized
  moved        \* history: unordered_remove moved nodes past one another

optimizerVars == <<calls, next_label, status, source, moved>>

Call(code) == [code |-> code, pass |-> "lambdas", i |-> 1]

OptimizerInit ==
  /\ source \in Programs
  /\ calls = <<Call(source)>>
  /\ next_label = 0
  /\ status = "running"
  /\ moved = FALSE

-----------------------------------------------------------------------------
(* Array<T> of src/src/array.h, as far as the passes use it.               *)

\* The last node takes the place of the one that is removed.
UnorderedRemove(code, i) ==
  IF i = Len(code) THEN Front(code) ELSE [Front(code) EXCEPT ![i] = Last(code)]

OrderedRemove(code, i) == RemoveAt(code, i)

ExtendBefore(code, i, nodes) ==
  SubSeq(code, 1, i - 1) \o nodes \o SubSeq(code, i, Len(code))

-----------------------------------------------------------------------------
(* What a loop finds at its index.                                         *)

Current == Last(calls)
InPass(pass) == status = "running" /\ Current.pass = pass
NodeIs(k, op) ==
  Current.i + k <= Len(Current.code) /\ Current.code[Current.i + k].op = op

AtExec == NodeIs(0, "lambda") /\ NodeIs(1, "exec")
AtCondExec == NodeIs(0, "lambda") /\ NodeIs(1, "cond_exec")
AtWhile == NodeIs(0, "lambda") /\ NodeIs(1, "lambda") /\ NodeIs(2, "while")

BodyAt(k) == Current.code[Current.i + k].code
Continue(code, i) ==
  calls' = [calls EXCEPT ![Len(calls)] = [@ EXCEPT !.code = code, !.i = i]]

-----------------------------------------------------------------------------
(* The code the passes put in.                                             *)

\* Mutant of Conditional: the branch goes to the next label.
ConditionalNextLabel(body, l) ==
  <<Labelled("branch_if_false", l + 1)>> \o body
     \o <<Labelled("branch_target", l)>>

Conditional(body, l) ==
  <<Labelled("branch_if_false", l)>> \o body \o <<Labelled("branch_target", l)>>

Loop(cond, body, check, post_cond) ==
  <<Labelled("branch_target", check)>> \o cond
     \o <<Labelled("branch_if_false", post_cond)>> \o body
     \o <<Labelled("branch", check), Labelled("branch_target", post_cond)>>

-----------------------------------------------------------------------------
(* The loops.                                                              *)

\* optimize calls itself on a lambda, and is in the loop over the lambdas
\* again when it returns.
Descend ==
  /\ InPass("lambdas") /\ NodeIs(0, "lambda")
  /\ calls' = Append(calls, Call(BodyAt(0)))
  /\ UNCHANGED <<next_label, status, source, moved>>

InlineExec ==
  /\ InPass("execs") /\ AtExec
  /\ LET i == Current.i
         rest == UnorderedRemove(UnorderedRemove(Current.code, i + 1), i)
     IN  Continue(ExtendBefore(rest, i, BodyAt(0)), i + 1)
  /\ moved' = (moved \/ Len(Current.code) - Current.i >= 4)
  /\ UNCHANGED <<next_label, status, source>>

\* The assert looks at the last of the nodes that were put in, which is a
\* drop if the lambda was empty.
InlineCondExec ==
  /\ InPass("conds") /\ AtCondExec
  /\ LET i == Current.i
         body == BodyAt(0)
         rest == OrderedRemove(OrderedRemove(Current.code, i + 1), i)
         ti == IF body = <<>> THEN <<Instruction("drop")>>
               ELSE Conditional(body, next_label)
     IN  /\ Continue(ExtendBefore(rest, i, ti), i + Len(ti))
         /\ next_label' = IF body = <<>> THEN next_label ELSE next_label + 1
         /\ status' = IF Last(ti).op = "branch_target" THEN "running"
                      ELSE "aborted"
  /\ UNCHANGED <<source, moved>>

InlineWhile ==
  /\ InPass("whiles") /\ AtWhile
  /\ LET i == Current.i
         rest == OrderedRemove(OrderedRemove(OrderedRemove(
                   Current.code, i + 2), i + 1), i)
         ti == Loop(BodyAt(0), BodyAt(1), next_label, next_label + 1)
     IN  Continue(ExtendBefore(rest, i, ti), i + 1)
  /\ next_label' = next_label + 2
  /\ UNCHANGED <<status, source, moved>>

\* Nothing to do at this index.
Nothing ==
  CASE Current.pass = "lambdas" -> ~NodeIs(0, "lambda")
    [] Current.pass = "execs"   -> ~AtExec
    [] Current.pass = "conds"   -> ~AtCondExec
    [] Current.pass = "whiles"  -> ~AtWhile

\* Mutant of Advance: the index moves only when something was put in.
AdvanceStuck ==
  /\ status = "running" /\ Current.i <= Len(Current.code) /\ Nothing
  /\ UNCHANGED optimizerVars

Advance ==
  /\ status = "running" /\ Current.i <= Len(Current.code) /\ Nothing
  /\ Continue(Current.code, Current.i + 1)
  /\ UNCHANGED <<next_label, status, source, moved>>

PassAfter(pass) ==
  CASE pass = "lambdas" -> "execs"
    [] pass = "execs"   -> "conds"
    [] pass = "conds"   -> "whiles"
NextPass ==
  /\ status = "running" /\ Current.i > Len(Current.code) /\ Current.pass # "whiles"
  /\ calls' = [calls EXCEPT ![Len(calls)] =
                 [@ EXCEPT !.pass = PassAfter(Current.pass), !.i = 1]]
  /\ UNCHANGED <<next_label, status, source, moved>>

Return ==
  /\ InPass("whiles") /\ Current.i > Len(Current.code)
  /\ IF Len(calls) = 1
     THEN status' = "done" /\ UNCHANGED calls
     ELSE LET caller == Last(Front(calls))
              optimized == [caller EXCEPT !.code[caller.i].code = Current.code,
                                          !.i = @ + 1]
          IN  /\ calls' = Append(Front(Front(calls)), optimized)
              /\ UNCHANGED status
  /\ UNCHANGED <<next_label, source, moved>>

OptimizerNext ==
  \/ Descend \/ InlineExec \/ InlineCondExec \/ InlineWhile
  \/ Advance \/ NextPass \/ Return

-----------------------------------------------------------------------------
(* Properties.                                                             *)

\* The lambdas of a program, the program included, each with its place.
LambdasIn(code) ==
  LET deep[n \in 0 .. MaxDepth] ==
        IF n = 0 THEN {<< <<>>, code >>}
        ELSE UNION {{<<Append(l[1], i), l[2][i].code>> :
                       i \in {j \in DOMAIN l[2] : IsLambda(l[2][j])}} :
                     l \in deep[n - 1]}
  IN  UNION {deep[n] : n \in 0 .. MaxDepth}

\* Every branch finds its target in the code it is compiled with, and no label
\* has two targets anywhere in the program: the compiler keeps one table of
\* labels for all the functions it compiles.
LabelsResolve ==
  status = "done" =>
    LET lambdas == LambdasIn(Current.code)
        at(l, op) == {i \in DOMAIN l[2] : l[2][i].op = op}
        nodes(op) == UNION {{<<l, i>> : i \in at(l, op)} : l \in lambdas}
        label(x) == x[1][2][x[2]].label
    IN  /\ \A x, y \in nodes("branch_target") : label(x) = label(y) => x = y
        /\ \A op \in Branches : \A x \in nodes(op) :
             Targets(x[1][2], label(x)) # {}

\* optimizer.cpp:83, the assert behind every inlined conditional.
NeverAborts == status # "aborted"
=============================================================================
