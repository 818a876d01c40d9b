------------------------------ MODULE Program ------------------------------
(***************************************************************************)
(* Programs as the parser builds them and the optimizer rewrites them, and *)
(* what they mean once compiled: src/src/ast.h, Compiler::compile_raw and  *)
(* Compiler::compile_instruction of src/src/compiler.cpp, and the handlers *)
(* of src/src/runtime.cpp that run lambdas.                                *)
(*                                                                         *)
(* Code is a sequence of nodes.  Of the operands only what decides where   *)
(* control goes is kept: true, false and lambdas.  What objects, roots and *)
(* variables do is the subject of Runtime.tla.                             *)
(***************************************************************************)
EXTENDS Integers, SequencesExt

\* A node holds code if it is a lambda, and a label if it is a branch.
Node(op, code, label) == [op |-> op, code |-> code, label |-> label]
Lambda(code) == Node("lambda", code, 0)
Instruction(op) == Node(op, <<>>, 0)
Labelled(op, label) == Node(op, <<>>, label)

IsLambda(n) == n.op = "lambda"
Constant(n) == n.op \in {"true", "false", "lambda"}
Branches == {"branch", "branch_if_false"}
Ops == {"true", "false", "lambda", "drop", "exec", "cond_exec", "while",
        "branch_target"} \cup Branches

-----------------------------------------------------------------------------
(* A machine that runs code: its operands, an activation for every lambda  *)
(* that is running, and how it ended.  `lambdas' holds the condition and   *)
(* the body of the loop an activation belongs to, if it belongs to one.    *)

Activation(code) == [code |-> code, at |-> 1, phase |-> "call", lambdas |-> <<>>]
LoopPart(phase, cond, body) ==
  [code |-> IF phase = "cond" THEN cond.code ELSE body.code,
   at |-> 1, phase |-> phase, lambdas |-> <<cond, body>>]

Started(code, operands) ==
  [stack |-> operands, running |-> <<Activation(code)>>, ended |-> "no"]

\* A failed assert: too few operands, or a call of what is not a lambda.
Aborted(m) == [m EXCEPT !.ended = "aborted"]

Truthy(v) == v.op # "false"
Pushed(m, v) == [m EXCEPT !.stack = Append(@, v)]
Popped(m) == [m EXCEPT !.stack = Front(@)]
Advanced(m) == [m EXCEPT !.running[Len(m.running)].at = @ + 1]
Entered(m, a) == [m EXCEPT !.running = Append(@, a)]
Left(m) == [m EXCEPT !.running = Front(@)]

\* A branch goes to the target with its label in the code being compiled.
Targets(code, label) ==
  {i \in DOMAIN code : code[i] = Labelled("branch_target", label)}
Jumped(m, label) ==
  LET targets == Targets(Last(m.running).code, label)
  IN  IF targets = {} THEN Aborted(m)
      ELSE [m EXCEPT !.running[Len(m.running)].at = CHOOSE i \in targets : TRUE]

-----------------------------------------------------------------------------
(* Instructions.  m is the machine with the instruction already passed.    *)

Exec(m) ==
  IF m.stack = <<>> \/ ~IsLambda(Last(m.stack)) THEN Aborted(m)
  ELSE Entered(Popped(m), Activation(Last(m.stack).code))

\* The body is looked at only when the condition holds.
CondExec(m) ==
  IF Len(m.stack) < 2 THEN Aborted(m)
  ELSE LET body == Last(m.stack)
           cond == Last(Front(m.stack))
       IN  IF ~Truthy(cond) THEN Popped(Popped(m))
           ELSE IF ~IsLambda(body) THEN Aborted(m)
           ELSE Entered(Popped(Popped(m)), Activation(body.code))

While(m) ==
  IF Len(m.stack) < 2 THEN Aborted(m)
  ELSE LET cond == Last(Front(m.stack))
           body == Last(m.stack)
       IN  IF IsLambda(cond) /\ IsLambda(body)
           THEN Entered(Popped(Popped(m)), LoopPart("cond", cond, body))
           ELSE Aborted(m)

BranchIfFalse(m, label) ==
  IF m.stack = <<>> THEN Aborted(m)
  ELSE IF Truthy(Last(m.stack)) THEN Popped(m) ELSE Jumped(Popped(m), label)

Instructed(m, n) ==
  CASE Constant(n)              -> Pushed(m, n)
    [] n.op = "drop"            -> IF m.stack = <<>> THEN Aborted(m) ELSE Popped(m)
    [] n.op = "exec"            -> Exec(m)
    [] n.op = "cond_exec"       -> CondExec(m)
    [] n.op = "while"           -> While(m)
    [] n.op = "branch"          -> Jumped(m, n.label)
    [] n.op = "branch_if_false" -> BranchIfFalse(m, n.label)
    [] n.op = "branch_target"   -> m

\* A lambda has come to its end: back to its caller, or on with the loop.
Returned(m) ==
  LET a == Last(m.running)
      rest == Left(m)
      again(phase) == LoopPart(phase, a.lambdas[1], a.lambdas[2])
  IN  CASE a.phase = "call" -> rest
        [] a.phase = "body" -> Entered(rest, again("cond"))
        [] a.phase = "cond" ->
             IF m.stack = <<>> THEN Aborted(m)
             ELSE IF Truthy(Last(m.stack))
             THEN Entered(Popped(rest), again("body"))
             ELSE Popped(rest)

Stepped(m) ==
  IF m.ended # "no" THEN m
  ELSE IF m.running = <<>> THEN [m EXCEPT !.ended = "finished"]
  ELSE LET a == Last(m.running)
       IN  IF a.at > Len(a.code) THEN Returned(m)
           ELSE Instructed(Advanced(m), a.code[a.at])

\* What a program leaves: its operands if it finished within so many steps.
\* Lambdas that are left are alike, their code may have been rewritten.
Outcome(code, operands, steps) ==
  LET after[n \in 0 .. steps] ==
        IF n = 0 THEN Started(code, operands) ELSE Stepped(after[n - 1])
      m == after[steps]
  IN  [ended |-> m.ended,
       stack |-> IF m.ended # "finished" THEN <<>>
                 ELSE [i \in DOMAIN m.stack |-> m.stack[i].op]]
=============================================================================
