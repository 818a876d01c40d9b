---------------------------- MODULE MCOptimizer ----------------------------
(***************************************************************************)
(* Optimizer and Compiler on every program of at most Size nodes, nested   *)
(* in every way.                                                           *)
(***************************************************************************)
EXTENDS Compiler

CONSTANT Size

Atoms == {Instruction(op) : op \in {"true", "false", "exec", "cond_exec", "while"}}

\* Codes[n]: the code with n nodes, those in lambdas counted.
Codes[n \in 0 .. Size] ==
  IF n = 0 THEN {<<>>}
  ELSE {<<x>> \o c : x \in Atoms, c \in Codes[n - 1]}
         \cup UNION {{<<Lambda(b)>> \o c : b \in Codes[k], c \in Codes[n - 1 - k]} :
                       k \in 0 .. n - 1}

MCPrograms == UNION {Codes[n] : n \in 0 .. Size}

True == Instruction("true")
False == Instruction("false")
MCOperands ==
  {<<>>, <<True>>, <<False>>, <<False, True>>, <<True, False>>,
   <<False, True, True>>}
=============================================================================
