------------------------------ MODULE Compiler ------------------------------
(***************************************************************************)
(* compile_raw of src/src/compiler.cpp over what Optimizer.tla leaves: a   *)
(* function for every lambda, begun where its caller meets the lambda, and *)
(* one table for the labels of all functions.  One step is one node.       *)
(*                                                                         *)
(* libjit numbers the labels of each function for itself, from 0.  The     *)
(* code it is given is written with the nodes of Program.tla, with its own *)
(* labels in place of the program's, and runs as they do.                  *)
(***************************************************************************)
EXTENDS Optimizer

VARIABLES
  functions,   \* activations of compile_raw: nodes, index, and libjit's code
  labels,      \* Compiler::labels, from the program's labels to libjit's
  compiled     \* the code that main is to run

vars == <<optimizerVars, functions, labels, compiled>>

\* jit_function_create.
Function(nodes) == [nodes |-> nodes, i |-> 1, code |-> <<>>, next_label |-> 0]

Init ==
  /\ OptimizerInit
  /\ functions = <<>>
  /\ labels = << >>
  /\ compiled = <<>>

Optimize == OptimizerNext /\ UNCHANGED <<functions, labels, compiled>>

\* Compiler::compile, once optimize has returned.
Compile ==
  /\ status = "done"
  /\ status' = "compiling"
  /\ functions' = <<Function(Current.code)>>
  /\ UNCHANGED <<calls, next_label, source, moved, labels, compiled>>

-----------------------------------------------------------------------------
(* The loop of compile_raw.                                                *)

InFunction == Last(functions)
Meets(ops) ==
  /\ status = "compiling"
  /\ InFunction.i <= Len(InFunction.nodes)
  /\ InFunction.nodes[InFunction.i].op \in ops
Labels == Branches \cup {"branch_target"}

\* The code grows, and the loop goes on to the next node.
Emitted(f, node) == [f EXCEPT !.code = Append(@, node), !.i = @ + 1]
Replaced(f) == functions' = [functions EXCEPT ![Len(functions)] = f]

CompileLambda ==
  /\ Meets({"lambda"})
  /\ functions' = Append(functions, Function(InFunction.nodes[InFunction.i].code))
  /\ UNCHANGED <<optimizerVars, labels, compiled>>

\* compile_constant, and compile_instruction but for the branches.
CompileNode ==
  /\ status = "compiling" /\ ~Meets({"lambda"} \cup Labels)
  /\ InFunction.i <= Len(InFunction.nodes)
  /\ Replaced(Emitted(InFunction, InFunction.nodes[InFunction.i]))
  /\ UNCHANGED <<optimizerVars, labels, compiled>>

\* Mutant of CompileBranch: labels.put is left out.
CompileBranchUnkept ==
  /\ Meets(Labels)
  /\ LET f == InFunction
         node == f.nodes[f.i]
         undefined == node.label \notin DOMAIN labels
         label == IF undefined THEN f.next_label ELSE labels[node.label]
     IN  Replaced([Emitted(f, Labelled(node.op, label)) EXCEPT
                     !.next_label = IF undefined THEN @ + 1 ELSE @])
  /\ UNCHANGED <<optimizerVars, labels, compiled>>

\* A branch or its target: get_or_else, libjit's next label if there is none,
\* and put.
CompileBranch ==
  /\ Meets(Labels)
  /\ LET f == InFunction
         node == f.nodes[f.i]
         undefined == node.label \notin DOMAIN labels
         label == IF undefined THEN f.next_label ELSE labels[node.label]
     IN  /\ Replaced([Emitted(f, Labelled(node.op, label)) EXCEPT
                        !.next_label = IF undefined THEN @ + 1 ELSE @])
         /\ labels' = [l \in DOMAIN labels \cup {node.label} |->
                         IF l = node.label THEN label ELSE labels[l]]
  /\ UNCHANGED <<optimizerVars, compiled>>

\* jit_function_compile; the caller goes on to push the lambda.
FinishFunction ==
  /\ status = "compiling" /\ InFunction.i > Len(InFunction.nodes)
  /\ IF Len(functions) = 1
     THEN /\ status' = "compiled" /\ compiled' = InFunction.code
          /\ UNCHANGED functions
     ELSE LET caller == Last(Front(functions))
          IN  /\ functions' = Append(Front(Front(functions)),
                                     Emitted(caller, Lambda(InFunction.code)))
              /\ UNCHANGED <<status, compiled>>
  /\ UNCHANGED <<calls, next_label, source, moved, labels>>

Next ==
  \/ Optimize \/ Compile
  \/ CompileLambda \/ CompileNode \/ CompileBranch \/ FinishFunction

\* main runs one phase after the other.
Spec == Init /\ [][Next]_vars /\ WF_vars(Next)

-----------------------------------------------------------------------------
(* Properties.                                                             *)

\* What runs in the end does what the source says: from the same operands it
\* ends in the same way and leaves the same operands, conditionals and loops
\* inlined into one another included, with labels from one counter and one
\* table for all functions.  The one exception is an inlined `[..]!' with
\* three or more nodes behind it, which unordered_remove puts out of order.
Outcomes(code, operands) ==
  {o \in {Outcome(code, operands, n) : n \in Watched} : o.ended # "no"}
SameMeaning(code) ==
  \A operands \in Operands : Outcomes(code, operands) = Outcomes(source, operands)
KeepsMeaning == status = "compiled" /\ ~moved => SameMeaning(compiled)

\* The program is compiled at last, although the optimizer puts nodes into the
\* code it is walking over.
Ends == <>(status \in {"compiled", "aborted"})
=============================================================================
