------------------------------ MODULE Runtime ------------------------------
(***************************************************************************)
(* The runtime of src/src/runtime.cpp: the operand stack, the global scope *)
(* and the handlers that compiled code calls, over the heap of Heap.tla.   *)
(*                                                                         *)
(* The program is the most general one: wherever compiled code runs, any   *)
(* handler may be called next.  The language is concatenative, so every    *)
(* sequence of handlers is a program.  What is not compiled code keeps its *)
(* control: while a handler runs a lambda, its activation is a frame.      *)
(*                                                                         *)
(* Asserts are on (the debug build: with NDEBUG, read_entire_file loses    *)
(* its fread along with the assert around it and no program is ever read). *)
(* A failed assert or a trap ends the process, as does the end of main;    *)
(* reading freed or uninitialized memory leaves the model with nothing     *)
(* more to say.  In each case the memory is forgotten.                     *)
(***************************************************************************)
EXTENDS Heap, Sequences

CONSTANTS
  Constants,    \* the values compile_constant and compile_lambda may push
  NativeNames,  \* the names main binds to native functions
  MaxStack,     \* bound on the operand stack, not in the code
  MaxFrames,    \* bound on nested handler activations, not in the code
  MaxRoots      \* bound on the root entries of a dropped operand: Drop
                \* leaves one behind each time, so nothing else bounds them

ASSUME ConstantsAssumption ==
  Constants \subseteq
    {v \in Value : v.a = Null /\ v.type \notin {"OBJECT", "INVALID"}}

VARIABLES
  stack,   \* Stack::data
  scope,   \* the variables of main's Scope G; an unset name reads as NIL
  frames,  \* handlers that are running a lambda or a native function
  status   \* "running", or how the process ended

vars == <<heapVars, stack, scope, frames, status>>

-----------------------------------------------------------------------------
(* The operand stack: Top(s) is the last element, Pop(s) the rest.         *)

Top(s) == s[Len(s)]
Pop(s) == SubSeq(s, 1, Len(s) - 1)
Second(s) == Top(Pop(s))
Third(s) == Top(Pop(Pop(s)))
Has(n) == Len(stack) >= n

(* Frames.  `cond' and `body' are the values __rt_while keeps in locals;   *)
(* __rt_exec and __rt_cond_exec have only a body.  `done' is set when a    *)
(* native function has finished; a lambda may finish at any point.         *)

Phases == {"call", "cond", "body"}
Frame == [phase : Phases, cond : Value, body : Value, done : BOOLEAN]

Callee(f) == IF f.phase = "cond" THEN f.cond ELSE f.body
\* Mutant of Callable: an object passes for something that can be called.
CallableObject(v) == v.type \in {"LAMBDA", "NATIVE", "OBJECT"}

Callable(v) == v.type \in {"LAMBDA", "NATIVE"}

Enter(f) == frames' = Append(frames, f)
Resume(f) == frames' = Append(Pop(frames), f)
Leave == frames' = Pop(frames)

Running == status = "running"
InLambda == Running /\ (frames # <<>> => Callee(Top(frames)).type = "LAMBDA")

-----------------------------------------------------------------------------
(* How a process ends early.                                               *)

NoVariables == [s \in Strings |-> NilV]

End(how) ==
  /\ status' = how
  /\ stack' = <<>> /\ frames' = <<>> /\ scope' = NoVariables
  /\ head' = Null /\ allocations' = 0
  /\ roots' = [x \in Addr |-> 0]
  /\ cells' = [x \in Addr |-> Freed]

Abort == End("aborted")
Undefined == End("undefined")

-----------------------------------------------------------------------------
Init ==
  /\ HeapInit
  /\ stack = <<>>
  /\ scope = [s \in Strings |-> IF s \in NativeNames THEN NativeV ELSE NilV]
  /\ frames = <<>>
  /\ status = "running"

-----------------------------------------------------------------------------
(* Pushing constants and shuffling the stack.                              *)

\* Stack::push of a constant or of a lambda.
PushConstant(v) ==
  /\ InLambda /\ ~Has(MaxStack)
  /\ stack' = Append(stack, v)
  /\ roots' = Root(roots, v)
  /\ UNCHANGED <<head, allocations, cells, scope, frames, status>>

Dup ==
  /\ InLambda /\ ~Has(MaxStack)
  /\ IF ~Has(1) THEN Abort
     ELSE /\ stack' = Append(stack, Top(stack))
          /\ roots' = Root(roots, Top(stack))
          /\ UNCHANGED <<head, allocations, cells, scope, frames, status>>

\* Stack::drop forgets the slot and leaves its root behind.
Drop ==
  /\ InLambda
  /\ IF ~Has(1) THEN Abort
     ELSE /\ Top(stack).a # Null => roots[Top(stack).a] <= MaxRoots
          /\ stack' = Pop(stack)
          /\ UNCHANGED <<heapVars, scope, frames, status>>

Swap ==
  /\ InLambda
  /\ IF ~Has(2) THEN Abort
     ELSE /\ stack' = Append(Append(Pop(Pop(stack)), Top(stack)), Second(stack))
          /\ UNCHANGED <<heapVars, scope, frames, status>>

Rot ==
  /\ InLambda
  /\ IF ~Has(3) THEN Abort
     ELSE /\ stack' = Append(Append(Append(Pop(Pop(Pop(stack))),
                               Second(stack)), Top(stack)), Third(stack))
          /\ UNCHANGED <<heapVars, scope, frames, status>>

-----------------------------------------------------------------------------
(* Operators.                                                              *)

\* b = pop(); a = *peek(); set_top(c)
Binary(op) ==
  /\ InLambda
  /\ IF ~Has(2) THEN Abort
     ELSE LET b == Top(stack)
              a == Second(stack)
          IN  IF ReadsWild(op, a, b) THEN Undefined
              ELSE IF Results(op, a, b) = {} THEN Abort
              ELSE \E c \in Results(op, a, b) :
                     /\ stack' = Append(Pop(Pop(stack)), c)
                     /\ roots' = Root(Unroot(Unroot(roots, b), a), c)
                     /\ UNCHANGED <<head, allocations, cells, scope, frames,
                                    status>>

\* Mutant of Not: an object is flipped in place like any other true value.
NotOfObjects ==
  /\ InLambda
  /\ IF ~Has(1) \/ Top(stack).type \notin {"TRUE", "FALSE", "NIL", "OBJECT"}
     THEN Abort
     ELSE LET flipped == IF Truthy(Top(stack)) THEN "FALSE" ELSE "TRUE"
          IN  /\ stack' = Append(Pop(stack), [Top(stack) EXCEPT !.type = flipped])
              /\ UNCHANGED <<heapVars, scope, frames, status>>

\* __rt_not and __rt_neg write through peek(): the owner is left alone.
Not ==
  /\ InLambda
  /\ IF ~Has(1) \/ Top(stack).type \notin {"TRUE", "FALSE", "NIL"} THEN Abort
     ELSE LET flipped == IF Top(stack).type = "TRUE" THEN "FALSE" ELSE "TRUE"
          IN  /\ stack' = Append(Pop(stack), [Top(stack) EXCEPT !.type = flipped])
              /\ UNCHANGED <<heapVars, scope, frames, status>>

Neg ==
  /\ InLambda
  /\ IF ~Has(1) \/ Top(stack).type # "NUMBER" THEN Abort
     ELSE /\ stack' = Append(Pop(stack), [Top(stack) EXCEPT !.data = Wrap(-@)])
          /\ UNCHANGED <<heapVars, scope, frames, status>>

-----------------------------------------------------------------------------
(* Objects.                                                                *)

NewObj(x) ==
  /\ InLambda /\ ~Has(MaxStack)
  /\ IF AllocCollects /\ CollectTouchesFreed THEN Undefined
     ELSE /\ AllocAt(x)
          /\ stack' = Append(stack, Object(x))
          /\ roots' = Root(roots, Object(x))
          /\ UNCHANGED <<scope, frames, status>>

\* The value's table is reached through its own pointer.  If the address was
\* freed and given out again, that pointer reads the table that is there now.
Dangling(v) == v.data = Wild \/ v.a = Null \/ cells[v.a] = Freed
Table(v) == cells[v.a].table
WildKey(k) == k.data = Wild /\ k.type \in {"STRING", "REFERENCE"}

\* An object nothing was put in answers before it hashes the key.
GetProp ==
  /\ InLambda
  /\ IF ~Has(2) \/ Second(stack).type # "OBJECT" THEN Abort
     ELSE LET key == Top(stack)
              object == Second(stack)
              x == IF T!Found(Table(object), key)
                   THEN T!ValueAt(Table(object), key) ELSE NilV
          IN  IF Dangling(object) THEN Undefined
              ELSE IF ~T!IsVoid(Table(object)) /\ WildKey(key) THEN Undefined
              ELSE IF ~T!IsVoid(Table(object)) /\ ~Hashable(key) THEN Abort
              ELSE /\ stack' = Append(Pop(Pop(stack)), x)
                   /\ roots' = Root(Unroot(Unroot(roots, key), object), x)
                   /\ UNCHANGED <<head, allocations, cells, scope, frames,
                                  status>>

SetProp ==
  /\ InLambda
  /\ IF ~Has(3) \/ Third(stack).type # "OBJECT" THEN Abort
     ELSE LET value == Top(stack)
              key == Second(stack)
              object == Third(stack)
          IN  IF Dangling(object) \/ WildKey(key) THEN Undefined
              ELSE IF ~Hashable(key) THEN Abort
              ELSE /\ cells' = [cells EXCEPT
                                 ![object.a].table = T!Put(@, key, value)]
                   /\ stack' = Pop(Pop(Pop(stack)))
                   /\ roots' = Unroot(Unroot(Unroot(roots, value), key), object)
                   /\ UNCHANGED <<head, allocations, scope, frames, status>>

-----------------------------------------------------------------------------
(* Variables.  `call' makes a Scope for the callee but hands it the scope  *)
(* it was given, so main's Scope is the only one that ever holds a name.   *)

Load ==
  /\ InLambda
  /\ IF ~Has(1) \/ Top(stack).type # "REFERENCE" THEN Abort
     ELSE IF Top(stack).data = Wild THEN Undefined
     ELSE LET x == scope[Top(stack).data]
          IN  /\ stack' = Append(Pop(stack), x)
              /\ roots' = Root(Unroot(roots, Top(stack)), x)
              /\ UNCHANGED <<head, allocations, cells, scope, frames, status>>

\* Mutants of Store: the new value is not rooted; the old one stays rooted.
StoreRooting(rooting(_, _, _)) ==
  /\ InLambda
  /\ IF ~Has(2) \/ Top(stack).type # "REFERENCE" THEN Abort
     ELSE IF Top(stack).data = Wild THEN Undefined
     ELSE LET key == Top(stack)
              value == Second(stack)
          IN  /\ stack' = Pop(Pop(stack))
              /\ roots' = rooting(Unroot(Unroot(roots, key), value),
                                  scope[key.data], value)
              /\ scope' = [scope EXCEPT ![key.data] = value]
              /\ UNCHANGED <<head, allocations, cells, frames, status>>
StoreUnrooted == StoreRooting(LAMBDA r, old, new : Unroot(r, old))
StoreOverRooted == StoreRooting(LAMBDA r, old, new : Root(r, new))

Store ==
  /\ InLambda
  /\ IF ~Has(2) \/ Top(stack).type # "REFERENCE" THEN Abort
     ELSE IF Top(stack).data = Wild THEN Undefined
     ELSE LET key == Top(stack)
              value == Second(stack)
              popped == Unroot(Unroot(roots, key), value)
          IN  /\ stack' = Pop(Pop(stack))
              /\ roots' = Root(Unroot(popped, scope[key.data]), value)
              /\ scope' = [scope EXCEPT ![key.data] = value]
              /\ UNCHANGED <<head, allocations, cells, frames, status>>

-----------------------------------------------------------------------------
(* Calls, conditionals and loops.                                          *)

Activation(phase, cond, body) ==
  [phase |-> phase, cond |-> cond, body |-> body, done |-> FALSE]

Exec ==
  /\ InLambda /\ Len(frames) < MaxFrames
  /\ IF ~Has(1) \/ ~Callable(Top(stack)) THEN Abort
     ELSE IF Top(stack).data = Wild THEN Undefined
     ELSE /\ stack' = Pop(stack)
          /\ roots' = Unroot(roots, Top(stack))
          /\ Enter(Activation("call", NilV, Top(stack)))
          /\ UNCHANGED <<head, allocations, cells, scope, status>>

\* The body is looked at only when the condition holds.
CondExec ==
  /\ InLambda /\ Len(frames) < MaxFrames
  /\ IF \/ ~Has(2) \/ ~HasTruth(Second(stack))
        \/ Truthy(Second(stack)) /\ ~Callable(Top(stack))
     THEN Abort
     ELSE IF Truthy(Second(stack)) /\ Top(stack).data = Wild THEN Undefined
     ELSE /\ stack' = Pop(Pop(stack))
          /\ roots' = Unroot(Unroot(roots, Top(stack)), Second(stack))
          /\ IF Truthy(Second(stack))
             THEN Enter(Activation("call", NilV, Top(stack)))
             ELSE UNCHANGED frames
          /\ UNCHANGED <<head, allocations, cells, scope, status>>

While ==
  /\ InLambda /\ Len(frames) < MaxFrames
  /\ IF ~Has(2) \/ ~Callable(Top(stack)) \/ ~Callable(Second(stack)) THEN Abort
     ELSE IF Second(stack).data = Wild THEN Undefined
     ELSE /\ stack' = Pop(Pop(stack))
          /\ roots' = Unroot(Unroot(roots, Top(stack)), Second(stack))
          /\ Enter(Activation("cond", Second(stack), Top(stack)))
          /\ UNCHANGED <<head, allocations, cells, scope, status>>

\* Mutant of BranchIf: the condition is dropped instead of popped.
BranchIfDrops ==
  /\ InLambda
  /\ IF ~Has(1) \/ ~HasTruth(Top(stack)) THEN Abort
     ELSE /\ stack' = Pop(stack)
          /\ UNCHANGED <<heapVars, scope, frames, status>>

\* The branches the optimizer inlines: pop_into, then is_truthy.
BranchIf ==
  /\ InLambda
  /\ IF ~Has(1) \/ ~HasTruth(Top(stack)) THEN Abort
     ELSE /\ stack' = Pop(stack)
          /\ roots' = Unroot(roots, Top(stack))
          /\ UNCHANGED <<head, allocations, cells, scope, frames, status>>

\* __std_print and __std_println: one value is popped and written out.
StdPrint ==
  /\ Running /\ frames # <<>>
  /\ Callee(Top(frames)).type = "NATIVE" /\ ~Top(frames).done
  /\ IF ~Has(1) THEN Abort
     ELSE IF WildKey(Top(stack)) THEN Undefined
     ELSE /\ stack' = Pop(stack)
          /\ roots' = Unroot(roots, Top(stack))
          /\ Resume([Top(frames) EXCEPT !.done = TRUE])
          /\ UNCHANGED <<head, allocations, cells, scope, status>>

Returns(phase) ==
  /\ Running /\ frames # <<>>
  /\ Top(frames).phase = phase
  /\ Callee(Top(frames)).type = "LAMBDA" \/ Top(frames).done

ReturnFromCall ==
  /\ Returns("call")
  /\ Leave
  /\ UNCHANGED <<heapVars, stack, scope, status>>

\* The loop's condition has run: its result is popped and tested.
ReturnFromCond ==
  /\ Returns("cond")
  /\ IF ~Has(1) \/ ~HasTruth(Top(stack)) THEN Abort
     ELSE IF Truthy(Top(stack)) /\ Top(frames).body.data = Wild THEN Undefined
     ELSE /\ stack' = Pop(stack)
          /\ roots' = Unroot(roots, Top(stack))
          /\ IF Truthy(Top(stack))
             THEN Resume([Top(frames) EXCEPT !.phase = "body", !.done = FALSE])
             ELSE Leave
          /\ UNCHANGED <<head, allocations, cells, scope, status>>

ReturnFromBody ==
  /\ Returns("body")
  /\ Resume([Top(frames) EXCEPT !.phase = "cond", !.done = FALSE])
  /\ UNCHANGED <<heapVars, stack, scope, status>>

-----------------------------------------------------------------------------
(* The end of main: every operand is popped, the variables are unrooted    *)
(* (Scope::pop leaves them in the table) and the heap is collected.        *)

Refs(s, x) == Cardinality({i \in 1 .. Len(s) : s[i].a = x})
ScopeRefs(sc, x) == Cardinality({s \in Strings : sc[s].a = x})

UnrootAll ==
  LET held(x) == Refs(stack, x) + ScopeRefs(scope, x)
  IN  /\ InLambda /\ frames = <<>>
      /\ roots' = [x \in Addr |->
                     IF roots[x] > held(x) THEN roots[x] - held(x) ELSE 0]
      /\ stack' = <<>>
      /\ status' = "exited"
      /\ UNCHANGED <<head, allocations, cells, scope, frames>>

FinalCollect ==
  /\ status = "exited"
  /\ IF CollectTouchesFreed THEN Undefined
     ELSE /\ head' = Collected.head
          /\ cells' = Collected.cells
          /\ allocations' = Collected.allocations
          /\ status' = "collected"
          /\ UNCHANGED <<roots, stack, scope, frames>>

-----------------------------------------------------------------------------
StackOps == (\E v \in Constants : PushConstant(v)) \/ Dup \/ Drop \/ Swap \/ Rot
OperatorOps == (\E op \in BinaryOps : Binary(op)) \/ Not \/ Neg
ObjectOps == (\E x \in Addr : NewObj(x)) \/ GetProp \/ SetProp
VariableOps == Load \/ Store
CallOps ==
  \/ Exec \/ CondExec \/ While \/ BranchIf \/ StdPrint
  \/ ReturnFromCall \/ ReturnFromCond \/ ReturnFromBody
EndOfMain == UnrootAll \/ FinalCollect

Next ==
  \/ StackOps \/ OperatorOps \/ ObjectOps \/ VariableOps \/ CallOps \/ EndOfMain

Spec == Init /\ [][Next]_vars

-----------------------------------------------------------------------------
(* Type correctness.                                                       *)

\* Every variable holds a value of its C++ type: in particular the tables
\* reached through the cells hold values and nothing else.
TypeOK ==
  /\ HeapTypeOK
  /\ stack \in Seq(Value)
  /\ scope \in [Strings -> Value]
  /\ frames \in Seq(Frame)
  /\ status \in {"running", "exited", "collected", "aborted", "undefined"}

-----------------------------------------------------------------------------
(* Safety.                                                                 *)

\* What an address is worth to the roots: once for every operand and every
\* variable that refers to it.
Held(x) == Refs(stack, x) + ScopeRefs(scope, x)

\* No operand and no variable is ever under-rooted: across every handler, the
\* root array holds an address at least as often as the stack and the scope
\* do.  This is what makes it safe for unmark_root to remove any one entry
\* (gc.cpp:66 asks whether the entry must exist: it must).
RootsCover == status = "running" => \A x \in Addr : roots[x] >= Held(x)

\* Only Stack::drop unbalances the roots: every other step adds and removes
\* exactly as many root entries as it adds and removes references.
RootsBalanced ==
  [][status' = "running" /\ ~Drop
       => \A x \in Addr : roots'[x] - Held(x)' = roots[x] - Held(x)]_vars

\* A collection never frees an object an operand or a variable refers to,
\* although handlers unroot and root values one at a time around it.
HeldSurvive ==
  [][status' = "running"
       => \A x \in Live : Held(x) > 0 => cells'[x] # Freed]_vars

\* Values that a handler keeps in C++ locals while it runs lambdas are not
\* rooted; they must not own an allocation, or a collection inside the loop
\* could free what the next iteration calls.
LocalsOwnNothing ==
  \A i \in 1 .. Len(frames) : frames[i].cond.a = Null /\ frames[i].body.a = Null

\* The type tag and the owner of a value agree wherever values are kept, so
\* that roots are taken for objects and for nothing else: __rt_not and
\* __rt_neg rewrite a tag in place and leave the owner, and the other
\* operators build their result from an owner of 0 and a tag.
Agrees(v) == v.a # Null <=> v.type = "OBJECT" /\ v.data # Wild
OwnersAreObjects ==
  /\ \A i \in 1 .. Len(stack) : Agrees(stack[i])
  /\ \A s \in Strings : Agrees(scope[s])
  /\ \A x \in Live : \A i \in T!Slots(cells[x].table) :
       Agrees(cells[x].table.keys[i]) /\ Agrees(cells[x].table.values[i])

\* The only way a collection corrupts the list is by freeing two neighbours:
\* any other collection, and any allocation, leaves exactly the live
\* allocations on it.
Collects == (AllocCollects /\ \E x \in Addr : NewObj(x)) \/ FinalCollect
Links == [x \in Addr |-> cells[x].next]
SweepKeepsList ==
  [][<<head, Links>>' # <<head, Links>> /\ status' \in {"running", "collected"}
       /\ OnList = Live /\ ~(Collects /\ NeighboursSwept)
     => OnList' = Live']_vars

-----------------------------------------------------------------------------
(* What the source says of itself and the code does not do.                *)

\* main.cpp:65, assert(heap.roots.count == 0).
NoRootsAtEnd == status = "collected" => \A x \in Addr : roots[x] = 0

\* gc.cpp:75, the commented-out assert in gc() that every root is one of the
\* heap's allocations (mark_root and unmark_root say the same in a TODO).
RootsAreAllocations == Rooted \subseteq OnList

\* gc.cpp:87, the commented-out assert in mark() that what it is called on is
\* one of the heap's allocations: at the least it must not have been freed.
MarksOnlyAllocations == Marked \subseteq Live
=============================================================================
