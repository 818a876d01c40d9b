------------------------------ MODULE GcSteps ------------------------------
(***************************************************************************)
(* Heap::gc of src/src/gc.cpp one loop iteration at a time: the marking of *)
(* the roots, the recursion of mark over the properties of objects, and    *)
(* the walk of sweep along the list, freeing as it goes.                   *)
(*                                                                         *)
(* Runtime.tla takes a collection as one step, with closed forms for what  *)
(* is marked, what becomes of the list and when freed memory is read.      *)
(* Here those closed forms are not used: this module is shown to implement *)
(* Runtime with the heap seen as it was when the collection began.         *)
(***************************************************************************)
EXTENDS Runtime

VARIABLES
  pc,      \* "idle", or the loop gc is in: "roots", "mark" or "sweep"
  marks,   \* the allocations whose `marked' bit is set
  todo,    \* roots that gc has not come to yet
  work,    \* activations of mark: the object and the next value to look at
  prev, curr, swept,   \* sweep's locals
  before   \* the heap when the collection began

gcVars == <<pc, marks, todo, work, prev, curr, swept, before>>
gcLocals == <<todo, work, prev, curr, swept, before>>

Snapshot == [head |-> head, allocations |-> allocations, cells |-> cells]
NoSnapshot == [head |-> Null, allocations |-> 0, cells |-> <<>>]

Idle ==
  /\ pc' = "idle" /\ todo' = {} /\ work' = <<>>
  /\ prev' = Null /\ curr' = Null /\ swept' = 0 /\ before' = NoSnapshot

GcInit ==
  /\ Init
  /\ pc = "idle" /\ marks = {} /\ todo = {} /\ work = <<>>
  /\ prev = Null /\ curr = Null /\ swept = 0 /\ before = NoSnapshot

TouchFreed == Undefined /\ Idle /\ marks' = {}

-----------------------------------------------------------------------------
(* When gc runs: in alloc, before it allocates, and at the end of main.    *)

AllocIsDue == InLambda /\ ~Has(MaxStack) /\ AllocCollects
FinalIsDue == status = "exited"

Begin ==
  /\ pc = "idle" /\ (AllocIsDue \/ FinalIsDue)
  /\ pc' = "roots" /\ todo' = Rooted /\ before' = Snapshot
  /\ UNCHANGED <<vars, marks, work, prev, curr, swept>>

\* mark(x): `marked' is read first, then set; the properties come after.
Visit(x, callers) ==
  IF cells[x] = Freed THEN TouchFreed
  ELSE /\ marks' = marks \cup {x}
       /\ work' = IF x \in marks THEN callers
                  ELSE Append(callers, [at |-> x, slot |-> 0, side |-> "key"])
       /\ pc' = "mark"
       /\ UNCHANGED <<vars, prev, curr, swept, before>>

\* Mutant of MarkRoot: the loop over the roots does not advance.
MarkRootStuck(x) ==
  /\ pc \in {"roots", "mark"} /\ work = <<>> /\ x \in todo
  /\ Visit(x, <<>>)
  /\ cells[x] # Freed => UNCHANGED todo

MarkRoot(x) ==
  /\ pc \in {"roots", "mark"} /\ work = <<>> /\ x \in todo
  /\ Visit(x, <<>>)
  /\ cells[x] # Freed => todo' = todo \ {x}

\* Mutant of MarkNext: only the keys are looked at, not the values.
MarkNextKeysOnly ==
  /\ pc = "mark" /\ work # <<>>
  /\ LET f == Top(work)
         t == cells[f.at].table
         v == t.keys[f.slot]
         callers == Append(Pop(work), [f EXCEPT !.slot = @ + 1])
     IN  IF f.slot >= t.count
         THEN /\ work' = Pop(work)
              /\ UNCHANGED <<vars, pc, marks, todo, prev, curr, swept, before>>
         ELSE IF v.a = Null
         THEN /\ work' = callers
              /\ UNCHANGED <<vars, pc, marks, todo, prev, curr, swept, before>>
         ELSE Visit(v.a, callers) /\ (cells[v.a] # Freed => UNCHANGED todo)

\* The next key or value of the object mark is at, or its return.
MarkNext ==
  /\ pc = "mark" /\ work # <<>>
  /\ LET f == Top(work)
         t == cells[f.at].table
         v == IF f.side = "key" THEN t.keys[f.slot] ELSE t.values[f.slot]
         callers == Append(Pop(work),
                      IF f.side = "key" THEN [f EXCEPT !.side = "value"]
                      ELSE [f EXCEPT !.side = "key", !.slot = @ + 1])
     IN  IF f.slot >= t.count
         THEN /\ work' = Pop(work)
              /\ UNCHANGED <<vars, pc, marks, todo, prev, curr, swept, before>>
         ELSE IF v.a = Null
         THEN /\ work' = callers
              /\ UNCHANGED <<vars, pc, marks, todo, prev, curr, swept, before>>
         ELSE Visit(v.a, callers) /\ (cells[v.a] # Freed => UNCHANGED todo)

BeginSweep ==
  /\ pc \in {"roots", "mark"} /\ work = <<>> /\ todo = {}
  /\ pc' = "sweep" /\ prev' = Null /\ curr' = head /\ swept' = 0
  /\ UNCHANGED <<vars, marks, todo, work, before>>

\* Mutant of KeepNode: the mark is not cleared for the next collection.
KeepNodeMarked ==
  /\ pc = "sweep" /\ curr # Null /\ cells[curr] # Freed /\ curr \in marks
  /\ prev' = curr /\ curr' = cells[curr].next
  /\ UNCHANGED <<vars, pc, marks, todo, work, swept, before>>

KeepNode ==
  /\ pc = "sweep" /\ curr # Null /\ cells[curr] # Freed /\ curr \in marks
  /\ marks' = marks \ {curr}
  /\ prev' = curr /\ curr' = cells[curr].next
  /\ UNCHANGED <<vars, pc, todo, work, swept, before>>

\* After the free, curr is set to its successor, and prev to curr.
FreeNode ==
  /\ pc = "sweep" /\ curr # Null /\ cells[curr] # Freed /\ curr \notin marks
  /\ prev # Null => cells[prev] # Freed
  /\ LET next == cells[curr].next
         relinked == IF prev = Null THEN cells
                     ELSE [cells EXCEPT ![prev].next = next]
     IN  /\ head' = IF prev = Null THEN next ELSE head
         /\ cells' = [relinked EXCEPT ![curr] = Freed]
         /\ prev' = next /\ curr' = next
  /\ swept' = swept + 1
  /\ UNCHANGED <<allocations, roots, stack, scope, frames, status, pc, marks,
                 todo, work, before>>

SweepFreed ==
  /\ pc = "sweep" /\ curr # Null
  /\ \/ cells[curr] = Freed
     \/ curr \notin marks /\ prev # Null /\ cells[prev] = Freed
  /\ TouchFreed

SweepDone == pc = "sweep" /\ curr = Null

\* alloc goes on: the new allocation is not marked.
FinishAlloc(x) ==
  /\ SweepDone /\ Running /\ cells[x] = Freed
  /\ cells' = [cells EXCEPT ![x] = [next |-> head, table |-> T!NewTable]]
  /\ head' = x
  /\ allocations' = allocations - swept + 1
  /\ stack' = Append(stack, Object(x))
  /\ roots' = Root(roots, Object(x))
  /\ marks' = marks \ {x}
  /\ Idle
  /\ UNCHANGED <<scope, frames, status>>

FinishFinal ==
  /\ SweepDone /\ status = "exited"
  /\ allocations' = allocations - swept
  /\ status' = "collected"
  /\ Idle
  /\ UNCHANGED <<head, cells, roots, stack, scope, frames, marks>>

GcStep ==
  \/ (\E x \in Addr : MarkRoot(x)) \/ MarkNext \/ BeginSweep
  \/ KeepNode \/ FreeNode \/ SweepFreed
  \/ (\E x \in Addr : FinishAlloc(x)) \/ FinishFinal

-----------------------------------------------------------------------------
(* The rest of the program, while no collection is running.                *)

PlainAlloc(x) ==
  /\ pc = "idle" /\ ~AllocIsDue /\ NewObj(x)
  /\ marks' = marks \ {x}
  /\ UNCHANGED <<pc, gcLocals>>

Handlers ==
  \/ StackOps \/ OperatorOps \/ GetProp \/ SetProp \/ VariableOps
  \/ CallOps \/ UnrootAll

Handle(A) == pc = "idle" /\ A /\ UNCHANGED gcVars

GcNext ==
  Handle(Handlers) \/ (\E x \in Addr : PlainAlloc(x)) \/ Begin \/ GcStep

\* The process has one thread: once gc is called, it keeps running.
GcSpec == GcInit /\ [][GcNext]_<<vars, gcVars>> /\ WF_<<vars, gcVars>>(GcStep)

-----------------------------------------------------------------------------
(* Properties.                                                             *)

\* The heap as Runtime sees it.
seenHead == IF pc = "idle" THEN head ELSE before.head
seenAllocations == IF pc = "idle" THEN allocations ELSE before.allocations
seenCells == IF pc = "idle" THEN cells ELSE before.cells

\* The loops of gc do what Runtime's closed forms say: what is marked, where
\* the list's links end up, what is freed and counted, and exactly when
\* freed memory is read, lists bent into a ring by an earlier collection and
\* reused addresses included.
Atomic == INSTANCE Runtime WITH
  head <- seenHead, allocations <- seenAllocations, cells <- seenCells
IsAtomic == Atomic!Spec

\* gc returns, whatever ring of objects mark meets and even when the list
\* itself has become a ring (then it comes to memory it has freed).
Returned == pc = "idle" \/ SweepDone
CollectionEnds == ~Returned ~> Returned

\* sweep clears every bit that mark set, so that no object is taken for
\* marked by the next collection before it was visited.
MarksCleared == pc = "idle" => marks = {}
=============================================================================
