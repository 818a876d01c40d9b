----------------------------- MODULE MCGcSteps -----------------------------
(***************************************************************************)
(* GcSteps for TLC, with the handlers that shape the heap.                 *)
(***************************************************************************)
EXTENDS GcSteps, FiniteSetsExt

CONSTANTS
  nameX,
  MaxProps  \* bound on the properties of all objects together

\* Of the objects used as keys, the one at address 2 lands in slot 0, where
\* mark looks, and the others in slot 2, where it does not.
MCHashU64(n) == IF n < 0 THEN 5 ELSE 2 * n
MCHashString(s) == 3
MCConstants == {Plain("REFERENCE", nameX)}

Props(cs) ==
  MapThenSumSet(LAMBDA x : IF cs[x] = Freed THEN 0 ELSE cs[x].table.count, Addr)

Shaping ==
  \/ (\E v \in Constants : PushConstant(v)) \/ GetProp \/ VariableOps \/ UnrootAll
  \/ /\ Has(2) => Second(stack).type = "OBJECT"
     /\ SetProp
     /\ Props(cells') <= MaxProps

ShapingNext ==
  \/ Handle(Shaping) \/ (\E x \in Addr : PlainAlloc(x)) \/ Begin \/ GcStep

ShapingSpec ==
  GcInit /\ [][ShapingNext]_<<vars, gcVars>> /\ WF_<<vars, gcVars>>(GcStep)
=============================================================================
