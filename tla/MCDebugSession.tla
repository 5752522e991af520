--------------------------- MODULE MCDebugSession ---------------------------
(***************************************************************************)
(* DebugSession for TLC: one model with deep stacks and no breakpoints, one *)
(* with breakpoints and shallow stacks.                                     *)
(***************************************************************************)
EXTENDS DebugSession

CONSTANT x_gt_1  \* a condition

AnyCondition == {Unconditional, x_gt_1}

=============================================================================
