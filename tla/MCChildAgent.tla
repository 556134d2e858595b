----------------------------- MODULE MCChildAgent -----------------------------
(* Two callers of one child.                                                   *)
EXTENDS ChildAgent

MCCallers == {1, 2}
===============================================================================
