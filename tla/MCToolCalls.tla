----------------------------- MODULE MCToolCalls -----------------------------
(* ToolCalls on a small instance: two calls, of the event loop or of a thread, *)
(* on two files.                                                               *)
EXTENDS ToolCalls, TLC
SymBoth == Permutations(Calls) \cup Permutations(Paths)
==============================================================================
