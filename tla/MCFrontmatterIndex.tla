------------------------- MODULE MCFrontmatterIndex --------------------------
(* FrontmatterIndex on a small instance: one or two files, one writer, and    *)
(* timers that overlap.                                                       *)
EXTENDS FrontmatterIndex
==============================================================================
