----------------------------- MODULE MCDownloads -----------------------------
(* Downloads on a small instance: versions v and w have the same size, x has   *)
(* another, and e is empty.  The headers ask for slices that lie inside,       *)
(* reach past the end, lie behind it, run backwards, or cannot be read.        *)
EXTENDS Downloads, TLC
CONSTANTS v, w, x, e
Sizes == v :> 3 @@ w :> 3 @@ x :> 1 @@ e :> 0
From(a, b) == [first |-> a, last |-> b]
Slices ==
  {From(0, 1), From(1, Nothing), From(1, 7), From(3, Nothing), From(2, 1),
   From(Nothing, 2), From(Nothing, 7), From(Nothing, 0), From(Nothing, Nothing)}
SymUrls == Permutations(Urls)
==============================================================================
