--------------------------- MODULE MCOcrSidecar ------------------------------
(* OcrSidecar on a small instance: the versions v and w differ behind the part *)
(* a fingerprint covers, x differs from both.                                  *)
EXTENDS OcrSidecar, TLC
CONSTANTS v, w, x
Prints == v :> 1 @@ w :> 1 @@ x :> 2
==============================================================================
