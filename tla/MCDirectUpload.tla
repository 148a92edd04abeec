--------------------------- MODULE MCDirectUpload ----------------------------
(* DirectUpload on a small instance: two requests racing on one URL, which any *)
(* other writer of its file may disturb, and one crash.                        *)
EXTENDS DirectUpload
==============================================================================
