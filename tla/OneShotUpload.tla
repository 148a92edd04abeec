---------------------------- MODULE OneShotUpload ----------------------------
(***************************************************************************)
(* What a signed upload URL promises to the owner of the vault, whatever   *)
(* the number of HTTP requests made with it: the file it names is written  *)
(* at most once through it, with bytes the terms of the URL allow, and a   *)
(* URL issued without overwrite never replaces a file that is there.       *)
(* Everything else that writes the vault may change the file at any time.  *)
(***************************************************************************)

CONSTANTS
  Uploads,     \* the signed URLs
  Contents,    \* what a file can hold
  Nothing      \* no file, no expected digest

VARIABLES
  terms,       \* what each URL was issued for
  target,      \* the file of the vault all of these URLs name
  used         \* the URLs the file has been written through

vars == <<terms, target, used>>

Terms == [overwrite : BOOLEAN, sha256 : Contents \cup {Nothing}]

Init ==
  /\ terms \in [Uploads -> Terms]
  /\ target = Nothing
  /\ used = {}

(* The one write through URL u. *)
Place(u, content) ==
  /\ u \notin used
  /\ terms[u].sha256 \in {Nothing, content}
  /\ target # Nothing => terms[u].overwrite
  /\ used' = used \cup {u}
  /\ target' = content
  /\ UNCHANGED terms

(* Another writer of the vault creates, replaces or removes the file. *)
OtherWriter ==
  /\ target' \in Contents \cup {Nothing}
  /\ UNCHANGED <<terms, used>>

Next ==
  \/ \E u \in Uploads, content \in Contents : Place(u, content)
  \/ OtherWriter

Spec == Init /\ [][Next]_vars
==============================================================================
