----------------------------- MODULE EvalClient -----------------------------
(***************************************************************************)
(* What the modes of cmd/eval share: the exit status, and the check of a   *)
(* search response by resultErrors.  A response is known here by whether   *)
(* it is HTTP 200 with items of the right shape (fields, unique ids, finite*)
(* scores in descending order), and by how many items it has.              *)
(***************************************************************************)
EXTENDS Naturals

VARIABLE exit  \* "none", "usage" (2), "failed" (1), "passed" (0)

\* A bug of the check: the number of items is left out.
NoResultErrorsUncapped(sound, items, topK) == sound

\* resultErrors finds nothing.
NoResultErrors(sound, items, topK) == sound /\ items <= topK
=============================================================================
