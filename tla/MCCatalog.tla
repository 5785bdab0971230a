------------------------------ MODULE MCCatalog ------------------------------
(* Small instances of Catalog for TLC. *)
EXTENDS CatalogInvariant, TLC

Symmetry == Permutations(Workers) \cup Permutations(Images)

\* No guard reads "reply", and UploadsFailForFirstBucket reads it only in the step
\* that sets it.
ButReplies == <<serverVars, stores, clients, history, pc, req, gone>>

\* Bound: how much goes wrong before a state that is not extended any more: names
\* guessed, not listed or not removed, restarts, whether MinIO has failed and
\* whether a shutdown is under way; and how many clients have left whose requests
\* are still being handled.
Mishaps ==
    Cardinality(guessed) + Cardinality(unlisted) + Cardinality(unremoved)
        + restarts + (IF calm THEN 0 ELSE 1) + (IF server = "draining" THEN 1 ELSE 0)
FewMishaps == Mishaps <= 1 /\ Cardinality(gone) <= 1
=============================================================================
