------------------------------- MODULE MCEAuc -------------------------------
(* Small instances of EAuc for TLC. *)
EXTENDS EAuc, TLC

\* Which of the statuses was answered and which inserts are blind decides nothing:
\* no guard and none of the properties of the run tells them apart.
Sighted(r) == [r EXCEPT !.blind = FALSE]
AnsweredOrNot ==
    <<serverVars, auctionVars, pairs, now, blacklist, timers, loggedOut, upc, gone,
      [i \in DOMAIN users |-> Sighted(users[i])], [w \in Workers |-> Sighted(ureq[w])],
      [w \in Workers |-> reply[w] = "none"]>>

Symmetry == Permutations(Workers)
=============================================================================
