------------------------------ MODULE MCAuction ------------------------------
(* Small instances of Auction for TLC. *)
EXTENDS AuctionInvariant, TLC

\* Users and goroutines are interchangeable: no definition names one.
Symmetry == Permutations(Users) \cup Permutations(Workers)
=============================================================================
