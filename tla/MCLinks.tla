------------------------------- MODULE MCLinks -------------------------------
(***************************************************************************)
(* Links on an instance with two overlapping claims by different users.    *)
(***************************************************************************)
EXTENDS Links, TLC

CONSTANTS l1, c1, c2, u1, u2

MCSends     == {l1}
MCClaims    == {c1, c2}
MCUsers     == {u1, u2}
MCProposals == MCSends \union MCClaims
MCClaimant  == c1 :> u1 @@ c2 :> u2

=============================================================================
