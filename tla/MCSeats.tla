------------------------------- MODULE MCSeats -------------------------------
(* Instances of LicenseSeats for TLC.  Two kits list the same two licenses   *)
(* in opposite orders.                                                       *)
EXTENDS LicenseSeats, TLC

CONSTANTS l1, l2

MCKits == {<<l1, l2>>, <<l2, l1>>}

SeatSymmetry == Permutations(Targets) \cup Permutations(Clerks)
=============================================================================
