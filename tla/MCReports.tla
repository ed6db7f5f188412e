------------------------------ MODULE MCReports ------------------------------
(* Instances of ScheduledReports for TLC: runs are alike, and so are the     *)
(* workers that serve retry requests.                                        *)
EXTENDS ScheduledReports, TLC

ReportSymmetry == Permutations(Runs) \cup Permutations(Retries)
=============================================================================
