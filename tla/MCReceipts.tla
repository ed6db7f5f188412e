----------------------------- MODULE MCReceipts -----------------------------
(* Instances of CustodyReceipts for TLC. *)
EXTENDS CustodyReceipts, TLC

ReceiptSymmetry ==
    Permutations(Receipts) \cup Permutations(Sessions) \cup Permutations(Requests)
=============================================================================
