----------------------------- MODULE MCCustody -----------------------------
(* Instances of AssetCustody for TLC: every repair is of the first asset.    *)
EXTENDS AssetCustody

CONSTANT Failed

MCUnit == [r \in Repairs |-> Failed]
=============================================================================
