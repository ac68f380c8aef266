---------------------------- MODULE MCVendorHealth ----------------------------
(* Instances of VendorHealth for TLC.                                       *)
EXTENDS VendorHealth, TLC
=============================================================================
