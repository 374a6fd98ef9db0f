----------------------------- MODULE MCListing -----------------------------
(* A small instance of BdtunListing for TLC: the limits are scaled down so  *)
(* that pages end for each of the three reasons they can end for.           *)
EXTENDS BdtunListing

MCSizes == {2, 3, 4}
=============================================================================
