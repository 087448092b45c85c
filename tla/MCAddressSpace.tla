--------------------------- MODULE MCAddressSpace ---------------------------
(***************************************************************************)
(* AddressSpace.tla for TLC: two pages per L2 table, programs of one       *)
(* image page.                                                             *)
(***************************************************************************)
EXTENDS AddressSpace

MCImageSizes == {1}
\* The image page and the first heap page.
MCStorePages == {1, 3}
\* The last one overflows an int of four bits.
MCIncrements == {-1, 1, 7}

=============================================================================
