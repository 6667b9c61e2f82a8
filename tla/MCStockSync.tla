----------------------------- MODULE MCStockSync -----------------------------
(***************************************************************************)
(* The product list under either of two admins: the one of the constants,  *)
(* and a brisk one, who waits for no call on another product but whose     *)
(* taps and deletes do not fail.                                           *)
(***************************************************************************)
EXTENDS StockSync

VARIABLE brisk  \* which of the two it is, for good

Brisk == INSTANCE StockSync WITH
  Overlap <- "rows", Failing <- {"add"}

MCInit == StockInit /\ brisk \in BOOLEAN

MCNext ==
  \/ ~brisk /\ StockNext /\ UNCHANGED brisk
  \/ brisk /\ Brisk!StockNext /\ UNCHANGED brisk

MCSpec == MCInit /\ [][MCNext]_<<stockVars, brisk>>
=============================================================================
