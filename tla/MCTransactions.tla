--------------------------- MODULE MCTransactions ---------------------------
(* Instance of Transactions for TLC.  Requests and suffixes are not made    *)
(* symmetric: the run checks liveness.                                     *)
EXTENDS Transactions
=============================================================================
