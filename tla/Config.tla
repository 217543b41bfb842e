------------------------------- MODULE Config -------------------------------
(***************************************************************************)
(* What more than one component reads of dht::Config (src/src/util.h).     *)
(***************************************************************************)
EXTENDS Integers

CONSTANT
  RefreshInterval  \* Config::refresh_interval, 15 minutes in the code
=============================================================================
