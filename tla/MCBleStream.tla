---------------------------- MODULE MCBleStream ----------------------------
(***************************************************************************)
(* Bounds for BleStream: three opens, so that failed opens are followed   *)
(* by a successful one and by a reopen after close; and six operations,   *)
(* so that a stream is closed and reopened with operations in between.    *)
(***************************************************************************)
EXTENDS BleStream

MCMaxOpens == 3
MCMaxOps == 6

=============================================================================
