---------------------------- MODULE MCAnyHandler ----------------------------
(***************************************************************************)
(* AnyHandler for TLC: a good, a client-error and a server-error status,   *)
(* and a capture limit (4096 in the code) that one Write may overrun.      *)
(***************************************************************************)
EXTENDS AnyHandler
=============================================================================
