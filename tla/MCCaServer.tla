---------------------------- MODULE MCCaServer ----------------------------
(* The server of teecd and two applications, for TLC. *)
EXTENDS CaServer
=============================================================================
