----------------------------- MODULE MCTlogcat -----------------------------
(***************************************************************************)
(* tlogcat for TLC.                                                        *)
(***************************************************************************)
EXTENDS Tlogcat

MCMaxRecords == [ta |-> 16, tee |-> 1]
\* A kill before one of the other steps leaves the files as one before
\* "open" or "close" does.
CrashAnywhere == {"open", "close"} \cup CompressSteps
=============================================================================
