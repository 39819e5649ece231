---------------------------- MODULE MCClientJobs -----------------------------
(***************************************************************************)
(* ClientJobs for TLC: a batch of three inputs and two calls of            *)
(* abortMainJob, which are interchangeable until they are made.            *)
(***************************************************************************)
EXTENDS ClientJobs

CONSTANTS c1, c2
MCCancels == {c1, c2}
=============================================================================
