----------------------------- MODULE MCLinkJobs -----------------------------
(***************************************************************************)
(* Instances of LinkJobs for TLC.                                          *)
(***************************************************************************)
EXTENDS LinkJobsInv

\* A chain of three binaries of one name, and one of another.
ChainNames == <<"a", "b", "a", "a">>
=============================================================================
