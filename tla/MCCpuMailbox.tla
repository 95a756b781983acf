---------------------------- MODULE MCCpuMailbox ----------------------------
(* Instances of CpuMailbox for TLC: a few calls, short waits.              *)
EXTENDS CpuMailbox
=============================================================================
