--------------------------- MODULE MiniLogProofs ---------------------------
(***************************************************************************)
(* Mutual exclusion and first-come-first-served order of the ticket lock   *)
(* of MiniLog, for every number of processors and of requests, although    *)
(* the ticket is not taken atomically and a time limit may stop a          *)
(* processor anywhere in the lock.                                         *)
(***************************************************************************)
EXTENDS MiniLog, TLAPS

(* The variables keep their types: every processor's place and ticket lie  *)
(* between 0 and the number of requests (MiniTraceLock, MiniTraceUnlock).  *)
LEMMA TypeStep == TypeOK /\ QueueInv /\ [Next]_vars => TypeOK'
<1> SUFFICES ASSUME TypeOK, QueueInv, [Next]_vars PROVE TypeOK'
  OBVIOUS
<1> USE MaxTicketsAssumption DEF TypeOK, QueueInv, InQueue
<1>1. CASE UNCHANGED vars
  BY <1>1 DEF vars
<1>2. ASSUME NEW c \in Cpus, Increment(c) PROVE TypeOK'
  BY <1>2 DEF Increment
<1>3. ASSUME NEW c \in Cpus, ReadTicket(c) PROVE TypeOK'
  BY <1>3 DEF ReadTicket
<1>4. ASSUME NEW c \in Cpus, Acquire(c) PROVE TypeOK'
  BY <1>4 DEF Acquire
<1>5. ASSUME NEW c \in Cpus, Unlock(c) PROVE TypeOK'
  BY <1>5 DEF Unlock
<1>6. ASSUME NEW c \in Cpus, TimeOut(c) PROVE TypeOK'
  BY <1>6 DEF TimeOut
<1> QED BY <1>1, <1>2, <1>3, <1>4, <1>5, <1>6 DEF Next, Trace

(* No step of the lock breaks the queue: places stay distinct and unserved *)
(* and a ticket never falls below its owner's place (MiniTraceLock).       *)
LEMMA QueueStep == TypeOK /\ QueueInv /\ [Next]_vars => QueueInv'
<1> SUFFICES ASSUME TypeOK, QueueInv, [Next]_vars PROVE QueueInv'
  OBVIOUS
<1> USE MaxTicketsAssumption DEF TypeOK, QueueInv, InQueue
<1>1. CASE UNCHANGED vars
  BY <1>1 DEF vars
<1>2. ASSUME NEW c \in Cpus, Increment(c) PROVE QueueInv'
  BY <1>2 DEF Increment
<1>3. ASSUME NEW c \in Cpus, ReadTicket(c) PROVE QueueInv'
  BY <1>3 DEF ReadTicket
<1>4. ASSUME NEW c \in Cpus, Acquire(c) PROVE QueueInv'
  BY <1>4 DEF Acquire
<1>5. ASSUME NEW c \in Cpus, Unlock(c) PROVE QueueInv'
  BY <1>5 DEF Unlock
<1>6. ASSUME NEW c \in Cpus, TimeOut(c) PROVE QueueInv'
  BY <1>6 DEF TimeOut
<1> QED BY <1>1, <1>2, <1>3, <1>4, <1>5, <1>6 DEF Next, Trace

(* The types and the queue hold in every reachable state of MiniTraceLock  *)
(* and MiniTraceUnlock.                                                    *)
THEOREM LockInvariant == Spec => []LockInv
<1>1. Init => LockInv
  BY MaxTicketsAssumption DEF Init, LockInv, TypeOK, QueueInv, InQueue
<1>2. LockInv /\ [Next]_vars => LockInv'
  BY TypeStep, QueueStep DEF LockInv
<1> QED BY <1>1, <1>2, PTL DEF Spec

(* Two processors never draw a trace at the same time (MiniTrace,          *)
(* MiniTraceEx), whatever interleaving of increments and reads they take.  *)
THEOREM TraceMutualExclusion == Spec => []MutualExclusion
<1>1. LockInv => MutualExclusion
  BY MaxTicketsAssumption DEF LockInv, TypeOK, QueueInv, MutualExclusion, InQueue
<1> QED BY <1>1, LockInvariant, PTL

(* The processor that draws asked for the lock before all those still      *)
(* queued (MiniTraceLock).                                                 *)
THEOREM TraceOrder == Spec => []NoOvertaking
<1>1. LockInv => NoOvertaking
  BY MaxTicketsAssumption DEF LockInv, TypeOK, QueueInv, NoOvertaking, InQueue
<1> QED BY <1>1, LockInvariant, PTL
=============================================================================
