------------------------------ MODULE MiniLog ------------------------------
(***************************************************************************)
(* The ticket lock that serialises MiniTrace and MiniTraceEx, the traces   *)
(* every logical processor draws straight into the framebuffer             *)
(* (src/src/MiniLog.c, built when ENABLE_MINILOG_TRACING is defined).      *)
(*                                                                         *)
(* The lock takes its ticket from AtomicIncrementU32.  That routine is a   *)
(* `lock inc` followed by an ordinary load of the same word, so the        *)
(* increment and the read of the ticket are two steps here, and another    *)
(* processor may increment in between.                                     *)
(***************************************************************************)
EXTENDS Naturals

CONSTANTS
  Cpus,        \* logical processors that trace
  Slow,        \* application processors that may exceed the second that
               \* RunOnPackageOrCore gives a procedure
  MaxTickets   \* bound: how many times the lock is requested in a behaviour

ASSUME MaxTicketsAssumption == MaxTickets \in Nat
ASSUME SlowAssumption == Slow \subseteq Cpus

VARIABLES
  ticketCounter,   \* gMiniTraceTicket
  serving,         \* gMiniTraceServing
  pc,              \* where each processor is in MiniTraceLock/MiniTraceUnlock
  ticket,          \* the local variable `ticket` of MiniTraceLock
  rank             \* history: the counter's value right after this
                   \* processor's own increment, its place in the queue

vars == <<ticketCounter, serving, pc, ticket, rank>>

TypeOK ==
  /\ ticketCounter \in 0..MaxTickets
  /\ serving \in 0..MaxTickets
  /\ pc \in [Cpus -> {"idle", "incremented", "spinning", "rendering"}]
  /\ ticket \in [Cpus -> 0..MaxTickets]
  /\ rank \in [Cpus -> 0..MaxTickets]

Init ==
  /\ ticketCounter = 0
  /\ serving = 0
  /\ pc = [c \in Cpus |-> "idle"]
  /\ ticket = [c \in Cpus |-> 0]
  /\ rank = [c \in Cpus |-> 0]

-----------------------------------------------------------------------------

(* `lock inc dword ptr [r8]` of AtomicIncrementU32.                        *)
Increment(c) ==
  /\ pc[c] = "idle"
  /\ ticketCounter < MaxTickets
  /\ ticketCounter' = ticketCounter + 1
  /\ rank' = [rank EXCEPT ![c] = ticketCounter + 1]
  /\ pc' = [pc EXCEPT ![c] = "incremented"]
  /\ UNCHANGED <<serving, ticket>>

(* `mov eax, dword ptr [r8]`, then the `- 1` of MiniTraceLock: whatever    *)
(* the counter holds by now.                                               *)
ReadTicket(c) ==
  /\ pc[c] = "incremented"
  /\ ticket' = [ticket EXCEPT ![c] = ticketCounter - 1]
  /\ pc' = [pc EXCEPT ![c] = "spinning"]
  /\ UNCHANGED <<ticketCounter, serving, rank>>

(* Mutant of Acquire: the spin loop compares with <= instead of =.         *)
AcquireAtOrAfter(c) ==
  /\ pc[c] = "spinning"
  /\ serving <= ticket[c]
  /\ pc' = [pc EXCEPT ![c] = "rendering"]
  /\ UNCHANGED <<ticketCounter, serving, ticket, rank>>

(* The spin loop ends when the serving number is this ticket.              *)
Acquire(c) ==
  /\ pc[c] = "spinning"
  /\ serving = ticket[c]
  /\ pc' = [pc EXCEPT ![c] = "rendering"]
  /\ UNCHANGED <<ticketCounter, serving, ticket, rank>>

(* The trace is drawn and MiniTraceUnlock advances the serving number; the *)
(* value AtomicIncrementU32 returns is not used.                           *)
Unlock(c) ==
  /\ pc[c] = "rendering"
  /\ serving' = serving + 1
  /\ pc' = [pc EXCEPT ![c] = "idle"]
  /\ UNCHANGED <<ticketCounter, ticket, rank>>

(* StartupThisAP runs into its time limit: the firmware stops the          *)
(* processor wherever it is in MiniTrace, and the next procedure starts    *)
(* afresh on it.  The lock is not given back.                              *)
TimeOut(c) ==
  /\ c \in Slow /\ pc[c] # "idle"
  /\ pc' = [pc EXCEPT ![c] = "idle"]
  /\ UNCHANGED <<ticketCounter, serving, ticket, rank>>

Trace(c) == Increment(c) \/ ReadTicket(c) \/ Acquire(c) \/ Unlock(c)

Next == \E c \in Cpus : Trace(c) \/ TimeOut(c)

Spec == Init /\ [][Next]_vars

(* A processor inside MiniTrace keeps running until it leaves it; nothing  *)
(* makes it start another trace.                                           *)
FairSpec ==
  /\ Spec
  /\ \A c \in Cpus : WF_vars(ReadTicket(c) \/ Acquire(c) \/ Unlock(c))

-----------------------------------------------------------------------------

InQueue(c) == pc[c] # "idle"

(* Mutual exclusion: two processors never draw at the same time, although  *)
(* the ticket is not taken atomically (MiniTraceLock, MiniTraceUnlock) and *)
(* a processor may be stopped while it holds the lock or queues for it.    *)
MutualExclusion ==
  \A c, d \in Cpus : pc[c] = "rendering" /\ pc[d] = "rendering" => c = d

(* First come, first served: whoever draws incremented the counter before  *)
(* every other processor that is still in the queue, also after a          *)
(* processor has lost its place by the time limit of its procedure.        *)
NoOvertaking ==
  \A c, d \in Cpus :
    pc[c] = "rendering" /\ InQueue(d) /\ d # c => rank[c] < rank[d]

(* The strengthening that makes mutual exclusion inductive: the places in  *)
(* the queue are distinct and not yet served, and a ticket is never lower  *)
(* than the place its owner took (MiniTraceLock).                          *)
QueueInv ==
  /\ serving <= ticketCounter
  /\ \A c \in Cpus : InQueue(c) => serving < rank[c] /\ rank[c] <= ticketCounter
  /\ \A c, d \in Cpus : InQueue(c) /\ InQueue(d) /\ rank[c] = rank[d] => c = d
  /\ \A c \in Cpus : pc[c] \in {"spinning", "rendering"} => rank[c] <= ticket[c] + 1
  /\ \A c \in Cpus : pc[c] = "rendering" => ticket[c] = serving

(* The inductive invariant of the lock (MiniTraceLock, MiniTraceUnlock).   *)
LockInv == TypeOK /\ QueueInv

(* "then spin until gMiniTraceServing reaches our ticket number"           *)
(* (MiniLog.c:62-63): a processor that waits is served in the end.         *)
EveryTicketServed ==
  \A c \in Cpus : pc[c] = "spinning" ~> pc[c] = "rendering"

=============================================================================
