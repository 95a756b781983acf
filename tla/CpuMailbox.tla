----------------------------- MODULE CpuMailbox -----------------------------
(***************************************************************************)
(* The overclocking mailbox, MSR 150h: CpuMailbox_MsrReadWrite with its    *)
(* busy waits (src/src/CpuMailboxes.c), as OcMailbox.c configures it.      *)
(*                                                                         *)
(* Every call of OcMailbox_ReadWrite has a number, which stands for its    *)
(* command and data; 0 is a request the firmware left behind.  The power   *)
(* control unit behind the MSR is external: it executes one request at a   *)
(* time, however long it takes, and clears the busy flag when it has a     *)
(* verdict.  The data may go on moving for a while after that; sampled     *)
(* twice, `latency` apart, moving data differ.                             *)
(***************************************************************************)
EXTENDS Naturals

CONSTANTS
  MaxSpins,     \* OC_MAILBOX_MAX_SPINS
  MaxRetries,   \* OC_MAILBOX_MAX_RETRIES
  MaxCalls      \* bound: calls of OcMailbox_ReadWrite

ASSUME MailboxAssumption ==
  /\ MaxSpins \in Nat \ {0} /\ MaxRetries \in Nat \ {0} /\ MaxCalls \in Nat

Calls == 0 .. MaxCalls
NoJob == MaxCalls + 1

(* What the 64 bits hold besides the busy flag.                            *)
Moving  == {"moving"} \X {0, 1}
Answers == {"accepted", "rejected"} \X Calls
Words   == Moving \cup Answers \cup ({"request"} \X Calls)
Bodies  == [busy : {0, 1}, word : Words]

VARIABLES
  \* the MSR and the power control unit
  reg,        \* contents of the MSR
  job,        \* the call the unit works for, until its answer has settled
  executed,   \* history: the last verdict of the unit
  \* CpuMailbox_MsrReadWrite
  pc,
  call,       \* number of the current call: `request`
  body,       \* b->b
  result,     \* `result`
  attempt, spins,
  boxStatus,  \* b->status, 1 for any nonzero code
  ret,        \* the value returned
  before      \* history: b->status when the call began

controlUnit == <<reg, job, executed>>
mailVars == <<controlUnit, pc, call, body, result, attempt, spins, boxStatus, ret, before>>

MailTypeOK ==
  /\ reg \in Bodies
  /\ job \in Calls \cup {NoJob}
  /\ executed \in Answers
  /\ pc \in {"idle", "waitIdle", "send", "waitAnswer", "stall"}
  /\ call \in Calls
  /\ body \in Bodies
  /\ result \in Bodies
  /\ attempt \in 0 .. MaxRetries - 1
  /\ spins \in 0 .. MaxSpins - 1
  /\ boxStatus \in {0, 1} /\ before \in {0, 1}
  /\ ret \in {"none", "SUCCESS", "DEVICE_ERROR", "TIMEOUT"}

Zero == [busy |-> 0, word |-> <<"moving", 0>>]

(* The firmware may have left a request that still executes.               *)
MailInit ==
  /\ \/ reg = [busy |-> 1, word |-> <<"request", 0>>] /\ job = 0
     \/ reg = [busy |-> 0, word |-> <<"accepted", 0>>] /\ job = NoJob
  /\ executed = <<"accepted", 0>>
  /\ pc = "idle"
  /\ call = 0
  /\ body = Zero /\ result = Zero
  /\ attempt = 0 /\ spins = 0
  /\ boxStatus = 0 /\ before = 0
  /\ ret = "none"

-----------------------------------------------------------------------------
(* The unit reaches a verdict and clears the busy flag.                    *)
Execute ==
  /\ reg.busy = 1 /\ job # NoJob
  /\ \E v \in {"accepted", "rejected"} :
       /\ executed' = <<v, job>>
       /\ \/ reg' = [busy |-> 0, word |-> <<v, job>>] /\ job' = NoJob
          \/ reg' = [busy |-> 0, word |-> <<"moving", 0>>] /\ job' = job
  /\ UNCHANGED <<pc, call, body, result, attempt, spins, boxStatus, ret, before>>

(* The data move on, or come to rest.                                      *)
Settle ==
  /\ reg.busy = 0 /\ job # NoJob
  /\ \/ \E w \in Moving \ {reg.word} :
          reg' = [busy |-> 0, word |-> w] /\ job' = job
     \/ reg' = [busy |-> 0, word |-> executed] /\ job' = NoJob
  /\ UNCHANGED executed

SettleAlone ==
  /\ Settle
  /\ UNCHANGED <<pc, call, body, result, attempt, spins, boxStatus, ret, before>>

-----------------------------------------------------------------------------
(* Mutant of Call: the request is written at once, without the first wait. *)
CallSendsAtOnce ==
  /\ pc = "idle"
  /\ call < MaxCalls
  /\ call' = call + 1
  /\ boxStatus' \in {boxStatus, 0} /\ before' = boxStatus'
  /\ attempt' = 0 /\ spins' = 0
  /\ ret' = "none"
  /\ pc' = "send"
  /\ UNCHANGED <<controlUnit, body, result>>

(* OcMailbox_ReadWrite on a mailbox structure that was used before, or on  *)
(* one that OcMailbox_InitializeAsMSR has just reset.                      *)
Call ==
  /\ pc = "idle"
  /\ call < MaxCalls
  /\ call' = call + 1
  /\ boxStatus' \in {boxStatus, 0} /\ before' = boxStatus'
  /\ attempt' = 0 /\ spins' = 0
  /\ ret' = "none"
  /\ pc' = "waitIdle"
  /\ UNCHANGED <<controlUnit, body, result>>

(* The status bits of a body.                                              *)
Status(b) == IF b.word[1] = "rejected" THEN 1 ELSE 0

Return(value) == pc' = "idle" /\ ret' = value /\ UNCHANGED <<attempt, spins>>

(* Mutant of BusyWait: the spins are not counted.                          *)
BusyWaitForever(next) ==
  /\ body' = reg
  /\ IF reg.busy = 0 THEN pc' = next /\ spins' = 0 /\ UNCHANGED <<attempt, ret>>
     ELSE UNCHANGED <<pc, attempt, spins, ret>>

(* One round of CpuMailbox_MsrBusyWait.                                    *)
BusyWait(next) ==
  /\ body' = reg
  /\ IF reg.busy = 0 THEN pc' = next /\ spins' = 0 /\ UNCHANGED <<attempt, ret>>
     ELSE IF spins + 1 = MaxSpins THEN Return("TIMEOUT")
     ELSE spins' = spins + 1 /\ UNCHANGED <<pc, attempt, ret>>

WaitIdle ==
  /\ pc = "waitIdle"
  /\ BusyWait("send")
  /\ UNCHANGED <<controlUnit, call, result, boxStatus, before>>

(* The original request goes out with the busy flag.  A unit that is still *)
(* executing may drop either request.                                      *)
Send ==
  /\ pc = "send"
  /\ body' = [busy |-> 1, word |-> <<"request", call>>]
  /\ \/ reg.busy = 0 /\ job' = call
     \/ reg.busy = 1 /\ job' \in {job, call}
  /\ reg' = body'
  /\ pc' = "waitAnswer"
  /\ UNCHANGED <<executed, call, result, attempt, spins, boxStatus, ret, before>>

WaitAnswer ==
  /\ pc = "waitAnswer"
  /\ BusyWait("stall")
  /\ result' = body'
  /\ UNCHANGED <<controlUnit, call, boxStatus, before>>

(* Mutant of Confirm: the second reading is not compared with the first.   *)
ConfirmUncompared ==
  /\ pc = "stall"
  /\ \/ job = NoJob /\ UNCHANGED controlUnit
     \/ Settle
  /\ body' = reg'
  /\ boxStatus' = Status(body')
  /\ Return(IF boxStatus' = 1 THEN "DEVICE_ERROR" ELSE "SUCCESS")
  /\ UNCHANGED <<call, result, before>>

(* Mutant of Confirm: b->status is set before the readings are compared,   *)
(* and never cleared.                                                      *)
ConfirmStatusEarly ==
  /\ pc = "stall"
  /\ \/ job = NoJob /\ UNCHANGED controlUnit
     \/ Settle /\ reg' # result
  /\ body' = reg'
  /\ boxStatus' = IF boxStatus = 1 THEN 1 ELSE Status(body')
  /\ IF body' = result
     THEN Return(IF boxStatus' = 1 THEN "DEVICE_ERROR" ELSE "SUCCESS")
     ELSE IF attempt + 1 = MaxRetries THEN Return("DEVICE_ERROR")
     ELSE pc' = "waitIdle" /\ attempt' = attempt + 1 /\ UNCHANGED <<spins, ret>>
  /\ UNCHANGED <<call, result, before>>

(* MicroStall(latency), then the second reading.  If it differs from the   *)
(* first the whole exchange is repeated, up to maxRetries times; only two  *)
(* equal readings set b->status.                                           *)
Confirm ==
  /\ pc = "stall"
  /\ \/ job = NoJob /\ UNCHANGED controlUnit
     \/ Settle /\ reg' # result
  /\ body' = reg'
  /\ IF body' = result
     THEN /\ boxStatus' = Status(body')
          /\ Return(IF boxStatus' = 1 THEN "DEVICE_ERROR" ELSE "SUCCESS")
     ELSE /\ UNCHANGED boxStatus
          /\ IF attempt + 1 = MaxRetries THEN Return("DEVICE_ERROR")
             ELSE pc' = "waitIdle" /\ attempt' = attempt + 1 /\ UNCHANGED <<spins, ret>>
  /\ UNCHANGED <<call, result, before>>

Driver == WaitIdle \/ Send \/ WaitAnswer \/ Confirm

MailNext == Execute \/ SettleAlone \/ Call \/ Driver

MailSpec == MailInit /\ [][MailNext]_mailVars

(* The processor executes the call; the unit may hang.                     *)
FairSpec == MailSpec /\ WF_mailVars(Driver)

-----------------------------------------------------------------------------
Returned(value) == pc = "idle" /\ ret = value

(* EFI_SUCCESS: the unit accepted this very call, nothing since, and the   *)
(* body holds its settled answer, although earlier calls may have timed    *)
(* out and been answered late and readings may have been repeated.         *)
AnswerIsOurs ==
  Returned("SUCCESS") =>
    /\ executed = <<"accepted", call>>
    /\ body = [busy |-> 0, word |-> executed]

(* An error with a nonzero b->status means that the unit rejected this     *)
(* call, if the status was zero before; IAPERF_ProbeDomainVF takes it for  *)
(* the end of the V/F table.  A success always leaves zero.                *)
StatusIsVerdict ==
  /\ Returned("SUCCESS") => boxStatus = 0
  /\ pc = "idle" /\ boxStatus = 1 /\ before = 0 => executed = <<"rejected", call>>

(* A request is never written over one the unit still executes, not even   *)
(* after a call that gave up waiting.                                      *)
NoOverrun == pc = "send" => reg.busy = 0

(* However the unit behaves, hung or moving for ever, the call returns.    *)
CallReturns == pc # "idle" ~> pc = "idle"

-----------------------------------------------------------------------------
(* Where the current call stands with the unit, and the strengthening that *)
(* makes AnswerIsOurs inductive.                                           *)
ExchangeInv ==
  /\ reg.busy = 1 => job # NoJob
  /\ NoOverrun
  /\ reg.busy = 0 /\ job # NoJob => reg.word \in Moving /\ executed[2] = job
  /\ pc = "waitAnswer" =>
       \/ reg.busy = 1 /\ job = call
       \/ reg.busy = 0 /\ executed[2] = call /\ (job = NoJob => reg.word = executed)
  /\ pc = "stall" =>
       /\ reg.busy = 0 /\ executed[2] = call /\ result.busy = 0
       /\ job = NoJob => reg.word = executed
       /\ result.word \in Moving \cup {executed}
       /\ job # NoJob => result.word \in Moving
  /\ pc # "idle" => boxStatus = before
  /\ pc = "idle" /\ ret = "none" => boxStatus = 0 /\ call = 0
  /\ pc = "idle" /\ (ret = "SUCCESS" \/ boxStatus # before) => job = NoJob

(* The inductive invariant of CpuMailbox_ReadWrite and OcMailbox_ReadWrite. *)
MailboxInv == MailTypeOK /\ ExchangeInv /\ AnswerIsOurs /\ StatusIsVerdict

=============================================================================
