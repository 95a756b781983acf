------------------------------ MODULE SelfTest ------------------------------
(***************************************************************************)
(* The AVX2 self test: RunPowerManagementSelfTest (src/src/SelfTest.c)     *)
(* runs the stress kernel (src/src/ASMx64/CpuStressorAvx2.asm) on every    *)
(* processor at once through RunOnAllProcessors and its shim               *)
(* ProcessorIgnite (src/src/MpDispatcher.c), then prints the error count.  *)
(*                                                                         *)
(* The kernel computes two XOR chains in runs of many inner iterations and *)
(* compares them after a run.  An unstable processor is one whose chains   *)
(* come apart ("glitch").  How many inner iterations a run has is left     *)
(* out: the kernel's registers are local to it.                            *)
(***************************************************************************)
EXTENDS Naturals, FiniteSets

CONSTANTS
  Bsp,           \* the boot processor
  Aps,           \* application processors that may be enabled
  MaxRuns,       \* gSelfTestMaxRuns
  MaxGlitches    \* bound: glitches of all processors together

Cpus == Aps \cup {Bsp}

ASSUME SelfTestAssumption ==
  /\ Bsp \notin Aps
  /\ IsFiniteSet(Aps)
  /\ MaxRuns \in Nat \ {0} /\ MaxGlitches \in Nat

VARIABLES
  enabled,      \* the enabled application processors
  stage,        \* where the boot processor is
  event,        \* the MP event of RunOnAllProcessors is open
  pc,           \* of each processor in ProcessorIgnite and the kernel
  gs,           \* the GS base of each processor: "firmware" or "core"
  rdx,          \* finished runs of each kernel
  split,        \* processors whose two chains differ
  errorCnt,     \* gSelfTestErrorCnt
  printed,      \* the count in the report
  \* history
  mismatches,   \* <<processor, run>>: a comparison that failed
  glitched      \* processors whose chains came apart before a comparison

kernel == <<rdx, split, mismatches, glitched>>
vars   == <<enabled, stage, event, pc, gs, kernel, errorCnt, printed>>

Stages == {"create", "startAll", "own", "wait", "print", "done"}
Pcs    == {"idle", "ignite", "inner", "compare", "count", "restore", "done"}

TypeOK ==
  /\ enabled \subseteq Aps
  /\ stage \in Stages
  /\ event \in BOOLEAN
  /\ pc \in [Cpus -> Pcs]
  /\ gs \in [Cpus -> {"firmware", "core"}]
  /\ rdx \in [Cpus -> 0 .. MaxRuns + 1]
  /\ split \subseteq Cpus
  /\ errorCnt \in Nat
  /\ printed \in Nat
  /\ mismatches \subseteq Cpus \X (1 .. MaxRuns)
  /\ glitched \subseteq Cpus

Init ==
  /\ enabled \in SUBSET Aps
  /\ stage = "create"
  /\ event = FALSE
  /\ pc = [c \in Cpus |-> "idle"]
  /\ gs = [c \in Cpus |-> "firmware"]
  /\ rdx = [c \in Cpus |-> 0]
  /\ split = {}
  /\ errorCnt = 0
  /\ printed = 0
  /\ mismatches = {}
  /\ glitched = {}

-----------------------------------------------------------------------------
(* RunOnAllProcessors on the boot processor.                               *)

(* CreateEvent; its failure goes back to the report.                       *)
CreateEvent ==
  /\ stage = "create"
  /\ \/ stage' = "startAll" /\ event' = TRUE
     \/ stage' = "print" /\ UNCHANGED event
  /\ UNCHANGED <<enabled, pc, gs, kernel, errorCnt, printed>>

(* Mutant of StartupAllAPs: EFI_NOT_STARTED leaves the event open.         *)
StartupAllAPsKeepsEvent ==
  /\ stage = "startAll"
  /\ \/ /\ enabled # {}
        /\ pc' = [c \in Cpus |-> IF c \in enabled THEN "ignite" ELSE pc[c]]
        /\ stage' = "own"
        /\ UNCHANGED event
     \/ /\ enabled = {}
        /\ stage' = "own"
        /\ UNCHANGED <<event, pc>>
     \/ /\ stage' = "print"
        /\ event' = FALSE
        /\ UNCHANGED pc
  /\ UNCHANGED <<enabled, gs, kernel, errorCnt, printed>>

(* StartupAllAPs starts the shim on every enabled AP and returns at once.  *)
(* EFI_NOT_STARTED (there is no AP) closes the event and goes on; any      *)
(* other error closes it and returns before the boot processor's own run.  *)
StartupAllAPs ==
  /\ stage = "startAll"
  /\ \/ /\ enabled # {}
        /\ pc' = [c \in Cpus |-> IF c \in enabled THEN "ignite" ELSE pc[c]]
        /\ stage' = "own"
        /\ UNCHANGED <<event, gs, kernel>>
     \/ /\ enabled = {}
        /\ stage' = "own"
        /\ event' = FALSE
        /\ UNCHANGED <<pc, gs, kernel>>
     \/ /\ stage' = "print"
        /\ event' = FALSE
        /\ UNCHANGED <<pc, gs, kernel>>
  /\ UNCHANGED <<enabled, errorCnt, printed>>

(* The kernel's entry: rdx and the shadow copies are initialised.           *)
Enter(c) ==
  /\ pc' = [pc EXCEPT ![c] = "inner"]
  /\ rdx' = [rdx EXCEPT ![c] = 0]
  /\ split' = split \ {c}
  /\ UNCHANGED <<mismatches, glitched>>

(* proc(param) on the boot processor, without the shim.                    *)
OwnRun ==
  /\ stage = "own"
  /\ stage' = "wait"
  /\ Enter(Bsp)
  /\ UNCHANGED <<enabled, event, gs, errorCnt, printed>>

(* WaitForEvent, when there is one, returns when the last AP has finished: *)
(* that AP makes the firmware signal the event.                            *)
WaitForAps ==
  /\ stage = "wait"
  /\ pc[Bsp] = "done"
  /\ event => enabled # {} /\ \A c \in enabled : pc[c] = "done"
  /\ stage' = "print"
  /\ event' = FALSE
  /\ UNCHANGED <<enabled, pc, gs, kernel, errorCnt, printed>>

(* The report; the status of RunOnAllProcessors is not looked at.          *)
Report ==
  /\ stage = "print"
  /\ stage' = "done"
  /\ printed' = errorCnt
  /\ UNCHANGED <<enabled, event, pc, gs, kernel, errorCnt>>

-----------------------------------------------------------------------------
(* ProcessorIgnite and the kernel on processor c.                          *)

(* The shim takes the processor's record, which DetectPackages has made    *)
(* for every enabled processor (module Platform), for its GS base.         *)
Ignite(c) ==
  /\ pc[c] = "ignite"
  /\ gs' = [gs EXCEPT ![c] = "core"]
  /\ Enter(c)
  /\ UNCHANGED <<enabled, stage, event, errorCnt, printed>>

Glitches == Cardinality(glitched)

(* Mutant of InnerLoop: `jg` is `jge`, and the last comparison is skipped.  *)
InnerLoopEarlyExit(c) ==
  /\ pc[c] = "inner"
  /\ rdx' = [rdx EXCEPT ![c] = @ + 1]
  /\ pc' = [pc EXCEPT ![c] = IF rdx'[c] >= MaxRuns THEN "restore" ELSE "compare"]
  /\ \/ UNCHANGED <<split, glitched>>
     \/ /\ Glitches < MaxGlitches
        /\ split' = split \cup {c}
        /\ glitched' = IF rdx'[c] > MaxRuns THEN glitched ELSE glitched \cup {c}
  /\ UNCHANGED <<enabled, mismatches, stage, event, gs, errorCnt, printed>>

(* One outer run: iterate, count the run, and leave when                   *)
(* rdx is above MaxRuns.  A glitch parts the chains.                       *)
InnerLoop(c) ==
  /\ pc[c] = "inner"
  /\ rdx' = [rdx EXCEPT ![c] = @ + 1]
  /\ pc' = [pc EXCEPT ![c] = IF rdx'[c] > MaxRuns THEN "restore" ELSE "compare"]
  /\ \/ UNCHANGED <<split, glitched>>
     \/ /\ Glitches < MaxGlitches
        /\ split' = split \cup {c}
        /\ glitched' = IF rdx'[c] > MaxRuns THEN glitched ELSE glitched \cup {c}
  /\ UNCHANGED <<enabled, mismatches, stage, event, gs, errorCnt, printed>>

(* errcheck: chains that agree go on; after a mismatch the shadow          *)
(* registers hold the comparison masks, so the chains stay apart.          *)
Compare(c) ==
  /\ pc[c] = "compare"
  /\ mismatches' = IF c \in split THEN mismatches \cup {<<c, rdx[c]>>} ELSE mismatches
  /\ pc' = [pc EXCEPT ![c] = IF c \in split THEN "count" ELSE "inner"]
  /\ UNCHANGED <<enabled, rdx, split, glitched, stage, event, gs, errorCnt, printed>>

(* Mutant of CountError: an increment without LOCK, which another          *)
(* processor's increment can overwrite.                                    *)
CountErrorUnlocked(c) ==
  /\ pc[c] = "count"
  /\ errorCnt' \in {errorCnt + 1} \cup
       (IF \E d \in Cpus \ {c} : pc[d] = "count" THEN {errorCnt} ELSE {})
  /\ pc' = [pc EXCEPT ![c] = "inner"]
  /\ UNCHANGED <<enabled, stage, event, gs, kernel, printed>>

(* lock xadd; ComboHell_TerminateOnError is 0, so the kernel goes on.      *)
CountError(c) ==
  /\ pc[c] = "count"
  /\ errorCnt' = errorCnt + 1
  /\ pc' = [pc EXCEPT ![c] = "inner"]
  /\ UNCHANGED <<enabled, stage, event, gs, kernel, printed>>

(* Mutant of Restore: the shim returns without restoring GS.               *)
RestoreForgotten(c) ==
  /\ pc[c] = "restore"
  /\ pc' = [pc EXCEPT ![c] = "done"]
  /\ UNCHANGED <<enabled, stage, event, gs, kernel, errorCnt, printed>>

(* The kernel returns; on an AP the shim restores GS.                      *)
Restore(c) ==
  /\ pc[c] = "restore"
  /\ pc' = [pc EXCEPT ![c] = "done"]
  /\ gs' = [gs EXCEPT ![c] = "firmware"]
  /\ UNCHANGED <<enabled, stage, event, kernel, errorCnt, printed>>

Boot == CreateEvent \/ StartupAllAPs \/ OwnRun \/ WaitForAps \/ Report

OnCpu(c) ==
  Ignite(c) \/ InnerLoop(c) \/ Compare(c) \/ CountError(c) \/ Restore(c)

Next == Boot \/ \E c \in Cpus : OnCpu(c)

Spec == Init /\ [][Next]_vars

(* Every processor executes its own instructions.                          *)
FairSpec == Spec /\ WF_vars(Boot) /\ \A c \in Cpus : WF_vars(OnCpu(c))

-----------------------------------------------------------------------------
(* The report comes after the last kernel and counts every mismatch of     *)
(* every processor exactly once, although all of them add to one counter.  *)
ReportIsFinal ==
  stage = "done" =>
    /\ printed = Cardinality(mismatches)
    /\ \A c \in Cpus : pc[c] \in {"idle", "done"}

(* Chains that came apart before a comparison show in the report, and a    *)
(* report of no errors means that none did.                                *)
ReportIsHonest == stage = "done" => (printed = 0 <=> glitched = {})

(* Firmware code never runs on a processor with this program's GS base,    *)
(* and the event is not leaked.                                            *)
FirmwareStateRestored ==
  /\ \A c \in Cpus : pc[c] \in {"idle", "done"} => gs[c] = "firmware"
  /\ stage \in {"print", "done"} => ~event

-----------------------------------------------------------------------------
(* Who is where: no AP runs before it is started or when it is disabled,   *)
(* the boot processor runs its own kernel last, and the report comes when  *)
(* nobody runs.                                                            *)
StageInv ==
  /\ stage = "create" => ~event
  /\ stage = "startAll" => event
  /\ stage \in {"own", "wait"} => event \/ enabled = {}
  /\ stage \in {"create", "startAll"} => \A c \in Cpus : pc[c] = "idle"
  /\ stage = "own" => pc[Bsp] = "idle"
  /\ \A c \in Aps \ enabled : pc[c] = "idle"
  /\ stage \in {"print", "done"} => \A c \in Cpus : pc[c] \in {"idle", "done"}

(* Mismatches that are not added to the counter yet.                       *)
Pending == {<<c, rdx[c]>> : c \in {d \in Cpus : pc[d] = "count"}}

(* The counter has every mismatch that is not pending, and each comparison *)
(* is one of a later run than the mismatches so far.                       *)
CountInv ==
  /\ errorCnt = Cardinality(mismatches \ Pending)
  /\ Pending \subseteq mismatches
  /\ \A c \in Cpus :
       /\ pc[c] \in {"inner", "compare", "count"} => rdx[c] <= MaxRuns
       /\ pc[c] \in {"compare", "count"} => rdx[c] > 0
       /\ \A n \in 1 .. MaxRuns :
            <<c, n>> \in mismatches =>
              /\ pc[c] \notin {"idle", "ignite"} /\ n <= rdx[c]
              /\ pc[c] = "compare" => n < rdx[c]
  /\ stage = "done" => printed = errorCnt

(* Chains that have come apart are, or will be, seen by a comparison, and  *)
(* no others are.                                                          *)
GlitchInv ==
  /\ \A m \in mismatches : m[1] \in glitched
  /\ \A c \in glitched :
       /\ c \in split /\ pc[c] \notin {"idle", "ignite"}
       /\ pc[c] = "compare" \/ \E n \in 1 .. MaxRuns : <<c, n>> \in mismatches
  /\ \A c \in split : pc[c] \in {"inner", "compare", "count"} => c \in glitched

(* The inductive invariant of the self test.                               *)
SelfTestInv == TypeOK /\ FirmwareStateRestored /\ StageInv /\ CountInv /\ GlitchInv

(* The self test comes to its end on every processor.                      *)
TestEnds == <>(stage = "done")

=============================================================================
