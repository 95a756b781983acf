------------------------------ MODULE Platform ------------------------------
(***************************************************************************)
(* Discovery and programming of the machine (src/src/Platform.c): which    *)
(* logical processors exist (DiscoverPlatform, DetectPackages), and how    *)
(* ApplyPolicy visits them: voltages on every processor, power limits on   *)
(* the first processor of every package, then the locks on every           *)
(* processor, the MMIO lock on every package, and a last probe.            *)
(*                                                                         *)
(* One handler runs at a time: RunOnPackageOrCore blocks until the handler *)
(* returns on its processor, its timer fires, or the access faults and the *)
(* processor freezes.  A handler is not atomic: each register it may write *)
(* is a step, so a timeout or a fault leaves it half done.                 *)
(*                                                                         *)
(* Registers are named by what they hold; each package has one of each.    *)
(* "Volt" stands for everything written through the OC mailbox (IccMax,    *)
(* voltage, V/F points); its lock is the OC lock of MSR_FLEX_RATIO.        *)
(***************************************************************************)
EXTENDS Naturals, FiniteSets, Sequences

CONSTANTS
  NumProcessors,   \* psys->LogicalProcessors
  PackageIds,      \* values of EFI_PROCESSOR_INFORMATION.Location.Package
  NoPackage,       \* a null entry of gCorePtrs[]
  NoCpu,           \* no handler is running
  MaxPackages,     \* MAX_PACKAGES
  MaxCores,        \* MAX_CORES
  BootSeals,       \* lock bits a firmware may leave set in a package
  Policies         \* INI contents considered: [program, lock]

Cpus == 0 .. NumProcessors - 1

VfSteps        == <<"PRatio", "ERatio", "Volt">>
LimitSteps     == <<"cTDP", "PL12", "PL3", "PL4", "PP0", "PowerCtl">>
Limit2Steps    == <<"MmioPL12", "PSys">>
CoreLockSteps  == <<"PL12", "PL3", "PL4", "PP0", "PSys", "cTDP", "Volt">>
PkgLockSteps   == <<"MmioPL12">>

VfRegs     == {"PRatio", "ERatio", "Volt"}
LimitRegs  == {"cTDP", "PL12", "PL3", "PL4", "PP0", "PowerCtl"}
Limit2Regs == {"MmioPL12", "PSys"}
Registers  == VfRegs \cup LimitRegs \cup Limit2Regs
CoreLocks  == {"PL12", "PL3", "PL4", "PP0", "PSys", "cTDP", "Volt"}
Lockable   == CoreLocks \cup {"MmioPL12"}

ASSUME PlatformAssumption ==
  /\ NumProcessors \in Nat \ {0}
  /\ MaxPackages \in Nat \ {0} /\ MaxCores \in Nat \ {0}
  /\ NoPackage \notin PackageIds
  /\ NoCpu \notin Cpus
  /\ BootSeals \subseteq SUBSET Lockable
  /\ Policies \subseteq [program : SUBSET Registers, lock : SUBSET Lockable]

VARIABLES
  \* the machine
  bsp,          \* psys->BootProcessor
  enabled,      \* processors whose PROCESSOR_ENABLED_BIT is set
  packageOf,    \* Location.Package of each processor
  bootSealed,   \* registers of each package the firmware locked before us
  sealed,       \* registers of each package whose lock bit is set now
  frozen,       \* processors spinning in HandleProbingFault
  \* the program
  policy,       \* what ApplyComputerOwnersPolicy read: [program, lock]
  corePtrs,     \* gCorePtrs[]: the package record each processor points to
  numCores,     \* gNumCores
  stage,        \* where StartupPlatformInit, ApplyPolicy and UefiMain are
  todo,         \* processors the current loop has not finished
  cpu,          \* the processor a handler runs on
  step,         \* the next register of that handler
  \* history
  vfDone,       \* processors whose ProgramVFOverridesAndOCRatios succeeded
  reached,      \* <<package, register>>: a programming handler got past it
  lost          \* <<package, register>>: a programming write met a lock bit
                \* that this program had set

machine == <<bsp, enabled, packageOf, bootSealed>>
vars == <<machine, sealed, frozen, policy, corePtrs, numCores, stage, todo,
          cpu, step, vfDone, reached, lost>>

-----------------------------------------------------------------------------
(* The handlers.  A register is written when its Program flag is set;      *)
(* SetCTDPLevel is unconditional.                                          *)
Programs(r) == r = "cTDP" \/ r \in policy.program

(* A lock bit is set when its register is programmed and its Lock flag is  *)
(* 1; SetCTDPLock and IaCore_OcLock do not look at a Program flag.         *)
Seals(r) == r \in policy.lock /\ (r \in policy.program \/ r \in {"cTDP", "Volt"})

ProgramStages == {"vf", "limits", "limits2"}
LockStages    == {"coreLocks", "pkgLocks"}
ProbeStages   == {"probeCores", "probePkgs", "reprobe"}
CallStages    == ProgramStages \cup LockStages \cup ProbeStages
EndStages     == {"done", "cancelled", "failed"}
Stages        == CallStages \cup EndStages \cup {"start", "ready", "exited"}

StepsOf(s) ==
  CASE s = "vf"        -> VfSteps
    [] s = "limits"    -> LimitSteps
    [] s = "limits2"   -> Limit2Steps
    [] s = "coreLocks" -> CoreLockSteps
    [] s = "pkgLocks"  -> PkgLockSteps
    [] OTHER           -> << >>

(* FirstCoreNumber: the lowest processor number of its package.            *)
IsFirstCore(c) ==
  \A d \in enabled : packageOf[d] = packageOf[c] => c <= d

FirstCores == {c \in enabled : IsFirstCore(c)}

(* The order of the loops: the locks go by processor number, everything    *)
(* else package by package, packages in the order they were met.           *)
Before(c, d) ==
  IF stage = "coreLocks" \/ packageOf[c] = packageOf[d]
  THEN c <= d
  ELSE \E f \in FirstCores : /\ packageOf[f] = packageOf[c]
                             /\ \A g \in FirstCores : packageOf[g] = packageOf[d] => f < g

TypeOK ==
  /\ bsp \in Cpus
  /\ enabled \subseteq Cpus
  /\ packageOf \in [Cpus -> PackageIds]
  /\ bootSealed \in [PackageIds -> SUBSET Lockable]
  /\ sealed \in [PackageIds -> SUBSET Lockable]
  /\ frozen \subseteq Cpus
  /\ policy \in Policies
  /\ corePtrs \in [Cpus -> PackageIds \cup {NoPackage}]
  /\ numCores \in {0, NumProcessors}
  /\ stage \in Stages
  /\ todo \subseteq Cpus
  /\ cpu \in Cpus \cup {NoCpu}
  /\ step \in Nat \ {0}
  /\ vfDone \subseteq Cpus
  /\ reached \subseteq PackageIds \X Registers
  /\ lost \subseteq PackageIds \X Registers

Init ==
  /\ bsp \in Cpus
  /\ enabled \in SUBSET Cpus
  /\ packageOf \in [Cpus -> PackageIds]
  /\ bootSealed \in [PackageIds -> BootSeals]
  /\ sealed = bootSealed
  /\ frozen = {}
  /\ policy \in Policies
  /\ corePtrs = [c \in Cpus |-> NoPackage]
  /\ numCores = 0
  /\ stage = "start"
  /\ todo = {}
  /\ cpu = NoCpu
  /\ step = 1
  /\ vfDone = {}
  /\ reached = {}
  /\ lost = {}

-----------------------------------------------------------------------------
(* DetectPackages refuses a machine without an enabled boot processor and  *)
(* one that does not fit the tables.                                       *)
Detectable ==
  /\ NumProcessors <= MaxCores * MaxPackages
  /\ bsp \in enabled
  /\ Cardinality({packageOf[c] : c \in enabled}) <= MaxPackages
  /\ \A p \in PackageIds :
       Cardinality({c \in enabled : packageOf[c] = p}) <= MaxCores

(* DetectPackages succeeds: disabled processors stay null in gCorePtrs[].  *)
DetectPackages ==
  /\ stage = "start"
  /\ Detectable
  /\ corePtrs' = [c \in Cpus |-> IF c \in enabled THEN packageOf[c] ELSE NoPackage]
  /\ numCores' = NumProcessors
  /\ stage' = "probeCores"
  /\ todo' = enabled
  /\ UNCHANGED <<machine, sealed, frozen, policy, cpu, step, vfDone, reached, lost>>

(* It fails after the first n processors, or the firmware's WhoAmI,        *)
(* GetNumberOfProcessors or GetProcessorInfo does: gNumCores stays 0, and  *)
(* what gCorePtrs[] holds by then points into a record that is freed.      *)
DetectFails ==
  /\ stage = "start"
  /\ \E n \in 0 .. NumProcessors :
       corePtrs' = [c \in Cpus |-> IF c < n /\ c \in enabled THEN packageOf[c]
                                  ELSE NoPackage]
  /\ stage' = "failed"
  /\ UNCHANGED <<machine, sealed, frozen, policy, numCores, todo,
                 cpu, step, vfDone, reached, lost>>

(* UefiMain after discovery: ApplyPolicy, unless the user presses the      *)
(* emergency exit key.                                                     *)
BeginPolicy ==
  /\ stage = "ready"
  /\ stage' = "vf"
  /\ todo' = {c \in Cpus : corePtrs[c] # NoPackage}
  /\ UNCHANGED <<machine, sealed, frozen, policy, corePtrs, numCores, cpu,
                 step, vfDone, reached, lost>>

EmergencyExit ==
  /\ stage = "ready"
  /\ stage' = "cancelled"
  /\ UNCHANGED <<machine, sealed, frozen, policy, corePtrs, numCores, todo,
                 cpu, step, vfDone, reached, lost>>

-----------------------------------------------------------------------------
(* RunOnPackageOrCore: the handler starts on the next processor in order;  *)
(* a number outside the tables is refused.                                 *)
Dispatch(c) ==
  /\ stage \in CallStages
  /\ cpu = NoCpu
  /\ c \in todo
  /\ \A d \in todo : Before(c, d)
  /\ c < numCores /\ corePtrs[c] # NoPackage
  /\ cpu' = c
  /\ step' = 1
  /\ UNCHANGED <<machine, sealed, frozen, policy, corePtrs, numCores, stage,
                 todo, vfDone, reached, lost>>

(* The number is refused by that check, or StartupThisAP itself refuses:   *)
(* the status ends the whole policy.                                       *)
DispatchRefused(c) ==
  /\ stage \in CallStages
  /\ cpu = NoCpu
  /\ c \in todo
  /\ c # bsp \/ c >= numCores \/ corePtrs[c] = NoPackage
  /\ \A d \in todo : Before(c, d)
  /\ stage' = "failed"
  /\ UNCHANGED <<machine, sealed, frozen, policy, corePtrs, numCores, todo,
                 cpu, step, vfDone, reached, lost>>

Running == /\ cpu # NoCpu
           /\ cpu \notin frozen

(* A programming handler passes one register.  A locked one keeps its      *)
(* value; a locked OC mailbox rejects the write, which is an error.        *)
ProgramRegister ==
  /\ Running
  /\ stage \in ProgramStages
  /\ step <= Len(StepsOf(stage))
  /\ LET r == StepsOf(stage)[step]
         p == packageOf[cpu]
     IN  /\ ~(r = "Volt" /\ Programs(r) /\ r \in sealed[p])
         /\ reached' = IF Programs(r) THEN reached \cup {<<p, r>>} ELSE reached
         /\ lost' = IF Programs(r) /\ r \in sealed[p] \ bootSealed[p]
                    THEN lost \cup {<<p, r>>} ELSE lost
  /\ step' = step + 1
  /\ UNCHANGED <<machine, sealed, frozen, policy, corePtrs, numCores, stage,
                 todo, cpu, vfDone>>

(* A locking handler passes one register.  The lock bits are sticky.       *)
SealRegister ==
  /\ Running
  /\ stage \in LockStages
  /\ step <= Len(StepsOf(stage))
  /\ LET r == StepsOf(stage)[step]
         p == packageOf[cpu]
     IN  sealed' = IF Seals(r) THEN [sealed EXCEPT ![p] = @ \cup {r}] ELSE sealed
  /\ step' = step + 1
  /\ UNCHANGED <<machine, frozen, policy, corePtrs, numCores, stage, todo,
                 cpu, vfDone, reached, lost>>

(* Mutant of NextStage: the MSR locks go first, the limits follow.         *)
NextStageLocksFirst(s) ==
  CASE s = "probeCores" -> "probePkgs"
    [] s = "probePkgs"  -> "ready"
    [] s = "vf"         -> "coreLocks"
    [] s = "limits2"    -> "pkgLocks"
    [] s = "coreLocks"  -> "limits"
    [] s = "pkgLocks"   -> "reprobe"
    [] s = "reprobe"    -> "done"

(* The stage after stage s when its loop is over.                          *)
NextStage(s) ==
  CASE s = "probeCores" -> "probePkgs"
    [] s = "probePkgs"  -> "ready"
    [] s = "vf"         -> "limits"
    [] s = "limits2"    -> "coreLocks"
    [] s = "coreLocks"  -> "pkgLocks"
    [] s = "pkgLocks"   -> "reprobe"
    [] s = "reprobe"    -> "done"

(* The processors the loop of stage s visits: gCorePtrs[] entries that are *)
(* not null, or FirstCoreNumber of each package.                           *)
Targets(s) ==
  IF s \in {"probeCores", "vf", "coreLocks"} THEN {c \in Cpus : corePtrs[c] # NoPackage}
  ELSE IF s \in CallStages THEN FirstCores
  ELSE {}

(* Mutant of HandlerError: `if (EFI_ERROR(status)) return status;` is      *)
(* missing and the loop goes on with the next processor.                   *)
HandlerErrorIgnored ==
  /\ Running
  /\ step = 1
  /\ stage \notin {"limits", "limits2"}
  /\ cpu' = NoCpu
  /\ todo' = IF todo = {cpu} THEN Targets(NextStage(stage)) ELSE todo \ {cpu}
  /\ stage' = IF todo = {cpu} THEN NextStage(stage) ELSE stage
  /\ UNCHANGED <<machine, sealed, frozen, policy, corePtrs, numCores, step,
                 vfDone, reached, lost>>

(* The handler returns an error, and the caller stops there:               *)
(* ProcessorIgnite finds no record, the OC mailbox fails in                *)
(* IAPERF_ProgramDomainVF, a probe fails in ProbePackage.                  *)
HandlerError ==
  /\ Running
  /\ \/ step = 1
     \/ /\ stage = "vf" /\ step <= Len(VfSteps)
        /\ StepsOf(stage)[step] = "Volt" /\ Programs("Volt")
  /\ stage' = "failed"
  /\ cpu' = NoCpu
  /\ UNCHANGED <<machine, sealed, frozen, policy, corePtrs, numCores, todo,
                 step, vfDone, reached, lost>>

(* An MSR or MMIO access faults: HandleProbingFault never returns.         *)
Fault ==
  /\ Running
  /\ frozen' = frozen \cup {cpu}
  /\ UNCHANGED <<machine, sealed, policy, corePtrs, numCores, stage, todo,
                 cpu, step, vfDone, reached, lost>>

(* Mutant of ApTimeout: BSP goes on while the procedure still runs.        *)
ApTimeoutStillRunning ==
  /\ cpu \notin {NoCpu, bsp}
  /\ stage' = "failed"
  /\ UNCHANGED <<machine, sealed, frozen, policy, corePtrs, numCores, todo,
                 cpu, step, vfDone, reached, lost>>

(* Mutant of ApTimeout: the call waits for ever for a frozen processor.    *)
ApTimeoutUnlessFrozen ==
  /\ cpu \notin {NoCpu, bsp} \cup frozen
  /\ stage' = "failed"
  /\ cpu' = NoCpu
  /\ UNCHANGED <<machine, sealed, frozen, policy, corePtrs, numCores, todo,
                 step, vfDone, reached, lost>>

(* The one-second timer of StartupThisAP ends the procedure of an AP.      *)
ApTimeout ==
  /\ cpu \notin {NoCpu, bsp}
  /\ stage' = "failed"
  /\ cpu' = NoCpu
  /\ UNCHANGED <<machine, sealed, frozen, policy, corePtrs, numCores, todo,
                 step, vfDone, reached, lost>>

(* A handler returns EFI_SUCCESS.  ProgramPowerLimits is followed by       *)
(* ProgramPowerLimits_Stage2 on the same processor; otherwise the loop     *)
(* goes on with the next processor or the next stage begins.               *)
HandlerReturn ==
  /\ Running
  /\ step > Len(StepsOf(stage))
  /\ cpu' = NoCpu
  /\ vfDone' = IF stage = "vf" THEN vfDone \cup {cpu} ELSE vfDone
  /\ LET rest == todo \ {cpu} IN
     IF stage = "limits" THEN
       stage' = "limits2" /\ todo' = todo
     ELSE IF rest = {} THEN
       stage' = NextStage(stage) /\ todo' = Targets(NextStage(stage))
     ELSE
       /\ stage' = IF stage = "limits2" THEN "limits" ELSE stage
       /\ todo' = rest
  /\ UNCHANGED <<machine, sealed, frozen, policy, corePtrs, numCores, step, reached, lost>>

(* Cleanup of UefiMain: the platform record and the per-CPU table go.      *)
Cleanup ==
  /\ stage \in EndStages
  /\ corePtrs' = [c \in Cpus |-> NoPackage]
  /\ numCores' = 0
  /\ stage' = "exited"
  /\ todo' = {}
  /\ UNCHANGED <<machine, sealed, frozen, policy, cpu, step, vfDone, reached, lost>>

Next ==
  \/ DetectPackages \/ DetectFails
  \/ BeginPolicy \/ EmergencyExit
  \/ \E c \in Cpus : Dispatch(c) \/ DispatchRefused(c)
  \/ ProgramRegister \/ SealRegister \/ HandlerReturn
  \/ HandlerError \/ Fault \/ ApTimeout
  \/ Cleanup

Spec == Init /\ [][Next]_vars

(* The boot processor keeps running and the firmware's timer keeps its     *)
(* promise, so the program goes on while it can take a step.               *)
FairSpec == Spec /\ WF_vars(Next)

-----------------------------------------------------------------------------
(* The packages that have an enabled processor.                            *)
Present == {packageOf[c] : c \in enabled}

OursSealed == \E p \in PackageIds : sealed[p] # bootSealed[p]

AllProgrammed ==
  /\ vfDone = enabled
  /\ \A p \in Present, r \in Registers : Programs(r) => <<p, r>> \in reached

(* ApplyPolicy locks only after everything it was asked to program has     *)
(* been programmed, on every enabled processor and in every package: a     *)
(* handler that failed, timed out or froze anywhere leaves all locks open. *)
LocksComeLast == OursSealed => AllProgrammed

(* No programming write of ApplyPolicy runs into a lock bit that           *)
(* ApplyPolicy itself set, on whatever processor.                          *)
NoLostWrite == lost = {}

(* ApplyPolicy returns EFI_SUCCESS only when every processor and package   *)
(* took the whole policy, every requested lock is set and no processor     *)
(* froze on the way.                                                       *)
SuccessIsComplete ==
  stage = "done" =>
    /\ AllProgrammed
    /\ \A p \in Present, r \in Registers : Seals(r) => r \in sealed[p]
    /\ frozen = {}

(* A handler dereferences what GetCpuDataBlock returns: whenever one runs, *)
(* its processor has a record, and that record is of its own package.      *)
HandlerHasItsRecord ==
  cpu # NoCpu => cpu < numCores /\ corePtrs[cpu] = packageOf[cpu]

(* The policy implements PolicyBarrier: items are programmed while nothing *)
(* is locked, and locked when all of them are programmed.                  *)
Barrier == INSTANCE PolicyBarrier WITH
  Items  <- PackageIds \X Registers,
  wanted <- {i \in Present \X Registers : Programs(i[2])},
  done   <- reached,
  locks  <- {i \in PackageIds \X Registers : i[2] \in sealed[i[1]] \ bootSealed[i[1]]}

BarrierSpec == Barrier!Spec

(* ApplyPolicy ends however handlers fail on application processors; only  *)
(* a fault on the boot processor, where no timer runs, stops the machine.  *)
ProgramEnds == <>(stage = "exited" \/ bsp \in frozen)

-----------------------------------------------------------------------------
(* The strengthening that makes LocksComeLast and SuccessIsComplete        *)
(* inductive.                                                              *)

ReachedOn(c, regs) ==
  \A r \in regs : Programs(r) => <<packageOf[c], r>> \in reached

(* The per-CPU table is DetectPackages' while the loops run, and a running *)
(* handler's processor is the first one its loop has left.                 *)
TableInv ==
  /\ stage \in CallStages \cup {"ready"} =>
       /\ numCores = NumProcessors
       /\ corePtrs = [c \in Cpus |-> IF c \in enabled THEN packageOf[c] ELSE NoPackage]
  /\ stage \in CallStages => todo \subseteq Targets(stage)
  /\ cpu # NoCpu => /\ stage \in CallStages
                    /\ cpu \in todo
                    /\ \A d \in todo : Before(cpu, d)

(* What each loop has left behind.                                         *)
ProgressInv ==
  /\ vfDone \subseteq enabled
  /\ \A c \in vfDone : ReachedOn(c, VfRegs)
  /\ stage = "vf" => enabled \ todo \subseteq vfDone
  /\ stage \in {"limits", "limits2"} =>
       /\ vfDone = enabled
       /\ \A c \in FirstCores \ todo : ReachedOn(c, LimitRegs \cup Limit2Regs)
  /\ stage = "limits2" =>
       \A c \in todo : (\A d \in todo : Before(c, d)) => ReachedOn(c, LimitRegs)
  /\ stage \in LockStages \cup {"reprobe", "done"} => AllProgrammed
  /\ cpu # NoCpu /\ stage \in ProgramStages =>
       \A j \in 1 .. Len(StepsOf(stage)) :
         j < step => ReachedOn(cpu, {StepsOf(stage)[j]})

(* Lock bits are only added, and only once everything is programmed.       *)
SealInv ==
  /\ \A p \in PackageIds : bootSealed[p] \subseteq sealed[p]
  /\ LocksComeLast
  /\ stage \in {"start", "ready", "probeCores", "probePkgs"} \cup ProgramStages
       => sealed = bootSealed
  /\ NoLostWrite

LoopsInv == TableInv /\ ProgressInv /\ SealInv

SealedOn(c, regs) ==
  \A r \in regs : Seals(r) => r \in sealed[packageOf[c]]

(* What each lock loop has left behind, and that the calls go on only      *)
(* while no processor is frozen but the one that is waited for.            *)
FinishInv ==
  /\ \/ frozen = {}
     \/ stage \in {"failed", "exited"}
     \/ cpu # NoCpu /\ frozen = {cpu}
  /\ stage = "coreLocks" => \A c \in enabled \ todo : SealedOn(c, CoreLocks)
  /\ stage \in {"pkgLocks", "reprobe", "done"} => \A c \in enabled : SealedOn(c, CoreLocks)
  /\ stage = "pkgLocks" => \A c \in FirstCores \ todo : SealedOn(c, {"MmioPL12"})
  /\ stage \in {"reprobe", "done"} => \A c \in FirstCores : SealedOn(c, {"MmioPL12"})
  /\ cpu # NoCpu /\ stage \in LockStages =>
       \A j \in 1 .. Len(StepsOf(stage)) :
         j < step => SealedOn(cpu, {StepsOf(stage)[j]})

(* The inductive invariant of ApplyPolicy and its loops.                   *)
PolicyInv == TypeOK /\ LoopsInv /\ FinishInv

=============================================================================
