--------------------------- MODULE PlatformProofs ---------------------------
(***************************************************************************)
(* The ordering guarantees of ApplyPolicy for every machine: any number of *)
(* processors and packages, any policy, any pattern of failing, freezing   *)
(* and timing-out handlers.                                                *)
(***************************************************************************)
EXTENDS Platform, TLAPS, WellFoundedInduction

-----------------------------------------------------------------------------
(* Lemmas about the operators of the model.                                *)

(* A non-empty set of numbers has a least element; the loops of            *)
(* DetectPackages rely on it for FirstCoreNumber.                          *)
LEMMA LeastNumber ==
  ASSUME NEW S \in SUBSET Nat, S # {}
  PROVE  \E m \in S : \A n \in S : m <= n
<1> DEFINE R == {ss \in Nat \X Nat : ss[1] < ss[2]}
<1>1. IsWellFoundedOn(R, Nat)
  BY NatLessThanWellFounded DEF OpToRel
<1>2. PICK m \in S : \A n \in S : ~(<<n, m>> \in R)
  BY <1>1, WFMin, Zenon
<1>3. \A n \in S : m <= n
  <2> TAKE n \in S
  <2>1. ~(n < m)
    BY <1>2 DEF R
  <2> QED BY <2>1
<1> QED BY <1>3

(* Processor numbers are natural numbers.                                  *)
LEMMA CpusAreNumbers == Cpus \subseteq Nat
BY PlatformAssumption DEF Cpus

(* Every enabled processor's package has a FirstCoreNumber.                *)
LEMMA FirstCoreExists ==
  ASSUME TypeOK, NEW c \in enabled
  PROVE  \E f \in FirstCores : packageOf[f] = packageOf[c]
<1> DEFINE S == {d \in enabled : packageOf[d] = packageOf[c]}
<1>1. S \subseteq Nat
  <2>1. enabled \subseteq Cpus
    BY DEF TypeOK
  <2> QED BY <2>1, CpusAreNumbers
<1>2. c \in S
  OBVIOUS
<1> HIDE DEF S
<1>3. PICK f \in S : \A d \in S : f <= d
  BY <1>1, <1>2, LeastNumber
<1> USE DEF S
<1>4. f \in FirstCores
  BY <1>3 DEF FirstCores, IsFirstCore
<1> QED BY <1>3, <1>4

(* Two first cores of one package are the same processor.                  *)
LEMMA FirstCoreUnique ==
  ASSUME TypeOK, NEW f \in FirstCores, NEW g \in FirstCores,
         packageOf[f] = packageOf[g]
  PROVE  f = g
BY PlatformAssumption DEF TypeOK, Cpus, FirstCores, IsFirstCore

(* The order of the package loops leaves no choice between two packages.   *)
LEMMA BeforeUnique ==
  ASSUME TypeOK, NEW c \in FirstCores, NEW d \in FirstCores,
         Before(c, d), Before(d, c)
  PROVE  c = d
<1> USE PlatformAssumption DEF Cpus
<1>1. c \in Nat /\ d \in Nat
  BY DEF TypeOK, FirstCores
<1>2. CASE stage = "coreLocks" \/ packageOf[c] = packageOf[d]
  BY <1>1, <1>2 DEF Before
<1>3. CASE ~(stage = "coreLocks" \/ packageOf[c] = packageOf[d])
  <2>1. PICK f \in FirstCores :
          /\ packageOf[f] = packageOf[c]
          /\ \A g \in FirstCores : packageOf[g] = packageOf[d] => f < g
    BY <1>3 DEF Before
  <2>2. PICK f2 \in FirstCores :
          /\ packageOf[f2] = packageOf[d]
          /\ \A g \in FirstCores : packageOf[g] = packageOf[c] => f2 < g
    BY <1>3 DEF Before
  <2>3. f = c /\ f2 = d
    BY <2>1, <2>2, FirstCoreUnique
  <2> QED BY <1>1, <2>1, <2>2, <2>3
<1> QED BY <1>2, <1>3

(* The steps of a handler are registers, and a handler that has passed all *)
(* of them has passed every register of its stage.                         *)
LEMMA HandlerSteps ==
  /\ \A s \in Stages : Len(StepsOf(s)) \in Nat
  /\ \A s \in ProgramStages :
       \A j \in 1 .. Len(StepsOf(s)) : StepsOf(s)[j] \in Registers
  /\ \A s \in LockStages :
       \A j \in 1 .. Len(StepsOf(s)) : StepsOf(s)[j] \in Lockable
  /\ \A r \in VfRegs : \E j \in 1 .. Len(StepsOf("vf")) : StepsOf("vf")[j] = r
  /\ \A r \in LimitRegs :
       \E j \in 1 .. Len(StepsOf("limits")) : StepsOf("limits")[j] = r
  /\ \A r \in Limit2Regs :
       \E j \in 1 .. Len(StepsOf("limits2")) : StepsOf("limits2")[j] = r
<1> USE DEF StepsOf, VfSteps, LimitSteps, Limit2Steps, CoreLockSteps, PkgLockSteps
<1>1. \A s \in Stages : Len(StepsOf(s)) \in Nat
  BY DEF Stages
<1>2. \A s \in ProgramStages :
       \A j \in 1 .. Len(StepsOf(s)) : StepsOf(s)[j] \in Registers
  BY DEF ProgramStages, Registers, VfRegs, LimitRegs, Limit2Regs
<1>3. \A s \in LockStages :
       \A j \in 1 .. Len(StepsOf(s)) : StepsOf(s)[j] \in Lockable
  BY DEF LockStages, Lockable, CoreLocks
<1>4. \A r \in VfRegs : \E j \in 1 .. Len(StepsOf("vf")) : StepsOf("vf")[j] = r
  <2>1. Len(StepsOf("vf")) = 3 OBVIOUS
  <2>2. StepsOf("vf")[1] = "PRatio" /\ StepsOf("vf")[2] = "ERatio" /\ StepsOf("vf")[3] = "Volt"
    OBVIOUS
  <2> HIDE DEF StepsOf
  <2> QED BY <2>1, <2>2 DEF VfRegs
<1>5. \A r \in LimitRegs :
       \E j \in 1 .. Len(StepsOf("limits")) : StepsOf("limits")[j] = r
  <2>1. Len(StepsOf("limits")) = 6 OBVIOUS
  <2>2. /\ StepsOf("limits")[1] = "cTDP" /\ StepsOf("limits")[2] = "PL12"
        /\ StepsOf("limits")[3] = "PL3" /\ StepsOf("limits")[4] = "PL4"
        /\ StepsOf("limits")[5] = "PP0" /\ StepsOf("limits")[6] = "PowerCtl"
    OBVIOUS
  <2> HIDE DEF StepsOf
  <2> QED BY <2>1, <2>2 DEF LimitRegs
<1>6. \A r \in Limit2Regs :
       \E j \in 1 .. Len(StepsOf("limits2")) : StepsOf("limits2")[j] = r
  <2>1. Len(StepsOf("limits2")) = 2 OBVIOUS
  <2>2. StepsOf("limits2")[1] = "MmioPL12" /\ StepsOf("limits2")[2] = "PSys"
    OBVIOUS
  <2> HIDE DEF StepsOf
  <2> QED BY <2>1, <2>2 DEF Limit2Regs
<1> QED BY <1>1, <1>2, <1>3, <1>4, <1>5, <1>6

-----------------------------------------------------------------------------
(* Type correctness.                                                       *)

(* Every step of the program keeps the types, and with them the bounds of  *)
(* todo, cpu and step (Platform.c, UnderVolter.c).                         *)
LEMMA TypeStep == PolicyInv /\ [Next]_vars => TypeOK'
<1> SUFFICES ASSUME PolicyInv, [Next]_vars PROVE TypeOK'
  OBVIOUS
<1> USE PlatformAssumption DEF PolicyInv, TypeOK, machine
<1>0. FirstCores \subseteq Cpus /\ \A s \in Stages : Targets(s) \subseteq Cpus
  BY DEF FirstCores, Targets
<1>1. CASE UNCHANGED vars
  BY <1>1 DEF vars
<1>2. CASE DetectPackages
  BY <1>2 DEF DetectPackages, Stages, CallStages, ProbeStages
<1>3. CASE DetectFails
  BY <1>3 DEF DetectFails, Stages, EndStages
<1>4. CASE BeginPolicy
  BY <1>4 DEF BeginPolicy, Stages, CallStages, ProgramStages
<1>5. CASE EmergencyExit
  BY <1>5 DEF EmergencyExit, Stages, EndStages
<1>6. ASSUME NEW c \in Cpus, Dispatch(c) PROVE TypeOK'
  BY <1>6 DEF Dispatch
<1>7. ASSUME NEW c \in Cpus, DispatchRefused(c) PROVE TypeOK'
  BY <1>7 DEF DispatchRefused, Stages, EndStages
<1>8. CASE ProgramRegister
  <2> DEFINE r == StepsOf(stage)[step]
  <2>1. r \in Registers
    BY <1>8, HandlerSteps DEF ProgramRegister
  <2>2. cpu \in Cpus /\ packageOf[cpu] \in PackageIds
    BY <1>8 DEF ProgramRegister, Running
  <2> HIDE DEF r
  <2>3. <<packageOf[cpu], r>> \in PackageIds \X Registers
    BY <2>1, <2>2
  <2>4. reached' \subseteq PackageIds \X Registers
    BY <1>8, <2>3 DEF ProgramRegister, r
  <2>5. lost' \subseteq PackageIds \X Registers
    BY <1>8, <2>3 DEF ProgramRegister, r
  <2> QED BY <1>8, <2>4, <2>5 DEF ProgramRegister
<1>9. CASE SealRegister
  <2> DEFINE r == StepsOf(stage)[step]
  <2>1. r \in Lockable
    BY <1>9, HandlerSteps DEF SealRegister
  <2>2. cpu \in Cpus /\ packageOf[cpu] \in PackageIds
    BY <1>9 DEF SealRegister, Running
  <2> HIDE DEF r
  <2>3. sealed' \in [PackageIds -> SUBSET Lockable]
    BY <1>9, <2>1, <2>2 DEF SealRegister, r
  <2> QED BY <1>9, <2>3 DEF SealRegister
<1>10. CASE HandlerReturn
  <2>1. stage \in CallStages /\ cpu \in Cpus
    BY <1>10 DEF LoopsInv, TableInv, HandlerReturn, Running
  <2>2. stage # "limits" => NextStage(stage) \in Stages
    BY <2>1 DEF NextStage, Stages, CallStages, ProgramStages, LockStages, ProbeStages, EndStages
  <2>3. stage' \in Stages
    BY <1>10, <2>1, <2>2 DEF HandlerReturn, Stages, CallStages, ProgramStages
  <2>4. todo' \subseteq Cpus
    BY <1>0, <1>10, <2>2 DEF HandlerReturn
  <2>5. vfDone' \subseteq Cpus
    BY <1>10, <2>1 DEF HandlerReturn
  <2> QED BY <1>10, <2>3, <2>4, <2>5 DEF HandlerReturn
<1>11. CASE HandlerError
  BY <1>11 DEF HandlerError, Stages, EndStages
<1>12. CASE Fault
  BY <1>12 DEF Fault, Running
<1>13. CASE ApTimeout
  BY <1>13 DEF ApTimeout, Stages, EndStages
<1>14. CASE Cleanup
  BY <1>14 DEF Cleanup, Stages
<1> QED BY <1>1, <1>2, <1>3, <1>4, <1>5, <1>6, <1>7, <1>8, <1>9, <1>10, <1>11,
           <1>12, <1>13, <1>14 DEF Next

-----------------------------------------------------------------------------
(* The inductive invariant.                                                *)

(* The initial states satisfy it: nothing is programmed or locked yet.     *)
LEMMA InitInv == Init => PolicyInv
<1> SUFFICES ASSUME Init PROVE PolicyInv
  OBVIOUS
<1> USE PlatformAssumption DEF Init
<1>1. TypeOK
  <2>1. bootSealed \in [PackageIds -> SUBSET Lockable]
    OBVIOUS
  <2> QED BY <2>1 DEF TypeOK, Stages
<1>2. TableInv
  BY DEF TableInv, CallStages, ProgramStages, LockStages, ProbeStages
<1>3. ProgressInv
  BY DEF ProgressInv, ProgramStages, LockStages
<1>4. SealInv
  BY DEF SealInv, LocksComeLast, OursSealed, NoLostWrite
<1>5. FinishInv
  BY DEF FinishInv, LockStages
<1> QED BY <1>1, <1>2, <1>3, <1>4, <1>5 DEF PolicyInv, LoopsInv

(* Steps that program nothing, lock nothing and leave the loops for good   *)
(* (DetectFails, EmergencyExit, DispatchRefused, HandlerError, ApTimeout,  *)
(* Cleanup) keep the invariant.                                            *)
LEMMA LeaveStep ==
  ASSUME PolicyInv, UNCHANGED <<machine, policy, sealed, vfDone, reached, lost>>,
         stage' \in {"failed", "cancelled", "exited"}, cpu' = NoCpu
  PROVE  LoopsInv'
<1> USE DEF PolicyInv, LoopsInv, machine
<1>1. TableInv'
  BY DEF TableInv, CallStages, ProgramStages, LockStages, ProbeStages
<1>2. ProgressInv'
  BY DEF ProgressInv, ProgramStages, LockStages, ReachedOn, Programs, VfRegs
<1>3. SealInv'
  BY DEF SealInv, LocksComeLast, OursSealed, AllProgrammed, NoLostWrite,
         Programs, Present, ProgramStages
<1> QED BY <1>1, <1>2, <1>3

(* DetectPackages and BeginPolicy start a loop over the table.             *)
LEMMA LoopStartStep ==
  PolicyInv /\ (DetectPackages \/ BeginPolicy) => LoopsInv'
<1> SUFFICES ASSUME PolicyInv, DetectPackages \/ BeginPolicy PROVE LoopsInv'
  OBVIOUS
<1> USE DEF PolicyInv, LoopsInv, machine
<1>1. /\ UNCHANGED <<bsp, enabled, packageOf, bootSealed, policy, sealed, vfDone, reached, lost>>
      /\ stage' \in {"probeCores", "vf"}
      /\ cpu' = NoCpu
      /\ sealed = bootSealed
  BY DEF DetectPackages, BeginPolicy, TableInv, SealInv, CallStages,
         ProgramStages, LockStages, ProbeStages
<1>2. /\ numCores' = NumProcessors
      /\ corePtrs' = [c \in Cpus |-> IF c \in enabled THEN packageOf[c] ELSE NoPackage]
  BY DEF DetectPackages, BeginPolicy, TableInv
<1>3. todo' = enabled
  <2>1. CASE DetectPackages
    BY <2>1 DEF DetectPackages
  <2>2. CASE BeginPolicy
    BY <1>2, <2>2, PlatformAssumption DEF BeginPolicy, TypeOK
  <2> QED BY <2>1, <2>2
<1>4. TableInv'
  <2>1. Targets(stage)' = enabled
    BY <1>1, <1>2, PlatformAssumption DEF Targets, TypeOK
  <2> QED BY <1>1, <1>2, <1>3, <2>1 DEF TableInv
<1>5. ProgressInv'
  BY <1>1, <1>3 DEF ProgressInv, ProgramStages, LockStages, ReachedOn, Programs, VfRegs
<1>6. SealInv'
  BY <1>1 DEF SealInv, LocksComeLast, OursSealed, NoLostWrite
<1> QED BY <1>4, <1>5, <1>6

(* RunOnPackageOrCore starts a handler at its first register.              *)
LEMMA DispatchStep ==
  ASSUME PolicyInv, NEW c \in Cpus, Dispatch(c)
  PROVE  LoopsInv'
<1> USE DEF PolicyInv, LoopsInv, Dispatch, machine
<1>1. FirstCores' = FirstCores /\ \A a, b \in Cpus : Before(a, b)' = Before(a, b)
  BY DEF FirstCores, IsFirstCore, Before
<1>2. TableInv'
  <2>1. Targets(stage)' = Targets(stage)
    BY DEF Targets, FirstCores, IsFirstCore
  <2>2. \A d \in todo : Before(c, d)'
    BY DEF Before, FirstCores, IsFirstCore
  <2> QED BY <2>1, <2>2 DEF TableInv
<1>3. ProgressInv'
  <2>1. ~ \E j \in 1 .. Len(StepsOf(stage)) : j < 1
    BY HandlerSteps DEF TypeOK
  <2>2. AllProgrammed' = AllProgrammed
    BY DEF AllProgrammed, Present, Programs
  <2>3. \A a \in Cpus, R \in SUBSET Registers : ReachedOn(a, R)' = ReachedOn(a, R)
    BY DEF ReachedOn, Programs
  <2>4. /\ vfDone \subseteq enabled
        /\ \A a \in vfDone : ReachedOn(a, VfRegs)'
    BY DEF ProgressInv, ReachedOn, Programs
  <2>5. stage \in {"limits", "limits2"} =>
          \A a \in FirstCores \ todo : ReachedOn(a, LimitRegs \cup Limit2Regs)'
    BY DEF ProgressInv, ReachedOn, Programs
  <2>6. stage = "limits2" =>
          \A a \in todo : (\A d \in todo : Before(a, d)') => ReachedOn(a, LimitRegs)'
    BY DEF ProgressInv, ReachedOn, Programs, Before, FirstCores, IsFirstCore
  <2> QED BY <1>1, <2>1, <2>2, <2>4, <2>5, <2>6 DEF ProgressInv
<1>4. SealInv'
  BY DEF SealInv, LocksComeLast, OursSealed, AllProgrammed, NoLostWrite,
         Programs, Present
<1> QED BY <1>2, <1>3, <1>4

(* A fault freezes a processor and changes nothing else.                   *)
LEMMA FaultStep ==
  ASSUME PolicyInv, Fault
  PROVE  LoopsInv'
BY DEF PolicyInv, LoopsInv, Fault, machine, TableInv, ProgressInv, SealInv,
       LocksComeLast, OursSealed, AllProgrammed, NoLostWrite, Programs,
       Present, ReachedOn, Before, FirstCores, IsFirstCore, Targets

(* A programming handler passes one register.                              *)
LEMMA ProgramStep ==
  ASSUME PolicyInv, ProgramRegister
  PROVE  LoopsInv'
<1> USE DEF PolicyInv, LoopsInv, machine
<1> DEFINE r == StepsOf(stage)[step]
           p == packageOf[cpu]
<1>1. /\ UNCHANGED <<bsp, enabled, packageOf, bootSealed, policy, sealed, vfDone,
                     stage, todo, cpu, corePtrs, numCores>>
      /\ step' = step + 1
      /\ stage \in ProgramStages
      /\ cpu \in Cpus
      /\ step \in 1 .. Len(StepsOf(stage))
  BY HandlerSteps DEF ProgramRegister, Running, TypeOK
<1>2. /\ reached \subseteq reached'
      /\ Programs(r) => <<p, r>> \in reached'
  BY DEF ProgramRegister
<1>3. \A x : Programs(x)' = Programs(x)
  BY <1>1 DEF Programs
<1>4. TableInv'
  BY <1>1 DEF TableInv, Targets, Before, FirstCores, IsFirstCore
<1>5. ProgressInv'
  <2> HIDE DEF r, p
  <2>1. \A c \in Cpus : \A R : ReachedOn(c, R) => ReachedOn(c, R)'
    BY <1>1, <1>2, <1>3 DEF ReachedOn
  <2>2. \A x : x = r => ReachedOn(cpu, {x})'
    BY <1>1, <1>2, <1>3 DEF ReachedOn, p
  <2>3. vfDone \subseteq Cpus /\ FirstCores \subseteq Cpus /\ todo \subseteq Cpus
    BY DEF TypeOK, FirstCores
  <2>4. FirstCores' = FirstCores
    BY <1>1 DEF FirstCores, IsFirstCore
  <2>5. \A c, d \in Cpus : Before(c, d)' = Before(c, d)
    BY <1>1, <2>4 DEF Before
  <2>6. /\ vfDone' \subseteq enabled'
        /\ \A c \in vfDone' : ReachedOn(c, VfRegs)'
        /\ stage' = "vf" => enabled' \ todo' \subseteq vfDone'
    BY <1>1, <2>1, <2>3 DEF ProgressInv
  <2>7. stage' \in {"limits", "limits2"} =>
          /\ vfDone' = enabled'
          /\ \A c \in FirstCores' \ todo' : ReachedOn(c, LimitRegs \cup Limit2Regs)'
    BY <1>1, <2>1, <2>3, <2>4 DEF ProgressInv
  <2>8. stage' = "limits2" =>
          \A c \in todo' : (\A d \in todo' : Before(c, d)') => ReachedOn(c, LimitRegs)'
    BY <1>1, <2>1, <2>3, <2>5 DEF ProgressInv
  <2>9. \A j \in 1 .. Len(StepsOf(stage)) :
          j < step' => ReachedOn(cpu, {StepsOf(stage)[j]})'
    <3> SUFFICES ASSUME NEW j \in 1 .. Len(StepsOf(stage)), j < step + 1
                 PROVE  ReachedOn(cpu, {StepsOf(stage)[j]})'
      BY <1>1
    <3>1. CASE j = step
      BY <1>1, <2>2, <3>1 DEF r
    <3>2. CASE j # step
      <4>1. j < step
        BY <1>1, <3>2, HandlerSteps DEF TypeOK
      <4>2. cpu # NoCpu
        BY DEF ProgramRegister, Running
      <4>3. ReachedOn(cpu, {StepsOf(stage)[j]})
        BY <1>1, <4>1, <4>2 DEF ProgressInv
      <4> QED BY <1>1, <2>1, <4>3
    <3> QED BY <3>1, <3>2
  <2>10. stage' \notin LockStages \cup {"reprobe", "done"}
    BY <1>1 DEF ProgramStages, LockStages
  <2> QED BY <1>1, <2>6, <2>7, <2>8, <2>9, <2>10 DEF ProgressInv
<1>6. SealInv'
  <2>1. sealed = bootSealed
    BY <1>1 DEF SealInv
  <2>2. lost' = lost
    BY <1>1, <2>1 DEF ProgramRegister
  <2> QED BY <1>1, <2>1, <2>2 DEF SealInv, LocksComeLast, OursSealed, NoLostWrite
<1> QED BY <1>4, <1>5, <1>6

(* A locking handler passes one register: everything has been programmed.  *)
LEMMA SealStep ==
  ASSUME PolicyInv, SealRegister
  PROVE  LoopsInv'
<1> USE DEF PolicyInv, LoopsInv, machine
<1>1. /\ UNCHANGED <<bsp, enabled, packageOf, bootSealed, policy, vfDone, reached,
                     lost, stage, todo, cpu, corePtrs, numCores>>
      /\ stage \in LockStages
      /\ cpu \in Cpus
  BY DEF SealRegister, Running, TypeOK
<1>2. AllProgrammed'
  BY <1>1 DEF ProgressInv, AllProgrammed, Present, Programs
<1>3. TableInv'
  BY <1>1 DEF TableInv, Targets, Before, FirstCores, IsFirstCore
<1>4. ProgressInv'
  BY <1>1, <1>2 DEF ProgressInv, ReachedOn, Programs, LockStages, ProgramStages
<1>5. \A q \in PackageIds : sealed[q] \subseteq sealed'[q]
  BY DEF SealRegister, TypeOK
<1>6. SealInv'
  BY <1>1, <1>2, <1>5 DEF SealInv, LocksComeLast, NoLostWrite, LockStages, ProgramStages
<1> QED BY <1>3, <1>4, <1>6

(* A handler that returns has passed every register of its stage.          *)
LEMMA ReturnedHandler ==
  ASSUME PolicyInv, HandlerReturn
  PROVE  /\ stage = "vf" => ReachedOn(cpu, VfRegs)
         /\ stage = "limits" => ReachedOn(cpu, LimitRegs)
         /\ stage = "limits2" => ReachedOn(cpu, Limit2Regs)
<1> USE DEF PolicyInv, LoopsInv
<1>1. cpu # NoCpu /\ stage \in Stages /\ step \in Nat /\ step > Len(StepsOf(stage))
  BY DEF HandlerReturn, Running, TypeOK
<1>2. stage \in ProgramStages =>
        \A j \in 1 .. Len(StepsOf(stage)) : ReachedOn(cpu, {StepsOf(stage)[j]})
  BY <1>1, HandlerSteps DEF ProgressInv
<1>3. \A R : (\A r \in R : ReachedOn(cpu, {r})) => ReachedOn(cpu, R)
  BY DEF ReachedOn
<1>4. CASE stage = "vf"
  <2>1. \A r \in VfRegs : ReachedOn(cpu, {r})
    BY <1>2, <1>4, HandlerSteps DEF ProgramStages
  <2> QED BY <1>3, <1>4, <2>1
<1>5. CASE stage = "limits"
  <2>1. \A r \in LimitRegs : ReachedOn(cpu, {r})
    BY <1>2, <1>5, HandlerSteps DEF ProgramStages
  <2> QED BY <1>3, <1>5, <2>1
<1>6. CASE stage = "limits2"
  <2>1. \A r \in Limit2Regs : ReachedOn(cpu, {r})
    BY <1>2, <1>6, HandlerSteps DEF ProgramStages
  <2> QED BY <1>3, <1>6, <2>1
<1> QED BY <1>4, <1>5, <1>6

(* When the limits loop has visited every package's first core, and the    *)
(* V/F loop every processor, the whole policy has been programmed.         *)
LEMMA LoopsCoverThePolicy ==
  ASSUME TypeOK, vfDone = enabled,
         \A c \in vfDone : ReachedOn(c, VfRegs),
         \A c \in FirstCores : ReachedOn(c, LimitRegs \cup Limit2Regs)
  PROVE  AllProgrammed
<1> SUFFICES ASSUME NEW c \in enabled, NEW r \in Registers, Programs(r)
             PROVE  <<packageOf[c], r>> \in reached
  BY DEF AllProgrammed, Present
<1>1. CASE r \in VfRegs
  BY <1>1 DEF ReachedOn
<1>2. CASE r \in LimitRegs \cup Limit2Regs
  <2>1. PICK f \in FirstCores : packageOf[f] = packageOf[c]
    BY FirstCoreExists
  <2> QED BY <1>2, <2>1 DEF ReachedOn
<1> QED BY <1>1, <1>2 DEF Registers

(* HandlerReturn: the loop goes on, or the next one begins.                *)
LEMMA ReturnStep ==
  ASSUME PolicyInv, HandlerReturn
  PROVE  LoopsInv'
<1> USE DEF PolicyInv, LoopsInv, machine
<1>1. /\ UNCHANGED <<bsp, enabled, packageOf, bootSealed, policy, sealed, reached,
                     lost, corePtrs, numCores>>
      /\ cpu' = NoCpu
      /\ cpu \in Cpus
      /\ stage \in CallStages
      /\ cpu \in todo
      /\ todo \subseteq Targets(stage)
      /\ \A d \in todo : Before(cpu, d)
      /\ vfDone' = IF stage = "vf" THEN vfDone \cup {cpu} ELSE vfDone
  BY DEF HandlerReturn, Running, TypeOK, TableInv
<1>2. Targets("vf") = enabled /\ Targets("probeCores") = enabled /\ Targets("coreLocks") = enabled
  BY <1>1, PlatformAssumption DEF Targets, TypeOK, TableInv
<1>3. /\ \A s : Targets(s)' = Targets(s)
      /\ FirstCores' = FirstCores
      /\ Present' = Present
      /\ \A x : Programs(x)' = Programs(x)
      /\ \A c, R : ReachedOn(c, R)' = ReachedOn(c, R)
  BY <1>1 DEF Targets, FirstCores, IsFirstCore, Present, Programs, ReachedOn
<1>4. stage' \in CallStages \cup {"ready", "done"} /\ (stage' \in CallStages => todo' \subseteq Targets(stage'))
  <2>1. CASE stage = "limits"
    BY <1>1, <2>1 DEF HandlerReturn, CallStages, ProgramStages, Targets
  <2>2. CASE stage # "limits" /\ todo = {cpu}
    <3>1. stage' = NextStage(stage) /\ todo' = Targets(NextStage(stage))
      BY <2>2 DEF HandlerReturn
    <3>2. NextStage(stage) \in CallStages \cup {"ready", "done"}
      BY <1>1, <2>2 DEF NextStage, CallStages, ProgramStages, LockStages, ProbeStages
    <3> QED BY <3>1, <3>2
  <2>3. CASE stage # "limits" /\ todo # {cpu}
    <3>1. todo' = todo \ {cpu} /\ stage' = IF stage = "limits2" THEN "limits" ELSE stage
      BY <1>1, <2>3 DEF HandlerReturn
    <3>2. Targets("limits") = Targets("limits2")
      BY DEF Targets, CallStages, ProgramStages
    <3> QED BY <1>1, <3>1, <3>2 DEF CallStages, ProgramStages
  <2> QED BY <2>1, <2>2, <2>3
<1>5. TableInv'
  <2>1. NoCpu = cpu' /\ (stage' \in CallStages \cup {"ready"} => stage \in CallStages)
    BY <1>1
  <2> QED BY <1>1, <1>3, <1>4, <2>1 DEF TableInv
<1>6. ProgressInv'
  <2>0. Targets("limits") = FirstCores /\ Targets("limits2") = FirstCores
    BY DEF Targets, CallStages, ProgramStages
  <2>1. CASE stage = "vf"
    <3>1. ReachedOn(cpu, VfRegs)
      BY <2>1, ReturnedHandler
    <3>2. vfDone' \subseteq enabled /\ \A c \in vfDone' : ReachedOn(c, VfRegs)
      BY <1>1, <1>2, <2>1, <3>1 DEF ProgressInv
    <3>3. CASE todo = {cpu}
      <4>1. stage' = "limits" /\ todo' = FirstCores
        BY <2>0, <2>1, <3>3 DEF HandlerReturn, NextStage
      <4>2. vfDone' = enabled
        BY <1>1, <1>2, <2>1, <3>2, <3>3 DEF ProgressInv
      <4> QED BY <1>1, <1>3, <3>2, <4>1, <4>2 DEF ProgressInv, LockStages
    <3>4. CASE todo # {cpu}
      <4>1. stage' = "vf" /\ todo' = todo \ {cpu}
        BY <1>1, <2>1, <3>4 DEF HandlerReturn
      <4> QED BY <1>1, <1>3, <2>1, <3>2, <4>1 DEF ProgressInv, LockStages
    <3> QED BY <3>3, <3>4
  <2>2. CASE stage = "limits"
    <3>1. stage' = "limits2" /\ todo' = todo /\ vfDone' = vfDone
      BY <1>1, <2>2 DEF HandlerReturn
    <3>2. ReachedOn(cpu, LimitRegs)
      BY <2>2, ReturnedHandler
    <3>3. \A c \in todo : (\A d \in todo : Before(c, d)') => c = cpu
      <4> SUFFICES ASSUME NEW c \in todo, \A d \in todo : Before(c, d)' PROVE c = cpu
        OBVIOUS
      <4>1. \A d \in todo : Before(c, d)' => Before(c, d)
        BY <1>1, <1>3, <2>2, <3>1 DEF Before
      <4>2. c \in FirstCores /\ cpu \in FirstCores
        BY <1>1, <2>0, <2>2
      <4>3. Before(c, cpu) /\ Before(cpu, c)
        BY <1>1, <4>1
      <4> QED BY <4>2, <4>3, BeforeUnique
    <3> QED BY <1>1, <1>3, <2>2, <3>1, <3>2, <3>3 DEF ProgressInv, LockStages
  <2>3. CASE stage = "limits2"
    <3>1. vfDone' = vfDone
      BY <1>1, <2>3
    <3>2. ReachedOn(cpu, LimitRegs \cup Limit2Regs)
      <4>1. ReachedOn(cpu, LimitRegs)
        BY <1>1, <2>3 DEF ProgressInv
      <4>2. ReachedOn(cpu, Limit2Regs)
        BY <2>3, ReturnedHandler
      <4> QED BY <4>1, <4>2 DEF ReachedOn
    <3>3. \A c \in FirstCores \ (todo \ {cpu}) : ReachedOn(c, LimitRegs \cup Limit2Regs)
      BY <2>3, <3>2 DEF ProgressInv
    <3>4. CASE todo = {cpu}
      <4>1. stage' = "coreLocks"
        BY <2>3, <3>4 DEF HandlerReturn, NextStage
      <4>2. AllProgrammed
        BY <2>3, <3>3, <3>4, LoopsCoverThePolicy DEF ProgressInv
      <4> QED BY <1>1, <1>3, <3>1, <4>1, <4>2 DEF ProgressInv, AllProgrammed, LockStages
    <3>5. CASE todo # {cpu}
      <4>1. stage' = "limits" /\ todo' = todo \ {cpu}
        BY <1>1, <2>3, <3>5 DEF HandlerReturn
      <4> QED BY <1>1, <1>3, <2>3, <3>1, <3>3, <4>1 DEF ProgressInv, LockStages
    <3> QED BY <3>4, <3>5
  <2>4. CASE stage \in LockStages \cup {"reprobe"}
    <3>1. stage' \in LockStages \cup {"reprobe", "done"} /\ vfDone' = vfDone
      BY <1>1, <2>4 DEF HandlerReturn, NextStage, LockStages
    <3>2. AllProgrammed'
      BY <1>1, <1>3, <2>4, <3>1 DEF ProgressInv, AllProgrammed
    <3> QED BY <1>1, <1>3, <3>1, <3>2 DEF ProgressInv, LockStages
  <2>5. CASE stage \in {"probeCores", "probePkgs"}
    <3>1. stage' \in {"probeCores", "probePkgs", "ready"} /\ vfDone' = vfDone
      BY <1>1, <2>5 DEF HandlerReturn, NextStage
    <3> QED BY <1>1, <1>3, <3>1 DEF ProgressInv, LockStages
  <2> QED BY <1>1, <2>1, <2>2, <2>3, <2>4, <2>5
          DEF CallStages, ProgramStages, ProbeStages
<1>7. SealInv'
  <2>1. AllProgrammed => AllProgrammed'
    <3> SUFFICES ASSUME AllProgrammed PROVE AllProgrammed'
      OBVIOUS
    <3>1. vfDone' = enabled
      BY <1>1, <1>2 DEF AllProgrammed
    <3> QED BY <1>1, <1>3, <3>1 DEF AllProgrammed
  <2>2. stage' \in {"ready", "probeCores", "probePkgs"} \cup ProgramStages =>
        stage \in {"probeCores", "probePkgs"} \cup ProgramStages
    BY <1>1 DEF HandlerReturn, NextStage, CallStages, ProgramStages, LockStages, ProbeStages
  <2>3. OursSealed' = OursSealed
    BY <1>1 DEF OursSealed
  <2>4. stage' # "start"
    BY <1>4 DEF CallStages, ProgramStages, LockStages, ProbeStages
  <2> QED BY <1>1, <2>1, <2>2, <2>3, <2>4 DEF SealInv, LocksComeLast, NoLostWrite
<1> QED BY <1>5, <1>6, <1>7

-----------------------------------------------------------------------------
(* The lock loops.                                                         *)

(* The registers of the lock handlers; MMIO is the only one of its stage.  *)
LEMMA LockSteps ==
  /\ \A r \in CoreLocks :
       \E j \in 1 .. Len(StepsOf("coreLocks")) : StepsOf("coreLocks")[j] = r
  /\ Len(StepsOf("pkgLocks")) = 1 /\ StepsOf("pkgLocks")[1] = "MmioPL12"
<1> USE DEF StepsOf, CoreLockSteps, PkgLockSteps
<1>1. Len(StepsOf("coreLocks")) = 7 OBVIOUS
<1>2. /\ StepsOf("coreLocks")[1] = "PL12" /\ StepsOf("coreLocks")[2] = "PL3"
      /\ StepsOf("coreLocks")[3] = "PL4" /\ StepsOf("coreLocks")[4] = "PP0"
      /\ StepsOf("coreLocks")[5] = "PSys" /\ StepsOf("coreLocks")[6] = "cTDP"
      /\ StepsOf("coreLocks")[7] = "Volt"
  OBVIOUS
<1>3. Len(StepsOf("pkgLocks")) = 1 /\ StepsOf("pkgLocks")[1] = "MmioPL12"
  OBVIOUS
<1> HIDE DEF StepsOf
<1> QED BY <1>1, <1>2, <1>3 DEF CoreLocks

(* A call that does not return leaves its processor frozen and the policy  *)
(* unfinished (RunOnPackageOrCore, HandleProbingFault).                    *)
LEMMA LeaveFinish ==
  ASSUME PolicyInv, [Next]_vars,
         \/ UNCHANGED vars \/ Fault \/ HandlerError \/ ApTimeout \/ Cleanup
         \/ DetectPackages \/ DetectFails \/ BeginPolicy \/ EmergencyExit
         \/ \E c \in Cpus : DispatchRefused(c)
  PROVE  FinishInv'
<1> USE DEF PolicyInv, LoopsInv, machine
<1>1. CASE UNCHANGED vars
  BY <1>1 DEF vars, FinishInv, SealedOn, Seals, FirstCores, IsFirstCore
<1>2. CASE Fault
  <2>1. frozen' = {cpu} /\ cpu' = cpu /\ cpu # NoCpu
    BY <1>2 DEF Fault, Running, FinishInv, TableInv, CallStages, ProgramStages,
                LockStages, ProbeStages
  <2>2. UNCHANGED <<enabled, packageOf, policy, sealed, stage, todo, step>>
    BY <1>2 DEF Fault
  <2> QED BY <2>1, <2>2 DEF FinishInv, SealedOn, Seals, FirstCores, IsFirstCore
<1>3. CASE HandlerError \/ ApTimeout \/ DetectFails \/ \E c \in Cpus : DispatchRefused(c)
  BY <1>3 DEF HandlerError, ApTimeout, DetectFails, DispatchRefused, FinishInv, LockStages
<1>4. CASE Cleanup
  BY <1>4 DEF Cleanup, FinishInv, LockStages
<1>5. CASE DetectPackages \/ BeginPolicy \/ EmergencyExit
  <2>1. cpu = NoCpu
    BY <1>5 DEF DetectPackages, BeginPolicy, EmergencyExit, TableInv,
                CallStages, ProgramStages, LockStages, ProbeStages
  <2>2. frozen' = {}
    BY <1>5, <2>1 DEF DetectPackages, BeginPolicy, EmergencyExit, FinishInv
  <2> QED BY <1>5, <2>2 DEF DetectPackages, BeginPolicy, EmergencyExit, FinishInv, LockStages
<1> QED BY <1>1, <1>2, <1>3, <1>4, <1>5

(* A handler starts: it has passed no register yet.                        *)
LEMMA DispatchFinish ==
  ASSUME PolicyInv, NEW c \in Cpus, Dispatch(c)
  PROVE  FinishInv'
<1> USE DEF PolicyInv, Dispatch, machine
<1>1. frozen' = {}
  BY DEF FinishInv, CallStages, ProgramStages, LockStages, ProbeStages
<1>2. ~ \E j \in 1 .. Len(StepsOf(stage)) : j < 1
  BY HandlerSteps DEF TypeOK
<1> QED BY <1>1, <1>2 DEF FinishInv, SealedOn, Seals, FirstCores, IsFirstCore

(* A programming handler does not lock.                                    *)
LEMMA ProgramFinish ==
  ASSUME PolicyInv, ProgramRegister
  PROVE  FinishInv'
BY DEF PolicyInv, ProgramRegister, FinishInv, ProgramStages, LockStages

(* A locking handler adds its register to what it has passed, and lock     *)
(* bits are never taken back.                                              *)
LEMMA SealFinish ==
  ASSUME PolicyInv, SealRegister
  PROVE  FinishInv'
<1> USE DEF PolicyInv, machine
<1> DEFINE r == StepsOf(stage)[step]
           p == packageOf[cpu]
<1>1. /\ UNCHANGED <<enabled, packageOf, policy, frozen, stage, todo, cpu>>
      /\ step' = step + 1
      /\ stage \in LockStages
      /\ cpu \in Cpus /\ p \in PackageIds
      /\ step \in 1 .. Len(StepsOf(stage))
  BY HandlerSteps DEF SealRegister, Running, TypeOK
<1>2. /\ \A q \in PackageIds : sealed[q] \subseteq sealed'[q]
      /\ Seals(r) => r \in sealed'[p]
  BY <1>1 DEF SealRegister, TypeOK
<1>3. \A x : Seals(x)' = Seals(x)
  BY <1>1 DEF Seals
<1> HIDE DEF r, p
<1>4. \A c \in Cpus : \A R : SealedOn(c, R) => SealedOn(c, R)'
  BY <1>1, <1>2, <1>3 DEF SealedOn, TypeOK
<1>5. FirstCores' = FirstCores /\ FirstCores \subseteq Cpus /\ enabled \subseteq Cpus
  BY <1>1 DEF FirstCores, IsFirstCore, TypeOK
<1>6. \A x : x = r => SealedOn(cpu, {x})'
  BY <1>1, <1>2, <1>3 DEF SealedOn, p
<1>7. \A j \in 1 .. Len(StepsOf(stage)) : j < step' => SealedOn(cpu, {StepsOf(stage)[j]})'
  <2> SUFFICES ASSUME NEW j \in 1 .. Len(StepsOf(stage)), j < step + 1
               PROVE  SealedOn(cpu, {StepsOf(stage)[j]})'
    BY <1>1
  <2>1. CASE j = step
    BY <1>1, <1>6, <2>1 DEF r
  <2>2. CASE j # step
    <3>1. j < step /\ cpu # NoCpu
      BY <1>1, <2>2, HandlerSteps DEF TypeOK, SealRegister, Running
    <3>2. SealedOn(cpu, {StepsOf(stage)[j]})
      BY <1>1, <3>1 DEF FinishInv
    <3> QED BY <1>1, <1>4, <3>2
  <2> QED BY <2>1, <2>2
<1>8. stage' = "coreLocks" => \A c \in enabled' \ todo' : SealedOn(c, CoreLocks)'
  BY <1>1, <1>4, <1>5 DEF FinishInv
<1>9. stage' = "pkgLocks" =>
        /\ \A c \in enabled' : SealedOn(c, CoreLocks)'
        /\ \A c \in FirstCores' \ todo' : SealedOn(c, {"MmioPL12"})'
  BY <1>1, <1>4, <1>5 DEF FinishInv
<1>10. stage' \notin {"reprobe", "done", "failed", "exited"} /\ frozen' \in {{}, {cpu}}
  BY <1>1 DEF LockStages, FinishInv
<1> QED BY <1>1, <1>7, <1>8, <1>9, <1>10 DEF FinishInv

(* A lock handler that returns has set every lock bit of its stage.        *)
LEMMA ReturnedLock ==
  ASSUME PolicyInv, HandlerReturn
  PROVE  /\ stage = "coreLocks" => SealedOn(cpu, CoreLocks)
         /\ stage = "pkgLocks" => SealedOn(cpu, {"MmioPL12"})
<1> USE DEF PolicyInv
<1>1. cpu # NoCpu /\ stage \in Stages /\ step \in Nat /\ step > Len(StepsOf(stage))
  BY DEF HandlerReturn, Running, TypeOK
<1>2. stage \in LockStages =>
        \A j \in 1 .. Len(StepsOf(stage)) : SealedOn(cpu, {StepsOf(stage)[j]})
  BY <1>1, HandlerSteps DEF FinishInv
<1>3. CASE stage = "coreLocks"
  <2>1. \A r \in CoreLocks : SealedOn(cpu, {r})
    BY <1>2, <1>3, LockSteps DEF LockStages
  <2> QED BY <1>3, <2>1 DEF SealedOn
<1>4. CASE stage = "pkgLocks"
  <2>1. 1 \in 1 .. Len(StepsOf(stage)) /\ StepsOf(stage)[1] = "MmioPL12"
    BY <1>4, LockSteps
  <2>2. SealedOn(cpu, {StepsOf(stage)[1]})
    BY <1>2, <1>4, <2>1 DEF LockStages
  <2> QED BY <1>4, <2>1, <2>2
<1> QED BY <1>3, <1>4

(* HandlerReturn: the loop goes on, or the next one begins.                *)
LEMMA ReturnFinish ==
  ASSUME PolicyInv, HandlerReturn
  PROVE  FinishInv'
<1> USE DEF PolicyInv, LoopsInv, machine
<1>1. /\ UNCHANGED <<enabled, packageOf, policy, sealed, frozen>>
      /\ cpu' = NoCpu /\ cpu # NoCpu /\ cpu \notin frozen
      /\ stage \in CallStages /\ cpu \in todo
      /\ corePtrs = [c \in Cpus |-> IF c \in enabled THEN packageOf[c] ELSE NoPackage]
  BY DEF HandlerReturn, Running, TableInv
<1>2. frozen' = {}
  BY <1>1 DEF FinishInv, CallStages, ProgramStages, LockStages, ProbeStages
<1>3. Targets("coreLocks") = enabled /\ Targets("pkgLocks") = FirstCores
  BY <1>1, PlatformAssumption DEF Targets, TypeOK, CallStages, LockStages
<1>4. FirstCores' = FirstCores /\ \A c, R : SealedOn(c, R)' = SealedOn(c, R)
  BY <1>1 DEF FirstCores, IsFirstCore, SealedOn, Seals
<1>5. CASE stage \in {"probeCores", "probePkgs", "vf", "limits"}
  <2>1. stage' \notin LockStages \cup {"reprobe", "done"}
    BY <1>5 DEF HandlerReturn, NextStage, LockStages
  <2> QED BY <1>2, <2>1 DEF FinishInv, LockStages
<1>6. CASE stage = "limits2"
  <2>1. stage' \in {"limits", "coreLocks"} /\ (stage' = "coreLocks" => todo' = enabled)
    BY <1>3, <1>6 DEF HandlerReturn, NextStage
  <2> QED BY <1>1, <1>2, <2>1 DEF FinishInv, LockStages
<1>7. CASE stage = "coreLocks"
  <2>1. \A c \in enabled \ (todo \ {cpu}) : SealedOn(c, CoreLocks)
    BY <1>7, ReturnedLock DEF FinishInv
  <2>2. CASE todo = {cpu}
    <3>1. stage' = "pkgLocks" /\ todo' = FirstCores
      BY <1>3, <1>7, <2>2 DEF HandlerReturn, NextStage
    <3> QED BY <1>1, <1>2, <1>4, <2>1, <2>2, <3>1 DEF FinishInv
  <2>3. CASE todo # {cpu}
    <3>1. stage' = "coreLocks" /\ todo' = todo \ {cpu}
      BY <1>1, <1>7, <2>3 DEF HandlerReturn
    <3> QED BY <1>1, <1>2, <1>4, <2>1, <3>1 DEF FinishInv
  <2> QED BY <2>2, <2>3
<1>8. CASE stage = "pkgLocks"
  <2>1. /\ \A c \in enabled : SealedOn(c, CoreLocks)
        /\ \A c \in FirstCores \ (todo \ {cpu}) : SealedOn(c, {"MmioPL12"})
    BY <1>8, ReturnedLock DEF FinishInv
  <2>2. CASE todo = {cpu}
    <3>1. stage' = "reprobe"
      BY <1>8, <2>2 DEF HandlerReturn, NextStage
    <3> QED BY <1>1, <1>2, <1>4, <2>1, <2>2, <3>1 DEF FinishInv, LockStages
  <2>3. CASE todo # {cpu}
    <3>1. stage' = "pkgLocks" /\ todo' = todo \ {cpu}
      BY <1>1, <1>8, <2>3 DEF HandlerReturn
    <3> QED BY <1>1, <1>2, <1>4, <2>1, <3>1 DEF FinishInv
  <2> QED BY <2>2, <2>3
<1>9. CASE stage = "reprobe"
  <2>1. stage' \in {"reprobe", "done"}
    BY <1>9 DEF HandlerReturn, NextStage
  <2> QED BY <1>1, <1>2, <1>4, <1>9, <2>1 DEF FinishInv, LockStages
<1> QED BY <1>1, <1>5, <1>6, <1>7, <1>8, <1>9
        DEF CallStages, ProgramStages, LockStages, ProbeStages

(* Every step keeps what the lock loops have left behind.                  *)
LEMMA FinishStep == PolicyInv /\ [Next]_vars => FinishInv'
BY LeaveFinish, DispatchFinish, ProgramFinish, SealFinish, ReturnFinish DEF Next

-----------------------------------------------------------------------------
(* The theorems.                                                           *)

(* Every step keeps the inductive invariant, one lemma per action.         *)
LEMMA InvStep == PolicyInv /\ [Next]_vars => PolicyInv'
<1> SUFFICES ASSUME PolicyInv, [Next]_vars PROVE LoopsInv'
  BY TypeStep, FinishStep DEF PolicyInv
<1>1. CASE UNCHANGED vars
  BY <1>1 DEF vars, machine, PolicyInv, LoopsInv, TableInv, ProgressInv, SealInv,
       LocksComeLast, OursSealed, AllProgrammed, NoLostWrite, Programs,
       Present, ReachedOn, Before, FirstCores, IsFirstCore, Targets
<1>2. CASE DetectPackages \/ BeginPolicy
  BY <1>2, LoopStartStep
<1>3. CASE DetectFails \/ EmergencyExit \/ Cleanup
  <2>1. cpu = NoCpu
    BY <1>3 DEF PolicyInv, LoopsInv, TableInv, DetectFails, EmergencyExit, Cleanup,
       CallStages, ProgramStages, LockStages, ProbeStages, EndStages
  <2> QED BY <1>3, <2>1, LeaveStep DEF DetectFails, EmergencyExit, Cleanup
<1>4. ASSUME NEW c \in Cpus, Dispatch(c) PROVE LoopsInv'
  BY <1>4, DispatchStep
<1>5. ASSUME NEW c \in Cpus, DispatchRefused(c) PROVE LoopsInv'
  BY <1>5, LeaveStep DEF DispatchRefused
<1>6. CASE ProgramRegister
  BY <1>6, ProgramStep
<1>7. CASE SealRegister
  BY <1>7, SealStep
<1>8. CASE HandlerReturn
  BY <1>8, ReturnStep
<1>9. CASE HandlerError \/ ApTimeout
  BY <1>9, LeaveStep DEF HandlerError, ApTimeout
<1>10. CASE Fault
  BY <1>10, FaultStep
<1> QED BY <1>1, <1>2, <1>3, <1>4, <1>5, <1>6, <1>7, <1>8, <1>9, <1>10 DEF Next

(* The invariant holds in every state of discovery and ApplyPolicy.        *)
THEOREM PolicyInvariant == Spec => []PolicyInv
BY InitInv, InvStep, PTL DEF Spec

(* No lock bit is set by ApplyPolicy before every enabled processor and    *)
(* package has taken the whole policy.                                     *)
THEOREM LocksAfterProgramming == Spec => []LocksComeLast
<1>1. PolicyInv => LocksComeLast
  BY DEF PolicyInv, LoopsInv, SealInv
<1> QED BY <1>1, PolicyInvariant, PTL

(* No programming write of ApplyPolicy is lost to its own lock bits.       *)
THEOREM NothingLost == Spec => []NoLostWrite
<1>1. PolicyInv => NoLostWrite
  BY DEF PolicyInv, LoopsInv, SealInv
<1> QED BY <1>1, PolicyInvariant, PTL

(* When ApplyPolicy returns EFI_SUCCESS, every processor and package has   *)
(* taken the whole policy, every lock asked for is set, and no processor   *)
(* froze on the way.                                                       *)
THEOREM SuccessMeansAll == Spec => []SuccessIsComplete
<1>1. PolicyInv => SuccessIsComplete
  <2> SUFFICES ASSUME PolicyInv, stage = "done"
               PROVE  /\ AllProgrammed
                      /\ \A p \in Present, r \in Registers : Seals(r) => r \in sealed[p]
                      /\ frozen = {}
    BY DEF SuccessIsComplete
  <2> USE DEF PolicyInv, LoopsInv
  <2>1. AllProgrammed
    BY DEF ProgressInv
  <2>2. frozen = {}
    BY DEF FinishInv, TableInv, CallStages, ProgramStages, LockStages, ProbeStages
  <2>3. ASSUME NEW c \in enabled, NEW r \in Registers, Seals(r)
        PROVE  r \in sealed[packageOf[c]]
    <3>1. r \in Lockable
      BY <2>3, PlatformAssumption DEF Seals, TypeOK
    <3>2. CASE r \in CoreLocks
      BY <2>3, <3>2 DEF FinishInv, SealedOn
    <3>3. CASE r = "MmioPL12"
      <4>1. PICK f \in FirstCores : packageOf[f] = packageOf[c]
        BY FirstCoreExists
      <4>2. SealedOn(f, {"MmioPL12"})
        BY DEF FinishInv
      <4> QED BY <2>3, <3>3, <4>1, <4>2 DEF SealedOn
    <3> QED BY <3>1, <3>2, <3>3 DEF Lockable
  <2> QED BY <2>1, <2>2, <2>3 DEF Present
<1> QED BY <1>1, PolicyInvariant, PTL

(* Every handler runs on a processor whose GetCpuDataBlock record exists   *)
(* and names the package the processor belongs to.                         *)
THEOREM HandlersHaveRecords == Spec => []HandlerHasItsRecord
<1>1. PolicyInv => HandlerHasItsRecord
  <2> SUFFICES ASSUME TypeOK, LoopsInv, cpu # NoCpu
               PROVE  cpu < numCores /\ corePtrs[cpu] = packageOf[cpu]
    BY DEF PolicyInv, HandlerHasItsRecord
  <2>1. cpu \in todo /\ cpu \in Cpus /\ stage \in CallStages /\ todo \subseteq Targets(stage)
    BY DEF TypeOK, LoopsInv, TableInv
  <2>2. /\ numCores = NumProcessors
        /\ corePtrs = [c \in Cpus |-> IF c \in enabled THEN packageOf[c] ELSE NoPackage]
    BY <2>1 DEF LoopsInv, TableInv
  <2>3. cpu \in enabled
    BY <2>1, <2>2, PlatformAssumption DEF Targets, FirstCores, TypeOK
  <2>4. cpu < numCores
    BY <2>1, <2>2, PlatformAssumption DEF Cpus
  <2> QED BY <2>1, <2>2, <2>3, <2>4
<1> QED BY <1>1, PolicyInvariant, PTL

-----------------------------------------------------------------------------
(* ApplyPolicy implements PolicyBarrier.                                   *)

Wanted == {i \in Present \X Registers : Programs(i[2])}

(* Only what the policy asks for, on packages that exist, is programmed.   *)
OnlyWanted == reached \subseteq Wanted

LEMMA RunningIsEnabled ==
  ASSUME PolicyInv, cpu # NoCpu
  PROVE  cpu \in enabled /\ cpu \in Cpus /\ packageOf[cpu] \in PackageIds
<1>1. /\ cpu \in todo /\ cpu \in Cpus /\ stage \in CallStages
      /\ todo \subseteq Targets(stage)
      /\ corePtrs = [c \in Cpus |-> IF c \in enabled THEN packageOf[c] ELSE NoPackage]
  BY DEF PolicyInv, TypeOK, LoopsInv, TableInv
<1>2. cpu \in enabled
  BY <1>1, PlatformAssumption DEF Targets, FirstCores
<1> QED BY <1>1, <1>2 DEF PolicyInv, TypeOK

LEMMA OnlyWantedStep ==
  ASSUME PolicyInv, OnlyWanted, [Next]_vars
  PROVE  OnlyWanted'
<1>1. UNCHANGED <<enabled, packageOf, policy>>
  BY DEF Next, vars, machine, DetectPackages, DetectFails, BeginPolicy, EmergencyExit,
         Dispatch, DispatchRefused, ProgramRegister, SealRegister, HandlerReturn,
         HandlerError, Fault, ApTimeout, Cleanup
<1>2. Wanted' = Wanted
  BY <1>1 DEF Wanted, Present, Programs
<1>3. CASE ProgramRegister
  <2> DEFINE r == StepsOf(stage)[step]
             i == <<packageOf[cpu], r>>
  <2>1. reached' = IF Programs(r) THEN reached \cup {i} ELSE reached
    BY <1>3 DEF ProgramRegister
  <2>2. Programs(r) => i \in Wanted
    <3>1. packageOf[cpu] \in Present
      BY <1>3, RunningIsEnabled DEF ProgramRegister, Running, Present
    <3>2. r \in Registers
      BY <1>3, HandlerSteps DEF ProgramRegister, PolicyInv, TypeOK, Registers
    <3> QED BY <3>1, <3>2 DEF Wanted
  <2> QED BY <1>2, <2>1, <2>2 DEF OnlyWanted
<1>4. CASE ~ProgramRegister
  <2>1. reached' = reached
    BY <1>4 DEF Next, vars, DetectPackages, DetectFails, BeginPolicy, EmergencyExit,
         Dispatch, DispatchRefused, SealRegister, HandlerReturn,
         HandlerError, Fault, ApTimeout, Cleanup
  <2> QED BY <1>2, <2>1 DEF OnlyWanted
<1> QED BY <1>3, <1>4

(* Every step of the program is a step of PolicyBarrier or a stutter.      *)
LEMMA BarrierStep ==
  ASSUME PolicyInv, OnlyWanted, [Next]_vars
  PROVE  [Barrier!Next]_(Barrier!vars)
<1> USE DEF PolicyInv, LoopsInv, machine, Barrier!vars
<1> DEFINE w == {i \in Present \X Registers : Programs(i[2])}
           l == {i \in PackageIds \X Registers : i[2] \in sealed[i[1]] \ bootSealed[i[1]]}
<1>1. UNCHANGED <<enabled, packageOf, bootSealed, policy>>
  BY DEF Next, vars, DetectPackages, DetectFails, BeginPolicy, EmergencyExit,
         Dispatch, DispatchRefused, ProgramRegister, SealRegister, HandlerReturn,
         HandlerError, Fault, ApTimeout, Cleanup
<1>2. w' = w
  BY <1>1 DEF Present, Programs
<1>3. CASE ProgramRegister
  <2> DEFINE r == StepsOf(stage)[step]
             i == <<packageOf[cpu], r>>
  <2>1. reached' = (IF Programs(r) THEN reached \cup {i} ELSE reached)
        /\ sealed' = sealed /\ stage \in ProgramStages
    BY <1>3 DEF ProgramRegister
  <2>2. Programs(r) => i \in w /\ i \in PackageIds \X Registers
    <3>1. packageOf[cpu] \in Present /\ packageOf[cpu] \in PackageIds
      BY <1>3, RunningIsEnabled DEF ProgramRegister, Running, Present
    <3>2. r \in Registers
      BY <1>3, HandlerSteps DEF ProgramRegister, TypeOK, Registers
    <3> QED BY <3>1, <3>2
  <2>3. l = {} /\ l' = l
    BY <1>1, <2>1 DEF SealInv
  <2>4. CASE Programs(r)
    <3> HIDE DEF i, w, l, r
    <3>1. i \in w /\ i \in PackageIds \X Registers /\ reached' = reached \cup {i}
      BY <2>1, <2>2, <2>4
    <3> USE DEF w, l
    <3>2. Barrier!Program(i)
      BY <1>2, <2>3, <3>1 DEF Barrier!Program
    <3> HIDE DEF Barrier!vars
    <3>3. Barrier!Next
      BY <3>1, <3>2, Zenon DEF Barrier!Next
    <3> QED BY <3>3
  <2>5. CASE ~Programs(r)
    BY <1>2, <2>1, <2>3, <2>5
  <2> QED BY <2>4, <2>5
<1>4. CASE SealRegister
  <2> DEFINE r == StepsOf(stage)[step]
             p == packageOf[cpu]
  <2>1. /\ sealed' = IF Seals(r) THEN [sealed EXCEPT ![p] = @ \cup {r}] ELSE sealed
        /\ reached' = reached /\ stage \in LockStages
        /\ p \in PackageIds
        /\ r \in Registers
    <3>1. r \in Lockable
      BY <1>4, HandlerSteps DEF SealRegister, TypeOK
    <3> QED BY <1>4, <3>1 DEF SealRegister, Running, TypeOK, Registers, Lockable,
               CoreLocks, VfRegs, LimitRegs, Limit2Regs
  <2>2. w = reached
    <3>1. w \subseteq reached
      BY <2>1 DEF ProgressInv, AllProgrammed
    <3> QED BY <3>1 DEF OnlyWanted, Wanted
  <2>3. CASE Seals(r) /\ r \notin bootSealed[p]
    <3> HIDE DEF r, p
    <3>1. PICK i \in PackageIds \X Registers : i = <<p, r>>
      BY <2>1
    <3>2. sealed' = [sealed EXCEPT ![p] = sealed[p] \cup {r}]
      BY <2>1, <2>3
    <3>3. l' = l \cup {i}
      <4>1. \A q \in PackageIds : sealed'[q] = IF q = p THEN sealed[q] \cup {r} ELSE sealed[q]
        BY <3>2 DEF TypeOK
      <4>2. ASSUME NEW x \in PackageIds \X Registers PROVE x \in l' <=> x \in l \/ x = i
        <5>1. PICK q \in PackageIds, t \in Registers : x = <<q, t>>
          OBVIOUS
        <5>2. /\ x \in l' <=> t \in sealed'[q] \ bootSealed[q]
              /\ x \in l <=> t \in sealed[q] \ bootSealed[q]
          BY <1>1, <5>1
        <5>3. x = i <=> q = p /\ t = r
          BY <3>1, <5>1
        <5> QED BY <2>3, <4>1, <5>2, <5>3
      <4> QED BY <3>1, <4>2
    <3>4. Barrier!Lock(i)
      BY <1>2, <2>1, <2>2, <3>1, <3>3 DEF Barrier!Lock
    <3> HIDE DEF Barrier!vars
    <3>5. Barrier!Next
      BY <3>1, <3>4, Zenon DEF Barrier!Next
    <3> QED BY <3>5
  <2>4. CASE ~(Seals(r) /\ r \notin bootSealed[p])
    <3> HIDE DEF r, p
    <3>1. \A q \in PackageIds : sealed'[q] \ bootSealed[q] = sealed[q] \ bootSealed[q]
      BY <2>1, <2>4 DEF TypeOK
    <3>2. l' = l
      BY <1>1, <3>1
    <3> QED BY <1>2, <2>1, <3>2
  <2> QED BY <2>3, <2>4
<1>5. CASE ~ProgramRegister /\ ~SealRegister
  <2>1. reached' = reached /\ sealed' = sealed
    BY <1>5 DEF Next, vars, DetectPackages, DetectFails, BeginPolicy, EmergencyExit,
         Dispatch, DispatchRefused, HandlerReturn, HandlerError, Fault, ApTimeout, Cleanup
  <2> QED BY <1>1, <1>2, <2>1
<1> QED BY <1>3, <1>4, <1>5

(* ApplyPolicy implements PolicyBarrier: whatever fails, it programs items *)
(* one by one and starts to lock when every wanted item is programmed.     *)
THEOREM PolicyImplementsBarrier == Spec => BarrierSpec
<1>1. Init => Barrier!Init /\ OnlyWanted
  BY DEF Init, Barrier!Init, OnlyWanted, Wanted, Present, Programs
<1>2. PolicyInv /\ OnlyWanted /\ [Next]_vars => OnlyWanted' /\ [Barrier!Next]_(Barrier!vars)
  BY OnlyWantedStep, BarrierStep
<1>3. Spec => []PolicyInv
  BY PolicyInvariant, PTL DEF PolicyInv
<1> QED BY <1>1, <1>2, <1>3, PTL DEF Spec, BarrierSpec, Barrier!Spec

=============================================================================
