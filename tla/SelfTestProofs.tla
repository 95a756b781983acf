--------------------------- MODULE SelfTestProofs ---------------------------
(***************************************************************************)
(* The self test for any number of processors, runs and glitches: the one  *)
(* error counter that all kernels add to loses nothing, and the report is  *)
(* right and comes last.                                                   *)
(***************************************************************************)
EXTENDS SelfTest, TLAPS, FiniteSetTheorems

-----------------------------------------------------------------------------
(* There are finitely many comparisons.                                    *)
LEMMA ComparisonsAreFinite ==
  ASSUME TypeOK
  PROVE  IsFiniteSet(mismatches)
<1>1. IsFiniteSet(Cpus)
  BY SelfTestAssumption, FS_AddElement DEF Cpus
<1>2. IsFiniteSet(1 .. MaxRuns)
  BY SelfTestAssumption, FS_Interval
<1>3. IsFiniteSet(Cpus \X (1 .. MaxRuns))
  BY <1>1, <1>2, FS_Product
<1> QED BY <1>3, FS_Subset DEF TypeOK

(* The boot processor and the APs are processors.                          *)
LEMMA BspIsCpu == Bsp \in Cpus /\ Aps \subseteq Cpus
BY DEF Cpus

-----------------------------------------------------------------------------
(* Initially nothing runs, and nothing has been counted.                   *)
LEMMA InitInv == Init => SelfTestInv
<1> SUFFICES ASSUME Init PROVE SelfTestInv
  OBVIOUS
<1> USE SelfTestAssumption DEF Init
<1>1. TypeOK
  <2>1. event \in BOOLEAN
    OBVIOUS
  <2>2. rdx \in [Cpus -> 0 .. MaxRuns + 1]
    OBVIOUS
  <2>3. pc \in [Cpus -> Pcs] /\ gs \in [Cpus -> {"firmware", "core"}]
    BY DEF Pcs
  <2> QED BY <2>1, <2>2, <2>3 DEF TypeOK, Stages
<1>2. FirmwareStateRestored
  BY DEF FirmwareStateRestored
<1>3. StageInv
  BY DEF StageInv, Cpus
<1>4. CountInv
  <2>1. Pending = {}
    BY DEF Pending
  <2>2. Cardinality(mismatches \ Pending) = 0
    BY FS_EmptySet
  <2> QED BY <2>1, <2>2 DEF CountInv
<1>5. GlitchInv
  BY DEF GlitchInv
<1> QED BY <1>1, <1>2, <1>3, <1>4, <1>5 DEF SelfTestInv

-----------------------------------------------------------------------------
(* Every step keeps the types.                                             *)
LEMMA TypeStep == SelfTestInv /\ [Next]_vars => TypeOK'
<1> SUFFICES ASSUME SelfTestInv, [Next]_vars PROVE TypeOK'
  OBVIOUS
<1> USE SelfTestAssumption, BspIsCpu DEF SelfTestInv, TypeOK, kernel
<1>1. CASE UNCHANGED vars
  BY <1>1 DEF vars
<1>2. CASE CreateEvent
  BY <1>2 DEF CreateEvent, Stages
<1>3. CASE StartupAllAPs
  BY <1>3 DEF StartupAllAPs, Stages, Pcs
<1>4. CASE OwnRun
  BY <1>4 DEF OwnRun, Enter, Stages, Pcs
<1>5. CASE WaitForAps
  BY <1>5 DEF WaitForAps, Stages
<1>6. CASE Report
  BY <1>6 DEF Report, Stages
<1>7. ASSUME NEW c \in Cpus, Ignite(c) PROVE TypeOK'
  BY <1>7 DEF Ignite, Enter, Pcs
<1>8. ASSUME NEW c \in Cpus, InnerLoop(c) PROVE TypeOK'
  <2>1. rdx[c] \in 0 .. MaxRuns
    BY <1>8 DEF InnerLoop, CountInv
  <2>2. rdx' \in [Cpus -> 0 .. MaxRuns + 1]
    BY <1>8, <2>1 DEF InnerLoop
  <2>3. pc' \in [Cpus -> Pcs]
    BY <1>8 DEF InnerLoop, Pcs
  <2>4. split' \subseteq Cpus /\ glitched' \subseteq Cpus
    BY <1>8 DEF InnerLoop
  <2> QED BY <1>8, <2>2, <2>3, <2>4 DEF InnerLoop
<1>9. ASSUME NEW c \in Cpus, Compare(c) PROVE TypeOK'
  <2>1. rdx[c] \in 1 .. MaxRuns
    BY <1>9 DEF Compare, CountInv
  <2> QED BY <1>9, <2>1 DEF Compare, Pcs
<1>10. ASSUME NEW c \in Cpus, CountError(c) PROVE TypeOK'
  BY <1>10 DEF CountError, Pcs
<1>11. ASSUME NEW c \in Cpus, Restore(c) PROVE TypeOK'
  BY <1>11 DEF Restore, Pcs
<1> QED BY <1>1, <1>2, <1>3, <1>4, <1>5, <1>6, <1>7, <1>8, <1>9, <1>10, <1>11
        DEF Next, Boot, OnCpu

(* GS and the event are given back by every step that gives a processor    *)
(* back (ProcessorIgnite, RunOnAllProcessors).                             *)
LEMMA FirmwareStep == SelfTestInv /\ [Next]_vars => FirmwareStateRestored'
<1> SUFFICES ASSUME SelfTestInv, [Next]_vars PROVE FirmwareStateRestored'
  OBVIOUS
<1> USE SelfTestAssumption, BspIsCpu DEF SelfTestInv, TypeOK, kernel, FirmwareStateRestored
<1>1. CASE UNCHANGED vars
  BY <1>1 DEF vars
<1>2. CASE CreateEvent
  BY <1>2 DEF CreateEvent, StageInv
<1>3. CASE StartupAllAPs
  BY <1>3 DEF StartupAllAPs
<1>4. CASE OwnRun
  BY <1>4 DEF OwnRun, Enter
<1>5. CASE WaitForAps
  BY <1>5 DEF WaitForAps
<1>6. CASE Report
  BY <1>6 DEF Report
<1>7. ASSUME NEW c \in Cpus, Ignite(c) PROVE FirmwareStateRestored'
  BY <1>7 DEF Ignite, Enter
<1>8. ASSUME NEW c \in Cpus, InnerLoop(c) PROVE FirmwareStateRestored'
  BY <1>8 DEF InnerLoop
<1>9. ASSUME NEW c \in Cpus, Compare(c) PROVE FirmwareStateRestored'
  BY <1>9 DEF Compare
<1>10. ASSUME NEW c \in Cpus, CountError(c) PROVE FirmwareStateRestored'
  BY <1>10 DEF CountError
<1>11. ASSUME NEW c \in Cpus, Restore(c) PROVE FirmwareStateRestored'
  BY <1>11 DEF Restore
<1> QED BY <1>1, <1>2, <1>3, <1>4, <1>5, <1>6, <1>7, <1>8, <1>9, <1>10, <1>11
        DEF Next, Boot, OnCpu

(* A step of one kernel moves only that kernel, and only while the boot    *)
(* processor is between the start of the APs and the report.               *)
LEMMA KernelMoves ==
  ASSUME SelfTestInv, NEW c \in Cpus, OnCpu(c)
  PROVE  /\ UNCHANGED <<enabled, stage, event, printed>>
         /\ stage \in {"own", "wait"}
         /\ c = Bsp => stage = "wait"
         /\ c \in enabled \cup {Bsp}
         /\ pc[c] \notin {"idle", "done"}
         /\ \A d \in Cpus \ {c} : pc'[d] = pc[d] /\ rdx'[d] = rdx[d]
         /\ pc'[c] \in Pcs \ {"idle", "ignite"}
<1> USE DEF SelfTestInv
<1>1. /\ pc[c] \notin {"idle", "done"}
      /\ UNCHANGED <<enabled, stage, event, printed>>
  BY DEF OnCpu, Ignite, Enter, InnerLoop, Compare, CountError, Restore
<1>2. \A d \in Cpus \ {c} : pc'[d] = pc[d] /\ rdx'[d] = rdx[d]
  BY DEF OnCpu, Ignite, Enter, InnerLoop, Compare, CountError, Restore, TypeOK, kernel
<1>3. pc'[c] \in Pcs \ {"idle", "ignite"}
  BY DEF OnCpu, Ignite, Enter, InnerLoop, Compare, CountError, Restore, TypeOK, Pcs
<1>4. stage \in {"own", "wait"} /\ (c = Bsp => stage = "wait") /\ c \in enabled \cup {Bsp}
  BY <1>1 DEF StageInv, TypeOK, Stages, Cpus
<1> QED BY <1>1, <1>2, <1>3, <1>4

(* Who is where.                                                           *)
LEMMA StageStep == SelfTestInv /\ [Next]_vars => StageInv'
<1> SUFFICES ASSUME SelfTestInv, [Next]_vars PROVE StageInv'
  OBVIOUS
<1> USE SelfTestAssumption, BspIsCpu DEF SelfTestInv, kernel
<1>1. CASE UNCHANGED vars
  BY <1>1 DEF vars, StageInv
<1>2. CASE CreateEvent
  BY <1>2 DEF CreateEvent, StageInv
<1>3. CASE StartupAllAPs
  BY <1>3 DEF StartupAllAPs, StageInv, TypeOK
<1>4. CASE OwnRun
  BY <1>4 DEF OwnRun, Enter, StageInv, TypeOK
<1>5. CASE WaitForAps
  BY <1>5 DEF WaitForAps, StageInv, Cpus
<1>6. CASE Report
  BY <1>6 DEF Report, StageInv
<1>7. ASSUME NEW c \in Cpus, OnCpu(c) PROVE StageInv'
  BY <1>7, KernelMoves DEF StageInv
<1> QED BY <1>1, <1>2, <1>3, <1>4, <1>5, <1>6, <1>7 DEF Next, Boot

-----------------------------------------------------------------------------
(* The counter.  A kernel's own part of CountInv.                          *)
Counted(c) ==
  /\ pc[c] \in {"inner", "compare", "count"} => rdx[c] <= MaxRuns
  /\ pc[c] \in {"compare", "count"} => rdx[c] > 0
  /\ \A n \in 1 .. MaxRuns :
       <<c, n>> \in mismatches =>
         /\ pc[c] \notin {"idle", "ignite"} /\ n <= rdx[c]
         /\ pc[c] = "compare" => n < rdx[c]

(* A step that does not touch the counting.                                *)
LEMMA CountStutter ==
  ASSUME CountInv, UNCHANGED <<errorCnt, mismatches>>,
         \A c \in Cpus : pc'[c] = "count" <=> pc[c] = "count",
         \A c \in Cpus : pc[c] = "count" => rdx'[c] = rdx[c],
         \A c \in Cpus : Counted(c)',
         stage' = "done" => printed' = errorCnt
  PROVE  CountInv'
<1>1. Pending' = Pending
  BY DEF Pending
<1> QED BY <1>1 DEF CountInv, Counted

LEMMA CountStep == SelfTestInv /\ [Next]_vars => CountInv'
<1> SUFFICES ASSUME SelfTestInv, [Next]_vars PROVE CountInv'
  OBVIOUS
<1> USE SelfTestAssumption, BspIsCpu DEF SelfTestInv, kernel
<1>0. \A c \in Cpus : Counted(c)
  BY DEF CountInv, Counted
<1>1. CASE UNCHANGED vars \/ CreateEvent \/ StartupAllAPs \/ WaitForAps \/ Report
  <2>1. /\ UNCHANGED <<errorCnt, mismatches, rdx>>
        /\ \A c \in Cpus : pc'[c] # pc[c] => pc[c] = "idle" /\ pc'[c] = "ignite"
    BY <1>1 DEF vars, CreateEvent, StartupAllAPs, WaitForAps, Report, StageInv, TypeOK
  <2>2. \A c \in Cpus : Counted(c)'
    BY <1>0, <2>1 DEF Counted
  <2>3. stage' = "done" => printed' = errorCnt
    BY <1>1 DEF vars, CreateEvent, StartupAllAPs, WaitForAps, Report, CountInv
  <2> QED BY <2>1, <2>2, <2>3, CountStutter
<1>2. CASE OwnRun
  <2>1. /\ UNCHANGED <<errorCnt, mismatches>> /\ stage' = "wait"
        /\ \A c \in Cpus \ {Bsp} : pc'[c] = pc[c] /\ rdx'[c] = rdx[c]
        /\ pc[Bsp] = "idle" /\ pc'[Bsp] = "inner" /\ rdx'[Bsp] = 0
    BY <1>2 DEF OwnRun, Enter, StageInv, TypeOK
  <2>2. \A c \in Cpus : Counted(c)'
    BY <1>0, <2>1 DEF Counted
  <2> QED BY <2>1, <2>2, CountStutter
<1>3. ASSUME NEW c \in Cpus, Ignite(c) PROVE CountInv'
  <2>1. /\ UNCHANGED <<errorCnt, mismatches, stage, printed>>
        /\ \A d \in Cpus \ {c} : pc'[d] = pc[d] /\ rdx'[d] = rdx[d]
        /\ pc[c] = "ignite" /\ pc'[c] = "inner" /\ rdx'[c] = 0
    BY <1>3 DEF Ignite, Enter, TypeOK
  <2>2. \A d \in Cpus : Counted(d)'
    BY <1>0, <2>1 DEF Counted
  <2> QED BY <2>1, <2>2, CountStutter DEF CountInv
<1>4. ASSUME NEW c \in Cpus, InnerLoop(c) PROVE CountInv'
  <2>1. /\ UNCHANGED <<errorCnt, mismatches, stage, printed>>
        /\ \A d \in Cpus \ {c} : pc'[d] = pc[d] /\ rdx'[d] = rdx[d]
        /\ pc[c] = "inner" /\ rdx'[c] = rdx[c] + 1
        /\ pc'[c] = IF rdx[c] + 1 > MaxRuns THEN "restore" ELSE "compare"
        /\ rdx[c] \in Nat
    BY <1>4 DEF InnerLoop, TypeOK
  <2>2. \A d \in Cpus : Counted(d)'
    BY <1>0, <2>1 DEF Counted
  <2> QED BY <2>1, <2>2, CountStutter DEF CountInv
<1>5. ASSUME NEW c \in Cpus, Compare(c) PROVE CountInv'
  <2>1. /\ UNCHANGED <<errorCnt, rdx, stage, printed>>
        /\ \A d \in Cpus \ {c} : pc'[d] = pc[d]
        /\ pc[c] = "compare"
    BY <1>5 DEF Compare, TypeOK
  <2>2. CASE c \in split
    <3> DEFINE m == <<c, rdx[c]>>
    <3>1. /\ mismatches' = mismatches \cup {m} /\ pc'[c] = "count"
          /\ rdx[c] \in 1 .. MaxRuns
      BY <1>0, <1>5, <2>2 DEF Compare, Counted, TypeOK
    <3>2. m \notin mismatches
      BY <1>0, <2>1, <3>1 DEF Counted
    <3>3. Pending' = Pending \cup {m}
      BY <2>1, <3>1 DEF Pending
    <3>4. mismatches' \ Pending' = mismatches \ Pending
      BY <3>1, <3>2, <3>3
    <3>5. \A d \in Cpus : Counted(d)'
      BY <1>0, <2>1, <3>1 DEF Counted
    <3> QED BY <2>1, <3>1, <3>3, <3>4, <3>5 DEF CountInv, Counted
  <2>3. CASE c \notin split
    <3>1. mismatches' = mismatches /\ pc'[c] = "inner"
      BY <1>5, <2>3 DEF Compare, TypeOK
    <3>2. \A d \in Cpus : Counted(d)'
      BY <1>0, <2>1, <3>1 DEF Counted
    <3> QED BY <2>1, <3>1, <3>2, CountStutter DEF CountInv
  <2> QED BY <2>2, <2>3
<1>6. ASSUME NEW c \in Cpus, CountError(c) PROVE CountInv'
  <2> DEFINE m == <<c, rdx[c]>>
  <2>1. /\ UNCHANGED <<mismatches, rdx, stage, printed>> /\ errorCnt' = errorCnt + 1
        /\ \A d \in Cpus \ {c} : pc'[d] = pc[d]
        /\ pc[c] = "count" /\ pc'[c] = "inner"
    BY <1>6 DEF CountError, TypeOK
  <2>2. m \in Pending /\ Pending' = Pending \ {m}
    BY <2>1 DEF Pending
  <2>3. m \in mismatches /\ mismatches' \ Pending' = (mismatches \ Pending) \cup {m}
    BY <2>1, <2>2 DEF CountInv
  <2>4. IsFiniteSet(mismatches \ Pending)
    BY ComparisonsAreFinite, FS_Difference
  <2> HIDE DEF m
  <2>5. Cardinality((mismatches \ Pending) \cup {m}) = Cardinality(mismatches \ Pending) + 1
    BY <2>2, <2>4, FS_AddElement
  <2>6. \A d \in Cpus : Counted(d)'
    BY <1>0, <2>1 DEF Counted
  <2>7. stage # "done"
    BY <2>1 DEF StageInv
  <2> QED BY <2>1, <2>2, <2>3, <2>5, <2>6, <2>7 DEF CountInv, Counted
<1>7. ASSUME NEW c \in Cpus, Restore(c) PROVE CountInv'
  <2>1. /\ UNCHANGED <<errorCnt, mismatches, rdx, stage, printed>>
        /\ \A d \in Cpus \ {c} : pc'[d] = pc[d]
        /\ pc[c] = "restore" /\ pc'[c] = "done"
    BY <1>7 DEF Restore, TypeOK
  <2>2. \A d \in Cpus : Counted(d)'
    BY <1>0, <2>1 DEF Counted
  <2> QED BY <2>1, <2>2, CountStutter DEF CountInv
<1> QED BY <1>1, <1>2, <1>3, <1>4, <1>5, <1>6, <1>7 DEF Next, Boot, OnCpu

-----------------------------------------------------------------------------
(* A kernel's comparisons see its glitches and nothing else.               *)
LEMMA GlitchStep == SelfTestInv /\ [Next]_vars => GlitchInv'
<1> SUFFICES ASSUME SelfTestInv, [Next]_vars PROVE GlitchInv'
  OBVIOUS
<1> USE SelfTestAssumption, BspIsCpu DEF SelfTestInv, kernel
<1>1. CASE UNCHANGED vars \/ CreateEvent \/ StartupAllAPs \/ WaitForAps \/ Report
  <2>1. /\ UNCHANGED <<mismatches, glitched, split>>
        /\ \A c \in Cpus : pc'[c] # pc[c] => pc[c] = "idle" /\ pc'[c] = "ignite"
    BY <1>1 DEF vars, CreateEvent, StartupAllAPs, WaitForAps, Report, StageInv, TypeOK
  <2> QED BY <2>1 DEF GlitchInv, TypeOK
<1>2. ASSUME NEW c \in Cpus, Enter(c), pc[c] \in {"idle", "ignite"} PROVE GlitchInv'
  <2>1. /\ UNCHANGED <<mismatches, glitched>> /\ split' = split \ {c}
        /\ \A d \in Cpus \ {c} : pc'[d] = pc[d]
        /\ c \notin glitched
    BY <1>2 DEF Enter, TypeOK, GlitchInv
  <2> QED BY <2>1 DEF GlitchInv, TypeOK
<1>3. CASE OwnRun
  BY <1>2, <1>3 DEF OwnRun, StageInv
<1>4. ASSUME NEW c \in Cpus, Ignite(c) PROVE GlitchInv'
  BY <1>2, <1>4 DEF Ignite
<1>5. ASSUME NEW c \in Cpus, InnerLoop(c) PROVE GlitchInv'
  <2>1. /\ UNCHANGED mismatches
        /\ \A d \in Cpus \ {c} : pc'[d] = pc[d]
        /\ pc[c] = "inner"
        /\ pc'[c] = IF rdx[c] + 1 > MaxRuns THEN "restore" ELSE "compare"
    BY <1>5 DEF InnerLoop, TypeOK
  <2>2. \/ UNCHANGED <<split, glitched>>
        \/ /\ split' = split \cup {c}
           /\ glitched' = IF rdx[c] + 1 > MaxRuns THEN glitched ELSE glitched \cup {c}
    BY <1>5 DEF InnerLoop, TypeOK
  <2> QED BY <2>1, <2>2 DEF GlitchInv, TypeOK
<1>6. ASSUME NEW c \in Cpus, Compare(c) PROVE GlitchInv'
  <2>1. /\ UNCHANGED <<split, glitched>>
        /\ \A d \in Cpus \ {c} : pc'[d] = pc[d]
        /\ pc[c] = "compare" /\ pc'[c] \in {"count", "inner"}
        /\ mismatches' = IF c \in split THEN mismatches \cup {<<c, rdx[c]>>} ELSE mismatches
        /\ rdx[c] \in 1 .. MaxRuns
    BY <1>6 DEF Compare, TypeOK, CountInv
  <2>2. c \in split <=> c \in glitched
    BY <2>1 DEF GlitchInv
  <2>3. \A m \in mismatches' : m[1] \in glitched
    BY <2>1, <2>2 DEF GlitchInv
  <2>4. \A d \in glitched :
          pc'[d] = "compare" \/ \E n \in 1 .. MaxRuns : <<d, n>> \in mismatches'
    <3> SUFFICES ASSUME NEW d \in glitched, pc'[d] # "compare"
                 PROVE  \E n \in 1 .. MaxRuns : <<d, n>> \in mismatches'
      OBVIOUS
    <3>1. CASE d = c
      BY <2>1, <2>2, <3>1
    <3>2. CASE d # c
      BY <2>1, <3>2 DEF GlitchInv, TypeOK
    <3> QED BY <3>1, <3>2
  <2> QED BY <2>1, <2>2, <2>3, <2>4 DEF GlitchInv, TypeOK
<1>7. ASSUME NEW c \in Cpus, CountError(c) \/ Restore(c) PROVE GlitchInv'
  <2>1. /\ UNCHANGED <<mismatches, split, glitched>>
        /\ \A d \in Cpus \ {c} : pc'[d] = pc[d]
        /\ \/ pc[c] = "count" /\ pc'[c] = "inner"
           \/ pc[c] = "restore" /\ pc'[c] = "done"
    BY <1>7 DEF CountError, Restore, TypeOK
  <2> QED BY <2>1 DEF GlitchInv, TypeOK
<1> QED BY <1>1, <1>3, <1>4, <1>5, <1>6, <1>7 DEF Next, Boot, OnCpu

-----------------------------------------------------------------------------
(* The theorems.                                                           *)

(* The invariant of the self test: types, the firmware's state, who is     *)
(* where, and what has been counted.                                       *)
THEOREM SelfTestInvariant == Spec => []SelfTestInv
<1>1. SelfTestInv /\ [Next]_vars => SelfTestInv'
  BY TypeStep, FirmwareStep, StageStep, CountStep, GlitchStep DEF SelfTestInv
<1> QED BY <1>1, InitInv, PTL DEF Spec

(* The report comes after the last kernel and has every failed comparison  *)
(* of every processor once.                                                *)
THEOREM ReportCountsAll == Spec => []ReportIsFinal
<1>1. SelfTestInv => ReportIsFinal
  <2> SUFFICES ASSUME SelfTestInv, stage = "done"
               PROVE  printed = Cardinality(mismatches) /\ \A c \in Cpus : pc[c] \in {"idle", "done"}
    BY DEF ReportIsFinal
  <2> USE DEF SelfTestInv
  <2>1. \A c \in Cpus : pc[c] \in {"idle", "done"}
    BY DEF StageInv
  <2>2. Pending = {}
    BY <2>1 DEF Pending
  <2>3. mismatches \ Pending = mismatches
    BY <2>2
  <2> QED BY <2>1, <2>3 DEF CountInv
<1> QED BY <1>1, SelfTestInvariant, PTL

(* The report is zero exactly when no chains came apart in time.           *)
THEOREM ReportTellsTheTruth == Spec => []ReportIsHonest
<1>1. SelfTestInv => ReportIsHonest
  <2> SUFFICES ASSUME SelfTestInv, stage = "done"
               PROVE  printed = 0 <=> glitched = {}
    BY DEF ReportIsHonest
  <2> USE DEF SelfTestInv
  <2>1. \A c \in Cpus : pc[c] \in {"idle", "done"}
    BY DEF StageInv
  <2>2. Pending = {}
    BY <2>1 DEF Pending
  <2>3. mismatches \ Pending = mismatches
    BY <2>2
  <2>4. printed = Cardinality(mismatches)
    BY <2>3 DEF CountInv
  <2>5. printed = 0 <=> mismatches = {}
    BY <2>4, ComparisonsAreFinite, FS_EmptySet
  <2>6. glitched = {} <=> mismatches = {}
    BY <2>1 DEF GlitchInv, TypeOK
  <2> QED BY <2>5, <2>6
<1> QED BY <1>1, SelfTestInvariant, PTL
=============================================================================
