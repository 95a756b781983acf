------------------------------ MODULE VfCurve ------------------------------
(***************************************************************************)
(* One voltage domain of a package over the overclocking mailbox           *)
(* (src/src/VfCurve.c): ProbePackage reads it (IAPERF_ProbeDomainVF), the  *)
(* owner's policy edits the DOMAIN record, every processor writes it back  *)
(* (IAPERF_ProgramDomainVF), IaCore_OcLock locks the mailbox, and          *)
(* ApplyPolicy reads it once more.  Each processor programs the turbo      *)
(* ratios of the package first (src/src/TurboRatioLimits.c).               *)
(*                                                                         *)
(* Each call of OcMailbox_ReadWrite is one step, of one of three outcomes: *)
(* the unit accepts the command; it rejects it, which leaves a nonzero     *)
(* box.status; or the call fails without a verdict (a timeout, readings    *)
(* that never agree), which leaves box.status alone and may or may not     *)
(* have written.  The module CpuMailbox shows that a call answers so.      *)
(*                                                                         *)
(* Voltages are raw codes in the unit and mV in the record (FixedPoint).   *)
(***************************************************************************)
EXTENDS FixedPoint, Sequences

CONSTANTS
  MAX_VF_POINTS,
  IccMask,        \* the largest IccMax value
  MaxWriters,     \* bound: processors that program the domain
  Starts          \* what the unit holds, the CPU model and the INI profile

(* The domain in the power control unit.                                   *)
Units == [icc : 0 .. IccMask, bit31 : BOOLEAN, mode : {0, 1},
          target : RawTargets, offset : RawOffsets, points : Seq(RawOffsets)]

(* Facts of the CPU model: V/F points are exposed, IccMax has the flag for *)
(* no limit, the domain has a voltage regulator of its own, the processor  *)
(* has E-cores.                                                            *)
Cpus == [exposed : BOOLEAN, unlimited : BOOLEAN, hasVr : BOOLEAN, hybrid : BOOLEAN]

(* The ratio registers MSR_TURBO_RATIO_LIMIT and its twin for E-cores: a   *)
(* ratio for each count of active cores, and whether a write has effect.   *)
Kinds  == {"P", "E"}
Slots  == 0 .. 255
Ratios == [slots : Seq(Slots), writable : BOOLEAN]

(* The keys of an INI profile for the domain: a key that is absent is the  *)
(* empty set, a value v is {v}.                                            *)
Key(values) == {key \in SUBSET values : \A v, w \in key : v = w}

Policies == [icc : Key(Nat), offset : Key(Offsets), target : Key(Targets),
             point : Offsets, vfKey : Key(Nat), ratio : [Kinds -> Slots]]

ASSUME VfAssumption ==
  /\ MAX_VF_POINTS \in Nat \ {0} /\ IccMask \in Nat \ {0} /\ MaxWriters \in Nat \ {0}
  /\ Starts \subseteq
       [unit : Units, ratios : [Kinds -> Ratios], cpu : Cpus, policy : Policies]

VARIABLES
  unit,         \* the domain in the power control unit
  locked,       \* OC lock: the unit rejects writes
  ratios,       \* the ratio registers of the package
  model,        \* gActiveCpuData
  policy,
  dom,          \* the DOMAIN record
  programIcc, programVf, programPoints,
                \* pkg->Program_IccMax, _VF_Overrides, _VF_Points
  stage, index, \* the next mailbox call; pidx or vidx
  status,       \* box.status is not zero
  writers,      \* processors that have written
  booted,       \* history: the unit before the program touched it
  bootRatios,   \* history: the ratio registers before
  wanted        \* history: the points the policy asks for, in mV

flags == <<programIcc, programVf, programPoints>>
rvars == <<ratios, bootRatios>>
given == <<rvars, model, policy>>
vars == <<unit, locked, given, dom, flags, stage, index, status,
          writers, booted, wanted>>

Stages == {"iccRead", "legacyRead", "pointRead", "edit", "ratioWrite", "iccWrite", "flagWrite",
           "legacyWrite", "pointWrite", "ocLock", "iccReread", "legacyReread",
           "pointReread", "done", "aborted"}

(* The DOMAIN record, in mV.                                               *)
Records == [icc : 0 .. IccMask, mode : {0, 1}, target : Int, offset : Int,
            n : 0 .. MAX_VF_POINTS, points : [1 .. MAX_VF_POINTS -> Int]]

TypeOK ==
  /\ unit \in Units /\ booted \in Units
  /\ locked \in BOOLEAN /\ status \in BOOLEAN
  /\ ratios \in [Kinds -> Ratios] /\ bootRatios \in [Kinds -> Ratios]
  /\ flags \in BOOLEAN \X BOOLEAN \X BOOLEAN
  /\ model \in Cpus /\ policy \in Policies
  /\ dom \in Records
  /\ stage \in Stages
  /\ index \in 0 .. MAX_VF_POINTS
  /\ writers \in Nat
  /\ wanted \in [DOMAIN wanted -> Offsets] /\ DOMAIN wanted \subseteq 1 .. MAX_VF_POINTS

NoPoints == [i \in 1 .. MAX_VF_POINTS |-> 0]

Init ==
  /\ \E s \in Starts : unit = s.unit /\ ratios = s.ratios /\ model = s.cpu /\ policy = s.policy
  /\ locked \in BOOLEAN
  /\ dom = [icc |-> 0, mode |-> 0, target |-> 0, offset |-> 0, n |-> 0, points |-> NoPoints]
  /\ programIcc = FALSE /\ programVf = FALSE /\ programPoints = FALSE
  /\ stage = "iccRead"
  /\ index = 0
  /\ status = FALSE
  /\ writers = 0
  /\ booted = unit /\ bootRatios = ratios
  /\ wanted = << >>

-----------------------------------------------------------------------------
(* Reading: the same code runs in the first probe and in the last one.     *)
Again(s) == IF stage \in {"iccReread", "legacyReread", "pointReread"}
            THEN CASE s = "legacyRead" -> "legacyReread"
                   [] s = "pointRead"  -> "pointReread"
                   [] s = "edit"       -> "done"
            ELSE s

(* IccMax: a failure is not an error, the record keeps what it has.        *)
ReadIcc ==
  /\ stage \in {"iccRead", "iccReread"}
  /\ \/ ~model.hasVr /\ dom' = [dom EXCEPT !.icc = 0] /\ status' = FALSE
     \/ model.hasVr /\ dom' = [dom EXCEPT !.icc = unit.icc] /\ status' = FALSE
     \/ model.hasVr /\ dom' = dom /\ status' \in BOOLEAN
  /\ stage' = Again("legacyRead")
  /\ UNCHANGED <<unit, locked, given, flags, index, writers, booted, wanted>>

ReadLegacy ==
  /\ stage \in {"legacyRead", "legacyReread"}
  /\ dom' = [dom EXCEPT !.mode = unit.mode, !.target = TargetToMv(unit.target),
                        !.offset = OffsetToMv(unit.offset), !.n = 0]
  /\ status' = FALSE
  /\ index' = 0
  /\ stage' = Again(IF model.exposed THEN "pointRead" ELSE "edit")
  /\ UNCHANGED <<unit, locked, given, flags, writers, booted, wanted>>

(* Point pidx of the record is point pidx + 1 of the unit, its element     *)
(* pidx + 1 here; the record has room for MAX_VF_POINTS.                   *)
ReadPoint ==
  /\ stage \in {"pointRead", "pointReread"}
  /\ index < Len(unit.points)
  /\ dom' = [dom EXCEPT !.n = @ + 1, !.points[index + 1] = OffsetToMv(unit.points[index + 1])]
  /\ status' = FALSE
  /\ index' = index + 1
  /\ stage' = IF index + 1 < MAX_VF_POINTS THEN stage ELSE Again("edit")
  /\ UNCHANGED <<unit, locked, given, flags, writers, booted, wanted>>

(* The unit rejects a point it does not have: the top of the table.        *)
PointRejected ==
  /\ stage \in {"pointRead", "pointReread"}
  /\ index >= Len(unit.points)
  /\ status' = TRUE
  /\ stage' = Again("edit")
  /\ UNCHANGED <<unit, locked, given, dom, flags, index, writers, booted, wanted>>

(* Mutant of ReadFails: every error in the V/F loop ends the table.        *)
ReadFailsEndsTable ==
  /\ \/ /\ stage \in {"legacyRead", "legacyReread"}
        /\ status' \in BOOLEAN
        /\ stage' = "aborted"
     \/ /\ stage \in {"pointRead", "pointReread"}
        /\ UNCHANGED status
        /\ stage' = Again("edit")
  /\ UNCHANGED <<unit, locked, given, dom, flags, index, writers, booted, wanted>>

(* The legacy read fails in either way, or a point without a verdict: the  *)
(* loop tells the cases apart by box.status.                               *)
ReadFails ==
  /\ \/ /\ stage \in {"legacyRead", "legacyReread"}
        /\ status' \in BOOLEAN
        /\ stage' = "aborted"
     \/ /\ stage \in {"pointRead", "pointReread"}
        /\ UNCHANGED status
        /\ stage' = IF status THEN Again("edit") ELSE "aborted"
  /\ UNCHANGED <<unit, locked, given, dom, flags, index, writers, booted, wanted>>

-----------------------------------------------------------------------------
(* The writes of one processor, in order; a write that has no work to do   *)
(* is not made.                                                            *)
WritesIcc  == programIcc /\ dom.icc # 0 /\ model.hasVr
WritesFlag == WritesIcc /\ model.unlimited /\ dom.icc = IccMask

AfterIcc   == IF programVf THEN "legacyWrite" ELSE "pointWrite"

FirstWrite == IF WritesIcc THEN "iccWrite" ELSE AfterIcc

(* A domain without any of the three flags is not programmed.              *)
ProgramsDomain == programIcc \/ programVf \/ programPoints

(* The value of a key, or what was there before.                           *)
Value(key, old) == IF key = {} THEN old ELSE CHOOSE v \in key : TRUE

(* SetDomainSettings puts the owner's values into the record: an offset    *)
(* selects the offset mode, IccMax is cut to its field, any of the points  *)
(* that were found may get a new offset.  V/F points are programmed when   *)
(* one of them was named, unless Program_VF_Points has a value other than  *)
(* 1.                                                                      *)
Edit ==
  /\ stage = "edit"
  /\ \E chosen \in SUBSET (1 .. dom.n) :
       /\ dom' = [dom EXCEPT
            !.icc    = Lowest(Value(policy.icc, @), IccMask),
            !.mode   = IF policy.offset # {} THEN 0 ELSE @,
            !.offset = Value(policy.offset, @),
            !.target = Value(policy.target, @),
            !.points = [i \in 1 .. MAX_VF_POINTS |->
                          IF i \in chosen THEN policy.point ELSE @[i]]]
       /\ wanted' = [i \in chosen |-> policy.point]
       /\ programPoints' = IF policy.vfKey = {} THEN chosen # {} ELSE policy.vfKey = {1}
  /\ programIcc' = (policy.icc \notin {{}, {0}})
  /\ programVf' = (policy.offset # {} \/ policy.target # {})
  /\ UNCHANGED <<unit, locked, given, writers, booted>>
  /\ stage' = "ratioWrite"
  /\ index' = 0
  /\ status' = FALSE

(* Slots of 0 and 255 count as unused; every processor looks again.        *)
Filled(slots, ratio) ==
  [i \in DOMAIN slots |-> IF slots[i] \in {0, 255} THEN slots[i] ELSE ratio]

RatioAsked(k) == policy.ratio[k] # 0 /\ (k = "E" => model.hybrid)

NextWriter(n) == IF n < MaxWriters THEN "ratioWrite" ELSE "ocLock"

(* ProgramMaxTurboRatios and its twin: the status of their read-backs is   *)
(* dropped.  A processor with nothing else to write is done.               *)
ProgramRatios ==
  /\ stage = "ratioWrite"
  /\ ratios' = [k \in Kinds |->
       IF RatioAsked(k) /\ ratios[k].writable
         THEN [ratios[k] EXCEPT !.slots = Filled(@, policy.ratio[k])] ELSE ratios[k]]
  /\ IF ProgramsDomain THEN stage' = FirstWrite /\ UNCHANGED writers
     ELSE writers' = writers + 1 /\ stage' = NextWriter(writers')
  /\ UNCHANGED <<unit, locked, bootRatios, model, policy, dom, flags, index, status,
                 booted, wanted>>

(* A write gets through to an unlocked unit; the call may fail all the     *)
(* same, and a failure ends the whole policy.                              *)
Written(next) == ~locked /\ stage' \in {next, "aborted"}

(* Mutant of WriteIcc: the maximum is written without bit 31.              *)
WriteIccOnly ==
  /\ stage = "iccWrite"
  /\ unit' = [unit EXCEPT !.icc = dom.icc, !.bit31 = FALSE]
  /\ Written(AfterIcc)
  /\ UNCHANGED <<locked, given, dom, flags, index, status, writers, booted, wanted>>

WriteIcc ==
  /\ stage = "iccWrite"
  /\ unit' = [unit EXCEPT !.icc = dom.icc, !.bit31 = FALSE]
  /\ Written(IF WritesFlag THEN "flagWrite" ELSE AfterIcc)
  /\ UNCHANGED <<locked, given, dom, flags, index, status, writers, booted, wanted>>

(* Bit 31 makes the maximum unlimited.                                     *)
WriteFlag ==
  /\ stage = "flagWrite"
  /\ unit' = [unit EXCEPT !.icc = dom.icc, !.bit31 = TRUE]
  /\ Written(AfterIcc)
  /\ UNCHANGED <<locked, given, dom, flags, index, status, writers, booted, wanted>>

(* Mutant of WriteLegacy: the voltage mode is left out of the data.        *)
WriteLegacyNoMode ==
  /\ stage = "legacyWrite"
  /\ unit' = [unit EXCEPT !.target = TargetToFix(dom.target), !.offset = OffsetToFix(dom.offset)]
  /\ Written("pointWrite")
  /\ UNCHANGED <<locked, given, dom, flags, index, status, writers, booted, wanted>>

WriteLegacy ==
  /\ stage = "legacyWrite"
  /\ unit' = [unit EXCEPT !.mode = dom.mode, !.target = TargetToFix(dom.target),
                          !.offset = OffsetToFix(dom.offset)]
  /\ Written("pointWrite")
  /\ UNCHANGED <<locked, given, dom, flags, index, status, writers, booted, wanted>>

PointsToWrite == IF programPoints /\ model.exposed THEN dom.n ELSE 0

(* Mutant of WritePoint: the mailbox index is vidx, not vidx + 1.          *)
WritePointOffByOne ==
  /\ stage = "pointWrite"
  /\ index < PointsToWrite
  /\ unit' = [unit EXCEPT !.points =
                IF index = 0 THEN @ ELSE [@ EXCEPT ![index] = OffsetToFix(dom.points[index + 1])]]
  /\ index' = index + 1
  /\ Written(stage)
  /\ UNCHANGED <<locked, given, dom, flags, status, writers, booted, wanted>>

WritePoint ==
  /\ stage = "pointWrite"
  /\ index < PointsToWrite
  /\ unit' = [unit EXCEPT !.points[index + 1] = OffsetToFix(dom.points[index + 1])]
  /\ index' = index + 1
  /\ Written(stage)
  /\ UNCHANGED <<locked, given, dom, flags, status, writers, booted, wanted>>

(* The processor is done; the next one starts over with the same record.   *)
WriterDone ==
  /\ stage = "pointWrite"
  /\ index = PointsToWrite
  /\ writers' = writers + 1
  /\ stage' = NextWriter(writers')
  /\ index' = 0
  /\ UNCHANGED <<unit, locked, given, dom, flags, status, booted, wanted>>

(* The write is rejected, as a locked unit does, or does not get through.  *)
WriteFails ==
  /\ \/ stage \in {"iccWrite", "flagWrite", "legacyWrite"}
     \/ stage = "pointWrite" /\ index < PointsToWrite
  /\ stage' = "aborted"
  /\ UNCHANGED <<unit, locked, given, dom, flags, index, status,
                 writers, booted, wanted>>

(* IaCore_OcLock, or PostProgrammingOcLock is 0.                           *)
OcLock ==
  /\ stage = "ocLock"
  /\ locked' \in {locked, TRUE}
  /\ stage' = "iccReread"
  /\ UNCHANGED <<unit, given, dom, flags, index, status, writers, booted, wanted>>

Next ==
  \/ ReadIcc \/ ReadLegacy \/ ReadPoint \/ PointRejected \/ ReadFails
  \/ Edit \/ ProgramRatios
  \/ WriteIcc \/ WriteFlag \/ WriteLegacy \/ WritePoint \/ WriterDone \/ WriteFails
  \/ OcLock

Spec == Init /\ [][Next]_vars

-----------------------------------------------------------------------------

TableLength ==
  IF model.exposed THEN Lowest(Len(unit.points), MAX_VF_POINTS) ELSE 0

(* A probe that succeeds has found the whole V/F table, up to              *)
(* MAX_VF_POINTS, and read every point: no timeout on the way passes for   *)
(* the end of the table.                                                   *)
TableIsWhole ==
  stage \in {"edit", "done"} =>
    /\ dom.n = TableLength
    /\ \A i \in 1 .. dom.n : dom.points[i] = OffsetToMv(unit.points[i])

(* When the program has gone through, each point that the owner named has  *)
(* the offset asked for, in the unit, at its own index, and after the last *)
(* probe in the record; every other point the table lists is where it was, *)
(* up to the one code that writing it back may cost.                       *)
PointsAsWanted ==
  stage = "done" /\ programPoints =>
    /\ \A i \in DOMAIN wanted : /\ unit.points[i] = OffsetToFix(wanted[i])
                                /\ dom.points[i] = OffsetToMv(unit.points[i])
    /\ \A i \in DOMAIN unit.points \ DOMAIN wanted :
         Signed(booted.points[i]) \in OffsetCodes =>
           Distance(Signed(unit.points[i]), Signed(booted.points[i])) <= 1

(* After success an offset asked for is in force within 1 mV: the mode is  *)
(* the offset mode, whatever the firmware had left.  A target asked for    *)
(* stands in its field within 1 mV, and no more: the unit goes by it only  *)
(* in the other mode, which no key of a profile selects, so it is in force *)
(* just where the firmware had left that mode and no offset is asked for   *)
(* besides.  The target's table begins at 251 mV.  A ratio asked for is in *)
(* every slot the firmware uses, and no other slot, however many           *)
(* processors have been over it.                                           *)
AskedIsWritten ==
  stage = "done" =>
    /\ \A mv \in policy.offset : unit.mode = 0 /\ Encodes(Signed(unit.offset), mv)
    /\ \A mv \in policy.target \ {0, 250} : Encodes(unit.target, mv)
    /\ policy.offset = {} => unit.mode = booted.mode
    /\ \A k \in Kinds : RatioAsked(k) /\ ratios[k].writable =>
         \A i \in DOMAIN bootRatios[k].slots :
           ratios[k].slots[i] = LET old == bootRatios[k].slots[i]
                                IN  IF old \in 1 .. 254 THEN policy.ratio[k] ELSE old

(* What the owner did not ask for stays as the firmware left it, wherever  *)
(* the program stops: IccMax, the V/F points, and the legacy command as a  *)
(* whole.  When half of that command is asked for, the other half is read  *)
(* and written back by every processor: it moves by one code at most.      *)
UntouchedStays ==
  /\ \A k \in Kinds : RatioAsked(k) \/ ratios[k] = bootRatios[k]
  /\ policy.icc \in {{}, {0}} => unit.icc = booted.icc /\ unit.bit31 = booted.bit31
  /\ policy.vfKey \notin {{}, {1}} => unit.points = booted.points
  /\ policy.offset = {} /\ policy.target = {} =>
       <<unit.mode, unit.target, unit.offset>> = <<booted.mode, booted.target, booted.offset>>
  /\ stage = "done" =>
    /\ policy.offset = {} /\ Signed(booted.offset) \in OffsetCodes =>
         Distance(Signed(unit.offset), Signed(booted.offset)) <= 1
    /\ policy.target = {} /\ booted.target \in TargetCodes =>
         Distance(unit.target, booted.target) <= 1

(* IccMax is unlimited only at its maximum, unless the firmware left it so *)
(* and it was not touched; and always there after success on a CPU model   *)
(* that has the flag, however many processors wrote it.                    *)
FlagDue == model.unlimited /\ model.hasVr /\ \E v \in policy.icc : v >= IccMask

FlagGoesWithMaximum ==
  /\ unit.bit31 => unit.icc = IccMask \/ <<unit.icc, unit.bit31>> = <<booted.icc, booted.bit31>>
  /\ stage = "done" /\ FlagDue => unit.bit31

-----------------------------------------------------------------------------
(* Why: how far each step has come.                                        *)
Reading   == {"iccRead", "legacyRead", "pointRead"}
Rereading == {"iccReread", "legacyReread", "pointReread"}
Writing   == {"ratioWrite", "iccWrite", "flagWrite", "legacyWrite", "pointWrite", "ocLock"}
Through   == {"ocLock"} \cup Rereading \cup {"done"}   \* every processor is through

(* Up to the edit the unit is as it was; the part of the table that has    *)
(* been read is in the record, and box.status tells nothing yet.           *)
ProbeInv ==
  /\ stage \in Reading \cup {"edit"} =>
       unit = booted /\ ratios = bootRatios /\ wanted = << >> /\ ~ProgramsDomain
  /\ stage \in {"pointRead", "edit"} =>
       /\ dom.mode = unit.mode
       /\ dom.target = TargetToMv(unit.target) /\ dom.offset = OffsetToMv(unit.offset)
  /\ stage \in {"pointRead", "pointReread"} =>
       /\ model.exposed /\ ~status
       /\ index < MAX_VF_POINTS /\ index <= Len(unit.points)
       /\ dom.n = index
       /\ \A i \in 1 .. index : dom.points[i] = OffsetToMv(unit.points[i])

(* What the record holds after the edit, in terms of the policy and of     *)
(* what the unit held.                                                     *)
GoalMode     == IF policy.offset # {} THEN 0 ELSE booted.mode
GoalOffset   == Value(policy.offset, OffsetToMv(booted.offset))
GoalTarget   == Value(policy.target, TargetToMv(booted.target))
GoalPoint(i) == IF i \in DOMAIN wanted THEN wanted[i] ELSE OffsetToMv(booted.points[i])

RecordInv ==
  /\ programIcc => policy.icc \notin {{}, {0}}
  /\ programVf => policy.offset # {} \/ policy.target # {}
  /\ programPoints => policy.vfKey \in {{}, {1}}
  /\ stage \in Writing \cup Through =>
       /\ programIcc = (policy.icc \notin {{}, {0}})
       /\ programVf = (policy.offset # {} \/ policy.target # {})
  /\ DOMAIN wanted \subseteq 1 .. TableLength
  /\ stage \in Writing =>
       /\ \A v \in policy.icc : dom.icc = Lowest(v, IccMask)
       /\ dom.mode = GoalMode /\ dom.offset = GoalOffset /\ dom.target = GoalTarget
       /\ dom.n = TableLength
       /\ \A i \in 1 .. dom.n : dom.points[i] = GoalPoint(i)

(* Every part of the unit holds what it held or its goal.                  *)
LegacyAtGoal ==
  /\ unit.mode = GoalMode
  /\ unit.offset = OffsetToFix(GoalOffset) /\ unit.target = TargetToFix(GoalTarget)

PointAtGoal(i) == unit.points[i] = OffsetToFix(GoalPoint(i))

RatiosAtGoal(k) == ratios[k].slots = Filled(bootRatios[k].slots, policy.ratio[k])

UnitInv ==
  /\ programIcc \/ <<unit.icc, unit.bit31>> = <<booted.icc, booted.bit31>>
  /\ \/ programVf /\ LegacyAtGoal
     \/ <<unit.mode, unit.target, unit.offset>> = <<booted.mode, booted.target, booted.offset>>
  /\ Len(unit.points) = Len(booted.points)
  /\ \A i \in DOMAIN unit.points :
       \/ programPoints /\ model.exposed /\ PointAtGoal(i)
       \/ unit.points[i] = booted.points[i]
  /\ \A k \in Kinds : /\ ratios[k].writable = bootRatios[k].writable
                       /\ \/ RatioAsked(k) /\ RatiosAtGoal(k)
                          \/ ratios[k] = bootRatios[k]

(* A processor that is past a write has made it.                           *)
WriterInv ==
  /\ stage = "iccWrite" => WritesIcc
  /\ stage = "flagWrite" => WritesFlag
  /\ stage = "legacyWrite" => programVf
  /\ stage \in {"ratioWrite", "iccWrite", "flagWrite", "legacyWrite"} => index = 0
  /\ stage = "pointWrite" => index <= PointsToWrite /\ \A i \in 1 .. index : PointAtGoal(i)
  /\ stage \in (Writing \ {"ratioWrite"}) \cup Through =>
       \A k \in Kinds : RatioAsked(k) /\ ratios[k].writable => RatiosAtGoal(k)
  /\ stage \in {"legacyWrite", "pointWrite"} \cup Through => (FlagDue => unit.bit31)
  /\ stage \in {"pointWrite"} \cup Through => (programVf => LegacyAtGoal)
  /\ stage \in Through /\ programPoints => \A i \in 1 .. TableLength : PointAtGoal(i)

CurveInv ==
  /\ TypeOK
  /\ ProbeInv /\ TableIsWhole
  /\ RecordInv
  /\ UnitInv
  /\ WriterInv /\ FlagGoesWithMaximum

(* The comment on cvrt_ovrdvolts_i16_tofix (src/src/FixedPoint.c:124): it  *)
(* converts 250-1500 mV to their encoding.                                 *)
DocumentedTargets ==
  stage = "done" => \A mv \in policy.target \ {0} : Encodes(unit.target, mv)

=============================================================================
