---------------------------- MODULE PowerLimits ----------------------------
(***************************************************************************)
(* The power limits of one package (src/src/PowerLimits.c), as the         *)
(* handlers of src/src/Platform.c program them: ProgramPowerLimits, then   *)
(* ProgramPowerLimits_Stage2, then the locks, ProgramCoreLocks on every    *)
(* processor and ProgramPackageLocks_Stage2.                               *)
(*                                                                         *)
(* A limit is a half of a register: enable bit, power (for PL4 a current), *)
(* time window and clamp bit.  PL1 and PL2 are the halves of one register, *)
(* in its MSR, its MMIO mirror and for the platform (PSys); PL3, PL4 and   *)
(* PP0 have one.  A locked register ignores writes, or the write faults    *)
(* and freezes the processor (HandleProbingFault).  A write to the mirror  *)
(* is two 32-bit writes in the code and one step here.                     *)
(***************************************************************************)
EXTENDS Integers, Sequences, FiniteSetsExt

CONSTANTS
  MAX_POWAH,     \* "unlimited"
  PowerMask,     \* 0x7fff, the largest power of a half
  CurrentMask,   \* 0x1fff, the largest current of PL4, in 1/8 A
  MaxY,          \* 31, the largest exponent of a time window
  Taus,          \* lookup_taus_5b2b_x1000_shl22: each window in time units, by 1000
  NumCores,      \* processors of the package
  Starts         \* registers, firmware facts and policies to begin with

Registers == {"PL12", "PL3", "PL4", "PP0", "MMIO", "PSys"}
TwoHalves == {"PL12", "MMIO", "PSys"}
Windows   == 0 .. 4 * MaxY + 3            \* places in the table: 4 * Y + X

(* A window as a register holds it, bits 24:17 of its half: X goes to bits *)
(* 24:23 and Y to bits 22:17.                                              *)
Field(w) == 64 * (w % 4) + w \div 4

Halves == [on : BOOLEAN, power : 0 .. PowerMask, window : {Field(w) : w \in Windows},
           clamp : BOOLEAN]

(* Of the firmware: the bounds of PL1 (0: none), its bound of the windows  *)
(* (PkgMaxTau; the code reads it and writes no window by it), how many     *)
(* units of power and of time make one W and one s, whether the mirror was *)
(* found (gMCHBAR).                                                        *)
Facts ==
  {f \in [min : 0 .. PowerMask, max : 0 .. PowerMask, maxTau : 0 .. 63,
         powerUnits : Nat \ {0}, timeUnits : Nat \ {0}, mchbar : BOOLEAN] :
     f.max = 0 \/ f.min <= f.max}

(* What a profile asks of a register; lock is 0, 1 or "leave it" (2).      *)
Asks == [on1 : BOOLEAN, on2 : BOOLEAN, power1 : 0 .. MAX_POWAH, power2 : 0 .. MAX_POWAH,
         time : 0 .. MAX_POWAH, clamp : BOOLEAN, lock : {0, 1, 2}]

(* eeTurbo and raceToHalt are 0, 1 or "leave it" (2).                      *)
Policies == [program : SUBSET (Registers \cup {"PowerCtl"}), ask : [Registers -> Asks],
             level : 0 .. 3, tdpLock : {0, 1, 2}, eeTurbo : {0, 1, 2}, raceToHalt : {0, 1, 2}]

ASSUME PowerAssumption ==
  /\ MAX_POWAH \in Nat /\ PowerMask \in 1 .. MAX_POWAH - 1 /\ CurrentMask \in 0 .. PowerMask
  /\ MaxY \in 0 .. 63 /\ NumCores \in Nat \ {0}
  /\ Taus \in [Windows -> Nat]
  /\ \A v, w \in Windows : v <= w => Taus[v] <= Taus[w]
  /\ Starts \subseteq [locked : SUBSET (Registers \cup {"cTDP"}), facts : Facts, policy : Policies]

VARIABLES
  lo, hi,       \* the halves of each register; hi of PL3, PL4, PP0 is not used
  locked,       \* registers that are locked
  level,        \* MSR_CONFIG_TDP_CONTROL
  powerCtl,     \* disabled turbo features in MSR_POWER_CONTROL
  facts, policy,
  stage,        \* the register to program next
  clamping,     \* its limits are written, its clamp bits are not
  lockAt,       \* the next lock of ProgramCoreLocks
  cores,        \* processors that have run it
  bootLocked    \* history: locked before the program ran

hardware == <<lo, hi, locked, level, powerCtl>>
setup    == <<facts, policy, bootLocked>>
vars     == <<hardware, setup, stage, clamping, lockAt, cores>>

Order     == <<"cTDP", "PL12", "PL3", "PL4", "PP0", "PowerCtl", "MMIO", "PSys", "locks",
               "mmioLock", "done">>
LockOrder == <<"PL12", "PL3", "PL4", "PP0", "PSys", "cTDP">>

TypeOK ==
  /\ lo \in [Registers -> Halves] /\ hi \in [Registers -> Halves]
  /\ locked \subseteq Registers \cup {"cTDP"} /\ bootLocked \subseteq Registers \cup {"cTDP"}
  /\ level \in 0 .. 3
  /\ powerCtl \subseteq {"eeTurbo", "raceToHalt"}
  /\ facts \in Facts /\ policy \in Policies
  /\ stage \in {Order[i] : i \in DOMAIN Order} \cup {"frozen"}
  /\ clamping \in BOOLEAN
  /\ lockAt \in DOMAIN LockOrder
  /\ cores \in 0 .. NumCores

(* What the firmware left in every half.                                   *)
Boot == [on |-> TRUE, power |-> 1, window |-> Field(2), clamp |-> TRUE]

Init ==
  /\ lo = [r \in Registers |-> Boot] /\ hi = [r \in Registers |-> Boot]
  /\ level = 0 /\ powerCtl = {}
  /\ \E s \in Starts : locked = s.locked /\ facts = s.facts /\ policy = s.policy
  /\ bootLocked = locked
  /\ stage = "cTDP" /\ clamping = FALSE
  /\ lockAt = 1 /\ cores = 0

-----------------------------------------------------------------------------
(* Encodings.                                                              *)

(* A window in ms.                                                         *)
Duration(w) == Taus[w] \div facts.timeUnits

LongEnough(t) == {w \in Windows : Duration(w) >= t}

Encodable(t) == t = MAX_POWAH \/ LongEnough(t) # {}

(* FindTauConsts: the first entry of the table that is long enough.        *)
Window(t) == IF t = MAX_POWAH THEN 4 * MaxY + 3 ELSE Min(LongEnough(t))

Lower(a, b)  == IF a < b THEN a ELSE b
Higher(a, b) == IF a < b THEN b ELSE a

(* mW in power units.                                                      *)
Power(mw) ==
  IF mw = MAX_POWAH THEN mw ELSE Lower((mw * facts.powerUnits) \div 1000, PowerMask)

(* Mutant of Bounded: the bounds are applied the other way round.          *)
BoundedSwapped(p) ==
  IF facts.min > 0 THEN Lower(p, facts.min) ELSE p

Bounded(p) ==
  LET raised == IF facts.min > 0 THEN Higher(p, facts.min) ELSE p
  IN  IF facts.max > 0 THEN Lower(raised, facts.max) ELSE raised

(* SetPP0PowerLimit bounds from above with PkgMinPow, not PkgMaxPow.       *)
BoundedPP0(p) ==
  LET raised == IF facts.min > 0 THEN Higher(p, facts.min) ELSE p
  IN  IF facts.max > 0 THEN Lower(raised, facts.min) ELSE raised

(* A half with a new limit; a disabled one has no power, and in the        *)
(* package registers no window.                                            *)
Enabled(half, p, t)  == [half EXCEPT !.on = TRUE, !.power = Lower(p, PowerMask), !.window = Field(Window(t))]
Disabled(half)       == [half EXCEPT !.on = FALSE, !.power = 0]
Cleared(half)        == [half EXCEPT !.on = FALSE, !.power = 0, !.window = Field(0)]

-----------------------------------------------------------------------------
Ask == policy.ask[stage]

(* A register is passed over unless the profile programs it, the lock of   *)
(* the mirror with the mirror.                                             *)
Due(q) ==
  /\ q \in Registers \cup {"PowerCtl"} => q \in policy.program
  /\ q = "mmioLock" => "MMIO" \in policy.program

Later(s) == {j \in DOMAIN Order : \E i \in 1 .. j - 1 : Order[i] = s}

(* The stage after s.                                                      *)
After(s) == Order[Min({j \in Later(s) : Due(Order[j])})]

(* Writing the limits of register r: a locked one ignores it.              *)
Write(r, l, h) ==
  /\ lo' = IF r \in locked THEN lo ELSE [lo EXCEPT ![r] = l]
  /\ hi' = IF r \in locked THEN hi ELSE [hi EXCEPT ![r] = h]
  /\ UNCHANGED <<locked, level, powerCtl>>

GoOn == stage' = After(stage) /\ clamping' = FALSE

(* The limit is written and its clamp bits come next.                      *)
ClampNext == clamping' = TRUE /\ UNCHANGED stage

(* ProgramPowerLimits sets the level even if the profile has none: 0.      *)
SetCTDPLevel ==
  /\ stage = "cTDP"
  /\ level' = IF "cTDP" \in locked THEN level ELSE policy.level
  /\ GoOn
  /\ UNCHANGED <<lo, hi, locked, powerCtl, setup, lockAt, cores>>

(* A window that cannot be encoded leaves the register alone.              *)
WindowRefused ==
  /\ stage \in {"PL12", "MMIO", "PSys", "PL3", "PP0"}
  /\ ~clamping
  /\ ~Encodable(Ask.time)
  /\ GoOn
  /\ UNCHANGED <<hardware, setup, lockAt, cores>>

(* A locked PL1/PL2 register is not written; nor is a mirror not found.    *)
LimitSkipped ==
  /\ stage \in {"PL12", "MMIO"}
  /\ ~clamping
  /\ Encodable(Ask.time)
  /\ stage \in locked \/ (stage = "MMIO" /\ ~facts.mchbar)
  /\ GoOn
  /\ UNCHANGED <<hardware, setup, lockAt, cores>>

SetPkgPowerLimit12 ==
  /\ stage \in {"PL12", "MMIO"} \ locked
  /\ ~clamping
  /\ Encodable(Ask.time)
  /\ stage = "MMIO" => facts.mchbar
  /\ Write(stage,
       IF Ask.on1 THEN Enabled(lo[stage], Bounded(Power(Ask.power1)), Ask.time)
                  ELSE Cleared(lo[stage]),
       IF Ask.on2 THEN Enabled(hi[stage], Power(Ask.power2), Ask.time)
                  ELSE Cleared(hi[stage]))
  /\ ClampNext
  /\ UNCHANGED <<setup, lockAt, cores>>

(* PL2 of the platform keeps the window it has.                            *)
SetPlatformPowerLimit12 ==
  /\ stage = "PSys"
  /\ ~clamping
  /\ Encodable(Ask.time)
  /\ Write(stage,
       IF Ask.on1 THEN Enabled(lo[stage], Power(Ask.power1), Ask.time) ELSE Cleared(lo[stage]),
       IF Ask.on2 THEN [hi[stage] EXCEPT !.on = TRUE, !.power = Lower(Power(Ask.power2), PowerMask)]
                  ELSE Disabled(hi[stage]))
  /\ ClampNext
  /\ UNCHANGED <<setup, lockAt, cores>>

(* A PL3 of no power is off.                                               *)
SetPlatformPowerLimit3 ==
  /\ stage = "PL3"
  /\ Encodable(Ask.time)
  /\ Write(stage,
       IF Ask.on1 /\ Power(Ask.power1) # 0 THEN Enabled(lo[stage], Power(Ask.power1), Ask.time)
                                           ELSE Disabled(lo[stage]),
       hi[stage])
  /\ GoOn
  /\ UNCHANGED <<setup, lockAt, cores>>

(* A current in A, stored in 1/8 A; PL4 has no enable bit.                 *)
SetPlatformPowerLimit4 ==
  /\ stage = "PL4"
  /\ LET eighths == IF Ask.power1 = MAX_POWAH THEN MAX_POWAH ELSE (Ask.power1 * 8) % (MAX_POWAH + 1)
     IN  Write(stage, [lo[stage] EXCEPT !.power = IF Ask.on1 THEN Lower(eighths, CurrentMask) ELSE 0],
               hi[stage])
  /\ GoOn
  /\ UNCHANGED <<setup, lockAt, cores>>

SetPP0PowerLimit ==
  /\ stage = "PP0"
  /\ ~clamping
  /\ Encodable(Ask.time)
  /\ Write(stage,
       IF Ask.on1 THEN Enabled(lo[stage], BoundedPP0(Power(Ask.power1)), Ask.time)
                  ELSE Disabled(lo[stage]),
       hi[stage])
  /\ ClampNext
  /\ UNCHANGED <<setup, lockAt, cores>>

(* The clamp bits, by a read-modify-write of their own.                    *)
Clamp ==
  /\ clamping
  /\ Write(stage, [lo[stage] EXCEPT !.clamp = Ask.clamp],
                  [hi[stage] EXCEPT !.clamp = IF stage \in TwoHalves THEN Ask.clamp ELSE @])
  /\ GoOn
  /\ UNCHANGED <<setup, lockAt, cores>>

(* The bits of MSR_POWER_CONTROL disable a feature.                        *)
ProgramPowerCtl ==
  /\ stage = "PowerCtl"
  /\ powerCtl' = (powerCtl \ ({f \in {"eeTurbo", "raceToHalt"} : policy[f] = 1}))
                    \cup {f \in {"eeTurbo", "raceToHalt"} : policy[f] = 0}
  /\ GoOn
  /\ UNCHANGED <<lo, hi, locked, level, setup, lockAt, cores>>

-----------------------------------------------------------------------------
LockAsked(r) == IF r = "cTDP" THEN policy.tdpLock = 1
                              ELSE r \in policy.program /\ policy.ask[r].lock = 1

(* The six locks on one processor, then those on the next.                 *)
NextLock ==
  IF lockAt < Len(LockOrder)
    THEN lockAt' = lockAt + 1 /\ UNCHANGED <<stage, cores>>
    ELSE /\ lockAt' = 1
         /\ cores' = cores + 1
         /\ stage' = IF cores' < NumCores THEN stage ELSE After(stage)

(* Mutant of SetLock: a register the profile does not program is locked.   *)
SetLockAlways ==
  /\ stage = "locks"
  /\ locked' = IF LockOrder[lockAt] = "cTDP" \/ policy.ask[LockOrder[lockAt]].lock = 1
                 THEN locked \cup {LockOrder[lockAt]} ELSE locked
  /\ NextLock
  /\ UNCHANGED <<lo, hi, level, powerCtl, setup, clamping>>

(* One lock of ProgramCoreLocks.  Lock bits are sticky: writing 0 does     *)
(* nothing to one that is set.                                             *)
SetLock ==
  /\ stage = "locks"
  /\ locked' = IF LockAsked(LockOrder[lockAt]) THEN locked \cup {LockOrder[lockAt]} ELSE locked
  /\ NextLock
  /\ UNCHANGED <<lo, hi, level, powerCtl, setup, clamping>>

(* Mutant of SetPL12MMIOLock: the mirror is not looked for.                *)
SetPL12MMIOLockBlind ==
  /\ stage = "mmioLock"
  /\ locked' = IF LockAsked("MMIO") THEN locked \cup {"MMIO"} ELSE locked
  /\ GoOn
  /\ UNCHANGED <<lo, hi, level, powerCtl, setup, lockAt, cores>>

(* ProgramPackageLocks_Stage2.                                             *)
SetPL12MMIOLock ==
  /\ stage = "mmioLock"
  /\ locked' = IF LockAsked("MMIO") /\ facts.mchbar THEN locked \cup {"MMIO"} ELSE locked
  /\ GoOn
  /\ UNCHANGED <<lo, hi, level, powerCtl, setup, lockAt, cores>>

(* An access faults and the processor stops there.                         *)
Fault ==
  /\ stage \notin {"done", "frozen"}
  /\ stage' = "frozen"
  /\ clamping' = FALSE
  /\ UNCHANGED <<hardware, setup, lockAt, cores>>

Next ==
  \/ SetCTDPLevel \/ WindowRefused \/ LimitSkipped
  \/ SetPkgPowerLimit12 \/ SetPlatformPowerLimit12
  \/ SetPlatformPowerLimit3 \/ SetPlatformPowerLimit4 \/ SetPP0PowerLimit
  \/ Clamp \/ ProgramPowerCtl \/ SetLock \/ SetPL12MMIOLock
  \/ Fault

Spec == Init /\ [][Next]_vars

-----------------------------------------------------------------------------
(* What a profile asks for, said without the code's encodings.             *)

(* The largest encodable power within the request.                         *)
Requested(mw) ==
  IF mw = MAX_POWAH THEN PowerMask
  ELSE Max({p \in 0 .. PowerMask : p * 1000 <= mw * facts.powerUnits})

(* The power nearest to p within the bounds of the firmware (0 is none).   *)
Within(p) ==
  LET allowed == {q \in 0 .. PowerMask : (facts.min = 0 \/ q >= facts.min)
                                         /\ (facts.max = 0 \/ q <= facts.max)}
      near(q) == IF q < p THEN p - q ELSE q - p
  IN  CHOOSE q \in allowed : \A other \in allowed : near(q) <= near(other)

(* The registers the program is able to give the limits of the profile.    *)
Programmed(r) ==
  /\ r \in policy.program \ bootLocked
  /\ r = "MMIO" => facts.mchbar
  /\ r # "PL4" => policy.ask[r].time \in 0 .. Duration(4 * MaxY + 3) \cup {MAX_POWAH}

Holds(half, on, p) == half.on = on /\ half.power = IF on THEN p ELSE 0

(* The window of register r is none longer than the shortest encodable one *)
(* that is no shorter than asked, and just that one (for "unlimited" the   *)
(* longest) where the firmware has no bound for it: the comments announce  *)
(* the bound for PL1, PL2 and PP0, and the code does not apply it.         *)
HoldsWindow(r, field, t) ==
  \E w \in Windows :
    /\ field = Field(w)
    /\ t # MAX_POWAH => \A v \in Windows : Duration(v) >= t => Duration(v) >= Duration(w)
    /\ facts.maxTau = 0 \/ r \in {"PL3", "PSys"} =>
         IF t = MAX_POWAH THEN w = 4 * MaxY + 3 ELSE Duration(w) >= t

(* Register r holds the limits asked of it.  (For the power of PP0 see     *)
(* PP0BoundsApplied; PL2 of the platform keeps its window; a current whose *)
(* eighths do not fit the 32 bits of the code is none.)                    *)
LimitsAsAsked(r) ==
  LET ask == policy.ask[r]
      p1  == Requested(ask.power1)
      p2  == Requested(ask.power2)
  IN  /\ r \in {"PL12", "MMIO"} => Holds(lo[r], ask.on1, Within(p1)) /\ Holds(hi[r], ask.on2, p2)
      /\ r = "PSys" => Holds(lo[r], ask.on1, p1) /\ Holds(hi[r], ask.on2, p2)
      /\ r = "PL3"  => Holds(lo[r], ask.on1 /\ p1 > 0, p1)
      /\ r = "PL4" /\ (8 * ask.power1 <= MAX_POWAH \/ ask.power1 = MAX_POWAH) =>
           lo[r].power = IF ask.on1 THEN Lower(8 * ask.power1, CurrentMask) ELSE 0
      /\ r = "PP0"  => lo[r].on = ask.on1
      /\ r # "PL4" /\ lo[r].on => HoldsWindow(r, lo[r].window, ask.time)
      /\ r \in {"PL12", "MMIO"} /\ hi[r].on => HoldsWindow(r, hi[r].window, ask.time)

ClampsAsAsked(r) ==
  /\ r \in TwoHalves \cup {"PP0"} => lo[r].clamp = policy.ask[r].clamp
  /\ r \in TwoHalves => hi[r].clamp = policy.ask[r].clamp

AsAsked(r) == LimitsAsAsked(r) /\ ClampsAsAsked(r)

LimitsDone == stage \in {"locks", "mmioLock", "done"}

(* The stage is past q.                                                    *)
Past(q) == \E j \in Later(q) : stage = Order[j]

(* Where the firmware has no mirror of the package limits the program      *)
(* neither writes nor locks one (gMCHBAR is 0 there and the address would  *)
(* be somebody else's).                                                    *)
MirrorInv ==
  facts.mchbar \/ (lo["MMIO"] = Boot /\ hi["MMIO"] = Boot /\ "MMIO" \notin locked \ bootLocked)

(* Only what the profile programs has a stage, and clamp bits are written  *)
(* only after the limits they belong to.                                   *)
StageInv ==
  /\ stage # "frozen" => Due(stage)
  /\ clamping => /\ stage \in TwoHalves \cup {"PP0"}
                 /\ Programmed(stage) \/ stage \in bootLocked

(* Each register the program can write holds its limits once its stage is  *)
(* past, all but the clamp bits in the middle of it; the others are never  *)
(* written.                                                                *)
LimitInv ==
  \A r \in Registers :
    /\ ~Programmed(r) => lo[r] = Boot /\ hi[r] = Boot
    /\ Programmed(r) /\ Past(r) => AsAsked(r)
    /\ Programmed(r) /\ clamping /\ stage = r => LimitsAsAsked(r)

(* Locks come last, only those asked for, and once a processor has passed  *)
(* a lock it is set.                                                       *)
LockInv ==
  /\ bootLocked \subseteq locked
  /\ stage \notin {"locks", "mmioLock", "done", "frozen"} =>
       locked = bootLocked /\ lockAt = 1 /\ cores = 0
  /\ "cTDP" \notin bootLocked /\ Past("cTDP") => level = policy.level
  /\ stage = "locks" => cores < NumCores
  /\ \A i \in DOMAIN LockOrder :
       /\ LimitsDone
       /\ i < lockAt \/ cores > 0 \/ stage # "locks"
       /\ LockAsked(LockOrder[i])
       => LockOrder[i] \in locked

(* Before the locks begin, every register the program can write holds the  *)
(* powers, enable and clamp bits of the profile, PL1 inside the bounds of  *)
(* the firmware, and the shortest window that is long enough, if the       *)
(* firmware has no bound for windows (HoldsWindow); every other register,  *)
(* one that is locked or whose window has no encoding included, is as the  *)
(* firmware left it.                                                       *)
LimitsInForce ==
  LimitsDone => \A r \in Registers :
    IF Programmed(r) THEN AsAsked(r) ELSE lo[r] = Boot /\ hi[r] = Boot

(* Until the next reset nobody can correct a locked register: whatever     *)
(* faults on the way, the program locks only a register whose lock the     *)
(* profile asks for, with all of the profile's limits in it (unless it     *)
(* could not write them); when it is done every lock asked for is set.     *)
LocksAsAsked ==
  /\ \A r \in locked \ bootLocked :
       /\ LockAsked(r)
       /\ r \in Registers /\ Programmed(r) => AsAsked(r)
       /\ r = "cTDP" => level = policy.level
  /\ stage = "done" => \A r \in Registers \cup {"cTDP"} :
       LockAsked(r) /\ (r = "MMIO" => facts.mchbar) => r \in locked

(* The invariant of the program: types, the mirror, the order of limits,   *)
(* clamp bits and locks, and what is locked.                               *)
PowerInv == TypeOK /\ MirrorInv /\ StageInv /\ LimitInv /\ LockInv /\ LocksAsAsked

(* PowerLimits.c:645: "Firmware bounds (PkgMinPow, PkgMaxPow, PkgMaxTau)   *)
(* are applied if non-zero."  PP0, like PL1, holds the power asked for,    *)
(* moved into the bounds.                                                  *)
PP0BoundsApplied ==
  LimitsDone /\ Programmed("PP0") /\ policy.ask["PP0"].on1
    => lo["PP0"].power = Within(Requested(policy.ask["PP0"].power1))

=============================================================================
