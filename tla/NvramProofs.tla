---------------------------- MODULE NvramProofs ----------------------------
(***************************************************************************)
(* Proofs about NvramSetup for any contents, patch lists and number of     *)
(* boots.                                                                  *)
(*                                                                         *)
(* The firmware may keep back any byte of a write, so nothing is known of  *)
(* the variable after it except byte by byte: a byte is the old one or the *)
(* patched one.  The reset rests on the comparison after the write, and    *)
(* its progress on the one before: some patch did not hold.                *)
(***************************************************************************)
EXTENDS NvramSetup, TLAPS

(* The constants, without the flags of a section.                          *)
LEMMA Constants ==
  /\ Contents \subseteq Seq(Bytes)
  /\ \A c \in Configs : c.patches \in Seq(Nat \X Bytes) /\ c.expectedSize \in Nat
  /\ MaxFlakyBoots \in Nat /\ MaxRestores \in Nat /\ MaxPowerCycles \in Nat
BY Zenon, NvramAssumption DEF Patches

LEMMA PatchFacts ==
  ASSUME cfg \in Configs
  PROVE  /\ PatchCount \in Nat
         /\ \A i \in 1 .. PatchCount :
              /\ Patch(i)[1] \in Nat /\ Patch(i)[2] \in Bytes
              /\ Patch(i) = <<Patch(i)[1], Patch(i)[2]>>
<1>1. cfg.patches \in Seq(Nat \X Bytes)
  BY Constants
<1>2. \A i \in 1 .. Len(cfg.patches) : cfg.patches[i] \in Nat \X Bytes
  BY <1>1
<1>3. QED
  BY <1>1, <1>2 DEF PatchCount, Patch

(* The patched buffer has the same length; a byte that differs is what     *)
(* some patch asks for, and then not all patches held before.              *)
LEMMA PatchedFacts ==
  ASSUME cfg \in Configs, NEW buf \in Seq(Bytes)
  PROVE  /\ Patched(buf) \in Seq(Bytes)
         /\ Len(Patched(buf)) = Len(buf)
         /\ \A o \in 1 .. Len(buf) : Patched(buf)[o] # buf[o] =>
              \E i \in 1 .. PatchCount : Patch(i) = <<o - 1, Patched(buf)[o]>>
         /\ Patched(buf) # buf => ~Holds(buf)
<1> DEFINE Named(o) == \E i \in 1 .. PatchCount : Patch(i)[1] + 1 = o
           Value(o) == CHOOSE b \in Bytes : \E i \in 1 .. PatchCount : Patch(i) = <<o - 1, b>>
<1>1. ASSUME NEW o \in 1 .. Len(buf), Named(o)
      PROVE  /\ Value(o) \in Bytes
             /\ \E i \in 1 .. PatchCount : Patch(i) = <<o - 1, Value(o)>>
  <2>1. PICK i \in 1 .. PatchCount : Patch(i)[1] + 1 = o
    BY <1>1
  <2>2. Patch(i)[2] \in Bytes /\ Patch(i) = <<o - 1, Patch(i)[2]>>
    BY <2>1, PatchFacts
  <2>3. \E b \in Bytes : \E j \in 1 .. PatchCount : Patch(j) = <<o - 1, b>>
    BY <2>2
  <2>4. QED
    BY <2>3, Zenon
<1>2. \A o \in 1 .. Len(buf) : buf[o] \in Bytes
  OBVIOUS
<1> HIDE DEF Value
<1>3. Patched(buf) = [o \in 1 .. Len(buf) |-> IF Named(o) THEN Value(o) ELSE buf[o]]
  BY Zenon DEF Patched, Value
<1>4. /\ Patched(buf) \in Seq(Bytes) /\ Len(Patched(buf)) = Len(buf)
      /\ \A o \in 1 .. Len(buf) :
           Patched(buf)[o] = IF Named(o) THEN Value(o) ELSE buf[o]
  <2>1. Patched(buf) \in [1 .. Len(buf) -> Bytes]
    BY <1>1, <1>2, <1>3
  <2>2. Len(buf) \in Nat
    OBVIOUS
  <2>3. QED
    BY <1>3, <2>1, <2>2
<1>5. \A o \in 1 .. Len(buf) : Patched(buf)[o] # buf[o] =>
        \E i \in 1 .. PatchCount : Patch(i) = <<o - 1, Patched(buf)[o]>>
  BY <1>1, <1>4
<1>6. ASSUME Patched(buf) # buf, Holds(buf) PROVE FALSE
  <2>1. PICK o \in 1 .. Len(buf) : Patched(buf)[o] # buf[o]
    BY <1>4, <1>6
  <2>2. PICK i \in 1 .. PatchCount : Patch(i) = <<o - 1, Patched(buf)[o]>>
    BY <1>5, <2>1
  <2>3. Patch(i)[1] = o - 1 /\ Patch(i)[2] = Patched(buf)[o]
    BY <2>2
  <2>4. buf[o - 1 + 1] = Patched(buf)[o]
    BY <1>6, <2>3 DEF Holds
  <2>5. QED
    BY <2>1, <2>4
<1>7. QED
  BY <1>4, <1>5, <1>6

(* What a write leaves: each byte is the old one or the buffer's.          *)
LEMMA WriteFacts ==
  ASSUME setup \in Seq(Bytes), data \in Seq(Bytes), Len(data) = Len(setup),
         NEW kept \in SUBSET (1 .. Len(setup)),
         setup' = [o \in 1 .. Len(setup) |-> IF o \in kept THEN setup[o] ELSE data[o]]
  PROVE  /\ setup' \in Seq(Bytes) /\ Len(setup') = Len(setup)
         /\ \A o \in 1 .. Len(setup) : setup'[o] = setup[o] \/ setup'[o] = data[o]
<1>1. \A o \in 1 .. Len(setup) : setup[o] \in Bytes /\ data[o] \in Bytes
  OBVIOUS
<1>2. setup' \in [1 .. Len(setup) -> Bytes] /\ Len(setup) \in Nat
  BY <1>1
<1>3. QED
  BY <1>2

-----------------------------------------------------------------------------
LEMMA InitInv == Init => PatchInv
<1> SUFFICES ASSUME Init PROVE PatchInv
  OBVIOUS
<1>1. TypeOK
  <2>1. flaky \in BOOLEAN
    BY Zenon DEF Init
  <2>2. << >> \in Seq(Bytes) /\ setup \in Seq(Bytes) /\ bootSetup = setup
    BY Constants DEF Init
  <2>3. /\ flakyLeft \in 0 .. MaxFlakyBoots /\ restoresLeft \in 0 .. MaxRestores
        /\ cyclesLeft \in 0 .. MaxPowerCycles
    BY Constants DEF Init
  <2>4. bootNext \in {"none", "current", "other"} /\ stage \in Stages
    BY DEF Init, Stages
  <2>5. data = << >> /\ cfg \in Configs
    BY Zenon DEF Init
  <2>6. QED
    BY <2>1, <2>2, <2>3, <2>4, <2>5 DEF TypeOK
<1>2. BufferInv /\ ResetMeansProgress
  BY DEF Init, BufferInv, ResetMeansProgress
<1>3. QED
  BY <1>1, <1>2 DEF PatchInv

(* Holds and Conflict depend on the section, which a step never changes.   *)
LEMMA StepType == ASSUME TypeOK, BufferInv, [Next]_vars PROVE TypeOK' /\ cfg' = cfg
<1> USE Constants DEF TypeOK, Stages, firmware
<1>1. CASE ReadSetup
  <2>1. stage' \in {"return", "patch"} /\ data' \in {data, setup}
    BY <1>1 DEF ReadSetup
  <2>2. UNCHANGED <<setup, bootNext, firmware, cfg, bootSetup>>
    BY <1>1, Zenon DEF ReadSetup
  <2>3. QED
    BY <2>1, <2>2
<1>2. CASE PatchBuffer
  BY <1>2, PatchedFacts DEF PatchBuffer, BufferInv
<1>3. CASE WriteSetup
  <2>1. /\ stage = "write" /\ stage' \in {"return", "verify"}
        /\ UNCHANGED <<bootNext, firmware, cfg, data, bootSetup>>
    BY <1>3 DEF WriteSetup
  <2>2. Len(data) = Len(setup)
    BY <2>1, PatchedFacts DEF BufferInv
  <2>3. setup' \in Seq(Bytes)
    <3>1. CASE UNCHANGED setup
      BY <3>1
    <3>2. CASE setup' # setup
      <4>1. PICK kept \in SUBSET (1 .. Len(setup)) :
              setup' = [o \in 1 .. Len(setup) |-> IF o \in kept THEN setup[o] ELSE data[o]]
        BY <1>3, <3>2, Zenon DEF WriteSetup
      <4>2. QED
        BY <2>2, <4>1, WriteFacts
    <3>3. QED
      BY <3>1, <3>2
  <2>4. QED
    BY <2>1, <2>3
<1>4. CASE Verify
  <2>1. stage' \in Stages /\ UNCHANGED <<setup, bootNext, firmware, cfg, data, bootSetup>>
    BY <1>4 DEF Verify
  <2>2. QED
    BY <2>1
<1>5. CASE RebootCancelled
  BY <1>5 DEF RebootCancelled
<1>6. CASE Reset
  BY <1>6 DEF Reset
<1>7. ASSUME Boot, setup' \in Seq(Bytes), cyclesLeft' \in 0 .. MaxPowerCycles,
             restoresLeft' \in 0 .. MaxRestores
      PROVE  TypeOK' /\ cfg' = cfg
  <2>1. flaky' \in BOOLEAN
    BY <1>7, Zenon DEF Boot
  <2>2. flakyLeft' = flakyLeft \/ (flakyLeft > 0 /\ flakyLeft' = flakyLeft - 1)
    BY <1>7, Zenon DEF Boot
  <2>3. flakyLeft' \in 0 .. MaxFlakyBoots
    BY <2>2
  <2>4. /\ stage' = "read" /\ bootNext' = "none" /\ data' = << >>
        /\ bootSetup' = setup' /\ cfg' = cfg
    BY <1>7, Zenon DEF Boot
  <2>5. QED
    BY <1>7, <2>1, <2>3, <2>4
<1>8. CASE WarmBoot
  <2>1. /\ Boot /\ cyclesLeft' = cyclesLeft
        /\ \/ setup' = setup /\ restoresLeft' = restoresLeft
           \/ restoresLeft > 0 /\ restoresLeft' = restoresLeft - 1 /\ setup' \in Contents
    BY <1>8, Zenon DEF WarmBoot
  <2>2. setup' \in Seq(Bytes) /\ restoresLeft' \in 0 .. MaxRestores
    BY <2>1
  <2>3. QED
    BY <1>7, <2>1, <2>2
<1>9. CASE PowerCycle
  <2>1. Boot /\ (setup' = setup \/ setup' \in Contents)
    BY <1>9 DEF PowerCycle
  <2>2. /\ cyclesLeft > 0 /\ cyclesLeft' = cyclesLeft - 1
        /\ restoresLeft' = restoresLeft
    BY <1>9, Zenon DEF PowerCycle
  <2>3. setup' \in Seq(Bytes)
    BY <2>1
  <2>4. QED
    BY <1>7, <2>1, <2>2, <2>3
<1>10. CASE UNCHANGED vars
  BY <1>10 DEF vars
<1>11. QED
  BY <1>1, <1>2, <1>3, <1>4, <1>5, <1>6, <1>8, <1>9, <1>10 DEF Next, Steps

LEMMA StepBuffer == ASSUME TypeOK, BufferInv, [Next]_vars PROVE BufferInv'
<1>0. cfg' = cfg
  BY StepType
<1> USE DEF BufferInv, Holds, BadList, Conflict, Patch, PatchCount
<1>1. CASE ReadSetup
  <2>1. /\ stage = "read" /\ UNCHANGED <<setup, bootSetup, cfg>>
        /\ \/ stage' = "return"
           \/ /\ stage' = "patch" /\ data' = setup
              /\ cfg.expectedSize = 0 \/ Len(setup) = cfg.expectedSize
    BY <1>1, Zenon DEF ReadSetup
  <2>2. QED
    BY <2>1
<1>2. CASE PatchBuffer
  <2>1. CASE stage' = "return"
    BY <2>1
  <2>2. CASE stage' # "return"
    <3>1. /\ stage = "patch" /\ stage' = "write" /\ data' = Patched(data)
          /\ ~BadList(Len(data)) /\ Patched(data) # data
          /\ UNCHANGED <<setup, bootSetup, cfg>>
      BY <1>2, <2>2, Zenon DEF PatchBuffer
    <3>2. ~Holds(bootSetup)
      BY <3>1, PatchedFacts DEF TypeOK
    <3>3. Patched(setup)' = Patched(setup)
      BY <3>1 DEF Patched
    <3>4. QED
      BY <3>1, <3>2, <3>3
  <2>3. QED
    BY <2>1, <2>2
<1>3. CASE WriteSetup
  <2>1. /\ stage = "write" /\ stage' \in {"return", "verify"}
        /\ UNCHANGED <<cfg, data, bootSetup>>
    BY <1>3 DEF WriteSetup
  <2>2. QED
    BY <2>1
<1>4. CASE Verify
  <2>1. /\ stage = "verify" /\ UNCHANGED <<setup, bootSetup, cfg>>
        /\ stage' = "return" \/ (Holds(setup) /\ stage' \in {"countdown", "return"})
    BY <1>4 DEF Verify
  <2>2. QED
    BY <2>1
<1>5. CASE RebootCancelled
  BY <1>5 DEF RebootCancelled
<1>6. CASE Reset
  BY <1>6 DEF Reset
<1>7. CASE WarmBoot \/ PowerCycle
  <2>1. stage' = "read" /\ bootSetup' = setup'
    BY <1>7, Zenon DEF WarmBoot, PowerCycle, Boot
  <2>2. QED
    BY <2>1
<1>8. CASE UNCHANGED vars
  <2>1. UNCHANGED <<setup, cfg, stage, data, bootSetup>>
    BY <1>8 DEF vars
  <2>2. Patched(setup)' = Patched(setup)
    BY <2>1 DEF Patched
  <2>3. QED
    BY <2>1, <2>2
<1>9. QED
  BY <1>1, <1>2, <1>3, <1>4, <1>5, <1>6, <1>7, <1>8 DEF Next, Steps

LEMMA StepInv == ASSUME PatchInv, [Next]_vars PROVE PatchInv'
<1>1. TypeOK' /\ BufferInv'
  BY StepType, StepBuffer DEF PatchInv
<1>2. ResetMeansProgress'
  BY <1>1 DEF BufferInv, ResetMeansProgress
<1>3. QED
  BY <1>1, <1>2 DEF PatchInv

(* ApplyNvramSetupPatches resets the machine only when the read-back shows *)
(* every patch and the variable is not what this boot found.               *)
THEOREM PatchInvariant == Spec => []PatchInv
BY InitInv, StepInv, PTL DEF Spec

(* Whatever the firmware keeps back, a run changes only bytes that a patch *)
(* names, and none when two patches contradict or the size is wrong.       *)
THEOREM PatchesOnly == Spec => OnlyPatchedBytes
<1> DEFINE Only == setup' # setup /\ stage \notin {"return", "reset"} =>
        /\ ~Conflict
        /\ cfg.expectedSize \in {0, Len(setup)}
        /\ Len(setup') = Len(setup)
        /\ \A o \in 1 .. Len(setup) :
             setup'[o] # setup[o] =>
               \E i \in 1 .. PatchCount : Patch(i) = <<o - 1, setup'[o]>>
<1>1. ASSUME PatchInv, [Next]_vars PROVE Only \/ UNCHANGED vars
  <2>1. CASE WriteSetup
    <3>1. CASE UNCHANGED setup
      BY <3>1
    <3>2. CASE setup' # setup
      <4>1. PICK kept \in SUBSET (1 .. Len(setup)) :
              setup' = [o \in 1 .. Len(setup) |-> IF o \in kept THEN setup[o] ELSE data[o]]
        BY <2>1, <3>2, Zenon DEF WriteSetup
      <4>2. /\ stage = "write" /\ setup \in Seq(Bytes) /\ cfg \in Configs
            /\ ~Conflict /\ data = Patched(setup)
            /\ cfg.expectedSize \in {0, Len(setup)}
        BY <1>1, <2>1 DEF WriteSetup, PatchInv, TypeOK, BufferInv
      <4>3. /\ Len(setup') = Len(setup)
            /\ \A o \in 1 .. Len(setup) : setup'[o] = setup[o] \/ setup'[o] = data[o]
        BY <4>1, <4>2, PatchedFacts, WriteFacts
      <4>4. QED
        BY <4>2, <4>3, PatchedFacts
    <3>3. QED
      BY <3>1, <3>2
  <2>2. CASE UNCHANGED setup
    BY <2>2
  <2>3. CASE PowerCycle \/ WarmBoot
    <3>1. setup' = setup \/ stage \in {"return", "reset"}
      BY <2>3, Zenon DEF PowerCycle, WarmBoot
    <3>2. QED
      BY <3>1
  <2>4. Next => WriteSetup \/ PowerCycle \/ WarmBoot \/ UNCHANGED setup
    BY Zenon DEF Next, Steps, ReadSetup, PatchBuffer, Verify, RebootCancelled, Reset
  <2>5. QED
    BY <1>1, <2>1, <2>2, <2>3, <2>4, Zenon
<1>2. QED
  BY <1>1, PatchInvariant, PTL DEF Spec, OnlyPatchedBytes

=============================================================================
