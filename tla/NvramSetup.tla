----------------------------- MODULE NvramSetup -----------------------------
(***************************************************************************)
(* ApplyNvramSetupPatches (src/src/NvramSetup.c) over many boots: it reads *)
(* the firmware's Setup variable, patches single bytes of it, writes it    *)
(* back, reads it again, and warm-resets the machine so that the firmware  *)
(* takes the new settings.  The variable outlives the reset, and each boot *)
(* starts from what the last one left.                                     *)
(*                                                                         *)
(* The variable is a sequence of bytes: offset o is element o + 1.  A      *)
(* patch is <<offset, value>>.  A read may fail in a flaky boot; a write   *)
(* may be stored, refused, or accepted with any of its bytes kept back.    *)
(***************************************************************************)
EXTENDS Naturals, Sequences, FiniteSets

CONSTANTS
  Bytes,           \* values of a byte
  Contents,        \* contents the variable may start with
  Configs,         \* [SetupVar] sections considered
  MaxFlakyBoots,   \* bound: boots in which reads may fail
  MaxRestores,     \* bound: warm resets in which the firmware restores what
                   \* it had before, or its defaults
  MaxPowerCycles   \* bound: power cycles, at any point of the code

Patches == Nat \X Bytes

ASSUME NvramAssumption ==
  /\ Contents \subseteq Seq(Bytes)
  /\ \A c \in Configs : /\ c.patches \in Seq(Patches)
                        /\ c.expectedSize \in Nat
                        /\ c.enabled \in BOOLEAN /\ c.doReboot \in BOOLEAN
                        /\ c.quiet \in BOOLEAN
  /\ MaxFlakyBoots \in Nat /\ MaxRestores \in Nat /\ MaxPowerCycles \in Nat

VARIABLES
  \* the firmware
  setup,       \* the variable; << >> when there is none
  bootNext,    \* "none", "current" or "other"
  flaky,       \* reads may fail in this boot
  flakyLeft, restoresLeft, cyclesLeft,
  cfg,         \* what ParseSetupVarSection found
  \* one run of ApplyNvramSetupPatches
  stage,
  data,        \* the buffer
  \* history
  bootSetup    \* setup when this boot began

firmware == <<flaky, flakyLeft, restoresLeft, cyclesLeft>>
vars == <<setup, bootNext, firmware, cfg, stage, data, bootSetup>>

Stages == {"read", "patch", "write", "verify", "countdown", "reset", "return"}

TypeOK ==
  /\ setup \in Seq(Bytes) /\ data \in Seq(Bytes) /\ bootSetup \in Seq(Bytes)
  /\ bootNext \in {"none", "current", "other"}
  /\ flaky \in BOOLEAN
  /\ flakyLeft \in 0 .. MaxFlakyBoots
  /\ restoresLeft \in 0 .. MaxRestores
  /\ cyclesLeft \in 0 .. MaxPowerCycles
  /\ cfg \in Configs
  /\ stage \in Stages

Init ==
  /\ setup \in Contents
  /\ bootNext \in {"none", "other"}
  /\ flaky = FALSE
  /\ flakyLeft = MaxFlakyBoots
  /\ restoresLeft = MaxRestores
  /\ cyclesLeft = MaxPowerCycles
  /\ cfg \in Configs
  /\ stage = "read"
  /\ data = << >>
  /\ bootSetup = setup

-----------------------------------------------------------------------------
Patch(i)   == cfg.patches[i]
PatchCount == Len(cfg.patches)

(* Every patch lies inside buf and holds there: the read-back comparison.  *)
Holds(buf) ==
  \A i \in 1 .. PatchCount :
    Patch(i)[1] < Len(buf) /\ buf[Patch(i)[1] + 1] = Patch(i)[2]

Outlying(size) == \E i \in 1 .. PatchCount : Patch(i)[1] >= size

(* Two patches ask for different values of one byte.                       *)
Conflict ==
  \E i, j \in 1 .. PatchCount : Patch(i)[1] = Patch(j)[1] /\ Patch(i)[2] # Patch(j)[2]

(* The patches are rejected as a whole.                                    *)
BadList(size) == Outlying(size) \/ Conflict

(* The buffer with the patches applied.                                    *)
Patched(buf) ==
  [o \in 1 .. Len(buf) |->
     IF \E i \in 1 .. PatchCount : Patch(i)[1] + 1 = o
     THEN CHOOSE b \in Bytes : \E i \in 1 .. PatchCount : Patch(i) = <<o - 1, b>>
     ELSE buf[o]]

(* Read the whole variable: it must exist and have the expected size.      *)
ReadSetup ==
  /\ stage = "read"
  /\ \/ /\ ~cfg.enabled \/ PatchCount = 0 \/ setup = << >> \/ flaky
           \/ (cfg.expectedSize > 0 /\ Len(setup) # cfg.expectedSize)
        /\ stage' = "return"
        /\ UNCHANGED data
     \/ /\ cfg.enabled /\ PatchCount > 0 /\ setup # << >>
        /\ cfg.expectedSize = 0 \/ Len(setup) = cfg.expectedSize
        /\ stage' = "patch"
        /\ data' = setup
  /\ UNCHANGED <<setup, bootNext, firmware, cfg, bootSetup>>

(* Mutant of PatchBuffer: the patches are not compared with each other.    *)
PatchBufferConflicting ==
  /\ stage = "patch"
  /\ IF Outlying(Len(data)) \/ Patched(data) = data
     THEN stage' = "return" /\ UNCHANGED data
     ELSE stage' = "write" /\ data' = Patched(data)
  /\ UNCHANGED <<setup, bootNext, firmware, cfg, bootSetup>>

(* Mutant of PatchBuffer: the variable is written even if nothing changes. *)
PatchBufferAlways ==
  /\ stage = "patch"
  /\ IF BadList(Len(data))
     THEN stage' = "return" /\ UNCHANGED data
     ELSE stage' = "write" /\ data' = Patched(data)
  /\ UNCHANGED <<setup, bootNext, firmware, cfg, bootSetup>>

(* Patch the buffer; a bad list, or nothing to change, ends the run.       *)
PatchBuffer ==
  /\ stage = "patch"
  /\ IF BadList(Len(data)) \/ Patched(data) = data
     THEN stage' = "return" /\ UNCHANGED data
     ELSE stage' = "write" /\ data' = Patched(data)
  /\ UNCHANGED <<setup, bootNext, firmware, cfg, bootSetup>>

(* SetVariable: refused, or EFI_SUCCESS with any of the bytes kept back.   *)
WriteSetup ==
  /\ stage = "write"
  /\ \/ stage' = "return" /\ UNCHANGED setup
     \/ /\ stage' = "verify"
        /\ \E kept \in SUBSET (1 .. Len(setup)) :
             setup' = [o \in 1 .. Len(setup) |-> IF o \in kept THEN setup[o] ELSE data[o]]
  /\ UNCHANGED <<bootNext, firmware, cfg, data, bootSetup>>

(* Mutant of Verify: the status of SetVariable is taken for the proof.     *)
VerifyTrusting ==
  /\ stage = "verify"
  /\ stage' = IF cfg.doReboot THEN "countdown" ELSE "return"
  /\ UNCHANGED <<setup, bootNext, firmware, cfg, data, bootSetup>>

(* The read-back: fail-closed.                                             *)
Verify ==
  /\ stage = "verify"
  /\ \/ stage' = "return" /\ (flaky \/ ~Holds(setup))
     \/ /\ Holds(setup)
        /\ stage' = IF cfg.doReboot THEN "countdown" ELSE "return"
  /\ UNCHANGED <<setup, bootNext, firmware, cfg, data, bootSetup>>

(* Any key cancels the countdown, which quiet mode skips.                  *)
RebootCancelled ==
  /\ stage = "countdown"
  /\ ~cfg.quiet
  /\ stage' = "return"
  /\ UNCHANGED <<setup, bootNext, firmware, cfg, data, bootSetup>>

(* SetBootNextToCurrent, then a warm reset.                                *)
Reset ==
  /\ stage = "countdown"
  /\ stage' = "reset"
  /\ bootNext' \in IF bootNext = "none" THEN {"none", "current"} ELSE {bootNext}
  /\ UNCHANGED <<setup, firmware, cfg, data, bootSetup>>

-----------------------------------------------------------------------------
(* The next boot: the firmware has consumed BootNext, UefiMain runs again. *)
Boot ==
  /\ stage' = "read"
  /\ bootNext' = "none"
  /\ data' = << >>
  /\ \/ flaky' = FALSE /\ UNCHANGED flakyLeft
     \/ flakyLeft > 0 /\ flaky' = TRUE /\ flakyLeft' = flakyLeft - 1
  /\ bootSetup' = setup'
  /\ UNCHANGED cfg

(* The firmware takes the new settings, or does not like them (a failed    *)
(* memory training) and restores others before it boots again.             *)
WarmBoot ==
  /\ stage = "reset"
  /\ \/ UNCHANGED <<setup, restoresLeft>>
     \/ /\ restoresLeft > 0 /\ restoresLeft' = restoresLeft - 1
        /\ setup' \in Contents
  /\ UNCHANGED cyclesLeft
  /\ Boot

(* Power is lost between any two steps, or switched off after a boot that  *)
(* went on; then the user may have loaded the firmware's defaults.         *)
PowerCycle ==
  /\ cyclesLeft > 0
  /\ cyclesLeft' = cyclesLeft - 1
  /\ \/ UNCHANGED setup
     \/ stage = "return" /\ setup' \in Contents
  /\ UNCHANGED restoresLeft
  /\ Boot

Steps ==
  \/ ReadSetup \/ PatchBuffer \/ WriteSetup \/ Verify
  \/ RebootCancelled \/ Reset

Next == Steps \/ WarmBoot \/ PowerCycle

Spec == Init /\ [][Next]_vars

(* The code runs on and the firmware comes back from a reset.              *)
FairSpec == Spec /\ WF_vars(Steps \/ WarmBoot)

-----------------------------------------------------------------------------
(* A run changes only bytes a patch names, to the value that patch asks    *)
(* for, and none at all when two patches contradict each other or the size *)
(* is not the one expected.  (Whether a patch outside the variable spoils  *)
(* the others is left open: the code and its manual differ.  Between the   *)
(* runs the variable belongs to the firmware and its user.)                *)
OnlyPatchedBytes ==
  [][ setup' # setup /\ stage \notin {"return", "reset"} =>
        /\ ~Conflict
        /\ cfg.expectedSize \in {0, Len(setup)}
        /\ Len(setup') = Len(setup)
        /\ \A o \in 1 .. Len(setup) :
             setup'[o] # setup[o] =>
               \E i \in 1 .. PatchCount : Patch(i) = <<o - 1, setup'[o]>> ]_vars

(* The machine is reset only when every patch was read back from the       *)
(* variable, and the variable is not what this boot found.                 *)
ResetMeansProgress ==
  stage = "reset" => Holds(setup) /\ setup # bootSetup

(* Until the write nothing has changed; what is written is the patched     *)
(* buffer, and it differs because some patch did not hold before.          *)
BufferInv ==
  /\ stage \in {"read", "patch", "write"} => setup = bootSetup
  /\ stage \in {"patch", "write"} => cfg.expectedSize \in {0, Len(setup)}
  /\ stage = "patch" => data = setup
  /\ stage = "write" => ~Conflict /\ data = Patched(setup)
  /\ stage \in {"write", "verify", "countdown", "reset"} => ~Holds(bootSetup)
  /\ stage \in {"countdown", "reset"} => Holds(setup)

PatchInv == TypeOK /\ BufferInv /\ ResetMeansProgress

(* Patching is idempotent: the machine does not reset for ever but comes   *)
(* to a boot that goes on, whatever the firmware does with the writes, as  *)
(* long as it does not restore the old bytes at every reset.               *)
RebootLoopEnds == stage = "read" ~> stage = "return"

=============================================================================
