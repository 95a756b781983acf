------------------------------ MODULE UefiMain ------------------------------
(***************************************************************************)
(* One start of UnderVolter.efi (src/src/UnderVolter.c): the settings, the *)
(* two stages that may reset the machine, the checks, the hook in the      *)
(* interrupt descriptor table, the programming of the processors, and the  *)
(* way out.  The components it calls have modules of their own; here each  *)
(* call is one step with all the outcomes its module allows:               *)
(*   NvramSetup, SecureBootEnroll  it returns, or resets the machine and   *)
(*                                 has then less left to do (the runs      *)
(*                                 nvram and secureboot check that);       *)
(*   Platform, SelfTest            it returns success or, Platform only,   *)
(*                                 an error, or a faulting access has      *)
(*                                 frozen the machine.                     *)
(***************************************************************************)
EXTENDS Config

CONSTANTS
  Cpus,       \* processors considered: [model, stepping]
  Disks,      \* identifiers of the disks considered
  DiskOf(_),  \* the disk of an identifier (see LoaderSearch)
  CpuTable,   \* gCpuConfigTable: a sequence of [model, stepping, uArch];
              \* the first entry stands for unknown processors
  LunarLake,  \* a model
  MaxWork     \* bound: resets that each of the two stages has work for

ASSUME UefiMainAssumption ==
  /\ CpuTable \in Seq(Range(CpuTable)) /\ CpuTable # << >>
  /\ MaxWork \in Nat

(* A machine: its processor, whether it has a console input and the MP     *)
(* services protocol, the size of its descriptor table, and its disk.      *)
Machines ==
  [cpu : Cpus, conIn : BOOLEAN, mpServices : BOOLEAN, idtEntries : 1 .. 256, disk : Disks]

Vectors    == {3, 6, 13, 14}
Overridden == {6, 13, 14}
Firmware   == [v \in Vectors |-> "firmware"]

VARIABLES
  machine,
  setupWork, keyWork,  \* resets that stored variables still call for
  idt,                 \* whose handler each vector names
  \* globals of the image
  step, gIniData, settings, gActiveCpuData, gISRsPatched, gBackupIDT,
  gPlatform,           \* the platform record is allocated
  ratio,               \* a value of the profile that is programmed
  \* history
  key                  \* the key that answered a question: "none", "F10",
                       \* "ESC" or "other"

world   == <<machine, setupWork, keyWork>>
hook    == <<idt, gISRsPatched, gBackupIDT>>
globals == <<gIniData, settings, gActiveCpuData, gPlatform, ratio>>
uvars   == <<world, hook, globals, step, key>>

Steps == {"off", "settings", "nvram", "keys", "cpu", "question", "checks", "environment",
          "discovery", "countdown", "policy", "programming", "selfTest", "unhook",
          "delay", "cleanup", "reset", "frozen"}

UTypeOK ==
  /\ machine \in Machines
  /\ setupWork \in 0 .. MaxWork /\ keyWork \in 0 .. MaxWork
  /\ idt \in [Vectors -> {"firmware", "probe"}]
  /\ gBackupIDT \in [Vectors -> {"firmware", "probe"}]
  /\ step \in Steps
  /\ DOMAIN settings = DOMAIN Defaults
  /\ gActiveCpuData \in DOMAIN CpuTable
  /\ gISRsPatched \in BOOLEAN /\ gPlatform \in BOOLEAN
  /\ ratio \in 0 .. 255
  /\ key \in {"none", "F10", "ESC", "other"}

(* The image's globals as they are linked.                                 *)
Linked ==
  /\ gIniData = NoText /\ settings = Defaults /\ gActiveCpuData = 1
  /\ gISRsPatched = FALSE /\ gBackupIDT = Firmware /\ gPlatform = FALSE
  /\ ratio = 0 /\ key = "none"

UInit ==
  /\ machine \in Machines
  /\ setupWork \in 0 .. MaxWork /\ keyWork \in 0 .. MaxWork
  /\ idt = Firmware
  /\ step = "off"
  /\ Linked

-----------------------------------------------------------------------------
Goto(s) == step' = s

(* The end of a call that may fail: on to s, or to the label Cleanup.      *)
GotoOrFail(s) == step' \in {s, "cleanup"}

(* A fault of a hardware access stops the processor with interrupts off    *)
(* (HandleProbingFault), or, without the hook, in the firmware's handler.  *)
MayFreeze(outcome) == outcome \/ Goto("frozen")

(* The globals of an image that is loaded next are as they are linked.     *)
Unloaded ==
  /\ gIniData' = NoText /\ settings' = Defaults /\ gActiveCpuData' = 1
  /\ gISRsPatched' = FALSE /\ gBackupIDT' = Firmware /\ gPlatform' = FALSE
  /\ ratio' = 0 /\ key' = "none"

(* StartImage: a fresh copy of the image, from where the loader found it.  *)
StartImage ==
  /\ step = "off"
  /\ Unloaded
  /\ Goto("settings")
  /\ UNCHANGED <<world, idt>>

(* EnsureIniLoaded and LoadAppSettings, for an image at `image`.           *)
ReadSettings(image) ==
  /\ step = "settings"
  /\ \E disk \in {DiskOf(machine.disk)} : \E files \in {IniFiles(disk, image)} :
       gIniData' = ReadIniFile(files)
  /\ settings' = LoadAppSettings(gIniData')
  /\ Goto("nvram")
  /\ UNCHANGED <<world, hook, gActiveCpuData, gPlatform, ratio, key>>

(* A stage that changes stored variables: without an INI file it has       *)
(* nothing to do; else some of its work may get done, and a reset means    *)
(* that some was done.                                                     *)
Provision(from, to, work) ==
  /\ step = from
  /\ \/ Goto(to) /\ work' \in (IF settings.gIniFound THEN 0 .. work ELSE {work})
     \/ /\ settings.gIniFound /\ work > 0
        /\ Goto("reset") /\ work' \in 0 .. work - 1

ApplyNvramSetupPatches ==
  /\ Provision("nvram", "keys", setupWork)
  /\ UNCHANGED <<machine, keyWork, hook, globals, key>>

EnrollSecureBootKeys ==
  /\ Provision("keys", "cpu", keyWork)
  /\ UNCHANGED <<machine, setupWork, hook, globals, key>>

(* The table, but for its first entry, is searched for the very stepping,  *)
(* then for the model.                                                     *)
DetectCpu ==
  LET cpu   == machine.cpu
      exact == SelectInSeq(Tail(CpuTable),
                 LAMBDA e : e.model = cpu.model /\ e.stepping = cpu.stepping)
      model == SelectInSeq(Tail(CpuTable), LAMBDA e : e.model = cpu.model)
  IN  /\ step = "cpu"
      /\ gActiveCpuData' = 1 + (IF exact # 0 THEN exact ELSE model)
      /\ Goto(IF exact # 0 \/ model # 0 THEN "checks" ELSE "question")
      /\ UNCHANGED <<world, hook, gIniData, settings, gPlatform, ratio, key>>

(* Mutant of AskAboutUnknownCpu: quiet mode takes the answer for granted.  *)
AskAboutUnknownCpuUnlessQuiet ==
  /\ step = "question"
  /\ IF settings.gAppQuietMode
     THEN Goto("checks") /\ UNCHANGED <<key, gIniData, settings>>
     ELSE \/ machine.conIn /\ Goto("checks") /\ key' = "F10" /\ UNCHANGED <<gIniData, settings>>
          \/ Goto("off") /\ UNCHANGED key
             /\ gIniData' = NoText /\ settings' = [settings EXCEPT !.gIniFound = FALSE]
  /\ UNCHANGED <<world, hook, gActiveCpuData, gPlatform, ratio>>

(* DisplayUnknownCpuWarning: only F10 goes on; any other key, the timer,   *)
(* quiet mode and a missing console return at once, after                  *)
(* ReleaseAppSettings but not by way of Cleanup.                           *)
AskAboutUnknownCpu ==
  /\ step = "question"
  /\ \/ /\ ~settings.gAppQuietMode /\ machine.conIn
        /\ key' = "F10" /\ Goto("checks")
        /\ UNCHANGED <<gIniData, settings>>
     \/ /\ key' \in IF settings.gAppQuietMode \/ ~machine.conIn
                    THEN {"none"} ELSE {"none", "other"}
        /\ Goto("off")
        /\ gIniData' = NoText /\ settings' = [settings EXCEPT !.gIniFound = FALSE]
  /\ UNCHANGED <<world, hook, gActiveCpuData, gPlatform, ratio>>

(* Lunar Lake, a missing INI file, and InitializeTscVars.                  *)
CheckSupport ==
  /\ step = "checks"
  /\ IF machine.cpu.model = LunarLake \/ ~settings.gIniFound
     THEN Goto("cleanup") ELSE GotoOrFail("environment")
  /\ UNCHANGED <<world, hook, globals, key>>

InstallSafeAsmExceptionHandler ==
  IF gISRsPatched \/ machine.idtEntries < 15 THEN UNCHANGED hook
  ELSE /\ gBackupIDT' = idt
       /\ idt' = [v \in Vectors |-> IF v \in Overridden THEN "probe" ELSE idt[v]]
       /\ gISRsPatched' = TRUE

RemoveAllInterruptOverrides ==
  IF ~gISRsPatched THEN UNCHANGED hook
  ELSE /\ idt' = [v \in Vectors |-> IF v \in Overridden THEN gBackupIDT[v] ELSE idt[v]]
       /\ gISRsPatched' = FALSE
       /\ UNCHANGED gBackupIDT

(* InitializeUefiEnvironment: MP services, the own number, then the hook   *)
(* and the first accesses to the hardware.                                 *)
InitializeUefiEnvironment ==
  /\ step = "environment"
  /\ \/ Goto("cleanup") /\ UNCHANGED hook
     \/ /\ machine.mpServices
        /\ MayFreeze(Goto("discovery"))
        /\ IF settings.gEnableSaferAsm THEN InstallSafeAsmExceptionHandler ELSE UNCHANGED hook
  /\ UNCHANGED <<world, globals, key>>

(* StartupPlatformInit frees the record when the discovery fails.          *)
StartupPlatformInit ==
  /\ step = "discovery"
  /\ MayFreeze(GotoOrFail("countdown"))
  /\ gPlatform' = (step' = "countdown")
  /\ UNCHANGED <<world, hook, gIniData, settings, gActiveCpuData, ratio, key>>

(* CheckForEmergencyExit: ESC during the countdown.                        *)
CheckForEmergencyExit ==
  /\ step = "countdown"
  /\ \/ Goto("policy") /\ UNCHANGED key
     \/ /\ ~settings.gAppQuietMode /\ settings.gEmergencyExit /\ machine.conIn
        /\ key' = "ESC" /\ Goto("cleanup")
  /\ UNCHANGED <<world, hook, globals>>

(* The first half of ApplyPolicy reads the profile.                        *)
ApplyComputerOwnersPolicy ==
  /\ step = "policy"
  /\ IF ~gPlatform \/ ~settings.gIniFound THEN Goto("cleanup") /\ UNCHANGED ratio
     ELSE /\ Goto("programming")
          /\ ratio' = ForcedRatio(gIniData, CpuTable[gActiveCpuData].uArch)
  /\ UNCHANGED <<world, hook, gIniData, settings, gActiveCpuData, gPlatform, key>>

(* Mutant of ApplyPolicy: an error returns from UefiMain where it stands.  *)
ApplyPolicyReturns ==
  /\ step = "programming"
  /\ MayFreeze(step' \in {"selfTest", "off"})
  /\ UNCHANGED <<world, hook, globals, key>>

(* The second half programs the processors.                                *)
ApplyPolicy ==
  /\ step = "programming"
  /\ MayFreeze(GotoOrFail("selfTest"))
  /\ UNCHANGED <<world, hook, globals, key>>

RunPowerManagementSelfTest ==
  /\ step = "selfTest"
  /\ IF settings.gSelfTestMaxRuns # 0 /\ ~settings.gAppQuietMode
     THEN MayFreeze(Goto("unhook")) ELSE Goto("unhook")
  /\ UNCHANGED <<world, hook, globals, key>>

(* The hook goes before the results and the delay are shown.               *)
Unhook ==
  /\ step = "unhook"
  /\ IF settings.gEnableSaferAsm THEN RemoveAllInterruptOverrides ELSE UNCHANGED hook
  /\ Goto("delay")
  /\ UNCHANGED <<world, globals, key>>

Delay ==
  /\ step = "delay"
  /\ Goto("cleanup")
  /\ UNCHANGED <<world, hook, globals, key>>

Cleanup ==
  /\ step = "cleanup"
  /\ RemoveAllInterruptOverrides
  /\ gPlatform' = FALSE
  /\ gIniData' = NoText /\ settings' = [settings EXCEPT !.gIniFound = FALSE]
  /\ Goto("off")
  /\ UNCHANGED <<world, gActiveCpuData, ratio, key>>

(* The machine comes up again: the firmware fills its descriptor table,    *)
(* and the image is not in memory.                                         *)
PowerOn ==
  /\ idt' = Firmware /\ Goto("off")
  /\ Unloaded
  /\ UNCHANGED world

(* The steps of a running image but the first.                             *)
UNext(image) ==
  \/ ReadSettings(image) \/ ApplyNvramSetupPatches \/ EnrollSecureBootKeys
  \/ DetectCpu \/ AskAboutUnknownCpu \/ CheckSupport \/ InitializeUefiEnvironment
  \/ StartupPlatformInit \/ CheckForEmergencyExit
  \/ ApplyComputerOwnersPolicy \/ ApplyPolicy
  \/ RunPowerManagementSelfTest \/ Unhook \/ Delay \/ Cleanup

-----------------------------------------------------------------------------
(* What the running image has taken from the firmware, and when it still   *)
(* has it: the handlers, the platform record, the INI text.                *)
HookInv ==
  /\ gBackupIDT = Firmware
  /\ idt = IF gISRsPatched
           THEN [v \in Vectors |-> IF v \in Overridden THEN "probe" ELSE "firmware"]
           ELSE Firmware
  /\ gISRsPatched => step \in {"discovery", "countdown", "policy", "programming",
                              "selfTest", "unhook", "delay", "cleanup", "frozen"}
  /\ gPlatform => step \in {"countdown", "policy", "programming", "selfTest", "unhook",
                           "delay", "cleanup", "frozen"}
  /\ step = "off" => gIniData = NoText

KnownModel == \E i \in 2 .. Len(CpuTable) : CpuTable[i].model = machine.cpu.model

(* What the checks passed so far have made sure of.                        *)
WishInv ==
  /\ settings.gIniFound <=> gIniData # NoText
  /\ step \in {"checks", "environment", "discovery", "countdown", "policy", "programming"}
       => KnownModel \/ (key = "F10" /\ ~settings.gAppQuietMode)
  /\ step \in {"environment", "discovery", "countdown", "policy", "programming"}
       => machine.cpu.model # LunarLake /\ settings.gIniFound
  /\ step \in {"discovery", "countdown", "policy", "programming"}
       => (settings.gEnableSaferAsm /\ machine.idtEntries >= 15 => gISRsPatched)
  /\ key = "ESC" => step \in {"cleanup", "off"}
  /\ step = "programming"
       => gPlatform /\ ratio = ForcedRatio(gIniData, CpuTable[gActiveCpuData].uArch)

(* Whenever the image has returned, by whatever way out, the firmware's    *)
(* handlers are back in the descriptor table, since the ones of the image  *)
(* go with its memory, and the platform record and the INI text are freed. *)
IdtGivenBack ==
  step = "off" => idt = Firmware /\ ~gPlatform /\ gIniData = NoText

(* The processors are programmed only if an INI file was found, the        *)
(* processor is of a known model, or its user was there and pressed F10,   *)
(* it is no Lunar Lake, and nobody pressed ESC; with the hook in place if  *)
(* it is asked for and fits; and a ratio comes from a section that names   *)
(* this architecture, or, when none does, from the generic one.            *)
ProgrammedOnlyOnWish ==
  step = "programming" =>
    /\ gPlatform /\ gIniData # NoText
    /\ machine.cpu.model # LunarLake
    /\ KnownModel \/ (key = "F10" /\ ~settings.gAppQuietMode)
    /\ key # "ESC"
    /\ settings.gEnableSaferAsm /\ machine.idtEntries >= 15
         => \A v \in Overridden : idt[v] = "probe"
    /\ ratio # 0 =>
         LET arch  == CpuTable[gActiveCpuData].uArch
             named == {gIniData[i].section.name : i \in
                        {j \in 1 .. Len(gIniData) : /\ gIniData[j].key = "Architecture"
                                                 /\ gIniData[j].value = arch}}
         IN  \E i \in 1 .. Len(gIniData) :
               /\ gIniData[i].key = "ForcedRatioForPCoreCounts"
               /\ gIniData[i].value % 256 = ratio
               /\ gIniData[i].section.name \in
                    IF named = {} THEN {"Profile.Generic"} ELSE named
=============================================================================
