-------------------------- MODULE SecureBootEnroll --------------------------
(***************************************************************************)
(* EnrollSecureBootKeys (src/src/SecureBootEnroll.c) over many boots.      *)
(* Each boot runs it once: SelfEnroll writes the embedded certificate into *)
(* db, KEK and an empty PK; then the .auth files of KeyDir are enrolled in *)
(* the order dbx, db, KEK, PK.  Either half may warm-reset the machine, so *)
(* what one boot leaves in the firmware's variables is what the next finds.*)
(*                                                                         *)
(* A variable holds a set of certificates; the empty set is EFI_NOT_FOUND. *)
(* A file is the set of certificates of its payload; the empty set is a    *)
(* file that is missing, unreadable, malformed or a deletion.              *)
(*                                                                         *)
(* The firmware decides about every write: it may store it, refuse it, or  *)
(* return EFI_SUCCESS and ignore it.  In a flaky boot any read may fail.   *)
(***************************************************************************)
EXTENDS Naturals, Sequences, FiniteSets

CONSTANTS
  Certs,            \* certificates
  Ours,             \* gUVCertDer
  Configs,          \* [SecureBoot] sections considered
  FileSets,         \* contents of KeyDir considered
  FactoryKeys,      \* contents the variables may start with
  MaxFlakyBoots,    \* bound: boots in which reads may fail
  MaxPowerCycles    \* bound: power cycles, at any point of the code

KeyVars == {"dbx", "db", "KEK", "PK"}

ASSUME EnrollAssumption ==
  /\ Ours \in Certs
  /\ Configs \subseteq [selfEnroll : BOOLEAN, selfReboot : BOOLEAN,
                        tryDeployed : BOOLEAN, enabled : BOOLEAN,
                        enroll : SUBSET KeyVars, rebootAfter : BOOLEAN,
                        quiet : BOOLEAN, fwUI : BOOLEAN]
  /\ FileSets \subseteq [KeyVars -> SUBSET Certs]
  /\ FactoryKeys \subseteq [KeyVars -> SUBSET Certs]
  /\ MaxFlakyBoots \in Nat /\ MaxPowerCycles \in Nat

VARIABLES
  \* the firmware
  keys,          \* db, dbx, KEK and PK
  standardMode,  \* SetupMode follows PK; some firmware always reports 0
  deployed,      \* DeployedMode was accepted
  bootNext,      \* "none", "current" or "other"
  flaky,         \* reads may fail in this boot
  flakyLeft, cyclesLeft,
  \* the ESP
  cfg, files,
  \* one run of EnrollSecureBootKeys
  stage,
  dbOk, kekOk,   \* locals of the SelfEnroll block
  changed,       \* `changed` there, `Changed` in the .auth block
  via,           \* the half that called SbeDoReboot
  \* history
  bootKeys       \* keys when this boot began

firmware == <<standardMode, flaky, flakyLeft, cyclesLeft>>
esp      == <<cfg, files>>
vars == <<keys, deployed, bootNext, firmware, esp, stage, dbOk, kekOk, changed,
          via, bootKeys>>

SelfStages == {"selfCheck", "selfDb", "selfKek", "selfPk", "selfFinish"}
AuthOrder  == <<"dbx", "db", "KEK", "PK">>
Stages     == SelfStages \cup {"auth", "reboot", "reset", "return"} \cup KeyVars

TypeOK ==
  /\ keys \in [KeyVars -> SUBSET Certs]
  /\ standardMode \in BOOLEAN
  /\ deployed \in BOOLEAN
  /\ bootNext \in {"none", "current", "other"}
  /\ flaky \in BOOLEAN
  /\ flakyLeft \in 0 .. MaxFlakyBoots
  /\ cyclesLeft \in 0 .. MaxPowerCycles
  /\ cfg \in Configs
  /\ files \in FileSets
  /\ stage \in Stages
  /\ dbOk \in BOOLEAN /\ kekOk \in BOOLEAN /\ changed \in BOOLEAN
  /\ via \in {"self", "auth"}
  /\ bootKeys \in [KeyVars -> SUBSET Certs]

Init ==
  /\ keys \in FactoryKeys
  /\ standardMode \in BOOLEAN
  /\ deployed = FALSE
  /\ bootNext \in {"none", "other"}
  /\ flaky = FALSE
  /\ flakyLeft = MaxFlakyBoots
  /\ cyclesLeft = MaxPowerCycles
  /\ cfg \in Configs
  /\ files \in FileSets
  /\ stage = "selfCheck"
  /\ dbOk = FALSE /\ kekOk = FALSE /\ changed = FALSE
  /\ via = "self"
  /\ bootKeys = keys

-----------------------------------------------------------------------------
(* What a check of the firmware's state may answer: a check that cannot    *)
(* read answers FALSE.                                                     *)
Read(fact) == {answer \in BOOLEAN : (answer => fact) /\ (fact => answer \/ flaky)}

(* SbeCertInVar when the variables are ks.                                 *)
CertInVar(ks, v) == Read(Ours \in ks[v])

IsSetupMode == Read(standardMode /\ keys["PK"] = {})

(* RT->SetVariable when variable v should become `new`: the outcomes that  *)
(* return EFI_SUCCESS.                                                     *)
Written(v, new) == {keys, [keys EXCEPT ![v] = new]}

(* SbeWriteCertToVar: refused, or written and then confirmed by a read.    *)
WriteCert(v, new, ok) ==
  \/ ok = FALSE /\ keys' = keys
  \/ \E ks \in Written(v, new) : keys' = ks /\ ok \in CertInVar(ks, v)

(* Idle once db and KEK hold the certificate outside Setup Mode.           *)
SelfCheck ==
  /\ stage = "selfCheck"
  /\ \/ ~cfg.selfEnroll /\ stage' = "auth"
     \/ /\ cfg.selfEnroll
        /\ \E d \in CertInVar(keys, "db"), k \in CertInVar(keys, "KEK"), s \in IsSetupMode :
             stage' = IF d /\ k /\ ~s THEN "auth" ELSE "selfDb"
  /\ UNCHANGED <<keys, deployed, bootNext, firmware, esp, dbOk, kekOk, changed, via, bootKeys>>

(* Mutant of SelfDb: the write replaces db instead of appending to it.     *)
SelfDbReplace ==
  /\ stage = "selfDb"
  /\ stage' = "selfKek"
  /\ kekOk' \in CertInVar(keys, "KEK")
  /\ WriteCert("db", {Ours}, dbOk')
  /\ changed' = dbOk'
  /\ UNCHANGED <<deployed, bootNext, firmware, esp, via, bootKeys>>

(* Mutant of SelfDb: a certificate that was already there counts as a      *)
(* change.                                                                 *)
SelfDbAlwaysChanged ==
  /\ stage = "selfDb"
  /\ stage' = "selfKek"
  /\ kekOk' \in CertInVar(keys, "KEK")
  /\ WriteCert("db", keys["db"] \cup {Ours}, dbOk')
  /\ changed' = dbOk'
  /\ UNCHANGED <<deployed, bootNext, firmware, esp, via, bootKeys>>

SelfDb ==
  /\ stage = "selfDb"
  /\ stage' = "selfKek"
  /\ kekOk' \in CertInVar(keys, "KEK")
  /\ \/ /\ TRUE \in CertInVar(keys, "db")
        /\ dbOk' = TRUE
        /\ changed' = FALSE
        /\ UNCHANGED keys
     \/ /\ FALSE \in CertInVar(keys, "db")
        /\ WriteCert("db", keys["db"] \cup {Ours}, dbOk')
        /\ changed' = dbOk'
  /\ UNCHANGED <<deployed, bootNext, firmware, esp, via, bootKeys>>

SelfKek ==
  /\ stage = "selfKek"
  /\ stage' = "selfPk"
  /\ IF dbOk /\ ~kekOk
     THEN /\ WriteCert("KEK", keys["KEK"] \cup {Ours}, kekOk')
          /\ changed' = (changed \/ kekOk')
     ELSE UNCHANGED <<keys, kekOk, changed>>
  /\ UNCHANGED <<dbOk, deployed, bootNext, firmware, esp, via, bootKeys>>

(* Mutant of SelfPk: PK is written although db or KEK was refused.         *)
SelfPkUnguarded ==
  /\ stage = "selfPk"
  /\ stage' = "selfFinish"
  /\ \/ /\ TRUE \in Read(keys["PK"] = {})
        /\ \E pkOk \in BOOLEAN :
             /\ WriteCert("PK", {Ours}, pkOk)
             /\ changed' = (changed \/ pkOk)
     \/ UNCHANGED <<keys, changed>>
  /\ UNCHANGED <<dbOk, kekOk, deployed, bootNext, firmware, esp, via, bootKeys>>

(* PK is written only when GetVariable says EFI_NOT_FOUND.                 *)
SelfPk ==
  /\ stage = "selfPk"
  /\ stage' = "selfFinish"
  /\ \/ /\ dbOk /\ kekOk
        /\ TRUE \in Read(keys["PK"] = {})
        /\ \E pkOk \in BOOLEAN :
             /\ WriteCert("PK", {Ours}, pkOk)
             /\ changed' = (changed \/ pkOk)
     \/ /\ ~(dbOk /\ kekOk) \/ FALSE \in Read(keys["PK"] = {})
        /\ UNCHANGED <<keys, changed>>
  /\ UNCHANGED <<dbOk, kekOk, deployed, bootNext, firmware, esp, via, bootKeys>>

(* Mutant of SelfFinish: DeployedMode is tried after a refused db or KEK.  *)
SelfFinishDeploysAlways ==
  /\ stage = "selfFinish"
  /\ \/ deployed' = deployed
     \/ cfg.tryDeployed /\ FALSE \in IsSetupMode /\ deployed' = TRUE
  /\ IF dbOk /\ kekOk /\ cfg.selfReboot /\ changed
     THEN stage' = "reboot" /\ via' = "self"
     ELSE stage' = "auth" /\ UNCHANGED via
  /\ UNCHANGED <<keys, dbOk, kekOk, changed, bootNext, firmware, esp, bootKeys>>

(* With db and KEK confirmed: try DeployedMode outside Setup Mode, reboot  *)
(* if asked to and something changed.                                      *)
SelfFinish ==
  /\ stage = "selfFinish"
  /\ \/ deployed' = deployed
     \/ /\ dbOk /\ kekOk
        /\ cfg.tryDeployed /\ FALSE \in IsSetupMode
        /\ deployed' = TRUE
  /\ IF dbOk /\ kekOk /\ cfg.selfReboot /\ changed
     THEN stage' = "reboot" /\ via' = "self"
     ELSE stage' = "auth" /\ UNCHANGED via
  /\ UNCHANGED <<keys, dbOk, kekOk, changed, bootNext, firmware, esp, bootKeys>>

-----------------------------------------------------------------------------
(* The .auth half starts, or is off, or finds no LoadedImage.              *)
AuthStart ==
  /\ stage = "auth"
  /\ \/ stage' = "return" /\ (~cfg.enabled \/ flaky)
     \/ stage' = "dbx" /\ cfg.enabled
  /\ changed' = FALSE
  /\ UNCHANGED <<keys, dbOk, kekOk, deployed, bootNext, firmware, esp, via, bootKeys>>

(* The stage after file v has been dealt with successfully.                *)
AfterFile(v, ch) ==
  CASE v = "dbx" -> "db"
    [] v = "db"  -> "KEK"
    [] v = "KEK" -> "PK"
    [] v = "PK"  -> IF ch /\ cfg.rebootAfter THEN "reboot" ELSE "return"

(* SBE_ATTR_APPEND for all but PK, which is replaced.                      *)
Enrolled(v) == IF v = "PK" THEN files[v] ELSE keys[v] \cup files[v]

(* EnrollOneVar returns EFI_SUCCESS, or is not called for v: the payload   *)
(* was there, or was written and then found.                               *)
EnrollFile(v) ==
  /\ stage = v
  /\ \/ /\ v \notin cfg.enroll
        /\ UNCHANGED <<keys, changed>>
     \/ /\ v \in cfg.enroll /\ files[v] # {}
        /\ files[v] \subseteq keys[v]
        /\ UNCHANGED <<keys, changed>>
     \/ /\ v \in cfg.enroll /\ files[v] # {}
        /\ ~(files[v] \subseteq keys[v])
        /\ keys' \in Written(v, Enrolled(v))
        /\ files[v] \subseteq keys'[v]
        /\ changed' = TRUE
  /\ stage' = AfterFile(v, changed')
  /\ via' = IF stage' = "reboot" THEN "auth" ELSE via
  /\ UNCHANGED <<dbOk, kekOk, deployed, bootNext, firmware, esp, bootKeys>>

(* EnrollOneVar fails, and the rest of the files is skipped: the file is   *)
(* unusable, a read fails, the write is refused or does not show up.       *)
EnrollFileFails(v) ==
  /\ stage = v
  /\ v \in cfg.enroll
  /\ \/ /\ files[v] = {} \/ flaky
        /\ UNCHANGED keys
     \/ /\ files[v] # {} /\ ~(files[v] \subseteq keys[v])
        /\ keys' \in Written(v, Enrolled(v))
        /\ files[v] \subseteq keys'[v] => flaky
  /\ stage' = "return"
  /\ UNCHANGED <<dbOk, kekOk, changed, deployed, bootNext, firmware, esp, via, bootKeys>>

-----------------------------------------------------------------------------
(* SbeDoReboot: a key stroke cancels the countdown, except when the        *)
(* question about the firmware UI is asked instead, or in quiet mode.      *)
RebootCancelled ==
  /\ stage = "reboot"
  /\ ~cfg.quiet /\ ~cfg.fwUI
  /\ stage' = IF via = "self" THEN "auth" ELSE "return"
  /\ UNCHANGED <<keys, deployed, bootNext, firmware, esp, dbOk, kekOk, changed, via, bootKeys>>

(* SbeSetBootNextToCurrent, then a warm reset.                             *)
Reset ==
  /\ stage = "reboot"
  /\ stage' = "reset"
  /\ bootNext' \in IF bootNext = "none" THEN {"none", "current"} ELSE {bootNext}
  /\ UNCHANGED <<keys, deployed, firmware, esp, dbOk, kekOk, changed, via, bootKeys>>

-----------------------------------------------------------------------------
(* The next boot: the firmware has consumed BootNext, UefiMain runs again. *)
Boot ==
  /\ stage' = "selfCheck"
  /\ bootNext' = "none"
  /\ dbOk' = FALSE /\ kekOk' = FALSE /\ changed' = FALSE /\ via' = "self"
  /\ \/ flaky' = FALSE /\ UNCHANGED flakyLeft
     \/ flakyLeft > 0 /\ flaky' = TRUE /\ flakyLeft' = flakyLeft - 1
  /\ bootKeys' = keys'
  /\ UNCHANGED <<esp, standardMode>>

WarmBoot ==
  /\ stage = "reset"
  /\ UNCHANGED <<keys, deployed, cyclesLeft>>
  /\ Boot

(* Power is lost between any two steps, or switched off after a boot that  *)
(* went on to the OS; then the user may also have reset the keys in the    *)
(* firmware's setup.                                                       *)
PowerCycle ==
  /\ cyclesLeft > 0
  /\ cyclesLeft' = cyclesLeft - 1
  /\ \/ UNCHANGED <<keys, deployed>>
     \/ stage = "return" /\ keys' \in FactoryKeys /\ deployed' = FALSE
  /\ Boot

Steps ==
  \/ SelfCheck \/ SelfDb \/ SelfKek \/ SelfPk \/ SelfFinish
  \/ AuthStart
  \/ \E v \in KeyVars : EnrollFile(v) \/ EnrollFileFails(v)
  \/ RebootCancelled \/ Reset

Next == Steps \/ WarmBoot \/ PowerCycle

Spec == Init /\ [][Next]_vars

(* The code runs on and the firmware comes back from a reset.              *)
FairSpec == Spec /\ WF_vars(Steps \/ WarmBoot)

-----------------------------------------------------------------------------
Trusted(ks) == Ours \in ks["db"] /\ Ours \in ks["KEK"]

(* The file for v was not asked for, or its certificates are in place.     *)
InPlace(v) == v \in cfg.enroll => files[v] # {} /\ files[v] \subseteq keys[v]

(* PK never seals an incomplete enrollment: SelfEnroll writes it only with *)
(* its certificate in db and KEK, the .auth half only with every requested *)
(* payload before it in place.                                             *)
PkSealsComplete ==
  [][ keys'["PK"] # keys["PK"] /\ stage # "return" =>
        \/ stage = "selfPk" /\ Trusted(keys)
        \/ /\ stage = "PK"
           /\ \A v \in KeyVars \ {"PK"} : InPlace(v)
    ]_vars

(* Whatever the firmware answers, a run never takes a certificate out of a *)
(* variable; only the owner's PK.auth may replace a platform key.          *)
NoKeyIsLost ==
  [][ stage # "return" =>
        \A v \in KeyVars : keys[v] \subseteq keys'[v] \/ (v = "PK" /\ stage = "PK") ]_vars

(* DeployedMode is asked for only with the certificate in db and KEK: a    *)
(* machine that enforces Secure Boot still accepts this program.           *)
DeployedOnlyWhenTrusted ==
  [][ deployed' /\ ~deployed => Trusted(keys) ]_vars

(* Every warm reset was preceded by a change of the variables in the same  *)
(* boot, unless a check could not read them.                               *)
ResetMeansProgress == stage = "reset" /\ ~flaky => keys # bootKeys

(* What the SelfEnroll block believes to be in the variables is there.     *)
BeliefInv ==
  stage \in {"selfKek", "selfPk", "selfFinish"} =>
    /\ dbOk => Ours \in keys["db"]
    /\ kekOk => Ours \in keys["KEK"]
    /\ stage = "selfKek" /\ ~kekOk => flaky \/ Ours \notin keys["KEK"]

(* The .auth half goes on to a file only when those before it are done.    *)
OrderInv ==
  /\ stage \in {"db", "KEK", "PK"} => InPlace("dbx")
  /\ stage \in {"KEK", "PK"} => InPlace("db")
  /\ stage = "PK" => InPlace("KEK")

(* The variables grow during a boot, the platform key until PK.auth, and   *)
(* a change that was confirmed shows as a certificate that is new.         *)
GrowthInv ==
  /\ \A v \in KeyVars \ {"PK"} : bootKeys[v] \subseteq keys[v]
  /\ \/ bootKeys["PK"] \subseteq keys["PK"]
     \/ stage \in {"reboot", "reset"} /\ via = "auth"
     \/ stage = "return"
  /\ changed /\ ~flaky => \E v \in KeyVars : ~(keys[v] \subseteq bootKeys[v])
  /\ stage \in {"reboot", "reset"} => changed

EnrollInv == TypeOK /\ BeliefInv /\ OrderInv /\ GrowthInv /\ ResetMeansProgress

(* Enrollment is idempotent: however the firmware treats the writes, the   *)
(* machine does not reset for ever but comes to a boot that goes on.       *)
RebootLoopEnds == stage = "selfCheck" ~> stage = "return"

=============================================================================
