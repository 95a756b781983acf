-------------------------- MODULE SecureBootProofs --------------------------
(***************************************************************************)
(* Proofs about SecureBootEnroll for any certificates, files, sections and *)
(* number of boots.                                                        *)
(*                                                                         *)
(* The firmware may ignore a write or fail a read, so the proofs use only  *)
(* what a check can answer: TRUE is always true, FALSE may be a failed     *)
(* read.  Every write but that of PK.auth grows its variable.              *)
(***************************************************************************)
EXTENDS SecureBootEnroll, TLAPS

(* A check that answers TRUE is right; one that answers FALSE is right     *)
(* unless reads fail in this boot.                                         *)
LEMMA CheckFacts ==
  ASSUME NEW ks, NEW v
  PROVE  /\ \A ok \in CertInVar(ks, v) : ok \in BOOLEAN
         /\ TRUE \in CertInVar(ks, v) => Ours \in ks[v]
         /\ FALSE \in CertInVar(ks, v) => flaky \/ Ours \notin ks[v]
BY Zenon DEF CertInVar, Read

LEMMA EmptyFacts ==
  /\ TRUE \in Read(keys["PK"] = {}) => keys["PK"] = {}
BY Zenon DEF Read

(* The constants, without the shape of a section.                          *)
LEMMA Constants ==
  /\ Ours \in Certs
  /\ FileSets \subseteq [KeyVars -> SUBSET Certs]
  /\ FactoryKeys \subseteq [KeyVars -> SUBSET Certs]
  /\ MaxFlakyBoots \in Nat /\ MaxPowerCycles \in Nat
BY Zenon, EnrollAssumption

(* What SbeWriteCertToVar does: the variable gets its new value or keeps   *)
(* the old one, and success means that the certificate is there.           *)
LEMMA WriteCertFacts ==
  ASSUME NEW v \in KeyVars, NEW new, NEW ok,
         keys \in [KeyVars -> SUBSET Certs],
         WriteCert(v, new, ok)
  PROVE  /\ ok \in BOOLEAN
         /\ keys' = keys \/ keys' = [keys EXCEPT ![v] = new]
         /\ ok = TRUE => Ours \in keys'[v]
<1>1. CASE ok = FALSE /\ keys' = keys
  BY <1>1
<1>2. CASE \E ks \in Written(v, new) : keys' = ks /\ ok \in CertInVar(ks, v)
  <2>1. PICK ks \in Written(v, new) : keys' = ks /\ ok \in CertInVar(ks, v)
    BY <1>2
  <2>2. ok = TRUE => Ours \in ks[v]
    BY <2>1, CheckFacts, Zenon
  <2>3. ok \in BOOLEAN
    BY <2>1, CheckFacts, Zenon
  <2>4. QED
    BY <2>1, <2>2, <2>3 DEF Written
<1>3. QED
  BY <1>1, <1>2 DEF WriteCert

-----------------------------------------------------------------------------
(* TypeOK in three parts: what the provers handle alike.                   *)
DataOK ==
  /\ keys \in [KeyVars -> SUBSET Certs]
  /\ bootKeys \in [KeyVars -> SUBSET Certs]
  /\ cfg \in Configs
  /\ files \in FileSets

ControlOK ==
  /\ bootNext \in {"none", "current", "other"}
  /\ flakyLeft \in 0 .. MaxFlakyBoots
  /\ cyclesLeft \in 0 .. MaxPowerCycles
  /\ stage \in Stages
  /\ via \in {"self", "auth"}

FlagsOK ==
  /\ standardMode \in BOOLEAN /\ deployed \in BOOLEAN /\ flaky \in BOOLEAN
  /\ dbOk \in BOOLEAN /\ kekOk \in BOOLEAN /\ changed \in BOOLEAN

LEMMA TypeParts ==
  /\ TypeOK <=> DataOK /\ ControlOK /\ FlagsOK
  /\ TypeOK' <=> DataOK' /\ ControlOK' /\ FlagsOK'
BY Zenon DEF TypeOK, DataOK, ControlOK, FlagsOK

(* The certificate is appended to variable v.                              *)
Appended(v) == keys' = keys \/ keys' = [keys EXCEPT ![v] = keys[v] \cup {Ours}]

(* The SelfEnroll steps: what is written, what is believed, and that a     *)
(* change is a certificate that was not there before.                      *)
LEMMA SelfDbFacts ==
  ASSUME DataOK, SelfDb
  PROVE  /\ Appended("db")
         /\ dbOk' \in BOOLEAN /\ kekOk' \in BOOLEAN /\ changed' \in BOOLEAN
         /\ dbOk' => Ours \in keys'["db"]
         /\ kekOk' => Ours \in keys["KEK"]
         /\ ~kekOk' => flaky \/ Ours \notin keys["KEK"]
         /\ changed' /\ ~flaky => Ours \in keys'["db"] /\ Ours \notin keys["db"]
<1> DEFINE new == keys["db"] \cup {Ours}
<1>1. /\ kekOk' \in BOOLEAN
      /\ kekOk' => Ours \in keys["KEK"]
      /\ ~kekOk' => flaky \/ Ours \notin keys["KEK"]
  BY Zenon, CheckFacts DEF SelfDb
<1>2. "db" \in KeyVars /\ keys \in [KeyVars -> SUBSET Certs]
  BY DEF DataOK, KeyVars
<1>3. CASE /\ TRUE \in CertInVar(keys, "db") /\ dbOk' = TRUE
           /\ changed' = FALSE /\ UNCHANGED keys
  <2>1. Ours \in keys["db"]
    BY <1>3, CheckFacts, Zenon
  <2>2. QED
    BY <1>1, <1>3, <2>1, Zenon DEF Appended
<1>4. CASE /\ FALSE \in CertInVar(keys, "db") /\ WriteCert("db", new, dbOk')
           /\ changed' = dbOk'
  <2>1. /\ keys' = keys \/ keys' = [keys EXCEPT !["db"] = new]
        /\ dbOk' \in BOOLEAN /\ (dbOk' = TRUE => Ours \in keys'["db"])
    BY <1>2, <1>4, WriteCertFacts, Zenon
  <2>2. flaky \/ Ours \notin keys["db"]
    BY <1>4, CheckFacts, Zenon
  <2>3. QED
    BY <1>1, <1>4, <2>1, <2>2, Zenon DEF Appended
<1>5. QED
  BY <1>3, <1>4, Zenon DEF SelfDb

LEMMA SelfKekFacts ==
  ASSUME DataOK, SelfKek, kekOk \in BOOLEAN, changed \in BOOLEAN
  PROVE  /\ Appended("KEK")
         /\ kekOk' \in BOOLEAN /\ changed' \in BOOLEAN
         /\ kekOk' => Ours \in keys'["KEK"] \/ (kekOk /\ keys' = keys)
         /\ changed' => changed \/ (Ours \in keys'["KEK"] /\ ~kekOk)
<1> DEFINE new == keys["KEK"] \cup {Ours}
<1>1. "KEK" \in KeyVars /\ keys \in [KeyVars -> SUBSET Certs]
  BY DEF DataOK, KeyVars
<1>2. CASE dbOk /\ ~kekOk
  <2>1. WriteCert("KEK", new, kekOk') /\ changed' = (changed \/ kekOk')
    BY <1>2, Zenon DEF SelfKek
  <2>2. /\ keys' = keys \/ keys' = [keys EXCEPT !["KEK"] = new]
        /\ kekOk' \in BOOLEAN /\ (kekOk' = TRUE => Ours \in keys'["KEK"])
    BY <1>1, <2>1, WriteCertFacts, Zenon
  <2>3. QED
    BY <1>2, <2>1, <2>2, Zenon DEF Appended
<1>3. CASE ~(dbOk /\ ~kekOk)
  BY <1>3, Zenon DEF SelfKek, Appended
<1>4. QED
  BY <1>2, <1>3, Zenon

LEMMA SelfPkFacts ==
  ASSUME DataOK, SelfPk, changed \in BOOLEAN
  PROVE  /\ Appended("PK")
         /\ keys' # keys => dbOk /\ kekOk /\ keys["PK"] = {}
         /\ changed' \in BOOLEAN
         /\ changed' => changed \/ (keys["PK"] = {} /\ Ours \in keys'["PK"])
<1>1. "PK" \in KeyVars /\ keys \in [KeyVars -> SUBSET Certs]
  BY DEF DataOK, KeyVars
<1>2. CASE UNCHANGED <<keys, changed>>
  BY <1>2, Zenon DEF Appended
<1>3. ASSUME NEW pkOk \in BOOLEAN, dbOk /\ kekOk, TRUE \in Read(keys["PK"] = {}),
             WriteCert("PK", {Ours}, pkOk), changed' = (changed \/ pkOk)
      PROVE  /\ Appended("PK")
             /\ dbOk /\ kekOk /\ keys["PK"] = {}
             /\ changed' \in BOOLEAN
             /\ changed' => changed \/ Ours \in keys'["PK"]
  <2>1. keys["PK"] = {}
    BY <1>3, EmptyFacts, Zenon
  <2>2. /\ keys' = keys \/ keys' = [keys EXCEPT !["PK"] = {Ours}]
        /\ pkOk = TRUE => Ours \in keys'["PK"]
    BY <1>1, <1>3, WriteCertFacts, Zenon
  <2>3. keys["PK"] \cup {Ours} = {Ours}
    BY <2>1
  <2>4. Appended("PK")
    BY <2>2, <2>3 DEF Appended
  <2>5. changed' \in BOOLEAN /\ (changed' => changed \/ Ours \in keys'["PK"])
    BY <1>3, <2>2, Zenon
  <2>6. QED
    BY <1>3, <2>1, <2>4, <2>5, Zenon
<1>4. QED
  BY <1>2, <1>3, Zenon DEF SelfPk

(* The frame of those steps, apart from the values they compute.           *)
LEMMA SelfFrame ==
  ASSUME SelfDb \/ SelfKek \/ SelfPk
  PROVE  /\ UNCHANGED <<deployed, bootNext, firmware, esp, via, bootKeys>>
         /\ SelfDb => stage = "selfDb" /\ stage' = "selfKek"
         /\ SelfKek => stage = "selfKek" /\ stage' = "selfPk" /\ dbOk' = dbOk
         /\ SelfPk => /\ stage = "selfPk" /\ stage' = "selfFinish"
                      /\ dbOk' = dbOk /\ kekOk' = kekOk
BY Zenon DEF SelfDb, SelfKek, SelfPk

LEMMA AppendedData ==
  ASSUME DataOK, NEW v \in KeyVars, Appended(v), UNCHANGED <<esp, bootKeys>>
  PROVE  DataOK'
BY Constants DEF DataOK, Appended, esp

(* The contents of the variables and of the files keep their types.        *)
LEMMA StepData == ASSUME DataOK, FlagsOK, [Next]_vars PROVE DataOK'
<1> USE Constants DEF DataOK, firmware, esp
<1>1. CASE SelfCheck
  BY <1>1 DEF SelfCheck
<1>2. CASE SelfDb
  BY <1>2, SelfDbFacts, SelfFrame, AppendedData, Zenon DEF KeyVars
<1>3. CASE SelfKek
  BY <1>3, SelfKekFacts, SelfFrame, AppendedData, Zenon DEF KeyVars, FlagsOK
<1>4. CASE SelfPk
  BY <1>4, SelfPkFacts, SelfFrame, AppendedData, Zenon DEF KeyVars, FlagsOK
<1>5. CASE SelfFinish
  BY <1>5 DEF SelfFinish
<1>6. CASE AuthStart
  BY <1>6 DEF AuthStart
<1>7. ASSUME NEW v \in KeyVars, EnrollFile(v) PROVE DataOK'
  BY <1>7 DEF EnrollFile, Written, Enrolled, KeyVars
<1>8. ASSUME NEW v \in KeyVars, EnrollFileFails(v) PROVE DataOK'
  BY <1>8 DEF EnrollFileFails, Written, Enrolled, KeyVars
<1>9. CASE RebootCancelled
  BY <1>9 DEF RebootCancelled
<1>10. CASE Reset
  BY <1>10 DEF Reset
<1>11. CASE WarmBoot
  BY <1>11 DEF WarmBoot, Boot
<1>12. CASE PowerCycle
  BY <1>12 DEF PowerCycle, Boot
<1>13. CASE UNCHANGED vars
  BY <1>13 DEF vars
<1>14. QED
  BY <1>1, <1>2, <1>3, <1>4, <1>5, <1>6, <1>7, <1>8, <1>9, <1>10, <1>11, <1>12,
     <1>13 DEF Next, Steps

LEMMA StepControl == ASSUME ControlOK, FlagsOK, [Next]_vars PROVE ControlOK'
<1> USE Constants DEF ControlOK, Stages, SelfStages, KeyVars, firmware, esp
<1>1. CASE SelfCheck
  <2>1. stage' \in {"auth", "selfDb"}
    BY <1>1 DEF SelfCheck
  <2>2. QED
    BY <1>1, <2>1 DEF SelfCheck
<1>2. CASE SelfDb \/ SelfKek \/ SelfPk
  BY <1>2, SelfFrame
<1>3. CASE SelfFinish
  BY <1>3 DEF SelfFinish
<1>4. CASE AuthStart
  BY <1>4 DEF AuthStart
<1>5. ASSUME NEW v \in KeyVars, EnrollFile(v) PROVE ControlOK'
  <2>1. stage' \in Stages /\ via' \in {"self", "auth"}
    BY <1>5 DEF EnrollFile, AfterFile
  <2>2. UNCHANGED <<bootNext, firmware, cyclesLeft>>
    BY <1>5 DEF EnrollFile
  <2>3. QED
    BY <2>1, <2>2
<1>6. ASSUME NEW v \in KeyVars, EnrollFileFails(v) PROVE ControlOK'
  BY <1>6 DEF EnrollFileFails
<1>7. CASE RebootCancelled
  BY <1>7 DEF RebootCancelled
<1>8. CASE Reset
  BY <1>8 DEF Reset
<1>9. ASSUME Boot, cyclesLeft' \in 0 .. MaxPowerCycles PROVE ControlOK'
  <2>1. flakyLeft' = flakyLeft \/ (flakyLeft > 0 /\ flakyLeft' = flakyLeft - 1)
    BY <1>9 DEF Boot
  <2>2. stage' = "selfCheck" /\ bootNext' = "none" /\ via' = "self"
    BY <1>9, Zenon DEF Boot
  <2>3. QED
    BY <1>9, <2>1, <2>2
<1>10. CASE WarmBoot
  BY <1>9, <1>10, Zenon DEF WarmBoot
<1>11. CASE PowerCycle
  <2>1. Boot /\ cyclesLeft > 0 /\ cyclesLeft' = cyclesLeft - 1
    BY <1>11, Zenon DEF PowerCycle
  <2>2. QED
    BY <1>9, <2>1
<1>12. CASE UNCHANGED vars
  BY <1>12 DEF vars
<1>13. QED
  BY <1>1, <1>2, <1>3, <1>4, <1>5, <1>6, <1>7, <1>8, <1>10, <1>11, <1>12
     DEF Next, Steps

LEMMA StepFlags == ASSUME DataOK, FlagsOK, [Next]_vars PROVE FlagsOK'
<1> USE DEF FlagsOK, firmware, esp
<1>1. CASE SelfCheck
  BY <1>1, Zenon DEF SelfCheck
<1>2. CASE SelfDb
  BY <1>2, SelfDbFacts, SelfFrame, Zenon
<1>3. CASE SelfKek
  BY <1>3, SelfKekFacts, SelfFrame, Zenon
<1>4. CASE SelfPk
  BY <1>4, SelfPkFacts, SelfFrame, Zenon
<1>5. CASE SelfFinish
  BY <1>5, Zenon DEF SelfFinish
<1>6. CASE AuthStart
  BY <1>6, Zenon DEF AuthStart
<1>7. ASSUME NEW v \in KeyVars, EnrollFile(v) PROVE FlagsOK'
  BY <1>7, Zenon DEF EnrollFile
<1>8. ASSUME NEW v \in KeyVars, EnrollFileFails(v) PROVE FlagsOK'
  BY <1>8, Zenon DEF EnrollFileFails
<1>9. CASE RebootCancelled
  BY <1>9, Zenon DEF RebootCancelled
<1>10. CASE Reset
  BY <1>10, Zenon DEF Reset
<1>11. CASE WarmBoot
  BY <1>11, Zenon DEF WarmBoot, Boot
<1>12. CASE PowerCycle
  BY <1>12, Zenon DEF PowerCycle, Boot
<1>13. CASE UNCHANGED vars
  BY <1>13, Zenon DEF vars
<1>14. QED
  BY <1>1, <1>2, <1>3, <1>4, <1>5, <1>6, <1>7, <1>8, <1>9, <1>10, <1>11, <1>12,
     <1>13, Zenon DEF Next, Steps

-----------------------------------------------------------------------------
(* What Appended leaves alone and what it grows.                           *)
LEMMA AppendedFacts ==
  ASSUME DataOK, NEW v \in KeyVars, Appended(v)
  PROVE  /\ \A w \in KeyVars : keys[w] \subseteq keys'[w]
         /\ \A w \in KeyVars \ {v} : keys'[w] = keys[w]
BY DEF DataOK, Appended

(* A successful file leaves its payload in the variable; a file other than *)
(* PK.auth grows its variable; no file touches another variable.           *)
LEMMA FileFacts ==
  ASSUME DataOK, NEW v \in KeyVars, EnrollFile(v) \/ EnrollFileFails(v)
  PROVE  /\ stage = v
         /\ \A w \in KeyVars \ {v} : keys'[w] = keys[w]
         /\ v # "PK" => keys[v] \subseteq keys'[v]
         /\ EnrollFile(v) /\ v \in cfg.enroll => files[v] # {} /\ files[v] \subseteq keys'[v]
         /\ UNCHANGED <<firmware, esp, bootKeys>>
<1>1. CASE EnrollFile(v)
  BY <1>1 DEF EnrollFile, DataOK, Written, Enrolled
<1>2. CASE EnrollFileFails(v)
  <2>1. stage = v /\ stage' = "return" /\ UNCHANGED <<firmware, esp, bootKeys>>
    BY <1>2 DEF EnrollFileFails
  <2>2. keys' = keys \/ keys' = [keys EXCEPT ![v] = Enrolled(v)]
    BY <1>2 DEF EnrollFileFails, Written
  <2>3. QED
    BY <1>1, <2>1, <2>2 DEF DataOK, Enrolled
<1>3. QED
  BY <1>1, <1>2

LEMMA AfterFileFacts ==
  ASSUME NEW ch
  PROVE  /\ AfterFile("dbx", ch) = "db"
         /\ AfterFile("db", ch) = "KEK"
         /\ AfterFile("KEK", ch) = "PK"
         /\ AfterFile("PK", ch) \in {"reboot", "return"}
         /\ AfterFile("PK", ch) = "reboot" => ch
<1>1. CASE ch /\ cfg.rebootAfter
  BY <1>1 DEF AfterFile
<1>2. CASE ~(ch /\ cfg.rebootAfter)
  BY <1>2 DEF AfterFile
<1>3. QED
  BY <1>1, <1>2

LEMMA StepBelief == ASSUME TypeOK, BeliefInv, [Next]_vars PROVE BeliefInv'
<1>0. DataOK /\ FlagsOK
  BY TypeParts, Zenon
<1> DEFINE Self == stage' \in {"selfKek", "selfPk", "selfFinish"}
<1>1. CASE SelfDb
  BY <1>0, <1>1, SelfDbFacts, SelfFrame, AppendedFacts DEF BeliefInv, KeyVars, firmware
<1>2. CASE SelfKek
  BY <1>0, <1>2, SelfKekFacts, SelfFrame, AppendedFacts DEF BeliefInv, KeyVars, FlagsOK
<1>3. CASE SelfPk
  BY <1>0, <1>3, SelfPkFacts, SelfFrame, AppendedFacts DEF BeliefInv, KeyVars, FlagsOK
<1>4. CASE SelfCheck
  BY <1>4 DEF SelfCheck, BeliefInv
<1>5. CASE SelfFinish
  BY <1>5 DEF SelfFinish, BeliefInv
<1>6. CASE AuthStart
  BY <1>6 DEF AuthStart, BeliefInv
<1>7. ASSUME NEW v \in KeyVars, EnrollFile(v) \/ EnrollFileFails(v) PROVE ~Self
  BY <1>7 DEF EnrollFile, EnrollFileFails, AfterFile, KeyVars
<1>8. CASE RebootCancelled \/ Reset \/ WarmBoot \/ PowerCycle
  <2>1. ~Self
    BY <1>8 DEF RebootCancelled, Reset, WarmBoot, PowerCycle, Boot
  <2>2. QED
    BY <2>1 DEF BeliefInv
<1>9. CASE UNCHANGED vars
  BY <1>9 DEF vars, firmware, BeliefInv
<1>10. QED
  BY <1>1, <1>2, <1>3, <1>4, <1>5, <1>6, <1>7, <1>8, <1>9 DEF Next, Steps, BeliefInv

LEMMA StepOrder == ASSUME TypeOK, OrderInv, [Next]_vars PROVE OrderInv'
<1>0. DataOK /\ FlagsOK
  BY TypeParts, Zenon
<1>1. CASE \E v \in KeyVars : EnrollFile(v)
  <2>1. PICK v \in KeyVars : EnrollFile(v)
    BY <1>1
  <2>2. stage = v /\ stage' = AfterFile(v, changed')
    BY <2>1 DEF EnrollFile
  <2>3. \/ v = "dbx" /\ stage' = "db"
        \/ v = "db"  /\ stage' = "KEK"
        \/ v = "KEK" /\ stage' = "PK"
        \/ v = "PK"  /\ stage' \notin KeyVars
    BY <2>2, AfterFileFacts DEF KeyVars
  <2>4. /\ UNCHANGED <<cfg, files>>
        /\ \A w \in KeyVars \ {v} : keys'[w] = keys[w]
        /\ v \in cfg.enroll => files[v] # {} /\ files[v] \subseteq keys'[v]
    BY <1>0, <2>1, FileFacts DEF esp
  <2>5. QED
    BY <2>2, <2>3, <2>4 DEF OrderInv, InPlace, KeyVars
<1>2. CASE stage' \notin {"db", "KEK", "PK"}
  BY <1>2 DEF OrderInv
<1>3. CASE UNCHANGED vars
  BY <1>3 DEF OrderInv, InPlace, vars, esp
<1>4. Next => \/ \E v \in KeyVars : EnrollFile(v)
              \/ stage' \notin {"db", "KEK", "PK"}
  BY DEF Next, Steps, SelfCheck, SelfDb, SelfKek, SelfPk, SelfFinish, AuthStart,
     EnrollFileFails, RebootCancelled, Reset, WarmBoot, PowerCycle, Boot
<1>5. QED
  BY <1>1, <1>2, <1>3, <1>4

(* The second and the third part of GrowthInv, named.                      *)
PkGrows == \/ bootKeys["PK"] \subseteq keys["PK"]
           \/ stage \in {"reboot", "reset"} /\ via = "auth"
           \/ stage = "return"

ChangeShows == changed /\ ~flaky => \E v \in KeyVars : ~(keys[v] \subseteq bootKeys[v])

LEMMA GrowthParts ==
  /\ GrowthInv <=> /\ \A v \in KeyVars \ {"PK"} : bootKeys[v] \subseteq keys[v]
                   /\ PkGrows /\ ChangeShows
                   /\ stage \in {"reboot", "reset"} => changed
  /\ GrowthInv' <=> /\ \A v \in KeyVars \ {"PK"} : bootKeys'[v] \subseteq keys'[v]
                    /\ PkGrows' /\ ChangeShows'
                    /\ stage' \in {"reboot", "reset"} => changed'
BY Zenon DEF GrowthInv, PkGrows, ChangeShows

(* A SelfEnroll step that writes keeps the growth: nothing is taken out of *)
(* a variable, and what it calls a change is one.                          *)
LEMMA GrowthOfAppend ==
  ASSUME DataOK, GrowthInv, NEW v \in KeyVars, Appended(v),
         stage \in {"selfDb", "selfKek", "selfPk"},
         stage' \in {"selfKek", "selfPk", "selfFinish"},
         UNCHANGED <<firmware, bootKeys>>,
         changed' /\ ~flaky => changed \/ (Ours \in keys'[v] /\ Ours \notin keys[v])
  PROVE  GrowthInv'
<1>1. \A w \in KeyVars : keys[w] \subseteq keys'[w]
  BY AppendedFacts
<1>2. \A w \in KeyVars : bootKeys[w] \subseteq keys[w]
  BY GrowthParts DEF PkGrows, KeyVars
<1>3. ChangeShows'
  <2>1. SUFFICES ASSUME changed' /\ ~flaky
                 PROVE  \E w \in KeyVars : ~(keys'[w] \subseteq bootKeys[w])
    BY Zenon DEF ChangeShows, firmware
  <2>2. CASE changed
    <3>1. PICK w \in KeyVars : ~(keys[w] \subseteq bootKeys[w])
      BY <2>1, <2>2, GrowthParts, Zenon DEF ChangeShows
    <3>2. QED
      BY <1>1, <3>1
  <2>3. CASE Ours \in keys'[v] /\ Ours \notin keys[v]
    BY <1>2, <2>3
  <2>4. QED
    BY <2>1, <2>2, <2>3, Zenon
<1>4. QED
  BY <1>1, <1>2, <1>3, GrowthParts DEF PkGrows, KeyVars

(* So does a file: PK.auth may replace the platform key, but is the last.  *)
LEMMA GrowthOfFile ==
  ASSUME DataOK, GrowthInv, NEW v \in KeyVars, EnrollFile(v) \/ EnrollFileFails(v)
  PROVE  GrowthInv'
<1>1. /\ stage = v
      /\ \A w \in KeyVars \ {v} : keys'[w] = keys[w]
      /\ v # "PK" => keys[v] \subseteq keys'[v]
      /\ UNCHANGED <<flaky, bootKeys>>
  BY FileFacts DEF firmware
<1>2. \A w \in KeyVars : bootKeys[w] \subseteq keys[w]
  BY <1>1, GrowthParts DEF PkGrows, KeyVars
<1>3. /\ stage' = "reboot" => changed' /\ via' = "auth" /\ v = "PK"
      /\ stage' # "reset"
      /\ v = "PK" => stage' \in {"reboot", "return"}
  <2>1. CASE EnrollFile(v)
    <3>1. stage' = AfterFile(v, changed') /\ (stage' = "reboot" => via' = "auth")
      BY <2>1 DEF EnrollFile
    <3>2. QED
      BY <3>1, AfterFileFacts DEF KeyVars
  <2>2. CASE EnrollFileFails(v)
    BY <2>2 DEF EnrollFileFails
  <2>3. QED
    BY <2>1, <2>2
<1>4. PkGrows'
  BY <1>1, <1>2, <1>3 DEF PkGrows, KeyVars
<1>5. \/ keys' = keys /\ changed' = changed
      \/ \E c \in keys'[v] : c \notin keys[v]
      \/ flaky
  <2>1. CASE EnrollFile(v)
    BY <2>1 DEF EnrollFile
  <2>2. CASE EnrollFileFails(v)
    BY <2>2 DEF EnrollFileFails, Written, Enrolled, DataOK
  <2>3. QED
    BY <2>1, <2>2
<1>6. ChangeShows'
  <2>1. CASE keys' = keys /\ changed' = changed
    BY <1>1, <2>1, GrowthParts, Zenon DEF ChangeShows
  <2>2. CASE \E c \in keys'[v] : c \notin keys[v]
    <3>1. ~(keys'[v] \subseteq bootKeys[v])
      BY <1>2, <2>2
    <3>2. QED
      BY <1>1, <3>1, Zenon DEF ChangeShows
  <2>3. CASE flaky
    BY <1>1, <2>3, Zenon DEF ChangeShows
  <2>4. QED
    BY <1>5, <2>1, <2>2, <2>3
<1>7. \A w \in KeyVars \ {"PK"} : bootKeys'[w] \subseteq keys'[w]
  BY <1>1, <1>2
<1>8. QED
  BY <1>3, <1>4, <1>6, <1>7, GrowthParts

(* A boot starts with nothing changed.                                     *)
LEMMA GrowthOfBoot == ASSUME Boot PROVE GrowthInv'
BY DEF Boot, GrowthInv

LEMMA StepGrowth == ASSUME TypeOK, BeliefInv, GrowthInv, [Next]_vars PROVE GrowthInv'
<1>0. DataOK /\ FlagsOK
  BY TypeParts, Zenon
<1>1. CASE SelfDb
  <2>1. /\ Appended("db")
        /\ changed' /\ ~flaky => changed \/ (Ours \in keys'["db"] /\ Ours \notin keys["db"])
    BY <1>0, <1>1, SelfDbFacts, Zenon
  <2>2. QED
    BY <1>0, <1>1, <2>1, SelfFrame, GrowthOfAppend DEF KeyVars
<1>2. CASE SelfKek
  <2>1. /\ Appended("KEK")
        /\ changed' => changed \/ (Ours \in keys'["KEK"] /\ ~kekOk)
    BY <1>0, <1>2, SelfKekFacts, Zenon DEF FlagsOK
  <2>2. ~kekOk => flaky \/ Ours \notin keys["KEK"]
    BY <1>2, SelfFrame, Zenon DEF BeliefInv
  <2>3. changed' /\ ~flaky => changed \/ (Ours \in keys'["KEK"] /\ Ours \notin keys["KEK"])
    BY <2>1, <2>2, Zenon
  <2>4. QED
    BY <1>0, <1>2, <2>1, <2>3, SelfFrame, GrowthOfAppend DEF KeyVars
<1>3. CASE SelfPk
  <2>1. /\ Appended("PK")
        /\ changed' => changed \/ (keys["PK"] = {} /\ Ours \in keys'["PK"])
    BY <1>0, <1>3, SelfPkFacts, Zenon DEF FlagsOK
  <2>2. changed' /\ ~flaky => changed \/ (Ours \in keys'["PK"] /\ Ours \notin keys["PK"])
    BY <2>1
  <2>3. QED
    BY <1>0, <1>3, <2>1, <2>2, SelfFrame, GrowthOfAppend DEF KeyVars
<1>4. CASE SelfCheck
  <2>1. /\ UNCHANGED <<keys, bootKeys, firmware, changed, via>>
        /\ stage = "selfCheck" /\ stage' \in {"auth", "selfDb"}
    BY <1>4, Zenon DEF SelfCheck
  <2>2. QED
    BY <2>1 DEF GrowthInv, firmware
<1>5. CASE SelfFinish
  <2>1. /\ UNCHANGED <<keys, bootKeys, firmware, changed>>
        /\ stage = "selfFinish" /\ stage' \in {"auth", "reboot"}
        /\ stage' = "reboot" => changed
    BY <1>5 DEF SelfFinish
  <2>2. QED
    BY <2>1 DEF GrowthInv, firmware
<1>6. CASE AuthStart
  <2>1. /\ UNCHANGED <<keys, bootKeys, firmware>> /\ changed' = FALSE
        /\ stage = "auth" /\ stage' \in {"return", "dbx"}
    BY <1>6, Zenon DEF AuthStart
  <2>2. QED
    BY <2>1 DEF GrowthInv, firmware
<1>7. ASSUME NEW v \in KeyVars, EnrollFile(v) \/ EnrollFileFails(v) PROVE GrowthInv'
  BY <1>0, <1>7, GrowthOfFile
<1>8. CASE RebootCancelled
  BY <1>8, TypeParts DEF RebootCancelled, GrowthInv, firmware, ControlOK
<1>9. CASE Reset
  BY <1>9 DEF Reset, GrowthInv, firmware
<1>10. CASE WarmBoot \/ PowerCycle
  BY <1>10, GrowthOfBoot, Zenon DEF WarmBoot, PowerCycle
<1>11. CASE UNCHANGED vars
  BY <1>11 DEF vars, GrowthInv, firmware
<1>12. QED
  BY <1>1, <1>2, <1>3, <1>4, <1>5, <1>6, <1>7, <1>8, <1>9, <1>10, <1>11 DEF Next, Steps

LEMMA GrowthIsProgress == GrowthInv => ResetMeansProgress
BY DEF GrowthInv, ResetMeansProgress

LEMMA InitInv == Init => EnrollInv
<1> SUFFICES ASSUME Init PROVE EnrollInv
  OBVIOUS
<1>1. DataOK
  BY Constants DEF Init, DataOK
<1>2. ControlOK
  BY Constants DEF Init, ControlOK, Stages, SelfStages
<1>3. FlagsOK
  BY Zenon DEF Init, FlagsOK
<1>4. BeliefInv /\ OrderInv
  BY DEF Init, BeliefInv, OrderInv
<1>5. GrowthInv
  BY DEF Init, GrowthInv
<1>6. QED
  BY <1>1, <1>2, <1>3, <1>4, <1>5, TypeParts, GrowthIsProgress, Zenon DEF EnrollInv

LEMMA StepInv == ASSUME EnrollInv, [Next]_vars PROVE EnrollInv'
<1>1. TypeOK'
  BY TypeParts, StepData, StepControl, StepFlags, Zenon DEF EnrollInv
<1>2. GrowthInv' => ResetMeansProgress'
  BY DEF GrowthInv, ResetMeansProgress
<1>3. QED
  BY <1>1, <1>2, StepBelief, StepOrder, StepGrowth, Zenon DEF EnrollInv

(* EnrollSecureBootKeys keeps its invariant over any number of boots; in   *)
(* particular no warm reset happens without a new certificate in the       *)
(* variables, unless reads failed in that boot.                            *)
THEOREM EnrollInvariant == Spec => []EnrollInv
BY InitInv, StepInv, PTL DEF Spec

-----------------------------------------------------------------------------
(* The platform key is written only when the certificates below it are in  *)
(* place: sealing an empty db would lock this program out (SelfEnroll and  *)
(* the order dbx, db, KEK, PK of the .auth half).                          *)
THEOREM PkIsLast == Spec => PkSealsComplete
<1> DEFINE Seals == keys'["PK"] # keys["PK"] /\ stage # "return" =>
                      \/ stage = "selfPk" /\ Trusted(keys)
                      \/ stage = "PK" /\ \A v \in KeyVars \ {"PK"} : InPlace(v)
<1>1. ASSUME EnrollInv, [Next]_vars PROVE Seals \/ UNCHANGED vars
  <2>0. DataOK /\ FlagsOK /\ BeliefInv /\ OrderInv
    BY <1>1, TypeParts, Zenon DEF EnrollInv
  <2>1. CASE SelfDb \/ SelfKek
    BY <2>0, <2>1, SelfDbFacts, SelfKekFacts, AppendedFacts DEF FlagsOK, KeyVars
  <2>2. CASE SelfPk
    BY <2>0, <2>2, SelfPkFacts, SelfFrame DEF FlagsOK, BeliefInv, Trusted
  <2>3. ASSUME NEW v \in KeyVars, EnrollFile(v) \/ EnrollFileFails(v) PROVE Seals
    BY <2>0, <2>3, FileFacts DEF OrderInv, KeyVars
  <2>4. CASE SelfCheck \/ SelfFinish \/ AuthStart \/ RebootCancelled \/ Reset \/ WarmBoot
    BY <2>4, Zenon DEF SelfCheck, SelfFinish, AuthStart, RebootCancelled, Reset, WarmBoot
  <2>5. CASE PowerCycle
    BY <2>5, Zenon DEF PowerCycle
  <2>6. QED
    BY <1>1, <2>1, <2>2, <2>3, <2>4, <2>5 DEF Next, Steps
<1>2. QED
  BY <1>1, EnrollInvariant, PTL DEF Spec, PkSealsComplete

(* No certificate leaves a variable, except the platform key that PK.auth  *)
(* replaces, whatever the firmware answers.                                *)
THEOREM KeysOnlyGrow == Spec => NoKeyIsLost
<1> DEFINE Grows == stage # "return" =>
              \A v \in KeyVars : keys[v] \subseteq keys'[v] \/ (v = "PK" /\ stage = "PK")
<1>1. ASSUME EnrollInv, [Next]_vars PROVE Grows \/ UNCHANGED vars
  <2>0. DataOK /\ FlagsOK
    BY <1>1, TypeParts, Zenon DEF EnrollInv
  <2>1. CASE SelfDb \/ SelfKek \/ SelfPk
    BY <2>0, <2>1, SelfDbFacts, SelfKekFacts, SelfPkFacts, AppendedFacts DEF FlagsOK, KeyVars
  <2>2. ASSUME NEW v \in KeyVars, EnrollFile(v) \/ EnrollFileFails(v) PROVE Grows
    BY <2>0, <2>2, FileFacts
  <2>3. CASE SelfCheck \/ SelfFinish \/ AuthStart \/ RebootCancelled \/ Reset \/ WarmBoot
    BY <2>3, Zenon DEF SelfCheck, SelfFinish, AuthStart, RebootCancelled, Reset, WarmBoot
  <2>4. CASE PowerCycle
    BY <2>4, Zenon DEF PowerCycle
  <2>5. QED
    BY <1>1, <2>1, <2>2, <2>3, <2>4 DEF Next, Steps
<1>2. QED
  BY <1>1, EnrollInvariant, PTL DEF Spec, NoKeyIsLost

(* DeployedMode is never asked for before the certificate is in db and KEK *)
(* (SelfEnroll's last block).                                              *)
THEOREM DeployedWhenTrusted == Spec => DeployedOnlyWhenTrusted
<1> DEFINE Deploys == deployed' /\ ~deployed => Trusted(keys)
<1>1. ASSUME EnrollInv, [Next]_vars PROVE Deploys \/ UNCHANGED vars
  <2>0. BeliefInv
    BY <1>1, Zenon DEF EnrollInv
  <2>1. CASE SelfFinish
    BY <2>0, <2>1 DEF SelfFinish, BeliefInv, Trusted
  <2>2. CASE UNCHANGED deployed
    BY <2>2, Zenon
  <2>3. CASE PowerCycle
    BY <2>3, Zenon DEF PowerCycle
  <2>4. Next => SelfFinish \/ PowerCycle \/ UNCHANGED deployed
    BY Zenon DEF Next, Steps, SelfCheck, SelfDb, SelfKek, SelfPk, AuthStart, EnrollFile,
       EnrollFileFails, RebootCancelled, Reset, WarmBoot
  <2>5. QED
    BY <1>1, <2>1, <2>2, <2>3, <2>4, Zenon
<1>2. QED
  BY <1>1, EnrollInvariant, PTL DEF Spec, DeployedOnlyWhenTrusted

=============================================================================
