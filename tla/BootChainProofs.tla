-------------------------- MODULE BootChainProofs --------------------------
(***************************************************************************)
(* The chain from the firmware to the operating system, for any boot       *)
(* entries, disks, processors, settings and number of boots: it implements *)
(* Loader, the image gives back what it took, it programs processors only  *)
(* on its owner's wish, and the loader does not start itself again, tries  *)
(* every entry, and runs the nearest copy of the image.                    *)
(***************************************************************************)
EXTENDS BootChain, FiniteSetTheorems, SequenceTheorems, WellFoundedInduction, NaturalsInduction, TLAPS

(* FiniteSetsExt's Min of a nonempty set of naturals is one of them.       *)
LEMMA LeastMember ==
  ASSUME NEW S, S \subseteq Nat, S # {}
  PROVE  Min(S) \in S /\ \A y \in S : Min(S) <= y
<1> DEFINE Less == {p \in Nat \X Nat : p[1] < p[2]}
<1>1. IsWellFoundedOn(Less, Nat)
  BY NatLessThanWellFounded, Zenon DEF OpToRel
<1>2. PICK x \in S : \A y \in S : <<y, x>> \notin Less
  BY <1>1, WFMin, Zenon
<1>3. ASSUME NEW y \in S PROVE x =< y
  <2>1. <<y, x>> \in Nat \X Nat => ~(y < x)
    BY <1>2
  <2> QED BY <2>1
<1> QED BY <1>3 DEF Min

-----------------------------------------------------------------------------
(* A step of the image, or none, is a step of RunUnderVolter or leaves the *)
(* loader alone (StartUnderVolter waits in StartImage).                    *)
LEMMA StepRefines == [ChainNext]_cvars => [Next]_vars
<1> SUFFICES ASSUME [ChainNext]_cvars PROVE [Next]_vars
  OBVIOUS
<1>1. CASE UNCHANGED cvars
  BY <1>1 DEF cvars
<1>2. CASE StartUnderVolter
  BY <1>2 DEF StartUnderVolter, Next, RunUnderVolter, vars
<1>3. CASE UnderVolterStep
  BY <1>3 DEF UnderVolterStep, PinBootNext, Next, RunUnderVolter, vars
<1>4. CASE LoaderStep
  BY <1>4 DEF LoaderStep, Next
<1>5. CASE LoaderAgain
  BY <1>5 DEF LoaderAgain, Next
<1>6. CASE PowerUp
  BY <1>6 DEF PowerUp, Next
<1> QED BY <1>1, <1>2, <1>3, <1>4, <1>5, <1>6 DEF ChainNext, Advance

(* The chain implements Loader, which takes the whole run of UnderVolter   *)
(* for one step (StartUnderVolter, UefiMain).                              *)
THEOREM ChainImplementsLoader == ChainSpec => LoaderSpec
<1>1. ChainInit => Init
  BY DEF ChainInit
<1> QED BY <1>1, StepRefines, PTL DEF ChainSpec, LoaderSpec, Spec

-----------------------------------------------------------------------------
(* An image that runs was no forbidden target when it was started          *)
(* (StartBootOptionByNumber, IsForbiddenTarget).                           *)
NotForbidden == running # NoNumber => ~Forbidden(running)

LEMMA ForbiddenStep == NotForbidden /\ [Next]_vars => NotForbidden'
<1> SUFFICES ASSUME NotForbidden, [Next]_vars PROVE NotForbidden'
  OBVIOUS
<1> USE DEF NotForbidden, Forbidden, firmware
<1>1. CASE UNCHANGED vars
  BY <1>1 DEF vars
<1>2. CASE RunUnderVolter
  BY <1>2 DEF RunUnderVolter
<1>3. CASE TryBootNext
  BY <1>3 DEF TryBootNext, Startable
<1>4. CASE TryNextEntry
  <2> DEFINE n == Candidate(index)
  <2>1. UNCHANGED firmware
    BY <1>4 DEF TryNextEntry
  <2>2. running' = running \/ (running' = n /\ Startable(n))
    BY <1>4 DEF TryNextEntry
  <2> HIDE DEF n
  <2> QED BY <2>1, <2>2 DEF Startable
<1>5. CASE OrderExhausted \/ ImageEnds \/ StartsItself \/ Fallback \/ Boot
  BY <1>5 DEF OrderExhausted, ImageEnds, StartsItself, Fallback, Boot
<1> QED BY <1>1, <1>2, <1>3, <1>4, <1>5 DEF Next, AfterUnderVolter

(* In no boot does the loader start an entry that names itself by its full *)
(* device path, if it knows what to compare with (IsForbiddenTarget,       *)
(* StartBootOptionByNumber).                                               *)
THEOREM LoaderNeverStartsItself == ChainSpec => []NoSelfLoop
<1>1. Init => NotForbidden
  BY DEF Init, NotForbidden
<1>2. NotForbidden => NoSelfLoop
  BY DEF NotForbidden, Forbidden, NoSelfLoop, KnowsItself, LoadsSelf
<1>3. Spec => []NotForbidden
  BY <1>1, ForbiddenStep, PTL DEF Spec
<1>4. ChainSpec => Spec
  BY ChainImplementsLoader DEF LoaderSpec
<1> QED BY <1>2, <1>3, <1>4, PTL

-----------------------------------------------------------------------------
(* What a step of the chain does to the image: one of its own steps, its   *)
(* start, the next power-up, or nothing (StartUnderVolter, UefiMain).      *)
ImageStep == UNext(image) \/ StartImage \/ PowerOn \/ UNCHANGED uvars

LEMMA StepOfImage == [ChainNext]_cvars => ImageStep
<1> SUFFICES ASSUME [ChainNext]_cvars PROVE ImageStep
  OBVIOUS
<1>1. CASE UNCHANGED cvars
  BY <1>1 DEF cvars, ImageStep
<1>2. CASE StartUnderVolter
  BY <1>2 DEF StartUnderVolter, ImageStep
<1>3. CASE UnderVolterStep
  BY <1>3 DEF UnderVolterStep, ImageStep
<1>4. CASE LoaderStep
  BY <1>4 DEF LoaderStep, ImageStep
<1>5. CASE LoaderAgain
  BY <1>5 DEF LoaderAgain, ImageStep
<1>6. CASE PowerUp
  BY <1>6 DEF PowerUp, ImageStep
<1> QED BY <1>1, <1>2, <1>3, <1>4, <1>5, <1>6 DEF ChainNext, Advance

(* The machine stays what it is through resets and restarts.               *)
LEMMA MachineStays == ImageStep => UNCHANGED machine
  BY Zenon DEF ImageStep, UNext, uvars, world, StartImage, PowerOn, ReadSettings,
     ApplyNvramSetupPatches, EnrollSecureBootKeys, DetectCpu, AskAboutUnknownCpu,
     CheckSupport, InitializeUefiEnvironment, StartupPlatformInit, CheckForEmergencyExit,
     ApplyComputerOwnersPolicy, ApplyPolicy, RunPowerManagementSelfTest, Unhook, Delay,
     Cleanup

(* Whatever the image takes it still knows of, and gives back on its way   *)
(* out (InstallSafeAsmExceptionHandler, RemoveAllInterruptOverrides,       *)
(* Cleanup of UefiMain).                                                   *)
LEMMA HookStep == HookInv /\ ImageStep => HookInv'
<1> SUFFICES ASSUME HookInv, ImageStep PROVE HookInv'
  OBVIOUS
<1> USE DEF HookInv, hook, world, globals, Goto, GotoOrFail, MayFreeze, Firmware, Vectors, Overridden
<1>1. CASE UNCHANGED uvars
  BY <1>1 DEF uvars
<1>2. CASE StartImage
  BY <1>2 DEF StartImage, Unloaded
<1>3. CASE PowerOn
  BY <1>3 DEF PowerOn, Unloaded
<1>4. CASE ReadSettings(image)
  BY <1>4 DEF ReadSettings
<1>5. CASE ApplyNvramSetupPatches
  BY <1>5 DEF ApplyNvramSetupPatches, Provision
<1>6. CASE EnrollSecureBootKeys
  BY <1>6 DEF EnrollSecureBootKeys, Provision
<1>7. CASE DetectCpu
  <2>1. step = "cpu" /\ step' \in {"checks", "question"} /\ UNCHANGED <<hook, gPlatform, gIniData>>
    BY <1>7 DEF DetectCpu
  <2> QED BY <2>1
<1>8. CASE AskAboutUnknownCpu
  BY <1>8 DEF AskAboutUnknownCpu
<1>9. CASE CheckSupport
  BY <1>9 DEF CheckSupport
<1>10. CASE InitializeUefiEnvironment
  BY <1>10 DEF InitializeUefiEnvironment, InstallSafeAsmExceptionHandler
<1>11. CASE StartupPlatformInit
  BY <1>11 DEF StartupPlatformInit
<1>12. CASE CheckForEmergencyExit
  BY <1>12 DEF CheckForEmergencyExit
<1>13. CASE ApplyComputerOwnersPolicy
  BY <1>13 DEF ApplyComputerOwnersPolicy
<1>14. CASE ApplyPolicy
  BY <1>14 DEF ApplyPolicy
<1>15. CASE RunPowerManagementSelfTest
  BY <1>15 DEF RunPowerManagementSelfTest
<1>16. CASE Unhook
  BY <1>16 DEF Unhook, RemoveAllInterruptOverrides
<1>17. CASE Delay
  BY <1>17 DEF Delay
<1>18. CASE Cleanup
  BY <1>18 DEF Cleanup, RemoveAllInterruptOverrides
<1> QED BY <1>1, <1>2, <1>3, <1>4, <1>5, <1>6, <1>7, <1>8, <1>9, <1>10, <1>11, <1>12,
           <1>13, <1>14, <1>15, <1>16, <1>17, <1>18 DEF ImageStep, UNext

LEMMA HookInit == UInit => HookInv
  BY DEF UInit, Linked, HookInv

(* On every way out of UefiMain the descriptor table is the firmware's and *)
(* nothing the image allocated is left.                                    *)
THEOREM ImageGivesBack == ChainSpec => []IdtGivenBack
<1>1. ChainInit => HookInv
  BY HookInit DEF ChainInit
<1>2. HookInv /\ [ChainNext]_cvars => HookInv'
  BY StepOfImage, HookStep
<1>3. HookInv => IdtGivenBack
  BY DEF HookInv, IdtGivenBack
<1> QED BY <1>1, <1>2, <1>3, PTL DEF ChainSpec

-----------------------------------------------------------------------------
(* What the proofs use of the assumption about the boot variables.         *)
LEMMA LoaderConstants ==
  NoNumber \notin Numbers /\ Orders \subseteq Seq(Numbers) /\ MaxBoots \in Nat
  BY LoaderAssumption, Zenon

(* The entry the loop of the boot order tries next is one of the order     *)
(* (StartNextBootOption of Loader.c).                                      *)
LEMMA CandidateIsListed ==
  ASSUME TypeOK, index < Len(bootOrder)
  PROVE  Candidate(index) \in Numbers
<1> DEFINE at == SelectInSeq(bootOrder, LAMBDA n : n = bootCurrent)
           Found == {i \in 1 .. Len(bootOrder) : bootOrder[i] = bootCurrent}
<1>1. bootOrder \in Seq(Numbers) /\ index \in Nat /\ Len(bootOrder) \in Nat \ {0}
  BY LoaderConstants DEF TypeOK
<1>2. Found # {} => Min(Found) \in Found
  <2>1. Found \subseteq Nat
    BY <1>1
  <2> QED BY <2>1, LeastMember
<1>3. at \in Nat
  BY <1>1, <1>2 DEF SelectInSeq
<1> HIDE DEF at
<1>4. ((at + index) % Len(bootOrder)) + 1 \in 1 .. Len(bootOrder)
  BY <1>1, <1>3
<1>5. bootOrder[((at + index) % Len(bootOrder)) + 1] \in Numbers
  BY <1>1, <1>4
<1> QED BY <1>5 DEF Candidate, at

(* The loader's variables keep their types, and BootNext is gone before    *)
(* the entry it names is started (StartBootNextOption, StartNextBootOption).*)
LEMMA LoaderTypeStep ==
  TypeOK /\ BootNextOnce /\ [Next]_vars => TypeOK' /\ BootNextOnce'
<1> SUFFICES ASSUME TypeOK, BootNextOnce, [Next]_vars PROVE TypeOK' /\ BootNextOnce'
  OBVIOUS
<1> USE LoaderConstants DEF TypeOK, BootNextOnce, firmware, Stages
<1>1. CASE UNCHANGED vars
  BY <1>1 DEF vars
<1>2. CASE RunUnderVolter
  BY <1>2 DEF RunUnderVolter
<1>3. CASE TryBootNext
  <2>1. CASE bootNext # NoNumber /\ Startable(bootNext)
    <3>1. <<bootNext>> \in Seq(Numbers)
      BY <2>1
    <3> QED BY <1>3, <2>1, <3>1 DEF TryBootNext
  <2>2. CASE ~(bootNext # NoNumber /\ Startable(bootNext))
    BY <1>3, <2>2 DEF TryBootNext
  <2> QED BY <2>1, <2>2
<1>4. CASE TryNextEntry
  <2> DEFINE n == Candidate(index)
  <2>1. n \in Numbers
    BY <1>4, CandidateIsListed DEF TryNextEntry
  <2>2. /\ stage = "order" /\ index < Len(bootOrder) /\ index' = index + 1
        /\ \/ stage' = "image" /\ running' = n /\ started' = Append(started, n)
           \/ UNCHANGED <<stage, running, started>>
        /\ UNCHANGED <<firmware, bootNext, bootCurrent, boots, viaNext>>
    BY <1>4 DEF TryNextEntry
  <2>3. bootOrder \in Seq(Numbers)
    OBVIOUS
  <2> HIDE DEF n
  <2>4. Append(started, n) \in Seq(Numbers)
    BY <2>1
  <2>5. index' \in 0 .. Len(bootOrder)
    BY <2>2, <2>3
  <2> QED BY <2>1, <2>2, <2>4, <2>5
<1>5. CASE OrderExhausted
  BY <1>5 DEF OrderExhausted
<1>6. CASE ImageEnds
  BY <1>6 DEF ImageEnds
<1>7. CASE Fallback
  BY <1>7 DEF Fallback
<1>8. CASE Boot
  <2>1. bootOrder \in Seq(Numbers)
    OBVIOUS
  <2> QED BY <1>8, <2>1 DEF Boot
<1>9. CASE StartsItself
  <2>1. bootOrder \in Seq(Numbers)
    OBVIOUS
  <2> QED BY <1>9, <2>1 DEF StartsItself
<1> QED BY <1>1, <1>2, <1>3, <1>4, <1>5, <1>6, <1>7, <1>8, <1>9 DEF Next, AfterUnderVolter

-----------------------------------------------------------------------------
(* Element i of a sequence that is read from behind its first `a` elements *)
(* on and round: the index modulo the length (StartNextBootOption).        *)
LEMMA Rotated ==
  ASSUME NEW S, NEW s \in Seq(S), NEW a \in 0 .. Len(s), NEW i \in 0 .. Len(s) - 1
  PROVE  s[((a + i) % Len(s)) + 1] = (SubSeq(s, a + 1, Len(s)) \o SubSeq(s, 1, a))[i + 1]
<1> DEFINE back  == SubSeq(s, a + 1, Len(s))
           front == SubSeq(s, 1, a)
<1>1. Len(s) \in Nat /\ \A k \in 1 .. Len(s) : s[k] \in S
  OBVIOUS
<1>2. /\ back \in Seq(S) /\ Len(back) = Len(s) - a
      /\ \A k \in 1 .. Len(s) - a : back[k] = s[a + k]
  <2>1. /\ back \in Seq(S)
        /\ Len(back) = IF a + 1 <= Len(s) THEN Len(s) - (a + 1) + 1 ELSE 0
        /\ \A k \in 1 .. Len(s) - (a + 1) + 1 : back[k] = s[a + 1 + k - 1]
    <3>1. \A k \in a + 1 .. Len(s) : s[k] \in S
      BY <1>1
    <3> QED BY <1>1, <3>1, SubSeqProperties
  <2> HIDE DEF back
  <2> QED BY <1>1, <2>1
<1>3. /\ front \in Seq(S) /\ Len(front) = a
      /\ \A k \in 1 .. a : front[k] = s[k]
  <2>1. /\ front \in Seq(S)
        /\ Len(front) = IF 1 <= a THEN a - 1 + 1 ELSE 0
        /\ \A k \in 1 .. a - 1 + 1 : front[k] = s[1 + k - 1]
    <3>1. \A k \in 1 .. a : s[k] \in S
      BY <1>1
    <3> QED BY <1>1, <3>1, SubSeqProperties
  <2> HIDE DEF front
  <2> QED BY <1>1, <2>1
<1> HIDE DEF back, front
<1>4. \A k \in 1 .. Len(back) + Len(front) :
        (back \o front)[k] = IF k <= Len(back) THEN back[k] ELSE front[k - Len(back)]
  BY <1>2, <1>3, ConcatProperties
<1>5. (back \o front)[i + 1] =
        IF i + 1 <= Len(back) THEN back[i + 1] ELSE front[i + 1 - Len(back)]
  <2>1. PICK k \in 1 .. Len(back) + Len(front) : k = i + 1
    BY <1>1, <1>2, <1>3
  <2>2. (back \o front)[k] = IF k <= Len(back) THEN back[k] ELSE front[k - Len(back)]
    BY <1>4
  <2> QED BY <2>1, <2>2
<1>6. CASE a + i < Len(s)
  <2>1. (a + i) % Len(s) = a + i
    BY <1>1, <1>6
  <2>2. (back \o front)[i + 1] = back[i + 1] /\ i + 1 \in 1 .. Len(s) - a
    BY <1>1, <1>2, <1>5, <1>6
  <2>3. back[i + 1] = s[a + (i + 1)] /\ a + (i + 1) = (a + i) + 1
    BY <1>1, <1>2, <2>2
  <2> QED BY <2>1, <2>2, <2>3 DEF back, front
<1>7. CASE ~(a + i < Len(s))
  <2>1. (a + i) % Len(s) = a + i - Len(s)
    BY <1>1, <1>7
  <2>2. /\ (back \o front)[i + 1] = front[i + 1 - Len(back)]
        /\ i + 1 - Len(back) \in 1 .. a
        /\ i + 1 - Len(back) = (a + i - Len(s)) + 1
    BY <1>1, <1>2, <1>3, <1>5, <1>7
  <2>3. front[i + 1 - Len(back)] = s[(a + i - Len(s)) + 1]
    BY <1>3, <2>2
  <2> QED BY <2>1, <2>2, <2>3 DEF back, front
<1> QED BY <1>6, <1>7

(* The entry that the loop tries is the next one of the cycle, although it *)
(* counts from the place of BootCurrent in BootOrder, or from the front if *)
(* it has none, modulo the length (StartNextBootOption).                   *)
LEMMA CandidateIsNext ==
  ASSUME TypeOK, index < Len(bootOrder)
  PROVE  Candidate(index) = Cycle[index + 1]
<1> DEFINE at    == SelectInSeq(bootOrder, LAMBDA n : n = bootCurrent)
           Found == {i \in 1 .. Len(bootOrder) : bootOrder[i] = bootCurrent}
<1>1. bootOrder \in Seq(Numbers) /\ index \in 0 .. Len(bootOrder) - 1
  BY LoaderConstants DEF TypeOK
<1>2. at \in 0 .. Len(bootOrder)
  <2>1. Found \subseteq Nat
    BY <1>1
  <2>2. Found # {} => Min(Found) \in Found
    BY <2>1, LeastMember
  <2> QED BY <1>1, <2>2 DEF SelectInSeq
<1>3. \A a \in 0 .. Len(bootOrder) :
        bootOrder[((a + index) % Len(bootOrder)) + 1] =
          (SubSeq(bootOrder, a + 1, Len(bootOrder)) \o SubSeq(bootOrder, 1, a))[index + 1]
  BY <1>1, Rotated
<1>4. PICK a \in 0 .. Len(bootOrder) : a = at
  BY <1>2
<1>5. Candidate(index) = bootOrder[((a + index) % Len(bootOrder)) + 1]
  BY <1>4 DEF Candidate
<1>6. Cycle = SubSeq(bootOrder, a + 1, Len(bootOrder)) \o SubSeq(bootOrder, 1, a)
  BY <1>4 DEF Cycle
<1> QED BY <1>3, <1>5, <1>6, Zenon

(* The number of startable entries among the first k of the cycle grows by *)
(* one at each of them (the loop of StartNextBootOption).                  *)
LEMMA CountStartable ==
  ASSUME NEW k \in Nat
  PROVE  /\ StartableAmong(k) \in Nat
         /\ StartableAmong(0) = 0
         /\ StartableAmong(k + 1) =
              IF Startable(Cycle[k + 1]) THEN StartableAmong(k) + 1 ELSE StartableAmong(k)
<1> DEFINE Good(n) == {i \in 1 .. n : Startable(Cycle[i])}
<1>1. IsFiniteSet(1 .. k)
  BY FS_Interval
<1>2. IsFiniteSet(Good(k))
  BY <1>1, FS_Subset
<1>3. Good(0) = {}
  OBVIOUS
<1>4. Good(k + 1) = IF Startable(Cycle[k + 1]) THEN Good(k) \cup {k + 1} ELSE Good(k)
  <2>1. 1 .. (k + 1) = (1 .. k) \cup {k + 1}
    OBVIOUS
  <2> QED BY <2>1
<1>5. k + 1 \notin Good(k)
  OBVIOUS
<1>6. Cardinality(Good(k)) \in Nat /\ Cardinality({}) = 0
  BY <1>2, FS_CardinalityType, FS_EmptySet
<1>7. Cardinality(Good(k) \cup {k + 1}) = Cardinality(Good(k)) + 1
  BY <1>2, <1>5, FS_AddElement
<1> QED BY <1>3, <1>4, <1>6, <1>7 DEF StartableAmong

LEMMA StartableWithin ==
  ASSUME NEW k \in Nat, NEW i \in 1 .. k, Startable(Cycle[i])
  PROVE  StartableAmong(i) \in 1 .. StartableAmong(k)
<1> DEFINE Good(n) == {j \in 1 .. n : Startable(Cycle[j])}
<1>1. IsFiniteSet(Good(i)) /\ IsFiniteSet(Good(k))
  <2>1. IsFiniteSet(1 .. i) /\ IsFiniteSet(1 .. k)
    BY FS_Interval
  <2>2. Good(i) \in SUBSET (1 .. i) /\ Good(k) \in SUBSET (1 .. k)
    OBVIOUS
  <2> HIDE DEF Good
  <2>3. IsFiniteSet(Good(i))
    BY <2>1, <2>2, FS_Subset
  <2>4. IsFiniteSet(Good(k))
    BY <2>1, <2>2, FS_Subset
  <2> QED BY <2>3, <2>4
<1>2. Good(i) \subseteq Good(k) /\ i \in Good(i)
  OBVIOUS
<1>3. Cardinality(Good(i)) <= Cardinality(Good(k))
  BY <1>1, <1>2, FS_Subset
<1>4. Cardinality(Good(i)) \in Nat \ {0} /\ Cardinality(Good(k)) \in Nat
  <2>1. Good(i) # {}
    BY <1>2
  <2> HIDE DEF Good
  <2> QED BY <1>1, <2>1, FS_CardinalityType, FS_EmptySet
<1> QED BY <1>3, <1>4 DEF StartableAmong

(* Each turn of the loop keeps account of the entries behind it: what can  *)
(* be started is started, once and in its place (StartNextBootOption).     *)
LEMMA TriedStep ==
  ASSUME TypeOK, TriedInv, [Next]_vars
  PROVE  TriedInv'
<1> USE DEF TriedInv
<1>1. ASSUME UNCHANGED <<firmware, bootCurrent>>
      PROVE  /\ Cycle' = Cycle
             /\ \A n : Startable(n)' <=> Startable(n)
             /\ \A k \in Nat : StartableAmong(k)' = StartableAmong(k)
  <2>1. Cycle' = Cycle
    BY <1>1 DEF Cycle, SelectInSeq, firmware
  <2>2. \A n : Startable(n)' <=> Startable(n)
    BY <1>1 DEF Startable, Forbidden, firmware
  <2> QED BY <2>1, <2>2 DEF StartableAmong
<1>2. ASSUME UNCHANGED <<firmware, bootCurrent, index, started, viaNext>>
      PROVE  Tried(index)'
  <2>1. index \in Nat /\ FromOrder' = FromOrder
    BY <1>2, LoaderConstants DEF TypeOK, FromOrder
  <2> QED BY <1>1, <1>2, <2>1 DEF Tried
<1>3. CASE UNCHANGED vars
  BY <1>2, <1>3 DEF vars, firmware
<1>4. CASE RunUnderVolter \/ ImageEnds \/ Fallback
  BY <1>2, <1>4 DEF RunUnderVolter, ImageEnds, Fallback, firmware
<1>5. CASE OrderExhausted
  BY <1>2, <1>5 DEF OrderExhausted, firmware
<1>6. CASE TryBootNext
  <2>1. /\ stage = "bootNext" /\ index = 0 /\ started = << >> /\ viaNext = NoNumber
        /\ stage' \in {"image", "order"} /\ index' = index
        /\ UNCHANGED <<firmware, bootCurrent>>
    BY <1>6 DEF TryBootNext
  <2>2. CASE UNCHANGED <<started, viaNext>>
    BY <1>2, <2>1, <2>2
  <2>3. CASE ~UNCHANGED <<started, viaNext>>
    <3>1. started' = <<bootNext>> /\ viaNext' = bootNext /\ bootNext # NoNumber
      BY <1>6, <2>3 DEF TryBootNext
    <3>2. FromOrder' = << >> /\ started' # << >>
      BY <3>1 DEF FromOrder
    <3>3. Tried(0)'
      BY <1>1, <2>1, <3>2, CountStartable DEF Tried
    <3> QED BY <2>1, <3>2, <3>3
  <2> QED BY <2>2, <2>3
<1>7. CASE TryNextEntry
  <2> DEFINE n == Candidate(index)
  <2>1. /\ stage = "order" /\ index < Len(bootOrder) /\ index' = index + 1
        /\ IF Startable(n) THEN stage' = "image" /\ started' = Append(started, n)
                           ELSE UNCHANGED <<stage, started>>
        /\ UNCHANGED <<firmware, bootCurrent, viaNext>>
    BY <1>7 DEF TryNextEntry
  <2>2. n = Cycle[index + 1] /\ n \in Numbers
    BY <2>1, CandidateIsNext, CandidateIsListed
  <2>3. index \in Nat /\ started \in Seq(Numbers) /\ FromOrder \in Seq(Numbers)
    <3>1. index \in Nat /\ started \in Seq(Numbers)
      BY LoaderConstants DEF TypeOK
    <3> QED BY <3>1 DEF FromOrder
  <2> HIDE DEF n
  <2>4. CASE Startable(n)
    <3>1. FromOrder' = Append(FromOrder, n)
      <4>1. started' = Append(started, n) /\ viaNext' = viaNext
        BY <2>1, <2>4
      <4>2. CASE viaNext = NoNumber
        BY <4>1, <4>2 DEF FromOrder
      <4>3. CASE viaNext # NoNumber
        <5>1. Tail(Append(started, n)) = Append(Tail(started), n)
          BY <2>2, <2>3, <4>3, AppendProperties, HeadTailProperties
        <5> QED BY <4>1, <4>3, <5>1 DEF FromOrder
      <4> QED BY <4>2, <4>3
    <3>2. StartableAmong(index + 1) = StartableAmong(index) + 1
      BY <2>2, <2>3, <2>4, CountStartable
    <3>3. Len(FromOrder') = StartableAmong(index + 1)
      BY <2>2, <2>3, <3>1, <3>2 DEF Tried
    <3>4. ASSUME NEW i \in 1 .. index + 1, Startable(Cycle[i])
          PROVE  FromOrder'[StartableAmong(i)] = Cycle[i]
      <4>1. CASE i = index + 1
        BY <2>2, <2>3, <3>1, <3>2, <4>1 DEF Tried
      <4>2. CASE i # index + 1
        <5>1. i \in 1 .. index
          BY <2>3, <4>2
        <5>2. FromOrder[StartableAmong(i)] = Cycle[i]
          BY <3>4, <5>1 DEF Tried
        <5>3. StartableAmong(i) \in 1 .. Len(FromOrder)
          BY <2>3, <3>4, <5>1, StartableWithin DEF Tried
        <5> QED BY <2>2, <2>3, <3>1, <5>2, <5>3
      <4> QED BY <4>1, <4>2
    <3>5. Tried(index)'
      BY <1>1, <2>1, <2>3, <3>3, <3>4 DEF Tried
    <3>6. viaNext' # NoNumber => started' # << >>
      BY <2>1, <2>2, <2>3, <2>4
    <3>7. stage' = "image"
      BY <2>1, <2>4
    <3> QED BY <3>5, <3>6, <3>7
  <2>5. CASE ~Startable(n)
    <3>1. FromOrder' = FromOrder /\ StartableAmong(index + 1) = StartableAmong(index)
      BY <2>1, <2>2, <2>3, <2>5, CountStartable DEF FromOrder
    <3>2. \A i \in 1 .. index + 1 : Startable(Cycle[i]) => i \in 1 .. index
      BY <2>2, <2>3, <2>5
    <3>3. Tried(index)'
      BY <1>1, <2>1, <2>3, <3>1, <3>2 DEF Tried
    <3> QED BY <2>1, <2>5, <3>3
  <2> QED BY <2>4, <2>5
<1>8. CASE Boot \/ StartsItself
  <2>1. /\ index' = 0 /\ started' = << >> /\ viaNext' = NoNumber
        /\ stage' \in {"underVolter", "os"}
    BY <1>8 DEF Boot, StartsItself
  <2>2. FromOrder' = << >>
    BY <2>1 DEF FromOrder
  <2>3. StartableAmong(0)' = 0
    BY FS_EmptySet DEF StartableAmong
  <2> QED BY <2>1, <2>2, <2>3 DEF Tried
<1> QED BY <1>3, <1>4, <1>5, <1>6, <1>7, <1>8 DEF Next, AfterUnderVolter

LEMMA LoaderStepInv == LoaderInv /\ [Next]_vars => LoaderInv'
BY LoaderTypeStep, TriedStep DEF LoaderInv

(* Of the table, but for its first entry, each pass of DetectCpu gives an  *)
(* entry of the processor's model, or 0 if it finds none (CpuData.c).      *)
LEMMA DetectFacts ==
  ASSUME UefiMainAssumption, DetectCpu
  PROVE  /\ gActiveCpuData' \in DOMAIN CpuTable
         /\ step = "cpu" /\ step' \in {"checks", "question"}
         /\ step' = "checks" => KnownModel
<1> DEFINE T == Tail(CpuTable)
           Exact == {i \in 1 .. Len(T) : T[i].model = machine.cpu.model
                                         /\ T[i].stepping = machine.cpu.stepping}
           Model == {i \in 1 .. Len(T) : T[i].model = machine.cpu.model}
           exact == SelectInSeq(T, LAMBDA e : e.model = machine.cpu.model
                                              /\ e.stepping = machine.cpu.stepping)
           model == SelectInSeq(T, LAMBDA e : e.model = machine.cpu.model)
<1>1. CpuTable \in Seq(Range(CpuTable)) /\ CpuTable # << >>
  BY DEF UefiMainAssumption
<1>2. T \in Seq(Range(CpuTable)) /\ Len(T) = Len(CpuTable) - 1 /\ Len(CpuTable) \in Nat
      /\ \A i \in 1 .. Len(T) : T[i] = CpuTable[i + 1]
  BY <1>1
<1> HIDE DEF T
<1>3. Exact # {} => Min(Exact) \in Exact
  <2>1. Exact \subseteq Nat
    BY <1>2
  <2> QED BY <2>1, LeastMember
<1>4. Model # {} => Min(Model) \in Model
  <2>1. Model \subseteq Nat
    BY <1>2
  <2> QED BY <2>1, LeastMember
<1>5. exact \in 0 .. Len(T) /\ (exact # 0 => T[exact].model = machine.cpu.model)
  BY <1>2, <1>3 DEF SelectInSeq
<1>6. model \in 0 .. Len(T) /\ (model # 0 => T[model].model = machine.cpu.model)
  BY <1>2, <1>4 DEF SelectInSeq
<1>7. /\ step = "cpu"
      /\ gActiveCpuData' = 1 + (IF exact # 0 THEN exact ELSE model)
      /\ step' = IF exact # 0 \/ model # 0 THEN "checks" ELSE "question"
  BY DEF DetectCpu, Goto, T
<1> HIDE DEF exact, model
<1>8. DOMAIN CpuTable = 1 .. Len(CpuTable)
  BY <1>1
<1>9. gActiveCpuData' \in DOMAIN CpuTable
  BY <1>2, <1>5, <1>6, <1>7, <1>8
<1>10. step' = "checks" => KnownModel
  <2> SUFFICES ASSUME step' = "checks" PROVE KnownModel
    OBVIOUS
  <2>1. PICK i \in 1 .. Len(T) : T[i].model = machine.cpu.model
    BY <1>2, <1>5, <1>6, <1>7
  <2>2. i + 1 \in 2 .. Len(CpuTable) /\ CpuTable[i + 1].model = machine.cpu.model
    BY <1>2, <2>1
  <2> QED BY <2>2 DEF KnownModel
<1> QED BY <1>7, <1>9, <1>10

(* A setting is one of five, whatever the text says (LoadAppSettings), and *)
(* the ratio of a profile is cut to a byte (ApplyComputerOwnersPolicy).    *)
LEMMA SettingsDomain == \A text : DOMAIN LoadAppSettings(text) = DOMAIN Defaults
  BY DEF LoadAppSettings, Defaults

LEMMA RatioIsByte == \A text, arch : ForcedRatio(text, arch) \in 0 .. 255
<1> SUFFICES ASSUME NEW text, NEW arch PROVE ForcedRatio(text, arch) \in 0 .. 255
  OBVIOUS
<1>1. \A section, k : IniGetInt(text, section, k, 0) \in Nat
  BY DEF IniGetInt
<1> QED BY <1>1 DEF ForcedRatio, Byte

(* The image's globals keep their types.                                   *)
UTypes ==
  /\ machine.idtEntries \in 1 .. 256
  /\ setupWork \in 0 .. MaxWork /\ keyWork \in 0 .. MaxWork
  /\ idt \in [Vectors -> {"firmware", "probe"}]
  /\ gBackupIDT \in [Vectors -> {"firmware", "probe"}]
  /\ step \in Steps
  /\ DOMAIN settings = DOMAIN Defaults
  /\ gActiveCpuData \in DOMAIN CpuTable
  /\ ratio \in 0 .. 255
  /\ key \in {"none", "F10", "ESC", "other"}

LEMMA UTypesStep == UTypes /\ ImageStep => UTypes'
<1> SUFFICES ASSUME UTypes, ImageStep PROVE UTypes'
  OBVIOUS
<1>0. /\ MaxWork \in Nat /\ 1 \in DOMAIN CpuTable
  BY UefiMainAssumption
<1> USE <1>0 DEF UTypes, hook, world, globals, Goto, GotoOrFail, MayFreeze, Steps
<1>1. CASE UNCHANGED uvars
  BY <1>1 DEF uvars
<1>2. CASE StartImage
  BY <1>2 DEF StartImage, Unloaded, Firmware, Vectors
<1>3. CASE PowerOn
  BY <1>3 DEF PowerOn, Unloaded, Firmware, Vectors
<1>4. CASE ReadSettings(image)
  BY <1>4, SettingsDomain DEF ReadSettings
<1>5. CASE ApplyNvramSetupPatches
  BY <1>5 DEF ApplyNvramSetupPatches, Provision
<1>6. CASE EnrollSecureBootKeys
  BY <1>6 DEF EnrollSecureBootKeys, Provision
<1>7. CASE DetectCpu
  <2>1. step' \in {"checks", "question"} /\ gActiveCpuData' \in DOMAIN CpuTable
    BY <1>7, DetectFacts, UefiMainAssumption
  <2>2. UNCHANGED <<world, hook, settings, ratio, key>>
    BY <1>7 DEF DetectCpu
  <2> QED BY <2>1, <2>2
<1>8. CASE AskAboutUnknownCpu
  BY <1>8 DEF AskAboutUnknownCpu
<1>9. CASE CheckSupport
  BY <1>9 DEF CheckSupport
<1>10. CASE InitializeUefiEnvironment
  BY <1>10 DEF InitializeUefiEnvironment, InstallSafeAsmExceptionHandler, Vectors
<1>11. CASE StartupPlatformInit
  BY <1>11 DEF StartupPlatformInit
<1>12. CASE CheckForEmergencyExit
  BY <1>12 DEF CheckForEmergencyExit
<1>13. CASE ApplyComputerOwnersPolicy
  BY <1>13, RatioIsByte DEF ApplyComputerOwnersPolicy
<1>14. CASE ApplyPolicy
  BY <1>14 DEF ApplyPolicy
<1>15. CASE RunPowerManagementSelfTest
  BY <1>15 DEF RunPowerManagementSelfTest
<1>16. CASE Unhook
  BY <1>16 DEF Unhook, RemoveAllInterruptOverrides, Vectors
<1>17. CASE Delay
  BY <1>17 DEF Delay
<1>18. CASE Cleanup
  BY <1>18 DEF Cleanup, RemoveAllInterruptOverrides, Vectors
<1> QED BY <1>1, <1>2, <1>3, <1>4, <1>5, <1>6, <1>7, <1>8, <1>9, <1>10, <1>11, <1>12,
           <1>13, <1>14, <1>15, <1>16, <1>17, <1>18 DEF ImageStep, UNext

(* The flags stay Boolean (InstallSafeAsmExceptionHandler, StartupPlatformInit). *)
LEMMA FlagsStep ==
  ASSUME gISRsPatched \in BOOLEAN, gPlatform \in BOOLEAN, ImageStep
  PROVE  gISRsPatched' \in BOOLEAN /\ gPlatform' \in BOOLEAN
<1> USE DEF hook, world, globals
<1>1. CASE UNCHANGED uvars
  BY <1>1, Zenon DEF uvars
<1>2. CASE StartImage
  BY <1>2, Zenon DEF StartImage, Unloaded
<1>3. CASE PowerOn
  BY <1>3, Zenon DEF PowerOn, Unloaded
<1>4. CASE ReadSettings(image)
  BY <1>4, Zenon DEF ReadSettings
<1>5. CASE ApplyNvramSetupPatches
  BY <1>5, Zenon DEF ApplyNvramSetupPatches
<1>6. CASE EnrollSecureBootKeys
  BY <1>6, Zenon DEF EnrollSecureBootKeys
<1>7. CASE DetectCpu
  BY <1>7, Zenon DEF DetectCpu
<1>8. CASE AskAboutUnknownCpu
  BY <1>8, Zenon DEF AskAboutUnknownCpu
<1>9. CASE CheckSupport
  BY <1>9, Zenon DEF CheckSupport
<1>10. CASE InitializeUefiEnvironment
  BY <1>10, Zenon DEF InitializeUefiEnvironment, InstallSafeAsmExceptionHandler
<1>11. CASE StartupPlatformInit
  BY <1>11, Zenon DEF StartupPlatformInit
<1>12. CASE CheckForEmergencyExit
  BY <1>12, Zenon DEF CheckForEmergencyExit
<1>13. CASE ApplyComputerOwnersPolicy
  BY <1>13, Zenon DEF ApplyComputerOwnersPolicy
<1>14. CASE ApplyPolicy
  BY <1>14, Zenon DEF ApplyPolicy
<1>15. CASE RunPowerManagementSelfTest
  BY <1>15, Zenon DEF RunPowerManagementSelfTest
<1>16. CASE Unhook
  BY <1>16, Zenon DEF Unhook, RemoveAllInterruptOverrides
<1>17. CASE Delay
  BY <1>17, Zenon DEF Delay
<1>18. CASE Cleanup
  BY <1>18, Zenon DEF Cleanup, RemoveAllInterruptOverrides
<1> QED BY <1>1, <1>2, <1>3, <1>4, <1>5, <1>6, <1>7, <1>8, <1>9, <1>10, <1>11, <1>12,
           <1>13, <1>14, <1>15, <1>16, <1>17, <1>18 DEF ImageStep, UNext

(* What a check has made sure of stays so until the processors are         *)
(* programmed (UefiMain, AskAboutUnknownCpu, InitializeUefiEnvironment,    *)
(* ApplyComputerOwnersPolicy).                                             *)
LEMMA WishStep == UTypes /\ HookInv /\ WishInv /\ ImageStep => WishInv'
<1> SUFFICES ASSUME UTypes, HookInv, WishInv, ImageStep PROVE WishInv'
  OBVIOUS
<1>0. DOMAIN settings = DOMAIN Defaults /\ "gIniFound" \in DOMAIN Defaults
  BY DEF UTypes, Defaults
<1> USE DEF WishInv, hook, world, globals, Goto, GotoOrFail, MayFreeze, KnownModel
<1>1. CASE UNCHANGED uvars
  BY <1>1 DEF uvars, KnownModel
<1>2. CASE StartImage
  BY <1>2 DEF StartImage, Unloaded, Defaults
<1>3. CASE PowerOn
  BY <1>3 DEF PowerOn, Unloaded, Defaults
<1>4. CASE ReadSettings(image)
  BY <1>4 DEF ReadSettings, LoadAppSettings, Defaults
<1>5. CASE ApplyNvramSetupPatches
  BY <1>5 DEF ApplyNvramSetupPatches, Provision
<1>6. CASE EnrollSecureBootKeys
  BY <1>6 DEF EnrollSecureBootKeys, Provision
<1>7. CASE DetectCpu
  <2>1. step = "cpu" /\ step' \in {"checks", "question"} /\ (step' = "checks" => KnownModel)
    BY <1>7, DetectFacts, UefiMainAssumption
  <2>2. UNCHANGED <<world, hook, gIniData, settings, gPlatform, ratio, key>>
    BY <1>7 DEF DetectCpu
  <2> QED BY <2>1, <2>2
<1>8. CASE AskAboutUnknownCpu
  BY <1>8, <1>0 DEF AskAboutUnknownCpu
<1>9. CASE CheckSupport
  BY <1>9 DEF CheckSupport
<1>10. CASE InitializeUefiEnvironment
  <2>1. step = "environment" /\ UNCHANGED <<world, globals, key>>
    BY <1>10 DEF InitializeUefiEnvironment
  <2>2. CASE step' = "cleanup"
    BY <2>1, <2>2
  <2>3. CASE step' # "cleanup"
    <3>1. /\ step' \in {"discovery", "frozen"}
          /\ settings.gEnableSaferAsm => InstallSafeAsmExceptionHandler
      BY <1>10, <2>3, Zenon DEF InitializeUefiEnvironment
    <3>2. settings.gEnableSaferAsm /\ machine.idtEntries >= 15 => gISRsPatched'
      <4>1. ~gISRsPatched
        BY <2>1 DEF HookInv
      <4>2. \A n \in 1 .. 256 : n >= 15 => ~(n < 15)
        OBVIOUS
      <4>3. machine.idtEntries >= 15 => ~(machine.idtEntries < 15)
        BY <4>2, Zenon DEF UTypes
      <4> QED BY <3>1, <4>1, <4>3, Zenon DEF InstallSafeAsmExceptionHandler
    <3>3. /\ KnownModel' <=> KnownModel
          /\ machine' = machine /\ settings' = settings /\ key' = key /\ gIniData' = gIniData
      BY <2>1
    <3> QED BY <2>1, <3>1, <3>2, <3>3
  <2> QED BY <2>2, <2>3
<1>11. CASE StartupPlatformInit
  BY <1>11 DEF StartupPlatformInit
<1>12. CASE CheckForEmergencyExit
  BY <1>12 DEF CheckForEmergencyExit
<1>13. CASE ApplyComputerOwnersPolicy
  BY <1>13 DEF ApplyComputerOwnersPolicy
<1>14. CASE ApplyPolicy
  BY <1>14 DEF ApplyPolicy
<1>15. CASE RunPowerManagementSelfTest
  BY <1>15 DEF RunPowerManagementSelfTest
<1>16. CASE Unhook
  BY <1>16 DEF Unhook, RemoveAllInterruptOverrides
<1>17. CASE Delay
  BY <1>17 DEF Delay
<1>18. CASE Cleanup
  BY <1>18, <1>0 DEF Cleanup, RemoveAllInterruptOverrides
<1> QED BY <1>1, <1>2, <1>3, <1>4, <1>5, <1>6, <1>7, <1>8, <1>9, <1>10, <1>11, <1>12,
           <1>13, <1>14, <1>15, <1>16, <1>17, <1>18 DEF ImageStep, UNext

(* A ratio that is not 0 stands in a line of the profile that names the    *)
(* architecture, or, if none does, of the generic one (FindProfileSection, *)
(* IniGetInt, ApplyComputerOwnersPolicy).                                  *)
LEMMA RatioFromProfile ==
  ASSUME NEW text, NEW arch, ForcedRatio(text, arch) # 0
  PROVE  LET named == {text[i].section.name : i \in
                         {j \in 1 .. Len(text) : /\ text[j].key = "Architecture"
                                                 /\ text[j].value = arch}}
         IN  \E i \in 1 .. Len(text) :
               /\ text[i].key = "ForcedRatioForPCoreCounts"
               /\ text[i].value % 256 = ForcedRatio(text, arch)
               /\ text[i].section.name \in
                    IF named = {} THEN {"Profile.Generic"} ELSE named
<1> DEFINE Header == {j \in 1 .. Len(text) : text[j].key = "Architecture"
                                             /\ text[j].value = arch}
           named  == {text[i].section.name : i \in Header}
           wanted == FindProfileSection(text, arch)
           Here   == {i \in 1 .. Len(text) : IniSectionMatch(text[i].section, wanted)
                                             /\ text[i].key = "ForcedRatioForPCoreCounts"}
           value  == IniFindValue(text, wanted, "ForcedRatioForPCoreCounts")
<1>1. Header # {} => Min(Header) \in Header
  <2>1. Header \subseteq Nat
    OBVIOUS
  <2> QED BY <2>1, LeastMember
<1>2. wanted.name \in IF named = {} THEN {"Profile.Generic"} ELSE named
  <2>1. wanted = IF Header # {} THEN text[Min(Header)].section ELSE Section("Profile.Generic")
    BY <1>1 DEF FindProfileSection, SelectInSeq
  <2>2. CASE Header = {}
    <3>1. named = {}
      BY <2>2
    <3> HIDE DEF wanted
    <3> QED BY <2>1, <2>2, <3>1 DEF Section
  <2>3. CASE Header # {}
    <3>1. text[Min(Header)].section.name \in named
      BY <1>1, <2>3
    <3> HIDE DEF wanted, named
    <3> QED BY <2>1, <2>3, <3>1
  <2> QED BY <2>2, <2>3
<1>3. Here # {} => Min(Here) \in Here
  <2>1. Here \subseteq Nat
    OBVIOUS
  <2> QED BY <2>1, LeastMember
<1>4. ForcedRatio(text, arch) = (IF value \in Nat THEN value ELSE 0) % 256
  BY DEF ForcedRatio, Byte, IniGetInt
<1>5. value \in Nat /\ ForcedRatio(text, arch) = value % 256
  BY <1>4
<1>6. value = IF Here # {} THEN text[Min(Here)].value ELSE Absent
  BY <1>3 DEF IniFindValue, SelectInSeq
<1>7. Here # {}
  BY <1>5, <1>6, ConfigAssumption
<1> DEFINE at == Min(Here)
<1>8. at \in 1 .. Len(text) /\ IniSectionMatch(text[at].section, wanted)
      /\ text[at].key = "ForcedRatioForPCoreCounts" /\ text[at].value = value
  BY <1>3, <1>6, <1>7
<1> HIDE DEF at, wanted, named, value
<1>9. text[at].section.name \in IF named = {} THEN {"Profile.Generic"} ELSE named
  BY <1>2, <1>8, Zenon DEF IniSectionMatch
<1>10. \E i \in 1 .. Len(text) :
         /\ text[i].key = "ForcedRatioForPCoreCounts"
         /\ text[i].value % 256 = ForcedRatio(text, arch)
         /\ text[i].section.name \in IF named = {} THEN {"Profile.Generic"} ELSE named
  BY <1>5, <1>8, <1>9
<1> QED BY <1>10, Zenon DEF named

-----------------------------------------------------------------------------
(* The image and the loader take turns (StartUnderVolter, StartImage).     *)
LEMMA TurnStep == TurnInv /\ [ChainNext]_cvars => TurnInv'
<1> SUFFICES ASSUME TurnInv, [ChainNext]_cvars PROVE TurnInv'
  OBVIOUS
<1> USE DEF TurnInv
<1>1. CASE UNCHANGED cvars
  BY <1>1 DEF cvars, vars, uvars
<1>2. CASE StartUnderVolter
  <2>1. Loadable(image') => image' # NotSearched
    <3>1. Loadable(image') => image'.volume # 0
      BY Zenon DEF Loadable
    <3>2. NotSearched.volume = 0
      BY DEF NotSearched
    <3> QED BY <3>1, <3>2, Zenon
  <2>2. /\ stage = "underVolter"
        /\ \/ Loadable(image') /\ step' = "settings" /\ UNCHANGED stage
           \/ stage' = "bootNext" /\ UNCHANGED step
    BY <1>2 DEF StartUnderVolter, StartImage, Goto, uvars
  <2>3. step = "off"
    BY <1>2 DEF StartUnderVolter
  <2> QED BY <2>1, <2>2, <2>3
<1>3. CASE UnderVolterStep
  BY <1>3 DEF UnderVolterStep
<1>4. CASE LoaderStep
  <2>1. step' = step /\ image' = image
    BY <1>4 DEF LoaderStep, uvars
  <2>2. stage \notin {"underVolter", "reset", "frozen"} /\ stage' # "frozen"
    BY <1>4 DEF LoaderStep, AfterUnderVolter, TryBootNext, TryNextEntry, OrderExhausted,
                ImageEnds, Fallback
  <2> QED BY <2>1, <2>2
<1>5. CASE LoaderAgain
  <2>1. step' = step /\ stage = "image" /\ stage' = "underVolter"
    BY <1>5 DEF LoaderAgain, StartsItself, uvars
  <2> QED BY <2>1
<1>6. CASE PowerUp
  BY <1>6 DEF PowerUp, PowerOn, Goto, Boot
<1> QED BY <1>1, <1>2, <1>3, <1>4, <1>5, <1>6 DEF ChainNext, Advance

-----------------------------------------------------------------------------
(* The parts of the invariant together: types, turns, what the image has   *)
(* taken and what its checks made sure of (UefiMain, StartUnderVolter).    *)
LEMMA ChainInitInv == ChainInit => ChainInv
<1> SUFFICES ASSUME ChainInit PROVE ChainInv
  OBVIOUS
<1>1. LoaderInv
  <2>1. << >> \in Seq(Numbers) /\ bootOrder \in Seq(Numbers)
    BY LoaderConstants DEF ChainInit, Init
  <2>2. TypeOK /\ BootNextOnce
    BY <2>1, LoaderConstants DEF ChainInit, Init, TypeOK, BootNextOnce, Stages
  <2>3. TriedInv
    BY FS_EmptySet DEF ChainInit, Init, TriedInv, Tried, FromOrder, StartableAmong
  <2> QED BY <2>2, <2>3 DEF LoaderInv
<1>2. UTypeOK
  <2>1. machine \in Machines /\ gISRsPatched \in BOOLEAN /\ gPlatform \in BOOLEAN
    BY Zenon DEF ChainInit, UInit, Linked
  <2>2. UTypes
    BY <2>1, UefiMainAssumption
       DEF ChainInit, UInit, Linked, UTypes, Firmware, Vectors, Steps, Machines
  <2> QED BY <2>1, <2>2, Zenon DEF UTypes, UTypeOK
<1>3. TurnInv
  BY DEF ChainInit, Init, UInit, TurnInv
<1>4. HookInv
  BY HookInit DEF ChainInit
<1>5. WishInv
  BY DEF ChainInit, UInit, Linked, WishInv, Defaults
<1> QED BY <1>1, <1>2, <1>3, <1>4, <1>5 DEF ChainInv

LEMMA ChainStepInv == ChainInv /\ [ChainNext]_cvars => ChainInv'
<1> SUFFICES ASSUME ChainInv, [ChainNext]_cvars PROVE ChainInv'
  OBVIOUS
<1>1. LoaderInv /\ UTypeOK /\ TurnInv /\ HookInv /\ WishInv /\ ImageStep
  BY StepOfImage DEF ChainInv
<1>2. LoaderInv'
  BY <1>1, StepRefines, LoaderStepInv
<1>3. UTypeOK'
  <2>1. machine' = machine
    BY <1>1, MachineStays
  <2>2. machine \in Machines /\ gISRsPatched \in BOOLEAN /\ gPlatform \in BOOLEAN
    BY <1>1, Zenon DEF UTypeOK
  <2>3. UTypes
    <3>1. machine.idtEntries \in 1 .. 256
      BY <2>2 DEF Machines
    <3> QED BY <1>1, <3>1, Zenon DEF UTypes, UTypeOK
  <2>4. UTypes'
    BY <1>1, <2>3, UTypesStep
  <2>5. gISRsPatched' \in BOOLEAN /\ gPlatform' \in BOOLEAN
    BY <1>1, <2>2, FlagsStep
  <2>6. Machines' = Machines
    BY DEF Machines
  <2>7. machine' \in Machines'
    BY <2>1, <2>2, <2>6
  <2> QED BY <2>4, <2>5, <2>7, Zenon DEF UTypes, UTypeOK
<1>4. TurnInv'
  BY <1>1, TurnStep
<1>5. HookInv'
  BY <1>1, HookStep
<1>6. WishInv'
  <2>1. UTypes
    <3>1. machine \in Machines
      BY <1>1, Zenon DEF UTypeOK
    <3>2. machine.idtEntries \in 1 .. 256
      BY <3>1 DEF Machines
    <3> QED BY <1>1, <3>2, Zenon DEF UTypes, UTypeOK
  <2> QED BY <1>1, <2>1, WishStep
<1> QED BY <1>2, <1>3, <1>4, <1>5, <1>6 DEF ChainInv

(* The loader, the image and the machine are in step in every reachable    *)
(* state (StartUnderVolter, UefiMain).                                     *)
THEOREM ChainInvariant == ChainSpec => []ChainInv
<1> QED BY ChainInitInv, ChainStepInv, PTL DEF ChainSpec

(* Before the loader falls back to another system it has started every     *)
(* entry of BootOrder that it can, once each and in their cyclic order     *)
(* (StartNextBootOption).                                                  *)
THEOREM EveryEntryIsTried == ChainSpec => []NoEntryIsForgotten
<1>1. ChainInv => NoEntryIsForgotten
  BY DEF ChainInv, LoaderInv, TriedInv, NoEntryIsForgotten
<1> QED BY <1>1, ChainInvariant, PTL

(* The processors are programmed only with an INI file, on a known         *)
(* processor or at its user's wish, not against ESC, under the hook, and   *)
(* with values of the right section (UefiMain, ApplyComputerOwnersPolicy). *)
THEOREM OnlyOnWish == ChainSpec => []ProgrammedOnlyOnWish
<1>1. ChainInv => ProgrammedOnlyOnWish
  <2> SUFFICES ASSUME ChainInv, step = "programming" PROVE ProgrammedOnlyOnWish
    BY DEF ProgrammedOnlyOnWish
  <2>1. UTypeOK /\ HookInv /\ WishInv
    BY DEF ChainInv
  <2>2. /\ gPlatform /\ gIniData # NoText
        /\ machine.cpu.model # LunarLake
        /\ KnownModel \/ (key = "F10" /\ ~settings.gAppQuietMode)
        /\ key # "ESC"
    BY <2>1 DEF WishInv
  <2>3. settings.gEnableSaferAsm /\ machine.idtEntries >= 15
          => \A v \in Overridden : idt[v] = "probe"
    <3>1. settings.gEnableSaferAsm /\ machine.idtEntries >= 15 => gISRsPatched
      BY <2>1, Zenon DEF WishInv
    <3> QED BY <2>1, <3>1 DEF HookInv, Overridden, Vectors
  <2>4. ratio = ForcedRatio(gIniData, CpuTable[gActiveCpuData].uArch)
    BY <2>1 DEF WishInv
  <2>5. ratio # 0 => ForcedRatio(gIniData, CpuTable[gActiveCpuData].uArch) # 0
    BY <2>4
  <2> QED BY <2>2, <2>3, <2>4, <2>5, RatioFromProfile, Zenon DEF ProgrammedOnlyOnWish
<1> QED BY <1>1, ChainInvariant, PTL

-----------------------------------------------------------------------------
(* The search for UnderVolter.efi.  Its recursion has a bound, so that its *)
(* levels can be told one by one; a listing is gone through by a fold.     *)

(* The greatest of a set of naturals that has a bound.                     *)
LEMMA GreatestMember ==
  ASSUME NEW n \in Nat, NEW S \in SUBSET (1 .. n), S # {}
  PROVE  Max(S) \in S /\ \A y \in S : y <= Max(S)
<1> DEFINE Above == {k \in Nat : \A y \in S : y <= k}
<1>1. Min(Above) \in Above /\ \A k \in Above : Min(Above) <= k
  <2>1. n \in Above
    OBVIOUS
  <2> QED BY <2>1, LeastMember
<1> DEFINE m == Min(Above)
<1>2. m \in S
  <2> HIDE DEF m
  <2> SUFFICES ASSUME m \notin S PROVE FALSE
    OBVIOUS
  <2>1. m \in Nat /\ \A y \in S : y <= m
    BY <1>1 DEF m
  <2>2. \A y \in S : y < m /\ y >= 1
    BY <2>1
  <2>3. m - 1 \in Nat
    <3>1. PICK y \in S : TRUE
      OBVIOUS
    <3>2. y \in Nat
      BY SMT
    <3> QED BY <2>1, <2>2, <3>1, <3>2
  <2>4. m - 1 \in Above
    BY <2>1, <2>2, <2>3
  <2> QED BY <1>1, <2>1, <2>3, <2>4 DEF m
<1> QED BY <1>1, <1>2 DEF Max

(* What is found under entry e of directory dir, when F has what is found  *)
(* in each directory.                                                      *)
Under(v, dir, F, e) ==
  IF e.kind = "dir" /\ Append(dir, e.name) \in DOMAIN v.list THEN F[Append(dir, e.name)]
  ELSE IF e.kind = "file" /\ e.name = FileName THEN Append(dir, FileName)
  ELSE NoPath

Look(v, dir, F, found, e) == IF found # NoPath THEN found ELSE Under(v, dir, F, e)

(* One listing, as FindFileRecursive goes through it.                      *)
Scan(v, dir, F) == FoldLeft(LAMBDA found, e : Look(v, dir, F, found, e), NoPath, Read(v, dir))

(* One level of FindFileRecursive on top of F.                             *)
Level(v, F) ==
  [dir \in DOMAIN v.list |-> IF Len(dir) > MaxDepth THEN NoPath ELSE Scan(v, dir, F)]

(* The entries under which there is something.                             *)
WithHit(v, dir, F) ==
  {i \in DOMAIN Read(v, dir) : Under(v, dir, F, Read(v, dir)[i]) # NoPath}

(* The fold of a listing comes to what its first entry with a hit has.     *)
LEMMA ScanIsFirst ==
  ASSUME NEW v, NEW dir, NEW F, NEW n \in Nat, DOMAIN Read(v, dir) = 1 .. n
  PROVE  Scan(v, dir, F) = IF WithHit(v, dir, F) = {} THEN NoPath
                           ELSE Under(v, dir, F, Read(v, dir)[Min(WithHit(v, dir, F))])
<1> DEFINE s       == Read(v, dir)
           U(i)    == Under(v, dir, F, s[i])
           Hits(S) == {i \in S : U(i) # NoPath}
           R(S)    == IF Hits(S) = {} THEN NoPath ELSE U(Min(Hits(S)))
           It(f)   == [S \in SUBSET (1 .. n) |->
                         IF S = {} THEN NoPath
                         ELSE IF f[S \ {Max(S)}] # NoPath THEN f[S \ {Max(S)}] ELSE U(Max(S))]
           iter    == CHOOSE f : f = It(f)
<1>1. Scan(v, dir, F) = iter[1 .. n]
  BY DEF Scan, FoldLeft, MapThenFoldSet, Look
<1> HIDE DEF U
<1>2. ASSUME NEW S \in SUBSET (1 .. n), S # {}
      PROVE  R(S) = IF R(S \ {Max(S)}) # NoPath THEN R(S \ {Max(S)}) ELSE U(Max(S))
  <2>1. Max(S) \in S /\ \A y \in S : y <= Max(S)
    BY <1>2, GreatestMember, Zenon
  <2>0. S \subseteq Nat /\ Hits(S) \subseteq Nat /\ Hits(S \ {Max(S)}) \subseteq Nat
    <3>1. 1 .. n \subseteq Nat
      BY SMT
    <3>2. S \subseteq Nat
      BY <3>1, Zenon
    <3> QED BY <3>2, Zenon
  <2> DEFINE x == Max(S)
  <2> HIDE DEF x
  <2>2. x \in S /\ x \in Nat /\ (\A y \in S : y <= x) /\ Hits(S \ {x}) \subseteq Nat
    BY <2>0, <2>1 DEF x
  <2>3. CASE Hits(S \ {x}) = {}
    <3>1. CASE U(x) = NoPath
      <4>1. Hits(S) = {}
        BY <2>3, <3>1
      <4> QED BY <2>3, <3>1, <4>1 DEF x
    <3>2. CASE U(x) # NoPath
      <4>1. Hits(S) = {x}
        BY <2>2, <2>3, <3>2
      <4>2. Min({x}) = x
        BY <2>2, LeastMember
      <4> QED BY <2>3, <3>2, <4>1, <4>2 DEF x
    <3> QED BY <3>1, <3>2
  <2>4. CASE Hits(S \ {x}) # {}
    <3> DEFINE H == Hits(S \ {x})
               m == Min(H)
    <3>1. m \in H /\ \A y \in H : m <= y
      BY <2>2, <2>4, LeastMember, Zenon
    <3>2. Min(Hits(S)) \in Hits(S) /\ \A y \in Hits(S) : Min(Hits(S)) <= y
      BY <2>0, <2>4, LeastMember
    <3>3. \A y \in Hits(S) : m <= y
      BY <2>2, <3>1
    <3>4. m \in Hits(S) /\ m \in Nat
      BY <2>2, <3>1
    <3>5. Min(Hits(S)) = m
      <4> DEFINE h == Min(Hits(S))
      <4> HIDE DEF h, m
      <4>1. h \in Nat /\ h <= m /\ m <= h /\ m \in Nat
        BY <2>0, <3>2, <3>3, <3>4 DEF h
      <4> QED BY <4>1 DEF h
    <3>6. U(m) # NoPath
      BY <3>1
    <3> QED BY <2>4, <3>4, <3>5, <3>6 DEF x
  <2> QED BY <2>3, <2>4
<1>3. R({}) = NoPath
  OBVIOUS
<1> DEFINE G == [S \in SUBSET (1 .. n) |-> R(S)]
<1> HIDE DEF R
<1>4. G = It(G)
  <2>1. ASSUME NEW S \in SUBSET (1 .. n) PROVE G[S] = It(G)[S]
    <3>1. S \ {Max(S)} \in SUBSET (1 .. n)
      OBVIOUS
    <3> QED BY <1>2, <1>3, <3>1, Zenon
  <2> QED BY <2>1, Zenon
<1>5. iter = It(iter)
  BY <1>4, Zenon
<1> HIDE DEF iter
<1>6. ASSUME NEW k \in 1 .. n, iter[1 .. k - 1] = R(1 .. k - 1)
      PROVE  iter[1 .. k] = R(1 .. k)
  <2>1. 1 .. k \in SUBSET (1 .. n) /\ 1 .. k # {} /\ 1 .. k - 1 \in SUBSET (1 .. n)
    BY SMT
  <2>2. Max(1 .. k) = k
    <3>1. Max(1 .. k) \in 1 .. k /\ \A y \in 1 .. k : y <= Max(1 .. k)
      BY <2>1, GreatestMember
    <3>2. k \in 1 .. k
      BY SMT
    <3> QED BY <3>1, <3>2
  <2>3. (1 .. k) \ {k} = 1 .. k - 1
    BY SMT
  <2>4. R(1 .. k) = IF R(1 .. k - 1) # NoPath THEN R(1 .. k - 1) ELSE U(k)
    BY <1>2, <2>1, <2>2, <2>3, Zenon
  <2>5. It(iter)[1 .. k] = IF iter[1 .. k - 1] # NoPath THEN iter[1 .. k - 1] ELSE U(k)
    BY <2>1, <2>2, <2>3, Zenon
  <2> QED BY <1>5, <1>6, <2>4, <2>5, Zenon
<1>7. iter[1 .. 0] = R(1 .. 0)
  <2>1. 1 .. 0 = {} /\ {} \in SUBSET (1 .. n)
    BY SMT
  <2>2. It(iter)[{}] = NoPath
    BY <2>1, Zenon
  <2> QED BY <1>3, <1>5, <2>1, <2>2, Zenon
<1>8. iter[1 .. n] = R(1 .. n)
  <2> DEFINE Wrong == {k \in 0 .. n : iter[1 .. k] # R(1 .. k)}
  <2>1. ASSUME Wrong # {} PROVE FALSE
    <3>1. Min(Wrong) \in Wrong /\ \A k \in Wrong : Min(Wrong) <= k
      <4>1. Wrong \subseteq Nat
        BY SMT
      <4> QED BY <2>1, <4>1, LeastMember
    <3> DEFINE k == Min(Wrong)
    <3> HIDE DEF k
    <3>2. k \in 0 .. n /\ iter[1 .. k] # R(1 .. k) /\ \A j \in Wrong : k <= j
      BY <3>1 DEF k
    <3>3. k # 0
      BY <1>7, <3>2
    <3>4. k \in 1 .. n /\ k - 1 \in 0 .. n /\ ~(k <= k - 1)
      BY <3>2, <3>3
    <3>5. iter[1 .. k - 1] = R(1 .. k - 1)
      BY <3>2, <3>4
    <3> QED BY <1>6, <3>2, <3>4, <3>5
  <2>2. n \in 0 .. n
    BY SMT
  <2> QED BY <2>1, <2>2
<1>9. WithHit(v, dir, F) = Hits(1 .. n)
  BY DEF WithHit, U
<1> QED BY <1>1, <1>8, <1>9, Zenon DEF R, U

(* What Read returns is the beginning of the listing.                      *)
LEMMA ReadIs ==
  ASSUME NEW v, IsVolume(v), NEW dir \in DOMAIN v.list
  PROVE  \E n \in Nat :
           /\ DOMAIN Read(v, dir) = 1 .. n
           /\ \A i \in 1 .. n : /\ i \in DOMAIN v.list[dir]
                                /\ Read(v, dir)[i] = v.list[dir][i]
<1> DEFINE l   == v.list[dir]
           S   == Range(l)
           I   == {i \in 1 .. Len(l) : l[i].kind = "error"}
           bad == IF I # {} THEN Min(I) ELSE 0
           n   == IF bad = 0 THEN Len(l) ELSE bad - 1
<1>1. l \in Seq(S)
  BY Zenon DEF IsVolume, IsPath
<1> HIDE DEF l, S
<1>2. Len(l) \in Nat /\ DOMAIN l = 1 .. Len(l)
  BY <1>1
<1>3. bad \in 0 .. Len(l)
  <2>1. CASE I # {}
    <3>1. I \subseteq Nat /\ I \subseteq 1 .. Len(l)
      <4>1. 1 .. Len(l) \subseteq Nat
        BY <1>2
      <4> QED BY <4>1, Zenon
    <3>2. Min(I) \in 1 .. Len(l)
      BY <2>1, <3>1, LeastMember, Zenon
    <3>3. bad = Min(I)
      BY <2>1, Zenon
    <3> HIDE DEF bad
    <3> QED BY <1>2, <3>2, <3>3
  <2>2. CASE I = {}
    <3>1. bad = 0
      BY <2>2, Zenon
    <3> HIDE DEF bad
    <3> QED BY <1>2, <3>1
  <2> QED BY <2>1, <2>2
<1>4. Read(v, dir) = SubSeq(l, 1, n)
  BY DEF Read, SelectInSeq, l
<1> HIDE DEF bad
<1>5. n \in 0 .. Len(l)
  BY <1>2, <1>3
<1> HIDE DEF n
<1>6. /\ SubSeq(l, 1, n) \in Seq(S) /\ Len(SubSeq(l, 1, n)) = n
      /\ \A i \in 1 .. n : SubSeq(l, 1, n)[i] = l[i]
  BY <1>1, <1>2, <1>5
<1>7. n \in Nat /\ DOMAIN SubSeq(l, 1, n) = 1 .. n /\ 1 .. n \subseteq DOMAIN l
  BY <1>2, <1>5, <1>6
<1> QED BY <1>1, <1>4, <1>6, <1>7, Zenon DEF l

LEMMA SeqIsPath ==
  ASSUME NEW S, NEW d \in Seq(S)
  PROVE  IsPath(d)
<1> DEFINE R == Range(d)
<1>1. \A i \in 1 .. Len(d) : d[i] \in R
  <2>1. 1 .. Len(d) = DOMAIN d
    OBVIOUS
  <2> QED BY <2>1, Zenon DEF Range
<1>2. d = [i \in 1 .. Len(d) |-> d[i]] /\ Len(d) \in Nat
  OBVIOUS
<1> HIDE DEF R
<1>3. d \in [1 .. Len(d) -> R]
  BY <1>1, <1>2, Zenon
<1>4. d \in Seq(R)
  BY <1>2, <1>3
<1> QED BY <1>4 DEF R, IsPath

(* A path and the directory it is in.                                      *)
LEMMA PathIs ==
  ASSUME NEW d, IsPath(d), NEW x
  PROVE  /\ IsPath(Append(d, x)) /\ Len(Append(d, x)) = Len(d) + 1
         /\ Append(d, x) # << >> /\ Front(Append(d, x)) = d /\ Last(Append(d, x)) = x
         /\ SubSeq(d, 1, Len(d)) = d /\ Len(d) \in Nat
         /\ \A k \in 1 .. Len(d) : Append(d, x)[k] = d[k]
         /\ \A k \in 1 .. Len(d) + 1 : SubSeq(Append(d, x), 1, k - 1) = SubSeq(d, 1, k - 1)
<1> DEFINE c == Append(d, x)
           S == Range(d) \cup {x}
<1>0. d \in Seq(S) /\ x \in S
  <2> DEFINE R == Range(d)
  <2>1. d \in Seq(R)
    BY DEF IsPath
  <2> HIDE DEF R
  <2> QED BY <2>1 DEF R
<1> HIDE DEF S
<1>1. /\ c \in Seq(S) /\ Len(c) = Len(d) + 1 /\ c # << >> /\ Len(d) \in Nat
      /\ c[Len(d) + 1] = x
      /\ \A k \in 1 .. Len(d) : c[k] = d[k]
  <2>1. c \in Seq(S) /\ Len(c) = Len(d) + 1 /\ Len(d) \in Nat
    <3>1. Len(d) \in Nat
      BY <1>0
    <3> QED BY <1>0, <3>1, AppendProperties, Zenon
  <2>4. c[Len(d) + 1] = x
    BY <1>0, AppendProperties, Zenon
  <2>2. \A k \in 1 .. Len(d) : c[k] = d[k]
    <3>1. /\ Append(d, x) \in Seq(S) /\ Append(d, x) # << >>
          /\ Len(Append(d, x)) = Len(d) + 1
          /\ \A k \in 1 .. Len(d) : Append(d, x)[k] = d[k]
          /\ Append(d, x)[Len(d) + 1] = x
      BY <1>0, AppendProperties
    <3> QED BY <3>1, Zenon
  <2>3. c # << >>
    BY <1>0, AppendProperties, Zenon
  <2> QED BY <2>1, <2>2, <2>3, <2>4
<1>2. SubSeq(d, 1, Len(d)) = d
  BY <1>0
<1>3. ASSUME NEW k \in 1 .. Len(d) + 1
      PROVE  SubSeq(c, 1, k - 1) = SubSeq(d, 1, k - 1)
  <2> HIDE DEF c
  <2>1. k - 1 \in 0 .. Len(d) /\ k - 1 \in 0 .. Len(c)
    BY <1>1
  <2>2. /\ SubSeq(c, 1, k - 1) \in Seq(S) /\ SubSeq(d, 1, k - 1) \in Seq(S)
        /\ Len(SubSeq(c, 1, k - 1)) = k - 1 /\ Len(SubSeq(d, 1, k - 1)) = k - 1
        /\ \A i \in 1 .. k - 1 : SubSeq(c, 1, k - 1)[i] = c[i] /\ SubSeq(d, 1, k - 1)[i] = d[i]
    BY <1>0, <1>1, <2>1
  <2>3. \A i \in 1 .. k - 1 : i \in 1 .. Len(d)
    BY <1>1, <2>1
  <2> QED BY <1>1, <2>2, <2>3, SeqEqual
<1>4. Front(c) = d
  <2>1. Front(c) = SubSeq(c, 1, Len(c) - 1)
    BY DEF Front
  <2>2. Len(d) + 1 \in 1 .. Len(d) + 1 /\ Len(c) - 1 = Len(d) + 1 - 1 /\ Len(d) + 1 - 1 = Len(d)
    BY <1>1
  <2> QED BY <1>2, <1>3, <2>1, <2>2
<1>5. Last(c) = x
  BY <1>1 DEF Last
<1>6. IsPath(c)
  <2> HIDE DEF c
  <2> QED BY <1>1, SeqIsPath
<1> QED BY <1>1, <1>2, <1>3, <1>4, <1>5, <1>6, Zenon

(* The first of them is one of them.                                       *)
LEMMA FirstHit ==
  ASSUME NEW v, NEW dir, NEW F, NEW n \in Nat, DOMAIN Read(v, dir) = 1 .. n,
         WithHit(v, dir, F) # {}
  PROVE  /\ Min(WithHit(v, dir, F)) \in WithHit(v, dir, F)
         /\ Min(WithHit(v, dir, F)) \in 1 .. n
<1>1. 1 .. n \subseteq Nat
  BY SMT
<1>2. WithHit(v, dir, F) \subseteq Nat /\ WithHit(v, dir, F) \subseteq 1 .. n
  BY <1>1, Zenon DEF WithHit
<1> QED BY <1>2, LeastMember, Zenon

(* F and G have the same for all directories at least m deep.              *)
Agree(v, F, G, m) == \A d \in DOMAIN v.list : Len(d) >= m => F[d] = G[d]

LEMMA ScansAgree ==
  ASSUME NEW v, IsVolume(v), NEW dir \in DOMAIN v.list, NEW F, NEW G,
         Agree(v, F, G, Len(dir) + 1)
  PROVE  Scan(v, dir, F) = Scan(v, dir, G)
<1>1. PICK n \in Nat : DOMAIN Read(v, dir) = 1 .. n
  BY ReadIs, Zenon
<1>2. IsPath(dir) /\ dir \in Seq(Range(dir))
  BY DEF IsVolume, IsPath
<1>3. ASSUME NEW i \in 1 .. n
      PROVE  Under(v, dir, F, Read(v, dir)[i]) = Under(v, dir, G, Read(v, dir)[i])
  <2> DEFINE e == Read(v, dir)[i]
  <2>1. Len(Append(dir, e.name)) = Len(dir) + 1 /\ Len(dir) \in Nat
    BY <1>1, <1>2, PathIs, Zenon
  <2>2. Len(Append(dir, e.name)) >= Len(dir) + 1
    BY <2>1
  <2>3. Append(dir, e.name) \in DOMAIN v.list =>
          F[Append(dir, e.name)] = G[Append(dir, e.name)]
    BY <2>2, Zenon DEF Agree
  <2> QED BY <2>3, Zenon DEF Under
<1>4. WithHit(v, dir, F) = WithHit(v, dir, G)
  BY <1>1, <1>3, Zenon DEF WithHit
<1>5. WithHit(v, dir, F) # {} => Min(WithHit(v, dir, F)) \in 1 .. n
  BY <1>1, FirstHit, Zenon
<1> QED BY <1>1, <1>3, <1>4, <1>5, ScanIsFirst, Zenon

LEMMA LevelsAgree ==
  ASSUME NEW v, IsVolume(v), NEW F, NEW G, NEW m \in Nat, Agree(v, F, G, m + 1)
  PROVE  Agree(v, Level(v, F), Level(v, G), m)
<1> SUFFICES ASSUME NEW d \in DOMAIN v.list, Len(d) >= m
             PROVE  Level(v, F)[d] = Level(v, G)[d]
  BY DEF Agree
<1>1. Agree(v, F, G, Len(d) + 1)
  <2>1. IsPath(d) /\ d \in Seq(Range(d))
    BY DEF IsVolume, IsPath
  <2>2. Len(d) \in Nat
    BY <2>1
  <2> SUFFICES ASSUME NEW c \in DOMAIN v.list, Len(c) >= Len(d) + 1 PROVE F[c] = G[c]
    BY DEF Agree
  <2>3. IsPath(c) /\ c \in Seq(Range(c))
    BY DEF IsVolume, IsPath
  <2>4. Len(c) >= m + 1
    BY <2>2, <2>3
  <2> QED BY <2>4 DEF Agree
<1>2. Scan(v, d, F) = Scan(v, d, G)
  BY <1>1, ScansAgree
<1> QED BY <1>2, Zenon DEF Level

(* The function that FindFileRecursive is about exists.                    *)
LEMMA SearchIsFixed ==
  ASSUME NEW v, IsVolume(v)
  PROVE  \E F : F = Level(v, F) /\ FindFileRecursive(v) = F[<< >>]
<1> DEFINE L0 == [d \in DOMAIN v.list |-> NoPath]
           L1 == Level(v, L0)
           L2 == Level(v, L1)
           L3 == Level(v, L2)
           L4 == Level(v, L3)
           L5 == Level(v, L4)
           L6 == Level(v, L5)
           L7 == Level(v, L6)
<1>1. Agree(v, L1, L2, 5)
  <2>1. ASSUME NEW d \in DOMAIN v.list, Len(d) >= 5, NEW F
        PROVE  Level(v, F)[d] = NoPath
    <3>1. IsPath(d) /\ d \in Seq(Range(d))
      BY DEF IsVolume, IsPath
    <3>2. Len(d) > MaxDepth
      BY <2>1, <3>1 DEF MaxDepth
    <3> QED BY <3>2, Zenon DEF Level
  <2> QED BY <2>1, Zenon DEF Agree
<1>2. Agree(v, L6, L7, 0)
  <2> HIDE DEF L0, L1, L2, L3, L4, L5, L6, L7
  <2>1. \A m \in 0 .. 4 : m \in Nat
    BY SMT
  <2>2. Agree(v, L2, L3, 4)
    BY <1>1, <2>1, LevelsAgree DEF L2, L3
  <2>3. Agree(v, L3, L4, 3)
    BY <2>2, <2>1, LevelsAgree DEF L3, L4
  <2>4. Agree(v, L4, L5, 2)
    BY <2>3, <2>1, LevelsAgree DEF L4, L5
  <2>5. Agree(v, L5, L6, 1)
    BY <2>4, <2>1, LevelsAgree DEF L5, L6
  <2> QED BY <2>5, <2>1, LevelsAgree DEF L6, L7
<1>3. L6 = L7
  <2>1. \A d \in DOMAIN v.list : L6[d] = L7[d]
    <3> SUFFICES ASSUME NEW d \in DOMAIN v.list PROVE L6[d] = L7[d]
      OBVIOUS
    <3> HIDE DEF L6, L7
    <3>1. IsPath(d) /\ d \in Seq(Range(d))
      BY DEF IsVolume, IsPath
    <3>2. Len(d) >= 0
      BY <3>1
    <3> QED BY <1>2, <3>2 DEF Agree
  <2>2. /\ L6 = [d \in DOMAIN v.list |-> L6[d]]
        /\ L7 = [d \in DOMAIN v.list |-> L7[d]]
    BY Zenon DEF Level
  <2> HIDE DEF L6, L7
  <2> QED BY <2>1, <2>2
<1> DEFINE F == CHOOSE f : f = Level(v, f)
<1>4. L6 = Level(v, L6)
  BY <1>3, Zenon
<1>5. F = Level(v, F)
  <2> HIDE DEF L6
  <2> QED BY <1>4, Zenon
<1>6. FindFileRecursive(v) = F[<< >>]
  BY DEF FindFileRecursive, Level, Scan, Look, Under
<1> HIDE DEF F
<1> QED BY <1>5, <1>6

(* Directory dir is within reach of the search and has a copy.             *)
HasFile(v, dir) ==
  /\ dir \in DOMAIN v.list /\ Len(dir) <= MaxDepth /\ Listed(v, dir)
  /\ \E i \in DOMAIN Read(v, dir) :
       Read(v, dir)[i].kind = "file" /\ Read(v, dir)[i].name = FileName

(* From every directory that the search may enter at depth m or below,     *)
(* what it finds is a copy, and it finds one if there is one.              *)
Correct(v, F, m) ==
  \A d \in DOMAIN v.list : Len(d) >= m =>
    /\ Listed(v, d) /\ F[d] # NoPath =>
         \E dir : HasFile(v, dir) /\ F[d] = Append(dir, FileName)
    /\ \A dir : HasFile(v, dir) /\ Len(dir) >= Len(d) /\ SubSeq(dir, 1, Len(d)) = d
         => F[d] # NoPath

(* A directory shown by a listing that was reached is reached.             *)
LEMMA ListedBelow ==
  ASSUME NEW v, IsVolume(v), NEW d \in DOMAIN v.list, Listed(v, d),
         NEW i \in DOMAIN Read(v, d), Read(v, d)[i].kind = "dir"
  PROVE  Listed(v, Append(d, Read(v, d)[i].name))
<1> DEFINE x == Read(v, d)[i].name
           c == Append(d, x)
<1>1. IsPath(d) /\ d \in Seq(Range(d))
  BY DEF IsVolume, IsPath
<1>2. /\ Len(c) = Len(d) + 1 /\ Len(d) \in Nat /\ SubSeq(d, 1, Len(d)) = d
      /\ \A k \in 1 .. Len(d) : c[k] = d[k]
      /\ \A k \in 1 .. Len(d) + 1 : SubSeq(c, 1, k - 1) = SubSeq(d, 1, k - 1)
      /\ Last(c) = x
  BY <1>1, PathIs
<1> HIDE DEF c
<1> SUFFICES ASSUME NEW k \in 1 .. Len(c)
             PROVE  \E j \in DOMAIN Read(v, SubSeq(c, 1, k - 1)) :
                      LET e == Read(v, SubSeq(c, 1, k - 1))[j]
                      IN  e.kind = "dir" /\ e.name = c[k]
  BY DEF Listed, c
<1>3. k \in 1 .. Len(d) + 1 /\ SubSeq(c, 1, k - 1) = SubSeq(d, 1, k - 1)
  BY <1>2
<1>4. CASE k \in 1 .. Len(d)
  <2>1. \E j \in DOMAIN Read(v, SubSeq(d, 1, k - 1)) :
          LET e == Read(v, SubSeq(d, 1, k - 1))[j]
          IN  e.kind = "dir" /\ e.name = d[k]
    BY <1>4, Zenon DEF Listed
  <2> QED BY <1>2, <1>3, <1>4, <2>1, Zenon
<1>5. CASE k = Len(d) + 1
  <2>1. k - 1 = Len(d) /\ c[k] = x
    BY <1>2, <1>5 DEF Last
  <2> QED BY <1>2, <1>3, <2>1, Zenon
<1> QED BY <1>2, <1>3, <1>4, <1>5

LEMMA LevelIsCorrect ==
  ASSUME NEW v, IsVolume(v), NEW F, F = Level(v, F), NEW m \in 0 .. 4, Correct(v, F, m + 1)
  PROVE  Correct(v, F, m)
<1> SUFFICES ASSUME NEW d \in DOMAIN v.list, Len(d) >= m
             PROVE  /\ Listed(v, d) /\ F[d] # NoPath =>
                         \E dir : HasFile(v, dir) /\ F[d] = Append(dir, FileName)
                    /\ \A dir : /\ HasFile(v, dir) /\ Len(dir) >= Len(d)
                                /\ SubSeq(dir, 1, Len(d)) = d
                         => F[d] # NoPath
  BY DEF Correct
<1>1. IsPath(d) /\ d \in Seq(Range(d)) /\ Len(d) \in Nat
  BY DEF IsVolume, IsPath
<1>2. CASE Len(d) >= m + 1
  BY <1>2, Zenon DEF Correct
<1>3. CASE Len(d) = m
  <2>1. F[d] = Scan(v, d, F)
    <3>1. ~(Len(d) > MaxDepth)
      BY <1>3 DEF MaxDepth
    <3> QED BY <3>1, Zenon DEF Level
  <2>2. PICK n \in Nat : DOMAIN Read(v, d) = 1 .. n
    BY ReadIs, Zenon
  <2> DEFINE e(i) == Read(v, d)[i]
             c(i) == Append(d, e(i).name)
  <2>3. ASSUME NEW i \in 1 .. n
        PROVE  /\ Len(c(i)) = Len(d) + 1 /\ Len(c(i)) >= m + 1
    <3>1. Len(c(i)) = Len(d) + 1
      BY <1>1, <2>2, PathIs, Zenon
    <3> QED BY <1>1, <1>3, <3>1
  <2>4. ASSUME Listed(v, d), F[d] # NoPath
        PROVE  \E dir : HasFile(v, dir) /\ F[d] = Append(dir, FileName)
    <3>1. PICK i \in 1 .. n : F[d] = Under(v, d, F, e(i))
      BY <2>1, <2>2, <2>4, ScanIsFirst, FirstHit, Zenon
    <3>2. CASE e(i).kind = "dir" /\ c(i) \in DOMAIN v.list
      <4>1. F[d] = F[c(i)]
        BY <3>1, <3>2, Zenon DEF Under
      <4>2. Listed(v, c(i))
        BY <2>2, <2>4, <3>2, ListedBelow, Zenon
      <4> QED BY <2>3, <2>4, <3>2, <4>1, <4>2, Zenon DEF Correct
    <3>3. CASE ~(e(i).kind = "dir" /\ c(i) \in DOMAIN v.list)
      <4>1. e(i).kind = "file" /\ e(i).name = FileName /\ F[d] = Append(d, FileName)
        BY <2>4, <3>1, <3>3, Zenon DEF Under
      <4>2. Len(d) <= MaxDepth
        BY <1>3 DEF MaxDepth
      <4>3. HasFile(v, d)
        BY <2>2, <2>4, <4>1, <4>2, Zenon DEF HasFile
      <4> QED BY <4>1, <4>3, Zenon
    <3> QED BY <3>2, <3>3
  <2>5. ASSUME NEW dir, HasFile(v, dir), Len(dir) >= Len(d), SubSeq(dir, 1, Len(d)) = d
        PROVE  F[d] # NoPath
    <3>1. IsPath(dir) /\ dir \in Seq(Range(dir)) /\ Len(dir) \in Nat
      BY <2>5 DEF HasFile, IsVolume, IsPath
    <3>2. ASSUME NEW i \in 1 .. n, Under(v, d, F, e(i)) # NoPath PROVE F[d] # NoPath
      <4>1. WithHit(v, d, F) # {}
        BY <2>2, <3>2, Zenon DEF WithHit
      <4>2. Min(WithHit(v, d, F)) \in WithHit(v, d, F)
        BY <2>2, <4>1, FirstHit, Zenon
      <4>3. Under(v, d, F, Read(v, d)[Min(WithHit(v, d, F))]) # NoPath
        BY <4>2, Zenon DEF WithHit
      <4>4. Scan(v, d, F) = Under(v, d, F, Read(v, d)[Min(WithHit(v, d, F))])
        BY <2>2, <4>1, ScanIsFirst, Zenon
      <4> QED BY <2>1, <4>3, <4>4, Zenon
    <3>3. CASE Len(dir) = Len(d)
      <4>1. dir = d
        BY <2>5, <3>1, <3>3
      <4>2. PICK i \in 1 .. n : e(i).kind = "file" /\ e(i).name = FileName
        BY <2>2, <2>5, <4>1, Zenon DEF HasFile
      <4>3. Under(v, d, F, e(i)) = Append(d, FileName)
        BY <4>2 DEF Under
      <4>4. Append(d, FileName) # NoPath
        BY <1>1 DEF FileName, NoPath
      <4> QED BY <3>2, <4>3, <4>4
    <3>4. CASE Len(dir) >= Len(d) + 1
      <4> DEFINE k == Len(d) + 1
      <4>1. k \in 1 .. Len(dir) /\ k - 1 = Len(d)
        BY <1>1, <3>1, <3>4
      <4>2. \E j \in DOMAIN Read(v, SubSeq(dir, 1, k - 1)) :
              LET f == Read(v, SubSeq(dir, 1, k - 1))[j]
              IN  f.kind = "dir" /\ f.name = dir[k]
        BY <2>5, <4>1, Zenon DEF HasFile, Listed
      <4>3. PICK i \in 1 .. n : e(i).kind = "dir" /\ e(i).name = dir[k]
        BY <2>2, <2>5, <4>1, <4>2, Zenon
      <4>4. SubSeq(dir, 1, k) \in DOMAIN v.list
        BY <2>5, <4>1, Zenon DEF HasFile, IsVolume, IsPath
      <4>5. c(i) = SubSeq(dir, 1, k)
        <5>1. SubSeq(dir, 1, k - 1) = d
          BY <2>5, <4>1
        <5>2. SubSeq(dir, 1, k) = Append(SubSeq(dir, 1, k - 1), dir[k])
          BY <3>1, <4>1
        <5> QED BY <4>3, <5>1, <5>2
      <4>6. Len(c(i)) = k /\ Len(c(i)) >= m + 1 /\ Len(dir) >= Len(c(i))
        BY <2>3, <3>4
      <4>7. F[c(i)] # NoPath
        BY <2>5, <4>4, <4>5, <4>6, Zenon DEF Correct
      <4>8. Under(v, d, F, e(i)) = F[c(i)]
        BY <4>3, <4>4, <4>5, Zenon DEF Under
      <4> QED BY <3>2, <4>7, <4>8
    <3> QED BY <1>1, <2>5, <3>1, <3>3, <3>4
  <2> QED BY <2>4, <2>5
<1> QED BY <1>1, <1>2, <1>3

(* FindFileRecursive finds a copy within its reach exactly if there is one.*)
LEMMA SearchIsRight ==
  ASSUME NEW v, IsVolume(v)
  PROVE  /\ FindFileRecursive(v) # NoPath =>
              \E dir : HasFile(v, dir) /\ FindFileRecursive(v) = Append(dir, FileName)
         /\ (\E dir : HasFile(v, dir)) => FindFileRecursive(v) # NoPath
<1>1. PICK F : F = Level(v, F) /\ FindFileRecursive(v) = F[<< >>]
  BY SearchIsFixed, Zenon
<1>2. Correct(v, F, 5)
  <2> SUFFICES ASSUME NEW d \in DOMAIN v.list, Len(d) >= 5
               PROVE  /\ F[d] = NoPath
                      /\ \A dir : HasFile(v, dir) => ~(Len(dir) >= Len(d))
    BY Zenon DEF Correct
  <2>1. IsPath(d) /\ d \in Seq(Range(d)) /\ Len(d) \in Nat
    BY DEF IsVolume, IsPath
  <2>2. Len(d) > MaxDepth
    BY <2>1 DEF MaxDepth
  <2>3. F[d] = NoPath
    BY <1>1, <2>2, Zenon DEF Level
  <2>4. ASSUME NEW dir, HasFile(v, dir) PROVE ~(Len(dir) >= Len(d))
    <3>1. IsPath(dir) /\ dir \in Seq(Range(dir)) /\ Len(dir) <= 4
      BY <2>4 DEF HasFile, IsVolume, IsPath, MaxDepth
    <3> QED BY <2>1, <3>1
  <2> QED BY <2>3, <2>4
<1>3. Correct(v, F, 0)
  <2>1. Correct(v, F, 4)
    BY <1>1, <1>2, LevelIsCorrect
  <2>2. Correct(v, F, 3)
    BY <1>1, <2>1, LevelIsCorrect
  <2>3. Correct(v, F, 2)
    BY <1>1, <2>2, LevelIsCorrect
  <2>4. Correct(v, F, 1)
    BY <1>1, <2>3, LevelIsCorrect
  <2> QED BY <1>1, <2>4, LevelIsCorrect
<1>4. << >> \in DOMAIN v.list /\ Len(<< >>) = 0
  BY DEF IsVolume, IsPath
<1>5. Listed(v, << >>)
  BY DEF Listed
<1>6. ASSUME NEW dir, HasFile(v, dir)
      PROVE  Len(dir) >= Len(<< >>) /\ SubSeq(dir, 1, Len(<< >>)) = << >>
  <2>1. IsPath(dir) /\ dir \in Seq(Range(dir)) /\ Len(dir) \in Nat
    BY <1>6 DEF HasFile, IsVolume, IsPath
  <2> QED BY <1>4, <2>1
<1>7. Len(<< >>) >= 0
  BY <1>4
<1> QED BY <1>1, <1>3, <1>4, <1>5, <1>6, <1>7, Zenon DEF Correct

(* What the first of a sequence of attempts is.                            *)
LEMMA FirstOfIs ==
  ASSUME NEW a, NEW none, NEW n \in Nat, DOMAIN a = 1 .. n, Len(a) = n
  PROVE  \/ FirstOf(a, none) = none /\ \A i \in 1 .. n : a[i] = none
         \/ \E i \in 1 .. n : /\ FirstOf(a, none) = a[i] /\ a[i] # none
                             /\ \A j \in 1 .. n : j < i => a[j] = none
<1> DEFINE I  == {i \in 1 .. n : a[i] # none}
           at == IF I # {} THEN Min(I) ELSE 0
<1>1. FirstOf(a, none) = IF at = 0 THEN none ELSE a[at]
  BY DEF FirstOf, SelectInSeq
<1>2. 1 .. n \subseteq Nat
  BY SMT
<1>3. CASE I = {}
  <2>1. at = 0 /\ \A i \in 1 .. n : a[i] = none
    BY <1>3, Zenon
  <2> QED BY <1>1, <2>1
<1>4. CASE I # {}
  <2>1. I \subseteq Nat
    BY <1>2, Zenon
  <2>2. at = Min(I) /\ Min(I) \in I /\ \A j \in I : Min(I) <= j
    BY <1>4, <2>1, LeastMember, Zenon
  <2> HIDE DEF at
  <2>3. at \in 1 .. n /\ a[at] # none /\ \A j \in I : at <= j
    BY <2>2
  <2>4. ASSUME NEW j \in 1 .. n, j < at PROVE a[j] = none
    <3>1. ~(at <= j)
      BY <2>3, <2>4
    <3> QED BY <2>3, <3>1
  <2>5. at # 0
    BY <2>3
  <2> QED BY <1>1, <2>3, <2>4, <2>5
<1> QED BY <1>3, <1>4

(* r is a copy on volume k.                                                *)
IsCopy(disk, k, r) ==
  r.volume = k /\ Last(r.path) = FileName /\ Opens(disk.volumes[k], r.path)

LEMMA InDirectory ==
  ASSUME NEW disk, IsDisk(disk), NEW k \in 0 .. Len(disk.volumes), NEW dir, IsPath(dir)
  PROVE  LET r == FindUnderVolterIn(disk, k, dir)
         IN  /\ r # Nowhere <=> k # 0 /\ Opens(disk.volumes[k], Append(dir, FileName))
             /\ r # Nowhere => IsCopy(disk, k, r) /\ r.path = Append(dir, FileName)
<1>1. Append(dir, FileName) # NoPath /\ Last(Append(dir, FileName)) = FileName
  BY PathIs DEF FileName, NoPath
<1> DEFINE here == [volume |-> k, path |-> Append(dir, FileName)]
<1>2. here # Nowhere /\ here.volume = k /\ here.path = Append(dir, FileName)
  BY <1>1 DEF Nowhere
<1>3. FindUnderVolterIn(disk, k, dir) =
        IF k # 0 /\ Opens(disk.volumes[k], Append(dir, FileName)) THEN here ELSE Nowhere
  BY <1>1, Zenon DEF FindUnderVolterIn, At
<1> HIDE DEF here
<1> QED BY <1>1, <1>2, <1>3, Zenon DEF IsCopy

LEMMA OnDevice ==
  ASSUME NEW disk, IsDisk(disk), NEW k \in 0 .. Len(disk.volumes)
  PROVE  LET r == FindUnderVolterOnDevice(disk, k)
             v == disk.volumes[k]
         IN  /\ r # Nowhere => k # 0 /\ HasCopy(v) /\ IsCopy(disk, k, r)
             /\ k # 0 /\ HasCopy(v) /\ ~Opens(v, Append(PreferredDir, FileName)) => r # Nowhere
<1> DEFINE r == FindUnderVolterOnDevice(disk, k)
           v == disk.volumes[k]
           p == FindFileRecursive(v)
<1>1. CASE k = 0 \/ ~v.mounts
  <2>1. r = Nowhere
    BY <1>1, Zenon DEF FindUnderVolterOnDevice
  <2> QED BY <1>1, <2>1, Zenon DEF HasCopy
<1>2. CASE k # 0 /\ v.mounts
  <2>1. IsVolume(v)
    <3>1. k \in DOMAIN disk.volumes
      BY <1>2 DEF IsDisk
    <3> QED BY <3>1 DEF IsDisk
  <2>2. r = IF p = NoPath THEN Nowhere ELSE [volume |-> k, path |-> p]
    BY <1>2, Zenon DEF FindUnderVolterOnDevice, At
  <2>3. p # NoPath => [volume |-> k, path |-> p] # Nowhere
    BY DEF Nowhere
  <2>4. ASSUME p # NoPath PROVE HasCopy(v) /\ IsCopy(disk, k, r)
    <3>1. PICK dir : HasFile(v, dir) /\ p = Append(dir, FileName)
      BY <2>1, <2>4, SearchIsRight, Zenon
    <3>2. HasCopy(v)
      BY <1>2, <3>1, Zenon DEF HasCopy, HasFile
    <3>3. dir \in DOMAIN v.list /\ IsPath(dir) /\ dir \in Seq(Range(dir))
      BY <2>1, <3>1, Zenon DEF HasFile, IsVolume, IsPath
    <3>4. p # NoPath /\ Front(p) = dir /\ Last(p) = FileName
      BY <3>1, <3>3, PathIs DEF FileName, NoPath
    <3>5. PICK i \in DOMAIN v.list[dir] :
            v.list[dir][i].kind = "file" /\ v.list[dir][i].name = FileName
      <4>1. PICK n \in Nat :
              /\ DOMAIN Read(v, dir) = 1 .. n
              /\ \A i \in 1 .. n : /\ i \in DOMAIN v.list[dir]
                                   /\ Read(v, dir)[i] = v.list[dir][i]
        BY <2>1, <3>3, ReadIs, Zenon
      <4>2. PICK i \in DOMAIN Read(v, dir) :
              Read(v, dir)[i].kind = "file" /\ Read(v, dir)[i].name = FileName
        BY <3>1, Zenon DEF HasFile
      <4> QED BY <4>1, <4>2, Zenon
    <3>6. "file" # "error"
      OBVIOUS
    <3>7. Opens(v, p)
      BY <1>2, <3>3, <3>4, <3>5, <3>6, Zenon DEF Opens
    <3>8. r.volume = k /\ r.path = p
      BY <2>2, <2>4
    <3> QED BY <3>2, <3>4, <3>7, <3>8, Zenon DEF IsCopy
  <2>5. ASSUME HasCopy(v), ~Opens(v, Append(PreferredDir, FileName)) PROVE p # NoPath
    <3>1. \E dir : HasFile(v, dir)
      BY <2>5, Zenon DEF HasCopy, HasFile
    <3> QED BY <2>1, <3>1, SearchIsRight, Zenon
  <2> HIDE DEF p, r, v
  <2> QED BY <1>2, <2>2, <2>3, <2>4, <2>5 DEF r, v
<1> QED BY <1>1, <1>2

LEMMA PreferredIsPath == IsPath(PreferredDir)
<1>1. PreferredDir \in Seq({"EFI", "OC", "Drivers"})
  BY DEF PreferredDir
<1> QED BY <1>1, SeqIsPath

LEMMA OnPartition ==
  ASSUME NEW disk, IsDisk(disk), NEW k \in 1 .. Len(disk.volumes)
  PROVE  LET r == FindUnderVolterOnAllFileSystems(disk)[k]
         IN  /\ r # Nowhere <=> HasCopy(disk.volumes[k]) /\ IsEfiSystemPartition(disk, k)
             /\ r # Nowhere => IsCopy(disk, k, r)
<1> DEFINE r         == FindUnderVolterOnAllFileSystems(disk)[k]
           v         == disk.volumes[k]
           preferred == FindUnderVolterIn(disk, k, PreferredDir)
           anywhere  == FindUnderVolterOnDevice(disk, k)
<1>1. k \in DOMAIN disk.volumes /\ k # 0 /\ k \in 0 .. Len(disk.volumes)
  BY DEF IsDisk
<1>2. r = IF ~IsEfiSystemPartition(disk, k) THEN Nowhere
          ELSE IF preferred # Nowhere THEN preferred ELSE anywhere
  BY <1>1, Zenon DEF FindUnderVolterOnAllFileSystems
<1>3. IsPath(PreferredDir)
  BY PreferredIsPath
<1>4. /\ preferred # Nowhere <=> Opens(v, Append(PreferredDir, FileName))
      /\ preferred # Nowhere => IsCopy(disk, k, preferred)
  BY <1>1, <1>3, InDirectory, Zenon
<1>5. /\ anywhere # Nowhere => HasCopy(v) /\ IsCopy(disk, k, anywhere)
      /\ HasCopy(v) /\ ~Opens(v, Append(PreferredDir, FileName)) => anywhere # Nowhere
  BY <1>1, OnDevice, Zenon
<1>6. Opens(v, Append(PreferredDir, FileName)) => HasCopy(v)
  BY Zenon DEF HasCopy, Opens
<1> HIDE DEF r, preferred, anywhere
<1> QED BY <1>2, <1>4, <1>5, <1>6 DEF r

(* The attempts of StartUnderVolter in their order come to the nearest.    *)
LEMMA AttemptsAreNearest ==
  ASSUME NEW disk, IsDisk(disk), NEW knowsImage \in BOOLEAN, NEW knowsDir \in BOOLEAN,
         knowsDir => knowsImage
  PROVE  IsNearest(disk, knowsImage, knowsDir,
                   FirstOf(FindUnderVolter(disk, knowsImage, knowsDir), Nowhere))
<1> DEFINE own    == IF knowsImage THEN disk.own ELSE 0
           v      == disk.volumes[own]
           beside == knowsDir /\ own # 0 /\ Opens(v, Append(disk.dir, FileName))
           a1     == IF knowsDir THEN FindUnderVolterIn(disk, own, disk.dir) ELSE Nowhere
           a2     == FindUnderVolterIn(disk, own, PreferredDir)
           a3     == FindUnderVolterOnDevice(disk, own)
           N      == Len(disk.volumes)
           s      == FindUnderVolterOnAllFileSystems(disk)
           a      == FindUnderVolter(disk, knowsImage, knowsDir)
           r      == FirstOf(a, Nowhere)
           others == {k \in DOMAIN disk.volumes :
                        HasCopy(disk.volumes[k]) /\ IsEfiSystemPartition(disk, k)}
<1>1. N \in Nat /\ DOMAIN disk.volumes = 1 .. N /\ own \in 0 .. N
  BY DEF IsDisk
<1>2. IsPath(disk.dir) /\ IsPath(PreferredDir)
  BY PreferredIsPath DEF IsDisk
<1> HIDE DEF own
<1>3. /\ a1 # Nowhere <=> beside
      /\ a1 # Nowhere => IsCopy(disk, own, a1) /\ a1.path = Append(disk.dir, FileName)
  BY <1>1, <1>2, InDirectory, Zenon
<1>4. /\ a2 # Nowhere <=> own # 0 /\ Opens(v, Append(PreferredDir, FileName))
      /\ a2 # Nowhere => IsCopy(disk, own, a2) /\ a2.path = Append(PreferredDir, FileName)
  BY <1>1, <1>2, InDirectory, Zenon
<1>5. /\ a3 # Nowhere => own # 0 /\ HasCopy(v) /\ IsCopy(disk, own, a3)
      /\ own # 0 /\ HasCopy(v) /\ ~Opens(v, Append(PreferredDir, FileName)) => a3 # Nowhere
  BY <1>1, OnDevice, Zenon
<1>6. Opens(v, Append(PreferredDir, FileName)) => HasCopy(v)
  BY Zenon DEF HasCopy, Opens
<1>7. ASSUME NEW k \in 1 .. N
      PROVE  /\ s[k] # Nowhere <=> k \in others
             /\ s[k] # Nowhere => IsCopy(disk, k, s[k])
  <2>1. /\ s[k] # Nowhere <=> HasCopy(disk.volumes[k]) /\ IsEfiSystemPartition(disk, k)
        /\ s[k] # Nowhere => IsCopy(disk, k, s[k])
    BY <1>1, OnPartition, Zenon
  <2>2. k \in DOMAIN disk.volumes
    BY <1>1
  <2> QED BY <2>1, <2>2, Zenon
<1>15. others \subseteq 1 .. N
  BY <1>1, Zenon
<1>8. a = <<a1, a2, a3>> \o s
  BY DEF FindUnderVolter, own
<1>9. s = [k \in 1 .. N |-> s[k]]
  BY <1>1, Zenon DEF FindUnderVolterOnAllFileSystems
<1> HIDE DEF N, s, a, a1, a2, a3, others, beside
<1>10. /\ DOMAIN a = 1 .. N + 3 /\ Len(a) = N + 3
       /\ a[1] = a1 /\ a[2] = a2 /\ a[3] = a3
       /\ \A k \in 1 .. N : a[k + 3] = s[k]
  <2> DEFINE S == {a1, a2, a3} \cup {s[k] : k \in 1 .. N}
             t == <<a1, a2, a3>>
  <2>1. t \in Seq(S) /\ Len(t) = 3 /\ t[1] = a1 /\ t[2] = a2 /\ t[3] = a3
    OBVIOUS
  <2>2. s \in Seq(S) /\ Len(s) = N
    <3>1. \A k \in 1 .. N : s[k] \in S
      OBVIOUS
    <3> HIDE DEF S
    <3>2. s \in [1 .. N -> S]
      BY <1>9, <3>1, Zenon
    <3> QED BY <1>1, <3>2
  <2> HIDE DEF S, t
  <2>3. /\ Len(t \o s) = N + 3 /\ t \o s \in Seq(S)
        /\ \A i \in 1 .. N + 3 : (t \o s)[i] = IF i <= 3 THEN t[i] ELSE s[i - 3]
    <3>1. /\ t \o s \in Seq(S) /\ Len(t \o s) = Len(t) + Len(s)
          /\ \A i \in 1 .. Len(t) + Len(s) :
               (t \o s)[i] = IF i <= Len(t) THEN t[i] ELSE s[i - Len(t)]
      BY <2>1, <2>2, ConcatProperties, Zenon
    <3>2. Len(t) + Len(s) = N + 3
      BY <1>1, <2>1, <2>2
    <3> QED BY <2>1, <3>1, <3>2, Zenon
  <2>4. a = t \o s
    BY <1>8 DEF t
  <2>5. DOMAIN a = 1 .. N + 3
    <3> HIDE DEF a
    <3> QED BY <2>3, <2>4
  <2>6. a[1] = a1 /\ a[2] = a2 /\ a[3] = a3
    <3>1. 1 \in 1 .. N + 3 /\ 2 \in 1 .. N + 3 /\ 3 \in 1 .. N + 3
      BY <1>1
    <3> QED BY <2>1, <2>3, <2>4, <3>1
  <2>7. ASSUME NEW k \in 1 .. N PROVE a[k + 3] = s[k]
    <3>1. k + 3 \in 1 .. N + 3 /\ ~(k + 3 <= 3) /\ (k + 3) - 3 = k
      BY <1>1
    <3> QED BY <2>3, <2>4, <3>1
  <2> QED BY <2>3, <2>4, <2>5, <2>6, <2>7
<1>11. \/ r = Nowhere /\ \A i \in 1 .. N + 3 : a[i] = Nowhere
       \/ \E i \in 1 .. N + 3 : /\ r = a[i] /\ a[i] # Nowhere
                                /\ \A j \in 1 .. N + 3 : j < i => a[j] = Nowhere
  <2>1. N + 3 \in Nat
    BY <1>1
  <2>2. DOMAIN a = 1 .. N + 3 /\ Len(a) = N + 3
    BY <1>10
  <2>3. \/ FirstOf(a, Nowhere) = Nowhere /\ \A i \in 1 .. N + 3 : a[i] = Nowhere
        \/ \E i \in 1 .. N + 3 : /\ FirstOf(a, Nowhere) = a[i] /\ a[i] # Nowhere
                                 /\ \A j \in 1 .. N + 3 : j < i => a[j] = Nowhere
    BY <2>1, <2>2, FirstOfIs
  <2> QED BY <2>3, Zenon
<1> HIDE DEF r
<1>12. IF a1 # Nowhere THEN r = a1
       ELSE IF a2 # Nowhere THEN r = a2
       ELSE IF a3 # Nowhere THEN r = a3
       ELSE \/ r = Nowhere /\ \A k \in 1 .. N : s[k] = Nowhere
            \/ \E k \in 1 .. N : /\ r = s[k] /\ s[k] # Nowhere
                                 /\ \A j \in 1 .. N : j < k => s[j] = Nowhere
  <2>1. CASE r = Nowhere /\ \A i \in 1 .. N + 3 : a[i] = Nowhere
    <3>1. 1 \in 1 .. N + 3 /\ 2 \in 1 .. N + 3 /\ 3 \in 1 .. N + 3
      BY <1>1
    <3>2. \A k \in 1 .. N : k + 3 \in 1 .. N + 3
      BY <1>1
    <3> QED BY <1>10, <2>1, <3>1, <3>2, Zenon
  <2>2. ASSUME NEW i \in 1 .. N + 3, r = a[i], a[i] # Nowhere,
               \A j \in 1 .. N + 3 : j < i => a[j] = Nowhere
        PROVE  IF a1 # Nowhere THEN r = a1
               ELSE IF a2 # Nowhere THEN r = a2
               ELSE IF a3 # Nowhere THEN r = a3
               ELSE \E k \in 1 .. N : /\ r = s[k] /\ s[k] # Nowhere
                                     /\ \A j \in 1 .. N : j < k => s[j] = Nowhere
    <3>1. 1 \in 1 .. N + 3 /\ 2 \in 1 .. N + 3 /\ 3 \in 1 .. N + 3
      BY <1>1
    <3>2. CASE i = 1
      BY <1>10, <2>2, <3>2, Zenon
    <3>3. CASE i = 2
      <4>1. a1 = Nowhere
        BY <1>10, <2>2, <3>1, <3>3
      <4> QED BY <1>10, <2>2, <3>3, <4>1, Zenon
    <3>4. CASE i = 3
      <4>1. a1 = Nowhere /\ a2 = Nowhere
        BY <1>10, <2>2, <3>1, <3>4
      <4> QED BY <1>10, <2>2, <3>4, <4>1, Zenon
    <3>5. CASE i > 3
      <4>1. a1 = Nowhere /\ a2 = Nowhere /\ a3 = Nowhere
        BY <1>1, <1>10, <2>2, <3>1, <3>5
      <4>2. PICK k \in 1 .. N : i = k + 3
        <5>1. i - 3 \in 1 .. N /\ i = (i - 3) + 3
          BY <1>1, <3>5
        <5> QED BY <5>1
      <4>3. ASSUME NEW j \in 1 .. N, j < k PROVE s[j] = Nowhere
        <5>1. j + 3 \in 1 .. N + 3 /\ j + 3 < i
          BY <1>1, <4>2, <4>3
        <5> QED BY <1>10, <2>2, <5>1, Zenon
      <4>4. r = s[k] /\ s[k] # Nowhere
        BY <1>10, <2>2, <4>2, Zenon
      <4> QED BY <4>1, <4>3, <4>4, Zenon
    <3> QED BY <1>1, <3>2, <3>3, <3>4, <3>5
  <2> QED BY <1>11, <2>1, <2>2, Zenon
<1>13. CASE own # 0 /\ (beside \/ HasCopy(v))
  <2>1. IsCopy(disk, own, r)
    BY <1>3, <1>4, <1>5, <1>12, <1>13, Zenon
  <2>2. beside => r.path = Append(disk.dir, FileName)
    BY <1>3, <1>12, Zenon
  <2>3. ~beside /\ Opens(v, Append(PreferredDir, FileName))
          => r.path = Append(PreferredDir, FileName)
    BY <1>3, <1>4, <1>12, <1>13, Zenon
  <2> QED BY <1>13, <2>1, <2>2, <2>3, Zenon DEF IsNearest, IsCopy, own, r, a, beside
<1>14. CASE ~(own # 0 /\ (beside \/ HasCopy(v)))
  <2>1. a1 = Nowhere /\ a2 = Nowhere /\ a3 = Nowhere
    BY <1>3, <1>4, <1>5, <1>6, <1>14, Zenon DEF beside
  <2>2. CASE others = {}
    <3>1. r = Nowhere
      BY <1>7, <1>12, <2>1, <2>2, Zenon
    <3> QED BY <1>14, <2>2, <3>1, Zenon DEF IsNearest, own, r, a, beside, others
  <2>3. CASE others # {}
    <3>1. PICK k \in 1 .. N : /\ r = s[k] /\ s[k] # Nowhere
                             /\ \A j \in 1 .. N : j < k => s[j] = Nowhere
      <4>1. \E k \in 1 .. N : s[k] # Nowhere
        BY <1>15, <1>7, <2>3, Zenon
      <4> QED BY <1>12, <2>1, <4>1, Zenon
    <3>2. IsCopy(disk, k, r) /\ k \in others
      BY <1>7, <3>1, Zenon
    <3>3. ASSUME NEW j \in others PROVE k <= j
      <4>1. j \in 1 .. N
        BY <1>15, Zenon
      <4>2. ~(j < k)
        BY <1>7, <3>1, <4>1, Zenon
      <4> QED BY <1>1, <4>1, <4>2
    <3>4. r.volume \in others /\ \A j \in others : r.volume <= j
      BY <3>2, <3>3, Zenon DEF IsCopy
    <3> QED BY <1>14, <2>3, <3>2, <3>4, Zenon DEF IsNearest, IsCopy, own, r, a, beside, others
  <2> QED BY <2>2, <2>3
<1> QED BY <1>13, <1>14

(* What was found in this boot is what the attempts came to on this disk.  *)
SearchInv ==
  image # NotSearched => \E knowsDir \in KnowsDir :
    image = FirstOf(FindUnderVolter(DiskOf(machine.disk), KnowsImage, knowsDir), Nowhere)

LEMMA SearchStep == SearchInv /\ [ChainNext]_cvars => SearchInv'
<1> SUFFICES ASSUME SearchInv, [ChainNext]_cvars, image' # NotSearched
             PROVE  \E knowsDir \in KnowsDir' :
                      image' = FirstOf(FindUnderVolter(DiskOf(machine.disk)', KnowsImage', knowsDir),
                                       Nowhere)
  BY Zenon DEF SearchInv
<1>0. UNCHANGED machine
  BY StepOfImage, MachineStays
<1>1. CASE UNCHANGED <<image, knows>>
  BY <1>0, <1>1 DEF SearchInv, KnowsDir, KnowsImage
<1>2. CASE StartUnderVolter
  <2>1. UNCHANGED knows
    BY <1>2 DEF StartUnderVolter, firmware
  <2>2. \E knowsDir \in KnowsDir :
          image' = FirstOf(FindUnderVolter(DiskOf(machine.disk), KnowsImage, knowsDir), Nowhere)
    BY <1>2, Zenon DEF StartUnderVolter
  <2> QED BY <1>0, <2>1, <2>2 DEF KnowsDir, KnowsImage
<1>3. CASE UnderVolterStep
  <2>1. UNCHANGED <<image, knows>>
    BY <1>3 DEF UnderVolterStep, firmware
  <2> QED BY <1>1, <2>1
<1>4. CASE LoaderStep
  <2>1. UNCHANGED image
    BY <1>4 DEF LoaderStep
  <2>2. UNCHANGED knows
    BY <1>4 DEF LoaderStep, AfterUnderVolter, TryBootNext, TryNextEntry, OrderExhausted,
                ImageEnds, Fallback, firmware
  <2> QED BY <1>1, <2>1, <2>2
<1>5. CASE PowerUp \/ LoaderAgain
  BY <1>5 DEF PowerUp, LoaderAgain, NotSearched
<1>6. CASE UNCHANGED cvars
  <2>1. UNCHANGED <<image, knows>>
    BY <1>6 DEF cvars, vars, firmware
  <2> QED BY <1>1, <2>1
<1> QED BY <1>2, <1>3, <1>4, <1>5, <1>6 DEF ChainNext, Advance

(* From where the loader was started, the nearest copy within reach is     *)
(* taken, and none only when there is none (StartUnderVolter,              *)
(* FindFileRecursive, FindUnderVolterOnAllFileSystems).                    *)
THEOREM NearestCopyIsTaken == ChainSpec => []NearestCopy
<1>1. ChainInit => SearchInv
  BY DEF ChainInit, SearchInv
<1>2. ChainInv /\ SearchInv => NearestCopy
  <2> SUFFICES ASSUME ChainInv, SearchInv, image # NotSearched
               PROVE  \E knowsDir \in KnowsDir :
                        IsNearest(DiskOf(machine.disk), KnowsImage, knowsDir, image)
    BY Zenon DEF NearestCopy
  <2>1. machine.disk \in Disks
    <3>1. machine \in Machines
      BY Zenon DEF ChainInv, UTypeOK
    <3> QED BY <3>1 DEF Machines
  <2>2. IsDisk(DiskOf(machine.disk))
    BY <2>1, DiskAssumption, Zenon
  <2>3. PICK knowsDir \in KnowsDir :
          image = FirstOf(FindUnderVolter(DiskOf(machine.disk), KnowsImage, knowsDir), Nowhere)
    BY Zenon DEF SearchInv
  <2>4. KnowsImage \in BOOLEAN /\ knowsDir \in BOOLEAN /\ (knowsDir => KnowsImage)
    <3>1. KnowsImage \in BOOLEAN
      BY DEF KnowsImage
    <3>2. CASE knows = "file"
      <4>1. KnowsImage /\ knowsDir = TRUE
        BY <3>2 DEF KnowsImage, KnowsDir
      <4> QED BY <3>1, <4>1
    <3>3. CASE knows = "image"
      <4>1. KnowsImage /\ knowsDir \in BOOLEAN
        BY <3>3 DEF KnowsImage, KnowsDir
      <4> QED BY <3>1, <4>1
    <3>4. CASE knows # "file" /\ knows # "image"
      <4>1. knowsDir = FALSE
        BY <3>4 DEF KnowsDir
      <4> QED BY <3>1, <4>1
    <3> QED BY <3>2, <3>3, <3>4
  <2> QED BY <2>2, <2>3, <2>4, AttemptsAreNearest, Zenon
<1> QED BY <1>1, <1>2, SearchStep, ChainInvariant, PTL DEF ChainSpec
=============================================================================
