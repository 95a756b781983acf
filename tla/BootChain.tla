----------------------------- MODULE BootChain ------------------------------
(***************************************************************************)
(* The whole chain from the firmware to the operating system: the loader   *)
(* (Loader) searches for UnderVolter.efi (LoaderSearch) and starts it, the *)
(* steps of UefiMain run while the loader waits in StartImage, and every   *)
(* end of them is a step of the loader again.  Here Loader's single step   *)
(* RunUnderVolter is replaced by the program; the chain implements Loader. *)
(***************************************************************************)
EXTENDS Loader, UefiMain, LoaderSearch

VARIABLES
  image     \* where UnderVolter.efi was found in this boot; NotSearched

ASSUME DiskAssumption == \A id \in Disks : IsDisk(DiskOf(id))

NotSearched == [volume |-> 0, path |-> <<"not searched">>]

cvars == <<vars, uvars, image>>

ChainInit == Init /\ UInit /\ image = NotSearched

(* Whether the loader has the protocol of its own image, and its path.     *)
KnowsImage == knows # "nothing"
KnowsDir   == CASE knows = "file" -> {TRUE} [] knows = "image" -> BOOLEAN [] OTHER -> {FALSE}

-----------------------------------------------------------------------------
(* What was found is a file: the search by name opens directories as well. *)
Loadable(found) ==
  /\ found.volume # 0
  /\ EntryAt(DiskOf(machine.disk).volumes[found.volume], found.path).kind = "file"

(* StartUnderVolter up to LoadImage.  A file that does not load ends it.   *)
StartUnderVolter ==
  /\ stage = "underVolter" /\ image = NotSearched
  /\ \E disk \in {DiskOf(machine.disk)}, knowsDir \in KnowsDir :
       \E attempts \in {FindUnderVolter(disk, KnowsImage, knowsDir)} :
         image' = FirstOf(attempts, Nowhere)
  /\ \/ Loadable(image') /\ StartImage /\ UNCHANGED stage
     \/ stage' = "bootNext" /\ UNCHANGED uvars
  /\ UNCHANGED <<firmware, bootNext, bootCurrent, boots, index, running, started, viaNext>>

(* Mutant of PinBootNext: a BootNext that the user has set is lost.        *)
PinBootNextAlways ==
  bootNext' \in {bootNext, bootCurrent}

(* Before their reset both provisioning stages set BootNext to BootCurrent *)
(* if it is not set and BootCurrent is; a failure is ignored.              *)
PinBootNext ==
  bootNext' \in {bootNext} \cup (IF bootNext = NoNumber THEN {bootCurrent} ELSE {})

(* A step of UnderVolter, and what it means to the loader that started it. *)
UnderVolterStep ==
  /\ stage = "underVolter" /\ image # NotSearched
  /\ UNext(image)
  /\ CASE step' = "off"    -> stage' = "bootNext" /\ UNCHANGED bootNext
       [] step' = "frozen" -> stage' = "frozen" /\ UNCHANGED bootNext
       [] step' = "reset"  -> stage' = "reset" /\ PinBootNext
       [] OTHER            -> UNCHANGED <<stage, bootNext>>
  /\ UNCHANGED <<firmware, bootCurrent, boots, index, running, started, viaNext, image>>

(* The loader goes on.                                                     *)
LoaderStep == AfterUnderVolter /\ UNCHANGED <<uvars, image>>

(* The loader has started itself, and the copy searches for UnderVolter.efi*)
(* again.                                                                  *)
LoaderAgain == StartsItself /\ image' = NotSearched /\ UNCHANGED uvars

PowerUp == Boot /\ PowerOn /\ image' = NotSearched

Advance == StartUnderVolter \/ UnderVolterStep \/ LoaderStep \/ LoaderAgain

ChainNext == Advance \/ PowerUp

(* A running program runs on, calls return, and a machine that was reset   *)
(* starts again; a user who restarts a running system need not.            *)
Fairness == WF_cvars(Advance) /\ WF_cvars(PowerUp /\ stage = "reset")

ChainSpec == ChainInit /\ [][ChainNext]_cvars /\ Fairness

-----------------------------------------------------------------------------
(* The image runs only while the loader waits for it, and when it has      *)
(* stopped or reset the machine, the loader has not gone on.               *)
TurnInv ==
  /\ step \notin {"off", "reset", "frozen"} => stage = "underVolter" /\ image # NotSearched
  /\ step = "frozen" <=> stage = "frozen"
  /\ step = "reset" => stage = "reset"

(* The inductive invariant of the chain.                                   *)
ChainInv == LoaderInv /\ UTypeOK /\ TurnInv /\ HookInv /\ WishInv

(* Each step of the chain is a step of Loader or leaves the loader alone.  *)
LoaderSpec == Spec

(* Of all copies of UnderVolter.efi within reach the nearest is taken, and *)
(* none only when there is none: own directory, preferred directory, own   *)
(* volume, other partitions.                                               *)
NearestCopy ==
  image # NotSearched =>
    \E knowsDir \in KnowsDir :
      IsNearest(DiskOf(machine.disk), KnowsImage, knowsDir, image)

(* The entry is one the loader can tell for its own: it names the loader's *)
(* device by its full path, and the loader knows that path and its name.   *)
Recognisable(n) == KnowsItself /\ entries[n].place = "own"

(* However often the two stages reset the machine, in the end an operating *)
(* system runs or the firmware has the control back, unless a fault froze  *)
(* a processor.  That holds if the loader can recognise each entry that    *)
(* would load it (IsForbiddenTarget); an entry in the short form, or any   *)
(* of its own when it does not know its path, it may start for ever.       *)
ChainEnds ==
  (/\ stage = "underVolter"
   /\ \A n \in Numbers :
        entries[n].active /\ entries[n].good /\ LoadsSelf(n) => Recognisable(n))
    ~> stage \in {"os", "returned", "frozen"}
=============================================================================
