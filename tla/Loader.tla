------------------------------- MODULE Loader -------------------------------
(***************************************************************************)
(* The loader (src/src/Loader.c): started by the firmware from a boot      *)
(* entry, it runs UnderVolter.efi if it can find it and then starts the    *)
(* system the user wanted: BootNext, the entries of BootOrder after its    *)
(* own, and last the Windows Boot Manager of another partition.            *)
(*                                                                         *)
(* A boot entry is a record: `active`; `place`, whether its device path is *)
(* the loader's own device, another one, or the own device in the short    *)
(* form HD(...), which does not start with the bytes of the full path;     *)
(* `file`, what its file path names; `good`, whether the variable parses.  *)
(* `self` says that the entry loads this loader: it follows from place and *)
(* file, and only the model looks at it.                                   *)
(***************************************************************************)
EXTENDS Naturals, Sequences, FiniteSets, SequencesExt

CONSTANTS
  Numbers,       \* boot numbers
  NoNumber,      \* a variable that is not set
  EntrySets,     \* contents of the Boot#### variables considered
  Orders,        \* contents of BootOrder considered
  MaxBoots       \* bound: crashes and restarts that UnderVolter did not ask for

Places == {"own", "short", "other"}
Files  == {"self", "loader", "bootx64", "none", "os"}
Names  == {"bootx64", "loader", "other"}
Knowledge == {"nothing", "image", "device", "file"}

ASSUME LoaderAssumption ==
  /\ NoNumber \notin Numbers
  /\ EntrySets \subseteq
       [Numbers -> [active : BOOLEAN, good : BOOLEAN, place : Places, file : Files]]
  /\ Orders \subseteq Seq(Numbers)
  /\ MaxBoots \in Nat

VARIABLES
  \* the firmware
  entries, bootOrder, bootNext, bootCurrent,
  ownName,       \* the loader's file: \EFI\Boot\BOOTX64.EFI, a \Loader.efi
                 \* or any other name
  knows,         \* what it could find out about itself: nothing, its image
                 \* without the path of its device, the device path, or
                 \* its file path as well
  boots,
  \* the loader
  stage,
  index,         \* i of the BootOrder loop
  running,       \* boot number of the image StartImage runs
  \* history
  started,       \* numbers started by the loader that runs, in order
  viaNext        \* the number started because of BootNext

firmware == <<entries, bootOrder, ownName, knows>>
vars == <<firmware, bootNext, bootCurrent, boots, stage, index, running,
          started, viaNext>>

Stages == {"underVolter", "bootNext", "order", "fallback", "image",
           "os", "returned", "reset", "frozen"}

TypeOK ==
  /\ entries \in EntrySets
  /\ bootOrder \in Orders
  /\ bootNext \in Numbers \cup {NoNumber}
  /\ bootCurrent \in Numbers \cup {NoNumber}
  /\ ownName \in Names /\ knows \in Knowledge
  /\ boots \in 0 .. MaxBoots
  /\ stage \in Stages
  /\ index \in 0 .. Len(bootOrder)
  /\ running \in Numbers \cup {NoNumber}
  /\ started \in Seq(Numbers)
  /\ viaNext \in Numbers \cup {NoNumber}

(* The entry loads this very loader.                                       *)
LoadsSelf(n) ==
  /\ entries[n].place \in {"own", "short"}
  /\ \/ entries[n].file = "self"
     \/ entries[n].file \in {"bootx64", "none"} /\ ownName = "bootx64"

(* BootCurrent is the entry the firmware started the loader from; it is    *)
(* not set when the firmware came here by another way.  An empty BootOrder *)
(* is also one that cannot be read.                                        *)
Init ==
  /\ entries \in EntrySets
  /\ bootOrder \in Orders
  /\ bootNext \in Numbers \cup {NoNumber}
  /\ ownName \in Names
  /\ bootCurrent \in {n \in Numbers : LoadsSelf(n) /\ entries[n].good} \cup {NoNumber}
  /\ knows \in Knowledge
  /\ boots = 0
  /\ stage = "underVolter"
  /\ index = 0
  /\ running = NoNumber
  /\ started = << >>
  /\ viaNext = NoNumber

-----------------------------------------------------------------------------
(* IsForbiddenTarget: only an entry whose device path begins with the      *)
(* loader's own can be one.  With its file path unknown, the loader knows  *)
(* itself by the two names alone.                                          *)
Forbidden(n) ==
  /\ knows \in {"device", "file"}
  /\ entries[n].place = "own"
  /\ \/ entries[n].file \in {"loader", "bootx64"}
     \/ entries[n].file = "none" /\ (knows = "device" \/ ownName = "bootx64")
     \/ entries[n].file = "self" /\ (knows = "file" \/ ownName # "other")

(* Mutant of Startable: the self-loop test is missing.                     *)
StartableAnywhere(n) ==
  entries[n].good /\ entries[n].active

(* StartBootOptionByNumber gets as far as LoadImage.                       *)
Startable(n) ==
  entries[n].good /\ entries[n].active /\ ~Forbidden(n)

(* StartUnderVolter, as a whole: it finds nothing, or the image returns,   *)
(* or freezes the machine, or resets it (BootNext may then name the entry  *)
(* the loader came from).  BootChain shows the steps in between.           *)
RunUnderVolter ==
  /\ stage = "underVolter"
  /\ \/ stage' \in {"bootNext", "frozen"} /\ UNCHANGED bootNext
     \/ /\ stage' = "reset"
        /\ bootNext' \in {bootNext} \cup (IF bootNext = NoNumber THEN {bootCurrent} ELSE {})
  /\ UNCHANGED <<firmware, bootCurrent, boots, index, running, started, viaNext>>

(* Mutant of TryBootNext: the variable is left for the firmware.           *)
TryBootNextKept ==
  /\ stage = "bootNext"
  /\ IF bootNext # NoNumber /\ Startable(bootNext)
     THEN /\ stage' = "image"
          /\ running' = bootNext
          /\ started' = <<bootNext>>
          /\ viaNext' = bootNext
     ELSE /\ stage' = "order"
          /\ UNCHANGED <<running, started, viaNext>>
  /\ UNCHANGED <<firmware, bootNext, bootCurrent, boots, index>>

(* BootNext is deleted, then started.                                      *)
TryBootNext ==
  /\ stage = "bootNext"
  /\ bootNext' = NoNumber
  /\ IF bootNext # NoNumber /\ Startable(bootNext)
     THEN /\ stage' = "image"
          /\ running' = bootNext
          /\ started' = <<bootNext>>
          /\ viaNext' = bootNext
     ELSE /\ stage' = "order"
          /\ UNCHANGED <<running, started, viaNext>>
  /\ UNCHANGED <<firmware, bootCurrent, boots, index>>

(* Mutant of Candidate: the loop starts at BootCurrent itself.             *)
CandidateFromCurrent(i) ==
  LET count == Len(bootOrder)
      at    == SelectInSeq(bootOrder, LAMBDA n : n = bootCurrent)
      start == IF at = 0 THEN 0 ELSE at - 1
  IN  bootOrder[((start + i) % count) + 1]

(* The i-th entry tried: BootOrder from the entry after BootCurrent, and   *)
(* round to the beginning.                                                 *)
Candidate(i) ==
  LET count == Len(bootOrder)
      at    == SelectInSeq(bootOrder, LAMBDA n : n = bootCurrent)
  IN  bootOrder[((at + i) % count) + 1]

(* The next entry of the loop is started, or skipped.                      *)
TryNextEntry ==
  /\ stage = "order"
  /\ index < Len(bootOrder)
  /\ index' = index + 1
  /\ IF Startable(Candidate(index))
     THEN /\ stage' = "image"
          /\ running' = Candidate(index)
          /\ started' = Append(started, Candidate(index))
     ELSE UNCHANGED <<stage, running, started>>
  /\ UNCHANGED <<firmware, bootNext, bootCurrent, boots, viaNext>>

(* No entry is left.                                                       *)
OrderExhausted ==
  /\ stage = "order"
  /\ index = Len(bootOrder)
  /\ stage' = "fallback"
  /\ UNCHANGED <<firmware, bootNext, bootCurrent, boots, index, running, started, viaNext>>

(* LoadImage or StartImage fails, and the next entry is tried; or the      *)
(* image of a system returns EFI_SUCCESS, which ends the loader, or takes  *)
(* over the machine, and perhaps crashes it.                               *)
ImageEnds ==
  /\ stage = "image"
  /\ \/ stage' = "order" /\ UNCHANGED boots
     \/ ~LoadsSelf(running) /\ stage' \in {"returned", "os"} /\ UNCHANGED boots
     \/ ~LoadsSelf(running) /\ stage' = "reset" /\ boots < MaxBoots /\ boots' = boots + 1
  /\ running' = NoNumber
  /\ UNCHANGED <<firmware, bootNext, bootCurrent, index, started, viaNext>>

(* The image is this loader once more.  It runs from the beginning, with   *)
(* the BootCurrent and the BootOrder of the one that waits for it, finds   *)
(* out as much about itself, and always returns EFI_SUCCESS: what becomes  *)
(* of the inner one becomes of all of them.                                *)
StartsItself ==
  /\ stage = "image" /\ LoadsSelf(running)
  /\ stage' = "underVolter"
  /\ index' = 0
  /\ running' = NoNumber
  /\ started' = << >>
  /\ viaNext' = NoNumber
  /\ UNCHANGED <<firmware, bootNext, bootCurrent, boots>>

(* StartFallbackBootloader finds a Windows Boot Manager on another device, *)
(* or not; the loader returns EFI_SUCCESS in any case.                     *)
Fallback ==
  /\ stage = "fallback"
  /\ stage' \in {"os", "returned"}
  /\ UNCHANGED <<firmware, bootNext, bootCurrent, boots, index, running, started, viaNext>>

(* The machine was reset or restarted: the firmware honours and deletes BootNext, else  *)
(* it starts the loader from the entry it was started from before.         *)
Boot ==
  /\ \/ stage = "reset" /\ UNCHANGED boots
     \/ stage \in {"os", "frozen"} /\ boots < MaxBoots /\ boots' = boots + 1
  /\ bootNext' = NoNumber
  /\ LET n == IF bootNext = NoNumber THEN bootCurrent ELSE bootNext
     IN  IF n = NoNumber \/ LoadsSelf(n)
         THEN stage' = "underVolter" /\ bootCurrent' = n
         ELSE stage' = "os" /\ UNCHANGED bootCurrent
  /\ index' = 0
  /\ started' = << >>
  /\ viaNext' = NoNumber
  /\ UNCHANGED <<firmware, running>>

AfterUnderVolter ==
  \/ TryBootNext \/ TryNextEntry \/ OrderExhausted \/ ImageEnds \/ Fallback

Next == RunUnderVolter \/ AfterUnderVolter \/ StartsItself \/ Boot

Spec == Init /\ [][Next]_vars

-----------------------------------------------------------------------------
(* A BootNext target that crashes the machine is not tried again by the    *)
(* next boot: the variable is gone before the image is started.            *)
BootNextOnce ==
  stage \in {"image", "order", "fallback", "os", "returned"} => bootNext = NoNumber

(* BootOrder in the order it is tried: from the entry after BootCurrent,   *)
(* and round to the beginning.                                             *)
Cycle ==
  LET at == SelectInSeq(bootOrder, LAMBDA n : n = bootCurrent)
  IN  SubSeq(bootOrder, at + 1, Len(bootOrder)) \o SubSeq(bootOrder, 1, at)

(* How many of its first k entries can be started.                         *)
StartableAmong(k) == Cardinality({i \in 1 .. k : Startable(Cycle[i])})

(* What the loader that runs started from BootOrder.                       *)
FromOrder == IF viaNext = NoNumber THEN started ELSE Tail(started)

(* The first k entries of the cycle have been tried: those that can be     *)
(* started were, each at its own place among them, and nothing else was.   *)
Tried(k) ==
  /\ Len(FromOrder) = StartableAmong(k)
  /\ \A i \in 1 .. k : Startable(Cycle[i]) => FromOrder[StartableAmong(i)] = Cycle[i]

TriedInv ==
  /\ stage \in {"underVolter", "bootNext"} =>
       index = 0 /\ started = << >> /\ viaNext = NoNumber
  /\ viaNext # NoNumber => started # << >>
  /\ stage = "fallback" => index = Len(bootOrder)
  /\ Tried(index)

LoaderInv == TypeOK /\ BootNextOnce /\ TriedInv

(* When the loader is about to hand the machine to the fallback or back to *)
(* the firmware, every entry of BootOrder that could be started has been,  *)
(* each once and in their cyclic order, unless one of them succeeded.      *)
NoEntryIsForgotten == stage = "fallback" => Tried(Len(bootOrder))

KnowsItself == knows = "file" \/ (knows = "device" /\ ownName # "other")

(* An entry that names the loader by its full device path is not started   *)
(* again, whatever the loader's name; when it could not read its own file  *)
(* path, that holds for the two names it is shipped under.                 *)
NoSelfLoop ==
  running # NoNumber /\ KnowsItself /\ entries[running].place = "own"
    => ~LoadsSelf(running)
=============================================================================
