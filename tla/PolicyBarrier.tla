--------------------------- MODULE PolicyBarrier ---------------------------
(***************************************************************************)
(* What ApplyPolicy (src/src/Platform.c) promises, whatever processors it  *)
(* runs on and however they fail: it programs the items the owner's policy *)
(* asks for, and sets lock bits only once every one of them is programmed. *)
(***************************************************************************)
CONSTANT Items      \* <<package, register>> pairs

VARIABLES
  wanted,   \* items the policy asks to be programmed
  done,     \* items programmed so far
  locks     \* items whose lock bit was set by the program

vars == <<wanted, done, locks>>

Init ==
  /\ wanted \in SUBSET Items
  /\ done = {}
  /\ locks = {}

Program(i) ==
  /\ locks = {}
  /\ i \in wanted
  /\ done' = done \cup {i}
  /\ UNCHANGED <<wanted, locks>>

Lock(i) ==
  /\ done = wanted
  /\ i \in Items
  /\ locks' = locks \cup {i}
  /\ UNCHANGED <<wanted, done>>

Next == \E i \in Items : Program(i) \/ Lock(i)

Spec == Init /\ [][Next]_vars

=============================================================================
