----------------------------- MODULE MCVfCurve -----------------------------
(* Instances of VfCurve for TLC: V/F tables shorter than the record, as    *)
(* long and longer, with fused offsets that do and do not survive being    *)
(* written back unchanged; every kind of key, present and absent.  Beside  *)
(* these, every offset and target an INI file may ask for, and every code  *)
(* the unit may hold, one at a time.                                       *)
EXTENDS VfCurve

Unit(mode, target, offset, points) ==
  [icc |-> 2, bit31 |-> FALSE, mode |-> mode, target |-> target, offset |-> offset,
   points |-> points]

MCUnits ==
  { Unit(0, 704, 22, << >>), Unit(1, 704, 22, <<22>>),
    Unit(0, 704, 22, <<0, 2047>>), Unit(1, 704, 22, <<0, 1792, 64>>) }

MCCpus == [exposed : BOOLEAN, unlimited : BOOLEAN, hasVr : {TRUE}, hybrid : {FALSE}]
            \cup {[exposed |-> TRUE, unlimited |-> TRUE, hasVr |-> FALSE, hybrid |-> TRUE]}

(* Ratio registers with slots the firmware uses, and some it does not.     *)
MCRatios(writable) ==
  [k \in Kinds |-> [slots |-> IF k = "P" THEN <<45, 0, 255, 1>> ELSE <<30>>, writable |-> writable]]

NoRatio == [k \in Kinds |-> 0]

MCPolicies ==
  [icc : {{}, {0}, {3}, {65535}}, offset : {{}, {-80}}, target : {{}, {1000}},
   point : {-100}, vfKey : {{}, {1}, {3}}, ratio : {NoRatio}]

Plain(unitBefore, offset, target) ==
  [unit   |-> unitBefore, ratios |-> MCRatios(TRUE),
   cpu    |-> [exposed |-> FALSE, unlimited |-> FALSE, hasVr |-> FALSE, hybrid |-> FALSE],
   policy |-> [icc |-> {}, offset |-> offset, target |-> target, point |-> 0, vfKey |-> {},
               ratio |-> NoRatio]]

MCRequests ==
  {Plain(Unit(1, 704, 22, << >>), {mv}, {}) : mv \in -250 .. 250}
    \cup {Plain(Unit(0, 704, 22, << >>), {}, {mv}) : mv \in 250 .. 1500}

MCHeld ==
  {Plain(Unit(0, 704, raw, << >>), {}, {1000}) : raw \in 0 .. 2047}
    \cup {Plain(Unit(0, raw, 22, << >>), {-80}, {}) : raw \in TargetCodes}

(* Every ratio of a slot that matters, asked for with and without a domain *)
(* to program.                                                             *)
MCRatioStarts ==
  [unit : {Unit(0, 704, 22, << >>)}, ratios : {MCRatios(w) : w \in BOOLEAN},
   cpu : [exposed : {FALSE}, unlimited : {FALSE}, hasVr : {FALSE}, hybrid : BOOLEAN],
   policy : [icc : {{}}, offset : {{}, {-80}}, target : {{}}, point : {0}, vfKey : {{}},
             ratio : [Kinds -> {0, 1, 50, 255}]]]

MCStarts ==
  [unit : MCUnits, ratios : {MCRatios(TRUE)}, cpu : MCCpus, policy : MCPolicies] \cup MCRequests \cup MCHeld
    \cup MCRatioStarts
=============================================================================
