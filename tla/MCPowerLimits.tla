--------------------------- MODULE MCPowerLimits ---------------------------
(* Instances of PowerLimits for TLC.  A profile that varies everything it  *)
(* asks of one register at a time: first the values, under every kind of   *)
(* firmware bounds (none, one, all), with windows too long for MaxY and   *)
(* windows that several encodings reach; then the flags, with the register *)
(* locked by the firmware and the mirror missing; then all registers       *)
(* together, some of them locked, with the settings that have no register  *)
(* among the six.                                                          *)
EXTENDS PowerLimits

(* (1 + X/4) * 2^Y ms, as the table has them.                              *)
MCTaus == [w \in Windows |-> (4 + (w % 4)) * 2^(w \div 4) * 250]

Firmware(bounds, mchbar) ==
  [min |-> bounds[1], max |-> bounds[2], maxTau |-> bounds[3], powerUnits |-> 2,
   timeUnits |-> 1024, mchbar |-> mchbar]

Plain == [on1 |-> TRUE, on2 |-> TRUE, power1 |-> 1000, power2 |-> 2500, time |-> 2,
          clamp |-> FALSE, lock |-> 1]

(* Only register r, with these requests.                                   *)
Only(r, ask) ==
  [program |-> {r}, ask |-> [q \in Registers |-> IF q = r THEN ask ELSE Plain],
   level |-> 1, tdpLock |-> 0, eeTurbo |-> 2, raceToHalt |-> 2]

Values ==
  [on1 : {TRUE}, on2 : BOOLEAN, power1 : {0, 499, 500, 1700, 3000, 100000, MAX_POWAH},
   power2 : {2500}, time : {0, 1, 2, 6, 7, MAX_POWAH}, clamp : {TRUE}, lock : {1}]

Flags ==
  [on1 : BOOLEAN, on2 : BOOLEAN, power1 : {1000}, power2 : {2500}, time : {2, 7},
   clamp : BOOLEAN, lock : {0, 1, 2}]

Bounds == {<<0, 0, 0>>, <<0, 5, 1>>, <<2, 5, 0>>, <<2, 5, 1>>, <<2, 0, 0>>}

Together ==
  [program : {Registers, Registers \cup {"PowerCtl"}, {}}, ask : {[q \in Registers |-> Plain]},
   level : {0, 2}, tdpLock : 0 .. 2, eeTurbo : 0 .. 2, raceToHalt : 0 .. 2]

MCStarts ==
  [locked : {{}}, facts : {Firmware(b, TRUE) : b \in Bounds},
   policy : {Only(r, a) : r \in Registers, a \in Values}]
  \cup UNION {[locked : {{}, {r}}, facts : {Firmware(<<0, 0, 0>>, m) : m \in BOOLEAN},
               policy : {Only(r, a) : a \in Flags}] : r \in Registers}
  \cup [locked : {{}, {"PL12"}, {"MMIO", "cTDP"}, {"PL3", "PL4", "PP0", "PSys"}},
        facts : {Firmware(<<2, 5, 1>>, TRUE)}, policy : Together]
=============================================================================
