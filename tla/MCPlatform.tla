----------------------------- MODULE MCPlatform -----------------------------
(* Instances of Platform for TLC.  The policies switch on everything, only *)
(* what the OC mailbox writes, one power limit with its lock, and nothing. *)
EXTENDS Platform

MCPolicies ==
  { [program |-> Registers, lock |-> Lockable],
    [program |-> {"PRatio", "Volt"}, lock |-> {"Volt"}],
    [program |-> {"PL12", "MmioPL12", "PL3"}, lock |-> {"PL12", "MmioPL12", "PSys"}],
    [program |-> {}, lock |-> {"cTDP"}] }

MCBootSeals == {{}, {"PL12", "MmioPL12"}, {"Volt"}}

=============================================================================
