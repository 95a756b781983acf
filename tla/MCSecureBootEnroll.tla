------------------------- MODULE MCSecureBootEnroll -------------------------
(* Instances of SecureBootEnroll for TLC: the vendor's certificate, the    *)
(* owner's and the embedded one; sections with each half on, off and both. *)
EXTENDS SecureBootEnroll

CONSTANTS vendor, owner

Section(self, auth, enroll, quiet, fw) ==
  [selfEnroll |-> self, selfReboot |-> TRUE, tryDeployed |-> TRUE,
   enabled |-> auth, enroll |-> enroll, rebootAfter |-> TRUE,
   quiet |-> quiet, fwUI |-> fw]

MCConfigs ==
  { Section(TRUE, FALSE, {}, TRUE, FALSE),
    Section(TRUE, TRUE, {"db", "KEK", "PK"}, FALSE, FALSE),
    Section(FALSE, TRUE, KeyVars, FALSE, TRUE),
    [Section(TRUE, TRUE, {"dbx", "PK"}, TRUE, FALSE) EXCEPT !.selfReboot = FALSE],
    [Section(FALSE, TRUE, {"db", "KEK", "PK"}, TRUE, FALSE) EXCEPT !.rebootAfter = FALSE] }

MCFileSets ==
  { [v \in KeyVars |-> {owner}],
    [v \in KeyVars |-> IF v = "KEK" THEN {} ELSE {owner, vendor}] }

MCFactoryKeys ==
  { [v \in KeyVars |-> {}],
    [v \in KeyVars |-> IF v = "dbx" THEN {} ELSE {vendor}],
    [v \in KeyVars |-> IF v \in {"db", "KEK"} THEN {vendor} ELSE {}] }
=============================================================================
