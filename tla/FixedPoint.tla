----------------------------- MODULE FixedPoint -----------------------------
(***************************************************************************)
(* The voltage conversions (src/src/FixedPoint.c) over the tables of       *)
(* src/src/VoltTables.c.  The mailbox counts voltages in 1/1024 V: an      *)
(* offset in 11 bits of two's complement, a target in 12 bits; the program *)
(* and its INI file count in mV.                                           *)
(*                                                                         *)
(* A table lists <<mv, fx>> pairs by falling mv.  Every code of a range is *)
(* there once, with the mV next to it, so two codes may share one mV; the  *)
(* code listed first is the higher one, save for the codes in ListedFirst. *)
(***************************************************************************)
EXTENDS Integers, FiniteSetsExt

VOLT_ERROR16 == 32767       \* 0x7fff

(* The fields of the mailbox.                                              *)
RawOffsets == 0 .. 2047
RawTargets == 0 .. 4095

(* The mV that an INI profile may ask for, as an offset and as a target.   *)
Offsets == -250 .. 250
Targets == {0} \cup 250 .. 1500

(* The codes a table lists.  The offset table also lists 0x400 as 0 mV.    *)
OffsetCodes == -256 .. 255
TargetCodes == 257 .. 1536
ListedFirst == {192, 21, -65, -236, 1216}

(* The mV listed with code fx: 1000/1024 of it, where 63/128 rounds up.    *)
Millivolts(fx) ==
  IF fx < 0 THEN -((-fx * 1000 + 524) \div 1024) ELSE (fx * 1000 + 524) \div 1024

(* An 11-bit field as a signed number.                                     *)
Signed(raw) == IF raw >= 1024 THEN raw - 2048 ELSE raw

(* Of the codes listed with mv, the one listed first.                      *)
CodeOf(low, high, mv) ==
  LET same == {fx \in low .. high : Millivolts(fx) = mv}
  IN  Max(IF same \cap ListedFirst # {} THEN same \cap ListedFirst ELSE same)

Lowest(a, b) == IF a < b THEN a ELSE b

(* The search of both encoders: the first entry that is not above mv.  The *)
(* codes are low .. high, and every mV of their range is listed.           *)
FirstListed(low, high, mv) ==
  IF mv < Millivolts(low) THEN VOLT_ERROR16
  ELSE CodeOf(low, high, Lowest(mv, Millivolts(high)))

(* cvrt_offsetvolts_i16_tofix, cut to the 11 bits the caller keeps.        *)
OffsetToFix(mv) ==
  IF mv = 0 THEN 0 ELSE FirstListed(-256, 255, mv) % 2048

(* cvrt_ovrdvolts_i16_tofix, cut to the 12 bits the caller keeps.          *)
TargetToFix(mv) ==
  IF mv = 0 THEN 0 ELSE FirstListed(257, 1536, mv) % 4096

(* Mutant of OffsetToMv: the sign bit is ignored in the formula.           *)
OffsetToMvUnsigned(raw) ==
  IF raw \in {0, 1024} THEN 0
  ELSE IF Signed(raw) \in OffsetCodes THEN Millivolts(raw)
  ELSE ((raw % 1024) * 1000) \div 1024

(* cvrt_offsetvolts_fxto_i16: the table, else the closed form, which C's   *)
(* division rounds towards zero.                                           *)
OffsetToMv(raw) ==
  LET code == Signed(raw)
  IN  IF raw \in {0, 1024} THEN 0
      ELSE IF code \in OffsetCodes THEN Millivolts(code)
      ELSE IF code < 0 THEN -((-code * 1000) \div 1024)
      ELSE (code * 1000) \div 1024

(* cvrt_ovrdvolts_fxto_i16.                                                *)
TargetToMv(raw) ==
  IF raw = 0 THEN 0
  ELSE IF raw \in TargetCodes THEN Millivolts(raw)
  ELSE (raw * 1000) \div 1024

-----------------------------------------------------------------------------
Distance(a, b) == IF a < b THEN b - a ELSE a - b

(* Code fx is the voltage mv up to 1 mV.                                   *)
Encodes(fx, mv) == Distance(fx * 1000, mv * 1024) <= 1024

=============================================================================
