-------------------------- MODULE OcMailboxProofs --------------------------
(***************************************************************************)
(* Proofs about the overclocking mailbox and its client: the voltages that *)
(* go through it (FixedPoint), the domain that is read and programmed over *)
(* it (VfCurve) and the exchange itself (CpuMailbox), for any V/F table,   *)
(* record, INI profile and number of processors, and any limits of the     *)
(* mailbox.                                                                *)
(*                                                                         *)
(* FixedPoint: an encoder finds a code that is listed with the mV asked    *)
(* for, every mV in the range is listed, and two codes with the same mV    *)
(* are next to each other; so an encoder is exact up to 1 mV, and what is  *)
(* read and written back moves by one code at most.                        *)
(*                                                                         *)
(* VfCurve: up to the edit the unit is as the firmware left it (ProbeInv); *)
(* the record is then a function of the policy and of what the unit held   *)
(* (RecordInv), so that every processor writes the same; each part of the  *)
(* unit holds what it held or its goal (UnitInv), and its goal once a      *)
(* processor is past the write (WriterInv).                                *)
(*                                                                         *)
(* CpuMailbox: a success is confirmed by two equal readings.  ExchangeInv  *)
(* says where the call stands with the unit meanwhile: a request goes out  *)
(* only to a unit that is not executing, so from then on the unit works    *)
(* for this call; what is read before the answer has settled is moving     *)
(* data, which the second reading cannot repeat.                           *)
(***************************************************************************)
EXTENDS CpuMailbox, VfCurve, SequenceTheorems, TLAPS

(* The mV of a code: the quotient of the definition without its division.  *)
LEMMA MillivoltsOfNat ==
  ASSUME NEW fx \in Nat, NEW m \in Nat,
         m * 1024 <= fx * 1000 + 524, fx * 1000 + 524 < m * 1024 + 1024
  PROVE  Millivolts(fx) = m
BY DEF Millivolts

LEMMA MillivoltsOfNegative ==
  ASSUME NEW fx \in Nat \ {0}, NEW m \in Nat,
         m * 1024 <= fx * 1000 + 524, fx * 1000 + 524 < m * 1024 + 1024
  PROVE  Millivolts(-fx) = -m
BY DEF Millivolts

(* The mV of a code are within half a mV of it, or little more.            *)
LEMMA MillivoltsNear ==
  ASSUME NEW fx \in Int
  PROVE  /\ Millivolts(fx) \in Int
         /\ Millivolts(fx) * 1024 <= fx * 1000 + 524
         /\ fx * 1000 <= Millivolts(fx) * 1024 + 524
         /\ fx >= 0 => Millivolts(fx) >= 0
         /\ fx < 0 => Millivolts(fx) <= 0
BY DEF Millivolts

LEMMA SameMvNear ==
  ASSUME NEW a \in Int, NEW b \in Int, Millivolts(a) = Millivolts(b)
  PROVE  a - b \in -1 .. 1
<1>1. PICK m \in Int : m = Millivolts(a)
  BY MillivoltsNear
<1>2. m * 1024 <= a * 1000 + 524 /\ a * 1000 <= m * 1024 + 524
  BY <1>1, MillivoltsNear
<1>3. m * 1024 <= b * 1000 + 524 /\ b * 1000 <= m * 1024 + 524
  BY <1>1, MillivoltsNear
<1> QED BY <1>2, <1>3

LEMMA CodeEncodes ==
  ASSUME NEW fx \in Int
  PROVE  Encodes(fx, Millivolts(fx))
<1>1. PICK m \in Int : m = Millivolts(fx)
  BY MillivoltsNear
<1>2. m * 1024 <= fx * 1000 + 524 /\ fx * 1000 <= m * 1024 + 524
  BY <1>1, MillivoltsNear
<1>3. Encodes(fx, m)
  BY <1>2 DEF Encodes, Distance
<1> QED BY <1>1, <1>3

(* Every mV of the range of a table is listed.                             *)
LEMMA EveryOffsetListed ==
  ASSUME NEW mv \in -250 .. 249
  PROVE  \E fx \in OffsetCodes : Millivolts(fx) = mv
<1>1. CASE mv >= 0
  <2> DEFINE fx == (mv * 1024 - 524 + 999) \div 1000
  <2>1. fx \in 0 .. 255
    BY <1>1
  <2>2. fx * 1000 + 524 >= mv * 1024 /\ fx * 1000 + 524 < mv * 1024 + 1024
    BY <1>1
  <2> HIDE DEF fx
  <2>3. Millivolts(fx) = mv
    BY <1>1, <2>1, <2>2, MillivoltsOfNat
  <2> QED BY <2>1, <2>3 DEF OffsetCodes
<1>2. CASE mv < 0
  <2>1. PICK k \in 1 .. 250 : mv = -k
    <3>1. -mv \in 1 .. 250 /\ mv = -(-mv)
      BY <1>2
    <3> QED BY <3>1
  <2> DEFINE fx == (k * 1024 - 524 + 999) \div 1000
  <2>2. fx \in 1 .. 256
    OBVIOUS
  <2>3. fx * 1000 + 524 >= k * 1024 /\ fx * 1000 + 524 < k * 1024 + 1024
    OBVIOUS
  <2> HIDE DEF fx
  <2>4. Millivolts(-fx) = -k
    BY <2>2, <2>3, MillivoltsOfNegative
  <2>5. PICK c \in OffsetCodes : c = -fx
    BY <2>2 DEF OffsetCodes
  <2> QED BY <2>1, <2>4, <2>5
<1> QED BY <1>1, <1>2

LEMMA EveryTargetListed ==
  ASSUME NEW mv \in 251 .. 1500
  PROVE  \E fx \in TargetCodes : Millivolts(fx) = mv
<1> DEFINE fx == (mv * 1024 - 524 + 999) \div 1000
<1>1. fx \in 257 .. 1536
  OBVIOUS
<1>2. fx * 1000 + 524 >= mv * 1024 /\ fx * 1000 + 524 < mv * 1024 + 1024
  OBVIOUS
<1> HIDE DEF fx
<1>3. Millivolts(fx) = mv
  BY <1>1, <1>2, MillivoltsOfNat
<1> QED BY <1>1, <1>3 DEF TargetCodes

(* Of the codes with one mV the one listed first is any of them or next to *)
(* it.                                                                     *)
LEMMA CodeOfNear ==
  ASSUME NEW low \in Int, NEW high \in Int, NEW fx \in low .. high, NEW mv, Millivolts(fx) = mv
  PROVE  \E c \in low .. high :
           CodeOf(low, high, mv) = c /\ Millivolts(c) = mv /\ c - fx \in -1 .. 1
<1> DEFINE same == {a \in low .. high : Millivolts(a) = mv}
           T == IF same \cap ListedFirst # {} THEN same \cap ListedFirst ELSE same
<1>1. fx \in Int /\ fx \in same
  OBVIOUS
<1>2. T # {} /\ T \subseteq same
  BY <1>1
<1>3. \A a \in same : a \in low .. high /\ a - fx \in -1 .. 1 /\ Millivolts(a) = mv
  <2> SUFFICES ASSUME NEW a \in same PROVE a - fx \in -1 .. 1
    OBVIOUS
  <2> QED BY <1>1, SameMvNear
<1>4. CodeOf(low, high, mv) = Max(T)
  BY DEF CodeOf
<1> HIDE DEF T, same
<1>5. \A a \in T : a \in Int /\ a \in fx - 1 .. fx + 1
  BY <1>1, <1>2, <1>3
<1>6. \E m \in T : \A a \in T : m >= a
  <2>1. CASE fx + 1 \in T
    BY <1>1, <1>5, <2>1
  <2>2. CASE fx + 1 \notin T /\ fx \in T
    BY <1>1, <1>5, <2>2
  <2>3. CASE fx + 1 \notin T /\ fx \notin T
    <3>1. PICK m \in T : m \in Int
      BY <1>2, <1>5
    <3>2. \A a \in T : a = fx - 1
      BY <1>1, <1>5, <2>3
    <3>3. \A a \in T : m >= a
      BY <1>1, <3>1, <3>2
    <3> QED BY <3>1, <3>3
  <2> QED BY <2>1, <2>2, <2>3
<1>7. Max(T) \in T
  BY <1>6 DEF Max
<1> QED BY <1>2, <1>3, <1>4, <1>7

(* The ends of the two tables.                                             *)
LEMMA TableEnds ==
  /\ Millivolts(-256) = -250 /\ Millivolts(255) = 249
  /\ Millivolts(257) = 251 /\ Millivolts(1536) = 1500
BY DEF Millivolts

(* The two encoders, as functions of the mV that are listed.               *)
LEMMA OffsetListed ==
  ASSUME NEW fx \in OffsetCodes, NEW mv \in Int, Millivolts(fx) = mv, mv # 0
  PROVE  \E c \in OffsetCodes : /\ Millivolts(c) = mv /\ c - fx \in -1 .. 1
                                /\ FirstListed(-256, 255, mv) = c
<1>1. -256 \in Int /\ 255 \in Int /\ fx \in -256 .. 255 /\ fx \in Int
  BY DEF OffsetCodes
<1>2. PICK c \in OffsetCodes :
        CodeOf(-256, 255, mv) = c /\ Millivolts(c) = mv /\ c - fx \in -1 .. 1
  <2>1. PICK low \in Int, high \in Int : low = -256 /\ high = 255
    BY <1>1
  <2>2. fx \in low .. high
    BY <1>1, <2>1
  <2>3. \E c \in low .. high :
          CodeOf(low, high, mv) = c /\ Millivolts(c) = mv /\ c - fx \in -1 .. 1
    BY <2>2, CodeOfNear
  <2>4. PICK c \in low .. high :
          CodeOf(low, high, mv) = c /\ Millivolts(c) = mv /\ c - fx \in -1 .. 1
    BY <2>3
  <2>5. CodeOf(-256, 255, mv) = c
    BY <2>1, <2>4
  <2>6. c \in OffsetCodes
    BY <2>1 DEF OffsetCodes
  <2> QED BY <2>4, <2>5, <2>6
<1>3. -250 <= mv /\ mv <= 249
  <2>1. mv * 1024 <= fx * 1000 + 524 /\ fx * 1000 <= mv * 1024 + 524
    BY <1>1, MillivoltsNear
  <2> QED BY <1>1, <2>1
<1>4. FirstListed(-256, 255, mv) = CodeOf(-256, 255, mv)
  <2>1. ~(mv < Millivolts(-256)) /\ Lowest(mv, Millivolts(255)) = mv
    BY <1>3, TableEnds DEF Lowest
  <2> QED BY <2>1 DEF FirstListed
<1> QED BY <1>2, <1>4

LEMMA TargetListed ==
  ASSUME NEW fx \in TargetCodes, NEW mv \in Int, Millivolts(fx) = mv
  PROVE  \E c \in TargetCodes : /\ Millivolts(c) = mv /\ c - fx \in -1 .. 1
                                /\ FirstListed(257, 1536, mv) = c
<1>1. 257 \in Int /\ 1536 \in Int /\ fx \in 257 .. 1536 /\ fx \in Int
  BY DEF TargetCodes
<1>2. PICK c \in TargetCodes :
        CodeOf(257, 1536, mv) = c /\ Millivolts(c) = mv /\ c - fx \in -1 .. 1
  <2>1. PICK low \in Int, high \in Int : low = 257 /\ high = 1536
    BY <1>1
  <2>2. fx \in low .. high
    BY <1>1, <2>1
  <2>3. \E c \in low .. high :
          CodeOf(low, high, mv) = c /\ Millivolts(c) = mv /\ c - fx \in -1 .. 1
    BY <2>2, CodeOfNear
  <2>4. PICK c \in low .. high :
          CodeOf(low, high, mv) = c /\ Millivolts(c) = mv /\ c - fx \in -1 .. 1
    BY <2>3
  <2>5. CodeOf(257, 1536, mv) = c
    BY <2>1, <2>4
  <2>6. c \in TargetCodes
    BY <2>1 DEF TargetCodes
  <2> QED BY <2>4, <2>5, <2>6
<1>3. 251 <= mv /\ mv <= 1500
  <2>1. mv * 1024 <= fx * 1000 + 524 /\ fx * 1000 <= mv * 1024 + 524
    BY <1>1, MillivoltsNear
  <2> QED BY <1>1, <2>1
<1>4. FirstListed(257, 1536, mv) = CodeOf(257, 1536, mv)
  <2>1. ~(mv < Millivolts(257)) /\ Lowest(mv, Millivolts(1536)) = mv
    BY <1>3, TableEnds DEF Lowest
  <2> QED BY <2>1 DEF FirstListed
<1> QED BY <1>2, <1>4

(* A code that is cut to its field is the field's signed value.            *)
LEMMA CodeInField ==
  ASSUME NEW c \in OffsetCodes
  PROVE  c % 2048 \in 0 .. 2047 /\ Signed(c % 2048) = c
<1>1. CASE c >= 0
  BY <1>1 DEF Signed, OffsetCodes
<1>2. CASE c < 0
  <2>1. c % 2048 = c + 2048
    BY <1>2 DEF OffsetCodes
  <2> QED BY <1>2, <2>1 DEF Signed, OffsetCodes
<1> QED BY <1>1, <1>2 DEF OffsetCodes

(* Both encoders are exact on what their table lists.  (The offset table   *)
(* ends at 249 mV, which 250 mV becomes.)                                  *)
LEMMA OffsetEncoder ==
  ASSUME NEW mv \in Offsets
  PROVE  Encodes(Signed(OffsetToFix(mv)), mv)
<1>0. mv \in -250 .. 250
  BY DEF Offsets
<1>1. CASE mv = 0
  BY <1>1 DEF OffsetToFix, Signed, Encodes, Distance
<1>2. CASE mv # 0 /\ mv # 250
  <2>1. PICK fx \in OffsetCodes : Millivolts(fx) = mv
    BY <1>0, <1>2, EveryOffsetListed
  <2>2. PICK c \in OffsetCodes : Millivolts(c) = mv /\ FirstListed(-256, 255, mv) = c
    BY <1>0, <1>2, <2>1, OffsetListed
  <2>3. OffsetToFix(mv) = c % 2048
    BY <1>2, <2>2 DEF OffsetToFix
  <2>4. Encodes(c, mv)
    BY <2>2, CodeEncodes DEF OffsetCodes
  <2> QED BY <2>3, <2>4, CodeInField
<1>3. CASE mv = 250
  <2>1. PICK fx \in OffsetCodes : Millivolts(fx) = 249
    BY EveryOffsetListed
  <2>2. PICK c \in OffsetCodes : Millivolts(c) = 249 /\ FirstListed(-256, 255, 249) = c
    BY <2>1, OffsetListed
  <2>3. FirstListed(-256, 255, 250) = FirstListed(-256, 255, 249)
    <3>1. /\ ~(250 < Millivolts(-256)) /\ ~(249 < Millivolts(-256))
          /\ Lowest(250, Millivolts(255)) = 249 /\ Lowest(249, Millivolts(255)) = 249
      BY TableEnds DEF Lowest
    <3> QED BY <3>1 DEF FirstListed
  <2>4. OffsetToFix(mv) = c % 2048
    BY <1>3, <2>2, <2>3 DEF OffsetToFix
  <2>5. Encodes(c, 250)
    <3>1. 249 * 1024 <= c * 1000 + 524 /\ c * 1000 <= 249 * 1024 + 524
      BY <2>2, MillivoltsNear DEF OffsetCodes
    <3> QED BY <3>1 DEF Encodes, Distance, OffsetCodes
  <2> QED BY <1>3, <2>4, <2>5, CodeInField
<1> QED BY <1>0, <1>1, <1>2, <1>3

LEMMA TargetEncoder ==
  ASSUME NEW mv \in Targets, mv \notin {0, 250}
  PROVE  Encodes(TargetToFix(mv), mv)
<1>0. mv \in 251 .. 1500
  BY DEF Targets
<1>1. PICK fx \in TargetCodes : Millivolts(fx) = mv
  BY <1>0, EveryTargetListed
<1>2. PICK c \in TargetCodes : Millivolts(c) = mv /\ FirstListed(257, 1536, mv) = c
  BY <1>0, <1>1, TargetListed
<1>3. TargetToFix(mv) = c
  <2>1. TargetToFix(mv) = c % 4096
    BY <1>0, <1>2 DEF TargetToFix
  <2> QED BY <2>1 DEF TargetCodes
<1>4. Encodes(c, mv)
  BY <1>2, CodeEncodes DEF TargetCodes
<1> QED BY <1>3, <1>4

(* What is written back after it has been read moves by one code at most.  *)
LEMMA OffsetRoundTrip ==
  ASSUME NEW raw \in RawOffsets, Signed(raw) \in OffsetCodes
  PROVE  Distance(Signed(OffsetToFix(OffsetToMv(raw))), Signed(raw)) <= 1
<1>1. PICK fx \in OffsetCodes : fx = Signed(raw)
  OBVIOUS
<1>2. raw # 1024 /\ raw \in 0 .. 2047
  BY DEF OffsetCodes, Signed, RawOffsets
<1>3. CASE raw = 0
  <2>1. OffsetToMv(raw) = 0
    BY <1>3 DEF OffsetToMv
  <2>2. OffsetToFix(0) = 0
    BY DEF OffsetToFix
  <2> QED BY <1>3, <2>1, <2>2 DEF Signed, Distance
<1>4. CASE raw # 0
  <2>1. fx # 0
    BY <1>1, <1>2, <1>4 DEF Signed
  <2>2. PICK mv \in Int : mv = Millivolts(fx)
    BY MillivoltsNear DEF OffsetCodes
  <2>3. OffsetToMv(raw) = mv
    <3>1. raw \notin {0, 1024}
      BY <1>2, <1>4
    <3>2. Signed(raw) \in OffsetCodes
      OBVIOUS
    <3>3. OffsetToMv(raw) = Millivolts(Signed(raw))
      BY <3>1, <3>2 DEF OffsetToMv
    <3> QED BY <1>1, <2>2, <3>3
  <2>4. mv # 0
    <3>1. mv * 1024 <= fx * 1000 + 524 /\ fx * 1000 <= mv * 1024 + 524
      BY <2>2, MillivoltsNear DEF OffsetCodes
    <3> QED BY <2>1, <3>1 DEF OffsetCodes
  <2>5. PICK c \in OffsetCodes : c - fx \in -1 .. 1 /\ FirstListed(-256, 255, mv) = c
    BY <2>2, <2>4, OffsetListed
  <2>6. OffsetToFix(mv) = c % 2048
    BY <2>4, <2>5 DEF OffsetToFix
  <2>7. Signed(OffsetToFix(mv)) = c
    BY <2>6, CodeInField
  <2>8. Distance(c, fx) <= 1
    BY <2>5 DEF Distance, OffsetCodes
  <2> QED BY <1>1, <2>3, <2>7, <2>8
<1> QED BY <1>3, <1>4

LEMMA TargetRoundTrip ==
  ASSUME NEW raw \in TargetCodes
  PROVE  Distance(TargetToFix(TargetToMv(raw)), raw) <= 1
<1>1. PICK mv \in Int : mv = Millivolts(raw)
  BY MillivoltsNear DEF TargetCodes
<1>2. TargetToMv(raw) = mv
  BY <1>1 DEF TargetToMv, TargetCodes
<1>3. mv # 0
  <2>1. raw \in Int /\ raw >= 257
    BY DEF TargetCodes
  <2>2. raw * 1000 <= mv * 1024 + 524
    BY <1>1, <2>1, MillivoltsNear
  <2> QED BY <2>1, <2>2
<1>4. PICK c \in TargetCodes : c - raw \in -1 .. 1 /\ FirstListed(257, 1536, mv) = c
  BY <1>1, TargetListed
<1>5. TargetToFix(mv) = c
  <2>1. TargetToFix(mv) = c % 4096
    BY <1>3, <1>4 DEF TargetToFix
  <2> QED BY <2>1 DEF TargetCodes
<1>6. Distance(c, raw) <= 1
  BY <1>4 DEF Distance, TargetCodes
<1> QED BY <1>2, <1>5, <1>6

(* Whatever the encoders are given, a field is what is written.            *)
LEMMA FieldsFit ==
  ASSUME NEW mv \in Int
  PROVE  OffsetToFix(mv) \in RawOffsets /\ TargetToFix(mv) \in RawTargets
<1>1. OffsetToFix(mv) \in 0 .. 2047
  <2>1. FirstListed(-256, 255, mv) \in Int \/ mv = 0
    <3>1. CASE mv < -250
      BY <3>1, TableEnds DEF FirstListed, VOLT_ERROR16
    <3>2. CASE mv >= -250
      <4>1. PICK m \in -250 .. 249 : m = Lowest(mv, 249)
        BY <3>2 DEF Lowest
      <4>2. mv # 0 => m # 0
        BY <4>1 DEF Lowest
      <4>3. FirstListed(-256, 255, mv) = FirstListed(-256, 255, m)
        <5>1. /\ ~(mv < Millivolts(-256)) /\ ~(m < Millivolts(-256))
              /\ Lowest(mv, Millivolts(255)) = m /\ Lowest(m, Millivolts(255)) = m
          BY <3>2, <4>1, TableEnds DEF Lowest
        <5> QED BY <5>1 DEF FirstListed
      <4>4. PICK fx \in OffsetCodes : Millivolts(fx) = m
        BY EveryOffsetListed
      <4>5. m # 0 => FirstListed(-256, 255, m) \in OffsetCodes
        BY <4>4, OffsetListed
      <4> QED BY <4>2, <4>3, <4>5 DEF OffsetCodes
    <3> QED BY <3>1, <3>2
  <2> QED BY <2>1 DEF OffsetToFix
<1>2. TargetToFix(mv) \in 0 .. 4095
  <2>1. FirstListed(257, 1536, mv) \in Int
    <3>1. CASE mv < 251
      BY <3>1, TableEnds DEF FirstListed, VOLT_ERROR16
    <3>2. CASE mv >= 251
      <4>1. PICK m \in 251 .. 1500 : m = Lowest(mv, 1500)
        BY <3>2 DEF Lowest
      <4>2. FirstListed(257, 1536, mv) = FirstListed(257, 1536, m)
        <5>1. /\ ~(mv < Millivolts(257)) /\ ~(m < Millivolts(257))
              /\ Lowest(mv, Millivolts(1536)) = m /\ Lowest(m, Millivolts(1536)) = m
          BY <3>2, <4>1, TableEnds DEF Lowest
        <5> QED BY <5>1 DEF FirstListed
      <4>3. PICK fx \in TargetCodes : Millivolts(fx) = m
        BY EveryTargetListed
      <4>4. FirstListed(257, 1536, m) \in TargetCodes
        BY <4>3, TargetListed
      <4> QED BY <4>2, <4>4 DEF TargetCodes
    <3> QED BY <3>1, <3>2
  <2>2. PICK c \in Int : c = FirstListed(257, 1536, mv)
    BY <2>1
  <2>3. CASE mv = 0
    BY <2>3 DEF TargetToFix
  <2>4. CASE mv # 0
    <3>1. TargetToFix(mv) = c % 4096
      BY <2>2, <2>4 DEF TargetToFix
    <3> QED BY <3>1
  <2> QED BY <2>3, <2>4
<1>3. OffsetToFix(mv) \in RawOffsets
  BY <1>1 DEF RawOffsets
<1>4. TargetToFix(mv) \in RawTargets
  BY <1>2 DEF RawTargets
<1> QED BY <1>3, <1>4

LEMMA MvIsInt ==
  ASSUME NEW raw \in Nat
  PROVE  OffsetToMv(raw) \in Int /\ TargetToMv(raw) \in Int
BY MillivoltsNear DEF OffsetToMv, TargetToMv, Signed

-----------------------------------------------------------------------------
(* What a write of one point does to the sequence of points.               *)
LEMMA ExceptPoint ==
  ASSUME NEW S, NEW seq \in Seq(S), NEW i \in 1 .. Len(seq), NEW x \in S
  PROVE  /\ [seq EXCEPT ![i] = x] \in Seq(S)
         /\ Len([seq EXCEPT ![i] = x]) = Len(seq)
         /\ DOMAIN [seq EXCEPT ![i] = x] = DOMAIN seq
         /\ [seq EXCEPT ![i] = x][i] = x
         /\ \A j \in DOMAIN seq : j # i => [seq EXCEPT ![i] = x][j] = seq[j]
<1>1. /\ [seq EXCEPT ![i] = x] \in Seq(S)
      /\ Len([seq EXCEPT ![i] = x]) = Len(seq)
  BY ExceptSeq
<1> QED BY <1>1

(* A key has one value, if it has one.                                     *)
LEMMA ValueOfKey ==
  ASSUME NEW values, NEW key \in Key(values), NEW old
  PROVE  /\ key = {} => Value(key, old) = old
         /\ key # {} => Value(key, old) \in values
         /\ \A v \in key : v \in values /\ Value(key, old) = v
<1>1. CASE key = {}
  BY <1>1 DEF Value
<1>2. CASE key # {}
  <2>1. (CHOOSE v \in key : TRUE) \in key
    BY <1>2
  <2>2. Value(key, old) = CHOOSE v \in key : TRUE
    BY <1>2 DEF Value
  <2> QED BY <1>2, <2>1, <2>2 DEF Key
<1> QED BY <1>1, <1>2

LEMMA SeqElements ==
  ASSUME NEW S, NEW seq \in Seq(S)
  PROVE  /\ Len(seq) \in Nat /\ DOMAIN seq = 1 .. Len(seq)
         /\ \A i \in DOMAIN seq : seq[i] \in S
<1>1. Len(seq) \in Nat /\ DOMAIN seq = 1 .. Len(seq)
  OBVIOUS
<1>2. \A i \in 1 .. Len(seq) : seq[i] \in S
  BY ElementOfSeq
<1> QED BY <1>1, <1>2

(* Filling the slots of a ratio register.                                  *)
LEMMA FilledSeq ==
  ASSUME NEW slots \in Seq(Slots), NEW ratio \in Slots
  PROVE  /\ Filled(slots, ratio) \in Seq(Slots)
         /\ Filled(Filled(slots, ratio), ratio) = Filled(slots, ratio)
<1>1. /\ DOMAIN Filled(slots, ratio) = 1 .. Len(slots)
      /\ DOMAIN slots = 1 .. Len(slots) /\ Len(slots) \in Nat
  BY DEF Filled
<1>2. \A i \in 1 .. Len(slots) : slots[i] \in Slots
  BY ElementOfSeq
<1>3. \A i \in 1 .. Len(slots) : Filled(slots, ratio)[i] \in Slots
  BY <1>1, <1>2 DEF Filled
<1>4. Filled(slots, ratio) \in Seq(Slots)
  <2>1. Filled(slots, ratio) = [i \in 1 .. Len(slots) |-> Filled(slots, ratio)[i]]
    BY <1>1 DEF Filled
  <2> QED BY <1>1, <1>3, <2>1, SeqDef
<1>5. Filled(Filled(slots, ratio), ratio) = Filled(slots, ratio)
  <2>1. \A i \in 1 .. Len(slots) :
          Filled(Filled(slots, ratio), ratio)[i] = Filled(slots, ratio)[i]
    BY <1>1 DEF Filled
  <2>2. DOMAIN Filled(Filled(slots, ratio), ratio) = 1 .. Len(slots)
    BY <1>1 DEF Filled
  <2> QED BY <1>1, <2>1, <2>2 DEF Filled
<1> QED BY <1>4, <1>5

(* The fields of the unit.                                                 *)
LEMMA UnitFields ==
  ASSUME NEW u \in Units
  PROVE  /\ u.icc \in 0 .. IccMask /\ u.bit31 \in BOOLEAN /\ u.mode \in {0, 1}
         /\ u.target \in RawTargets /\ u.offset \in RawOffsets
         /\ u.points \in Seq(RawOffsets)
         /\ Len(u.points) \in Nat /\ DOMAIN u.points = 1 .. Len(u.points)
         /\ \A i \in DOMAIN u.points : u.points[i] \in RawOffsets
<1>1. u.points \in Seq(RawOffsets)
  BY DEF Units
<1>2. /\ Len(u.points) \in Nat /\ DOMAIN u.points = 1 .. Len(u.points)
      /\ \A i \in DOMAIN u.points : u.points[i] \in RawOffsets
  BY <1>1, SeqElements
<1>3. u.icc \in 0 .. IccMask /\ u.bit31 \in BOOLEAN /\ u.mode \in {0, 1}
  BY DEF Units
<1>4. u.target \in RawTargets /\ u.offset \in RawOffsets
  BY DEF Units
<1> QED BY <1>1, <1>2, <1>3, <1>4

LEMMA CurveInit ==
  ASSUME Init
  PROVE  CurveInv
<1>1. TypeOK
  <2>1. unit \in Units /\ ratios \in [Kinds -> Ratios] /\ model \in Cpus /\ policy \in Policies
    BY VfAssumption DEF Init, VfAssumption
  <2>2. NoPoints \in [1 .. MAX_VF_POINTS -> Int]
    BY DEF NoPoints
  <2>3. dom \in Records
    BY <2>2, VfAssumption DEF Init, Records, VfAssumption
  <2>4. wanted \in [DOMAIN wanted -> Offsets] /\ DOMAIN wanted \subseteq 1 .. MAX_VF_POINTS
    BY DEF Init
  <2>5. flags \in BOOLEAN \X BOOLEAN \X BOOLEAN
    BY DEF Init, flags
  <2>6. index \in 0 .. MAX_VF_POINTS
    BY VfAssumption DEF Init, VfAssumption
  <2>7. /\ stage \in Stages /\ writers \in Nat
        /\ locked \in BOOLEAN /\ status \in BOOLEAN /\ booted = unit /\ bootRatios = ratios
    BY DEF Init, Stages
  <2> QED BY <2>1, <2>3, <2>4, <2>5, <2>6, <2>7 DEF TypeOK
<1>2. ProbeInv /\ TableIsWhole
  BY DEF Init, ProbeInv, TableIsWhole, ProgramsDomain, Reading
<1>3. RecordInv
  <2>1. DOMAIN wanted \subseteq 1 .. TableLength
    BY DEF Init
  <2>2. stage \notin Writing \cup Through
    BY DEF Init, Writing, Through, Rereading
  <2>3. ~programIcc /\ ~programVf /\ ~programPoints
    BY DEF Init
  <2> QED BY <2>1, <2>2, <2>3 DEF RecordInv, Writing
<1>4. UnitInv
  BY DEF Init, UnitInv
<1>5. WriterInv /\ FlagGoesWithMaximum
  BY DEF Init, WriterInv, FlagGoesWithMaximum, Writing, Through, Rereading
<1> QED BY <1>1, <1>2, <1>3, <1>4, <1>5 DEF CurveInv

-----------------------------------------------------------------------------
(* Steps that only read, and steps that stop.                              *)

LEMMA MvFields ==
  ASSUME NEW raw \in RawOffsets, NEW rawTarget \in RawTargets, NEW mv \in Int
  PROVE  /\ OffsetToMv(raw) \in Int /\ TargetToMv(rawTarget) \in Int
         /\ OffsetToFix(mv) \in RawOffsets /\ TargetToFix(mv) \in RawTargets
<1>1. raw \in Nat /\ rawTarget \in Nat
  BY DEF RawOffsets, RawTargets
<1>2. OffsetToMv(raw) \in Int /\ TargetToMv(rawTarget) \in Int
  BY <1>1, MvIsInt
<1>3. OffsetToFix(mv) \in RawOffsets /\ TargetToFix(mv) \in RawTargets
  BY FieldsFit
<1> QED BY <1>2, <1>3

LEMMA TypeFrame ==
  ASSUME TypeOK, UNCHANGED <<unit, given, flags, booted, wanted>>,
         locked' \in BOOLEAN, status' \in BOOLEAN, dom' \in Records, stage' \in Stages,
         index' \in 0 .. MAX_VF_POINTS, writers' \in Nat
  PROVE  TypeOK'
BY DEF TypeOK, flags, given, rvars

LEMMA UnitFrame ==
  ASSUME UnitInv,
         UNCHANGED <<unit, booted, ratios, bootRatios, policy, model, wanted, flags>>
  PROVE  UnitInv'
BY DEF UnitInv, LegacyAtGoal, PointAtGoal, RatiosAtGoal, GoalMode, GoalOffset, GoalTarget,
       GoalPoint, RatioAsked, flags

LEMMA ReadFrame ==
  ASSUME CurveInv, stage' \notin Writing, stage' \in Through => stage \in Through,
         UNCHANGED <<unit, given, flags, booted, wanted>>
  PROVE  RecordInv' /\ UnitInv' /\ WriterInv' /\ FlagGoesWithMaximum'
<1>1. UnitInv'
  BY UnitFrame DEF CurveInv, given, rvars
<1>2. RecordInv'
  BY DEF CurveInv, RecordInv, TableLength, given, rvars, flags
<1>3. stage' \notin {"iccWrite", "flagWrite", "legacyWrite", "ratioWrite", "pointWrite"}
  BY DEF Writing
<1>4. (stage' \in (Writing \ {"ratioWrite"}) \cup Through => stage \in Through) /\ stage' \notin Writing
  OBVIOUS
<1>5. WriterInv'
  BY <1>3, <1>4 DEF CurveInv, WriterInv, TableLength, given, rvars, flags, FlagDue, RatioAsked,
     RatiosAtGoal, LegacyAtGoal, PointAtGoal, GoalMode, GoalOffset, GoalTarget, GoalPoint
<1>6. FlagGoesWithMaximum'
  BY DEF CurveInv, WriterInv, FlagGoesWithMaximum, given, rvars, flags, FlagDue, Through
<1> QED BY <1>1, <1>2, <1>5, <1>6

(* In the middle of a probe, and after one, a policy is done or not begun. *)
LEMMA AgainFacts ==
  ASSUME NEW s \in {"legacyRead", "pointRead", "edit"}, stage \in Reading \cup Rereading
  PROVE  /\ Again(s) \in Stages \ Writing
         /\ Again(s) \in Through => stage \in Through
         /\ Again(s) \in Reading \cup {"edit"} => stage \in Reading
         /\ s = "legacyRead" => Again(s) \in {"legacyRead", "legacyReread"}
         /\ s = "pointRead" => Again(s) \in {"pointRead", "pointReread"}
         /\ s = "edit" => Again(s) \in {"edit", "done"}
BY DEF Again, Reading, Rereading, Writing, Through, Stages

LEMMA ReadIccStep ==
  ASSUME CurveInv, ReadIcc
  PROVE  CurveInv'
<1>1. stage \in Reading \cup Rereading /\ stage' = Again("legacyRead")
  BY DEF ReadIcc, Reading, Rereading
<1>2. stage' \in {"legacyRead", "legacyReread"} /\ stage' \in Stages \ Writing
  BY <1>1, AgainFacts
<1>3. RecordInv' /\ UnitInv' /\ WriterInv' /\ FlagGoesWithMaximum'
  BY <1>1, AgainFacts, ReadFrame DEF ReadIcc
<1>4. dom' \in Records
  <2>1. dom' = dom \/ dom' = [dom EXCEPT !.icc = 0] \/ dom' = [dom EXCEPT !.icc = unit.icc]
    BY DEF ReadIcc
  <2>2. dom \in Records /\ unit.icc \in 0 .. IccMask /\ 0 \in 0 .. IccMask
    BY UnitFields, VfAssumption DEF CurveInv, TypeOK, VfAssumption
  <2> QED BY <2>1, <2>2 DEF Records
<1>5. TypeOK'
  <2>1. /\ locked' \in BOOLEAN /\ status' \in BOOLEAN
        /\ index' \in 0 .. MAX_VF_POINTS /\ writers' \in Nat
    BY DEF ReadIcc, CurveInv, TypeOK
  <2> QED BY <1>2, <1>4, <2>1, TypeFrame DEF ReadIcc, CurveInv
<1>6. ProbeInv' /\ TableIsWhole'
  <2>1. stage' \in Reading \cup {"edit"} => stage \in Reading
    BY <1>1, AgainFacts
  <2>2. stage' \notin {"pointRead", "pointReread", "edit", "done"}
    BY <1>2
  <2> QED BY <2>1, <2>2 DEF ReadIcc, CurveInv, ProbeInv, TableIsWhole, ProgramsDomain, flags, given, rvars
<1> QED BY <1>3, <1>5, <1>6 DEF CurveInv

LEMMA ReadLegacyStep ==
  ASSUME CurveInv, ReadLegacy
  PROVE  CurveInv'
<1>1. stage \in Reading \cup Rereading
  BY DEF ReadLegacy, Reading, Rereading
<1>2. /\ stage' = Again(IF model.exposed THEN "pointRead" ELSE "edit")
      /\ model.exposed => stage' \in {"pointRead", "pointReread"}
      /\ ~model.exposed => stage' \in {"edit", "done"}
      /\ stage' \in Stages \ Writing
      /\ stage' \in Through => stage \in Through
      /\ stage' \in Reading \cup {"edit"} => stage \in Reading
  BY <1>1, AgainFacts DEF ReadLegacy
<1>3. RecordInv' /\ UnitInv' /\ WriterInv' /\ FlagGoesWithMaximum'
  BY <1>2, ReadFrame DEF ReadLegacy
<1>4. dom' = [dom EXCEPT !.mode = unit.mode, !.target = TargetToMv(unit.target),
                         !.offset = OffsetToMv(unit.offset), !.n = 0]
  BY DEF ReadLegacy
<1>5. /\ dom' \in Records /\ dom'.mode = unit.mode /\ dom'.n = 0
      /\ dom'.target = TargetToMv(unit.target) /\ dom'.offset = OffsetToMv(unit.offset)
  <2>1. TargetToMv(unit.target) \in Int /\ OffsetToMv(unit.offset) \in Int /\ unit.mode \in {0, 1}
    BY UnitFields, MvFields DEF CurveInv, TypeOK
  <2>2. dom \in Records /\ 0 \in 0 .. MAX_VF_POINTS
    BY VfAssumption DEF CurveInv, TypeOK, VfAssumption
  <2> QED BY <1>4, <2>1, <2>2 DEF Records
<1>6. TypeOK'
  <2>1. locked' \in BOOLEAN /\ status' \in BOOLEAN /\ writers' \in Nat
    BY DEF ReadLegacy, CurveInv, TypeOK
  <2>2. index' \in 0 .. MAX_VF_POINTS
    BY VfAssumption DEF ReadLegacy, VfAssumption
  <2> QED BY <1>2, <1>5, <2>1, <2>2, TypeFrame DEF ReadLegacy, CurveInv
<1>7. ProbeInv'
  <2>1. unit' = unit /\ Len(unit.points) \in Nat /\ MAX_VF_POINTS \in Nat \ {0}
    BY UnitFields, VfAssumption DEF ReadLegacy, CurveInv, TypeOK, VfAssumption
  <2>2. stage' \in {"pointRead", "pointReread"} => model.exposed
    BY <1>2
  <2>3. index' = 0 /\ ~status'
    BY DEF ReadLegacy
  <2> QED BY <1>2, <1>5, <2>1, <2>2, <2>3
          DEF ReadLegacy, CurveInv, ProbeInv, ProgramsDomain, flags, given, rvars
<1>8. TableIsWhole'
  BY <1>2, <1>5 DEF ReadLegacy, TableIsWhole, TableLength, given
<1> QED BY <1>3, <1>6, <1>7, <1>8 DEF CurveInv

LEMMA ReadPointStep ==
  ASSUME CurveInv, ReadPoint
  PROVE  CurveInv'
<1>1. stage \in {"pointRead", "pointReread"} /\ index < Len(unit.points)
  BY DEF ReadPoint
<1>2. /\ model.exposed /\ index < MAX_VF_POINTS /\ dom.n = index
      /\ \A i \in 1 .. index : dom.points[i] = OffsetToMv(unit.points[i])
  BY <1>1 DEF CurveInv, ProbeInv
<1>3. /\ MAX_VF_POINTS \in Nat \ {0} /\ index \in Nat /\ dom \in Records
      /\ Len(unit.points) \in Nat /\ index + 1 \in DOMAIN unit.points
  <2>1. MAX_VF_POINTS \in Nat \ {0} /\ index \in Nat /\ dom \in Records /\ unit \in Units
    BY VfAssumption DEF CurveInv, TypeOK, VfAssumption
  <2>2. Len(unit.points) \in Nat /\ DOMAIN unit.points = 1 .. Len(unit.points)
    BY <2>1, UnitFields
  <2> QED BY <1>1, <2>1, <2>2
<1>4. OffsetToMv(unit.points[index + 1]) \in Int
  BY <1>3, UnitFields, MvFields DEF CurveInv, TypeOK
<1>5. dom' = [dom EXCEPT !.n = dom.n + 1, !.points[index + 1] = OffsetToMv(unit.points[index + 1])]
  BY DEF ReadPoint
<1>6. /\ dom' \in Records /\ dom'.n = index + 1
      /\ dom'.mode = dom.mode /\ dom'.target = dom.target /\ dom'.offset = dom.offset
      /\ \A i \in 1 .. index + 1 : dom'.points[i] = OffsetToMv(unit.points[i])
  <2>1. index + 1 \in 1 .. MAX_VF_POINTS /\ index + 1 \in 0 .. MAX_VF_POINTS
    BY <1>2, <1>3
  <2>2. dom.points \in [1 .. MAX_VF_POINTS -> Int]
    BY <1>3 DEF Records
  <2>3. [dom.points EXCEPT ![index + 1] = OffsetToMv(unit.points[index + 1])]
          \in [1 .. MAX_VF_POINTS -> Int]
    BY <1>4, <2>1, <2>2
  <2>4. /\ dom'.n = index + 1
        /\ dom'.mode = dom.mode /\ dom'.target = dom.target /\ dom'.offset = dom.offset
        /\ dom'.points = [dom.points EXCEPT ![index + 1] = OffsetToMv(unit.points[index + 1])]
    BY <1>2, <1>3, <1>5 DEF Records
  <2>5. dom' \in Records
    BY <1>2, <1>3, <1>5, <2>1, <2>3 DEF Records
  <2>6. ASSUME NEW i \in 1 .. index + 1
        PROVE  dom'.points[i] = OffsetToMv(unit.points[i])
    <3>1. CASE i = index + 1
      BY <2>1, <2>2, <2>4, <3>1
    <3>2. CASE i # index + 1
      <4>1. i \in 1 .. index /\ i \in 1 .. MAX_VF_POINTS
        BY <1>2, <1>3, <3>2
      <4> QED BY <1>2, <2>2, <2>4, <3>2, <4>1
    <3> QED BY <3>1, <3>2
  <2> QED BY <2>4, <2>5, <2>6
<1>7. /\ index' = index + 1 /\ ~status' /\ unit' = unit /\ model' = model
      /\ IF index + 1 < MAX_VF_POINTS THEN stage' = stage ELSE stage' = Again("edit")
  BY DEF ReadPoint, given
<1>8. /\ stage' \in Stages \ Writing
      /\ stage' \in Through => stage \in Through
      /\ stage' \in Reading \cup {"edit"} => stage \in Reading
      /\ stage' \in {"pointRead", "edit"} => stage = "pointRead"
      /\ stage' \in {"pointRead", "pointReread"} => index + 1 < MAX_VF_POINTS
  <2>1. Again("edit") = IF stage = "pointReread" THEN "done" ELSE "edit"
    BY <1>1 DEF Again
  <2> QED BY <1>1, <1>7, <2>1 DEF Stages, Writing, Through, Rereading, Reading
<1>9. RecordInv' /\ UnitInv' /\ WriterInv' /\ FlagGoesWithMaximum'
  BY <1>8, ReadFrame DEF ReadPoint
<1>10. TypeOK'
  <2>1. locked' \in BOOLEAN /\ status' \in BOOLEAN /\ writers' \in Nat
    BY DEF ReadPoint, CurveInv, TypeOK
  <2>2. index' \in 0 .. MAX_VF_POINTS
    BY <1>2, <1>3, <1>7
  <2> QED BY <1>6, <1>8, <2>1, <2>2, TypeFrame DEF ReadPoint, CurveInv
<1>11. ProbeInv'
  <2>1. stage' \in Reading \cup {"edit"} =>
          unit' = booted' /\ ratios' = bootRatios' /\ wanted' = << >> /\ ~ProgramsDomain'
    BY <1>8 DEF ReadPoint, CurveInv, ProbeInv, ProgramsDomain, flags, given, rvars
  <2>2. stage' \in {"pointRead", "edit"} =>
          /\ dom'.mode = unit'.mode
          /\ dom'.target = TargetToMv(unit'.target) /\ dom'.offset = OffsetToMv(unit'.offset)
    BY <1>6, <1>7, <1>8 DEF CurveInv, ProbeInv
  <2>3. index' <= Len(unit'.points) /\ dom'.n = index' /\ model'.exposed /\ ~status'
    BY <1>1, <1>2, <1>3, <1>6, <1>7
  <2>4. \A i \in 1 .. index' : dom'.points[i] = OffsetToMv(unit'.points[i])
    BY <1>6, <1>7
  <2>5. stage' \in {"pointRead", "pointReread"} => index' < MAX_VF_POINTS
    BY <1>7, <1>8
  <2> QED BY <2>1, <2>2, <2>3, <2>4, <2>5 DEF ProbeInv
<1>12. TableIsWhole'
  <2>1. CASE stage' \in {"edit", "done"}
    <3>1. index + 1 = MAX_VF_POINTS
      <4>1. ~(index + 1 < MAX_VF_POINTS)
        BY <1>1, <1>7, <2>1
      <4> QED BY <1>2, <1>3, <4>1
    <3>2. TableLength' = MAX_VF_POINTS
      BY <1>1, <1>2, <1>3, <1>7, <3>1 DEF TableLength, Lowest
    <3>3. dom'.n = MAX_VF_POINTS /\ \A i \in 1 .. dom'.n : dom'.points[i] = OffsetToMv(unit'.points[i])
      BY <1>6, <1>7, <3>1
    <3> QED BY <3>2, <3>3 DEF TableIsWhole
  <2>2. CASE stage' \notin {"edit", "done"}
    BY <2>2 DEF TableIsWhole
  <2> QED BY <2>1, <2>2
<1> QED BY <1>9, <1>10, <1>11, <1>12 DEF CurveInv

LEMMA PointRejectedStep ==
  ASSUME CurveInv, PointRejected
  PROVE  CurveInv'
<1>1. /\ stage \in {"pointRead", "pointReread"} /\ index >= Len(unit.points)
      /\ stage' = Again("edit") /\ unit' = unit /\ model' = model /\ dom' = dom
  BY DEF PointRejected, given
<1>2. /\ stage' \in {"edit", "done"} /\ stage' \in Stages \ Writing
      /\ stage' \in Through => stage \in Through
      /\ stage' \in Reading \cup {"edit"} => stage = "pointRead"
  <2>1. Again("edit") = IF stage = "pointReread" THEN "done" ELSE "edit"
    BY <1>1 DEF Again
  <2> QED BY <1>1, <2>1 DEF Stages, Writing, Through, Rereading, Reading
<1>3. RecordInv' /\ UnitInv' /\ WriterInv' /\ FlagGoesWithMaximum'
  BY <1>2, ReadFrame DEF PointRejected
<1>4. TypeOK'
  <2>1. /\ locked' \in BOOLEAN /\ status' \in BOOLEAN /\ writers' \in Nat
        /\ index' \in 0 .. MAX_VF_POINTS /\ dom' \in Records
    BY DEF PointRejected, CurveInv, TypeOK
  <2> QED BY <1>2, <2>1, TypeFrame DEF PointRejected, CurveInv
<1>5. ProbeInv'
  BY <1>1, <1>2 DEF PointRejected, CurveInv, ProbeInv, ProgramsDomain, flags, given, rvars, Reading
<1>6. TableIsWhole'
  <2>1. /\ model.exposed /\ index < MAX_VF_POINTS /\ index <= Len(unit.points) /\ dom.n = index
        /\ \A i \in 1 .. index : dom.points[i] = OffsetToMv(unit.points[i])
    BY <1>1 DEF CurveInv, ProbeInv
  <2>2. Len(unit.points) \in Nat /\ index \in Nat /\ MAX_VF_POINTS \in Nat
    BY UnitFields, VfAssumption DEF CurveInv, TypeOK, VfAssumption
  <2>3. TableLength' = index
    BY <1>1, <2>1, <2>2 DEF TableLength, Lowest
  <2> QED BY <1>1, <2>1, <2>3 DEF TableIsWhole
<1> QED BY <1>3, <1>4, <1>5, <1>6 DEF CurveInv

(* A point that is not read ends the table only after a verdict.           *)
LEMMA AbortStep ==
  ASSUME CurveInv, stage' = "aborted", status' \in BOOLEAN,
         UNCHANGED <<unit, locked, given, dom, flags, index, writers, booted, wanted>>
  PROVE  CurveInv'
<1>1. stage' \in Stages \ Writing /\ stage' \notin Through \cup Reading \cup {"edit"}
  BY DEF Stages, Writing, Through, Rereading, Reading
<1>2. RecordInv' /\ UnitInv' /\ WriterInv' /\ FlagGoesWithMaximum'
  BY <1>1, ReadFrame
<1>3. TypeOK'
  <2>1. /\ locked' \in BOOLEAN /\ writers' \in Nat
        /\ index' \in 0 .. MAX_VF_POINTS /\ dom' \in Records
    BY DEF CurveInv, TypeOK
  <2> QED BY <1>1, <2>1, TypeFrame DEF CurveInv
<1>4. ProbeInv' /\ TableIsWhole'
  BY <1>1 DEF ProbeInv, TableIsWhole
<1> QED BY <1>2, <1>3, <1>4 DEF CurveInv

LEMMA ReadFailsStep ==
  ASSUME CurveInv, ReadFails
  PROVE  CurveInv'
<1>1. stage' = "aborted" /\ status' \in BOOLEAN
  <2>1. CASE stage \in {"legacyRead", "legacyReread"}
    BY <2>1 DEF ReadFails
  <2>2. CASE stage \notin {"legacyRead", "legacyReread"}
    <3>1. stage \in {"pointRead", "pointReread"} /\ status' = status
          /\ stage' = IF status THEN Again("edit") ELSE "aborted"
      BY <2>2 DEF ReadFails
    <3>2. ~status
      BY <3>1 DEF CurveInv, ProbeInv
    <3>3. status \in BOOLEAN
      BY DEF CurveInv, TypeOK
    <3> QED BY <3>1, <3>2, <3>3, Zenon
  <2> QED BY <2>1, <2>2
<1> QED BY <1>1, AbortStep DEF ReadFails

LEMMA WriteFailsStep ==
  ASSUME CurveInv, WriteFails
  PROVE  CurveInv'
<1>1. stage' = "aborted" /\ status' \in BOOLEAN
  BY DEF WriteFails, CurveInv, TypeOK
<1> QED BY <1>1, AbortStep DEF WriteFails

LEMMA OcLockStep ==
  ASSUME CurveInv, OcLock
  PROVE  CurveInv'
<1>1. stage = "ocLock" /\ stage' = "iccReread"
  BY DEF OcLock
<1>2. stage' \in Stages \ Writing /\ stage \in Through /\ stage' \notin Reading \cup {"edit"}
  BY <1>1 DEF Stages, Writing, Through, Rereading, Reading
<1>3. RecordInv' /\ UnitInv' /\ WriterInv' /\ FlagGoesWithMaximum'
  BY <1>2, ReadFrame DEF OcLock
<1>4. TypeOK'
  <2>1. /\ locked' \in BOOLEAN /\ status' \in BOOLEAN /\ writers' \in Nat
        /\ index' \in 0 .. MAX_VF_POINTS /\ dom' \in Records
    BY DEF OcLock, CurveInv, TypeOK
  <2> QED BY <1>2, <2>1, TypeFrame DEF OcLock, CurveInv
<1>5. ProbeInv' /\ TableIsWhole'
  BY <1>1, <1>2 DEF ProbeInv, TableIsWhole
<1> QED BY <1>3, <1>4, <1>5 DEF CurveInv

-----------------------------------------------------------------------------
(* The edit of the record, and the writes.                                 *)

LEMMA PolicyFields ==
  ASSUME TypeOK
  PROVE  /\ policy.icc \in Key(Nat) /\ policy.offset \in Key(Offsets)
         /\ policy.target \in Key(Targets)
         /\ policy.point \in Offsets
         /\ \A k \in Kinds : policy.ratio[k] \in Slots
BY DEF TypeOK, Policies

LEMMA TypeOfGoals ==
  ASSUME TypeOK
  PROVE  GoalOffset \in Int /\ GoalTarget \in Int /\ GoalMode \in {0, 1}
<1>1. /\ OffsetToMv(booted.offset) \in Int /\ TargetToMv(booted.target) \in Int
      /\ booted.mode \in {0, 1}
  BY UnitFields, MvFields DEF TypeOK
<1>2. GoalOffset \in Int
  <2>1. policy.offset # {} => GoalOffset \in Offsets
    BY PolicyFields, ValueOfKey DEF GoalOffset
  <2>2. policy.offset = {} => GoalOffset \in Int
    BY <1>1, PolicyFields, ValueOfKey DEF GoalOffset
  <2> QED BY <2>1, <2>2 DEF Offsets
<1>3. GoalTarget \in Int
  <2>1. policy.target # {} => GoalTarget \in Targets
    BY PolicyFields, ValueOfKey DEF GoalTarget
  <2>2. policy.target = {} => GoalTarget \in Int
    BY <1>1, PolicyFields, ValueOfKey DEF GoalTarget
  <2> QED BY <2>1, <2>2 DEF Targets
<1>4. GoalMode \in {0, 1}
  BY <1>1 DEF GoalMode
<1> QED BY <1>2, <1>3, <1>4

LEMMA EditStep ==
  ASSUME CurveInv, Edit
  PROVE  CurveInv'
<1>1. PICK chosen \in SUBSET (1 .. dom.n) :
        /\ dom' = [dom EXCEPT
             !.icc    = Lowest(Value(policy.icc, dom.icc), IccMask),
             !.mode   = IF policy.offset # {} THEN 0 ELSE dom.mode,
             !.offset = Value(policy.offset, dom.offset),
             !.target = Value(policy.target, dom.target),
             !.points = [i \in 1 .. MAX_VF_POINTS |->
                           IF i \in chosen THEN policy.point ELSE dom.points[i]]]
        /\ wanted' = [i \in chosen |-> policy.point]
        /\ programPoints' = IF policy.vfKey = {} THEN chosen # {} ELSE policy.vfKey = {1}
  BY DEF Edit
<1>2. /\ stage = "edit" /\ stage' = "ratioWrite" /\ index' = 0 /\ status' = FALSE
      /\ UNCHANGED <<unit, locked, ratios, bootRatios, model, policy, writers, booted>>
      /\ programIcc' = (policy.icc \notin {{}, {0}})
      /\ programVf' = (policy.offset # {} \/ policy.target # {})
  BY DEF Edit, given, rvars
<1>3. /\ unit = booted /\ ratios = bootRatios
      /\ dom.mode = booted.mode /\ dom.target = TargetToMv(booted.target)
      /\ dom.offset = OffsetToMv(booted.offset)
      /\ dom.n = TableLength
      /\ \A i \in 1 .. dom.n : dom.points[i] = OffsetToMv(booted.points[i])
  BY <1>2 DEF CurveInv, ProbeInv, TableIsWhole
<1>4. /\ dom \in Records /\ unit \in Units /\ dom.icc \in Nat /\ dom.n \in 0 .. MAX_VF_POINTS
      /\ MAX_VF_POINTS \in Nat \ {0} /\ IccMask \in Nat \ {0}
  BY VfAssumption DEF CurveInv, TypeOK, VfAssumption, Records
<1>5. chosen \subseteq 1 .. MAX_VF_POINTS
  BY <1>1, <1>4
<1>6. /\ dom'.icc = Lowest(Value(policy.icc, dom.icc), IccMask)
      /\ dom'.mode = GoalMode /\ dom'.offset = GoalOffset /\ dom'.target = GoalTarget
      /\ dom'.n = dom.n
      /\ dom'.points = [i \in 1 .. MAX_VF_POINTS |->
                          IF i \in chosen THEN policy.point ELSE dom.points[i]]
  BY <1>1, <1>3, <1>4 DEF Records, GoalMode, GoalOffset, GoalTarget
<1>7. dom'.icc \in 0 .. IccMask /\ \A v \in policy.icc : dom'.icc = Lowest(v, IccMask)
  <2>1. Value(policy.icc, dom.icc) \in Nat
    BY <1>4, PolicyFields, ValueOfKey DEF CurveInv
  <2>2. \A v \in policy.icc : Value(policy.icc, dom.icc) = v
    BY PolicyFields, ValueOfKey DEF CurveInv
  <2>3. Lowest(Value(policy.icc, dom.icc), IccMask) \in 0 .. IccMask
    BY <1>4, <2>1 DEF Lowest
  <2> QED BY <1>6, <2>2, <2>3
<1>8. dom' \in Records
  <2>1. GoalMode \in {0, 1} /\ GoalOffset \in Int /\ GoalTarget \in Int
    BY TypeOfGoals DEF CurveInv
  <2>2. policy.point \in Int
    BY PolicyFields DEF CurveInv, Offsets
  <2>3. dom.points \in [1 .. MAX_VF_POINTS -> Int]
    BY <1>4 DEF Records
  <2>4. dom'.points \in [1 .. MAX_VF_POINTS -> Int]
    BY <1>6, <2>2, <2>3
  <2>5. dom' = [dom EXCEPT !.icc = dom'.icc, !.mode = dom'.mode, !.offset = dom'.offset,
                           !.target = dom'.target, !.points = dom'.points]
    BY <1>1, <1>4 DEF Records
  <2>6. dom' = [icc |-> dom'.icc, mode |-> dom'.mode, target |-> dom'.target,
                offset |-> dom'.offset, n |-> dom.n, points |-> dom'.points]
    BY <1>4, <1>6, <2>5 DEF Records
  <2> QED BY <1>4, <1>6, <1>7, <2>1, <2>4, <2>6 DEF Records
<1>9. wanted' \in [DOMAIN wanted' -> Offsets] /\ DOMAIN wanted' = chosen
  BY <1>1, PolicyFields DEF CurveInv
<1>10. TypeOK'
  <2>1. flags' \in BOOLEAN \X BOOLEAN \X BOOLEAN
    BY <1>1, <1>2 DEF flags
  <2>2. index' \in 0 .. MAX_VF_POINTS /\ stage' \in Stages
    BY <1>2, <1>4 DEF Stages
  <2>3. DOMAIN wanted' \subseteq 1 .. MAX_VF_POINTS
    BY <1>5, <1>9
  <2> QED BY <1>2, <1>8, <1>9, <2>1, <2>2, <2>3 DEF CurveInv, TypeOK
<1>11. stage' \notin Reading \cup Through \cup {"edit"} /\ stage' \in Writing
  BY <1>2 DEF Reading, Through, Rereading, Writing
<1>12. ProbeInv' /\ TableIsWhole'
  BY <1>2, <1>11 DEF ProbeInv, TableIsWhole
<1>13. RecordInv'
  <2>1. programPoints' => policy'.vfKey \in {{}, {1}}
    BY <1>1, <1>2
  <2>2. TableLength' = TableLength /\ DOMAIN wanted' \subseteq 1 .. TableLength'
    BY <1>1, <1>2, <1>3, <1>9 DEF TableLength
  <2>3. GoalMode' = GoalMode /\ GoalOffset' = GoalOffset /\ GoalTarget' = GoalTarget
    BY <1>2 DEF GoalMode, GoalOffset, GoalTarget
  <2>4. ASSUME NEW i \in 1 .. dom'.n
        PROVE  dom'.points[i] = GoalPoint(i)'
    <3>1. i \in 1 .. MAX_VF_POINTS /\ i \in 1 .. dom.n
      BY <1>4, <1>6
    <3>2. CASE i \in chosen
      BY <1>1, <1>6, <3>1, <3>2 DEF GoalPoint
    <3>3. CASE i \notin chosen
      BY <1>1, <1>2, <1>3, <1>6, <3>1, <3>3 DEF GoalPoint
    <3> QED BY <3>2, <3>3
  <2>5. \A v \in policy'.icc : dom'.icc = Lowest(v, IccMask)
    BY <1>2, <1>7
  <2>6. dom'.n = TableLength'
    BY <1>3, <1>6, <2>2
  <2> QED BY <1>2, <1>6, <2>1, <2>2, <2>3, <2>4, <2>5, <2>6 DEF RecordInv
<1>14. UnitInv'
  BY <1>2, <1>3 DEF UnitInv
<1>15. WriterInv' /\ FlagGoesWithMaximum'
  <2>1. stage' \notin (Writing \ {"ratioWrite"}) \cup Through /\ stage' \notin Through
    BY <1>2, <1>11
  <2>2. WriterInv'
    BY <1>2, <2>1 DEF WriterInv
  <2> QED BY <1>2, <1>3, <2>2 DEF FlagGoesWithMaximum
<1> QED BY <1>10, <1>12, <1>13, <1>14, <1>15 DEF CurveInv

(* What every write leaves alone.                                          *)
LEMMA WriteFrame ==
  ASSUME CurveInv, stage \in Writing, stage' \in Writing \cup {"aborted"},
         UNCHANGED <<locked, bootRatios, model, policy, dom, flags, status, booted, wanted>>,
         unit' \in Units, Len(unit'.points) = Len(unit.points),
         ratios' \in [Kinds -> Ratios], index' \in 0 .. MAX_VF_POINTS, writers' \in Nat
  PROVE  TypeOK' /\ ProbeInv' /\ TableIsWhole' /\ RecordInv'
<1>1. /\ stage' \in Stages /\ stage' \notin Reading \cup Rereading \cup {"edit", "done"}
      /\ stage' \in Writing \cup Through => stage \in Writing \cup Through
      /\ stage' \in Writing => stage \in Writing
  BY DEF Stages, Writing, Reading, Rereading, Through
<1>2. TypeOK'
  BY <1>1 DEF CurveInv, TypeOK, flags
<1>3. ProbeInv' /\ TableIsWhole'
  BY <1>1 DEF ProbeInv, TableIsWhole, Reading, Rereading
<1>4. RecordInv'
  <2>1. TableLength' = TableLength
    BY DEF TableLength
  <2> QED BY <1>1, <2>1 DEF CurveInv, RecordInv, flags, GoalMode, GoalOffset, GoalTarget, GoalPoint
<1> QED BY <1>2, <1>3, <1>4

(* The parts of the record that a write uses.                              *)
LEMMA RecordFields ==
  ASSUME CurveInv, stage \in Writing
  PROVE  /\ unit \in Units /\ ratios \in [Kinds -> Ratios] /\ writers \in Nat
         /\ index \in 0 .. MAX_VF_POINTS /\ MAX_VF_POINTS \in Nat
         /\ dom.icc \in 0 .. IccMask /\ dom.mode \in {0, 1}
         /\ dom.n = TableLength /\ dom.n \in 0 .. MAX_VF_POINTS
         /\ dom.target \in Int /\ dom.offset \in Int
         /\ PointsToWrite \in 0 .. MAX_VF_POINTS
<1>1. /\ unit \in Units /\ ratios \in [Kinds -> Ratios] /\ writers \in Nat
      /\ index \in 0 .. MAX_VF_POINTS /\ MAX_VF_POINTS \in Nat /\ dom \in Records
  BY VfAssumption DEF CurveInv, TypeOK, VfAssumption
<1>2. /\ dom.icc \in 0 .. IccMask /\ dom.mode \in {0, 1}
      /\ dom.n \in 0 .. MAX_VF_POINTS /\ dom.target \in Int /\ dom.offset \in Int
  BY <1>1 DEF Records
<1>3. dom.n = TableLength
  BY DEF CurveInv, RecordInv
<1>4. PointsToWrite \in 0 .. MAX_VF_POINTS
  BY <1>1, <1>2 DEF PointsToWrite
<1> QED BY <1>1, <1>2, <1>3, <1>4

(* A maximum that is due as "no limit" is written with the flag.           *)
LEMMA FlagDueIsWritten ==
  ASSUME CurveInv, stage \in Writing, FlagDue
  PROVE  WritesFlag /\ WritesIcc /\ ProgramsDomain
<1>1. PICK v \in policy.icc : v >= IccMask
  BY DEF FlagDue
<1>2. v \in Nat /\ IccMask \in Nat \ {0} /\ \A w \in policy.icc : w = v
  BY VfAssumption, PolicyFields DEF CurveInv, Key, VfAssumption
<1>3. dom.icc = IccMask
  <2>1. dom.icc = Lowest(v, IccMask)
    BY DEF CurveInv, RecordInv
  <2> QED BY <1>1, <1>2, <2>1 DEF Lowest
<1>4. programIcc
  <2>1. policy.icc \notin {{}, {0}}
    BY <1>1, <1>2
  <2> QED BY <2>1 DEF CurveInv, RecordInv
<1> QED BY <1>2, <1>3, <1>4 DEF WritesFlag, WritesIcc, FlagDue, ProgramsDomain

LEMMA ProgramRatiosStep ==
  ASSUME CurveInv, ProgramRatios
  PROVE  CurveInv'
<1>1. /\ stage = "ratioWrite" /\ stage \in Writing
      /\ UNCHANGED <<unit, locked, bootRatios, model, policy, dom, flags, index, status,
                      booted, wanted>>
      /\ ratios' = [k \in Kinds |->
           IF RatioAsked(k) /\ ratios[k].writable
             THEN [ratios[k] EXCEPT !.slots = Filled(ratios[k].slots, policy.ratio[k])]
             ELSE ratios[k]]
  BY DEF ProgramRatios, Writing
<1>2. /\ index = 0
      /\ ProgramsDomain => stage' = FirstWrite /\ writers' = writers
      /\ ~ProgramsDomain => writers' = writers + 1 /\ stage' = NextWriter(writers')
  BY <1>1 DEF ProgramRatios, CurveInv, WriterInv
<1>3. stage' \in Writing
  BY <1>2 DEF FirstWrite, AfterIcc, NextWriter, Writing
<1>4. ASSUME NEW k \in Kinds
      PROVE  /\ ratios'[k] \in Ratios /\ ratios'[k].writable = bootRatios[k].writable
             /\ (RatioAsked(k) /\ RatiosAtGoal(k)') \/ ratios'[k] = bootRatios[k]
             /\ RatioAsked(k) /\ ratios'[k].writable => RatiosAtGoal(k)'
  <2>1. /\ ratios[k] \in Ratios /\ bootRatios[k] \in Ratios /\ policy.ratio[k] \in Slots
        /\ ratios[k].slots \in Seq(Slots) /\ bootRatios[k].slots \in Seq(Slots)
    <3>1. ratios[k] \in Ratios /\ bootRatios[k] \in Ratios
      BY DEF CurveInv, TypeOK
    <3>2. ratios[k].slots \in Seq(Slots) /\ bootRatios[k].slots \in Seq(Slots)
      BY <3>1 DEF Ratios
    <3> QED BY <3>1, <3>2, PolicyFields DEF CurveInv
  <2>2. /\ ratios[k].writable = bootRatios[k].writable
        /\ (RatioAsked(k) /\ RatiosAtGoal(k)) \/ ratios[k] = bootRatios[k]
    BY DEF CurveInv, UnitInv
  <2>3. RatiosAtGoal(k)' <=> ratios'[k].slots = Filled(bootRatios[k].slots, policy.ratio[k])
    BY <1>1 DEF RatiosAtGoal
  <2>4. CASE RatioAsked(k) /\ ratios[k].writable
    <3>1. ratios'[k] = [ratios[k] EXCEPT !.slots = Filled(ratios[k].slots, policy.ratio[k])]
      BY <1>1, <2>4
    <3>2. Filled(ratios[k].slots, policy.ratio[k]) = Filled(bootRatios[k].slots, policy.ratio[k])
      BY <2>1, <2>2, FilledSeq DEF RatiosAtGoal
    <3>3. Filled(ratios[k].slots, policy.ratio[k]) \in Seq(Slots)
      BY <2>1, FilledSeq
    <3>4. /\ ratios'[k] \in Ratios /\ ratios'[k].writable = ratios[k].writable
          /\ ratios'[k].slots = Filled(ratios[k].slots, policy.ratio[k])
      BY <2>1, <3>1, <3>3 DEF Ratios
    <3> QED BY <2>2, <2>3, <2>4, <3>2, <3>4
  <2>5. CASE ~(RatioAsked(k) /\ ratios[k].writable)
    <3>1. ratios'[k] = ratios[k]
      BY <1>1, <2>5
    <3> QED BY <2>1, <2>2, <2>3, <2>5, <3>1 DEF RatiosAtGoal
  <2> QED BY <2>4, <2>5
<1>5. ratios' \in [Kinds -> Ratios]
  <2>1. ratios' = [k \in Kinds |-> ratios'[k]]
    BY <1>1
  <2> QED BY <1>4, <2>1
<1>6. TypeOK' /\ ProbeInv' /\ TableIsWhole' /\ RecordInv'
  <2>1. unit' \in Units /\ Len(unit'.points) = Len(unit.points) /\ index' \in 0 .. MAX_VF_POINTS
    BY <1>1, RecordFields
  <2>2. writers' \in Nat
    BY <1>1, <1>2, RecordFields
  <2> QED BY <1>1, <1>3, <1>5, <2>1, <2>2, WriteFrame
<1>7. UnitInv'
  <2>1. \A k \in Kinds : RatioAsked(k)' <=> RatioAsked(k)
    BY <1>1 DEF RatioAsked
  <2>2. \A k \in Kinds : /\ ratios'[k].writable = bootRatios'[k].writable
                         /\ (RatioAsked(k)' /\ RatiosAtGoal(k)') \/ ratios'[k] = bootRatios'[k]
    BY <1>1, <1>4, <2>1
  <2> QED BY <1>1, <2>2 DEF CurveInv, UnitInv, LegacyAtGoal, PointAtGoal, GoalMode, GoalOffset,
          GoalTarget, GoalPoint, flags
<1>8. WriterInv'
  <2>1. /\ stage' \in {"iccWrite", "legacyWrite", "pointWrite", "ratioWrite", "ocLock"}
        /\ stage' = "iccWrite" => WritesIcc
        /\ stage' = "legacyWrite" => programVf
        /\ stage' = "pointWrite" => ~programVf
        /\ stage' \in {"legacyWrite", "pointWrite"} => ~WritesIcc
        /\ stage' = "ocLock" => ~ProgramsDomain
    BY <1>2 DEF FirstWrite, AfterIcc, NextWriter
  <2>2. \A k \in Kinds : RatioAsked(k)' /\ ratios'[k].writable => RatiosAtGoal(k)'
    BY <1>1, <1>4 DEF RatioAsked
  <2>3. stage' \in {"legacyWrite", "pointWrite"} \cup Through => ~FlagDue'
    <3>1. FlagDue' <=> FlagDue
      BY <1>1 DEF FlagDue
    <3>2. FlagDue => WritesIcc /\ ProgramsDomain
      BY <1>1, FlagDueIsWritten
    <3> QED BY <2>1, <3>1, <3>2 DEF Through, Rereading
  <2>4. stage' \in {"pointWrite"} \cup Through => ~programVf'
    BY <1>1, <2>1 DEF Through, Rereading, ProgramsDomain, flags
  <2>5. stage' \in Through => ~programPoints'
    BY <1>1, <2>1 DEF Through, Rereading, ProgramsDomain, flags
  <2>6. index' = 0 /\ 0 <= PointsToWrite'
    <3>1. PointsToWrite' = PointsToWrite
      BY <1>1 DEF PointsToWrite, flags
    <3> QED BY <1>1, <1>2, <3>1, RecordFields
  <2>7. (WritesIcc => WritesIcc') /\ (programVf => programVf') /\ stage' # "flagWrite"
    BY <1>1, <2>1 DEF WritesIcc, flags
  <2> QED BY <2>1, <2>2, <2>3, <2>4, <2>5, <2>6, <2>7 DEF WriterInv
<1>9. FlagGoesWithMaximum'
  <2>1. stage' # "done"
    BY <1>3 DEF Writing
  <2> QED BY <1>1, <2>1 DEF CurveInv, FlagGoesWithMaximum
<1> QED BY <1>6, <1>7, <1>8, <1>9 DEF CurveInv

(* A write of IccMax, with and without its flag.                           *)
LEMMA IccWritten ==
  ASSUME CurveInv, stage \in {"iccWrite", "flagWrite"}, NEW flag \in BOOLEAN,
         flag => stage = "flagWrite",
         unit' = [unit EXCEPT !.icc = dom.icc, !.bit31 = flag],
         stage' \in {IF ~flag /\ WritesFlag THEN "flagWrite" ELSE AfterIcc, "aborted"},
         UNCHANGED <<locked, given, dom, flags, index, status, writers, booted, wanted>>
  PROVE  CurveInv'
<1>1. /\ stage \in Writing /\ stage' \in Writing \cup {"aborted"}
      /\ stage' \in {"flagWrite", "legacyWrite", "pointWrite", "aborted"}
      /\ stage' = "flagWrite" => WritesFlag
      /\ stage' = "legacyWrite" => programVf
      /\ stage' = "pointWrite" => ~programVf
      /\ stage' \in {"legacyWrite", "pointWrite"} => flag \/ ~WritesFlag
  BY DEF Writing, AfterIcc
<1>2. WritesIcc /\ (flag => WritesFlag) /\ index = 0
  BY DEF CurveInv, WriterInv, WritesFlag
<1>3. /\ unit' \in Units /\ unit'.icc = dom.icc /\ unit'.bit31 = flag
      /\ unit'.mode = unit.mode /\ unit'.target = unit.target /\ unit'.offset = unit.offset
      /\ unit'.points = unit.points
  BY <1>1, RecordFields DEF Units
<1>4. TypeOK' /\ ProbeInv' /\ TableIsWhole' /\ RecordInv'
  <2>1. ratios' \in [Kinds -> Ratios] /\ index' \in 0 .. MAX_VF_POINTS /\ writers' \in Nat
    BY <1>1, RecordFields DEF given, rvars
  <2> QED BY <1>1, <1>3, <2>1, WriteFrame DEF given, rvars
<1>5. UnitInv'
  <2>1. programIcc'
    BY <1>2 DEF WritesIcc, flags
  <2> QED BY <1>3, <2>1 DEF CurveInv, UnitInv, LegacyAtGoal, PointAtGoal, GoalMode, GoalOffset,
          GoalTarget, GoalPoint, RatiosAtGoal, RatioAsked, flags, given, rvars
<1>6. WriterInv'
  <2>1. \A k \in Kinds : RatioAsked(k)' /\ ratios'[k].writable => RatiosAtGoal(k)'
    BY DEF CurveInv, WriterInv, Writing, RatioAsked, RatiosAtGoal, given, rvars
  <2>2. stage' \in {"legacyWrite", "pointWrite"} => (FlagDue' => unit'.bit31)
    <3>1. FlagDue' <=> FlagDue
      BY DEF FlagDue, given
    <3> QED BY <1>1, <1>3, <3>1, FlagDueIsWritten
  <2>3. index' = 0 /\ 0 <= PointsToWrite'
    <3>1. PointsToWrite' = PointsToWrite
      BY DEF PointsToWrite, flags, given
    <3> QED BY <1>1, <1>2, <3>1, RecordFields
  <2>4. WritesFlag => WritesFlag'
    BY DEF WritesFlag, WritesIcc, flags, given
  <2>5. stage' \notin Through /\ programVf' = programVf
    BY <1>1 DEF Through, Rereading, flags
  <2> QED BY <1>1, <2>1, <2>2, <2>3, <2>4, <2>5 DEF WriterInv
<1>7. FlagGoesWithMaximum'
  <2>1. stage' # "done"
    BY <1>1
  <2>2. WritesFlag => dom.icc = IccMask
    BY DEF WritesFlag
  <2> QED BY <1>2, <1>3, <2>1, <2>2 DEF FlagGoesWithMaximum
<1> QED BY <1>4, <1>5, <1>6, <1>7 DEF CurveInv

LEMMA WriteIccStep ==
  ASSUME CurveInv, WriteIcc
  PROVE  CurveInv'
BY IccWritten DEF WriteIcc, Written

LEMMA WriteFlagStep ==
  ASSUME CurveInv, WriteFlag
  PROVE  CurveInv'
BY IccWritten DEF WriteFlag, Written

LEMMA WriteLegacyStep ==
  ASSUME CurveInv, WriteLegacy
  PROVE  CurveInv'
<1>1. /\ stage = "legacyWrite" /\ stage \in Writing /\ stage' \in {"pointWrite", "aborted"}
      /\ stage' \in Writing \cup {"aborted"}
      /\ unit' = [unit EXCEPT !.mode = dom.mode, !.target = TargetToFix(dom.target),
                              !.offset = OffsetToFix(dom.offset)]
      /\ UNCHANGED <<locked, given, dom, flags, index, status, writers, booted, wanted>>
  BY DEF WriteLegacy, Written, Writing
<1>2. /\ programVf /\ index = 0
      /\ dom.mode = GoalMode /\ dom.offset = GoalOffset /\ dom.target = GoalTarget
  BY <1>1 DEF CurveInv, WriterInv, RecordInv
<1>3. /\ unit' \in Units /\ unit'.icc = unit.icc /\ unit'.bit31 = unit.bit31
      /\ unit'.mode = dom.mode /\ unit'.target = TargetToFix(dom.target)
      /\ unit'.offset = OffsetToFix(dom.offset) /\ unit'.points = unit.points
  <2>1. unit \in Units /\ dom.mode \in {0, 1}
    BY <1>1, RecordFields
  <2>2. TargetToFix(dom.target) \in RawTargets /\ OffsetToFix(dom.offset) \in RawOffsets
    BY <1>1, RecordFields, FieldsFit
  <2> QED BY <1>1, <2>1, <2>2 DEF Units
<1>4. TypeOK' /\ ProbeInv' /\ TableIsWhole' /\ RecordInv'
  <2>1. ratios' \in [Kinds -> Ratios] /\ index' \in 0 .. MAX_VF_POINTS /\ writers' \in Nat
    BY <1>1, RecordFields DEF given, rvars
  <2> QED BY <1>1, <1>3, <2>1, WriteFrame DEF given, rvars
<1>5. LegacyAtGoal'
  <2>1. GoalMode' = GoalMode /\ GoalOffset' = GoalOffset /\ GoalTarget' = GoalTarget
    BY <1>1 DEF GoalMode, GoalOffset, GoalTarget, given
  <2> QED BY <1>2, <1>3, <2>1 DEF LegacyAtGoal
<1>6. UnitInv'
  <2>1. programVf'
    BY <1>1, <1>2 DEF flags
  <2> QED BY <1>1, <1>3, <1>5, <2>1 DEF CurveInv, UnitInv, PointAtGoal, GoalPoint, RatiosAtGoal,
          RatioAsked, flags, given, rvars
<1>7. WriterInv'
  <2>1. \A k \in Kinds : RatioAsked(k)' /\ ratios'[k].writable => RatiosAtGoal(k)'
    BY <1>1 DEF CurveInv, WriterInv, Writing, RatioAsked, RatiosAtGoal, given, rvars
  <2>2. FlagDue' => unit'.bit31
    <3>1. FlagDue' <=> FlagDue
      BY <1>1 DEF FlagDue, given
    <3> QED BY <1>1, <1>3, <3>1 DEF CurveInv, WriterInv
  <2>3. index' = 0 /\ 0 <= PointsToWrite'
    <3>1. PointsToWrite' = PointsToWrite
      BY <1>1 DEF PointsToWrite, flags, given
    <3> QED BY <1>1, <1>2, <3>1, RecordFields
  <2>4. stage' \notin Through
    BY <1>1 DEF Through, Rereading
  <2> QED BY <1>1, <1>5, <2>1, <2>2, <2>3, <2>4 DEF WriterInv
<1>8. FlagGoesWithMaximum'
  BY <1>1, <1>3 DEF CurveInv, FlagGoesWithMaximum
<1> QED BY <1>4, <1>6, <1>7, <1>8 DEF CurveInv

LEMMA WritePointStep ==
  ASSUME CurveInv, WritePoint
  PROVE  CurveInv'
<1> DEFINE raw == OffsetToFix(dom.points[index + 1])
<1>1. /\ stage = "pointWrite" /\ stage \in Writing /\ stage' \in {"pointWrite", "aborted"}
      /\ stage' \in Writing \cup {"aborted"}
      /\ index < PointsToWrite /\ index' = index + 1
      /\ unit' = [unit EXCEPT !.points = [unit.points EXCEPT ![index + 1] = raw]]
      /\ UNCHANGED <<locked, given, dom, flags, status, writers, booted, wanted>>
  BY DEF WritePoint, Written, Writing
<1>2. /\ PointsToWrite = dom.n /\ programPoints /\ model.exposed
      /\ index \in Nat /\ dom.n \in 0 .. MAX_VF_POINTS /\ MAX_VF_POINTS \in Nat
      /\ index + 1 \in 1 .. dom.n /\ dom.n = TableLength /\ unit \in Units /\ dom \in Records
  <2>1. /\ index \in Nat /\ dom.n \in 0 .. MAX_VF_POINTS /\ MAX_VF_POINTS \in Nat
        /\ dom.n = TableLength /\ unit \in Units /\ dom \in Records
    BY <1>1, RecordFields DEF CurveInv, TypeOK
  <2>2. PointsToWrite = dom.n /\ programPoints /\ model.exposed
    BY <1>1, <2>1 DEF PointsToWrite
  <2> QED BY <1>1, <2>1, <2>2
<1>3. index + 1 \in 1 .. Len(unit.points) /\ index + 1 \in 1 .. MAX_VF_POINTS
  <2>1. Len(unit.points) \in Nat
    BY <1>2, UnitFields
  <2> QED BY <1>2, <2>1 DEF TableLength, Lowest
<1>4. raw \in RawOffsets /\ raw = OffsetToFix(GoalPoint(index + 1))
  <2>1. dom.points[index + 1] \in Int
    BY <1>2, <1>3 DEF Records
  <2>2. dom.points[index + 1] = GoalPoint(index + 1)
    BY <1>1, <1>2 DEF CurveInv, RecordInv
  <2> QED BY <2>1, <2>2, FieldsFit
<1> HIDE DEF raw
<1>5. /\ [unit.points EXCEPT ![index + 1] = raw] \in Seq(RawOffsets)
      /\ Len([unit.points EXCEPT ![index + 1] = raw]) = Len(unit.points)
      /\ DOMAIN [unit.points EXCEPT ![index + 1] = raw] = DOMAIN unit.points
      /\ [unit.points EXCEPT ![index + 1] = raw][index + 1] = raw
      /\ \A j \in DOMAIN unit.points : j # index + 1 =>
           [unit.points EXCEPT ![index + 1] = raw][j] = unit.points[j]
  <2>1. unit.points \in Seq(RawOffsets)
    BY <1>2, UnitFields
  <2> QED BY <1>3, <1>4, <2>1, ExceptPoint
<1>6. /\ unit' \in Units /\ unit'.icc = unit.icc /\ unit'.bit31 = unit.bit31
      /\ unit'.mode = unit.mode /\ unit'.target = unit.target /\ unit'.offset = unit.offset
      /\ unit'.points = [unit.points EXCEPT ![index + 1] = raw]
  BY <1>1, <1>2, <1>5 DEF Units
<1>7. \A i : GoalPoint(i)' = GoalPoint(i)
  BY <1>1 DEF GoalPoint
<1>8. \A j \in DOMAIN unit.points : j = index + 1 \/ PointAtGoal(j) => PointAtGoal(j)'
  <2> SUFFICES ASSUME NEW j \in DOMAIN unit.points, j = index + 1 \/ PointAtGoal(j)
               PROVE  PointAtGoal(j)'
    OBVIOUS
  <2>1. CASE j = index + 1
    BY <1>4, <1>5, <1>6, <1>7, <2>1 DEF PointAtGoal
  <2>2. CASE j # index + 1
    BY <1>5, <1>6, <1>7, <2>2 DEF PointAtGoal
  <2> QED BY <2>1, <2>2
<1>9. TypeOK' /\ ProbeInv' /\ TableIsWhole' /\ RecordInv'
  <2>1. ratios' \in [Kinds -> Ratios] /\ index' \in 0 .. MAX_VF_POINTS /\ writers' \in Nat
    BY <1>1, <1>3, RecordFields DEF given, rvars
  <2> QED BY <1>1, <1>5, <1>6, <2>1, WriteFrame DEF given, rvars
<1>10. UnitInv'
  <2>1. \A i \in DOMAIN unit'.points :
          \/ programPoints' /\ model'.exposed /\ PointAtGoal(i)'
          \/ unit'.points[i] = booted'.points[i]
    <3> SUFFICES ASSUME NEW i \in DOMAIN unit.points
                 PROVE  \/ programPoints' /\ model'.exposed /\ PointAtGoal(i)'
                        \/ unit'.points[i] = booted'.points[i]
      BY <1>5, <1>6
    <3>1. CASE i = index + 1
      BY <1>1, <1>2, <1>8, <3>1 DEF flags, given
    <3>2. CASE i # index + 1
      <4>1. unit'.points[i] = unit.points[i]
        BY <1>5, <1>6, <3>2
      <4>2. (programPoints /\ model.exposed /\ PointAtGoal(i)) \/ unit.points[i] = booted.points[i]
        BY DEF CurveInv, UnitInv
      <4> QED BY <1>1, <1>8, <4>1, <4>2 DEF flags, given
    <3> QED BY <3>1, <3>2
  <2>2. Len(unit'.points) = Len(booted'.points)
    BY <1>1, <1>5, <1>6 DEF CurveInv, UnitInv
  <2> QED BY <1>1, <1>6, <2>1, <2>2 DEF CurveInv, UnitInv, LegacyAtGoal, GoalMode, GoalOffset,
          GoalTarget, RatiosAtGoal, RatioAsked, flags, given, rvars
<1>11. WriterInv'
  <2>1. \A k \in Kinds : RatioAsked(k)' /\ ratios'[k].writable => RatiosAtGoal(k)'
    BY <1>1 DEF CurveInv, WriterInv, Writing, RatioAsked, RatiosAtGoal, given, rvars
  <2>2. FlagDue' => unit'.bit31
    <3>1. FlagDue' <=> FlagDue
      BY <1>1 DEF FlagDue, given
    <3> QED BY <1>1, <1>6, <3>1 DEF CurveInv, WriterInv
  <2>3. programVf' => LegacyAtGoal'
    BY <1>1, <1>6 DEF CurveInv, WriterInv, LegacyAtGoal, GoalMode, GoalOffset, GoalTarget, flags, given
  <2>4. index' <= PointsToWrite'
    <3>1. PointsToWrite' = PointsToWrite
      BY <1>1 DEF PointsToWrite, flags, given
    <3> QED BY <1>1, <1>2, <3>1
  <2>5. \A i \in 1 .. index' : PointAtGoal(i)'
    <3> SUFFICES ASSUME NEW i \in 1 .. index + 1 PROVE PointAtGoal(i)'
      BY <1>1
    <3>1. i \in DOMAIN unit.points
      <4>1. DOMAIN unit.points = 1 .. Len(unit.points) /\ Len(unit.points) \in Nat
        BY <1>2, UnitFields
      <4> QED BY <1>2, <1>3, <4>1
    <3>2. i # index + 1 => PointAtGoal(i)
      <4>1. i # index + 1 => i \in 1 .. index
        BY <1>2
      <4> QED BY <1>1, <4>1 DEF CurveInv, WriterInv
    <3> QED BY <1>8, <3>1, <3>2
  <2>6. stage' \notin Through
    BY <1>1 DEF Through, Rereading
  <2> QED BY <1>1, <2>1, <2>2, <2>3, <2>4, <2>5, <2>6 DEF WriterInv
<1>12. FlagGoesWithMaximum'
  BY <1>1, <1>6 DEF CurveInv, FlagGoesWithMaximum
<1> QED BY <1>9, <1>10, <1>11, <1>12 DEF CurveInv

LEMMA WriterDoneStep ==
  ASSUME CurveInv, WriterDone
  PROVE  CurveInv'
<1>1. /\ stage = "pointWrite" /\ stage \in Writing /\ stage' \in {"ratioWrite", "ocLock"}
      /\ stage' \in Writing \cup {"aborted"} /\ index = PointsToWrite
      /\ writers' = writers + 1 /\ index' = 0
      /\ UNCHANGED <<unit, locked, given, dom, flags, status, booted, wanted>>
  BY DEF WriterDone, NextWriter, Writing
<1>2. TypeOK' /\ ProbeInv' /\ TableIsWhole' /\ RecordInv'
  <2>1. /\ unit' \in Units /\ ratios' \in [Kinds -> Ratios] /\ index' \in 0 .. MAX_VF_POINTS
        /\ writers' \in Nat /\ Len(unit'.points) = Len(unit.points)
    BY <1>1, RecordFields DEF given, rvars
  <2> QED BY <1>1, <2>1, WriteFrame DEF given, rvars
<1>3. UnitInv'
  BY <1>1, UnitFrame DEF CurveInv, given, rvars
<1>4. WriterInv'
  <2>1. \A k \in Kinds : RatioAsked(k)' /\ ratios'[k].writable => RatiosAtGoal(k)'
    BY <1>1 DEF CurveInv, WriterInv, Writing, RatioAsked, RatiosAtGoal, given, rvars
  <2>2. FlagDue' => unit'.bit31
    <3>1. FlagDue' <=> FlagDue
      BY <1>1 DEF FlagDue, given
    <3> QED BY <1>1, <3>1 DEF CurveInv, WriterInv
  <2>3. programVf' => LegacyAtGoal'
    BY <1>1 DEF CurveInv, WriterInv, LegacyAtGoal, GoalMode, GoalOffset, GoalTarget, flags, given
  <2>4. programPoints' => \A i \in 1 .. TableLength' : PointAtGoal(i)'
    <3>1. TableLength' = TableLength /\ \A i : PointAtGoal(i) => PointAtGoal(i)'
      BY <1>1 DEF TableLength, PointAtGoal, GoalPoint, given
    <3>2. \A i \in 1 .. index : PointAtGoal(i)
      BY <1>1 DEF CurveInv, WriterInv
    <3>3. programPoints => index = TableLength
      <4>1. CASE model.exposed
        BY <1>1, <4>1, RecordFields DEF PointsToWrite
      <4>2. CASE ~model.exposed
        BY <1>1, <4>2 DEF PointsToWrite, TableLength
      <4> QED BY <4>1, <4>2
    <3> QED BY <1>1, <3>1, <3>2, <3>3 DEF flags
  <2> QED BY <1>1, <2>1, <2>2, <2>3, <2>4 DEF WriterInv
<1>5. FlagGoesWithMaximum'
  BY <1>1 DEF CurveInv, FlagGoesWithMaximum
<1> QED BY <1>2, <1>3, <1>4, <1>5 DEF CurveInv

LEMMA CurveStep ==
  ASSUME CurveInv, [Next]_vars
  PROVE  CurveInv'
<1>1. CASE ReadIcc
  BY <1>1, ReadIccStep
<1>2. CASE ReadLegacy
  BY <1>2, ReadLegacyStep
<1>3. CASE ReadPoint
  BY <1>3, ReadPointStep
<1>4. CASE PointRejected
  BY <1>4, PointRejectedStep
<1>5. CASE ReadFails
  BY <1>5, ReadFailsStep
<1>6. CASE Edit
  BY <1>6, EditStep
<1>7. CASE ProgramRatios
  BY <1>7, ProgramRatiosStep
<1>8. CASE WriteIcc
  BY <1>8, WriteIccStep
<1>9. CASE WriteFlag
  BY <1>9, WriteFlagStep
<1>10. CASE WriteLegacy
  BY <1>10, WriteLegacyStep
<1>11. CASE WritePoint
  BY <1>11, WritePointStep
<1>12. CASE WriterDone
  BY <1>12, WriterDoneStep
<1>13. CASE WriteFails
  BY <1>13, WriteFailsStep
<1>14. CASE OcLock
  BY <1>14, OcLockStep
<1>15. CASE UNCHANGED vars
  <2>1. /\ UNCHANGED <<unit, locked, given, dom, flags, stage, index, status, writers, booted, wanted>>
    BY <1>15 DEF vars
  <2>2. UnitInv'
    BY <2>1, UnitFrame DEF CurveInv, given, rvars
  <2>3. TypeOK'
    BY <2>1 DEF CurveInv, TypeOK, given, rvars
  <2>4. ProbeInv' /\ TableIsWhole'
    BY <2>1 DEF CurveInv, ProbeInv, TableIsWhole, TableLength, ProgramsDomain, given, rvars, flags
  <2>5. RecordInv'
    BY <2>1 DEF CurveInv, RecordInv, TableLength, GoalMode, GoalOffset, GoalTarget, GoalPoint,
       given, rvars, flags
  <2>6. WriterInv'
    BY <2>1 DEF CurveInv, WriterInv, WritesIcc, WritesFlag, PointsToWrite, TableLength, FlagDue,
       RatioAsked, RatiosAtGoal, LegacyAtGoal, PointAtGoal, GoalMode, GoalOffset, GoalTarget,
       GoalPoint, given, rvars, flags
  <2>7. FlagGoesWithMaximum'
    BY <2>1 DEF CurveInv, FlagGoesWithMaximum, FlagDue, given, rvars
  <2> QED BY <2>2, <2>3, <2>4, <2>5, <2>6, <2>7 DEF CurveInv
<1> QED BY <1>1, <1>2, <1>3, <1>4, <1>5, <1>6, <1>7, <1>8, <1>9, <1>10, <1>11, <1>12, <1>13,
           <1>14, <1>15 DEF Next

-----------------------------------------------------------------------------
(* The invariant: types, the flag of IccMax, and how far each step of the  *)
(* probe and of the programming has come.                                  *)
THEOREM CurveInvariant == Spec => []CurveInv
<1>1. Init => CurveInv
  BY CurveInit
<1>2. CurveInv /\ [Next]_vars => CurveInv'
  BY CurveStep
<1> QED BY <1>1, <1>2, PTL DEF Spec

(* A probe that succeeds has found the whole table: an error that is taken *)
(* for its end (src/src/VfCurve.c) always is one.                          *)
THEOREM ProbeFindsTheTable == Spec => []TableIsWhole
<1>1. CurveInv => TableIsWhole
  BY DEF CurveInv
<1> QED BY <1>1, CurveInvariant, PTL

(* The fields of the points of a unit.                                     *)
LEMMA WholePoints ==
  ASSUME CurveInv
  PROVE  /\ \A i \in DOMAIN unit.points : booted.points[i] \in RawOffsets
         /\ unit.points \in Seq(RawOffsets) /\ booted.points \in Seq(RawOffsets)
         /\ DOMAIN unit.points = DOMAIN booted.points
         /\ DOMAIN unit.points = 1 .. Len(unit.points) /\ Len(unit.points) \in Nat
<1>1. unit \in Units /\ booted \in Units /\ Len(unit.points) = Len(booted.points)
  BY DEF CurveInv, TypeOK, UnitInv
<1> QED BY <1>1, UnitFields

(* A point that goes back unnamed is where it was, or one code from there. *)
LEMMA PointWrittenBack ==
  ASSUME CurveInv, NEW i \in DOMAIN unit.points \ DOMAIN wanted,
         Signed(booted.points[i]) \in OffsetCodes
  PROVE  Distance(Signed(unit.points[i]), Signed(booted.points[i])) <= 1
<1>1. PICK raw \in RawOffsets : raw = booted.points[i]
  BY WholePoints
<1>2. Signed(raw) \in OffsetCodes /\ Signed(raw) \in Int
  BY <1>1 DEF RawOffsets, Signed
<1>3. unit.points[i] = raw \/ unit.points[i] = OffsetToFix(OffsetToMv(raw))
  BY <1>1 DEF CurveInv, UnitInv, PointAtGoal, GoalPoint
<1>4. Distance(Signed(raw), Signed(raw)) <= 1
  BY <1>2 DEF Distance
<1>5. Distance(Signed(OffsetToFix(OffsetToMv(raw))), Signed(raw)) <= 1
  BY <1>2, OffsetRoundTrip
<1> QED BY <1>1, <1>3, <1>4, <1>5

(* Each V/F point that was named has its offset, at its own index, and the *)
(* others are where they were (IAPERF_ProgramDomainVF).                    *)
THEOREM PointsReachTheirIndex == Spec => []PointsAsWanted
<1>1. CurveInv => PointsAsWanted
  <2> SUFFICES ASSUME CurveInv, stage = "done", programPoints PROVE PointsAsWanted
    BY DEF PointsAsWanted
  <2>1. ASSUME NEW i \in DOMAIN wanted
        PROVE  /\ unit.points[i] = OffsetToFix(wanted[i])
               /\ dom.points[i] = OffsetToMv(unit.points[i])
    <3>1. i \in 1 .. TableLength
      BY DEF CurveInv, RecordInv
    <3>2. PointAtGoal(i)
      BY <3>1 DEF CurveInv, WriterInv, Through
    <3>3. dom.points[i] = OffsetToMv(unit.points[i])
      BY <3>1 DEF CurveInv, TableIsWhole
    <3> QED BY <3>2, <3>3 DEF PointAtGoal, GoalPoint
  <2> QED BY <2>1, PointWrittenBack DEF PointsAsWanted
<1> QED BY <1>1, CurveInvariant, PTL

(* After success an offset and the ratios that were asked for are in       *)
(* force, a target is in its field, and no other key changes the mode.     *)
THEOREM AskedReachesTheUnit == Spec => []AskedIsWritten
<1>1. CurveInv => AskedIsWritten
  <2> SUFFICES ASSUME CurveInv, stage = "done" PROVE AskedIsWritten
    BY DEF AskedIsWritten
  <2>1. stage \in Through /\ stage \in (Writing \ {"ratioWrite"}) \cup Through
    BY DEF Through
  <2>2. policy.offset # {} \/ policy.target # {} => LegacyAtGoal
    BY <2>1 DEF CurveInv, RecordInv, WriterInv
  <2>3. ASSUME NEW mv \in policy.offset
        PROVE  unit.mode = 0 /\ Encodes(Signed(unit.offset), mv)
    <3>1. GoalMode = 0 /\ GoalOffset = mv /\ mv \in Offsets
      <4>1. policy.offset # {}
        BY <2>3
      <4>2. GoalMode = 0
        BY <4>1 DEF GoalMode
      <4>3. GoalOffset = mv /\ mv \in Offsets
        BY PolicyFields, ValueOfKey DEF CurveInv, GoalOffset
      <4> QED BY <4>2, <4>3
    <3>2. Encodes(Signed(OffsetToFix(mv)), mv)
      BY <3>1, OffsetEncoder
    <3> QED BY <2>2, <3>1, <3>2 DEF LegacyAtGoal
  <2>4. ASSUME NEW mv \in policy.target \ {0, 250}
        PROVE  Encodes(unit.target, mv)
    <3>1. GoalTarget = mv /\ mv \in Targets
      BY PolicyFields, ValueOfKey DEF CurveInv, GoalTarget
    <3>2. Encodes(TargetToFix(mv), mv)
      BY <3>1, TargetEncoder
    <3>3. unit.target = TargetToFix(mv)
      BY <2>2, <3>1 DEF LegacyAtGoal
    <3> QED BY <3>2, <3>3
  <2>5. ASSUME NEW k \in Kinds, RatioAsked(k), ratios[k].writable,
               NEW i \in DOMAIN bootRatios[k].slots
        PROVE  ratios[k].slots[i] = LET old == bootRatios[k].slots[i]
                                    IN  IF old \in 1 .. 254 THEN policy.ratio[k] ELSE old
    <3>1. bootRatios[k] \in Ratios
      BY DEF CurveInv, TypeOK
    <3>2. PICK b \in Seq(Slots) : b = bootRatios[k].slots
      BY <3>1 DEF Ratios
    <3>3. b[i] \in Slots /\ i \in DOMAIN b
      BY <3>2, SeqElements
    <3>4. ratios[k].slots = Filled(b, policy.ratio[k])
      BY <2>1, <2>5, <3>2 DEF CurveInv, WriterInv, RatiosAtGoal
    <3>5. Filled(b, policy.ratio[k])[i]
            = IF b[i] \in {0, 255} THEN b[i] ELSE policy.ratio[k]
      BY <3>3 DEF Filled
    <3>6. b[i] \in {0, 255} <=> b[i] \notin 1 .. 254
      <4>1. PICK x \in 0 .. 255 : x = b[i]
        BY <3>3 DEF Slots
      <4>2. x \in {0, 255} <=> x \notin 1 .. 254
        OBVIOUS
      <4> QED BY <4>1, <4>2
    <3>7. CASE b[i] \in 1 .. 254
      BY <3>2, <3>4, <3>5, <3>6, <3>7
    <3>8. CASE b[i] \notin 1 .. 254
      BY <3>2, <3>4, <3>5, <3>6, <3>8
    <3> QED BY <3>7, <3>8
  <2>6. policy.offset = {} => unit.mode = booted.mode
    BY DEF CurveInv, UnitInv, LegacyAtGoal, GoalMode
  <2> QED BY <2>3, <2>4, <2>5, <2>6 DEF AskedIsWritten
<1> QED BY <1>1, CurveInvariant, PTL

(* Wherever the program stops, what was not asked for is as the firmware   *)
(* left it, or one code from there where it had to be written back.        *)
THEOREM UnaskedIsLeftAlone == Spec => []UntouchedStays
<1>1. CurveInv => UntouchedStays
  <2> SUFFICES ASSUME CurveInv PROVE UntouchedStays
    OBVIOUS
  <2>1. \A k \in Kinds : RatioAsked(k) \/ ratios[k] = bootRatios[k]
    BY DEF CurveInv, UnitInv
  <2>2. policy.icc \in {{}, {0}} => unit.icc = booted.icc /\ unit.bit31 = booted.bit31
    BY DEF CurveInv, UnitInv, RecordInv
  <2>3. ASSUME policy.vfKey \notin {{}, {1}}
        PROVE  unit.points = booted.points
    <3>1. ~programPoints
      BY <2>3 DEF CurveInv, RecordInv
    <3>2. \A i \in DOMAIN unit.points : unit.points[i] = booted.points[i]
      BY <3>1 DEF CurveInv, UnitInv
    <3>3. PICK p \in Seq(RawOffsets), q \in Seq(RawOffsets) : p = unit.points /\ q = booted.points
      BY WholePoints
    <3>4. Len(p) = Len(q) /\ \A i \in 1 .. Len(p) : p[i] = q[i]
      BY <3>2, <3>3 DEF CurveInv, UnitInv
    <3> QED BY <3>3, <3>4, SeqEqual
  <2>4. policy.offset = {} /\ policy.target = {} =>
          <<unit.mode, unit.target, unit.offset>> = <<booted.mode, booted.target, booted.offset>>
    BY DEF CurveInv, UnitInv, RecordInv
  <2>5. ASSUME policy.offset = {}, Signed(booted.offset) \in OffsetCodes
        PROVE  Distance(Signed(unit.offset), Signed(booted.offset)) <= 1
    <3>1. PICK raw \in RawOffsets : raw = booted.offset
      BY UnitFields DEF CurveInv, TypeOK
    <3>2. Signed(raw) \in OffsetCodes /\ Signed(raw) \in Int
      <4>1. Signed(raw) \in OffsetCodes
        BY <2>5, <3>1
      <4> QED BY <4>1 DEF OffsetCodes
    <3>3. GoalOffset = OffsetToMv(raw)
      BY <2>5, <3>1 DEF GoalOffset, Value
    <3>4. unit.offset = raw \/ unit.offset = OffsetToFix(OffsetToMv(raw))
      BY <3>1, <3>3 DEF CurveInv, UnitInv, LegacyAtGoal
    <3>5. Distance(Signed(raw), Signed(raw)) <= 1
      BY <3>2 DEF Distance
    <3> QED BY <3>1, <3>2, <3>4, <3>5, OffsetRoundTrip
  <2>6. ASSUME policy.target = {}, booted.target \in TargetCodes
        PROVE  Distance(unit.target, booted.target) <= 1
    <3>1. PICK raw \in TargetCodes : raw = booted.target
      BY <2>6
    <3>2. GoalTarget = TargetToMv(raw)
      BY <2>6, <3>1 DEF GoalTarget, Value
    <3>3. unit.target = raw \/ unit.target = TargetToFix(TargetToMv(raw))
      BY <3>1, <3>2 DEF CurveInv, UnitInv, LegacyAtGoal
    <3>4. Distance(raw, raw) <= 1
      BY DEF Distance, TargetCodes
    <3> QED BY <3>1, <3>3, <3>4, TargetRoundTrip
  <2> QED BY <2>1, <2>2, <2>3, <2>4, <2>5, <2>6 DEF UntouchedStays
<1> QED BY <1>1, CurveInvariant, PTL

-----------------------------------------------------------------------------
(* The exchange with the power control unit.                               *)
USE MailboxAssumption DEF Calls, NoJob

(* What the words are, and that moving data are not an answer.             *)
LEMMA WordFacts ==
  /\ \A w \in Moving \cup Answers : w \in Words
  /\ \A c \in Calls : <<"request", c>> \in Words
  /\ \A c \in Calls, v \in {"accepted", "rejected"} :
       <<v, c>> \in Answers /\ <<v, c>>[1] = v /\ <<v, c>>[2] = c
  /\ \A w \in Answers : /\ w[1] \in {"accepted", "rejected"} /\ w[2] \in Calls
                        /\ w = <<w[1], w[2]>>
  /\ <<"moving", 0>> \in Moving
  /\ Moving \cap Answers = {}
<1>1. /\ \A c \in Calls : <<"request", c>> \in Words
      /\ <<"moving", 0>> \in Moving
      /\ \A w \in Moving \cup Answers : w \in Words
  BY DEF Words, Moving, Answers
<1>2. \A c \in Calls, v \in {"accepted", "rejected"} :
        <<v, c>> \in Answers /\ <<v, c>>[1] = v /\ <<v, c>>[2] = c
  BY DEF Answers
<1>3. \A w \in Answers : /\ w[1] \in {"accepted", "rejected"} /\ w[2] \in Calls
                         /\ w = <<w[1], w[2]>>
  BY DEF Answers
<1>4. \A w \in Moving : w[1] = "moving"
  BY DEF Moving
<1>5. QED
  BY <1>1, <1>2, <1>3, <1>4

(* A register or a body is the pair of its fields.                         *)
LEMMA BodyFacts ==
  /\ \A b \in {0, 1}, w \in Words : [busy |-> b, word |-> w] \in Bodies
  /\ \A x \in Bodies : x.busy \in {0, 1} /\ x.word \in Words
                       /\ x = [busy |-> x.busy, word |-> x.word]
BY DEF Bodies

LEMMA MailboxInit == MailInit => MailboxInv
<1> SUFFICES ASSUME MailInit PROVE MailboxInv
  OBVIOUS
<1> USE DEF MailInit
<1>1. MailTypeOK
  <2>1. 0 \in Calls /\ 0 \in 0 .. MaxRetries - 1 /\ 0 \in 0 .. MaxSpins - 1
    OBVIOUS
  <2>2. executed \in Answers
    BY <2>1, WordFacts
  <2>3. reg \in Bodies /\ body \in Bodies /\ result \in Bodies
    <3>1. /\ <<"request", 0>> \in Words /\ <<"accepted", 0>> \in Words
          /\ <<"moving", 0>> \in Words
      BY <2>1, WordFacts
    <3>2. /\ [busy |-> 1, word |-> <<"request", 0>>] \in Bodies
          /\ [busy |-> 0, word |-> <<"accepted", 0>>] \in Bodies
          /\ Zero \in Bodies
      BY <3>1 DEF Bodies, Zero
    <3>3. QED
      BY <3>2
  <2>4. QED
    BY <2>1, <2>2, <2>3 DEF MailTypeOK
<1>2. ExchangeInv /\ AnswerIsOurs /\ StatusIsVerdict
  BY WordFacts, BodyFacts DEF ExchangeInv, NoOverrun, AnswerIsOurs, StatusIsVerdict, Returned
<1>3. QED
  BY <1>1, <1>2 DEF MailboxInv

(* One round of a busy wait keeps its variables in their types.            *)
LEMMA BusyWaitType ==
  ASSUME MailTypeOK, NEW next \in {"send", "stall"}, pc \in {"waitIdle", "waitAnswer"},
         BusyWait(next)
  PROVE  /\ body' \in Bodies /\ pc' \in {"idle", "waitIdle", "send", "waitAnswer", "stall"}
         /\ attempt' \in 0 .. MaxRetries - 1 /\ spins' \in 0 .. MaxSpins - 1
         /\ ret' \in {"none", "SUCCESS", "DEVICE_ERROR", "TIMEOUT"}
         /\ body' = reg
         /\ \/ reg.busy = 0 /\ pc' = next /\ ret' = ret
            \/ reg.busy = 1 /\ pc' = pc /\ ret' = ret
            \/ reg.busy = 1 /\ pc' = "idle" /\ ret' = "TIMEOUT"
<1>1. /\ body' = reg
      /\ \/ reg.busy = 0 /\ pc' = next /\ ret' = ret
         \/ reg.busy = 1 /\ pc' = pc /\ ret' = ret
         \/ reg.busy = 1 /\ pc' = "idle" /\ ret' = "TIMEOUT"
  BY BodyFacts DEF MailTypeOK, BusyWait, Return
<1>2. attempt' \in 0 .. MaxRetries - 1 /\ spins' \in 0 .. MaxSpins - 1
  BY DEF MailTypeOK, BusyWait, Return
<1>3. QED
  BY <1>1, <1>2 DEF MailTypeOK

LEMMA MailboxStep == ASSUME MailboxInv, [MailNext]_mailVars PROVE MailboxInv'
<1> USE DEF MailboxInv, MailTypeOK, ExchangeInv, NoOverrun, AnswerIsOurs, StatusIsVerdict, Returned
<1>1. CASE Execute
  <2> USE <1>1 DEF Execute
  <2>1. PICK v \in {"accepted", "rejected"} :
          /\ executed' = <<v, job>>
          /\ \/ reg' = [busy |-> 0, word |-> <<v, job>>] /\ job' = NoJob
             \/ reg' = [busy |-> 0, word |-> <<"moving", 0>>] /\ job' = job
    OBVIOUS
  <2>2. /\ <<v, job>> \in Answers /\ <<v, job>>[2] = job /\ <<v, job>> \in Words
        /\ <<"moving", 0>> \in Words /\ <<"moving", 0>> \in Moving
    BY WordFacts
  <2>3. /\ [busy |-> 0, word |-> <<v, job>>] \in Bodies
        /\ [busy |-> 0, word |-> <<"moving", 0>>] \in Bodies
    BY <2>2 DEF Bodies
  <2>4. /\ executed' \in Answers /\ executed'[2] = job
        /\ reg' \in Bodies /\ reg'.busy = 0
        /\ job' = NoJob => reg'.word = executed'
        /\ job' # NoJob => reg'.word \in Moving /\ job' = job
    <3>1. CASE reg' = [busy |-> 0, word |-> <<v, job>>] /\ job' = NoJob
      BY <2>1, <2>2, <2>3, <3>1
    <3>2. CASE reg' = [busy |-> 0, word |-> <<"moving", 0>>] /\ job' = job
      BY <2>1, <2>2, <2>3, <3>2
    <3>3. QED
      BY <2>1, <3>1, <3>2
  <2>5. job' \in Calls \cup {NoJob}
    BY <2>1
  <2>6. QED
    BY <2>4, <2>5
<1>2. CASE SettleAlone
  BY <1>2, WordFacts, BodyFacts DEF SettleAlone, Settle
<1>3. CASE Call
  BY <1>3 DEF Call, controlUnit
<1>4. CASE WaitIdle
  BY <1>4, BusyWaitType DEF WaitIdle, controlUnit
<1>5. CASE Send
  BY <1>5, WordFacts, BodyFacts DEF Send
<1>6. CASE WaitAnswer
  BY <1>6, BusyWaitType DEF WaitAnswer, controlUnit
<1>7. CASE Confirm
  BY <1>7, WordFacts, BodyFacts DEF Confirm, Settle, Return, Status, controlUnit
<1>8. CASE UNCHANGED mailVars
  BY <1>8 DEF mailVars, controlUnit
<1>9. QED
  BY <1>1, <1>2, <1>3, <1>4, <1>5, <1>6, <1>7, <1>8 DEF MailNext, Driver

(* The inductive invariant holds in every reachable state.                 *)
THEOREM MailboxInvariant == MailSpec => []MailboxInv
BY MailboxInit, MailboxStep, PTL DEF MailSpec

(* A successful call returns the unit's settled answer to that very call,  *)
(* however many earlier calls timed out (CpuMailbox_MsrReadWrite).         *)
THEOREM MailboxAnswer == MailSpec => []AnswerIsOurs
BY MailboxInvariant, PTL DEF MailboxInv

(* A nonzero b->status is the unit's verdict on this call.                 *)
THEOREM MailboxStatus == MailSpec => []StatusIsVerdict
BY MailboxInvariant, PTL DEF MailboxInv

(* No request is written over one that is still executing.                 *)
THEOREM MailboxNoOverrun == MailSpec => []NoOverrun
<1>1. MailboxInv => NoOverrun
  BY DEF MailboxInv, ExchangeInv
<1>2. QED
  BY <1>1, MailboxInvariant, PTL

=============================================================================
