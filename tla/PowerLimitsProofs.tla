------------------------- MODULE PowerLimitsProofs -------------------------
(***************************************************************************)
(* What the proof system checks about PowerLimits, for every number of     *)
(* processors, every table of windows that is sorted, and whatever         *)
(* registers, firmware facts and profile the program starts with: the      *)
(* invariant PowerInv, and from it LimitsInForce and LocksAsAsked.         *)
(***************************************************************************)
EXTENDS PowerLimits, NaturalsInduction, WellFoundedInduction, TLAPS

-----------------------------------------------------------------------------
(* Least and greatest elements.                                            *)

LEMMA LeastElement ==
  ASSUME NEW S \in SUBSET Nat, S # {}
  PROVE  /\ Min(S) \in S
         /\ \A y \in S : Min(S) <= y
<1>1. PICK x \in S : \A y \in S : x <= y
  <2>1. IsWellFoundedOn(OpToRel(<, Nat), Nat)
    BY NatLessThanWellFounded
  <2>2. \E x \in S : \A y \in S : ~ (<<y, x>> \in OpToRel(<, Nat))
    BY <2>1, WFMin, Zenon
  <2>3. PICK x \in S : \A y \in S : ~ (<<y, x>> \in OpToRel(<, Nat))
    BY <2>2
  <2>4. \A y \in S : <<y, x>> \in Nat \X Nat
    BY SMT
  <2>5. \A y \in S : ~ (y < x)
    BY <2>3, <2>4, Zenon DEF OpToRel
  <2>6. \A y \in S : x <= y
    BY <2>5, SMT
  <2> QED  BY <2>6
<1>2. \E m \in S : \A y \in S : m <= y
  BY <1>1
<1> QED  BY <1>2 DEF Min

LEMMA GreatestIs ==
  ASSUME NEW S \in SUBSET Nat, NEW m \in S, \A y \in S : y <= m
  PROVE  Max(S) = m
<1>1. \A x \in S : (\A y \in S : y <= x) => x = m
  BY SMT
<1>2. Max(S) \in S /\ \A y \in S : y <= Max(S)
  BY DEF Max
<1> QED  BY <1>1, <1>2

-----------------------------------------------------------------------------
(* The order of the stages.                                                *)

LEMMA OrderIsOneToOne ==
  ASSUME NEW i \in DOMAIN Order, NEW j \in DOMAIN Order, Order[i] = Order[j]
  PROVE  i = j
BY DEF Order

LEMMA OrderDomain == DOMAIN Order = 1 .. 11
BY DEF Order

(* The stage after one that is not the last is due, and those passed over  *)
(* are not.                                                                *)
LEMMA AfterIsNextDue ==
  ASSUME NEW i \in 1 .. 10
  PROVE  \E j \in 1 .. 11 :
           /\ i < j /\ After(Order[i]) = Order[j] /\ Due(Order[j])
           /\ \A k \in 1 .. 11 : i < k /\ k < j => ~ Due(Order[k])
<1> DEFINE Ahead == {j \in Later(Order[i]) : Due(Order[j])}
<1>1. Later(Order[i]) = i + 1 .. 11
  <2>1. \A j \in 1 .. 11 : \A k \in 1 .. j - 1 : Order[k] = Order[i] => k = i
    BY OrderIsOneToOne, OrderDomain
  <2> QED  BY <2>1, OrderDomain DEF Later
<1>2. 11 \in Ahead
  BY <1>1 DEF Due, Order, Registers
<1>3. Ahead \in SUBSET Nat
  BY <1>1
<1>4. Min(Ahead) \in Ahead /\ \A y \in Ahead : Min(Ahead) <= y
  <2> HIDE DEF Ahead
  <2> QED  BY <1>2, <1>3, LeastElement
<1>5. PICK j \in Ahead : j = Min(Ahead)
  BY <1>4
<1>6. After(Order[i]) = Order[j]
  BY <1>5 DEF After
<1>7. j \in 1 .. 11 /\ i < j /\ Due(Order[j])
  BY <1>1
<1>8. \A k \in 1 .. 11 : i < k /\ k < j => ~ Due(Order[k])
  <2> SUFFICES ASSUME NEW k \in 1 .. 11, i < k, k < j, Due(Order[k])  PROVE FALSE
    OBVIOUS
  <2>1. k \in Ahead
    BY <1>1
  <2> QED  BY <2>1, <1>4, <1>5, <1>7
<1> QED  BY <1>6, <1>7, <1>8

-----------------------------------------------------------------------------
(* The encodings.                                                          *)

LEMMA QuotientsAreSorted ==
  ASSUME NEW a \in Nat, NEW b \in Nat, NEW d \in Nat \ {0}, a <= b
  PROVE  a \div d \in Nat /\ a \div d <= b \div d
OBVIOUS

LEMMA FactsType ==
  ASSUME facts \in Facts
  PROVE  /\ facts.min \in 0 .. PowerMask /\ facts.max \in 0 .. PowerMask
         /\ facts.powerUnits \in Nat \ {0} /\ facts.timeUnits \in Nat \ {0}
         /\ facts.mchbar \in BOOLEAN
         /\ facts.max = 0 \/ facts.min <= facts.max
BY DEF Facts

LEMMA DurationsAreSorted ==
  ASSUME facts \in Facts
  PROVE  /\ \A w \in Windows : Duration(w) \in Nat
         /\ \A v, w \in Windows : v <= w => Duration(v) <= Duration(w)
<1>1. facts.timeUnits \in Nat \ {0}
  BY FactsType
<1>2. \A w \in Windows : Taus[w] \in Nat
  BY PowerAssumption
<1>3. \A v, w \in Windows : v <= w => Taus[v] <= Taus[w]
  BY PowerAssumption
<1>4. PICK d \in Nat \ {0} : d = facts.timeUnits
  BY <1>1
<1>5. \A w \in Windows : Taus[w] \div d \in Nat
  BY <1>2, QuotientsAreSorted
<1>6. ASSUME NEW v \in Windows, NEW w \in Windows, v <= w
      PROVE  Taus[v] \div d <= Taus[w] \div d
  <2>1. PICK a \in Nat, b \in Nat : a = Taus[v] /\ b = Taus[w]
    BY <1>2
  <2>2. a <= b
    BY <2>1, <1>3, <1>6
  <2>3. a \div d <= b \div d
    BY <2>2, QuotientsAreSorted
  <2> QED  BY <2>1, <2>3
<1> QED  BY <1>4, <1>5, <1>6 DEF Duration

LEMMA LongestWindow == 4 * MaxY + 3 \in Windows /\ Windows \subseteq 0 .. 4 * MaxY + 3
BY PowerAssumption DEF Windows

Shortest(w, t) ==
  IF t = MAX_POWAH
    THEN w = 4 * MaxY + 3
    ELSE Duration(w) >= t /\ \A v \in Windows : Duration(v) >= t => Duration(v) >= Duration(w)

(* A window that FindTauConsts finds is the shortest that will do.         *)
LEMMA WindowIsShortest ==
  ASSUME facts \in Facts, NEW t \in 0 .. MAX_POWAH, Encodable(t)
  PROVE  Window(t) \in Windows /\ Shortest(Window(t), t)
<1>1. CASE t = MAX_POWAH
  BY <1>1, LongestWindow DEF Window, Shortest
<1>2. CASE t # MAX_POWAH
  <2>1. LongEnough(t) # {} /\ LongEnough(t) \in SUBSET Nat
    BY <1>2 DEF Encodable, LongEnough, Windows
  <2>2. PICK w : w = Window(t) /\ w \in LongEnough(t) /\ \A v \in LongEnough(t) : w <= v
    BY <1>2, <2>1, LeastElement DEF Window
  <2>3. w \in Windows /\ Duration(w) >= t
    BY <2>2 DEF LongEnough
  <2>4. ASSUME NEW v \in Windows, Duration(v) >= t
        PROVE  Duration(v) >= Duration(w)
    <3>1. w <= v
      BY <2>2, <2>4 DEF LongEnough
    <3>2. Duration(w) <= Duration(v)
      BY <3>1, <2>3, DurationsAreSorted
    <3>3. Duration(w) \in Nat /\ Duration(v) \in Nat
      BY <2>3, DurationsAreSorted
    <3> QED  BY <3>2, <3>3
  <2> QED  BY <1>2, <2>2, <2>3, <2>4 DEF Shortest
<1> QED  BY <1>1, <1>2

LEMMA WindowReachesItsField ==
  ASSUME facts \in Facts, NEW t \in 0 .. MAX_POWAH, Encodable(t), NEW r
  PROVE  /\ HoldsWindow(r, Field(Window(t)), t)
         /\ Field(Window(t)) \in {Field(w) : w \in Windows}
<1>1. PICK w \in Windows : w = Window(t) /\ Shortest(w, t)
  BY WindowIsShortest
<1>2. t # MAX_POWAH =>
        /\ Duration(w) >= t
        /\ \A v \in Windows : Duration(v) >= t => Duration(v) >= Duration(w)
  BY <1>1 DEF Shortest
<1>3. t = MAX_POWAH => w = 4 * MaxY + 3
  BY <1>1 DEF Shortest
<1> QED  BY <1>1, <1>2, <1>3 DEF HoldsWindow

(* A window has an encoding if it is no longer than the longest.           *)
LEMMA EncodableUpToTheLongest ==
  ASSUME facts \in Facts, NEW t \in 0 .. MAX_POWAH
  PROVE  Encodable(t) <=> t \in 0 .. Duration(4 * MaxY + 3) \cup {MAX_POWAH}
<1>1. PICK n \in Windows : n = 4 * MaxY + 3
  BY LongestWindow
<1>2. Duration(n) \in Nat /\ \A v \in Windows : Duration(v) \in Nat /\ Duration(v) <= Duration(n)
  <2>1. \A v \in Windows : v <= n
    BY <1>1, LongestWindow, PowerAssumption
  <2> QED  BY <2>1, DurationsAreSorted
<1>3. LongEnough(t) # {} => t <= Duration(n)
  BY <1>2, PowerAssumption DEF LongEnough
<1>4. t <= Duration(n) => n \in LongEnough(t)
  BY <1>2, PowerAssumption DEF LongEnough
<1>5. Encodable(t) <=> t = MAX_POWAH \/ t <= Duration(n)
  BY <1>3, <1>4 DEF Encodable
<1> QED  BY <1>1, <1>2, <1>5, PowerAssumption

LEMMA LowerIs ==
  ASSUME NEW a \in Nat, NEW b \in Nat
  PROVE  Lower(a, b) \in Nat /\ Lower(a, b) <= a /\ Lower(a, b) <= b
BY DEF Lower

(* What the field of a power gets is the largest power within the request. *)
LEMMA PowerIsRequested ==
  ASSUME facts \in Facts, NEW mw \in 0 .. MAX_POWAH
  PROVE  /\ Power(mw) \in Nat
         /\ Requested(mw) = Lower(Power(mw), PowerMask)
         /\ Requested(mw) \in 0 .. PowerMask
<1>1. PowerMask \in Nat /\ MAX_POWAH \in Nat /\ PowerMask < MAX_POWAH
  BY PowerAssumption
<1>2. CASE mw = MAX_POWAH
  BY <1>1, <1>2 DEF Power, Requested, Lower
<1>3. CASE mw # MAX_POWAH
  <2> DEFINE Within1000(x) == {p \in 0 .. PowerMask : p * 1000 <= x}
  <2>1. PICK units \in Nat : units = facts.powerUnits
    BY FactsType
  <2>2. PICK x \in Nat : x = mw * units
    BY <1>1
  <2>3. PICK m \in 0 .. PowerMask : m = Lower(x \div 1000, PowerMask)
    BY <1>1 DEF Lower
  <2>4. Power(mw) = m
    BY <1>3, <2>1, <2>2, <2>3 DEF Power
  <2>5. m \in Within1000(x) /\ \A y \in Within1000(x) : y <= m
    BY <1>1, <2>3 DEF Lower
  <2>6. Max(Within1000(x)) = m
    <3>1. Within1000(x) \in SUBSET Nat
      BY <1>1
    <3> HIDE DEF Within1000
    <3> QED  BY <2>5, <3>1, GreatestIs
  <2>7. Requested(mw) = m
    BY <1>3, <2>1, <2>2, <2>6 DEF Requested
  <2>8. Lower(m, PowerMask) = m
    BY <1>1 DEF Lower
  <2> QED  BY <1>1, <2>4, <2>7, <2>8
<1> QED  BY <1>2, <1>3

(* The bounds of the firmware move a power to the nearest they allow.      *)
LEMMA BoundedIsWithin ==
  ASSUME facts \in Facts, NEW p \in Nat
  PROVE  Lower(Bounded(p), PowerMask) = Within(Lower(p, PowerMask))
<1> DEFINE allowed == {q \in 0 .. PowerMask : (facts.min = 0 \/ q >= facts.min)
                                              /\ (facts.max = 0 \/ q <= facts.max)}
           near(q, x) == IF q < x THEN x - q ELSE q - x
<1>1. PICK lowest \in 0 .. PowerMask, highest \in 0 .. PowerMask :
        /\ lowest = facts.min /\ highest = facts.max
        /\ highest = 0 \/ lowest <= highest
  BY FactsType
<1>2. PICK x \in 0 .. PowerMask : x = Lower(p, PowerMask)
  BY PowerAssumption DEF Lower
<1>3. PICK e : e = Lower(Bounded(p), PowerMask)
  OBVIOUS
<1>4. e \in 0 .. PowerMask /\ (lowest = 0 \/ e >= lowest) /\ (highest = 0 \/ e <= highest)
  BY <1>1, <1>3, PowerAssumption DEF Bounded, Lower, Higher
<1>5. \A q \in 0 .. PowerMask :
        (lowest = 0 \/ q >= lowest) /\ (highest = 0 \/ q <= highest) /\ q # e
          => near(e, x) < near(q, x)
  BY <1>1, <1>2, <1>3, PowerAssumption DEF Bounded, Lower, Higher
<1>6. e \in allowed
  BY <1>1, <1>4
<1>7. \A q \in allowed : q # e => near(e, x) < near(q, x)
  BY <1>1, <1>5
<1>8. \A q \in allowed : near(q, x) \in Nat
  BY <1>2
<1>9. \A q \in allowed : near(e, x) <= near(q, x)
  BY <1>6, <1>7, <1>8
<1>10. \A c \in allowed : (\A q \in allowed : near(c, x) <= near(q, x)) => c = e
  BY <1>6, <1>7, <1>8
<1>11. (CHOOSE c \in allowed : \A q \in allowed : near(c, x) <= near(q, x)) = e
  <2> HIDE DEF allowed, near
  <2> QED  BY <1>6, <1>9, <1>10
<1> QED  BY <1>2, <1>3, <1>11 DEF Within

-----------------------------------------------------------------------------
(* The limits of a register, of its halves l and h.                        *)

LimitsMet(r, l, h) ==
  LET ask == policy.ask[r]
      p1  == Requested(ask.power1)
      p2  == Requested(ask.power2)
  IN  /\ r \in {"PL12", "MMIO"} => Holds(l, ask.on1, Within(p1)) /\ Holds(h, ask.on2, p2)
      /\ r = "PSys" => Holds(l, ask.on1, p1) /\ Holds(h, ask.on2, p2)
      /\ r = "PL3"  => Holds(l, ask.on1 /\ p1 > 0, p1)
      /\ r = "PL4" /\ (8 * ask.power1 <= MAX_POWAH \/ ask.power1 = MAX_POWAH) =>
           l.power = IF ask.on1 THEN Lower(8 * ask.power1, CurrentMask) ELSE 0
      /\ r = "PP0"  => l.on = ask.on1
      /\ r # "PL4" /\ l.on => HoldsWindow(r, l.window, ask.time)
      /\ r \in {"PL12", "MMIO"} /\ h.on => HoldsWindow(r, h.window, ask.time)

ClampsMet(r, l, h) ==
  /\ r \in TwoHalves \cup {"PP0"} => l.clamp = policy.ask[r].clamp
  /\ r \in TwoHalves => h.clamp = policy.ask[r].clamp

LEMMA MetIsAsAsked ==
  ASSUME NEW r \in Registers
  PROVE  /\ LimitsAsAsked(r) <=> LimitsMet(r, lo[r], hi[r])
         /\ ClampsAsAsked(r) <=> ClampsMet(r, lo[r], hi[r])
BY Zenon DEF LimitsAsAsked, LimitsMet, ClampsAsAsked, ClampsMet

LEMMA SameEncodings ==
  ASSUME facts' = facts
  PROVE  /\ \A mw : Requested(mw)' = Requested(mw)
         /\ \A p : Within(p)' = Within(p)
         /\ \A r, w, t : HoldsWindow(r, w, t)' <=> HoldsWindow(r, w, t)
         /\ \A w : Duration(w)' = Duration(w)
<1>1. ASSUME NEW mw PROVE Requested(mw)' = Requested(mw)
  BY DEF Requested
<1>2. ASSUME NEW p PROVE Within(p)' = Within(p)
  BY DEF Within
<1>3. ASSUME NEW w PROVE Duration(w)' = Duration(w)
  BY DEF Duration
<1>4. ASSUME NEW r, NEW w, NEW t PROVE HoldsWindow(r, w, t)' <=> HoldsWindow(r, w, t)
  BY <1>3 DEF HoldsWindow
<1> QED  BY <1>1, <1>2, <1>3, <1>4

LEMMA MetIsAsAskedNext ==
  ASSUME UNCHANGED setup, NEW r \in Registers
  PROVE  /\ LimitsAsAsked(r)' <=> LimitsMet(r, lo'[r], hi'[r])
         /\ ClampsAsAsked(r)' <=> ClampsMet(r, lo'[r], hi'[r])
         /\ Programmed(r)' <=> Programmed(r)
<1>1. facts' = facts /\ policy' = policy /\ bootLocked' = bootLocked
  BY DEF setup
<1>2. LimitsAsAsked(r)' <=> LimitsMet(r, lo'[r], hi'[r])
  BY <1>1, SameEncodings DEF LimitsAsAsked, LimitsMet, Holds
<1>3. ClampsAsAsked(r)' <=> ClampsMet(r, lo'[r], hi'[r])
  BY <1>1 DEF ClampsAsAsked, ClampsMet
<1>4. Programmed(r)' <=> Programmed(r)
  BY <1>1, SameEncodings DEF Programmed
<1> QED  BY <1>2, <1>3, <1>4

-----------------------------------------------------------------------------
(* What each write leaves in the halves.                                   *)

LEMMA AskType ==
  ASSUME policy \in Policies, NEW r \in Registers
  PROVE  /\ policy.ask[r].on1 \in BOOLEAN /\ policy.ask[r].on2 \in BOOLEAN
         /\ policy.ask[r].power1 \in 0 .. MAX_POWAH /\ policy.ask[r].power2 \in 0 .. MAX_POWAH
         /\ policy.ask[r].time \in 0 .. MAX_POWAH /\ policy.ask[r].clamp \in BOOLEAN
BY DEF Policies, Asks

LEMMA EnabledIs ==
  ASSUME facts \in Facts, NEW l \in Halves, NEW p \in Nat,
         NEW t \in 0 .. MAX_POWAH, Encodable(t), NEW e, e = Enabled(l, p, t)
  PROVE  /\ e \in Halves /\ e.on = TRUE
         /\ Holds(e, TRUE, Lower(p, PowerMask))
         /\ \A r : HoldsWindow(r, e.window, t)
<1>1. /\ Field(Window(t)) \in {Field(w) : w \in Windows}
      /\ \A r : HoldsWindow(r, Field(Window(t)), t)
  BY WindowReachesItsField
<1>2. Lower(p, PowerMask) \in 0 .. PowerMask
  BY PowerAssumption DEF Lower
<1> QED  BY <1>1, <1>2 DEF Enabled, Halves, Holds

LEMMA DisabledIs ==
  ASSUME NEW l \in Halves
  PROVE  /\ Disabled(l) \in Halves /\ Disabled(l).on = FALSE /\ Disabled(l).power = 0
         /\ Cleared(l) \in Halves /\ Cleared(l).on = FALSE /\ Cleared(l).power = 0
<1>0. 0 \in 0 .. PowerMask /\ 0 \in Windows
  BY PowerAssumption DEF Windows
<1>1. 0 \in 0 .. PowerMask /\ Field(0) \in {Field(w) : w \in Windows}
  BY <1>0
<1>2. Disabled(l) \in Halves /\ Disabled(l).on = FALSE /\ Disabled(l).power = 0
  BY <1>1 DEF Disabled, Halves
<1>3. Cleared(l) \in Halves /\ Cleared(l).on = FALSE /\ Cleared(l).power = 0
  BY <1>1 DEF Cleared, Halves
<1> QED  BY <1>2, <1>3

LEMMA BoundedType ==
  ASSUME facts \in Facts, NEW p \in Nat
  PROVE  Bounded(p) \in Nat /\ BoundedPP0(p) \in Nat
BY FactsType, PowerAssumption DEF Bounded, BoundedPP0, Lower, Higher

PackageLo(r, l) ==
  IF policy.ask[r].on1
    THEN Enabled(l, Bounded(Power(policy.ask[r].power1)), policy.ask[r].time)
    ELSE Cleared(l)

PackageHi(r, h) ==
  IF policy.ask[r].on2
    THEN Enabled(h, Power(policy.ask[r].power2), policy.ask[r].time)
    ELSE Cleared(h)

LEMMA PackageLimitsMet ==
  ASSUME facts \in Facts, policy \in Policies, NEW r \in {"PL12", "MMIO"},
         NEW l \in Halves, NEW h \in Halves, Encodable(policy.ask[r].time)
  PROVE  /\ LimitsMet(r, PackageLo(r, l), PackageHi(r, h))
         /\ PackageLo(r, l) \in Halves /\ PackageHi(r, h) \in Halves
<1> DEFINE ask == policy.ask[r]
<1>0. PICK l2, h2 : l2 = PackageLo(r, l) /\ h2 = PackageHi(r, h)
  OBVIOUS
<1>1. PICK m1 \in 0 .. MAX_POWAH, m2 \in 0 .. MAX_POWAH, t \in 0 .. MAX_POWAH :
        m1 = ask.power1 /\ m2 = ask.power2 /\ t = ask.time
  BY AskType DEF Registers
<1>2. PICK p1 \in Nat, p2 \in Nat : p1 = Power(m1) /\ p2 = Power(m2)
  BY PowerIsRequested
<1>3. Requested(m1) = Lower(p1, PowerMask) /\ Requested(m2) = Lower(p2, PowerMask)
  BY <1>2, PowerIsRequested
<1>4. PICK b1 \in Nat : b1 = Bounded(p1)
  BY BoundedType
<1>5. Lower(b1, PowerMask) = Within(Requested(m1))
  BY <1>3, <1>4, BoundedIsWithin
<1>6. ask.on1 \in BOOLEAN /\ ask.on2 \in BOOLEAN /\ Encodable(t)
  BY <1>1, AskType DEF Registers
<1>7. /\ l2 \in Halves /\ Holds(l2, ask.on1, Within(Requested(m1)))
      /\ l2.on => HoldsWindow(r, l2.window, t)
  <2>1. CASE ask.on1
    <3>1. l2 = Enabled(l, b1, t)
      BY <2>1, <1>0, <1>1, <1>2, <1>4 DEF PackageLo
    <3>2. ask.on1 = TRUE /\ l2.on = TRUE
      BY <2>1, <3>1, <1>6, EnabledIs
    <3>3. l2 \in Halves /\ Holds(l2, TRUE, Within(Requested(m1))) /\ HoldsWindow(r, l2.window, t)
      BY <3>1, <1>5, <1>6, EnabledIs
    <3> QED  BY <3>2, <3>3
  <2>2. CASE ~ ask.on1
    <3>1. l2 = Cleared(l)
      BY <1>0, <2>2 DEF PackageLo
    <3> QED  BY <2>2, <3>1, <1>6, DisabledIs DEF Holds
  <2> QED  BY <2>1, <2>2
<1>8. h2 \in Halves /\ Holds(h2, ask.on2, Requested(m2)) /\ (h2.on => HoldsWindow(r, h2.window, t))
  <2>1. CASE ask.on2
    <3>1. h2 = Enabled(h, p2, t)
      BY <2>1, <1>0, <1>1, <1>2 DEF PackageHi
    <3>2. ask.on2 = TRUE /\ h2.on = TRUE
      BY <2>1, <3>1, <1>6, EnabledIs
    <3>3. h2 \in Halves /\ Holds(h2, TRUE, Requested(m2)) /\ HoldsWindow(r, h2.window, t)
      BY <3>1, <1>3, <1>6, EnabledIs
    <3> QED  BY <3>2, <3>3
  <2>2. CASE ~ ask.on2
    <3>1. h2 = Cleared(h)
      BY <1>0, <2>2 DEF PackageHi
    <3> QED  BY <2>2, <3>1, <1>6, DisabledIs DEF Holds
  <2> QED  BY <2>1, <2>2
<1>9. LimitsMet(r, l2, h2)
  BY <1>1, <1>7, <1>8 DEF LimitsMet
<1> QED  BY <1>0, <1>7, <1>8, <1>9

PlatformLo(l) ==
  IF policy.ask["PSys"].on1
    THEN Enabled(l, Power(policy.ask["PSys"].power1), policy.ask["PSys"].time)
    ELSE Cleared(l)

PlatformHi(h) ==
  IF policy.ask["PSys"].on2
    THEN [h EXCEPT !.on = TRUE, !.power = Lower(Power(policy.ask["PSys"].power2), PowerMask)]
    ELSE Disabled(h)

LEMMA PlatformLimitsMet ==
  ASSUME facts \in Facts, policy \in Policies,
         NEW l \in Halves, NEW h \in Halves, Encodable(policy.ask["PSys"].time)
  PROVE  /\ LimitsMet("PSys", PlatformLo(l), PlatformHi(h))
         /\ PlatformLo(l) \in Halves /\ PlatformHi(h) \in Halves
<1> DEFINE ask == policy.ask["PSys"]
<1>0. PICK l2, h2 : l2 = PlatformLo(l) /\ h2 = PlatformHi(h)
  OBVIOUS
<1>1. PICK m1 \in 0 .. MAX_POWAH, m2 \in 0 .. MAX_POWAH, t \in 0 .. MAX_POWAH :
        m1 = ask.power1 /\ m2 = ask.power2 /\ t = ask.time
  BY AskType DEF Registers
<1>2. PICK p1 \in Nat, p2 \in Nat : p1 = Power(m1) /\ p2 = Power(m2)
  BY PowerIsRequested
<1>3. Requested(m1) = Lower(p1, PowerMask) /\ Requested(m2) = Lower(p2, PowerMask)
  BY <1>2, PowerIsRequested
<1>4. ask.on1 \in BOOLEAN /\ ask.on2 \in BOOLEAN /\ Encodable(t)
  BY <1>1, AskType DEF Registers
<1>5. /\ l2 \in Halves /\ Holds(l2, ask.on1, Requested(m1))
      /\ l2.on => HoldsWindow("PSys", l2.window, t)
  <2>1. CASE ask.on1
    <3>1. l2 = Enabled(l, p1, t)
      BY <2>1, <1>0, <1>1, <1>2 DEF PlatformLo
    <3>2. ask.on1 = TRUE /\ l2.on = TRUE
      BY <2>1, <3>1, <1>4, EnabledIs
    <3>3. l2 \in Halves /\ Holds(l2, TRUE, Requested(m1)) /\ HoldsWindow("PSys", l2.window, t)
      BY <3>1, <1>3, <1>4, EnabledIs
    <3> QED  BY <3>2, <3>3
  <2>2. CASE ~ ask.on1
    <3>1. l2 = Cleared(l)
      BY <1>0, <2>2 DEF PlatformLo
    <3> QED  BY <2>2, <3>1, <1>4, DisabledIs DEF Holds
  <2> QED  BY <2>1, <2>2
<1>6. h2 \in Halves /\ Holds(h2, ask.on2, Requested(m2))
  <2>1. CASE ask.on2
    <3>1. h2 = [h EXCEPT !.on = TRUE, !.power = Requested(m2)]
      BY <2>1, <1>0, <1>1, <1>2, <1>3 DEF PlatformHi
    <3>2. Requested(m2) \in 0 .. PowerMask
      BY PowerIsRequested
    <3>3. h2 \in Halves /\ h2.on = TRUE /\ h2.power = Requested(m2)
      BY <3>1, <3>2 DEF Halves
    <3> QED  BY <2>1, <3>3 DEF Holds
  <2>2. CASE ~ ask.on2
    <3>1. h2 = Disabled(h)
      BY <1>0, <2>2 DEF PlatformHi
    <3> QED  BY <2>2, <3>1, <1>4, DisabledIs DEF Holds
  <2> QED  BY <2>1, <2>2
<1>7. LimitsMet("PSys", l2, h2)
  BY <1>1, <1>5, <1>6 DEF LimitsMet
<1> QED  BY <1>0, <1>5, <1>6, <1>7

LEMMA PL3LimitsMet ==
  ASSUME facts \in Facts, policy \in Policies,
         NEW l \in Halves, NEW h \in Halves, Encodable(policy.ask["PL3"].time),
         NEW l2, l2 = IF policy.ask["PL3"].on1 /\ Power(policy.ask["PL3"].power1) # 0
                        THEN Enabled(l, Power(policy.ask["PL3"].power1), policy.ask["PL3"].time)
                        ELSE Disabled(l)
  PROVE  LimitsMet("PL3", l2, h) /\ l2 \in Halves
<1> DEFINE ask == policy.ask["PL3"]
<1>1. PICK m1 \in 0 .. MAX_POWAH, t \in 0 .. MAX_POWAH : m1 = ask.power1 /\ t = ask.time
  BY AskType DEF Registers
<1>2. PICK p1 \in Nat : p1 = Power(m1)
  BY PowerIsRequested
<1>3. Requested(m1) = Lower(p1, PowerMask)
  BY <1>2, PowerIsRequested
<1>4. Requested(m1) > 0 <=> p1 # 0
  BY <1>3, PowerAssumption DEF Lower
<1>5. ask.on1 \in BOOLEAN /\ Encodable(t)
  BY <1>1, AskType DEF Registers
<1>6. CASE ask.on1 /\ p1 # 0
  <2>1. l2 = Enabled(l, p1, t)
    BY <1>6, <1>1, <1>2
  <2>2. l2 \in Halves /\ Holds(l2, TRUE, Requested(m1)) /\ HoldsWindow("PL3", l2.window, t)
    BY <2>1, <1>3, <1>5, EnabledIs
  <2> QED  BY <2>2, <1>1, <1>4, <1>6 DEF LimitsMet
<1>7. CASE ~ (ask.on1 /\ p1 # 0)
  <2>1. l2 = Disabled(l)
    BY <1>7, <1>1, <1>2
  <2>2. l2 \in Halves /\ Holds(l2, FALSE, Requested(m1)) /\ ~ l2.on
    BY <2>1, DisabledIs DEF Holds
  <2> QED  BY <2>2, <1>1, <1>4, <1>5, <1>7 DEF LimitsMet
<1> QED  BY <1>6, <1>7

LEMMA PL4LimitsMet ==
  ASSUME policy \in Policies, NEW l \in Halves, NEW h \in Halves,
         NEW eighths, eighths = IF policy.ask["PL4"].power1 = MAX_POWAH THEN MAX_POWAH
                                ELSE (policy.ask["PL4"].power1 * 8) % (MAX_POWAH + 1),
         NEW l2, l2 = [l EXCEPT !.power = IF policy.ask["PL4"].on1 THEN Lower(eighths, CurrentMask)
                                                                   ELSE 0]
  PROVE  LimitsMet("PL4", l2, h) /\ l2 \in Halves
<1> DEFINE ask == policy.ask["PL4"]
<1>1. PICK m1 \in 0 .. MAX_POWAH : m1 = ask.power1
  BY AskType DEF Registers
<1>2. PICK n \in Nat \ {0} : n = MAX_POWAH + 1
  BY PowerAssumption
<1>3. eighths \in Nat /\ (8 * m1 <= MAX_POWAH /\ m1 # MAX_POWAH => eighths = 8 * m1)
  <2>1. PICK x \in Nat : x = m1 * 8
    BY <1>1, PowerAssumption
  <2>2. x % n \in 0 .. n - 1 /\ (x < n => x % n = x)
    BY <1>2
  <2> QED  BY <1>1, <1>2, <2>1, <2>2, PowerAssumption
<1>4. CurrentMask \in Nat /\ CurrentMask <= PowerMask /\ PowerMask < MAX_POWAH
  BY PowerAssumption
<1>5. Lower(eighths, CurrentMask) \in 0 .. PowerMask
  BY <1>3, <1>4, PowerAssumption DEF Lower
<1>6. l2 \in Halves /\ l2.power = IF ask.on1 THEN Lower(eighths, CurrentMask) ELSE 0
  BY <1>5, PowerAssumption DEF Halves
<1>7. 8 * m1 <= MAX_POWAH \/ m1 = MAX_POWAH
        => Lower(eighths, CurrentMask) = Lower(8 * m1, CurrentMask)
  BY <1>1, <1>3, <1>4, PowerAssumption DEF Lower
<1> QED  BY <1>1, <1>6, <1>7 DEF LimitsMet

LEMMA PP0LimitsMet ==
  ASSUME facts \in Facts, policy \in Policies,
         NEW l \in Halves, NEW h \in Halves, Encodable(policy.ask["PP0"].time),
         NEW l2, l2 = IF policy.ask["PP0"].on1
                        THEN Enabled(l, BoundedPP0(Power(policy.ask["PP0"].power1)),
                                     policy.ask["PP0"].time)
                        ELSE Disabled(l)
  PROVE  LimitsMet("PP0", l2, h) /\ l2 \in Halves
<1> DEFINE ask == policy.ask["PP0"]
<1>1. PICK m1 \in 0 .. MAX_POWAH, t \in 0 .. MAX_POWAH : m1 = ask.power1 /\ t = ask.time
  BY AskType DEF Registers
<1>2. PICK b1 \in Nat : b1 = BoundedPP0(Power(m1))
  BY PowerIsRequested, BoundedType
<1>3. ask.on1 \in BOOLEAN /\ Encodable(t)
  BY <1>1, AskType DEF Registers
<1>4. CASE ask.on1
  <2>1. l2 = Enabled(l, b1, t)
    BY <1>4, <1>1, <1>2
  <2>2. l2 \in Halves /\ l2.on = TRUE /\ HoldsWindow("PP0", l2.window, t)
    BY <2>1, <1>3, EnabledIs
  <2> QED  BY <2>2, <1>1, <1>3, <1>4 DEF LimitsMet
<1>5. CASE ~ ask.on1
  <2>1. l2 = Disabled(l)
    BY <1>5
  <2>2. l2 \in Halves /\ l2.on = FALSE
    BY <2>1, DisabledIs
  <2> QED  BY <2>2, <1>1, <1>3, <1>5 DEF LimitsMet
<1> QED  BY <1>4, <1>5

(* The clamp bits leave the rest as it is.                                 *)
LEMMA ClampBitsMet ==
  ASSUME policy \in Policies, NEW r \in TwoHalves \cup {"PP0"}, NEW l \in Halves, NEW h \in Halves,
         NEW l2, l2 = [l EXCEPT !.clamp = policy.ask[r].clamp],
         NEW h2, h2 = [h EXCEPT !.clamp = IF r \in TwoHalves THEN policy.ask[r].clamp ELSE @]
  PROVE  /\ l2 \in Halves /\ h2 \in Halves
         /\ ClampsMet(r, l2, h2)
         /\ LimitsMet(r, l, h) => LimitsMet(r, l2, h2)
<1>1. policy.ask[r].clamp \in BOOLEAN
  BY AskType DEF TwoHalves, Registers
<1>2. l2 \in Halves /\ l2.on = l.on /\ l2.power = l.power /\ l2.window = l.window
      /\ l2.clamp = policy.ask[r].clamp
  BY <1>1 DEF Halves
<1>3. h2 \in Halves /\ h2.on = h.on /\ h2.power = h.power /\ h2.window = h.window
      /\ (r \in TwoHalves => h2.clamp = policy.ask[r].clamp)
  BY <1>1 DEF Halves
<1> QED  BY <1>2, <1>3 DEF ClampsMet, LimitsMet, Holds

-----------------------------------------------------------------------------
(* Going from a stage to the next.                                         *)

LEMMA PastIs ==
  ASSUME NEW i \in 1 .. 11, NEW n \in 1 .. 11, stage = Order[n]
  PROVE  Past(Order[i]) <=> i < n
<1>1. \A j \in 1 .. 11 : \A k \in 1 .. j - 1 : Order[k] = Order[i] => k = i
  BY OrderIsOneToOne, OrderDomain
<1>2. \A j \in 1 .. 11 : Order[j] = Order[n] => j = n
  BY OrderIsOneToOne, OrderDomain
<1>3. Later(Order[i]) = i + 1 .. 11
  BY <1>1, OrderDomain DEF Later
<1>4. i < n => n \in Later(Order[i]) /\ stage = Order[n]
  BY <1>3
<1>5. \A j \in Later(Order[i]) : stage = Order[j] => i < n
  BY <1>2, <1>3
<1>6. Past(Order[i]) <=> \E j \in Later(Order[i]) : stage = Order[j]
  BY Zenon DEF Past
<1> QED  BY <1>4, <1>5, <1>6

LEMMA PastIsNext ==
  ASSUME NEW i \in 1 .. 11, NEW n \in 1 .. 11, stage' = Order[n]
  PROVE  Past(Order[i])' <=> i < n
<1>1. \A j \in 1 .. 11 : \A k \in 1 .. j - 1 : Order[k] = Order[i] => k = i
  BY OrderIsOneToOne, OrderDomain
<1>2. \A j \in 1 .. 11 : Order[j] = Order[n] => j = n
  BY OrderIsOneToOne, OrderDomain
<1>3. Later(Order[i]) = i + 1 .. 11
  BY <1>1, OrderDomain DEF Later
<1>4. i < n => n \in Later(Order[i]) /\ stage' = Order[n]
  BY <1>3
<1>5. \A j \in Later(Order[i]) : stage' = Order[j] => i < n
  BY <1>2, <1>3
<1>6. Past(Order[i])' <=> \E j \in Later(Order[i]) : stage' = Order[j]
  BY Zenon DEF Past
<1> QED  BY <1>4, <1>5, <1>6

(* Where each register stands in the order.                                *)
LEMMA RegisterPlaces ==
  /\ \A r \in Registers : \E i \in 2 .. 8 : r = Order[i]
  /\ Order[1] = "cTDP" /\ Order[9] = "locks" /\ Order[10] = "mmioLock" /\ Order[11] = "done"
  /\ Order[6] = "PowerCtl"
BY DEF Order, Registers

LEMMA StagePlaces ==
  ASSUME NEW n \in 1 .. 11
  PROVE  /\ Order[n] \in {"locks", "mmioLock", "done"} <=> n >= 9
         /\ Order[n] # "frozen"
         /\ Order[n] \in Registers \cup {"PowerCtl"} <=> n \in 2 .. 8
BY DEF Order, Registers

LEMMA StageMoves ==
  ASSUME UNCHANGED setup, stage \in {Order[i] : i \in DOMAIN Order}, stage # "done",
         stage' = After(stage)
  PROVE  /\ stage' \in {Order[i] : i \in DOMAIN Order} /\ stage' # "frozen"
         /\ Due(stage)'
         /\ \A r \in Registers : Past(r)' /\ r \in policy.program => Past(r) \/ r = stage
         /\ Past("cTDP")'
         /\ LimitsDone => stage' \in {"mmioLock", "done"}
         /\ ~ LimitsDone /\ LimitsDone' => stage' = "locks"
         /\ stage = "locks" /\ stage' = "done" => "MMIO" \notin policy.program
<1>1. PICK n \in 1 .. 10 : stage = Order[n]
  <2>1. PICK n \in 1 .. 11 : stage = Order[n]
    BY OrderDomain
  <2>2. n # 11
    BY <2>1, RegisterPlaces
  <2> QED  BY <2>1, <2>2
<1>2. PICK m \in 1 .. 11 :
        /\ n < m /\ After(Order[n]) = Order[m] /\ Due(Order[m])
        /\ \A k \in 1 .. 11 : n < k /\ k < m => ~ Due(Order[k])
  BY AfterIsNextDue
<1>3. stage' = Order[m]
  BY <1>1, <1>2
<1>4. Due(stage)'
  <2>1. policy' = policy
    BY DEF setup
  <2> QED  BY <1>2, <1>3, <2>1 DEF Due
<1>5. ASSUME NEW r \in Registers, Past(r)', r \in policy.program
      PROVE  Past(r) \/ r = stage
  <2>1. PICK i \in 2 .. 8 : r = Order[i]
    BY RegisterPlaces
  <2>2. i < m
    <3>1. Past(Order[i])'
      BY <1>5, <2>1
    <3> QED  BY <1>3, <3>1, PastIsNext
  <2>3. Due(Order[i])
    BY <2>1, <1>5 DEF Due, Registers
  <2>4. ~ (n < i)
    BY <1>2, <2>2, <2>3
  <2>5. i < n => Past(r)
    BY <1>1, <2>1, PastIs
  <2> QED  BY <1>1, <2>1, <2>4, <2>5
<1>6. Past("cTDP")'
  <2>1. Past(Order[1])'
    BY <1>2, <1>3, PastIsNext
  <2> QED  BY <2>1, RegisterPlaces
<1>7. LimitsDone => n = 9 \/ n = 10
  BY <1>1, StagePlaces DEF LimitsDone
<1>8. ~ LimitsDone => m <= 9
  <2>1. ~ LimitsDone => n < 9
    BY <1>1, StagePlaces DEF LimitsDone
  <2>2. Due(Order[9])
    BY DEF Due, Order, Registers
  <2> QED  BY <1>2, <2>1, <2>2
<1>9. LimitsDone' <=> m >= 9
  BY <1>3, StagePlaces DEF LimitsDone
<1>10. LimitsDone => stage' \in {"mmioLock", "done"}
  <2>1. LimitsDone => m = 10 \/ m = 11
    BY <1>2, <1>7
  <2> QED  BY <1>3, <2>1, RegisterPlaces
<1>11. ~ LimitsDone /\ LimitsDone' => stage' = "locks"
  BY <1>3, <1>8, <1>9, RegisterPlaces
<1>12. stage = "locks" /\ stage' = "done" => "MMIO" \notin policy.program
  <2>1. SUFFICES ASSUME stage = "locks", stage' = "done"  PROVE "MMIO" \notin policy.program
    OBVIOUS
  <2>2. n = 9 /\ m = 11
    <3>1. Order[n] = Order[9] /\ Order[m] = Order[11]
      BY <1>1, <1>3, <2>1, RegisterPlaces
    <3>2. \A i, j \in 1 .. 11 : Order[i] = Order[j] => i = j
      BY OrderIsOneToOne, OrderDomain
    <3> QED  BY <3>1, <3>2
  <2>3. ~ Due(Order[10])
    BY <1>2, <2>2
  <2> QED  BY <2>3 DEF Due, Order, Registers
<1>13. stage' \in {Order[i] : i \in DOMAIN Order} /\ stage' # "frozen"
  BY <1>3, OrderDomain, StagePlaces
<1> QED  BY <1>4, <1>5, <1>6, <1>10, <1>11, <1>12, <1>13

LEMMA NotPastItself ==
  ASSUME stage \in {Order[i] : i \in DOMAIN Order}
  PROVE  ~ Past(stage)
<1>1. PICK n \in 1 .. 11 : stage = Order[n]
  BY OrderDomain
<1>2. ~ Past(Order[n])
  BY <1>1, PastIs
<1> QED  BY <1>1, <1>2

LEMMA PastTheLevel ==
  ASSUME stage \in {Order[i] : i \in DOMAIN Order}, stage # "cTDP"
  PROVE  Past("cTDP")
<1>1. PICK n \in 1 .. 11 : stage = Order[n]
  BY OrderDomain
<1>2. n # 1
  BY <1>1, RegisterPlaces
<1>3. Past(Order[1])
  BY <1>1, <1>2, PastIs
<1> QED  BY <1>3, RegisterPlaces

(* What the program can give its limits, in terms of the code's checks.    *)
LEMMA ProgrammedIs ==
  ASSUME facts \in Facts, policy \in Policies, NEW r \in Registers
  PROVE  Programmed(r) <=> /\ r \in policy.program /\ r \notin bootLocked
                           /\ r = "MMIO" => facts.mchbar
                           /\ r # "PL4" => Encodable(policy.ask[r].time)
<1>1. PICK t \in 0 .. MAX_POWAH : t = policy.ask[r].time
  BY AskType
<1>2. Encodable(t) <=> t \in 0 .. Duration(4 * MaxY + 3) \cup {MAX_POWAH}
  BY EncodableUpToTheLongest
<1> QED  BY <1>1, <1>2 DEF Programmed

-----------------------------------------------------------------------------
(* A step before the locks: a register is written or passed over.          *)

LEMMA StepBeforeLocks ==
  ASSUME PowerInv, stage # "frozen", ~ LimitsDone,
         UNCHANGED <<locked, setup, lockAt, cores>>,
         lo' \in [Registers -> Halves], hi' \in [Registers -> Halves],
         level' \in 0 .. 3, powerCtl' \subseteq {"eeTurbo", "raceToHalt"},
         "cTDP" \notin bootLocked => level' = policy.level,
         \/ stage' = After(stage) /\ clamping' = FALSE
         \/ /\ stage' = stage /\ clamping' = TRUE
            /\ stage \in TwoHalves \cup {"PP0"}
            /\ Programmed(stage) \/ stage \in bootLocked,
         \A r \in Registers :
           r # stage \/ ~ Programmed(r) => lo'[r] = lo[r] /\ hi'[r] = hi[r],
         stage \in Registers /\ Programmed(stage) =>
           /\ LimitsMet(stage, lo'[stage], hi'[stage])
           /\ ~ clamping' => ClampsMet(stage, lo'[stage], hi'[stage])
  PROVE  PowerInv'
<1>1. /\ facts' = facts /\ policy' = policy /\ bootLocked' = bootLocked
      /\ locked' = locked /\ lockAt' = lockAt /\ cores' = cores /\ UNCHANGED setup
  BY DEF setup
<1>2. /\ TypeOK /\ MirrorInv /\ StageInv /\ LimitInv /\ LockInv /\ LocksAsAsked
  BY DEF PowerInv
<1>3. stage \in {Order[i] : i \in DOMAIN Order} /\ stage # "done"
  BY <1>2 DEF TypeOK, LimitsDone
<1>4. locked = bootLocked /\ lockAt = 1 /\ cores = 0
  BY <1>2 DEF LockInv, LimitsDone
<1>5. /\ stage' \in {Order[i] : i \in DOMAIN Order} /\ stage' # "frozen"
      /\ Due(stage)'
      /\ LimitsDone' => stage' = "locks"
  <2>1. CASE stage' = After(stage)
    BY <2>1, <1>1, <1>3, StageMoves
  <2>2. CASE stage' = stage
    <3>1. Due(stage)' <=> Due(stage)
      BY <1>1, <2>2 DEF Due
    <3> QED  BY <1>2, <1>3, <2>2, <3>1 DEF LimitsDone, StageInv
  <2> QED  BY <2>1, <2>2
<1>6. ASSUME NEW r \in Registers, Past(r)', r \in policy.program, r # stage
      PROVE  Past(r)
  <2>1. CASE stage' = After(stage)
    BY <2>1, <1>1, <1>3, <1>6, StageMoves
  <2>2. CASE stage' = stage
    BY <2>2, <1>6 DEF Past
  <2> QED  BY <2>1, <2>2
<1>7. TypeOK'
  BY <1>1, <1>2, <1>5 DEF TypeOK
<1>8. MirrorInv'
  <2>1. "MMIO" \in Registers /\ (Programmed("MMIO") => facts.mchbar)
    BY DEF Registers, Programmed
  <2> QED  BY <1>1, <1>2, <2>1 DEF MirrorInv
<1>9. StageInv'
  <2>1. clamping' => /\ stage' \in TwoHalves \cup {"PP0"}
                     /\ Programmed(stage)' \/ stage' \in bootLocked'
    <3>1. SUFFICES ASSUME clamping'
                   PROVE  /\ stage' \in TwoHalves \cup {"PP0"}
                          /\ Programmed(stage)' \/ stage' \in bootLocked'
      OBVIOUS
    <3>2. PICK r : r = stage
      OBVIOUS
    <3>3. stage' = r /\ r \in TwoHalves \cup {"PP0"} /\ (Programmed(r) \/ r \in bootLocked)
      BY <3>1, <3>2
    <3>4. Programmed(r)' <=> Programmed(r)
      BY <1>1, <3>3, MetIsAsAskedNext DEF TwoHalves, Registers
    <3> QED  BY <1>1, <3>3, <3>4
  <2> QED  BY <1>5, <2>1 DEF StageInv
<1>10. LimitInv'
  <2> SUFFICES ASSUME NEW r \in Registers
               PROVE  /\ ~Programmed(r)' => lo'[r] = Boot /\ hi'[r] = Boot
                      /\ Programmed(r)' /\ Past(r)' => AsAsked(r)'
                      /\ Programmed(r)' /\ clamping' /\ stage' = r => LimitsAsAsked(r)'
    BY DEF LimitInv
  <2>1. /\ LimitsAsAsked(r)' <=> LimitsMet(r, lo'[r], hi'[r])
        /\ ClampsAsAsked(r)' <=> ClampsMet(r, lo'[r], hi'[r])
        /\ Programmed(r)' <=> Programmed(r)
    BY <1>1, MetIsAsAskedNext
  <2>2. /\ LimitsAsAsked(r) <=> LimitsMet(r, lo[r], hi[r])
        /\ ClampsAsAsked(r) <=> ClampsMet(r, lo[r], hi[r])
    BY MetIsAsAsked
  <2>3. ~Programmed(r)' => lo'[r] = Boot /\ hi'[r] = Boot
    BY <1>2, <2>1 DEF LimitInv
  <2>4. ASSUME Programmed(r)', Past(r)'  PROVE AsAsked(r)'
    <3>1. CASE r # stage
      <4>1. r \in policy.program
        BY <2>1, <2>4 DEF Programmed
      <4>2. AsAsked(r)
        BY <1>2, <1>6, <2>1, <2>4, <3>1, <4>1 DEF LimitInv
      <4>3. lo'[r] = lo[r] /\ hi'[r] = hi[r]
        BY <3>1
      <4> QED  BY <2>1, <2>2, <4>2, <4>3 DEF AsAsked
    <3>2. CASE r = stage
      <4>1. ~ clamping'
        <5>1. stage' = stage => (Past(r)' <=> Past(r))
          BY DEF Past
        <5>2. ~ Past(r)
          BY <1>3, <3>2, NotPastItself
        <5> QED  BY <2>4, <5>1, <5>2
      <4> QED  BY <2>1, <2>4, <3>2, <4>1 DEF AsAsked
    <3> QED  BY <3>1, <3>2
  <2>5. ASSUME Programmed(r)', clamping', stage' = r  PROVE LimitsAsAsked(r)'
    BY <2>1, <2>5
  <2> QED  BY <2>3, <2>4, <2>5
<1>11. LockInv'
  <2>1. stage' = "locks" => cores' < NumCores
    BY <1>1, <1>4, PowerAssumption
  <2>2. level' = policy'.level \/ "cTDP" \in bootLocked'
    BY <1>1
  <2> QED  BY <1>1, <1>4, <1>5, <2>1, <2>2 DEF LockInv, LockOrder
<1>12. LocksAsAsked'
  <2>1. stage' # "done"
    BY <1>5 DEF LimitsDone
  <2> QED  BY <1>1, <1>4, <2>1 DEF LocksAsAsked
<1> QED  BY <1>7, <1>8, <1>9, <1>10, <1>11, <1>12 DEF PowerInv

(* Writing the register whose stage it is, its limits or its clamp bits.   *)
LEMMA RegisterWritten ==
  ASSUME PowerInv, stage \in Registers, NEW l2 \in Halves, NEW h2 \in Halves,
         Write(stage, l2, h2), UNCHANGED <<setup, lockAt, cores>>,
         Programmed(stage) \/ stage \in bootLocked,
         Programmed(stage) => LimitsMet(stage, l2, h2),
         \/ GoOn /\ ClampsMet(stage, l2, h2)
         \/ ClampNext /\ stage \in TwoHalves \cup {"PP0"}
  PROVE  PowerInv'
<1>1. TypeOK /\ LockInv
  BY DEF PowerInv
<1>2. stage # "frozen" /\ ~ LimitsDone /\ stage # "cTDP"
  BY DEF Registers, LimitsDone
<1>3. locked = bootLocked
  BY <1>1, <1>2 DEF LockInv, LimitsDone
<1>4. /\ lo' = IF stage \in locked THEN lo ELSE [lo EXCEPT ![stage] = l2]
      /\ hi' = IF stage \in locked THEN hi ELSE [hi EXCEPT ![stage] = h2]
      /\ UNCHANGED <<locked, level, powerCtl>>
  BY DEF Write
<1>5. Programmed(stage) <=> stage \notin locked
  BY <1>3 DEF Programmed
<1>6. lo' \in [Registers -> Halves] /\ hi' \in [Registers -> Halves]
  BY <1>1, <1>4 DEF TypeOK
<1>7. \A r \in Registers : r # stage \/ ~ Programmed(r) => lo'[r] = lo[r] /\ hi'[r] = hi[r]
  <2>1. \A r \in Registers : r # stage => lo'[r] = lo[r] /\ hi'[r] = hi[r]
    BY <1>1, <1>4 DEF TypeOK
  <2>2. stage \in locked => lo' = lo /\ hi' = hi
    BY <1>4
  <2> QED  BY <1>5, <2>1, <2>2
<1>8. Programmed(stage) => lo'[stage] = l2 /\ hi'[stage] = h2
  BY <1>1, <1>4, <1>5 DEF TypeOK
<1>9. "cTDP" \notin bootLocked => level' = policy.level
  <2>1. Past("cTDP")
    BY <1>1, <1>2, PastTheLevel DEF TypeOK
  <2> QED  BY <1>1, <1>4, <2>1 DEF LockInv
<1>10. \/ stage' = After(stage) /\ clamping' = FALSE /\ ClampsMet(stage, l2, h2)
       \/ stage' = stage /\ clamping' = TRUE /\ stage \in TwoHalves \cup {"PP0"}
  BY DEF GoOn, ClampNext
<1>11. level' \in 0 .. 3 /\ powerCtl' \subseteq {"eeTurbo", "raceToHalt"}
  BY <1>1, <1>4 DEF TypeOK
<1>12. UNCHANGED <<locked, setup, lockAt, cores>>
  BY <1>4
<1>13. Programmed(stage) =>
         /\ LimitsMet(stage, lo'[stage], hi'[stage])
         /\ ~ clamping' => ClampsMet(stage, lo'[stage], hi'[stage])
  BY <1>8, <1>10
<1> QED  BY <1>2, <1>6, <1>7, <1>9, <1>10, <1>11, <1>12, <1>13, StepBeforeLocks

(* A register that the program cannot give its limits is passed over.      *)
LEMMA RegisterSkipped ==
  ASSUME PowerInv, stage \in Registers, ~ Programmed(stage),
         GoOn, UNCHANGED <<hardware, setup, lockAt, cores>>
  PROVE  PowerInv'
<1>1. TypeOK /\ LockInv
  BY DEF PowerInv
<1>2. stage # "frozen" /\ ~ LimitsDone /\ stage # "cTDP"
  BY DEF Registers, LimitsDone
<1>3. UNCHANGED <<lo, hi, locked, level, powerCtl>>
  BY DEF hardware
<1>4. "cTDP" \notin bootLocked => level' = policy.level
  <2>1. Past("cTDP")
    BY <1>1, <1>2, PastTheLevel DEF TypeOK
  <2> QED  BY <1>1, <1>3, <2>1 DEF LockInv
<1>5. /\ lo' \in [Registers -> Halves] /\ hi' \in [Registers -> Halves]
      /\ level' \in 0 .. 3 /\ powerCtl' \subseteq {"eeTurbo", "raceToHalt"}
  BY <1>1, <1>3 DEF TypeOK
<1>6. stage' = After(stage) /\ clamping' = FALSE
  BY DEF GoOn
<1> QED  BY <1>2, <1>3, <1>4, <1>5, <1>6, StepBeforeLocks

-----------------------------------------------------------------------------
(* The steps of the program.                                               *)

LEMMA LevelStep == PowerInv /\ SetCTDPLevel => PowerInv'
<1> SUFFICES ASSUME PowerInv, SetCTDPLevel  PROVE PowerInv'
  OBVIOUS
<1>1. TypeOK /\ LockInv
  BY DEF PowerInv
<1>2. stage = "cTDP" /\ stage # "frozen" /\ ~ LimitsDone /\ stage \notin Registers
  BY DEF SetCTDPLevel, Registers, LimitsDone
<1>3. locked = bootLocked
  BY <1>1, <1>2 DEF LockInv, LimitsDone
<1>4. /\ level' = IF "cTDP" \in locked THEN level ELSE policy.level
      /\ stage' = After(stage) /\ clamping' = FALSE
      /\ UNCHANGED <<lo, hi, powerCtl>> /\ UNCHANGED <<locked, setup, lockAt, cores>>
  BY DEF SetCTDPLevel, GoOn
<1>5. policy.level \in 0 .. 3
  BY <1>1 DEF TypeOK, Policies
<1>6. /\ lo' \in [Registers -> Halves] /\ hi' \in [Registers -> Halves]
      /\ level' \in 0 .. 3 /\ powerCtl' \subseteq {"eeTurbo", "raceToHalt"}
  BY <1>1, <1>4, <1>5 DEF TypeOK
<1>7. "cTDP" \notin bootLocked => level' = policy.level
  BY <1>3, <1>4
<1> QED  BY <1>2, <1>4, <1>6, <1>7, StepBeforeLocks

LEMMA PowerCtlStep == PowerInv /\ ProgramPowerCtl => PowerInv'
<1> SUFFICES ASSUME PowerInv, ProgramPowerCtl  PROVE PowerInv'
  OBVIOUS
<1>1. TypeOK /\ LockInv
  BY DEF PowerInv
<1>2. stage = "PowerCtl" /\ stage # "frozen" /\ ~ LimitsDone /\ stage \notin Registers
      /\ stage # "cTDP"
  BY DEF ProgramPowerCtl, Registers, LimitsDone
<1>3. /\ stage' = After(stage) /\ clamping' = FALSE
      /\ UNCHANGED <<lo, hi, level>> /\ UNCHANGED <<locked, setup, lockAt, cores>>
  BY DEF ProgramPowerCtl, GoOn
<1>4. powerCtl' \subseteq {"eeTurbo", "raceToHalt"}
  BY <1>1 DEF ProgramPowerCtl, TypeOK
<1>5. lo' \in [Registers -> Halves] /\ hi' \in [Registers -> Halves] /\ level' \in 0 .. 3
  BY <1>1, <1>3 DEF TypeOK
<1>6. "cTDP" \notin bootLocked => level' = policy.level
  <2>1. Past("cTDP")
    BY <1>1, <1>2, PastTheLevel DEF TypeOK
  <2> QED  BY <1>1, <1>3, <2>1 DEF LockInv
<1> QED  BY <1>2, <1>3, <1>4, <1>5, <1>6, StepBeforeLocks

LEMMA SkipStep ==
  PowerInv /\ (WindowRefused \/ LimitSkipped) => PowerInv'
<1> SUFFICES ASSUME PowerInv, WindowRefused \/ LimitSkipped  PROVE PowerInv'
  OBVIOUS
<1>1. TypeOK /\ LockInv
  BY DEF PowerInv
<1>2. /\ stage \in Registers /\ GoOn /\ UNCHANGED <<hardware, setup, lockAt, cores>>
  BY DEF WindowRefused, LimitSkipped, Registers
<1>3. locked = bootLocked
  BY <1>1, <1>2 DEF LockInv, Registers
<1>4. ~ Programmed(stage)
  <2>1. PICK r \in Registers : r = stage
    BY <1>2
  <2>2. Programmed(r) => /\ r \notin bootLocked
                         /\ r = "MMIO" => facts.mchbar
                         /\ r # "PL4" => Encodable(policy.ask[r].time)
    BY <1>1, ProgrammedIs DEF TypeOK
  <2>3. CASE WindowRefused
    <3>1. r # "PL4" /\ ~ Encodable(policy.ask[r].time)
      BY <2>1, <2>3 DEF WindowRefused, Ask
    <3> QED  BY <2>1, <2>2, <3>1
  <2>4. CASE LimitSkipped
    <3>1. r \in locked \/ (r = "MMIO" /\ ~ facts.mchbar)
      BY <2>1, <2>4 DEF LimitSkipped
    <3> QED  BY <1>3, <2>1, <2>2, <3>1
  <2> QED  BY <2>3, <2>4
<1> QED  BY <1>2, <1>4, RegisterSkipped

(* A register whose stage has come is programmed or was locked before.     *)
LEMMA StageIsProgrammed ==
  ASSUME PowerInv, NEW r \in Registers, stage = r,
         r = "MMIO" => facts.mchbar, r # "PL4" => Encodable(policy.ask[r].time)
  PROVE  /\ facts \in Facts /\ policy \in Policies /\ lo[r] \in Halves /\ hi[r] \in Halves
         /\ Programmed(r) \/ r \in bootLocked
<1>1. TypeOK /\ StageInv
  BY DEF PowerInv
<1>2. r \in policy.program
  <2>1. Due(r)
    BY <1>1 DEF StageInv, Registers
  <2> QED  BY <2>1 DEF Due
<1>3. facts \in Facts /\ policy \in Policies /\ lo[r] \in Halves /\ hi[r] \in Halves
  BY <1>1 DEF TypeOK
<1>4. Programmed(r) \/ r \in bootLocked
  BY <1>2, <1>3, ProgrammedIs
<1> QED  BY <1>3, <1>4

LEMMA PackageStep == PowerInv /\ SetPkgPowerLimit12 => PowerInv'
<1> SUFFICES ASSUME PowerInv, SetPkgPowerLimit12  PROVE PowerInv'
  OBVIOUS
<1>1. PICK r \in {"PL12", "MMIO"} : r = stage
  BY DEF SetPkgPowerLimit12
<1>2. r \in Registers /\ r \in TwoHalves
  BY DEF Registers, TwoHalves
<1>3. Encodable(policy.ask[r].time) /\ (r = "MMIO" => facts.mchbar) /\ ClampNext
      /\ UNCHANGED <<setup, lockAt, cores>>
  BY <1>1 DEF SetPkgPowerLimit12, Ask
<1>4. /\ facts \in Facts /\ policy \in Policies /\ lo[r] \in Halves /\ hi[r] \in Halves
      /\ Programmed(r) \/ r \in bootLocked
  BY <1>1, <1>2, <1>3, StageIsProgrammed
<1>5. PICK l \in Halves, h \in Halves : l = lo[r] /\ h = hi[r]
  BY <1>4
<1>6. PICK l2, h2 : l2 = PackageLo(r, l) /\ h2 = PackageHi(r, h)
  OBVIOUS
<1>7. Write(stage, l2, h2)
  BY <1>1, <1>5, <1>6, Zenon DEF SetPkgPowerLimit12, Ask, PackageLo, PackageHi
<1>8. LimitsMet(r, l2, h2) /\ l2 \in Halves /\ h2 \in Halves
  BY <1>3, <1>4, <1>6, PackageLimitsMet
<1> QED  BY <1>1, <1>2, <1>3, <1>4, <1>7, <1>8, RegisterWritten

LEMMA PlatformStep == PowerInv /\ SetPlatformPowerLimit12 => PowerInv'
<1> SUFFICES ASSUME PowerInv, SetPlatformPowerLimit12  PROVE PowerInv'
  OBVIOUS
<1>1. stage = "PSys" /\ "PSys" \in Registers /\ "PSys" \in TwoHalves
  BY DEF SetPlatformPowerLimit12, Registers, TwoHalves
<1>2. Encodable(policy.ask["PSys"].time) /\ ClampNext /\ UNCHANGED <<setup, lockAt, cores>>
  BY <1>1 DEF SetPlatformPowerLimit12, Ask
<1>3. /\ facts \in Facts /\ policy \in Policies /\ lo["PSys"] \in Halves /\ hi["PSys"] \in Halves
      /\ Programmed("PSys") \/ "PSys" \in bootLocked
  BY <1>1, <1>2, StageIsProgrammed
<1>4. PICK l \in Halves, h \in Halves : l = lo["PSys"] /\ h = hi["PSys"]
  BY <1>3
<1>5. PICK l2, h2 : l2 = PlatformLo(l) /\ h2 = PlatformHi(h)
  OBVIOUS
<1>6. Write(stage, l2, h2)
  BY <1>1, <1>4, <1>5, Zenon DEF SetPlatformPowerLimit12, Ask, PlatformLo, PlatformHi
<1>7. LimitsMet("PSys", l2, h2) /\ l2 \in Halves /\ h2 \in Halves
  BY <1>2, <1>3, <1>5, PlatformLimitsMet
<1> QED  BY <1>1, <1>2, <1>3, <1>6, <1>7, RegisterWritten

LEMMA PL3Step == PowerInv /\ SetPlatformPowerLimit3 => PowerInv'
<1> SUFFICES ASSUME PowerInv, SetPlatformPowerLimit3  PROVE PowerInv'
  OBVIOUS
<1>1. stage = "PL3" /\ "PL3" \in Registers
  BY DEF SetPlatformPowerLimit3, Registers
<1>2. Encodable(policy.ask["PL3"].time) /\ GoOn /\ UNCHANGED <<setup, lockAt, cores>>
  BY <1>1 DEF SetPlatformPowerLimit3, Ask
<1>3. /\ facts \in Facts /\ policy \in Policies /\ lo["PL3"] \in Halves /\ hi["PL3"] \in Halves
      /\ Programmed("PL3") \/ "PL3" \in bootLocked
  BY <1>1, <1>2, StageIsProgrammed
<1>4. PICK l \in Halves, h \in Halves : l = lo["PL3"] /\ h = hi["PL3"]
  BY <1>3
<1>5. PICK l2 :
        l2 = IF policy.ask["PL3"].on1 /\ Power(policy.ask["PL3"].power1) # 0
               THEN Enabled(l, Power(policy.ask["PL3"].power1), policy.ask["PL3"].time)
               ELSE Disabled(l)
  OBVIOUS
<1>6. Write(stage, l2, h)
  BY <1>1, <1>4, <1>5, Zenon DEF SetPlatformPowerLimit3, Ask
<1>7. LimitsMet("PL3", l2, h) /\ l2 \in Halves
  BY <1>2, <1>3, <1>5, PL3LimitsMet
<1>8. ClampsMet("PL3", l2, h)
  BY DEF ClampsMet, TwoHalves
<1> QED  BY <1>1, <1>2, <1>3, <1>6, <1>7, <1>8, RegisterWritten

LEMMA PL4Step == PowerInv /\ SetPlatformPowerLimit4 => PowerInv'
<1> SUFFICES ASSUME PowerInv, SetPlatformPowerLimit4  PROVE PowerInv'
  OBVIOUS
<1>1. stage = "PL4" /\ "PL4" \in Registers /\ "PL4" # "MMIO"
  BY DEF SetPlatformPowerLimit4, Registers
<1>2. GoOn /\ UNCHANGED <<setup, lockAt, cores>>
  BY DEF SetPlatformPowerLimit4
<1>3. /\ policy \in Policies /\ lo["PL4"] \in Halves /\ hi["PL4"] \in Halves
      /\ Programmed("PL4") \/ "PL4" \in bootLocked
  BY <1>1, StageIsProgrammed
<1>4. PICK l \in Halves, h \in Halves : l = lo["PL4"] /\ h = hi["PL4"]
  BY <1>3
<1>5. PICK eighths :
        eighths = IF policy.ask["PL4"].power1 = MAX_POWAH THEN MAX_POWAH
                  ELSE (policy.ask["PL4"].power1 * 8) % (MAX_POWAH + 1)
  OBVIOUS
<1>6. PICK l2 :
        l2 = [l EXCEPT !.power = IF policy.ask["PL4"].on1 THEN Lower(eighths, CurrentMask) ELSE 0]
  OBVIOUS
<1>7. Write(stage, l2, h)
  BY <1>1, <1>4, <1>5, <1>6, Zenon DEF SetPlatformPowerLimit4, Ask
<1>8. LimitsMet("PL4", l2, h) /\ l2 \in Halves
  BY <1>3, <1>5, <1>6, PL4LimitsMet
<1>9. ClampsMet("PL4", l2, h)
  BY DEF ClampsMet, TwoHalves
<1> QED  BY <1>1, <1>2, <1>3, <1>7, <1>8, <1>9, RegisterWritten

LEMMA PP0Step == PowerInv /\ SetPP0PowerLimit => PowerInv'
<1> SUFFICES ASSUME PowerInv, SetPP0PowerLimit  PROVE PowerInv'
  OBVIOUS
<1>1. stage = "PP0" /\ "PP0" \in Registers
  BY DEF SetPP0PowerLimit, Registers
<1>2. Encodable(policy.ask["PP0"].time) /\ ClampNext /\ UNCHANGED <<setup, lockAt, cores>>
  BY <1>1 DEF SetPP0PowerLimit, Ask
<1>3. /\ facts \in Facts /\ policy \in Policies /\ lo["PP0"] \in Halves /\ hi["PP0"] \in Halves
      /\ Programmed("PP0") \/ "PP0" \in bootLocked
  BY <1>1, <1>2, StageIsProgrammed
<1>4. PICK l \in Halves, h \in Halves : l = lo["PP0"] /\ h = hi["PP0"]
  BY <1>3
<1>5. PICK l2 :
        l2 = IF policy.ask["PP0"].on1
               THEN Enabled(l, BoundedPP0(Power(policy.ask["PP0"].power1)), policy.ask["PP0"].time)
               ELSE Disabled(l)
  OBVIOUS
<1>6. Write(stage, l2, h)
  BY <1>1, <1>4, <1>5, Zenon DEF SetPP0PowerLimit, Ask
<1>7. LimitsMet("PP0", l2, h) /\ l2 \in Halves
  BY <1>2, <1>3, <1>5, PP0LimitsMet
<1> QED  BY <1>1, <1>2, <1>3, <1>6, <1>7, RegisterWritten

LEMMA ClampStep == PowerInv /\ Clamp => PowerInv'
<1> SUFFICES ASSUME PowerInv, Clamp  PROVE PowerInv'
  OBVIOUS
<1>1. TypeOK /\ StageInv /\ LimitInv
  BY DEF PowerInv
<1>2. PICK r \in TwoHalves \cup {"PP0"} : r = stage
  BY <1>1 DEF Clamp, StageInv
<1>3. r \in Registers /\ (Programmed(r) \/ r \in bootLocked)
  BY <1>1, <1>2 DEF Clamp, StageInv, TwoHalves, Registers
<1>4. policy \in Policies /\ lo[r] \in Halves /\ hi[r] \in Halves
  BY <1>1, <1>3 DEF TypeOK
<1>5. PICK l \in Halves, h \in Halves : l = lo[r] /\ h = hi[r]
  BY <1>4
<1>6. PICK l2, h2 :
        /\ l2 = [l EXCEPT !.clamp = policy.ask[r].clamp]
        /\ h2 = [h EXCEPT !.clamp = IF r \in TwoHalves THEN policy.ask[r].clamp ELSE @]
  OBVIOUS
<1>7. Write(stage, l2, h2)
  BY <1>2, <1>5, <1>6, Zenon DEF Clamp, Ask
<1>8. GoOn /\ UNCHANGED <<setup, lockAt, cores>>
  BY DEF Clamp
<1>9. Programmed(r) => LimitsMet(r, l, h)
  <2>1. Programmed(r) => LimitsAsAsked(r)
    BY <1>1, <1>2, <1>3 DEF LimitInv, Clamp
  <2> QED  BY <1>3, <1>5, <2>1, MetIsAsAsked
<1>10. /\ l2 \in Halves /\ h2 \in Halves /\ ClampsMet(r, l2, h2)
       /\ LimitsMet(r, l, h) => LimitsMet(r, l2, h2)
  BY <1>4, <1>6, ClampBitsMet
<1> QED  BY <1>2, <1>3, <1>7, <1>8, <1>9, <1>10, RegisterWritten

LEMMA SameLocksAsked ==
  ASSUME UNCHANGED setup
  PROVE  \A r \in Registers \cup {"cTDP"} : LockAsked(r)' <=> LockAsked(r)
BY DEF setup, LockAsked

LEMMA LockOrderIs ==
  /\ DOMAIN LockOrder = 1 .. 6 /\ Len(LockOrder) = 6
  /\ \A i \in 1 .. 6 : LockOrder[i] \in (Registers \ {"MMIO"}) \cup {"cTDP"}
  /\ \A r \in (Registers \ {"MMIO"}) \cup {"cTDP"} : \E i \in 1 .. 6 : r = LockOrder[i]
<1>1. DOMAIN LockOrder = 1 .. 6 /\ Len(LockOrder) = 6
  BY DEF LockOrder
<1>2. \A i \in 1 .. 6 : LockOrder[i] \in (Registers \ {"MMIO"}) \cup {"cTDP"}
  BY DEF LockOrder, Registers
<1>3. LockOrder[1] = "PL12" /\ LockOrder[2] = "PL3" /\ LockOrder[3] = "PL4"
      /\ LockOrder[4] = "PP0" /\ LockOrder[5] = "PSys" /\ LockOrder[6] = "cTDP"
  BY DEF LockOrder
<1>4. \A r \in (Registers \ {"MMIO"}) \cup {"cTDP"} : \E i \in 1 .. 6 : r = LockOrder[i]
  BY <1>3 DEF Registers
<1> QED  BY <1>1, <1>2, <1>4

(* A step of the locks: some of those asked for are set, whose registers   *)
(* have their limits.                                                      *)
LEMMA StepOfTheLocks ==
  ASSUME PowerInv, LimitsDone, stage # "done",
         UNCHANGED <<lo, hi, level, powerCtl>>, UNCHANGED setup,
         NEW new, new \subseteq Registers \cup {"cTDP"}, locked' = locked \cup new,
         \A r \in new : LockAsked(r) /\ (r = "MMIO" => facts.mchbar),
         clamping' = FALSE,
         stage' = stage \/ stage' = After(stage),
         lockAt' \in 1 .. 6, cores' \in 0 .. NumCores,
         stage' = "locks" => cores' < NumCores,
         \A i \in 1 .. 6 :
           (i < lockAt' \/ cores' > 0 \/ stage' # "locks") /\ LockAsked(LockOrder[i])
             => LockOrder[i] \in locked',
         stage' = "done" /\ LockAsked("MMIO") /\ facts.mchbar => "MMIO" \in locked'
  PROVE  PowerInv'
<1>1. facts' = facts /\ policy' = policy /\ bootLocked' = bootLocked
  BY DEF setup
<1>2. TypeOK /\ MirrorInv /\ StageInv /\ LimitInv /\ LockInv /\ LocksAsAsked
  BY DEF PowerInv
<1>3. stage \in {Order[i] : i \in DOMAIN Order} /\ stage # "frozen" /\ stage # "cTDP"
      /\ stage \notin Registers
  BY <1>2 DEF TypeOK, LimitsDone, Registers
<1>4. /\ stage' \in {Order[i] : i \in DOMAIN Order} /\ LimitsDone' /\ Due(stage)'
      /\ \A r \in Registers : Past(r)' /\ r \in policy.program => Past(r)
  <2>1. CASE stage' = After(stage)
    <3>1. stage' \in {"mmioLock", "done"}
      BY <2>1, <1>3, StageMoves
    <3>2. LimitsDone'
      BY <3>1 DEF LimitsDone
    <3> QED  BY <2>1, <1>3, <3>2, StageMoves
  <2>2. CASE stage' = stage
    <3>1. Due(stage)' <=> Due(stage)
      BY <1>1, <2>2 DEF Due
    <3>2. LimitsDone' /\ \A r : Past(r)' <=> Past(r)
      BY <2>2 DEF LimitsDone, Past
    <3> QED  BY <1>2, <1>3, <2>2, <3>1, <3>2 DEF StageInv
  <2> QED  BY <2>1, <2>2
<1>5. Past("cTDP")
  BY <1>3, PastTheLevel
<1>6. ASSUME NEW r \in Registers
      PROVE  /\ Programmed(r)' <=> Programmed(r)
             /\ AsAsked(r)' <=> AsAsked(r)
             /\ Programmed(r) => AsAsked(r)
             /\ lo'[r] = lo[r] /\ hi'[r] = hi[r]
  <2>1. /\ LimitsAsAsked(r)' <=> LimitsMet(r, lo'[r], hi'[r])
        /\ ClampsAsAsked(r)' <=> ClampsMet(r, lo'[r], hi'[r])
        /\ Programmed(r)' <=> Programmed(r)
    BY MetIsAsAskedNext
  <2>2. /\ LimitsAsAsked(r) <=> LimitsMet(r, lo[r], hi[r])
        /\ ClampsAsAsked(r) <=> ClampsMet(r, lo[r], hi[r])
    BY MetIsAsAsked
  <2>3. lo'[r] = lo[r] /\ hi'[r] = hi[r]
    OBVIOUS
  <2>4. Past(r)
    <3>1. PICK n \in 1 .. 11 : stage = Order[n]
      BY <1>3, OrderDomain
    <3>2. n >= 9
      BY <3>1, StagePlaces DEF LimitsDone
    <3>3. PICK i \in 2 .. 8 : r = Order[i]
      BY RegisterPlaces
    <3>4. Past(Order[i])
      BY <3>1, <3>2, PastIs
    <3> QED  BY <3>3, <3>4
  <2>5. Programmed(r) => AsAsked(r)
    BY <1>2, <2>4 DEF LimitInv
  <2>6. AsAsked(r)' <=> AsAsked(r)
    BY <2>1, <2>2, <2>3 DEF AsAsked
  <2> QED  BY <2>1, <2>3, <2>5, <2>6
<1>7. TypeOK'
  <2>1. locked' \subseteq Registers \cup {"cTDP"}
    BY <1>2 DEF TypeOK
  <2>2. lockAt' \in DOMAIN LockOrder
    BY LockOrderIs
  <2> QED  BY <1>1, <1>2, <1>4, <2>1, <2>2 DEF TypeOK
<1>8. MirrorInv'
  BY <1>1, <1>2 DEF MirrorInv
<1>9. StageInv'
  BY <1>4 DEF StageInv
<1>10. LimitInv'
  <2>1. ASSUME NEW r \in Registers
        PROVE  /\ ~Programmed(r)' => lo'[r] = Boot /\ hi'[r] = Boot
               /\ Programmed(r)' /\ Past(r)' => AsAsked(r)'
    BY <1>2, <1>6 DEF LimitInv
  <2> QED  BY <2>1 DEF LimitInv
<1>11. LockInv'
  <2>1. bootLocked' \subseteq locked'
    BY <1>1, <1>2 DEF LockInv
  <2>2. "cTDP" \notin bootLocked' => level' = policy'.level
    BY <1>1, <1>2, <1>5 DEF LockInv
  <2>3. \A i \in DOMAIN LockOrder :
          (i < lockAt' \/ cores' > 0 \/ stage' # "locks") /\ LockAsked(LockOrder[i])'
            => LockOrder[i] \in locked'
    <3>1. ASSUME NEW i \in 1 .. 6 PROVE LockAsked(LockOrder[i])' <=> LockAsked(LockOrder[i])
      <4>1. PICK r \in Registers \cup {"cTDP"} : r = LockOrder[i]
        BY LockOrderIs
      <4> QED  BY <1>1, <4>1 DEF LockAsked
    <3> QED  BY <3>1, LockOrderIs
  <2>4. stage' \in {"locks", "mmioLock", "done", "frozen"}
    BY <1>4 DEF LimitsDone
  <2> QED  BY <2>1, <2>2, <2>3, <2>4 DEF LockInv
<1>12. LocksAsAsked'
  <2>1. ASSUME NEW r \in locked' \ bootLocked'
        PROVE  /\ LockAsked(r)'
               /\ r \in Registers /\ Programmed(r)' => AsAsked(r)'
               /\ r = "cTDP" => level' = policy'.level
    <3>1. r \in Registers \cup {"cTDP"} /\ LockAsked(r)
      BY <1>1, <1>2, <2>1 DEF LocksAsAsked, TypeOK
    <3>2. LockAsked(r)'
      BY <3>1, SameLocksAsked
    <3>3. r = "cTDP" => level' = policy'.level
      BY <1>1, <1>2, <1>5, <2>1 DEF LockInv
    <3> QED  BY <1>6, <3>2, <3>3
  <2>2. ASSUME stage' = "done", NEW r \in Registers \cup {"cTDP"}, LockAsked(r)',
               r = "MMIO" => facts'.mchbar
        PROVE  r \in locked'
    <3>1. LockAsked(r)
      BY <2>2, SameLocksAsked
    <3>2. CASE r = "MMIO"
      BY <1>1, <2>2, <3>1, <3>2
    <3>3. CASE r # "MMIO"
      <4>1. PICK i \in 1 .. 6 : r = LockOrder[i]
        BY <3>3, LockOrderIs
      <4> QED  BY <2>2, <3>1, <4>1
    <3> QED  BY <3>2, <3>3
  <2> QED  BY <2>1, <2>2 DEF LocksAsAsked
<1> QED  BY <1>7, <1>8, <1>9, <1>10, <1>11, <1>12 DEF PowerInv

LEMMA NotClampingInTheLocks ==
  ASSUME PowerInv, LimitsDone
  PROVE  clamping = FALSE
BY DEF PowerInv, TypeOK, StageInv, LimitsDone, TwoHalves

LEMMA CoreLockStep == PowerInv /\ SetLock => PowerInv'
<1> SUFFICES ASSUME PowerInv, SetLock  PROVE PowerInv'
  OBVIOUS
<1>1. TypeOK /\ LockInv
  BY DEF PowerInv
<1>2. stage = "locks" /\ stage # "done" /\ LimitsDone /\ cores < NumCores
  BY <1>1 DEF SetLock, LimitsDone, LockInv
<1>3. lockAt \in 1 .. 6 /\ cores \in 0 .. NumCores /\ NumCores \in Nat
  BY <1>1, LockOrderIs, PowerAssumption DEF TypeOK
<1>4. PICK new :
        new = IF LockAsked(LockOrder[lockAt]) THEN {LockOrder[lockAt]} ELSE {}
  OBVIOUS
<1>5. locked' = locked \cup new
  BY <1>4 DEF SetLock
<1>6. new \subseteq Registers \cup {"cTDP"}
      /\ \A r \in new : LockAsked(r) /\ (r = "MMIO" => facts.mchbar)
  <2>1. LockOrder[lockAt] \in (Registers \ {"MMIO"}) \cup {"cTDP"}
    BY <1>3, LockOrderIs
  <2>2. LockOrder[lockAt] # "MMIO"
    BY <2>1 DEF Registers
  <2> QED  BY <1>4, <2>1, <2>2
<1>7. UNCHANGED <<lo, hi, level, powerCtl>> /\ UNCHANGED setup
  BY DEF SetLock
<1>8. clamping' = FALSE
  BY <1>2, NotClampingInTheLocks DEF SetLock
<1>9. \/ /\ lockAt < 6 /\ lockAt' = lockAt + 1 /\ stage' = stage /\ cores' = cores
      \/ /\ lockAt = 6 /\ lockAt' = 1 /\ cores' = cores + 1
         /\ stage' = IF cores' < NumCores THEN stage ELSE After(stage)
  BY <1>3, LockOrderIs DEF SetLock, NextLock
<1>10. stage \in {Order[i] : i \in DOMAIN Order}
  BY <1>1, <1>2 DEF TypeOK
<1>11. /\ stage' = stage \/ stage' = After(stage)
       /\ lockAt' \in 1 .. 6 /\ cores' \in 0 .. NumCores
  BY <1>2, <1>3, <1>9
<1>12. stage' = "locks" => cores' < NumCores
  <2>1. stage' = After(stage) => stage' # "locks"
    BY <1>2, <1>7, <1>10, StageMoves
  <2> QED  BY <1>2, <1>3, <1>9, <2>1
<1>13. \A i \in 1 .. 6 :
         (i < lockAt' \/ cores' > 0 \/ stage' # "locks") /\ LockAsked(LockOrder[i])
           => LockOrder[i] \in locked'
  <2> SUFFICES ASSUME NEW i \in 1 .. 6, i < lockAt' \/ cores' > 0 \/ stage' # "locks",
                      LockAsked(LockOrder[i])
               PROVE  LockOrder[i] \in locked'
    OBVIOUS
  <2>1. CASE i = lockAt
    BY <1>4, <1>5, <2>1
  <2>2. CASE i # lockAt
    <3>1. i < lockAt \/ cores > 0
      BY <1>2, <1>3, <1>9, <2>2
    <3>2. LockOrder[i] \in locked
      BY <1>1, <1>2, <3>1, LockOrderIs DEF LockInv
    <3> QED  BY <1>5, <3>2
  <2> QED  BY <2>1, <2>2
<1>14. stage' = "done" /\ LockAsked("MMIO") /\ facts.mchbar => "MMIO" \in locked'
  <2>1. stage' = "done" => stage' = After(stage)
    BY <1>2, <1>11
  <2>2. stage' = "done" => "MMIO" \notin policy.program
    BY <1>2, <1>7, <1>10, <2>1, StageMoves
  <2> QED  BY <2>2 DEF LockAsked
<1> QED  BY <1>2, <1>5, <1>6, <1>7, <1>8, <1>11, <1>12, <1>13, <1>14, StepOfTheLocks

LEMMA MirrorLockStep == PowerInv /\ SetPL12MMIOLock => PowerInv'
<1> SUFFICES ASSUME PowerInv, SetPL12MMIOLock  PROVE PowerInv'
  OBVIOUS
<1>1. TypeOK /\ LockInv
  BY DEF PowerInv
<1>2. stage = "mmioLock" /\ stage # "done" /\ stage # "locks" /\ LimitsDone
  BY DEF SetPL12MMIOLock, LimitsDone
<1>3. PICK new : new = IF LockAsked("MMIO") /\ facts.mchbar THEN {"MMIO"} ELSE {}
  OBVIOUS
<1>4. locked' = locked \cup new
  BY <1>3 DEF SetPL12MMIOLock
<1>5. new \subseteq Registers \cup {"cTDP"}
      /\ \A r \in new : LockAsked(r) /\ (r = "MMIO" => facts.mchbar)
  BY <1>3 DEF Registers
<1>6. /\ UNCHANGED <<lo, hi, level, powerCtl>> /\ UNCHANGED setup
      /\ clamping' = FALSE /\ stage' = After(stage)
      /\ lockAt' = lockAt /\ cores' = cores
  BY DEF SetPL12MMIOLock, GoOn
<1>7. lockAt' \in 1 .. 6 /\ cores' \in 0 .. NumCores
  BY <1>1, <1>6, LockOrderIs DEF TypeOK
<1>8. stage' # "locks"
  <2>1. stage' \in {"mmioLock", "done"}
    BY <1>1, <1>2, <1>6, StageMoves DEF TypeOK
  <2> QED  BY <2>1
<1>9. \A i \in 1 .. 6 : LockAsked(LockOrder[i]) => LockOrder[i] \in locked'
  <2>1. \A i \in 1 .. 6 : LockAsked(LockOrder[i]) => LockOrder[i] \in locked
    BY <1>1, <1>2, LockOrderIs DEF LockInv
  <2> QED  BY <1>4, <2>1
<1>10. LockAsked("MMIO") /\ facts.mchbar => "MMIO" \in locked'
  BY <1>3, <1>4
<1> QED  BY <1>2, <1>4, <1>5, <1>6, <1>7, <1>8, <1>9, <1>10, StepOfTheLocks

(* A step that leaves registers and locks alone and stops, or stutters.    *)
LEMMA StandStill ==
  ASSUME PowerInv, UNCHANGED <<hardware, setup, lockAt, cores>>,
         \/ stage' = "frozen" /\ clamping' = FALSE
         \/ UNCHANGED <<stage, clamping>>
  PROVE  PowerInv'
<1>1. /\ UNCHANGED <<lo, hi, locked, level, powerCtl, facts, policy, bootLocked, lockAt, cores>>
      /\ UNCHANGED setup
  BY DEF hardware, setup
<1>2. TypeOK /\ MirrorInv /\ StageInv /\ LimitInv /\ LockInv /\ LocksAsAsked
  BY DEF PowerInv
<1>3. \A r \in Registers \cup {"cTDP"} : LockAsked(r)' <=> LockAsked(r)
  BY <1>1, SameLocksAsked
<1>4. \A r \in Registers : /\ Programmed(r)' <=> Programmed(r)
                           /\ AsAsked(r)' <=> AsAsked(r)
                           /\ LimitsAsAsked(r)' <=> LimitsAsAsked(r)
  <2>1. ASSUME NEW r \in Registers
        PROVE  /\ Programmed(r)' <=> Programmed(r)
               /\ AsAsked(r)' <=> AsAsked(r)
               /\ LimitsAsAsked(r)' <=> LimitsAsAsked(r)
    <3>1. /\ LimitsAsAsked(r)' <=> LimitsMet(r, lo'[r], hi'[r])
          /\ ClampsAsAsked(r)' <=> ClampsMet(r, lo'[r], hi'[r])
          /\ Programmed(r)' <=> Programmed(r)
      BY <1>1, MetIsAsAskedNext
    <3>2. /\ LimitsAsAsked(r) <=> LimitsMet(r, lo[r], hi[r])
          /\ ClampsAsAsked(r) <=> ClampsMet(r, lo[r], hi[r])
      BY MetIsAsAsked
    <3> QED  BY <1>1, <3>1, <3>2 DEF AsAsked
  <2> QED  BY <2>1
<1>5. \A i \in DOMAIN LockOrder : LockAsked(LockOrder[i])' <=> LockAsked(LockOrder[i])
  <2>1. ASSUME NEW i \in DOMAIN LockOrder
        PROVE  LockAsked(LockOrder[i])' <=> LockAsked(LockOrder[i])
    <3>1. PICK r \in Registers \cup {"cTDP"} : r = LockOrder[i]
      BY LockOrderIs
    <3> QED  BY <1>1, <3>1 DEF LockAsked
  <2> QED  BY <2>1
<1>6. \A r \in locked' \ bootLocked' : r \in Registers \cup {"cTDP"}
  BY <1>1, <1>2 DEF TypeOK
<1>7. CASE UNCHANGED <<stage, clamping>>
  <2>1. TypeOK' /\ MirrorInv'
    BY <1>1, <1>2, <1>7 DEF TypeOK, MirrorInv
  <2>2. \A q : Past(q)' <=> Past(q)
    BY <1>7 DEF Past
  <2>3. LimitsDone' <=> LimitsDone
    BY <1>7 DEF LimitsDone
  <2>4. StageInv'
    <3>1. Due(stage)' <=> Due(stage)
      BY <1>1, <1>7 DEF Due
    <3>2. clamping' => /\ stage' \in TwoHalves \cup {"PP0"}
                       /\ Programmed(stage)' \/ stage' \in bootLocked'
      <4>1. PICK r : r = stage
        OBVIOUS
      <4>2. clamping => r \in TwoHalves \cup {"PP0"} /\ (Programmed(r) \/ r \in bootLocked)
        BY <1>2, <4>1 DEF StageInv
      <4>3. r \in TwoHalves \cup {"PP0"} => (Programmed(r)' <=> Programmed(r))
        BY <1>4 DEF TwoHalves, Registers
      <4>4. stage' = r
        BY <1>7, <4>1
      <4> QED  BY <1>1, <1>7, <4>2, <4>3, <4>4
    <3> QED  BY <1>2, <1>7, <3>1, <3>2 DEF StageInv
  <2>5. LimitInv'
    BY <1>1, <1>2, <1>4, <1>7, <2>2 DEF LimitInv
  <2>6. LockInv'
    BY <1>1, <1>2, <1>5, <1>7, <2>2, <2>3 DEF LockInv
  <2>7. LocksAsAsked'
    BY <1>1, <1>2, <1>3, <1>4, <1>6, <1>7 DEF LocksAsAsked
  <2> QED  BY <2>1, <2>4, <2>5, <2>6, <2>7 DEF PowerInv
<1>8. CASE stage' = "frozen" /\ clamping' = FALSE
  <2>1. TypeOK' /\ MirrorInv'
    BY <1>1, <1>2, <1>8 DEF TypeOK, MirrorInv
  <2>2. \A q : ~ Past(q)'
    <3>1. \A j \in 1 .. 11 : Order[j] # "frozen"
      BY StagePlaces
    <3> QED  BY <1>8, <3>1, OrderDomain DEF Past, Later
  <2>3. ~ LimitsDone'
    BY <1>8 DEF LimitsDone
  <2>4. StageInv'
    BY <1>8 DEF StageInv
  <2>5. LimitInv'
    BY <1>1, <1>2, <1>4, <1>8, <2>2 DEF LimitInv
  <2>6. LockInv'
    BY <1>1, <1>2, <1>8, <2>2, <2>3 DEF LockInv
  <2>7. LocksAsAsked'
    BY <1>1, <1>2, <1>3, <1>4, <1>6, <1>8 DEF LocksAsAsked
  <2> QED  BY <2>1, <2>4, <2>5, <2>6, <2>7 DEF PowerInv
<1> QED  BY <1>7, <1>8

LEMMA PowerInit == Init => PowerInv
<1> SUFFICES ASSUME Init  PROVE PowerInv
  OBVIOUS
<1>1. PICK s \in Starts : locked = s.locked /\ facts = s.facts /\ policy = s.policy
  BY DEF Init
<1>2. s.locked \subseteq Registers \cup {"cTDP"} /\ s.facts \in Facts /\ s.policy \in Policies
  BY PowerAssumption
<1>3. /\ lo = [r \in Registers |-> Boot] /\ hi = [r \in Registers |-> Boot]
      /\ level = 0 /\ powerCtl = {} /\ bootLocked = locked
      /\ stage = "cTDP" /\ clamping = FALSE /\ lockAt = 1 /\ cores = 0
  BY DEF Init
<1>4. Boot \in Halves
  <2>1. 2 \in Windows /\ 1 \in 0 .. PowerMask
    BY PowerAssumption DEF Windows
  <2>2. Field(2) \in {Field(w) : w \in Windows}
    BY <2>1
  <2> QED  BY <2>1, <2>2 DEF Boot, Halves
<1>5. stage = Order[1] /\ 1 \in DOMAIN Order
  BY <1>3 DEF Order
<1>6. \A q : ~ Past(q)
  <2>1. \A j \in 2 .. 11 : Order[j] # Order[1]
    BY OrderIsOneToOne, OrderDomain
  <2>2. \A q : \A j \in Later(q) : j \in 2 .. 11
    BY OrderDomain DEF Later
  <2> QED  BY <1>5, <2>1, <2>2 DEF Past
<1>7. TypeOK
  <2>1. stage \in {Order[i] : i \in DOMAIN Order}
    BY <1>5
  <2>2. lockAt \in DOMAIN LockOrder /\ cores \in 0 .. NumCores
    BY <1>3, LockOrderIs, PowerAssumption
  <2>3. lo \in [Registers -> Halves] /\ hi \in [Registers -> Halves]
    BY <1>3, <1>4
  <2>4. /\ locked \subseteq Registers \cup {"cTDP"} /\ bootLocked \subseteq Registers \cup {"cTDP"}
        /\ facts \in Facts /\ policy \in Policies
    BY <1>1, <1>2, <1>3
  <2>5. level \in 0 .. 3 /\ powerCtl \subseteq {"eeTurbo", "raceToHalt"}
    BY <1>3
  <2>6. clamping \in BOOLEAN
    <3>1. clamping = FALSE
      BY <1>3
    <3> QED  BY <3>1
  <2> QED  BY <2>1, <2>2, <2>3, <2>4, <2>5, <2>6 DEF TypeOK
<1>8. MirrorInv
  BY <1>3 DEF MirrorInv, Registers
<1>9. StageInv
  BY <1>3 DEF StageInv, Due, Registers
<1>10. LimitInv
  BY <1>3, <1>6 DEF LimitInv
<1>11. LockInv
  BY <1>3, <1>6 DEF LockInv, LimitsDone
<1>12. LocksAsAsked
  BY <1>3 DEF LocksAsAsked
<1> QED  BY <1>7, <1>8, <1>9, <1>10, <1>11, <1>12 DEF PowerInv

LEMMA PowerStep == PowerInv /\ [Next]_vars => PowerInv'
<1> SUFFICES ASSUME PowerInv, [Next]_vars  PROVE PowerInv'
  OBVIOUS
<1>1. CASE SetCTDPLevel
  BY <1>1, LevelStep
<1>2. CASE WindowRefused \/ LimitSkipped
  BY <1>2, SkipStep
<1>3. CASE SetPkgPowerLimit12
  BY <1>3, PackageStep
<1>4. CASE SetPlatformPowerLimit12
  BY <1>4, PlatformStep
<1>5. CASE SetPlatformPowerLimit3
  BY <1>5, PL3Step
<1>6. CASE SetPlatformPowerLimit4
  BY <1>6, PL4Step
<1>7. CASE SetPP0PowerLimit
  BY <1>7, PP0Step
<1>8. CASE Clamp
  BY <1>8, ClampStep
<1>9. CASE ProgramPowerCtl
  BY <1>9, PowerCtlStep
<1>10. CASE SetLock
  BY <1>10, CoreLockStep
<1>11. CASE SetPL12MMIOLock
  BY <1>11, MirrorLockStep
<1>12. CASE Fault
  BY <1>12, StandStill DEF Fault
<1>13. CASE UNCHANGED vars
  BY <1>13, StandStill DEF vars
<1> QED  BY <1>1, <1>2, <1>3, <1>4, <1>5, <1>6, <1>7, <1>8, <1>9, <1>10, <1>11, <1>12, <1>13
         DEF Next

(* Types, the mirror, the order of limits, clamp bits and locks hold in    *)
(* every state of every run of the handlers of src/src/PowerLimits.c.      *)
THEOREM PowerInvariant == Spec => []PowerInv
<1>1. Init => PowerInv
  BY PowerInit
<1>2. PowerInv /\ [Next]_vars => PowerInv'
  BY PowerStep
<1> QED  BY <1>1, <1>2, PTL DEF Spec

(* The limits of the profile are in force before any lock is set, and what *)
(* the program cannot write is as the firmware left it (ProgramPowerLimits *)
(* and ProgramPowerLimits_Stage2 of src/src/Platform.c).                   *)
THEOREM LimitsReachTheRegisters == Spec => []LimitsInForce
<1>1. PowerInv => LimitsInForce
  <2> SUFFICES ASSUME PowerInv, LimitsDone, NEW r \in Registers
               PROVE  IF Programmed(r) THEN AsAsked(r) ELSE lo[r] = Boot /\ hi[r] = Boot
    BY DEF LimitsInForce
  <2>1. stage \in {Order[i] : i \in DOMAIN Order} /\ LimitInv
    BY DEF PowerInv, TypeOK, LimitsDone
  <2>2. PICK n \in 1 .. 11 : stage = Order[n]
    BY <2>1, OrderDomain
  <2>3. n >= 9
    BY <2>2, StagePlaces DEF LimitsDone
  <2>4. PICK i \in 2 .. 8 : r = Order[i]
    BY RegisterPlaces
  <2>5. Past(r)
    <3>1. Past(Order[i])
      BY <2>2, <2>3, PastIs
    <3> QED  BY <2>4, <3>1
  <2> QED  BY <2>1, <2>5 DEF LimitInv
<1> QED  BY <1>1, PowerInvariant, PTL

(* Only the locks the profile asks for are set, over its limits, and when  *)
(* the program is done all of them are (ProgramCoreLocks on every          *)
(* processor and ProgramPackageLocks_Stage2 of src/src/Platform.c).        *)
THEOREM LocksCloseOnTheLimits == Spec => []LocksAsAsked
<1>1. PowerInv => LocksAsAsked
  BY DEF PowerInv
<1> QED  BY <1>1, PowerInvariant, PTL

=============================================================================
