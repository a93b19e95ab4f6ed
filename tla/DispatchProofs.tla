--------------------------- MODULE DispatchProofs ---------------------------
(***************************************************************************)
(* What the planner and the dispatcher keep for every device, every        *)
(* telemetry and every order of polls, discoveries, lost requests and      *)
(* crashes.                                                                *)
(***************************************************************************)
EXTENDS Dispatch, TLAPS

-----------------------------------------------------------------------------
(* Numbers *)

(* The maximum of some integers.                                           *)
LEMMA MaxIs ==
  ASSUME NEW S \in SUBSET Int, NEW m \in S, \A x \in S : m >= x
  PROVE  Max(S) = m
<1>1. /\ Max(S) \in S /\ \A x \in S : Max(S) >= x
  BY DEF Max
<1>2. Max(S) \in Int /\ m \in Int
  BY <1>1
<1>3. Max(S) >= m /\ m >= Max(S)
  BY <1>1
<1> QED BY <1>2, <1>3

(* The minimum of some integers.                                           *)
LEMMA MinIs ==
  ASSUME NEW S \in SUBSET Int, NEW m \in S, \A x \in S : m <= x
  PROVE  Min(S) = m
<1>1. /\ Min(S) \in S /\ \A x \in S : Min(S) <= x
  BY DEF Min
<1>2. Min(S) \in Int /\ m \in Int
  BY <1>1
<1>3. Min(S) <= m /\ m <= Min(S)
  BY <1>1
<1> QED BY <1>2, <1>3

(* The larger of two integers.                                             *)
LEMMA MaxOfTwo ==
  ASSUME NEW a \in Int, NEW b \in Int
  PROVE  Max({a, b}) = IF a >= b THEN a ELSE b
<1>1. CASE a >= b
  BY <1>1, MaxIs
<1>2. CASE ~(a >= b)
  BY <1>2, MaxIs
<1> QED BY <1>1, <1>2

(* The smaller of two integers.                                            *)
LEMMA MinOfTwo ==
  ASSUME NEW a \in Int, NEW b \in Int
  PROVE  Min({a, b}) = IF a <= b THEN a ELSE b
<1>1. CASE a <= b
  BY <1>1, MinIs
<1>2. CASE ~(a <= b)
  BY <1>2, MinIs
<1> QED BY <1>1, <1>2

(* The largest of three integers.                                          *)
LEMMA MaxOfThree ==
  ASSUME NEW a \in Int, NEW b \in Int, NEW c \in Int
  PROVE  /\ Max({a, b, c}) \in Int
         /\ Max({a, b, c}) >= a /\ Max({a, b, c}) >= b /\ Max({a, b, c}) >= c
<1>1. CASE a >= b /\ a >= c
  BY <1>1, MaxIs
<1>2. CASE b >= a /\ b >= c
  BY <1>2, MaxIs
<1>3. CASE c >= a /\ c >= b
  BY <1>3, MaxIs
<1> QED BY <1>1, <1>2, <1>3

(* Clamping to lo..hi.                                                     *)
LEMMA ClampedIs ==
  ASSUME NEW v \in Int, NEW lo \in Int, NEW hi \in Int, lo <= hi
  PROVE  Clamped(v, lo, hi) = IF v < lo THEN lo ELSE IF v > hi THEN hi ELSE v
<1>1. Min({hi, v}) = IF hi <= v THEN hi ELSE v
  BY MinOfTwo
<1>2. Min({hi, v}) \in Int
  BY <1>1
<1>3. Clamped(v, lo, hi) =
        IF lo >= Min({hi, v}) THEN lo ELSE Min({hi, v})
  BY <1>2, MaxOfTwo DEF Clamped
<1> QED BY <1>1, <1>3

(* Rounding a ratio is off by half at most.                                *)
LEMMA RatioIsNearest ==
  ASSUME NEW n \in Nat, NEW m \in Nat \ {0}
  PROVE  /\ RoundedRatio(n, m) \in Nat
         /\ -m <= 2 * (RoundedRatio(n, m) * m - n)
         /\ 2 * (RoundedRatio(n, m) * m - n) <= m
<1> DEFINE q == n \div m
           r == n % m
<1>1. q \in Nat /\ r \in 0 .. (m - 1) /\ n = q * m + r
  OBVIOUS
<1>2. RoundedRatio(n, m) =
        IF 2 * r > m \/ (2 * r = m /\ q % 2 = 1) THEN q + 1 ELSE q
  BY DEF RoundedRatio
<1> HIDE DEF q, r
<1>3. (q + 1) * m = q * m + m /\ q * m \in Int
  BY <1>1
<1>4. CASE RoundedRatio(n, m) = q + 1 /\ 2 * r >= m
  BY <1>1, <1>3, <1>4
<1>5. CASE RoundedRatio(n, m) = q /\ 2 * r <= m
  BY <1>1, <1>3, <1>5
<1> QED BY <1>1, <1>2, <1>4, <1>5

-----------------------------------------------------------------------------
(* Registers *)

(* Off by half a unit at most.                                             *)
Within(off, full) == -full <= 2 * off /\ 2 * off <= full

(* A percentage is a natural number, 0 for a power that is not positive.   *)
LEMMA PercentIsNat ==
  ASSUME NEW v \in Int, NEW full \in Nat \ {0}, NEW digits \in 0..3
  PROVE  /\ RawPercent(v, full, digits) \in Nat
         /\ v <= 0 => RawPercent(v, full, digits) = 0
<1> DEFINE c == Clamped(v, 0, full)
           n == c * 100 * Tens(digits)
<1>1. c \in Nat /\ (v <= 0 => c = 0)
  BY ClampedIs
<1>2. Tens(digits) \in Nat
  BY DEF Tens
<1>3. RawPercent(v, full, digits) = RoundedRatio(n, full)
  BY DEF RawPercent
<1> HIDE DEF c
<1>4. n \in Nat /\ (c = 0 => n = 0)
  BY <1>1, <1>2
<1> HIDE DEF n
<1>5. RoundedRatio(n, full) \in Nat
  BY <1>4, RatioIsNearest
<1>6. n = 0 => RoundedRatio(n, full) = 0
  <2>1. 0 \div full = 0 /\ 0 % full = 0
    OBVIOUS
  <2> QED BY <2>1 DEF RoundedRatio
<1> QED BY <1>1, <1>3, <1>4, <1>5, <1>6

(* A percentage is off by half a unit of its register at most.             *)
LEMMA PercentIsNearest ==
  ASSUME NEW v \in Int, NEW full \in Nat \ {0}, NEW digits \in 0..3
  PROVE  Within(RawPercent(v, full, digits) * full
                  - Clamped(v, 0, full) * 100 * Tens(digits), full)
<1> DEFINE n == Clamped(v, 0, full) * 100 * Tens(digits)
<1>1. RawPercent(v, full, digits) = RoundedRatio(n, full)
  BY DEF RawPercent
<1>2. n \in Nat
  <2>1. Clamped(v, 0, full) \in Nat
    BY ClampedIs
  <2>2. Tens(digits) \in Nat
    BY DEF Tens
  <2> QED BY <2>1, <2>2
<1> HIDE DEF n
<1>3. Within(RoundedRatio(n, full) * full - n, full)
  BY <1>2, RatioIsNearest DEF Within
<1> QED BY <1>1, <1>3 DEF n

(* The two sizes of a register, and what masking to 16 bits keeps.         *)
LEMMA WordIs == /\ Word \in Nat /\ Word > 2
                /\ Word \div 2 \in Nat /\ Word \div 2 < Word
BY DEF Word

(* What masking to 16 bits yields.                                         *)
LEMMA Unsigned16Is ==
  ASSUME NEW raw \in Nat
  PROVE  /\ Unsigned16(raw) \in 0..(Word - 1)
         /\ raw < Word => Unsigned16(raw) = raw
BY WordIs DEF Unsigned16

(* The values of the registers of a limit, point by point.                 *)
LEMMA ImmediateImageIs ==
  ASSUME NEW v \in Int, NEW full \in Nat \ {0}, NEW digits \in 0..3
  PROVE  LET r == ImmediateImage(v, full, digits)
         IN  /\ r \in [ImmediateOffsets -> 0..(Word - 1)]
             /\ r[5] = Unsigned16(RawPercent(v, full, digits))
             /\ r[6] = 0 /\ r[7] = 0 /\ r[8] = 0 /\ r[9] = 1
<1> DEFINE r == ImmediateImage(v, full, digits)
           low == Unsigned16(RawPercent(v, full, digits))
<1>1. low \in 0..(Word - 1)
  <2>1. RawPercent(v, full, digits) \in Nat
    BY PercentIsNat
  <2>2. Unsigned16(RawPercent(v, full, digits)) \in 0..(Word - 1)
    BY <2>1, Unsigned16Is
  <2> QED BY <2>2
<1>2. r = [o \in ImmediateOffsets |->
             CASE o = 5 -> low [] o = 9 -> 1 [] OTHER -> 0]
  BY DEF ImmediateImage
<1> HIDE DEF r, low
<1>3. r \in [ImmediateOffsets -> 0..(Word - 1)]
  BY <1>1, <1>2, WordIs DEF ImmediateOffsets
<1>4. r[5] = low /\ r[6] = 0 /\ r[7] = 0 /\ r[8] = 0 /\ r[9] = 1
  BY <1>2 DEF ImmediateOffsets
<1> QED BY <1>3, <1>4 DEF r, low

(* The same of the other model that limits.                                *)
LEMMA DerImageIs ==
  ASSUME NEW v \in Int, NEW full \in Nat \ {0}, NEW digits \in 0..3
  PROVE  LET r == DerImage(v, full, digits)
         IN  /\ r \in [DerOffsets -> 0..(Word - 1)]
             /\ r[15] = Unsigned16(RawPercent(v, full, digits))
             /\ r[14] = 1
<1> DEFINE r == DerImage(v, full, digits)
           low == Unsigned16(RawPercent(v, full, digits))
<1>1. low \in 0..(Word - 1)
  <2>1. RawPercent(v, full, digits) \in Nat
    BY PercentIsNat
  <2>2. Unsigned16(RawPercent(v, full, digits)) \in 0..(Word - 1)
    BY <2>1, Unsigned16Is
  <2> QED BY <2>2
<1>2. r = [o \in DerOffsets |->
             IF o = 14 THEN 1 ELSE low]
  BY DEF DerImage
<1> HIDE DEF r, low
<1>3. r \in [DerOffsets -> 0..(Word - 1)]
  BY <1>1, <1>2, WordIs DEF DerOffsets
<1>4. r[14] = 1 /\ r[15] = low
  BY <1>2 DEF DerOffsets
<1> QED BY <1>3, <1>4 DEF r, low

(* What a storage device is left with is the rate that was meant: both     *)
(* rates are written, and the one that is not used is 0.                   *)
LEMMA StorageImageMeans ==
  ASSUME NEW v \in Int, NEW c \in Nat \ {0}, NEW d \in Nat \ {0},
         inst.digits \in 0..3
  PROVE  LET r == StorageImage(v, c, d, inst.digits)
         IN  /\ NoTimers(r, 14..16)
             /\ IsNearest(StorageRate(r), v, IF v < 0 THEN c ELSE d)
             /\ r[12] = 0 \/ r[13] = 0
<1> DEFINE r == StorageImage(v, c, d, inst.digits)
<1>1. /\ r[5] = IF v > 0 THEN 2 ELSE IF v < 0 THEN 1 ELSE 0
      /\ r[12] = RawPercent(v, d, inst.digits)
      /\ r[13] = RawPercent(-v, c, inst.digits)
      /\ r[14] = 0 /\ r[15] = 0 /\ r[16] = 0
  BY DEF StorageImage, StorageOffsets
<1> HIDE DEF r
<1>2. NoTimers(r, 14..16)
  BY <1>1 DEF NoTimers
<1>3. Tens(inst.digits) \in Nat
  BY DEF Tens
<1>4. CASE v > 0
  <2>1. StorageRate(r) = RawPercent(v, d, inst.digits) /\ r[13] = 0
    BY <1>1, <1>4, PercentIsNat DEF StorageRate
  <2>2. Clamped(v, -d, d) = Clamped(v, 0, d)
    BY <1>4, ClampedIs
  <2>3. IsNearest(StorageRate(r), v, d)
    <3>1. Within(RawPercent(v, d, inst.digits) * d
                   - Clamped(v, 0, d) * 100 * Tens(inst.digits), d)
      BY PercentIsNearest
    <3> QED BY <2>1, <2>2, <3>1 DEF IsNearest, Within
  <2> QED BY <1>2, <1>4, <2>1, <2>3 DEF r
<1>5. CASE v < 0
  <2>1. StorageRate(r) = -RawPercent(-v, c, inst.digits) /\ r[12] = 0
    BY <1>1, <1>5, PercentIsNat DEF StorageRate
  <2>2. Clamped(v, -c, c) = -Clamped(-v, 0, c) /\ Clamped(-v, 0, c) \in Nat
    BY <1>5, ClampedIs
  <2>3. IsNearest(StorageRate(r), v, c)
    <3> DEFINE raw == RawPercent(-v, c, inst.digits)
               n == Clamped(-v, 0, c) * 100 * Tens(inst.digits)
    <3>1. Within(raw * c - n, c)
      BY <1>5, PercentIsNearest
    <3>2. n \in Int /\ raw \in Int /\ raw * c \in Int
      <4>1. -v \in Int
        OBVIOUS
      <4>2. raw \in Nat
        BY <4>1, PercentIsNat
      <4>3. n \in Int
        BY <1>3, <2>2
      <4> HIDE DEF raw
      <4> QED BY <4>2, <4>3
    <3>3. (-Clamped(-v, 0, c)) * 100 * Tens(inst.digits) = -n
      BY <1>3, <2>2
    <3> HIDE DEF raw, n
    <3>4. (-raw) * c = -(raw * c)
      BY <3>2
    <3>5. Within((-raw) * c - (-n), c)
      BY <3>1, <3>2, <3>4 DEF Within
    <3>6. StorageRate(r) = -raw
      BY <2>1 DEF raw
    <3>7. IsNearest(-raw, v, c)
      BY <2>2, <3>3, <3>5 DEF IsNearest, Within
    <3> QED BY <3>6, <3>7
  <2> QED BY <1>2, <1>5, <2>1, <2>3 DEF r
<1>6. CASE v = 0
  <2>1. StorageRate(r) = 0 /\ r[12] = 0
    <3>1. v <= 0
      BY <1>6
    <3>2. RawPercent(v, d, inst.digits) = 0
      BY <3>1, PercentIsNat
    <3> QED BY <1>1, <1>6, <3>2 DEF StorageRate
  <2>2. Clamped(v, -d, d) = 0
    BY <1>6, ClampedIs
  <2>3. IsNearest(StorageRate(r), v, d)
    BY <1>3, <2>1, <2>2 DEF IsNearest
  <2> QED BY <1>2, <1>6, <2>1, <2>3 DEF r
<1> QED BY <1>4, <1>5, <1>6

(* A limit that its register can say is the nearest it can hold.           *)
LEMMA LimitIsNearest ==
  ASSUME NEW v \in Int, NEW full \in Nat \ {0}, inst.digits \in 0..3,
         v >= 0, RawPercent(v, full, inst.digits) < Word
  PROVE  IsNearest(Unsigned16(RawPercent(v, full, inst.digits)), v, full)
<1> DEFINE raw == RawPercent(v, full, inst.digits)
<1>1. Within(raw * full - Clamped(v, 0, full) * 100 * Tens(inst.digits), full)
  BY PercentIsNearest
<1>2. Clamped(v, -full, full) = Clamped(v, 0, full)
  BY ClampedIs
<1>3. Unsigned16(raw) = raw
  <2>1. raw \in Nat
    BY PercentIsNat, Zenon
  <2>2. raw < Word
    OBVIOUS
  <2> HIDE DEF raw
  <2> QED BY <2>1, <2>2, Unsigned16Is
<1> HIDE DEF raw
<1>4. IsNearest(raw, v, full)
  BY <1>1, <1>2 DEF IsNearest, Within
<1> QED BY <1>3, <1>4 DEF raw

-----------------------------------------------------------------------------
(* The asset of a device *)

AdapterNames ==
  SUPPORTED_NATIVE_WRITE_PROFILES \cup {SIMULATION_ADAPTER_NAME, None}
ConstraintRecords == [lo : Int, hi : Int, soc : Int]
ContractRecords ==
  [kind : {None, "boolean", "number"}, lo : Int, hi : Int,
   adapter : AdapterNames,
   state : {"native", "native_disabled", "simulation", "unavailable"}]
Eligibilities == {"dispatchable", "plan_only", "read_only", "blocked"}
AssetRecords ==
  [type : AssetTypes \cup {None}, constraints : ConstraintRecords,
   contract : ContractRecords, eligibility : Eligibilities]

(* What the planner may ask of an asset: none but a battery is asked for a *)
(* negative power, and a battery starts from the charge it reports, or 50. *)
LEMMA ConstraintsAre ==
  ASSUME NEW t \in Telemetries, NEW type
  PROVE  /\ AssetConstraints(type, t) \in ConstraintRecords
         /\ AssetConstraints(type, t).lo <= 0
         /\ type = "battery" =>
              AssetConstraints(type, t).soc = OrElse(t.soc, 50)
         /\ type # "battery" => AssetConstraints(type, t).lo = 0
<1>1. /\ t.power \in Int /\ t.rating \in Int /\ t.charge \in Int
      /\ t.discharge \in Int /\ t.soc \in Int
  BY DEF Telemetries
<1>2. /\ OrElse(t.power, 0) \in Int /\ OrElse(t.power, 1) \in Int
      /\ OrElse(t.rating, 0) \in Int
  BY <1>1 DEF OrElse
<1>3. CASE type = "battery"
  <2>1. /\ OrElse(t.charge, 0) \in Int /\ OrElse(t.power, 0) \in Int
        /\ OrElse(t.discharge, OrElse(t.charge, 0)) \in Int
        /\ OrElse(t.soc, 50) \in Int
    BY <1>1 DEF OrElse
  <2>2. /\ Max({OrElse(t.charge, 0), OrElse(t.power, 0), 12}) \in Int
        /\ Max({OrElse(t.charge, 0), OrElse(t.power, 0), 12}) >= 12
    BY <2>1, 12 \in Int, MaxOfThree, Zenon
  <2>3. Max({OrElse(t.discharge, OrElse(t.charge, 0)), OrElse(t.power, 0),
             12}) \in Int
    BY <2>1, 12 \in Int, MaxOfThree, Zenon
  <2>4. AssetConstraints(type, t) = BatteryConstraints(t)
    BY <1>3 DEF AssetConstraints
  <2> QED BY <1>3, <2>1, <2>2, <2>3, <2>4
          DEF BatteryConstraints, ConstraintRecords
<1>4. CASE type = "ev_charger"
  <2>1. AssetConstraints(type, t) = EvConstraints(t)
    BY <1>4 DEF AssetConstraints
  <2> QED BY <1>1, <1>4, <2>1 DEF EvConstraints, ConstraintRecords, Missing
<1>5. CASE type = "heat_pump"
  <2>1. AssetConstraints(type, t) = HeatPumpConstraints(t)
    BY <1>5 DEF AssetConstraints
  <2>2. Max({OrElse(t.power, 0), 10}) \in Int
    BY <1>2, MaxOfTwo
  <2> QED BY <1>5, <2>1, <2>2
          DEF HeatPumpConstraints, ConstraintRecords, Missing
<1>6. CASE type = "pv_inverter"
  <2>1. AssetConstraints(type, t) = PvConstraints(t)
    BY <1>6 DEF AssetConstraints
  <2> QED BY <1>1, <1>2, <1>6, <2>1
          DEF PvConstraints, ConstraintRecords, Missing
<1>7. CASE type = "controllable_load"
  <2>1. AssetConstraints(type, t) = LoadConstraints(t)
    BY <1>7 DEF AssetConstraints
  <2>2. Max({OrElse(t.power, 1), 1}) \in Int
    BY <1>2, MaxOfTwo
  <2> QED BY <1>7, <2>1, <2>2
          DEF LoadConstraints, ConstraintRecords, Missing
<1>8. CASE type \notin {"battery", "ev_charger", "heat_pump", "pv_inverter",
                        "controllable_load"}
  <2>1. AssetConstraints(type, t) = NoConstraints
    BY <1>8 DEF AssetConstraints
  <2> QED BY <1>8, <2>1 DEF NoConstraints, ConstraintRecords, Missing
<1> QED BY <1>3, <1>4, <1>5, <1>6, <1>7, <1>8

(* A contract that is issued bounds the command by what the planner may    *)
(* ask, and the asset can take some power.                                 *)
LEMMA ContractIs ==
  ASSUME NEW t \in Telemetries, NEW type, NEW c \in ConstraintRecords,
         NEW profile, NEW native
  PROVE  LET contract == CommandContract(type, t, c, profile, native)
         IN  /\ contract \in ContractRecords
             /\ contract = NoContract
                \/ /\ contract.lo = c.lo /\ contract.hi = c.hi /\ c.hi > 0
                   /\ contract.kind = IF type = "controllable_load"
                                      THEN "boolean" ELSE "number"
<1> DEFINE state == ValidationState(profile, t.simulated, native)
           contract == CommandContract(type, t, c, profile, native)
<1>1. /\ state \in {"native", "native_disabled", "simulation", "unavailable"}
      /\ AdapterName(profile, state) \in AdapterNames
  BY DEF ValidationState, AdapterName, AdapterNames
<1>2. CASE contract = NoContract
  <2>1. NoContract \in ContractRecords
    BY DEF NoContract, ContractRecords, AdapterNames
  <2> QED BY <1>2, <2>1
<1>3. CASE ContractIsComplete(type, t, c)
  <2>1. contract = [kind |-> IF type = "controllable_load"
                             THEN "boolean" ELSE "number",
                    lo |-> c.lo, hi |-> c.hi,
                    adapter |-> AdapterName(profile, state), state |-> state]
    BY <1>3 DEF CommandContract
  <2>2. c.hi > 0
    BY <1>3 DEF ContractIsComplete
  <2> HIDE DEF state, contract
  <2> QED BY <1>1, <2>1, <2>2 DEF ContractRecords, ConstraintRecords, contract
<1> QED BY <1>2, <1>3 DEF CommandContract

(* The canonical asset of a device.                                        *)
AssetSound(a, t) ==
  /\ a \in AssetRecords
  /\ a.constraints.lo <= 0
  /\ a.type # "battery" => a.constraints.lo = 0
  /\ a.type = "battery" => a.constraints.soc = OrElse(t.soc, 50)
  /\ a.eligibility = "dispatchable" =>
       /\ a.type \in SUPPORTED_DISPATCH_ASSET_TYPES
       /\ a.contract.lo = a.constraints.lo
       /\ a.contract.hi = a.constraints.hi
       /\ a.constraints.hi > 0
       /\ a.contract.kind = IF a.type = "controllable_load"
                            THEN "boolean" ELSE "number"

(* Every device, role and profile yields a sound asset.                    *)
LEMMA CanonicalIsSound ==
  ASSUME NEW d \in Devices, NEW raw, NEW role \in AssetTypes \cup {None},
         NEW profile, NEW native
  PROVE  AssetSound(CanonicalAsset(raw, role, d, profile, native),
                    d.telemetry)
<1> DEFINE t == d.telemetry
           type == AssetType(raw, role, d.controllable, profile, t.simulated)
           c == AssetConstraints(type, t)
           contract == CommandContract(type, t, c, profile, native)
           eligibility == AssessDispatchability(d, type, contract)
           a == CanonicalAsset(raw, role, d, profile, native)
<1>1. t \in Telemetries
  BY DEF Devices
<1>2. type \in AssetTypes
  BY DEF AssetType, AssetTypes
<1>3. a = [type |-> type, constraints |-> c, contract |-> contract,
           eligibility |-> eligibility]
  BY DEF CanonicalAsset
<1>4. /\ eligibility \in Eligibilities
      /\ eligibility = "dispatchable" =>
           /\ type \in SUPPORTED_DISPATCH_ASSET_TYPES
           /\ contract # NoContract
  <2> HIDE DEF type, contract
  <2> QED BY DEF AssessDispatchability, Eligibilities
<1> HIDE DEF eligibility
<1>5. /\ c \in ConstraintRecords
      /\ c.lo <= 0
      /\ type = "battery" => c.soc = OrElse(t.soc, 50)
      /\ type # "battery" => c.lo = 0
  <2> HIDE DEF type, t
  <2> QED BY <1>1, ConstraintsAre
<1>6. /\ contract \in ContractRecords
      /\ contract = NoContract
         \/ /\ contract.lo = c.lo /\ contract.hi = c.hi /\ c.hi > 0
            /\ contract.kind = IF type = "controllable_load"
                               THEN "boolean" ELSE "number"
  <2> HIDE DEF type, t, c
  <2> QED BY <1>1, <1>5, ContractIs
<1> HIDE DEF type, c, contract, t
<1>7. AssetSound(a, t)
  <2> HIDE DEF a
  <2>1. a \in AssetRecords
    BY <1>2, <1>3, <1>4, <1>5, <1>6 DEF AssetRecords
  <2> QED BY <1>3, <1>4, <1>5, <1>6, <2>1 DEF AssetSound
<1> QED BY <1>7 DEF t

-----------------------------------------------------------------------------
(* The planner *)

(* The forecast is a number.                                               *)
LEMMA ForecastIsInt ==
  ASSUME NEW t \in Telemetries, NEW daylight \in Daylights
  PROVE  PvForecast(t, daylight) \in Int
<1>1. OrElse(t.power, 0) \in Int
  BY DEF OrElse, Telemetries
<1> DEFINE peak == Max({OrElse(t.power, 0), 14})
<1>2. peak \in Int
  BY <1>1, MaxOfTwo
<1>3. daylight \in Int
  BY DispatchAssumption
<1> HIDE DEF peak
<1>4. (peak * daylight) \div 4 \in Int
  BY <1>2, <1>3
<1> QED BY <1>4 DEF PvForecast, peak

(* A planned power lies within the constraints of its asset, and a battery *)
(* is left with its reserve.                                               *)
LEMMA PowerIsAsked ==
  ASSUME NEW t \in Telemetries, NEW a, AssetSound(a, t),
         a.eligibility = "dispatchable", NEW available \in Int,
         NEW v \in NumericCommands(a, t, available)
  PROVE  /\ v \in Int /\ a.constraints.lo <= v /\ v <= a.constraints.hi
         /\ a.type = "battery" =>
              OrElse(t.soc, 50) - v * SocPerUnit \in ReservePct..100
<1> DEFINE c == a.constraints
<1>1. /\ c.lo \in Int /\ c.hi \in Int /\ c.lo <= 0 /\ c.hi > 0
      /\ a.type # "battery" => c.lo = 0
      /\ a.type = "battery" => c.soc = OrElse(t.soc, 50)
  BY DEF AssetSound, AssetRecords, ConstraintRecords
<1>2. Levels \subseteq Int
  BY SitePlanAssumption
<1>3. CASE a.type = "battery"
  <2>1. v \in BatteryCommands(c)
    BY <1>3 DEF NumericCommands
  <2>2. v \in Levels /\ v \in c.lo .. c.hi
        /\ c.soc - v * SocPerUnit \in ReservePct..100
    BY <2>1 DEF BatteryCommands
  <2> QED BY <1>1, <1>2, <1>3, <2>2
<1>4. CASE a.type = "pv_inverter"
  <2>1. v \in PvCommands(c, available)
    BY <1>4 DEF NumericCommands
  <2>2. v \in Levels /\ v \in 0..available /\ v <= c.hi
    BY <1>1, <2>1 DEF PvCommands
  <2> QED BY <1>1, <1>2, <1>4, <2>2
<1>5. CASE a.type \notin {"battery", "pv_inverter"}
  <2>1. v = 0 \/ v \in RangeCommands(c)
    BY <1>5 DEF NumericCommands
  <2>2. v = 0 \/ v \in c.lo .. c.hi
    BY <2>1 DEF RangeCommands
  <2> QED BY <1>1, <1>5, <2>2
<1> QED BY <1>3, <1>4, <1>5

(* A load that the schedule turns on stays on for the minimum time.        *)
LEMMA SwitchIsHeld ==
  ASSUME NEW m \in MinimumOns, NEW on \in LoadSchedules(m)
  PROVE  /\ on \in [StepSet -> 0..1]
         /\ \A s \in StepSet :
              on[s] = 1 /\ (s = 0 \/ on[s - 1] = 0) =>
                \A h \in s .. (s + m - 1) : h \in StepSet /\ on[h] = 1
<1>1. on \in [StepSet -> 0..1]
  BY DEF LoadSchedules
<1>2. PICK start \in StartStates(on) : Held(on, start, m)
  BY DEF LoadSchedules
<1>3. m \in Nat \ {0} /\ Steps \in Nat \ {0}
  BY DispatchAssumption, SitePlanAssumption
<1> SUFFICES ASSUME NEW s \in StepSet, on[s] = 1, s = 0 \/ on[s - 1] = 0
             PROVE  \A h \in s .. (s + m - 1) : h \in StepSet /\ on[h] = 1
  BY <1>1
<1>4. start \in [StepSet -> 0..1]
  BY <1>2 DEF StartStates
<1>5. start[s] = 1
  <2>1. CASE s = 0
    BY <1>2, <2>1 DEF StartStates
  <2>2. CASE s # 0
    <3>1. s \in 1 .. (Steps - 1)
      BY <1>3, <2>2 DEF StepSet
    <3>2. start[s] >= on[s] - on[s - 1]
      BY <1>2, <3>1 DEF StartStates
    <3>3. start[s] \in 0..1
      BY <1>4
    <3> QED BY <2>2, <3>2, <3>3
  <2> QED BY <2>1, <2>2
<1>6. /\ s + m <= Steps
      /\ \A h \in s .. (s + m - 1) : on[h] >= 1
  <2>1. s \in Nat
    BY <1>3 DEF StepSet
  <2>2. IF s + m > Steps THEN start[s] = 0
        ELSE \A h \in s .. (s + m - 1) : on[h] >= start[s]
    BY <1>2 DEF Held
  <2> QED BY <1>3, <1>5, <2>1, <2>2
<1> QED BY <1>1, <1>3, <1>6 DEF StepSet

(* Clamping leaves such a command as it was planned.                       *)
LEMMA CommandIsPlan ==
  ASSUME NEW t \in Telemetries, NEW a, AssetSound(a, t),
         a.eligibility = "dispatchable", NEW v \in Int,
         IF a.type = "controllable_load" THEN v \in 0..1
         ELSE a.constraints.lo <= v /\ v <= a.constraints.hi
  PROVE  ClampedCommand(a.contract, v) = v
<1>1. /\ a.contract.lo = a.constraints.lo /\ a.contract.hi = a.constraints.hi
      /\ a.constraints.lo \in Int /\ a.constraints.hi \in Int
      /\ a.constraints.lo <= 0 /\ a.constraints.hi > 0
      /\ a.contract.kind = IF a.type = "controllable_load"
                           THEN "boolean" ELSE "number"
  BY DEF AssetSound, AssetRecords, ConstraintRecords
<1>2. CASE a.type = "controllable_load"
  BY <1>1, <1>2 DEF ClampedCommand
<1>3. CASE a.type # "controllable_load"
  <2> DEFINE lo == a.constraints.lo
             hi == a.constraints.hi
  <2>1. ClampedCommand(a.contract, v) = Clamped(v, lo, hi)
    BY <1>1, <1>3 DEF ClampedCommand
  <2>2. lo \in Int /\ hi \in Int /\ lo <= v /\ v <= hi
    BY <1>1, <1>3
  <2> HIDE DEF lo, hi
  <2> QED BY <2>1, <2>2, ClampedIs
<1> QED BY <1>2, <1>3

(* What is sent is a number.                                               *)
LEMMA CommandIsInt ==
  ASSUME NEW contract \in ContractRecords, NEW v \in Int,
         contract.lo <= contract.hi
  PROVE  ClampedCommand(contract, v) \in Int
<1> DEFINE lo == contract.lo
           hi == contract.hi
<1>1. lo \in Int /\ hi \in Int /\ lo <= hi
  BY DEF ContractRecords
<1> HIDE DEF lo, hi
<1>2. Clamped(v, lo, hi) \in Int
  BY <1>1, ClampedIs
<1> QED BY <1>2 DEF ClampedCommand, lo, hi

-----------------------------------------------------------------------------
(* The invariant *)

SunSpec == {"sunspec_storage_basic_rate", "sunspec_der_wmax_pct",
            "sunspec_immediate_wmax_pct"}

Images == UNION {[S -> Int] : S \in SUBSET Nat}
SessionRecords ==
  [row : RawTypes \cup {None}, asset : AssetRecords,
   telemetry : Telemetries \cup {None}, plan : Int,
   schedule : [StepSet -> 0..1], minimumOn : Nat, command : Int,
   adapter : AdapterNames, image : Images, outcome : Outcomes]

(* What the session s means the registers to be.                           *)
Meant(s) ==
  Image(s.adapter, NumericCommand(s.asset.contract, s.command), s.asset,
        s.telemetry, inst.digits)

(* The registers r hold of it what is not left to be written.              *)
Sent(s, r) ==
  LET m == DispatchModel(s.adapter)
  IN  /\ s.adapter \in SunSpec
      /\ LimitsKnown(s.adapter, s.asset, s.telemetry)
      /\ Encodes(s.adapter, Meant(s))
      /\ \A o \in Offsets(m) :
           IF o \in DOMAIN s.image THEN s.image[o] = Meant(s)[o]
           ELSE r[m][o] = Meant(s)[o]

(* A write leaves nothing or, of a storage device, the second request.     *)
Remaining(adapter) ==
  {Offsets(DispatchModel(adapter))} \cup
    (IF adapter = "sunspec_storage_basic_rate" THEN {12..16} ELSE {})

(* What was planned: it fits the contract, a load stays on, and a battery  *)
(* keeps its reserve of the charge it was planned with.                    *)
PlanSound(s) ==
  /\ ClampedCommand(s.asset.contract, s.plan) = s.plan
  /\ \A h \in StepSet :
       s.schedule[h] = 1 /\ (h = 0 \/ s.schedule[h - 1] = 0) =>
         \A k \in h .. (h + s.minimumOn - 1) :
           k \in StepSet /\ s.schedule[k] = 1
  /\ s.asset.type = "battery" =>
       OrElse(s.telemetry.soc, 50) - s.plan * SocPerUnit
         \in ReservePct..100

(* The session s at stage p, with the evidence e, the registers r and the  *)
(* relay as they are.                                                      *)
SessionInv(p, s, e, r, switch) ==
  /\ s \in SessionRecords
  /\ p # "done" => s.outcome = None
  /\ p # "idle" => s.telemetry \in Telemetries
  /\ p \notin {"idle", "done"} => AssetSound(s.asset, s.telemetry)
  /\ p \notin {"idle", "solving", "done"} =>
       s.asset.eligibility = "dispatchable"
  /\ p = "dispatching" => PlanSound(s)
  /\ p \in {"reading", "writing", "switching"} =>
       /\ inst.native
       /\ s.adapter = s.asset.contract.adapter
       /\ s.adapter = Profile(e)
       /\ DispatchModel(s.adapter) \in Blocks(e) \cup {0}
       /\ s.adapter \in IF p = "switching"
                        THEN {"shelly_http_relay", "tasmota_http_power"}
                        ELSE SunSpec
  /\ p = "writing" => Sent(s, r) /\ DOMAIN s.image \in Remaining(s.adapter)
  /\ p = "done" /\ s.outcome = "applied" =>
       IF Http(s.adapter) THEN (switch = "on") = (s.command > 0)
       ELSE Sent(s, r) /\ DOMAIN s.image = {}

(* One of the two rates of a storage device is 0 once they are written.    *)
RegistersInv(r) ==
  /\ DOMAIN r = {123, 124, 704}
  /\ \A m \in {123, 124, 704} : r[m] \in [Offsets(m) -> 0..(Word - 1)]
  /\ \/ r[124][12] = 1 /\ r[124][13] = 1
     \/ r[124][12] = 0 \/ r[124][13] = 0

DispatchInv ==
  /\ inst \in Installations
  /\ device \in Devices
  /\ DOMAIN evidence = {"candidate", "connected", "endpoint"}
  /\ evidence.connected \in BOOLEAN
  /\ pc \in Stages /\ relay \in {"on", "off"}
  /\ event.status \in Outcomes
  /\ replans \in 0..MaxReplans /\ changes \in 0..MaxChanges
  /\ RegistersInv(regs)
  /\ SessionInv(pc, ses, evidence, regs, relay)

(* A session that has read nothing.                                        *)
LEMMA NoSessionIs == NoSession \in SessionRecords
<1>1. <<>> \in Images
  <2>1. <<>> \in [{} -> Int]
    OBVIOUS
  <2> QED BY <2>1 DEF Images
<1>2. NoAsset \in AssetRecords
  BY DEF NoAsset, AssetRecords, NoConstraints, ConstraintRecords, NoContract,
     ContractRecords, AdapterNames, Eligibilities, Missing
<1>3. NoSchedule \in [StepSet -> 0..1]
  BY DEF NoSchedule
<1> QED BY <1>1, <1>2, <1>3
        DEF NoSession, SessionRecords, AdapterNames, Outcomes

(* Such a session is sound before a replan.                                *)
LEMMA IdleSession ==
  ASSUME NEW e, NEW r, NEW switch
  PROVE  SessionInv("idle", NoSession, e, r, switch)
<1>1. NoSession \in SessionRecords /\ NoSession.outcome = None
  BY NoSessionIs DEF NoSession
<1> QED BY <1>1 DEF SessionInv

(* A replan that ends without having applied its command.                  *)
LEMMA EndedSession ==
  ASSUME NEW s \in SessionRecords, s.telemetry \in Telemetries,
         s.outcome # "applied", NEW e, NEW r, NEW switch
  PROVE  SessionInv("done", s, e, r, switch)
BY DEF SessionInv

(* What the device starts with.                                            *)
LEMMA DispatchInit == Init => DispatchInv
<1> SUFFICES ASSUME Init PROVE DispatchInv
  OBVIOUS
<1>1. /\ inst \in Installations
      /\ inst.device \in Devices /\ inst.connected \in BOOLEAN
  BY DispatchAssumption DEF Init
<1>2. RegistersInv(regs)
  <2>1. regs = [m \in {123, 124, 704} |-> [o \in Offsets(m) |-> 1]]
    BY DEF Init
  <2>2. \A m \in {123, 124, 704} : regs[m] = [o \in Offsets(m) |-> 1]
    BY <2>1
  <2>3. 1 \in 0..(Word - 1)
    BY WordIs
  <2>4. 12 \in Offsets(124) /\ 13 \in Offsets(124)
    BY DEF Offsets, StorageOffsets
  <2> QED BY <2>1, <2>2, <2>3, <2>4 DEF RegistersInv
<1>3. SessionInv(pc, ses, evidence, regs, relay)
  BY IdleSession DEF Init
<1> QED BY <1>1, <1>2, <1>3, DispatchAssumption
        DEF Init, DispatchInv, Stages, Outcomes

-----------------------------------------------------------------------------
(* Planning *)

(* The type a replan gives the asset is one of the types.                  *)
LEMMA RowType ==
  ASSUME DispatchInv
  PROVE  AssetRow \in RawTypes \cup {None}
<1> DEFINE profile == IF evidence.connected THEN evidence.endpoint.profile
                      ELSE None
           inferred == InferredAssetType(inst.raw, device.controllable,
                          profile, device.telemetry.curtail, TRUE)
<1>1. device.asset \in RawTypes \cup {None}
  BY DEF DispatchInv, Devices
<1>2. inferred \in AssetTypes \cup {None}
  <2> HIDE DEF profile
  <2> QED BY DEF InferredAssetType, AssetTypes
<1>3. AssetRow = IF inst.configured /\ inferred # None THEN inferred
                 ELSE device.asset
  BY DEF AssetRow
<1> QED BY <1>1, <1>2, <1>3 DEF RawTypes

(* The session of a replan starts with a sound asset.                      *)
LEMMA BuildSession ==
  ASSUME DispatchInv, BuildSiteModel
  PROVE  SessionInv(pc', ses', evidence', regs', relay')
<1> DEFINE asset == CanonicalAsset(AssetRow, inst.role, device,
                                   Profile(evidence), inst.native)
           s == [NoSession EXCEPT !.row = AssetRow, !.asset = asset,
                                  !.telemetry = device.telemetry]
<1>1. pc' = "solving" /\ ses' = s
  BY DEF BuildSiteModel
<1>2. AssetSound(asset, device.telemetry)
  <2>1. inst.role \in AssetTypes \cup {None} /\ device \in Devices
    BY DispatchAssumption DEF DispatchInv
  <2> QED BY <2>1, CanonicalIsSound
<1>3. device.telemetry \in Telemetries
  BY DEF DispatchInv, Devices
<1> HIDE DEF asset
<1>4. asset \in AssetRecords
  BY <1>2 DEF AssetSound
<1>5. /\ s \in SessionRecords /\ s.asset = asset
      /\ s.telemetry = device.telemetry /\ s.outcome = None
  BY <1>3, <1>4, RowType, NoSessionIs DEF SessionRecords, NoSession
<1> HIDE DEF s
<1> QED BY <1>1, <1>2, <1>3, <1>5 DEF SessionInv

(* A plan is sound.                                                        *)
LEMMA PlanSession ==
  ASSUME DispatchInv, NEW v \in Int, NEW on \in [StepSet -> 0..1],
         NEW m \in Nat, Plan(v, on, m),
         PlanSound([ses EXCEPT !.plan = v, !.schedule = on,
                               !.minimumOn = m])
  PROVE  SessionInv(pc', ses', evidence', regs', relay')
<1> DEFINE s == [ses EXCEPT !.plan = v, !.schedule = on, !.minimumOn = m]
<1>1. /\ pc = "solving" /\ pc' = "dispatching" /\ ses' = s
      /\ ses.asset.eligibility = "dispatchable"
  BY DEF Plan
<1>2. /\ ses \in SessionRecords /\ ses.outcome = None
      /\ ses.telemetry \in Telemetries
      /\ AssetSound(ses.asset, ses.telemetry)
  BY <1>1 DEF DispatchInv, SessionInv
<1>3. /\ s \in SessionRecords /\ s.outcome = None
      /\ s.asset = ses.asset /\ s.telemetry = ses.telemetry
  BY <1>2 DEF SessionRecords
<1> QED BY <1>1, <1>2, <1>3 DEF SessionInv

(* Both kinds of plan are sound.                                           *)
LEMMA SolveSession ==
  ASSUME DispatchInv, Solve
  PROVE  SessionInv(pc', ses', evidence', regs', relay')
<1>1. /\ pc = "solving"
      /\ IF ses.asset.type = "controllable_load" THEN SolveSwitch
         ELSE SolvePower
  BY DEF Solve
<1>2. /\ ses \in SessionRecords
      /\ ses.telemetry \in Telemetries
      /\ AssetSound(ses.asset, ses.telemetry)
  BY <1>1 DEF DispatchInv, SessionInv
<1>3. \A v, on, m :
        LET s == [ses EXCEPT !.plan = v, !.schedule = on, !.minimumOn = m]
        IN  /\ s.plan = v /\ s.schedule = on /\ s.minimumOn = m
            /\ s.asset = ses.asset /\ s.telemetry = ses.telemetry
  BY <1>2 DEF SessionRecords
<1>4. CASE ses.asset.type = "controllable_load"
  <2>1. PICK m \in MinimumOns : \E on \in LoadSchedules(m) : Plan(on[0], on, m)
    BY <1>1, <1>4 DEF SolveSwitch
  <2>2. PICK on \in LoadSchedules(m) : Plan(on[0], on, m)
    BY <2>1
  <2>3. /\ on \in [StepSet -> 0..1]
        /\ \A h \in StepSet :
             on[h] = 1 /\ (h = 0 \/ on[h - 1] = 0) =>
               \A k \in h .. (h + m - 1) : k \in StepSet /\ on[k] = 1
    BY SwitchIsHeld
  <2>4. m \in Nat /\ on[0] \in 0..1 /\ on[0] \in Int
    BY <2>3, DispatchAssumption, SitePlanAssumption DEF StepSet
  <2>5. ses.asset.eligibility = "dispatchable"
    BY <2>2 DEF Plan
  <2>6. ClampedCommand(ses.asset.contract, on[0]) = on[0]
    BY <1>2, <1>4, <2>4, <2>5, CommandIsPlan
  <2>7. PlanSound([ses EXCEPT !.plan = on[0], !.schedule = on,
                              !.minimumOn = m])
    BY <1>3, <1>4, <2>3, <2>6 DEF PlanSound
  <2> QED BY <2>2, <2>3, <2>4, <2>7, PlanSession
<1>5. CASE ses.asset.type # "controllable_load"
  <2>1. PICK daylight \in Daylights :
          \E v \in NumericCommands(ses.asset, ses.telemetry,
                                   PvForecast(ses.telemetry, daylight)) :
            Plan(v, NoSchedule, 1)
    BY <1>1, <1>5 DEF SolvePower
  <2>2. PICK v \in NumericCommands(ses.asset, ses.telemetry,
                                   PvForecast(ses.telemetry, daylight)) :
          Plan(v, NoSchedule, 1)
    BY <2>1
  <2>3. ses.asset.eligibility = "dispatchable"
    BY <2>2 DEF Plan
  <2>4. PvForecast(ses.telemetry, daylight) \in Int
    BY <1>2, ForecastIsInt
  <2>5. /\ v \in Int /\ ses.asset.constraints.lo <= v
        /\ v <= ses.asset.constraints.hi
        /\ ses.asset.type = "battery" =>
             OrElse(ses.telemetry.soc, 50) - v * SocPerUnit
               \in ReservePct..100
    BY <1>2, <2>2, <2>3, <2>4, PowerIsAsked
  <2>6. ClampedCommand(ses.asset.contract, v) = v
    BY <1>2, <1>5, <2>3, <2>5, CommandIsPlan
  <2>7. /\ NoSchedule \in [StepSet -> 0..1]
        /\ \A h \in StepSet : NoSchedule[h] = 0
    BY DEF NoSchedule
  <2>8. PlanSound([ses EXCEPT !.plan = v, !.schedule = NoSchedule,
                              !.minimumOn = 1])
    BY <1>3, <2>5, <2>6, <2>7 DEF PlanSound
  <2> QED BY <2>2, <2>5, <2>7, <2>8, PlanSession
<1> QED BY <1>4, <1>5

-----------------------------------------------------------------------------
(* Dispatching *)

(* What every step of a dispatch finds.                                    *)
LEMMA DispatchingSession ==
  ASSUME DispatchInv,
         pc \in {"dispatching", "reading", "writing", "switching"}
  PROVE  /\ ses \in SessionRecords /\ ses.outcome = None
         /\ ses.telemetry \in Telemetries
         /\ AssetSound(ses.asset, ses.telemetry)
         /\ ses.asset.eligibility = "dispatchable"
         /\ inst.digits \in 0..3
BY DispatchAssumption DEF DispatchInv, SessionInv

(* The command is a number.                                                *)
LEMMA CommandType ==
  ASSUME DispatchInv, pc = "dispatching"
  PROVE  Command \in Int
<1>1. /\ ses \in SessionRecords
      /\ AssetSound(ses.asset, ses.telemetry)
      /\ ses.asset.eligibility = "dispatchable"
  BY DispatchingSession
<1>2. ses.asset.contract \in ContractRecords /\ ses.plan \in Int
  BY <1>1 DEF SessionRecords, AssetRecords
<1>3. ses.asset.contract.lo <= ses.asset.contract.hi
  <2>1. /\ ses.asset.constraints.lo \in Int /\ ses.asset.constraints.hi \in Int
    BY <1>1 DEF AssetSound, AssetRecords, ConstraintRecords
  <2> QED BY <1>1, <2>1 DEF AssetSound
<1> QED BY <1>2, <1>3, CommandIsInt DEF Command

(* Another measured power leaves a session what it is.                     *)
LEMMA MeasuredSession ==
  ASSUME NEW s \in SessionRecords, s.telemetry \in Telemetries,
         NEW x \in Int
  PROVE  LET n == [s EXCEPT !.telemetry.power = x]
         IN  /\ n \in SessionRecords /\ n.telemetry \in Telemetries
             /\ n.outcome = s.outcome /\ n.asset = s.asset
             /\ n.command = s.command /\ n.adapter = s.adapter
             /\ n.image = s.image
             /\ n.telemetry = [s.telemetry EXCEPT !.power = x]
<1> DEFINE t == [s.telemetry EXCEPT !.power = x]
           n == [s EXCEPT !.telemetry.power = x]
<1>1. t \in Telemetries
  BY DEF Telemetries
<1>2. n = [s EXCEPT !.telemetry = t]
  BY DEF SessionRecords
<1> HIDE DEF t, n
<1>3. /\ n \in SessionRecords /\ n.telemetry = t
      /\ n.outcome = s.outcome /\ n.asset = s.asset
      /\ n.command = s.command /\ n.adapter = s.adapter
      /\ n.image = s.image
  BY <1>1, <1>2 DEF SessionRecords
<1> QED BY <1>1, <1>3 DEF t, n

(* The adapter of the contract is chosen only if it is enabled and the     *)
(* evidence still supports it.                                             *)
LEMMA ChosenAdapter ==
  ASSUME NEW contract, NEW x \in Adapters(contract),
         x # SIMULATION_ADAPTER_NAME
  PROVE  /\ inst.native /\ x = contract.adapter /\ x = Profile(evidence)
         /\ x \in SUPPORTED_NATIVE_WRITE_PROFILES
BY DEF Adapters

(* A dispatch that finds no adapter.                                       *)
LEMMA BlockedSession ==
  ASSUME DispatchInv, DispatchBlocked
  PROVE  SessionInv(pc', ses', evidence', regs', relay')
<1> DEFINE s == [[ses EXCEPT !.command = Command] EXCEPT !.outcome = "blocked"]
<1>1. pc = "dispatching" /\ pc' = "done" /\ ses' = s
  BY DEF DispatchBlocked, Finish
<1>2. /\ ses \in SessionRecords /\ ses.telemetry \in Telemetries
      /\ Command \in Int
  BY <1>1, DispatchingSession, CommandType
<1>3. /\ s \in SessionRecords /\ s.telemetry = ses.telemetry
      /\ s.outcome = "blocked"
  BY <1>2 DEF SessionRecords, Outcomes
<1> HIDE DEF s
<1> QED BY <1>1, <1>2, <1>3, EndedSession

(* A dispatch to a simulated device.                                       *)
LEMMA SimulatedSession ==
  ASSUME DispatchInv, DispatchSimulated
  PROVE  SessionInv(pc', ses', evidence', regs', relay')
<1> DEFINE a == [ses EXCEPT !.command = Command,
                            !.adapter = SIMULATION_ADAPTER_NAME]
           x == IF ses.asset.type = "battery" THEN Max({Command, -Command})
                ELSE ses.telemetry.power
           b == [a EXCEPT !.telemetry.power = x]
           s == [b EXCEPT !.outcome = "simulated"]
<1>1. pc = "dispatching" /\ pc' = "done"
  BY DEF DispatchSimulated, Finish
<1>2. /\ ses \in SessionRecords /\ ses.telemetry \in Telemetries
      /\ Command \in Int
  BY <1>1, DispatchingSession, CommandType
<1>3. ses' = s
  BY <1>2 DEF DispatchSimulated, Finish, SessionRecords
<1>4. a \in SessionRecords /\ a.telemetry = ses.telemetry
  BY <1>2 DEF SessionRecords, AdapterNames
<1>5. x \in Int
  <2>1. -Command \in Int
    BY <1>2
  <2>2. Max({Command, -Command}) \in Int
    BY <1>2, <2>1, MaxOfTwo
  <2> QED BY <1>2, <2>2 DEF Telemetries
<1> HIDE DEF x, a
<1>6. b \in SessionRecords /\ b.telemetry \in Telemetries
  BY <1>2, <1>4, <1>5, MeasuredSession
<1> HIDE DEF b
<1>7. /\ s \in SessionRecords /\ s.telemetry = b.telemetry
      /\ s.outcome = "simulated"
  BY <1>6 DEF SessionRecords, Outcomes
<1> HIDE DEF s
<1> QED BY <1>1, <1>3, <1>6, <1>7, EndedSession

(* A dispatch to a native adapter starts with what the write is guarded    *)
(* by.                                                                     *)
LEMMA NativeSession ==
  ASSUME DispatchInv, DispatchNative
  PROVE  SessionInv(pc', ses', evidence', regs', relay')
<1>1. pc = "dispatching" /\ UNCHANGED evidence
  BY DEF DispatchNative, environment
<1>2. PICK adapter \in Adapters(ses.asset.contract)
                       \ {SIMULATION_ADAPTER_NAME} :
        LET s == [ses EXCEPT !.command = Command, !.adapter = adapter]
        IN  IF Http(adapter)
            THEN pc' = "switching" /\ ses' = s
            ELSE IF MetadataMissing(adapter)
                 THEN Finish("failed", s)
                 ELSE pc' = "reading" /\ ses' = s
  BY DEF DispatchNative
<1> DEFINE s == [ses EXCEPT !.command = Command, !.adapter = adapter]
<1>3. /\ ses \in SessionRecords /\ ses.outcome = None
      /\ ses.telemetry \in Telemetries
      /\ AssetSound(ses.asset, ses.telemetry)
      /\ ses.asset.eligibility = "dispatchable" /\ Command \in Int
  BY <1>1, DispatchingSession, CommandType
<1>4. /\ inst.native /\ adapter = ses.asset.contract.adapter
      /\ adapter = Profile(evidence)
      /\ adapter \in SUPPORTED_NATIVE_WRITE_PROFILES
  BY <1>2, ChosenAdapter
<1>5. /\ s \in SessionRecords /\ s.asset = ses.asset
      /\ s.telemetry = ses.telemetry /\ s.outcome = None
      /\ s.adapter = adapter
  BY <1>3, <1>4 DEF SessionRecords, AdapterNames
<1>6. CASE Http(adapter)
  <2>1. pc' = "switching" /\ ses' = s
    BY <1>2, <1>6
  <2>2. /\ adapter \in {"shelly_http_relay", "tasmota_http_power"}
        /\ DispatchModel(adapter) = 0
    BY <1>6 DEF Http, DispatchModel
  <2> HIDE DEF s
  <2> QED BY <1>1, <1>3, <1>4, <1>5, <2>1, <2>2 DEF SessionInv
<1>7. CASE ~Http(adapter) /\ MetadataMissing(adapter)
  <2> DEFINE f == [s EXCEPT !.outcome = "failed"]
  <2>1. pc' = "done" /\ ses' = f
    BY <1>2, <1>7 DEF Finish
  <2> HIDE DEF s
  <2>2. /\ f \in SessionRecords /\ f.telemetry \in Telemetries
        /\ f.outcome = "failed"
    BY <1>3, <1>5 DEF SessionRecords, Outcomes
  <2> HIDE DEF f
  <2> QED BY <2>1, <2>2, EndedSession
<1>8. CASE ~Http(adapter) /\ ~MetadataMissing(adapter)
  <2>1. pc' = "reading" /\ ses' = s
    BY <1>2, <1>8
  <2>2. adapter \in SunSpec
    BY <1>4, <1>8
       DEF Http, SunSpec, SUPPORTED_NATIVE_WRITE_PROFILES
  <2>3. DispatchModel(adapter) \in Blocks(evidence)
    BY <1>8 DEF MetadataMissing
  <2> HIDE DEF s
  <2> QED BY <1>1, <1>3, <1>4, <1>5, <2>1, <2>2, <2>3 DEF SessionInv
<1> QED BY <1>6, <1>7, <1>8

(* A replan that finds no plan, and a model that cannot be read.           *)
LEMMA UnplannedSession ==
  ASSUME DispatchInv, SolveWithoutPlan
  PROVE  SessionInv(pc', ses', evidence', regs', relay')
<1>1. pc = "solving" /\ pc' = "done" /\ ses' = ses
  BY DEF SolveWithoutPlan
<1>2. /\ ses \in SessionRecords /\ ses.telemetry \in Telemetries
      /\ ses.outcome # "applied"
  BY <1>1 DEF DispatchInv, SessionInv, None
<1> QED BY <1>1, <1>2, EndedSession

(* A dispatch that fails.                                                  *)
LEMMA FailedSession ==
  ASSUME DispatchInv,
         pc \in {"dispatching", "reading", "writing", "switching"},
         Finish("failed", ses)
  PROVE  SessionInv(pc', ses', evidence', regs', relay')
<1> DEFINE s == [ses EXCEPT !.outcome = "failed"]
<1>1. pc' = "done" /\ ses' = s
  BY DEF Finish
<1>2. ses \in SessionRecords /\ ses.telemetry \in Telemetries
  BY DispatchingSession
<1>3. /\ s \in SessionRecords /\ s.telemetry = ses.telemetry
      /\ s.outcome # "applied"
  BY <1>2 DEF SessionRecords, Outcomes
<1> HIDE DEF s
<1> QED BY <1>1, <1>2, <1>3, EndedSession

(* The limits that a conversion goes by.                                   *)
LEMMA LimitsAre ==
  ASSUME NEW a \in AssetRecords, NEW t \in Telemetries
  PROVE  /\ MaxCharge(a, t) \in Int /\ MaxDischarge(a, t) \in Int
         /\ PowerRating(t) \in Int
<1>1. /\ a.constraints.lo \in Int /\ a.constraints.hi \in Int
  BY DEF AssetRecords, ConstraintRecords
<1>2. t.charge \in Int /\ t.discharge \in Int /\ t.rating \in Int
  BY DEF Telemetries
<1>3. \A x, y \in Int : OrElse(x, y) \in Int
  BY DEF OrElse
<1>4. MaxCharge(a, t) \in Int
  BY <1>1, <1>2, <1>3 DEF MaxCharge
<1>5. MaxDischarge(a, t) \in Int
  <2>1. \A y \in Int : OrElse(t.discharge, y) \in Int
    BY <1>2, <1>3
  <2>2. OrElse(t.discharge, MaxCharge(a, t)) \in Int
    BY <1>4, <2>1
  <2>3. (IF a.type = "battery" THEN a.constraints.hi ELSE 0) \in Int
    BY <1>1
  <2> QED BY <1>3, <2>2, <2>3 DEF MaxDischarge
<1>6. PowerRating(t) \in Int
  BY <1>2 DEF PowerRating, OrElse
<1> QED BY <1>4, <1>5, <1>6

(* What a session means the registers to be, when the limits are known and *)
(* signed values fit, are values of registers.                             *)
SessionMeans(s) ==
  /\ s \in SessionRecords /\ s.telemetry \in Telemetries
  /\ s.adapter \in SunSpec
  /\ LimitsKnown(s.adapter, s.asset, s.telemetry)

(* Such an image holds values of registers.                                *)
LEMMA MeantIs ==
  ASSUME NEW s, SessionMeans(s), inst.digits \in 0..3
  PROVE  LET m == DispatchModel(s.adapter)
         IN  /\ Meant(s) \in [Offsets(m) -> Nat]
             /\ Encodes(s.adapter, Meant(s)) =>
                  /\ Meant(s) \in [Offsets(m) -> 0..(Word - 1)]
                  /\ m = 124 => Meant(s)[12] = 0 \/ Meant(s)[13] = 0
<1> DEFINE v == NumericCommand(s.asset.contract, s.command)
           c == MaxCharge(s.asset, s.telemetry)
           d == MaxDischarge(s.asset, s.telemetry)
           full == PowerRating(s.telemetry)
           digits == inst.digits
<1>1. /\ s.asset \in AssetRecords /\ s.command \in Int
      /\ s.telemetry \in Telemetries /\ s.adapter \in SunSpec
      /\ LimitsKnown(s.adapter, s.asset, s.telemetry)
  BY DEF SessionMeans, SessionRecords
<1>2. v \in Int
  BY <1>1 DEF NumericCommand
<1>3. c \in Int /\ d \in Int /\ full \in Int
  BY <1>1, LimitsAre
<1>4. 0..(Word - 1) \subseteq Nat
  BY WordIs
<1>5. CASE s.adapter = "sunspec_storage_basic_rate"
  <2> DEFINE r == StorageImage(v, c, d, digits)
  <2>1. Meant(s) = r
    BY <1>5 DEF Meant, Image
  <2>2. c \in Nat \ {0} /\ d \in Nat \ {0}
    BY <1>1, <1>3, <1>5 DEF LimitsKnown
  <2> HIDE DEF v, c, d
  <2>3. /\ r \in [StorageOffsets -> Nat]
        /\ r[5] = IF v > 0 THEN 2 ELSE IF v < 0 THEN 1 ELSE 0
        /\ r[14] = 0 /\ r[15] = 0 /\ r[16] = 0
    <3>1. digits \in 0..3
      OBVIOUS
    <3> HIDE DEF digits
    <3>2. -v \in Int
      BY <1>2
    <3>3. RawPercent(v, d, digits) \in Nat
      BY <1>2, <2>2, <3>1, PercentIsNat, Zenon
    <3>4. RawPercent(-v, c, digits) \in Nat
      BY <2>2, <3>1, <3>2, PercentIsNat, Zenon
    <3> QED BY <3>3, <3>4 DEF StorageImage, StorageOffsets
  <2>4. r[12] = 0 \/ r[13] = 0
    BY <1>2, <2>2, StorageImageMeans, Zenon
  <2> HIDE DEF r
  <2>5. ASSUME Encodes(s.adapter, r)
        PROVE  r \in [StorageOffsets -> 0..(Word - 1)]
    <3>1. r[12] < Word \div 2 /\ r[13] < Word \div 2
      BY <1>5, <2>5 DEF Encodes, FitsSigned16
    <3>2. r[12] \in Nat /\ r[13] \in Nat
      BY <2>3 DEF StorageOffsets
    <3>3. \A o \in StorageOffsets : r[o] \in 0..(Word - 1)
      <4>1. r[12] \in 0..(Word - 1) /\ r[13] \in 0..(Word - 1)
        BY <3>1, <3>2, WordIs
      <4>2. r[5] \in 0..(Word - 1)
        BY <2>3, WordIs
      <4> QED BY <2>3, <4>1, <4>2, WordIs DEF StorageOffsets
    <3> QED BY <2>3, <3>3
  <2>6. DispatchModel(s.adapter) = 124 /\ Offsets(124) = StorageOffsets
    BY <1>5 DEF DispatchModel, Offsets
  <2> QED BY <2>1, <2>3, <2>4, <2>5, <2>6
<1>6. CASE s.adapter = "sunspec_immediate_wmax_pct"
  <2> DEFINE r == ImmediateImage(v, full, digits)
  <2>1. Meant(s) = r
    BY <1>6 DEF Meant, Image
  <2>2. full \in Nat \ {0}
    BY <1>1, <1>3, <1>6 DEF LimitsKnown
  <2> HIDE DEF v, full
  <2>3. r \in [ImmediateOffsets -> 0..(Word - 1)]
    BY <1>2, <2>2, ImmediateImageIs, Zenon
  <2> HIDE DEF r
  <2>4. DispatchModel(s.adapter) = 123 /\ Offsets(123) = ImmediateOffsets
    BY <1>6 DEF DispatchModel, Offsets
  <2>5. r \in [ImmediateOffsets -> Nat]
    BY <1>4, <2>3
  <2> QED BY <2>1, <2>3, <2>4, <2>5
<1>7. CASE s.adapter = "sunspec_der_wmax_pct"
  <2> DEFINE r == DerImage(v, full, digits)
  <2>1. Meant(s) = r
    BY <1>7 DEF Meant, Image
  <2>2. full \in Nat \ {0}
    BY <1>1, <1>3, <1>7 DEF LimitsKnown
  <2> HIDE DEF v, full
  <2>3. r \in [DerOffsets -> 0..(Word - 1)]
    BY <1>2, <2>2, DerImageIs, Zenon
  <2> HIDE DEF r
  <2>4. DispatchModel(s.adapter) = 704 /\ Offsets(704) = DerOffsets
    BY <1>7 DEF DispatchModel, Offsets
  <2>5. r \in [DerOffsets -> Nat]
    BY <1>4, <2>3
  <2> QED BY <2>1, <2>3, <2>4, <2>5
<1> QED BY <1>1, <1>5, <1>6, <1>7 DEF SunSpec

(* The write starts with the whole image.                                  *)
LEMMA ReadSession ==
  ASSUME DispatchInv, ReadModel
  PROVE  SessionInv(pc', ses', evidence', regs', relay')
<1>1. /\ pc = "reading" /\ UNCHANGED evidence
      /\ IF ~LimitsKnown(ses.adapter, ses.asset, ses.telemetry)
         THEN Finish("failed", ses)
         ELSE /\ Encodes(ses.adapter, Encoded)
              /\ pc' = "writing"
              /\ ses' = [ses EXCEPT !.image = Encoded]
  BY DEF ReadModel, environment
<1>2. CASE ~LimitsKnown(ses.adapter, ses.asset, ses.telemetry)
  BY <1>1, <1>2, FailedSession
<1>3. CASE LimitsKnown(ses.adapter, ses.asset, ses.telemetry)
  <2> DEFINE s == [ses EXCEPT !.image = Meant(ses)]
             m == DispatchModel(ses.adapter)
  <2>1. /\ Encodes(ses.adapter, Meant(ses))
        /\ pc' = "writing" /\ ses' = s
    BY <1>1, <1>3 DEF Encoded, Meant
  <2>2. /\ ses \in SessionRecords /\ ses.outcome = None
        /\ ses.telemetry \in Telemetries
        /\ AssetSound(ses.asset, ses.telemetry)
        /\ ses.asset.eligibility = "dispatchable"
        /\ inst.digits \in 0..3
    BY <1>1, DispatchingSession
  <2>3. /\ inst.native
        /\ ses.adapter = ses.asset.contract.adapter
        /\ ses.adapter = Profile(evidence)
        /\ m \in Blocks(evidence) \cup {0}
        /\ ses.adapter \in SunSpec
    BY <1>1 DEF DispatchInv, SessionInv
  <2>4. Meant(ses) \in [Offsets(m) -> Nat]
    <3>1. SessionMeans(ses)
      BY <1>3, <2>2, <2>3 DEF SessionMeans
    <3> QED BY <2>2, <3>1, MeantIs
  <2>5. Meant(ses) \in Images /\ DOMAIN Meant(ses) = Offsets(m)
    <3>1. Offsets(m) \in SUBSET Nat
      BY <2>3 DEF SunSpec, DispatchModel, Offsets, StorageOffsets,
         ImmediateOffsets, DerOffsets
    <3>2. Meant(ses) \in [Offsets(m) -> Int]
      BY <2>4
    <3> QED BY <3>1, <3>2 DEF Images
  <2>6. /\ s \in SessionRecords /\ s.image = Meant(ses)
        /\ s.adapter = ses.adapter /\ s.asset = ses.asset
        /\ s.telemetry = ses.telemetry /\ s.outcome = None
        /\ s.command = ses.command
    BY <2>2, <2>5 DEF SessionRecords
  <2> HIDE DEF s
  <2>7. Meant(s) = Meant(ses)
    BY <2>6 DEF Meant
  <2>8. Sent(s, regs')
    BY <1>3, <2>1, <2>3, <2>5, <2>6, <2>7 DEF Sent
  <2>9. DOMAIN s.image \in Remaining(s.adapter)
    BY <2>5, <2>6 DEF Remaining
  <2> QED BY <1>1, <2>1, <2>2, <2>3, <2>6, <2>8, <2>9 DEF SessionInv
<1> QED BY <1>2, <1>3

-----------------------------------------------------------------------------
(* Writing *)

(* The points of a request: the storage model's mode goes first and alone, *)
(* everything else goes at once.                                           *)
LEMMA ChunkIs ==
  ASSUME NEW image, NEW adapter \in SunSpec,
         DOMAIN image \in Remaining(adapter)
  PROVE  NextChunk(image) = IF DOMAIN image = StorageOffsets THEN {5}
                            ELSE DOMAIN image
<1> DEFINE D == DOMAIN image
<1>1. D \in {StorageOffsets, 12..16, ImmediateOffsets, DerOffsets}
  <2>1. D = Offsets(DispatchModel(adapter)) \/ D = 12..16
    BY DEF Remaining
  <2>2. DispatchModel(adapter) \in {123, 124, 704}
    BY DEF SunSpec, DispatchModel
  <2>3. /\ Offsets(123) = ImmediateOffsets /\ Offsets(124) = StorageOffsets
        /\ Offsets(704) = DerOffsets
    BY DEF Offsets
  <2> QED BY <2>1, <2>2, <2>3
<1>2. NextChunk(image) = {o \in D : \A k \in Min(D) .. o : k \in D}
  BY DEF NextChunk
<1> HIDE DEF D
<1>3. CASE D = StorageOffsets
  <2>1. Min(D) = 5
    BY <1>3, MinIs DEF StorageOffsets
  <2>2. \A o \in D \ {5} : 6 \in 5..o /\ 6 \notin D
    BY <1>3 DEF StorageOffsets
  <2>3. 5 \in D /\ \A k \in 5..5 : k \in D
    BY <1>3 DEF StorageOffsets
  <2>4. NextChunk(image) = {5}
    BY <1>2, <2>1, <2>2, <2>3
  <2> QED BY <1>3, <2>4 DEF D
<1>4. ASSUME NEW first \in Int, NEW last \in Int, first <= last,
             D = first .. last
      PROVE  NextChunk(image) = D
  <2>1. Min(D) = first
    <3>1. D \in SUBSET Int /\ first \in D /\ \A x \in D : first <= x
      BY <1>4
    <3> QED BY <3>1, MinIs
  <2>2. \A o \in D : \A k \in first .. o : k \in D
    BY <1>4
  <2> QED BY <1>2, <2>1, <2>2
<1>5. CASE D # StorageOffsets
  <2>1. D \in {12..16, 5..9, 14..15}
    <3>1. DerOffsets = 14..15
      BY DEF DerOffsets
    <3> QED BY <1>1, <1>5, <3>1 DEF ImmediateOffsets
  <2>2. CASE D = 12..16
    <3>1. 12 \in Int /\ 16 \in Int /\ 12 <= 16
      OBVIOUS
    <3>2. NextChunk(image) = D
      BY <1>4, <2>2, <3>1, Zenon
    <3> QED BY <1>5, <3>2 DEF D
  <2>3. CASE D = 5..9
    <3>1. 5 \in Int /\ 9 \in Int /\ 5 <= 9
      OBVIOUS
    <3>2. NextChunk(image) = D
      BY <1>4, <2>3, <3>1, Zenon
    <3> QED BY <1>5, <3>2 DEF D
  <2>4. CASE D = 14..15
    <3>1. 14 \in Int /\ 15 \in Int /\ 14 <= 15
      OBVIOUS
    <3>2. NextChunk(image) = D
      BY <1>4, <2>4, <3>1, Zenon
    <3> QED BY <1>5, <3>2 DEF D
  <2> QED BY <2>1, <2>2, <2>3, <2>4
<1> QED BY <1>3, <1>5

(* What is left of the image after a request.                              *)
LEMMA RestIs ==
  ASSUME NEW image, NEW adapter \in SunSpec,
         DOMAIN image \in Remaining(adapter)
  PROVE  LET rest == Restrict(image, DOMAIN image \ NextChunk(image))
         IN  /\ DOMAIN rest = DOMAIN image \ NextChunk(image)
             /\ \A o \in DOMAIN rest : rest[o] = image[o]
             /\ NextChunk(image) \subseteq DOMAIN image
             /\ DOMAIN rest \in Remaining(adapter) \cup {{}}
<1> DEFINE rest == Restrict(image, DOMAIN image \ NextChunk(image))
<1>1. /\ DOMAIN rest = DOMAIN image \ NextChunk(image)
      /\ \A o \in DOMAIN rest : rest[o] = image[o]
  BY DEF Restrict
<1> HIDE DEF rest
<1>2. NextChunk(image) = IF DOMAIN image = StorageOffsets THEN {5}
                         ELSE DOMAIN image
  BY ChunkIs
<1>3. CASE DOMAIN image = StorageOffsets
  <2>1. /\ DOMAIN rest = StorageOffsets \ {5}
        /\ NextChunk(image) \subseteq DOMAIN image
    BY <1>1, <1>2, <1>3 DEF StorageOffsets
  <2>2. StorageOffsets \ {5} = 12..16
    BY DEF StorageOffsets
  <2>3. adapter = "sunspec_storage_basic_rate"
    <3>1. 5 \in DOMAIN image /\ 12 \in DOMAIN image
      BY <1>3 DEF StorageOffsets
    <3> QED BY <1>3, <3>1 DEF Remaining, SunSpec, DispatchModel, Offsets,
               ImmediateOffsets, DerOffsets
  <2> QED BY <1>1, <2>1, <2>2, <2>3 DEF Remaining, rest
<1>4. CASE DOMAIN image # StorageOffsets
  BY <1>1, <1>2, <1>4 DEF rest
<1> QED BY <1>3, <1>4

(* The power measured has no part in the conversion of a command.          *)
LEMMA MeantKeeps ==
  ASSUME NEW s \in SessionRecords, s.telemetry \in Telemetries,
         NEW x \in Int, NEW n,
         n.telemetry = [s.telemetry EXCEPT !.power = x],
         n.asset = s.asset, n.command = s.command, n.adapter = s.adapter
  PROVE  /\ Meant(n) = Meant(s)
         /\ LimitsKnown(n.adapter, n.asset, n.telemetry)
              = LimitsKnown(s.adapter, s.asset, s.telemetry)
<1> DEFINE t == s.telemetry
           u == n.telemetry
           a == s.asset
<1>1. u.charge = t.charge /\ u.discharge = t.discharge /\ u.rating = t.rating
  BY DEF Telemetries
<1>2. n.asset = a
  OBVIOUS
<1> HIDE DEF t, u, a
<1>3. MaxCharge(a, u) = MaxCharge(a, t)
  BY <1>1 DEF MaxCharge
<1>4. MaxDischarge(a, u) = MaxDischarge(a, t)
  BY <1>1, <1>3 DEF MaxDischarge
<1>5. PowerRating(u) = PowerRating(t)
  BY <1>1 DEF PowerRating
<1>6. Meant(n) = Meant(s)
  <2>1. \A adapter, v, digits :
          Image(adapter, v, a, u, digits) = Image(adapter, v, a, t, digits)
    BY <1>3, <1>4, <1>5 DEF Image
  <2> QED BY <1>2, <2>1 DEF Meant, t, u, a
<1>7. LimitsKnown(s.adapter, a, u) = LimitsKnown(s.adapter, a, t)
  BY <1>3, <1>4, <1>5 DEF LimitsKnown
<1> QED BY <1>2, <1>6, <1>7 DEF t, u, a

(* What a session in the middle of its write has.                          *)
LEMMA WritingSession ==
  ASSUME DispatchInv, pc = "writing"
  PROVE  LET m == DispatchModel(ses.adapter)
             D == DOMAIN ses.image
         IN  /\ SessionMeans(ses) /\ Sent(ses, regs)
             /\ D \in Remaining(ses.adapter) /\ D \subseteq Offsets(m)
             /\ m \in {123, 124, 704}
             /\ Meant(ses) \in [Offsets(m) -> 0..(Word - 1)]
             /\ m = 124 => Meant(ses)[12] = 0 \/ Meant(ses)[13] = 0
<1>1. /\ Sent(ses, regs) /\ DOMAIN ses.image \in Remaining(ses.adapter)
      /\ ses.adapter \in SunSpec
  BY DEF DispatchInv, SessionInv
<1>2. SessionMeans(ses) /\ inst.digits \in 0..3
  BY <1>1, DispatchingSession DEF SessionMeans, Sent
<1>3. DispatchModel(ses.adapter) \in {123, 124, 704}
  BY <1>1 DEF SunSpec, DispatchModel
<1>4. DOMAIN ses.image \subseteq Offsets(DispatchModel(ses.adapter))
  <2>1. CASE DOMAIN ses.image = Offsets(DispatchModel(ses.adapter))
    BY <2>1
  <2>2. CASE /\ ses.adapter = "sunspec_storage_basic_rate"
             /\ DOMAIN ses.image = 12..16
    <3>1. Offsets(DispatchModel(ses.adapter)) = StorageOffsets
      BY <2>2 DEF DispatchModel, Offsets
    <3> QED BY <2>2, <3>1 DEF StorageOffsets
  <2> QED BY <1>1, <2>1, <2>2 DEF Remaining
<1>5. Encodes(ses.adapter, Meant(ses))
  BY <1>1 DEF Sent
<1>6. LET m == DispatchModel(ses.adapter)
      IN  /\ Meant(ses) \in [Offsets(m) -> 0..(Word - 1)]
          /\ m = 124 => Meant(ses)[12] = 0 \/ Meant(ses)[13] = 0
  BY <1>2, <1>5, MeantIs
<1> QED BY <1>1, <1>2, <1>3, <1>4, <1>6

(* What a request leaves in the registers.                                 *)
Written(answer) ==
  LET m == DispatchModel(ses.adapter)
      chunk == NextChunk(ses.image)
  IN  IF answer = "refused" THEN regs' = regs
      ELSE /\ DOMAIN regs' = DOMAIN regs
           /\ \A k \in DOMAIN regs \ {m} : regs'[k] = regs[k]
           /\ regs'[m] = [o \in DOMAIN regs[m] |->
                            IF o \in chunk THEN Meant(ses)[o]
                            ELSE regs[m][o]]

(* A request writes its points and nothing else.                           *)
LEMMA ChunkWritten ==
  ASSUME DispatchInv, NEW answer, WriteChunk(answer)
  PROVE  /\ pc = "writing" /\ Written(answer)
         /\ UNCHANGED <<inst, evidence, relay>>
         /\ LET chunk == NextChunk(ses.image)
                rest == Restrict(ses.image, DOMAIN ses.image \ chunk)
            IN  IF answer # "ok" THEN Finish("failed", ses)
                ELSE IF DOMAIN rest = {}
                THEN Finish("applied", Applied([ses EXCEPT !.image = <<>>]))
                ELSE pc' = "writing" /\ ses' = [ses EXCEPT !.image = rest]
<1> DEFINE m == DispatchModel(ses.adapter)
           chunk == NextChunk(ses.image)
           rest == Restrict(ses.image, DOMAIN ses.image \ chunk)
<1>1. /\ pc = "writing"
      /\ UNCHANGED <<inst, evidence, relay>>
      /\ regs' = IF answer = "refused" THEN regs
                 ELSE [regs EXCEPT ![m] = Overwritten(@, ses.image, chunk)]
      /\ IF answer # "ok" THEN Finish("failed", ses)
         ELSE IF DOMAIN rest = {}
         THEN Finish("applied", Applied([ses EXCEPT !.image = <<>>]))
         ELSE pc' = "writing" /\ ses' = [ses EXCEPT !.image = rest]
  BY DEF WriteChunk, environment
<1>2. /\ Sent(ses, regs)
      /\ DOMAIN ses.image \subseteq Offsets(m)
      /\ m \in {123, 124, 704} /\ ses.adapter \in SunSpec
      /\ DOMAIN ses.image \in Remaining(ses.adapter)
  BY <1>1, WritingSession DEF SessionMeans
<1>3. chunk \subseteq DOMAIN ses.image
  <2>1. NextChunk(ses.image) \subseteq DOMAIN ses.image
    <3>1. /\ ses.adapter \in SunSpec
          /\ DOMAIN ses.image \in Remaining(ses.adapter)
      BY <1>2
    <3> QED BY <3>1, RestIs
  <2> QED BY <2>1
<1>4. m \in DOMAIN regs
  BY <1>2 DEF DispatchInv, RegistersInv
<1>5. \A o \in chunk : ses.image[o] = Meant(ses)[o]
  BY <1>2, <1>3 DEF Sent
<1> HIDE DEF m, chunk, rest
<1>6. CASE answer # "refused"
  <2>1. regs' = [regs EXCEPT ![m] = Overwritten(regs[m], ses.image, chunk)]
    BY <1>1, <1>6
  <2>2. /\ DOMAIN regs' = DOMAIN regs
        /\ \A k \in DOMAIN regs \ {m} : regs'[k] = regs[k]
        /\ regs'[m] = Overwritten(regs[m], ses.image, chunk)
    BY <1>4, <2>1
  <2>3. regs'[m] = [o \in DOMAIN regs[m] |->
                      IF o \in chunk THEN Meant(ses)[o] ELSE regs[m][o]]
    BY <1>5, <2>2 DEF Overwritten
  <2>4. Written(answer)
    BY <1>6, <2>2, <2>3 DEF Written, m, chunk
  <2> QED BY <1>1, <2>4 DEF chunk, rest
<1>7. CASE answer = "refused"
  <2>1. Written(answer)
    BY <1>1, <1>7 DEF Written
  <2> QED BY <1>1, <2>1 DEF chunk, rest
<1> QED BY <1>6, <1>7

(* The registers keep the values of registers, and one rate of a storage   *)
(* device is 0 before and after every request.                             *)
LEMMA WriteRegisters ==
  ASSUME DispatchInv, NEW answer, WriteChunk(answer)
  PROVE  RegistersInv(regs')
<1> DEFINE m == DispatchModel(ses.adapter)
           chunk == NextChunk(ses.image)
<1>1. pc = "writing" /\ Written(answer)
  BY ChunkWritten
<1>2. RegistersInv(regs)
  BY DEF DispatchInv
<1>3. CASE answer = "refused"
  BY <1>1, <1>2, <1>3 DEF Written
<1>4. CASE answer # "refused"
  <2>1. /\ m \in {123, 124, 704}
        /\ Meant(ses) \in [Offsets(m) -> 0..(Word - 1)]
        /\ m = 124 => Meant(ses)[12] = 0 \/ Meant(ses)[13] = 0
        /\ ses.adapter \in SunSpec
        /\ DOMAIN ses.image \in Remaining(ses.adapter)
    BY <1>1, WritingSession DEF SessionMeans
  <2>2. /\ DOMAIN regs' = DOMAIN regs
        /\ \A k \in DOMAIN regs \ {m} : regs'[k] = regs[k]
        /\ regs'[m] = [o \in DOMAIN regs[m] |->
                         IF o \in chunk THEN Meant(ses)[o] ELSE regs[m][o]]
    BY <1>1, <1>4 DEF Written
  <2>3. \A k \in {123, 124, 704} : regs[k] \in [Offsets(k) -> 0..(Word - 1)]
    BY <1>2 DEF RegistersInv
  <2>4. 12 \in Offsets(124) /\ 13 \in Offsets(124) /\ 5 \in Offsets(124)
    BY DEF Offsets, StorageOffsets
  <2>5. m = 124 => chunk \in {{5}, 12..16}
    <3>1. SUFFICES ASSUME m = 124 PROVE chunk \in {{5}, 12..16}
      OBVIOUS
    <3>2. chunk = IF DOMAIN ses.image = StorageOffsets THEN {5}
                  ELSE DOMAIN ses.image
      <4>1. /\ ses.adapter \in SunSpec
            /\ DOMAIN ses.image \in Remaining(ses.adapter)
        BY <2>1
      <4>2. NextChunk(ses.image) =
              IF DOMAIN ses.image = StorageOffsets THEN {5}
              ELSE DOMAIN ses.image
        BY <4>1, ChunkIs
      <4> QED BY <4>2
    <3>3. Offsets(DispatchModel(ses.adapter)) = StorageOffsets
      BY <3>1 DEF Offsets
    <3>4. DOMAIN ses.image \in {StorageOffsets, 12..16}
      BY <2>1, <3>3 DEF Remaining
    <3> QED BY <3>2, <3>4
  <2> HIDE DEF m, chunk
  <2>6. regs'[m] \in [Offsets(m) -> 0..(Word - 1)]
    <3>1. regs[m] \in [Offsets(m) -> 0..(Word - 1)]
      BY <2>1, <2>3
    <3> QED BY <2>1, <2>2, <3>1
  <2>7. \A k \in {123, 124, 704} : regs'[k] \in [Offsets(k) -> 0..(Word - 1)]
    BY <1>2, <2>2, <2>3, <2>6 DEF RegistersInv
  <2>8. \/ regs'[124][12] = 1 /\ regs'[124][13] = 1
        \/ regs'[124][12] = 0 \/ regs'[124][13] = 0
    <3>1. CASE m # 124
      BY <1>2, <2>2, <3>1 DEF RegistersInv
    <3>2. CASE m = 124 /\ chunk = {5}
      <4>1. regs'[124][12] = regs[124][12] /\ regs'[124][13] = regs[124][13]
        BY <2>2, <2>3, <2>4, <3>2
      <4> QED BY <1>2, <4>1 DEF RegistersInv
    <3>3. CASE m = 124 /\ chunk = 12..16
      <4>1. /\ regs'[124][12] = Meant(ses)[12]
            /\ regs'[124][13] = Meant(ses)[13]
        BY <2>2, <2>3, <2>4, <3>3
      <4> QED BY <2>1, <3>3, <4>1
    <3> QED BY <2>5, <3>1, <3>2, <3>3
  <2> QED BY <1>2, <2>2, <2>7, <2>8 DEF RegistersInv
<1> QED BY <1>3, <1>4

(* What has been sent stays sent, and a request adds its points.           *)
LEMMA SentAfter ==
  ASSUME DispatchInv, NEW answer, WriteChunk(answer), answer # "refused",
         NEW s, Meant(s) = Meant(ses), s.adapter = ses.adapter,
         LimitsKnown(s.adapter, s.asset, s.telemetry),
         DOMAIN s.image = DOMAIN ses.image \ NextChunk(ses.image),
         \A o \in DOMAIN s.image : s.image[o] = ses.image[o]
  PROVE  Sent(s, regs')
<1> DEFINE m == DispatchModel(ses.adapter)
           chunk == NextChunk(ses.image)
<1>1. pc = "writing" /\ Written(answer)
  BY ChunkWritten
<1>2. /\ ses.adapter \in SunSpec /\ Sent(ses, regs)
      /\ m \in {123, 124, 704}
  BY <1>1, WritingSession DEF SessionMeans
<1>3. regs'[m] = [o \in DOMAIN regs[m] |->
                    IF o \in chunk THEN Meant(ses)[o] ELSE regs[m][o]]
  BY <1>1 DEF Written
<1>4. DOMAIN regs[m] = Offsets(m)
  BY <1>2 DEF DispatchInv, RegistersInv
<1>5. /\ Encodes(ses.adapter, Meant(ses))
      /\ \A o \in Offsets(m) :
           IF o \in DOMAIN ses.image THEN ses.image[o] = Meant(ses)[o]
           ELSE regs[m][o] = Meant(ses)[o]
  BY <1>2 DEF Sent
<1>6. m = DispatchModel(s.adapter)
  OBVIOUS
<1> HIDE DEF m, chunk
<1>7. \A o \in Offsets(m) :
        IF o \in DOMAIN s.image THEN s.image[o] = Meant(ses)[o]
        ELSE regs'[m][o] = Meant(ses)[o]
  <2> SUFFICES ASSUME NEW o \in Offsets(m)
               PROVE  IF o \in DOMAIN s.image THEN s.image[o] = Meant(ses)[o]
                      ELSE regs'[m][o] = Meant(ses)[o]
    OBVIOUS
  <2>1. CASE o \in DOMAIN s.image
    <3>1. o \in DOMAIN ses.image /\ s.image[o] = ses.image[o]
      BY <2>1
    <3> QED BY <1>5, <2>1, <3>1
  <2>2. CASE o \in chunk
    <3>1. o \notin DOMAIN s.image
      BY <2>2 DEF chunk
    <3>2. regs'[m][o] = Meant(ses)[o]
      BY <1>3, <1>4, <2>2
    <3> QED BY <3>1, <3>2
  <2>3. CASE o \notin DOMAIN ses.image /\ o \notin chunk
    <3>1. regs'[m][o] = regs[m][o]
      BY <1>3, <1>4, <2>3
    <3> QED BY <1>5, <2>3, <3>1
  <2> QED BY <2>1, <2>2, <2>3 DEF chunk
<1> QED BY <1>2, <1>5, <1>6, <1>7 DEF Sent

(* An image that is empty.                                                 *)
LEMMA EmptyImage == <<>> \in Images /\ DOMAIN <<>> = {}
<1>1. <<>> \in [{} -> Int] /\ DOMAIN <<>> = {}
  OBVIOUS
<1> QED BY <1>1 DEF Images

(* After a request the session knows what is left to be sent.              *)
LEMMA WriteSession ==
  ASSUME DispatchInv, NEW answer, WriteChunk(answer)
  PROVE  SessionInv(pc', ses', evidence', regs', relay')
<1> DEFINE chunk == NextChunk(ses.image)
           rest == Restrict(ses.image, DOMAIN ses.image \ chunk)
<1>1. /\ pc = "writing" /\ Written(answer)
      /\ UNCHANGED <<inst, evidence, relay>>
      /\ IF answer # "ok" THEN Finish("failed", ses)
         ELSE IF DOMAIN rest = {}
         THEN Finish("applied", Applied([ses EXCEPT !.image = <<>>]))
         ELSE pc' = "writing" /\ ses' = [ses EXCEPT !.image = rest]
  BY ChunkWritten
<1>2. /\ ses \in SessionRecords /\ ses.outcome = None
      /\ ses.telemetry \in Telemetries
      /\ AssetSound(ses.asset, ses.telemetry)
      /\ ses.asset.eligibility = "dispatchable"
  BY <1>1, DispatchingSession
<1>3. /\ inst.native
      /\ ses.adapter = ses.asset.contract.adapter
      /\ ses.adapter = Profile(evidence)
      /\ DispatchModel(ses.adapter) \in Blocks(evidence) \cup {0}
      /\ ses.adapter \in SunSpec
      /\ DOMAIN ses.image \in Remaining(ses.adapter)
      /\ LimitsKnown(ses.adapter, ses.asset, ses.telemetry)
  BY <1>1 DEF DispatchInv, SessionInv, Sent
<1>4. /\ DOMAIN rest = DOMAIN ses.image \ chunk
      /\ \A o \in DOMAIN rest : rest[o] = ses.image[o]
      /\ DOMAIN rest \in Remaining(ses.adapter) \cup {{}}
  BY <1>3, RestIs
<1>5. CASE answer # "ok"
  BY <1>1, <1>5, FailedSession
<1>6. CASE answer = "ok" /\ DOMAIN rest # {}
  <2> DEFINE s == [ses EXCEPT !.image = rest]
  <2>1. pc' = "writing" /\ ses' = s
    BY <1>1, <1>6
  <2>2. rest \in Images
    <3>1. PICK S \in SUBSET Nat : ses.image \in [S -> Int]
      BY <1>2 DEF SessionRecords, Images
    <3>2. DOMAIN rest \in SUBSET Nat
      BY <1>4, <3>1
    <3>3. rest \in [DOMAIN rest -> Int]
      <4>1. rest = [o \in DOMAIN rest |-> rest[o]]
        BY <1>4 DEF Restrict
      <4>2. \A o \in DOMAIN rest : rest[o] \in Int
        BY <1>4, <3>1
      <4> HIDE DEF rest
      <4> QED BY <4>1, <4>2
    <3> QED BY <3>2, <3>3 DEF Images
  <2> HIDE DEF rest
  <2>3. /\ s \in SessionRecords /\ s.image = rest
        /\ s.adapter = ses.adapter /\ s.asset = ses.asset
        /\ s.telemetry = ses.telemetry /\ s.outcome = None
        /\ s.command = ses.command
    BY <1>2, <2>2 DEF SessionRecords
  <2> HIDE DEF s
  <2>4. Meant(s) = Meant(ses)
    BY <2>3 DEF Meant
  <2>5. Sent(s, regs')
    <3>1. answer # "refused"
      BY <1>6
    <3> QED BY <1>3, <1>4, <2>3, <2>4, <3>1, SentAfter DEF chunk
  <2>6. DOMAIN s.image \in Remaining(s.adapter)
    BY <1>4, <1>6, <2>3
  <2> QED BY <1>1, <1>2, <1>3, <2>1, <2>3, <2>5, <2>6 DEF SessionInv
<1>7. CASE answer = "ok" /\ DOMAIN rest = {}
  <2> DEFINE a == [ses EXCEPT !.image = <<>>]
             x == IF a.adapter = "sunspec_storage_basic_rate"
                  THEN Max({a.command, -a.command}) ELSE a.telemetry.power
             b == [a EXCEPT !.telemetry.power = x]
             s == [b EXCEPT !.outcome = "applied"]
  <2>1. /\ a \in SessionRecords /\ a.image = <<>>
        /\ a.adapter = ses.adapter /\ a.asset = ses.asset
        /\ a.telemetry = ses.telemetry /\ a.command = ses.command
    BY <1>2, EmptyImage DEF SessionRecords
  <2> HIDE DEF a
  <2>2. pc' = "done" /\ ses' = [Applied(a) EXCEPT !.outcome = "applied"]
    BY <1>1, <1>7 DEF Finish, a
  <2>3. Applied(a) = b
    BY <1>2, <2>1 DEF Applied, SessionRecords
  <2>4. x \in Int
    <3>1. a.command \in Int /\ -a.command \in Int
      BY <2>1 DEF SessionRecords
    <3>2. Max({a.command, -a.command}) \in Int
      BY <3>1, MaxOfTwo
    <3> QED BY <1>2, <2>1, <3>2 DEF Telemetries
  <2> HIDE DEF x
  <2>5. /\ b \in SessionRecords /\ b.telemetry \in Telemetries
        /\ b.asset = a.asset /\ b.command = a.command
        /\ b.adapter = a.adapter /\ b.image = a.image
        /\ b.telemetry = [a.telemetry EXCEPT !.power = x]
    BY <1>2, <2>1, <2>4, MeasuredSession
  <2> HIDE DEF b
  <2>6. /\ s \in SessionRecords /\ s.telemetry = b.telemetry
        /\ s.asset = ses.asset /\ s.command = ses.command
        /\ s.adapter = ses.adapter /\ s.image = <<>>
        /\ s.telemetry = [ses.telemetry EXCEPT !.power = x]
    BY <2>1, <2>5 DEF SessionRecords, Outcomes
  <2>7. pc' = "done" /\ ses' = s
    BY <2>2, <2>3
  <2> HIDE DEF s
  <2>8. /\ Meant(s) = Meant(ses)
        /\ LimitsKnown(s.adapter, s.asset, s.telemetry)
    BY <1>2, <1>3, <2>4, <2>6, MeantKeeps
  <2>9. DOMAIN s.image = {}
    BY <2>6, EmptyImage
  <2>10. Sent(s, regs')
    <3>1. answer # "refused" /\ DOMAIN s.image = DOMAIN ses.image \ chunk
      BY <1>4, <1>7, <2>9
    <3> QED BY <2>6, <2>8, <2>9, <3>1, SentAfter DEF chunk
  <2>11. ~Http(s.adapter)
    BY <1>3, <2>6 DEF Http, SunSpec
  <2> QED BY <2>5, <2>6, <2>7, <2>9, <2>10, <2>11 DEF SessionInv
<1> QED BY <1>5, <1>6, <1>7

(* A relay that answered is as it was commanded.                           *)
LEMMA SwitchSession ==
  ASSUME DispatchInv, NEW answer, Switch(answer)
  PROVE  SessionInv(pc', ses', evidence', regs', relay')
<1>1. /\ pc = "switching"
      /\ relay' = IF answer = "refused" THEN relay
                  ELSE IF ses.command > 0 THEN "on" ELSE "off"
      /\ Finish(IF answer = "ok" THEN "applied" ELSE "failed", ses)
  BY DEF Switch
<1>2. CASE answer # "ok"
  <2>1. Finish("failed", ses)
    BY <1>1, <1>2
  <2> QED BY <1>1, <2>1, FailedSession
<1>3. CASE answer = "ok"
  <2> DEFINE s == [ses EXCEPT !.outcome = "applied"]
  <2>1. pc' = "done" /\ ses' = s
    BY <1>1, <1>3 DEF Finish
  <2>2. /\ ses \in SessionRecords /\ ses.telemetry \in Telemetries
        /\ Http(ses.adapter)
    BY <1>1, DispatchingSession DEF DispatchInv, SessionInv, Http
  <2>3. /\ s \in SessionRecords /\ s.telemetry \in Telemetries
        /\ s.adapter = ses.adapter /\ s.command = ses.command
    BY <2>2 DEF SessionRecords, Outcomes
  <2>4. (relay' = "on") = (ses.command > 0)
    BY <1>1, <1>3
  <2> HIDE DEF s
  <2> QED BY <2>1, <2>2, <2>3, <2>4 DEF SessionInv
<1> QED BY <1>2, <1>3

-----------------------------------------------------------------------------
(* The device meanwhile *)

(* A probe yields telemetry.                                               *)
LEMMA ProbedIs ==
  ASSUME DispatchInv, NEW p \in Probed
  PROVE  p.telemetry \in Telemetries
<1>1. PICK probe \in Probes(inst.chain), power \in Measured, soc \in Charges :
        p.telemetry = Extracted(inst, probe, power, soc)
  BY DEF Probed
<1>2. /\ power \in Int /\ soc \in Int /\ inst.rating \in Int
      /\ inst.charge \in Int
  BY DispatchAssumption DEF DispatchInv
<1> QED BY <1>1, <1>2 DEF Extracted, Telemetries, Missing

(* Discovery gives a device one of the types.                              *)
LEMMA ClassifiedIs ==
  ASSUME DispatchInv, NEW ids
  PROVE  Classified(inst, ids) \in RawTypes
<1>1. inst.raw \in RawTypes
  BY DispatchAssumption DEF DispatchInv
<1>2. {"grid_meter", "pv_inverter", "battery"} \subseteq RawTypes
  BY DEF RawTypes, AssetTypes
<1> QED BY <1>1, <1>2 DEF Classified

(* A poll, a discovery and the user leave a device's row a row.            *)
LEMMA DeviceKept ==
  ASSUME DispatchInv, Poll \/ Discover \/ Establish \/ Disconnect
  PROVE  /\ device' \in Devices
         /\ DOMAIN evidence' = {"candidate", "connected", "endpoint"}
         /\ evidence'.connected \in BOOLEAN
<1>1. /\ device \in Devices
      /\ DOMAIN evidence = {"candidate", "connected", "endpoint"}
      /\ evidence.connected \in BOOLEAN
  BY DEF DispatchInv
<1>2. CASE Poll
  <2>1. PICK p \in Probed :
          /\ device' = Refreshed(device, p.telemetry, p.profile, TRUE)
          /\ evidence' = [evidence EXCEPT
                !.endpoint = EndpointUpdated(@, p.profile, p.blocks)]
    BY <1>2 DEF Poll
  <2>2. p.telemetry \in Telemetries
    BY ProbedIs
  <2>3. device' \in Devices
    BY <1>1, <2>1, <2>2
       DEF Refreshed, Devices, RUNTIME_ALLOWED_DEVICE_STATUSES
  <2> QED BY <1>1, <2>1, <2>3
<1>3. CASE Discover
  <2>1. PICK p \in Probed :
          LET silent == NoTelemetry(p.telemetry)
          IN  /\ device' =
                   [asset |-> Classified(inst, p.blocks), visible |-> TRUE,
                    monitorable |-> ~silent,
                    controllable |-> p.profile # None,
                    telemetry |-> [p.telemetry EXCEPT
                                     !.curtail = @ \/ IsLimit(p.profile)],
                    status |-> IF silent THEN "visible_only"
                               ELSE IF p.profile # None THEN "optimizable"
                               ELSE "monitorable"]
              /\ evidence' = [evidence EXCEPT
                    !.candidate = [profile |-> p.profile,
                                   blocks |-> p.blocks],
                    !.endpoint = EndpointUpdated(@, p.profile, p.blocks)]
    BY <1>3 DEF Discover
  <2>2. p.telemetry \in Telemetries /\ Classified(inst, p.blocks) \in RawTypes
    BY ProbedIs, ClassifiedIs
  <2> DEFINE t == [p.telemetry EXCEPT !.curtail = @ \/ IsLimit(p.profile)]
  <2>3. t \in Telemetries
    BY <2>2 DEF Telemetries
  <2> HIDE DEF t
  <2>4. device' \in Devices
    <3>1. NoTelemetry(p.telemetry) \in BOOLEAN
      BY DEF NoTelemetry
    <3>2. device'.telemetry = t
      BY <2>1 DEF t
    <3> QED BY <2>1, <2>2, <2>3, <3>1 DEF Devices, t,
               RUNTIME_ALLOWED_DEVICE_STATUSES
  <2> QED BY <1>1, <2>1, <2>4
<1>4. CASE Establish
  <2>1. device' \in Devices
    BY <1>1, <1>4 DEF Establish, Devices, RUNTIME_ALLOWED_DEVICE_STATUSES
  <2> QED BY <1>1, <1>4, <2>1 DEF Establish
<1>5. CASE Disconnect
  <2>1. device' \in Devices
    BY <1>1, <1>5 DEF Disconnect, Devices, RUNTIME_ALLOWED_DEVICE_STATUSES
  <2> QED BY <1>1, <1>5, <2>1 DEF Disconnect
<1> QED BY <1>2, <1>3, <1>4, <1>5

(* Nothing of this happens to a session that has begun to dispatch.        *)
LEMMA ChangeSession ==
  ASSUME DispatchInv, Change
  PROVE  SessionInv(pc', ses', evidence', regs', relay')
<1>1. /\ pc \in {"idle", "solving"}
      /\ UNCHANGED <<pc, ses, regs, relay>>
  BY DEF Change, Unlocked
<1>2. SessionInv(pc, ses, evidence, regs, relay)
  BY DEF DispatchInv
<1> QED BY <1>1, <1>2 DEF SessionInv

(* A replan's own steps: only a commit writes the device's row.            *)
LEMMA CommitRow ==
  ASSUME DispatchInv, Commit
  PROVE  device' \in Devices /\ event'.status \in Outcomes
<1>1. /\ device \in Devices /\ event.status \in Outcomes
      /\ ses \in SessionRecords /\ ses.telemetry \in Telemetries
  BY DEF Commit, DispatchInv, SessionInv
<1>2. ses.row \in RawTypes \cup {None} /\ ses.outcome \in Outcomes
  BY <1>1 DEF SessionRecords
<1>3. device' \in Devices
  BY <1>1, <1>2 DEF Commit, Devices
<1>4. event'.status \in Outcomes
  BY <1>1, <1>2 DEF Commit
<1> QED BY <1>3, <1>4

(* What every step leaves alone.                                           *)
LEMMA FrameStep ==
  ASSUME DispatchInv, Next
  PROVE  /\ UNCHANGED inst /\ pc' \in Stages /\ relay' \in {"on", "off"}
         /\ replans' \in 0..MaxReplans /\ changes' \in 0..MaxChanges
<1>1. /\ pc \in Stages /\ relay \in {"on", "off"}
      /\ replans \in 0..MaxReplans /\ changes \in 0..MaxChanges
      /\ MaxReplans \in Nat /\ MaxChanges \in Nat
  BY DispatchAssumption DEF DispatchInv
<1>2. CASE BuildSiteModel
  BY <1>1, <1>2 DEF BuildSiteModel, environment, Stages
<1>3. CASE SolveWithoutPlan \/ Commit \/ Crash
  BY <1>1, <1>3 DEF SolveWithoutPlan, Commit, Crash, environment, Stages
<1>4. CASE Solve
  BY <1>1, <1>4
     DEF Solve, SolvePower, SolveSwitch, Plan, environment, Stages
<1>5. CASE DispatchBlocked \/ DispatchSimulated
  BY <1>1, <1>5
     DEF DispatchBlocked, DispatchSimulated, Finish, environment, Stages
<1>6. CASE DispatchNative
  BY <1>1, <1>6 DEF DispatchNative, Finish, environment, Stages
<1>7. CASE ReadFails \/ ReadModel \/ EncodeRaises
  BY <1>1, <1>7
     DEF ReadFails, ReadModel, EncodeRaises, Finish, environment, Stages
<1>8. CASE \E answer \in Answers : WriteChunk(answer)
  BY <1>1, <1>8 DEF WriteChunk, Finish, environment, Stages
<1>9. CASE \E answer \in Answers : Switch(answer)
  BY <1>1, <1>9 DEF Switch, Finish, environment, Stages
<1>10. CASE Poll \/ Discover \/ Establish \/ Disconnect
  <2>1. Change
    BY <1>10 DEF Poll, Discover, Establish, Disconnect
  <2> QED BY <1>1, <2>1 DEF Change
<1> QED BY <1>2, <1>3, <1>4, <1>5, <1>6, <1>7, <1>8, <1>9, <1>10
        DEF Next, Replan

-----------------------------------------------------------------------------
(* Theorems *)

(* No step disturbs the session.                                           *)
LEMMA SessionStep ==
  ASSUME DispatchInv, Next
  PROVE  SessionInv(pc', ses', evidence', regs', relay')
<1>1. CASE BuildSiteModel
  BY <1>1, BuildSession
<1>2. CASE SolveWithoutPlan
  BY <1>2, UnplannedSession
<1>3. CASE Solve
  BY <1>3, SolveSession
<1>4. CASE DispatchBlocked
  BY <1>4, BlockedSession
<1>5. CASE DispatchSimulated
  BY <1>5, SimulatedSession
<1>6. CASE DispatchNative
  BY <1>6, NativeSession
<1>7. CASE ReadFails
  <2>1. pc = "reading" /\ Finish("failed", ses)
    BY <1>7 DEF ReadFails
  <2> QED BY <2>1, FailedSession
<1>8. CASE ReadModel
  BY <1>8, ReadSession
<1>9. CASE EncodeRaises \/ Commit \/ Crash
  <2>1. pc' = "idle" /\ ses' = NoSession
    BY <1>9 DEF EncodeRaises, Commit, Crash
  <2> QED BY <2>1, IdleSession
<1>10. ASSUME NEW answer \in Answers, WriteChunk(answer)
       PROVE  SessionInv(pc', ses', evidence', regs', relay')
  BY <1>10, WriteSession
<1>11. ASSUME NEW answer \in Answers, Switch(answer)
       PROVE  SessionInv(pc', ses', evidence', regs', relay')
  BY <1>11, SwitchSession
<1>12. CASE Poll \/ Discover \/ Establish \/ Disconnect
  <2>1. Change
    BY <1>12 DEF Poll, Discover, Establish, Disconnect
  <2> QED BY <2>1, ChangeSession
<1> QED BY <1>1, <1>2, <1>3, <1>4, <1>5, <1>6, <1>7, <1>8, <1>9, <1>10,
           <1>11, <1>12 DEF Next, Replan

(* Only a write changes the registers, and only a switch the relay.        *)
LEMMA QuietStep ==
  ASSUME Next,
         ~\E answer \in Answers : WriteChunk(answer) \/ Switch(answer)
  PROVE  UNCHANGED <<regs, relay>>
<1>1. CASE BuildSiteModel \/ SolveWithoutPlan \/ Commit \/ Crash
  BY <1>1 DEF BuildSiteModel, SolveWithoutPlan, Commit, Crash
<1>2. CASE Solve
  BY <1>2 DEF Solve, SolvePower, SolveSwitch, Plan
<1>3. CASE DispatchBlocked \/ DispatchSimulated \/ DispatchNative
  BY <1>3 DEF DispatchBlocked, DispatchSimulated, DispatchNative
<1>4. CASE ReadFails \/ ReadModel \/ EncodeRaises
  BY <1>4 DEF ReadFails, ReadModel, EncodeRaises
<1>5. CASE Poll \/ Discover \/ Establish \/ Disconnect
  BY <1>5 DEF Poll, Discover, Establish, Disconnect, Change
<1> QED BY <1>1, <1>2, <1>3, <1>4, <1>5 DEF Next, Replan

(* No step disturbs the registers.                                         *)
LEMMA RegistersStep ==
  ASSUME DispatchInv, Next
  PROVE  RegistersInv(regs')
<1>1. CASE \E answer \in Answers : WriteChunk(answer)
  BY <1>1, WriteRegisters
<1>2. CASE ~\E answer \in Answers : WriteChunk(answer)
  <2>1. UNCHANGED regs
    BY <1>2, QuietStep DEF Switch
  <2> QED BY <2>1 DEF DispatchInv
<1> QED BY <1>1, <1>2

(* The device's row, the evidence and the event keep their types.          *)
LEMMA RowsStep ==
  ASSUME DispatchInv, Next
  PROVE  /\ device' \in Devices /\ event'.status \in Outcomes
         /\ DOMAIN evidence' = {"candidate", "connected", "endpoint"}
         /\ evidence'.connected \in BOOLEAN
<1>1. /\ device \in Devices /\ event.status \in Outcomes
      /\ DOMAIN evidence = {"candidate", "connected", "endpoint"}
      /\ evidence.connected \in BOOLEAN
  BY DEF DispatchInv
<1>2. CASE Commit
  BY <1>1, <1>2, CommitRow DEF Commit
<1>3. CASE Poll \/ Discover \/ Establish \/ Disconnect
  <2>1. UNCHANGED event
    BY <1>3 DEF Poll, Discover, Establish, Disconnect, Change
  <2> QED BY <1>1, <1>3, <2>1, DeviceKept
<1>4. CASE ~Commit /\ ~(Poll \/ Discover \/ Establish \/ Disconnect)
  <2>1. UNCHANGED <<environment, event>>
    BY <1>4
       DEF Next, Replan, BuildSiteModel, SolveWithoutPlan, Solve, SolvePower,
           SolveSwitch, Plan, DispatchBlocked, DispatchSimulated,
           DispatchNative, ReadFails, ReadModel, EncodeRaises, WriteChunk,
           Switch, Crash
  <2> QED BY <1>1, <2>1 DEF environment
<1> QED BY <1>2, <1>3, <1>4

(* The invariant is inductive.                                             *)
LEMMA DispatchStep == DispatchInv /\ [Next]_vars => DispatchInv'
<1> SUFFICES ASSUME DispatchInv, [Next]_vars PROVE DispatchInv'
  OBVIOUS
<1>1. CASE Next
  <2>1. /\ UNCHANGED inst /\ pc' \in Stages /\ relay' \in {"on", "off"}
        /\ replans' \in 0..MaxReplans /\ changes' \in 0..MaxChanges
    BY <1>1, FrameStep
  <2>2. SessionInv(pc', ses', evidence', regs', relay')
    BY <1>1, SessionStep
  <2>3. SessionInv(pc, ses, evidence, regs, relay)'
    BY <2>1, <2>2 DEF SessionInv, Sent, Meant
  <2>4. RegistersInv(regs)'
    BY <1>1, RegistersStep DEF RegistersInv
  <2>5. /\ device' \in Devices /\ event'.status \in Outcomes
        /\ DOMAIN evidence' = {"candidate", "connected", "endpoint"}
        /\ evidence'.connected \in BOOLEAN
    BY <1>1, RowsStep
  <2>6. inst' \in Installations
    BY <2>1 DEF DispatchInv
  <2> QED BY <2>1, <2>3, <2>4, <2>5, <2>6 DEF DispatchInv
<1>2. CASE UNCHANGED vars
  BY <1>2
     DEF vars, DispatchInv, RegistersInv, SessionInv, Sent, Meant
<1> QED BY <1>1, <1>2

(* The invariant, for every device, telemetry and order of events.         *)
THEOREM DispatchInvariant == Spec => []DispatchInv
<1> QED BY DispatchInit, DispatchStep, PTL DEF Spec

(* TypeOK: what the row, the session and the registers may hold.           *)
THEOREM TypeCorrect == Spec => []TypeOK
<1>1. DispatchInv => TypeOK
  <2> SUFFICES ASSUME DispatchInv PROVE TypeOK
    OBVIOUS
  <2>1. /\ device.asset \in RawTypes \cup {None}
        /\ device.telemetry \in Telemetries
    BY DEF DispatchInv, Devices
  <2>2. \A m \in DOMAIN regs : regs[m] \in [Offsets(m) -> 0..(Word - 1)]
    BY DEF DispatchInv, RegistersInv
  <2>3. ses.outcome \in Outcomes /\ ses.asset.eligibility \in Eligibilities
    BY DEF DispatchInv, SessionInv, SessionRecords, AssetRecords
  <2> QED BY <2>1, <2>2, <2>3 DEF DispatchInv, TypeOK, Eligibilities
<1> QED BY <1>1, DispatchInvariant, PTL

(* PlanFits: the contract's bounds and the planner's are the same, so the  *)
(* dispatcher's clamp never changes the command that was planned.          *)
THEOREM PlanIsSent == Spec => []PlanFits
<1>1. DispatchInv => PlanFits
  BY DEF DispatchInv, SessionInv, PlanSound, PlanFits, Command
<1> QED BY <1>1, DispatchInvariant, PTL

(* MinimumOn: a load that is turned on is planned to stay on, whatever the *)
(* horizon and the minimum time are.                                       *)
THEOREM LoadsStayOn == Spec => []MinimumOn
<1>1. DispatchInv => MinimumOn
  BY DEF DispatchInv, SessionInv, PlanSound, MinimumOn
<1> QED BY <1>1, DispatchInvariant, PTL

(* What the planner goes by: no battery is discharged below its reserve    *)
(* from the charge it reports, and from one half if it reports none, or 0. *)
AssumedReserveKept ==
  pc = "dispatching" /\ ses.asset.type = "battery" =>
    OrElse(ses.telemetry.soc, 50) - ses.plan * SocPerUnit >= ReservePct

(* AssumedReserveKept: the planner keeps the reserve of the charge it      *)
(* assumes.                                                                *)
THEOREM AssumedReserve == Spec => []AssumedReserveKept
<1>1. DispatchInv => AssumedReserveKept
  <2> SUFFICES ASSUME DispatchInv, pc = "dispatching",
                      ses.asset.type = "battery"
               PROVE  OrElse(ses.telemetry.soc, 50) - ses.plan * SocPerUnit
                        >= ReservePct
    BY DEF AssumedReserveKept
  <2>1. OrElse(ses.telemetry.soc, 50) - ses.plan * SocPerUnit
          \in ReservePct..100
    BY DEF DispatchInv, SessionInv, PlanSound
  <2>2. ReservePct \in Int
    BY SitePlanAssumption
  <2> QED BY <2>1, <2>2
<1> QED BY <1>1, DispatchInvariant, PTL

(* AppliedMeansSet: a dispatch that ends as applied has left the device    *)
(* with the nearest its registers hold of the command, enabled and without *)
(* a timer, or its relay as commanded.                                     *)
LEMMA AppliedFromInv == DispatchInv => AppliedMeansSet
<1> SUFFICES ASSUME DispatchInv, pc = "done", ses.outcome = "applied"
             PROVE  AppliedMeansSet
  BY DEF AppliedMeansSet
<1> DEFINE v == NumericCommand(ses.asset.contract, ses.command)
           c == MaxCharge(ses.asset, ses.telemetry)
           d == MaxDischarge(ses.asset, ses.telemetry)
           full == PowerRating(ses.telemetry)
           m == DispatchModel(ses.adapter)
<1>1. /\ ses \in SessionRecords /\ ses.telemetry \in Telemetries
      /\ IF Http(ses.adapter) THEN (relay = "on") = (ses.command > 0)
         ELSE Sent(ses, regs) /\ DOMAIN ses.image = {}
  BY DEF DispatchInv, SessionInv
<1>2. inst.digits \in 0..3
  BY DispatchAssumption DEF DispatchInv
<1>3. CASE Http(ses.adapter)
  <2>1. (relay = "on") = (ses.command > 0)
    BY <1>1, <1>3
  <2>2. ses.adapter \notin SunSpec
    BY <1>3 DEF Http, SunSpec
  <2> QED BY <1>3, <2>1, <2>2, Zenon DEF AppliedMeansSet, SunSpec
<1>4. CASE ~Http(ses.adapter)
  <2>1. /\ ses.adapter \in SunSpec
        /\ LimitsKnown(ses.adapter, ses.asset, ses.telemetry)
        /\ \A o \in Offsets(m) : regs[m][o] = Meant(ses)[o]
    BY <1>1, <1>4 DEF Sent
  <2>2. /\ c \in Int /\ d \in Int /\ full \in Int /\ v \in Int
    <3>1. ses.asset \in AssetRecords /\ ses.command \in Int
      BY <1>1 DEF SessionRecords
    <3> QED BY <1>1, <3>1, LimitsAre DEF NumericCommand
  <2>3. CASE ses.adapter = "sunspec_storage_basic_rate"
    <3> DEFINE r == StorageImage(v, c, d, inst.digits)
    <3>1. /\ m = 124 /\ Offsets(124) = StorageOffsets /\ Meant(ses) = r
      BY <2>3 DEF DispatchModel, Offsets, Meant, Image
    <3>2. c \in Nat \ {0} /\ d \in Nat \ {0}
      BY <2>1, <2>2, <2>3 DEF LimitsKnown
    <3>3. \A o \in {5, 12, 13, 14, 15, 16} : regs[124][o] = r[o]
      BY <2>1, <3>1 DEF StorageOffsets
    <3> HIDE DEF v, c, d
    <3>4. /\ NoTimers(r, 14..16)
          /\ IsNearest(StorageRate(r), v, IF v < 0 THEN c ELSE d)
      BY <1>2, <2>2, <3>2, StorageImageMeans, Zenon
    <3> HIDE DEF r
    <3>5. NoTimers(regs[124], 14..16)
      BY <3>3, <3>4 DEF NoTimers
    <3>6. StorageRate(regs[124]) = StorageRate(r)
      BY <3>3 DEF StorageRate
    <3>7. StorageMeans(regs[124], v)
      BY <3>4, <3>5, <3>6 DEF StorageMeans, c, d
    <3> QED BY <1>4, <2>3, <3>7 DEF AppliedMeansSet, v
  <2>4. ASSUME full \in Nat \ {0}
        PROVE  LimitMeans(Unsigned16(RawPercent(v, full, inst.digits)), v)
    <3> SUFFICES ASSUME v >= 0, RawPercent(v, full, inst.digits) < Word
                 PROVE  IsNearest(Unsigned16(RawPercent(v, full,
                                                        inst.digits)),
                                  v, full)
      BY DEF LimitMeans, LimitCanSay
    <3> HIDE DEF v, full
    <3> QED BY <1>2, <2>2, <2>4, LimitIsNearest, Zenon
  <2>5. CASE ses.adapter = "sunspec_immediate_wmax_pct"
    <3> DEFINE r == ImmediateImage(v, full, inst.digits)
               low == Unsigned16(RawPercent(v, full, inst.digits))
    <3>1. /\ m = 123 /\ Offsets(123) = ImmediateOffsets /\ Meant(ses) = r
      BY <2>5 DEF DispatchModel, Offsets, Meant, Image
    <3>2. full \in Nat \ {0}
      BY <2>1, <2>2, <2>5 DEF LimitsKnown
    <3>3. \A o \in {5, 6, 7, 8, 9} : regs[123][o] = r[o]
      BY <2>1, <3>1 DEF ImmediateOffsets
    <3> HIDE DEF v, full
    <3>4. /\ r[5] = low /\ r[6] = 0 /\ r[7] = 0 /\ r[8] = 0 /\ r[9] = 1
      BY <1>2, <2>2, <3>2, ImmediateImageIs, Zenon
    <3> HIDE DEF r, low
    <3>5. /\ NoTimers(regs[123], 6..8) /\ regs[123][9] = 1
          /\ regs[123][5] = low
      BY <3>3, <3>4 DEF NoTimers
    <3>6. LimitMeans(regs[123][5], v)
      BY <2>4, <3>2, <3>5 DEF low
    <3> QED BY <1>4, <2>5, <3>5, <3>6 DEF AppliedMeansSet, v
  <2>6. CASE ses.adapter = "sunspec_der_wmax_pct"
    <3> DEFINE r == DerImage(v, full, inst.digits)
               low == Unsigned16(RawPercent(v, full, inst.digits))
    <3>1. /\ m = 704 /\ Offsets(704) = DerOffsets /\ Meant(ses) = r
      BY <2>6 DEF DispatchModel, Offsets, Meant, Image
    <3>2. full \in Nat \ {0}
      BY <2>1, <2>2, <2>6 DEF LimitsKnown
    <3>3. \A o \in {14, 15} : regs[704][o] = r[o]
      BY <2>1, <3>1 DEF DerOffsets
    <3> HIDE DEF v, full
    <3>4. r[15] = low /\ r[14] = 1
      BY <1>2, <2>2, <3>2, DerImageIs, Zenon
    <3> HIDE DEF r, low
    <3>5. regs[704][14] = 1 /\ regs[704][15] = low
      BY <3>3, <3>4
    <3>6. LimitMeans(regs[704][15], v)
      BY <2>4, <3>2, <3>5 DEF low
    <3> QED BY <1>4, <2>6, <3>5, <3>6 DEF AppliedMeansSet, v
  <2> QED BY <2>1, <2>3, <2>5, <2>6 DEF SunSpec
<1> QED BY <1>3, <1>4

(* AppliedMeansSet holds of every dispatch, whatever was lost before it.   *)
THEOREM AppliedIsSet == Spec => []AppliedMeansSet
<1> QED BY AppliedFromInv, DispatchInvariant, PTL

(* GuardedWrites: the device is written only for an asset that was         *)
(* dispatchable when it was read, through the adapter of its contract, and *)
(* while the evidence still names it.                                      *)
THEOREM WritesAreGuarded == Spec => GuardedWrites
<1> DEFINE Guarded ==
      <<regs, relay>>' # <<regs, relay>> =>
        /\ inst.native
        /\ ses.asset.eligibility = "dispatchable"
        /\ ses.adapter = ses.asset.contract.adapter
        /\ ses.adapter = Profile(evidence)
        /\ DispatchModel(ses.adapter) \in Blocks(evidence) \cup {0}
<1>1. ASSUME DispatchInv, [Next]_vars
      PROVE  [Guarded]_vars
  <2>1. CASE pc \in {"writing", "switching"}
    <3>1. Guarded
      BY <1>1, <2>1 DEF DispatchInv, SessionInv
    <3> QED BY <3>1
  <2>2. CASE pc \notin {"writing", "switching"} /\ Next
    <3>1. UNCHANGED <<regs, relay>>
      BY <2>2, QuietStep DEF WriteChunk, Switch
    <3> QED BY <3>1
  <2>3. CASE UNCHANGED vars
    BY <2>3
  <2> QED BY <1>1, <2>1, <2>2, <2>3
<1> QED BY <1>1, DispatchInvariant, PTL DEF Spec, GuardedWrites

(* TurnsThroughIdle: a storage device whose rates have been written never  *)
(* runs the other way at the rate of an earlier command.                   *)
LEMMA TurnStep ==
  ASSUME DispatchInv, NEW answer, WriteChunk(answer), RatesWritten,
         StorageRate(regs[124]) # 0,
         regs'[124][5] \notin {0, regs[124][5]}
  PROVE  StorageRate(regs'[124]) = 0
<1> DEFINE m == DispatchModel(ses.adapter)
           chunk == NextChunk(ses.image)
<1>1. pc = "writing" /\ Written(answer)
  BY ChunkWritten
<1>2. /\ DOMAIN regs = {123, 124, 704}
      /\ DOMAIN regs[124] = StorageOffsets
      /\ regs[124][12] = 0 \/ regs[124][13] = 0
  BY DEF DispatchInv, RegistersInv, RatesWritten, Offsets
<1>3. answer # "refused"
  BY <1>1 DEF Written
<1>4. /\ \A k \in DOMAIN regs \ {m} : regs'[k] = regs[k]
      /\ regs'[m] = [o \in DOMAIN regs[m] |->
                       IF o \in chunk THEN Meant(ses)[o] ELSE regs[m][o]]
  BY <1>1, <1>3 DEF Written
<1>5. m = 124
  BY <1>2, <1>4
<1>6. chunk \in {{5}, 12..16}
  <2>1. /\ ses.adapter \in SunSpec
        /\ DOMAIN ses.image \in Remaining(ses.adapter)
    BY <1>1, WritingSession DEF SessionMeans
  <2>2. NextChunk(ses.image) =
          IF DOMAIN ses.image = StorageOffsets THEN {5} ELSE DOMAIN ses.image
    BY <2>1, ChunkIs
  <2>3. DOMAIN ses.image \in {StorageOffsets, 12..16}
    <3>1. Offsets(DispatchModel(ses.adapter)) = StorageOffsets
      BY <1>5 DEF Offsets
    <3> QED BY <2>1, <3>1 DEF Remaining
  <2> QED BY <2>2, <2>3
<1> HIDE DEF chunk
<1>7. CASE chunk = {5}
  <2>1. regs'[124][12] = regs[124][12] /\ regs'[124][13] = regs[124][13]
    BY <1>2, <1>4, <1>5, <1>7 DEF StorageOffsets
  <2> QED BY <1>2, <2>1 DEF StorageRate
<1>8. CASE chunk = 12..16
  BY <1>2, <1>4, <1>5, <1>8 DEF StorageOffsets
<1> QED BY <1>6, <1>7, <1>8

(* TurnsThroughIdle: a battery that turns round stops in between, also     *)
(* when a request was lost, now or in an earlier dispatch.                 *)
THEOREM TurnedThroughIdle == Spec => TurnsThroughIdle
<1> DEFINE Turns ==
      RatesWritten /\ StorageRate(regs[124]) # 0
        /\ regs'[124][5] \notin {0, regs[124][5]}
      => StorageRate(regs'[124]) = 0
<1>1. ASSUME DispatchInv, [Next]_vars
      PROVE  [Turns]_vars
  <2>1. CASE UNCHANGED regs
    BY <2>1
  <2>2. CASE \E answer \in Answers : WriteChunk(answer)
    BY <1>1, <2>2, TurnStep
  <2>3. CASE Next /\ ~\E answer \in Answers : WriteChunk(answer)
    <3>1. UNCHANGED regs
      BY <2>3, QuietStep DEF Switch
    <3> QED BY <3>1
  <2> QED BY <1>1, <2>1, <2>2, <2>3 DEF vars
<1> QED BY <1>1, DispatchInvariant, PTL DEF Spec, TurnsThroughIdle

-----------------------------------------------------------------------------
(* The reserve of a battery that reports its charge *)

(* A replan keeps the charge that its session has read.                    *)
LEMMA ChargeIsKept ==
  ASSUME DispatchInv, Replan, pc' # "idle", pc # "idle"
  PROVE  ses'.telemetry.soc = ses.telemetry.soc /\ UNCHANGED device
<1>1. ses \in SessionRecords /\ ses.telemetry \in Telemetries
  BY DEF DispatchInv, SessionInv
<1>2. \A x : [ses.telemetry EXCEPT !.power = x].soc = ses.telemetry.soc
  BY <1>1 DEF Telemetries
<1>3. CASE SolveWithoutPlan
  BY <1>3 DEF SolveWithoutPlan, environment
<1>4. CASE Solve
  <2>1. PICK v, on, m : Plan(v, on, m)
    BY <1>4 DEF Solve, SolvePower, SolveSwitch
  <2>2. UNCHANGED device /\ ses'.telemetry = ses.telemetry
    BY <1>1, <2>1 DEF Plan, environment, SessionRecords
  <2> QED BY <2>2
<1>5. CASE DispatchBlocked
  BY <1>1, <1>5 DEF DispatchBlocked, Finish, environment, SessionRecords
<1>6. CASE DispatchSimulated
  BY <1>1, <1>2, <1>6
     DEF DispatchSimulated, Finish, environment, SessionRecords
<1>7. CASE DispatchNative
  <2>1. PICK adapter :
          LET s == [ses EXCEPT !.command = Command, !.adapter = adapter]
          IN  ses' = s \/ ses' = [s EXCEPT !.outcome = "failed"]
    BY <1>7 DEF DispatchNative, Finish
  <2>2. ses'.telemetry = ses.telemetry
    BY <1>1, <2>1 DEF SessionRecords
  <2> QED BY <1>7, <2>2 DEF DispatchNative, environment
<1>8. CASE ReadFails \/ ReadModel
  BY <1>1, <1>8 DEF ReadFails, ReadModel, Finish, environment, SessionRecords
<1>9. CASE \E answer \in Answers : WriteChunk(answer)
  <2> DEFINE rest == Restrict(ses.image,
                              DOMAIN ses.image \ NextChunk(ses.image))
             a == [ses EXCEPT !.image = <<>>]
  <2>1. UNCHANGED device
    BY <1>9 DEF WriteChunk, environment
  <2>2. \/ ses' = [ses EXCEPT !.outcome = "failed"]
        \/ ses' = [Applied(a) EXCEPT !.outcome = "applied"]
        \/ ses' = [ses EXCEPT !.image = rest]
    BY <1>9 DEF WriteChunk, Finish
  <2> HIDE DEF rest
  <2>3. [ses EXCEPT !.image = rest].telemetry = ses.telemetry
    BY <1>1 DEF SessionRecords
  <2>4. [ses EXCEPT !.outcome = "failed"].telemetry = ses.telemetry
    BY <1>1 DEF SessionRecords
  <2>5. [Applied(a) EXCEPT !.outcome = "applied"].telemetry.soc
          = ses.telemetry.soc
    <3>1. a \in SessionRecords /\ a.telemetry = ses.telemetry
      BY <1>1, EmptyImage DEF SessionRecords
    <3> DEFINE x == IF a.adapter = "sunspec_storage_basic_rate"
                    THEN Max({a.command, -a.command}) ELSE a.telemetry.power
    <3> HIDE DEF a
    <3>2. Applied(a) = [a EXCEPT !.telemetry = [a.telemetry EXCEPT
                                                  !.power = x]]
      BY <3>1 DEF Applied, SessionRecords
    <3> HIDE DEF x
    <3>3. [Applied(a) EXCEPT !.outcome = "applied"].telemetry
            = [a.telemetry EXCEPT !.power = x]
      BY <3>1, <3>2 DEF SessionRecords
    <3> QED BY <1>2, <3>1, <3>3
  <2> QED BY <2>1, <2>2, <2>3, <2>4, <2>5
<1>10. CASE \E answer \in Answers : Switch(answer)
  BY <1>1, <1>10 DEF Switch, Finish, environment, SessionRecords
<1>11. ~(EncodeRaises \/ Commit \/ Crash \/ BuildSiteModel)
  BY DEF EncodeRaises, Commit, Crash, BuildSiteModel
<1> QED BY <1>3, <1>4, <1>5, <1>6, <1>7, <1>8, <1>9, <1>10, <1>11 DEF Replan

(* No device and no session holds a charge of 0 %, if none is ever         *)
(* reported.                                                               *)
ChargeInv == /\ device.telemetry.soc # 0
             /\ pc # "idle" => ses.telemetry.soc # 0

(* No step reports or stores such a charge.                                *)
LEMMA ChargeStep ==
  ASSUME 0 \notin Charges, DispatchInv, ChargeInv, Next
  PROVE  ChargeInv'
<1>1. CASE BuildSiteModel
  <2>1. UNCHANGED device /\ ses'.telemetry = device.telemetry
    BY <1>1 DEF BuildSiteModel, environment, NoSession
  <2> QED BY <2>1 DEF ChargeInv
<1>2. CASE EncodeRaises \/ Crash
  BY <1>2 DEF EncodeRaises, Crash, environment, ChargeInv
<1>3. CASE Commit
  <2>1. /\ pc = "done" /\ pc' = "idle" /\ device \in Devices
        /\ device' = [device EXCEPT
              !.asset = ses.row,
              !.telemetry = IF ses.outcome \in {"applied", "simulated"}
                            THEN ses.telemetry ELSE @]
    BY <1>3 DEF Commit, DispatchInv
  <2>2. device'.telemetry \in {device.telemetry, ses.telemetry}
    BY <2>1 DEF Devices
  <2> QED BY <2>1, <2>2 DEF ChargeInv
<1>4. CASE Replan /\ pc # "idle" /\ pc' # "idle"
  BY <1>4, ChargeIsKept DEF ChargeInv
<1>5. ASSUME Replan, pc = "idle" \/ pc' = "idle"
      PROVE  BuildSiteModel \/ EncodeRaises \/ Crash \/ Commit
  BY <1>5
     DEF Replan, SolveWithoutPlan, Solve, SolvePower, SolveSwitch, Plan,
         DispatchBlocked, DispatchSimulated, DispatchNative, ReadFails,
         ReadModel, WriteChunk, Switch, Finish
<1>6. CASE Poll \/ Discover \/ Establish \/ Disconnect
  <2>1. UNCHANGED <<pc, ses>>
    BY <1>6 DEF Poll, Discover, Establish, Disconnect, Change
  <2>2. \A p \in Probed : p.telemetry \in Telemetries /\ p.telemetry.soc # 0
    <3>1. SUFFICES ASSUME NEW p \in Probed
                   PROVE  p.telemetry.soc # 0
      BY ProbedIs
    <3>2. PICK probe \in Probes(inst.chain), power \in Measured,
               soc \in Charges :
            p.telemetry = Extracted(inst, probe, power, soc)
      BY DEF Probed
    <3>3. p.telemetry.soc \in {soc, Missing}
      BY <3>2 DEF Extracted
    <3> QED BY <3>3 DEF Missing
  <2>3. device'.telemetry.soc # 0
    <3>1. device \in Devices /\ device.telemetry.soc # 0
      BY DEF DispatchInv, ChargeInv
    <3>2. CASE Poll
      <4>1. PICK p \in Probed :
              device' = Refreshed(device, p.telemetry, p.profile, TRUE)
        BY <3>2 DEF Poll
      <4>2. device'.telemetry \in {device.telemetry, p.telemetry}
        BY <3>1, <4>1 DEF Refreshed, Devices
      <4> QED BY <2>2, <3>1, <4>2
    <3>3. CASE Discover
      <4>1. PICK p \in Probed :
              device'.telemetry = [p.telemetry EXCEPT
                                     !.curtail = @ \/ IsLimit(p.profile)]
        <5>1. PICK p \in Probed :
                LET silent == NoTelemetry(p.telemetry)
                IN  device' =
                      [asset |-> Classified(inst, p.blocks), visible |-> TRUE,
                       monitorable |-> ~silent,
                       controllable |-> p.profile # None,
                       telemetry |-> [p.telemetry EXCEPT
                                        !.curtail = @ \/ IsLimit(p.profile)],
                       status |-> IF silent THEN "visible_only"
                                  ELSE IF p.profile # None THEN "optimizable"
                                  ELSE "monitorable"]
          BY <3>3 DEF Discover
        <5> QED BY <5>1
      <4>2. device'.telemetry.soc = p.telemetry.soc
        BY <2>2, <4>1 DEF Telemetries
      <4> QED BY <2>2, <4>2
    <3>4. CASE Establish \/ Disconnect
      <4>1. device'.telemetry = device.telemetry
        BY <3>1, <3>4 DEF Establish, Disconnect, Devices
      <4> QED BY <3>1, <4>1
    <3> QED BY <1>6, <3>2, <3>3, <3>4
  <2> QED BY <2>1, <2>3 DEF ChargeInv
<1> QED BY <1>1, <1>2, <1>3, <1>4, <1>5, <1>6 DEF Next

(* ReserveKept: a battery that reports its charge is never planned to be   *)
(* discharged below its reserve, as long as it does not report 0 %, which  *)
(* the code takes for a charge that is not known.                          *)
THEOREM ReserveIsKept ==
  ASSUME 0 \notin Charges,
         \A i \in Installations : i.device.telemetry.soc # 0
  PROVE  Spec => []ReserveKept
<1>1. Init => ChargeInv
  BY DEF Init, ChargeInv
<1>2. ChargeInv /\ DispatchInv /\ [Next]_vars => ChargeInv'
  BY ChargeStep DEF vars, ChargeInv
<1>3. ChargeInv /\ AssumedReserveKept => ReserveKept
  BY DEF ChargeInv, AssumedReserveKept, ReserveKept, OrElse, Known
<1> QED BY <1>1, <1>2, <1>3, DispatchInvariant, AssumedReserve, PTL DEF Spec
=============================================================================
