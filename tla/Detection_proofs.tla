-------------------------- MODULE Detection_proofs --------------------------
(***************************************************************************)
(* Proofs about the banks of patches.                                      *)
(*                                                                         *)
(*   CoresetEvolution  the module itself, for every configuration, any     *)
(*                 number of frames and any outcome of the selections,     *)
(*                 thresholds and failures                                 *)
(*   Banks         what a bank covers and serves (BanksCoverAndServe)      *)
(***************************************************************************)
EXTENDS CoresetEvolution, Numbers, FiniteSetTheorems, FunctionTheorems

-----------------------------------------------------------------------------
(* The drift test                                                           *)

\* Five terms of sum S: the two largest deviations cannot both exceed twice
\* the standard deviation.
LEMMA TwoDeviations ==
    ASSUME NEW n \in 3 .. 5, NEW v \in Int,
           NEW a \in Int, NEW b \in Int, NEW c \in Int, NEW r \in Int,
           r >= 0, a > 0, a * a > 4 * v, b * b > 4 * v, c * c > 4 * v,
           a * a + b * b + c * c + r = n * v
    PROVE  FALSE
<1> DEFINE A == a * a
           B == b * b
           C == c * c
<1>1. A \in Int /\ B \in Int /\ C \in Int /\ A > 0
  OBVIOUS
<1>2. A > 4 * v /\ B > 4 * v /\ C > 4 * v /\ A + B + C + r = n * v
  OBVIOUS
<1>3. n * v = 3 * v \/ n * v = 4 * v \/ n * v = 5 * v
  OBVIOUS
<1>4. B >= 0 /\ C >= 0
  OBVIOUS
<1> HIDE DEF A, B, C
<1> QED BY <1>1, <1>2, <1>3, <1>4

\* Three values: the last three cannot all be that far above the mean.
LEMMA NoDriftOf3 ==
    ASSUME NEW x \in Int, NEW y \in Int, NEW z \in Int, NEW s \in Int, NEW q \in Int,
           s = x + y + z, q = x * x + y * y + z * z,
           3 * x - s > 0,
           (3 * x - s) * (3 * x - s) > 4 * (3 * q - s * s),
           (3 * y - s) * (3 * y - s) > 4 * (3 * q - s * s),
           (3 * z - s) * (3 * z - s) > 4 * (3 * q - s * s)
    PROVE  FALSE
<1> DEFINE v == 3 * q - s * s
           a == 3 * x - s
           b == 3 * y - s
           c == 3 * z - s
           r == 0
<1>1. v \in Int /\ a \in Int /\ b \in Int /\ c \in Int
  OBVIOUS
<1>2. r \in Int /\ r >= 0
  <2>1. \A m \in Int : m * m \in Int /\ m * m >= 0
    OBVIOUS
  <2> QED BY <2>1
<1>3. a * a + b * b + c * c + r = 3 * v
  OBVIOUS
<1>4. a > 0 /\ a * a > 4 * v /\ b * b > 4 * v /\ c * c > 4 * v
  OBVIOUS
<1> HIDE DEF v, a, b, c, r
<1> QED BY <1>1, <1>2, <1>3, <1>4, TwoDeviations

\* Four values: the last three cannot all be that far above the mean.
LEMMA NoDriftOf4 ==
    ASSUME NEW x \in Int, NEW y \in Int, NEW z \in Int, NEW u \in Int, NEW s \in Int, NEW q \in Int,
           s = x + y + z + u, q = x * x + y * y + z * z + u * u,
           4 * y - s > 0,
           (4 * y - s) * (4 * y - s) > 4 * (4 * q - s * s),
           (4 * z - s) * (4 * z - s) > 4 * (4 * q - s * s),
           (4 * u - s) * (4 * u - s) > 4 * (4 * q - s * s)
    PROVE  FALSE
<1> DEFINE v == 4 * q - s * s
           a == 4 * y - s
           b == 4 * z - s
           c == 4 * u - s
           r == (4 * x - s) * (4 * x - s)
<1>1. v \in Int /\ a \in Int /\ b \in Int /\ c \in Int
  OBVIOUS
<1>2. r \in Int /\ r >= 0
  <2>1. \A m \in Int : m * m \in Int /\ m * m >= 0
    OBVIOUS
  <2> QED BY <2>1
<1>3. a * a + b * b + c * c + r = 4 * v
  OBVIOUS
<1>4. a > 0 /\ a * a > 4 * v /\ b * b > 4 * v /\ c * c > 4 * v
  OBVIOUS
<1> HIDE DEF v, a, b, c, r
<1> QED BY <1>1, <1>2, <1>3, <1>4, TwoDeviations

\* Five values: the last three cannot all be that far above the mean.
LEMMA NoDriftOf5 ==
    ASSUME NEW x \in Int, NEW y \in Int, NEW z \in Int, NEW u \in Int, NEW w \in Int, NEW s \in Int, NEW q \in Int,
           s = x + y + z + u + w, q = x * x + y * y + z * z + u * u + w * w,
           5 * z - s > 0,
           (5 * z - s) * (5 * z - s) > 4 * (5 * q - s * s),
           (5 * u - s) * (5 * u - s) > 4 * (5 * q - s * s),
           (5 * w - s) * (5 * w - s) > 4 * (5 * q - s * s)
    PROVE  FALSE
<1> DEFINE v == 5 * q - s * s
           a == 5 * z - s
           b == 5 * u - s
           c == 5 * w - s
           r == (5 * x - s) * (5 * x - s) + (5 * y - s) * (5 * y - s)
<1>1. v \in Int /\ a \in Int /\ b \in Int /\ c \in Int
  OBVIOUS
<1>2. r \in Int /\ r >= 0
  <2>1. \A m \in Int : m * m \in Int /\ m * m >= 0
    OBVIOUS
  <2> QED BY <2>1
<1>3. a * a + b * b + c * c + r = 5 * v
  OBVIOUS
<1>4. a > 0 /\ a * a > 4 * v /\ b * b > 4 * v /\ c * c > 4 * v
  OBVIOUS
<1> HIDE DEF v, a, b, c, r
<1> QED BY <1>1, <1>2, <1>3, <1>4, TwoDeviations

\* A sum over the displacement history is a number.
LEMMA TotalIsInt ==
    ASSUME NEW h, Len(h) \in Nat, \A i \in 1 .. Len(h) : h[i] \in Int
    PROVE  Total(h) \in Int
<1> DEFINE d(i) == IF i <= Len(h) THEN h[i] ELSE 0
<1>1. d(1) \in Int /\ d(2) \in Int /\ d(3) \in Int /\ d(4) \in Int /\ d(5) \in Int
  OBVIOUS
<1>2. Total(h) = d(1) + d(2) + d(3) + d(4) + d(5)
  BY DEF Total
<1> HIDE DEF d
<1> QED BY <1>1, <1>2, SMTT(60)

\* CheckDrift reports no drift, whatever displacements it has recorded.
LEMMA NeverDrifts ==
    ASSUME NEW h \in Seq(Nat), Len(h) <= 5
    PROVE  ~Drifted(h)
<1> SUFFICES ASSUME Drifted(h) PROVE FALSE
  OBVIOUS
<1>0. \A m \in Int : m * m \in Int
  OBVIOUS
<1>1. Len(h) \in 3 .. 5
  <2>1. Len(h) >= 3
    BY DEF Drifted
  <2> DEFINE n == Len(h)
  <2>2. n \in Nat /\ n >= 3 /\ n <= 5
    BY <2>1
  <2> HIDE DEF n
  <2>3. n \in 3 .. 5
    BY <2>2
  <2> QED BY <2>3 DEF n
<1>2. \A i \in 1 .. Len(h) : h[i] \in Int
  BY <1>1
<1> DEFINE sq == [i \in DOMAIN h |-> h[i] * h[i]]
<1>3. Len(sq) = Len(h) /\ \A i \in 1 .. Len(h) : sq[i] = h[i] * h[i]
  <2>1. DOMAIN h = 1 .. Len(h) /\ \A i \in 1 .. Len(h) : h[i] * h[i] \in Int
    BY <1>2
  <2>2. sq \in Seq(Int)
    BY <2>1, <1>1
  <2> QED BY <2>1, <2>2, <1>1
<1>4. Squares(h) = Total(sq)
  BY DEF Squares
<1>5. \A i \in Len(h) - 2 .. Len(h) :
         /\ Len(h) * h[i] - Total(h) > 0
         /\ (Len(h) * h[i] - Total(h)) * (Len(h) * h[i] - Total(h))
               > 4 * (Len(h) * Squares(h) - Total(h) * Total(h))
  BY DEF Drifted, Exceeds
<1> HIDE DEF sq
<1>6. CASE Len(h) = 3
  <2>1. h[1] \in Int /\ h[2] \in Int /\ h[3] \in Int
    BY <1>2, <1>6
  <2>2. Total(h) = h[1] + h[2] + h[3]
    BY <2>1, <1>6 DEF Total
  <2>3. sq[1] = h[1] * h[1] /\ sq[2] = h[2] * h[2] /\ sq[3] = h[3] * h[3]
    BY <1>3, <1>6
  <2>4. Squares(h) = h[1] * h[1] + h[2] * h[2] + h[3] * h[3] /\ Squares(h) \in Int
    <3>1. sq[1] \in Int /\ sq[2] \in Int /\ sq[3] \in Int
      BY <1>0, <2>1, <2>3
    <3>2. Total(sq) = sq[1] + sq[2] + sq[3]
      BY <1>3, <1>6, <3>1 DEF Total
    <3>3. Squares(h) \in Int
      BY <3>1, <3>2, <1>4
    <3> QED BY <3>2, <3>3, <2>3, <1>4
  <2>5. 3 * h[1] - Total(h) > 0
    BY <1>5, <1>6
  <2>6. (3 * h[1] - Total(h)) * (3 * h[1] - Total(h)) > 4 * (3 * Squares(h) - Total(h) * Total(h))
    BY <1>5, <1>6
  <2>7. (3 * h[2] - Total(h)) * (3 * h[2] - Total(h)) > 4 * (3 * Squares(h) - Total(h) * Total(h))
    BY <1>5, <1>6
  <2>8. (3 * h[3] - Total(h)) * (3 * h[3] - Total(h)) > 4 * (3 * Squares(h) - Total(h) * Total(h))
    BY <1>5, <1>6
  <2>9. Total(h) \in Int /\ Squares(h) \in Int
    <3>1. Total(h) \in Int
      BY <1>1, <1>2, TotalIsInt
    <3> QED BY <3>1, <2>4, Zenon
  <2> QED BY <2>1, <2>2, <2>4, <2>5, <2>6, <2>7, <2>8, <2>9, NoDriftOf3
<1>7. CASE Len(h) = 4
  <2>1. h[1] \in Int /\ h[2] \in Int /\ h[3] \in Int /\ h[4] \in Int
    BY <1>2, <1>7
  <2>2. Total(h) = h[1] + h[2] + h[3] + h[4]
    BY <2>1, <1>7 DEF Total
  <2>3. sq[1] = h[1] * h[1] /\ sq[2] = h[2] * h[2] /\ sq[3] = h[3] * h[3] /\ sq[4] = h[4] * h[4]
    BY <1>3, <1>7
  <2>4. Squares(h) = h[1] * h[1] + h[2] * h[2] + h[3] * h[3] + h[4] * h[4] /\ Squares(h) \in Int
    <3>1. sq[1] \in Int /\ sq[2] \in Int /\ sq[3] \in Int /\ sq[4] \in Int
      BY <1>0, <2>1, <2>3
    <3>2. Total(sq) = sq[1] + sq[2] + sq[3] + sq[4]
      BY <1>3, <1>7, <3>1 DEF Total
    <3>3. Squares(h) \in Int
      BY <3>1, <3>2, <1>4, SMTT(60)
    <3> QED BY <3>2, <3>3, <2>3, <1>4
  <2>5. 4 * h[2] - Total(h) > 0
    BY <1>5, <1>7
  <2>6. (4 * h[2] - Total(h)) * (4 * h[2] - Total(h)) > 4 * (4 * Squares(h) - Total(h) * Total(h))
    BY <1>5, <1>7
  <2>7. (4 * h[3] - Total(h)) * (4 * h[3] - Total(h)) > 4 * (4 * Squares(h) - Total(h) * Total(h))
    BY <1>5, <1>7
  <2>8. (4 * h[4] - Total(h)) * (4 * h[4] - Total(h)) > 4 * (4 * Squares(h) - Total(h) * Total(h))
    BY <1>5, <1>7
  <2>9. Total(h) \in Int /\ Squares(h) \in Int
    <3>1. Total(h) \in Int
      BY <1>1, <1>2, TotalIsInt
    <3> QED BY <3>1, <2>4, Zenon
  <2> QED BY <2>1, <2>2, <2>4, <2>5, <2>6, <2>7, <2>8, <2>9, NoDriftOf4
<1>8. CASE Len(h) = 5
  <2>1. h[1] \in Int /\ h[2] \in Int /\ h[3] \in Int /\ h[4] \in Int /\ h[5] \in Int
    BY <1>2, <1>8
  <2>2. Total(h) = h[1] + h[2] + h[3] + h[4] + h[5]
    BY <2>1, <1>8 DEF Total
  <2>3. sq[1] = h[1] * h[1] /\ sq[2] = h[2] * h[2] /\ sq[3] = h[3] * h[3] /\ sq[4] = h[4] * h[4] /\ sq[5] = h[5] * h[5]
    BY <1>3, <1>8
  <2>4. Squares(h) = h[1] * h[1] + h[2] * h[2] + h[3] * h[3] + h[4] * h[4] + h[5] * h[5] /\ Squares(h) \in Int
    <3>1. sq[1] \in Int /\ sq[2] \in Int /\ sq[3] \in Int /\ sq[4] \in Int /\ sq[5] \in Int
      BY <1>0, <2>1, <2>3
    <3>2. Total(sq) = sq[1] + sq[2] + sq[3] + sq[4] + sq[5]
      BY <1>3, <1>8, <3>1 DEF Total
    <3>3. Squares(h) \in Int
      BY <3>1, <3>2, <1>4, SMTT(60)
    <3> QED BY <3>2, <3>3, <2>3, <1>4
  <2>5. 5 * h[3] - Total(h) > 0
    BY <1>5, <1>8
  <2>6. (5 * h[3] - Total(h)) * (5 * h[3] - Total(h)) > 4 * (5 * Squares(h) - Total(h) * Total(h))
    BY <1>5, <1>8
  <2>7. (5 * h[4] - Total(h)) * (5 * h[4] - Total(h)) > 4 * (5 * Squares(h) - Total(h) * Total(h))
    BY <1>5, <1>8
  <2>8. (5 * h[5] - Total(h)) * (5 * h[5] - Total(h)) > 4 * (5 * Squares(h) - Total(h) * Total(h))
    BY <1>5, <1>8
  <2>9. Total(h) \in Int /\ Squares(h) \in Int
    <3>1. Total(h) \in Int
      BY <1>1, <1>2, TotalIsInt
    <3> QED BY <3>1, <2>4, Zenon
  <2> QED BY <2>1, <2>2, <2>4, <2>5, <2>6, <2>7, <2>8, <2>9, NoDriftOf5, ZenonT(60)
<1> QED BY <1>1, <1>6, <1>7, <1>8

-----------------------------------------------------------------------------
(* The inductive invariant                                                  *)

\* The types that TypeOK leaves open; the history of displacements holds five.
Shape ==
    /\ banks \in Nat /\ disk \in [bank : Nat, profile : Nat]
    /\ origin \in Seq(Nat) /\ buffer \in Seq(Nat) /\ batch \in Seq(Nat)
    /\ rejected \subseteq 1 .. Len(origin)
    /\ Len(displacement) <= 5

\* A rebuild has the evolution to itself: it runs only while the updater does
\* not.  The updater holds a batch exactly while it deals with one.
Control ==
    /\ cpc \in {"rebuild", "saveBank", "saveProfile", "swapOut", "swapIn"} => upc = "none"
    /\ batch = <<>> <=> upc \in {"none", "wait", "drain", "exited"}

\* No candidate that waits for its update has been rejected before.
Undecided ==
    /\ ToSet(buffer) \cap rejected = {}
    /\ upc # "record" => ToSet(batch) \cap rejected = {}

\* Where the detector's bank and profile of before the update are, step by step.
PriorKept ==
    /\ upc = "swapOut" => prior.bank = active /\ prior.profile = activeProfile
    /\ upc = "swapIn" => prior.bank = old /\ prior.profile = activeProfile
    /\ upc = "validate" => prior.bank = standby /\ prior.profile = standbyProfile
    /\ upc \in {"backOut", "backIn"} => prior.bank = made /\ prior.profile = standbyProfile
    /\ upc = "record" => \/ ToSet(batch) \cap rejected = {}
                         \/ active = prior.bank /\ activeProfile = prior.profile

\* The files hold banks made before the one that is being saved.
OnDisk ==
    /\ disk.profile <= disk.bank
    /\ cpc = "saveBank" => disk.bank <= made.id
    /\ cpc = "saveProfile" => disk.bank = made.id

\* TypeOK in parts, so that a step is asked only about those it can disturb.
BanksOK == \A b \in {active, standby, made, old, search} :
              b \in [id : 0 .. banks, has : SUBSET (0 .. Len(origin))]
SizesOK == \A b \in {active, standby, made, old} : Cardinality(b.has) <= TargetSize
IdsOK == {activeProfile, standbyProfile, disk.bank, disk.profile} \subseteq 0 .. banks
FramesOK == /\ ctx \in 0 .. detected /\ detected \in 0 .. MaxFrames
            /\ reported \in 0 .. detected /\ offer \in 0 .. MaxFrames
CandidatesOK == Len(buffer) <= MaxCandidates /\ ToSet(buffer) \cup ToSet(batch) \subseteq 1 .. Len(origin)
LabelsOK ==
    /\ dpc \in {"idle", "load", "search"} /\ opc \in {"idle", "assess"}
    /\ {flag, paused, savePath, stop} \subseteq BOOLEAN
    /\ upc \in {"none", "wait", "drain", "gate", "build", "swapOut", "swapIn", "validate",
                "backOut", "backIn", "record", "exited"}
    /\ cpc \in {"idle", "join", "rebuild", "saveBank", "saveProfile", "swapOut", "swapIn"}
CountsOK == saturation \in Nat /\ increments \in Nat /\ displacement \in Seq(Nat)

Types == BanksOK /\ SizesOK /\ IdsOK /\ FramesOK /\ CandidatesOK /\ LabelsOK /\ CountsOK

Inv == Types /\ OfferedOnce /\ Shape /\ Control /\ Undecided /\ PriorKept /\ OnDisk

\* The parts are all of TypeOK.
LEMMA TypeParts == Types <=> TypeOK
  BY DEF TypeOK, Types, BanksOK, SizesOK, IdsOK, FramesOK, CandidatesOK, LabelsOK, CountsOK, Banks

\* Every part of the invariant is about a few of the variables.
LEMMA Frames ==
    ASSUME Inv
    PROVE  /\ UNCHANGED <<active, standby, made, old, search, banks, origin>> => BanksOK'
           /\ UNCHANGED <<active, standby, made, old>> => SizesOK'
           /\ UNCHANGED <<activeProfile, standbyProfile, disk, banks>> => IdsOK'
           /\ UNCHANGED <<ctx, detected, reported, offer>> => FramesOK'
           /\ UNCHANGED <<buffer, batch, origin>> => CandidatesOK'
           /\ UNCHANGED <<dpc, opc, flag, paused, savePath, stop, upc, cpc>> => LabelsOK'
           /\ UNCHANGED <<saturation, increments, displacement>> => CountsOK'
           /\ UNCHANGED <<buffer, batch, active, standby, made, old>> => OfferedOnce'
           /\ UNCHANGED <<banks, disk, origin, buffer, batch, rejected, displacement>> => Shape'
           /\ UNCHANGED <<cpc, upc, batch>> => Control'
           /\ UNCHANGED <<buffer, batch, upc, rejected>> => Undecided'
           /\ UNCHANGED <<upc, prior, active, standby, made, old, activeProfile, standbyProfile,
                          batch, rejected>> => PriorKept'
           /\ UNCHANGED <<cpc, disk, made>> => OnDisk'
<1> USE DEF Types, Inv
<1>1. UNCHANGED <<active, standby, made, old, search, banks, origin>> => BanksOK'
  BY DEF BanksOK
<1>2. UNCHANGED <<active, standby, made, old>> => SizesOK'
  BY DEF SizesOK
<1>3. UNCHANGED <<activeProfile, standbyProfile, disk, banks>> => IdsOK'
  BY DEF IdsOK
<1>4. UNCHANGED <<ctx, detected, reported, offer>> => FramesOK'
  BY DEF FramesOK
<1>5. UNCHANGED <<buffer, batch, origin>> => CandidatesOK'
  BY DEF CandidatesOK
<1>6. UNCHANGED <<dpc, opc, flag, paused, savePath, stop, upc, cpc>> => LabelsOK'
  BY DEF LabelsOK
<1>7. UNCHANGED <<saturation, increments, displacement>> => CountsOK'
  BY DEF CountsOK
<1>8. UNCHANGED <<buffer, batch, active, standby, made, old>> => OfferedOnce'
  BY DEF OfferedOnce
<1>9. UNCHANGED <<banks, disk, origin, buffer, batch, rejected, displacement>> => Shape'
  BY DEF Shape
<1>10. UNCHANGED <<cpc, upc, batch>> => Control'
  BY DEF Control
<1>11. UNCHANGED <<buffer, batch, upc, rejected>> => Undecided'
  BY DEF Undecided
<1>12. UNCHANGED <<upc, prior, active, standby, made, old, activeProfile, standbyProfile,
                   batch, rejected>> => PriorKept'
  BY DEF PriorKept
<1>13. UNCHANGED <<cpc, disk, made>> => OnDisk'
  BY DEF OnDisk
<1> QED BY <1>1, <1>2, <1>3, <1>4, <1>5, <1>6, <1>7, <1>8, <1>9, <1>10, <1>11, <1>12, <1>13

-----------------------------------------------------------------------------
(* Lemmas about the data                                                    *)

\* The bank that stands for none.
LEMMA NoBankOK ==
    /\ NoBank.id = 0 /\ NoBank.has = {} /\ Cardinality(NoBank.has) <= TargetSize
    /\ \A n, m \in Nat : NoBank \in [id : 0 .. n, has : SUBSET (0 .. m)]
  BY EvolutionAssumption, FS_EmptySet DEF NoBank

\* The patches a prefiltered batch contributes are some of its own.
LEMMA PrefilteredOfBatch ==
    ASSUME NEW b \in Seq(Nat)
    PROVE  Prefiltered(b) \subseteq ToSet(b)
<1>1. CASE Len(b) <= Prefilter
  BY <1>1 DEF Prefiltered
<1>2. CASE Len(b) > Prefilter
  <2> SUFFICES ASSUME NEW i \in 0 .. Prefilter - 1
               PROVE  i * (Len(b) \div Prefilter) + 1 \in DOMAIN b
    BY <1>2 DEF Prefiltered, ToSet
  <2> DEFINE n == Len(b)
             q == n \div Prefilter
  <2>1. n \in Nat /\ Prefilter \in Nat \ {0} /\ n > Prefilter
    BY <1>2, EvolutionAssumption
  <2>2. q \in Nat /\ Prefilter * q <= n /\ q >= 1
    BY <2>1
  <2>3. i \in Nat /\ i <= Prefilter - 1
    BY <2>1
  <2> HIDE DEF n, q
  <2>4. i * q \in Nat /\ i * q <= (Prefilter - 1) * q
    BY <2>1, <2>2, <2>3
  <2>5. (Prefilter - 1) * q = Prefilter * q - q /\ Prefilter * q \in Nat
    BY <2>1, <2>2
  <2>6. i * q + 1 \in 1 .. n
    <3> DEFINE x == i * q
               y == Prefilter * q
    <3>1. x \in Nat /\ y \in Nat /\ x <= y - q /\ y <= n
      BY <2>2, <2>4, <2>5
    <3> HIDE DEF x, y
    <3>2. x + 1 \in 1 .. n
      BY <3>1, <2>1, <2>2
    <3> QED BY <3>2 DEF x
  <2> QED BY <2>6 DEF n, q
<1> QED BY <1>1, <1>2, EvolutionAssumption

\* The greedy selection keeps some of the patches it is given, at most target_size.
LEMMA SelectionSize ==
    ASSUME NEW patches, NEW s \in Selections(patches)
    PROVE  s \subseteq patches /\ Cardinality(s) <= TargetSize
  BY EvolutionAssumption DEF Selections

\* A sequence of distinct numbers stays one when a new number is appended.
LEMMA AppendNew ==
    ASSUME NEW b \in Seq(Nat), NEW c \in Nat, c \notin ToSet(b), IsInjective(b)
    PROVE  /\ Append(b, c) \in Seq(Nat) /\ Len(Append(b, c)) = Len(b) + 1
           /\ IsInjective(Append(b, c))
           /\ ToSet(Append(b, c)) = ToSet(b) \cup {c}
<1> DEFINE a == Append(b, c)
<1>1. /\ a \in Seq(Nat) /\ Len(a) = Len(b) + 1 /\ DOMAIN a = 1 .. Len(b) + 1
      /\ \A i \in 1 .. Len(b) : a[i] = b[i]
      /\ a[Len(b) + 1] = c /\ DOMAIN b = 1 .. Len(b) /\ Len(b) \in Nat
  OBVIOUS
<1> HIDE DEF a
<1>2. ToSet(a) = ToSet(b) \cup {c}
  BY <1>1, SMTT(60) DEF ToSet
<1>3. IsInjective(a)
  <2>1. \A i \in 1 .. Len(b) : b[i] # c
    BY <1>1 DEF ToSet
  <2>2. \A i, j \in 1 .. Len(b) : b[i] = b[j] => i = j
    BY <1>1 DEF IsInjective
  <2>3. \A i, j \in 1 .. Len(b) + 1 : a[i] = a[j] => i = j
    <3>1. \A i \in 1 .. Len(b) + 1 : i \in 1 .. Len(b) \/ i = Len(b) + 1
      BY <1>1
    <3> QED BY <1>1, <2>1, <2>2, <3>1, ZenonT(30)
  <2> QED BY <1>1, <2>3 DEF IsInjective
<1> QED BY <1>1, <1>2, <1>3 DEF a

\* Nothing is in an empty sequence, and something in any other.
LEMMA EmptySeqSet ==
    /\ ToSet(<<>>) = {} /\ IsInjective(<<>>) /\ <<>> \in Seq(Nat)
    /\ \A b \in Seq(Nat) : b # <<>> => ToSet(b) # {}
<1>1. DOMAIN <<>> = {} /\ <<>> \in Seq(Nat)
  OBVIOUS
<1>2. ASSUME NEW b \in Seq(Nat), b # <<>> PROVE ToSet(b) # {}
  <2>1. 1 \in DOMAIN b
    BY <1>2
  <2> QED BY <2>1 DEF ToSet
<1> QED BY <1>1, <1>2 DEF ToSet, IsInjective

\* CheckDrift records the displacement and, as it reports no drift, does no more.
LEMMA CheckDriftOnlyRecords ==
    ASSUME displacement \in Seq(Nat), Len(displacement) <= 5,
           NEW d \in Nat, NEW sb, NEW sat, NEW pau \in BOOLEAN, CheckDrift(d, sb, sat, pau)
    PROVE  /\ standby' = sb /\ saturation' = sat /\ paused' = pau
           /\ displacement' \in Seq(Nat) /\ Len(displacement') <= 5
<1>1. displacement' \in Seq(Nat) /\ Len(displacement') <= 5
  <2> DEFINE g == Append(displacement, d)
  <2>1. g \in Seq(Nat) /\ Len(g) <= 6
    OBVIOUS
  <2> HIDE DEF g
  <2>2. CASE Len(g) > 5
    <3>1. g # <<>> /\ Tail(g) \in Seq(Nat) /\ Len(Tail(g)) = Len(g) - 1
      BY <2>1, <2>2
    <3> QED BY <2>1, <2>2, <3>1 DEF CheckDrift, Window, g
  <2>3. CASE ~(Len(g) > 5)
    BY <2>1, <2>3 DEF CheckDrift, Window, g
  <2> QED BY <2>2, <2>3
<1>2. ~Drifted(displacement')
  BY <1>1, NeverDrifts
<1> QED BY <1>1, <1>2, Zenon DEF CheckDrift

-----------------------------------------------------------------------------
(* The steps, action by action                                              *)

\* Detect begins a frame: the bank it tests and the one it searches may differ.
LEMMA DetectTestInv ==
    ASSUME Inv, DetectTest
    PROVE  Inv'
<1> USE EvolutionAssumption DEF Inv, Types, DetectTest, detectVars, offerVars, bankVars, maintVars, ctlVars
<1>1. /\ BanksOK' /\ SizesOK' /\ IdsOK' /\ CandidatesOK' /\ CountsOK' /\ OfferedOnce'
      /\ Shape' /\ Control' /\ Undecided' /\ PriorKept' /\ OnDisk'
  BY Frames
<1>2. FramesOK'
  BY DEF FramesOK
<1>3. LabelsOK'
  BY DEF LabelsOK
<1> QED BY <1>1, <1>2, <1>3

\* The search has the bank that is active now.
LEMMA DetectLoadInv ==
    ASSUME Inv, DetectLoad
    PROVE  Inv'
<1> USE EvolutionAssumption DEF Inv, Types, DetectLoad, detectVars, offerVars, bankVars, maintVars, ctlVars
<1>1. /\ SizesOK' /\ IdsOK' /\ FramesOK' /\ CandidatesOK' /\ CountsOK' /\ OfferedOnce'
      /\ Shape' /\ Control' /\ Undecided' /\ PriorKept' /\ OnDisk'
  BY Frames
<1>2. BanksOK'
  BY SMTT(60) DEF BanksOK
<1>3. LabelsOK'
  BY DEF LabelsOK
<1> QED BY <1>1, <1>2, <1>3

\* last_ctx_ is that of the frame that has just been searched.
LEMMA DetectDoneInv ==
    ASSUME Inv, DetectDone
    PROVE  Inv'
<1> USE EvolutionAssumption DEF Inv, Types, DetectDone, detectVars, offerVars, bankVars, maintVars, ctlVars
<1>1. /\ SizesOK' /\ IdsOK' /\ CandidatesOK' /\ CountsOK' /\ OfferedOnce' /\ Shape'
      /\ Control' /\ Undecided' /\ PriorKept' /\ OnDisk'
  BY Frames
<1>2. BanksOK'
  BY NoBankOK, ZenonT(60) DEF BanksOK, Shape
<1>3. FramesOK'
  BY DEF FramesOK
<1>4. LabelsOK'
  BY DEF LabelsOK
<1> QED BY <1>1, <1>2, <1>3, <1>4

\* What is offered is what last_ctx_ describes.
LEMMA OfferCallInv ==
    ASSUME Inv, OfferCall
    PROVE  Inv'
<1> USE EvolutionAssumption DEF Inv, Types, OfferCall, detectVars, offerVars, bankVars, maintVars, ctlVars
<1>1. /\ BanksOK' /\ SizesOK' /\ IdsOK' /\ CandidatesOK' /\ CountsOK' /\ OfferedOnce'
      /\ Shape' /\ Control' /\ Undecided' /\ PriorKept' /\ OnDisk'
  BY Frames
<1>2. FramesOK'
  BY DEF FramesOK
<1>3. LabelsOK'
  BY DEF LabelsOK
<1> QED BY <1>1, <1>2, <1>3

\* A bank stays one when more banks are made and more candidates are numbered.
LEMMA BankGrows ==
    ASSUME NEW m \in Int, NEW n \in Int, m <= n, NEW k \in Int, NEW l \in Int, k <= l,
           NEW b \in [id : 0 .. m, has : SUBSET (0 .. k)]
    PROVE  b \in [id : 0 .. n, has : SUBSET (0 .. l)]
<1>1. 0 .. m \subseteq 0 .. n /\ 0 .. k \subseteq 0 .. l
  OBVIOUS
<1> QED BY <1>1, ZenonT(30)

\* A candidate that is appended has a number that no buffer, batch, bank or rejection has.
LEMMA AssessInv ==
    ASSUME Inv, Assess
    PROVE  Inv'
<1> USE EvolutionAssumption DEF Inv, Types, Assess, detectVars, offerVars, bankVars, maintVars, ctlVars
<1> DEFINE new == Len(origin) + 1
<1>a. /\ offer \in 0 .. MaxFrames /\ origin \in Seq(Nat) /\ Len(origin) \in Nat
      /\ buffer \in Seq(Nat) /\ IsInjective(buffer) /\ Len(buffer) <= MaxCandidates
      /\ MaxFrames \in Nat
  BY DEF Shape, FramesOK, OfferedOnce, CandidatesOK
<1>b. /\ new \in Nat /\ new \notin ToSet(buffer) \cup ToSet(batch) \cup rejected
      /\ new \notin active.has \cup standby.has \cup made.has \cup old.has
  <2>1. new \in Nat /\ new \notin 1 .. Len(origin) /\ new \notin 0 .. Len(origin)
    BY <1>a
  <2>2. ToSet(buffer) \cup ToSet(batch) \cup rejected \subseteq 1 .. Len(origin)
    BY ZenonT(30) DEF CandidatesOK, Shape
  <2>3. active.has \cup standby.has \cup made.has \cup old.has \subseteq 0 .. Len(origin)
    BY ZenonT(30) DEF BanksOK
  <2> QED BY <2>1, <2>2, <2>3, ZenonT(30)
<1>c. \/ UNCHANGED <<origin, buffer, flag>>
      \/ /\ origin' = Append(origin, offer) /\ buffer' = Append(buffer, new)
         /\ Len(buffer) < MaxCandidates /\ flag' = (flag \/ Len(buffer) + 1 >= Trigger)
  BY DEF Append1
<1>d. /\ origin' \in Seq(Nat) /\ Len(origin') \in Nat /\ Len(origin) <= Len(origin')
      /\ buffer' \in Seq(Nat) /\ IsInjective(buffer') /\ Len(buffer') <= MaxCandidates
      /\ ToSet(buffer') \subseteq ToSet(buffer) \cup {new}
      /\ ToSet(buffer') \subseteq 1 .. Len(origin')
  <2>1. CASE UNCHANGED <<origin, buffer, flag>>
    BY <2>1, <1>a DEF CandidatesOK
  <2>2. CASE origin' = Append(origin, offer) /\ buffer' = Append(buffer, new) /\ Len(buffer) < MaxCandidates
    <3>1. origin' \in Seq(Nat) /\ Len(origin') = new
      BY <2>2, <1>a
    <3>2. /\ buffer' \in Seq(Nat) /\ Len(buffer') = Len(buffer) + 1 /\ IsInjective(buffer')
          /\ ToSet(buffer') = ToSet(buffer) \cup {new}
      BY <2>2, <1>a, <1>b, AppendNew
    <3> QED BY <2>2, <3>1, <3>2, <1>a, SMTT(60) DEF CandidatesOK
  <2> QED BY <1>c, <2>1, <2>2
<1> HIDE DEF new
<1>1. SizesOK' /\ IdsOK' /\ Control' /\ PriorKept' /\ OnDisk'
  BY Frames
<1>2. BanksOK'
  <2>1. \A b : b \in [id : 0 .. banks, has : SUBSET (0 .. Len(origin))]
                 => b \in [id : 0 .. banks, has : SUBSET (0 .. Len(origin'))]
    <3>1. banks \in Int /\ Len(origin) \in Int /\ Len(origin') \in Int
      BY <1>a, <1>d DEF Shape
    <3>2. banks <= banks /\ Len(origin) <= Len(origin')
      BY <3>1, <1>d
    <3> QED BY <3>1, <3>2, BankGrows, SMTT(60)
  <2>2. UNCHANGED <<active, standby, made, old, search, banks>>
    OBVIOUS
  <2> QED BY <2>1, <2>2, ZenonT(30) DEF BanksOK
<1>3. FramesOK'
  BY DEF FramesOK
<1>4. CandidatesOK'
  BY <1>a, <1>d, SMTT(60) DEF CandidatesOK
<1>5. LabelsOK'
  <2>1. flag' \in BOOLEAN
    BY <1>c, Zenon DEF LabelsOK
  <2> QED BY <2>1, ZenonT(60) DEF LabelsOK
<1>6. CountsOK'
  BY DEF CountsOK
<1>7. OfferedOnce'
  BY <1>b, <1>d, SMTT(60) DEF OfferedOnce
<1>8. Shape'
  BY <1>a, <1>d DEF Shape
<1>9. Undecided'
  BY <1>b, <1>d DEF Undecided
<1> QED BY <1>1, <1>2, <1>3, <1>4, <1>5, <1>6, <1>7, <1>8, <1>9

\* The wait ends with the batch still empty.
LEMMA UpdWaitInv ==
    ASSUME Inv, UpdWait
    PROVE  Inv'
<1> USE EvolutionAssumption DEF Inv, Types, UpdWait, detectVars, offerVars, bankVars, maintVars, ctlVars
<1>1. /\ BanksOK' /\ SizesOK' /\ IdsOK' /\ FramesOK' /\ CandidatesOK' /\ CountsOK'
      /\ OfferedOnce' /\ Shape' /\ OnDisk'
  BY Frames
<1>2. LabelsOK'
  BY DEF LabelsOK
<1>3. Control'
  BY DEF Control
<1>4. Undecided'
  BY DEF Undecided
<1>5. PriorKept'
  BY DEF PriorKept
<1> QED BY <1>1, <1>2, <1>3, <1>4, <1>5

\* The buffer's candidates become the batch, none of them decided yet.
LEMMA UpdDrainInv ==
    ASSUME Inv, UpdDrain
    PROVE  Inv'
<1> USE EvolutionAssumption DEF Inv, Types, UpdDrain, detectVars, offerVars, bankVars, maintVars, ctlVars
<1>1. BanksOK' /\ SizesOK' /\ IdsOK' /\ FramesOK' /\ CountsOK' /\ OnDisk'
  BY Frames
<1>2. CandidatesOK'
  BY EmptySeqSet, SMTT(60) DEF CandidatesOK, Shape
<1>3. LabelsOK'
  BY DEF LabelsOK
<1>4. OfferedOnce'
  BY EmptySeqSet DEF OfferedOnce
<1>5. Shape'
  BY DEF Shape
<1>6. Control'
  BY DEF Control
<1>7. Undecided'
  BY EmptySeqSet DEF Undecided
<1>8. PriorKept'
  BY DEF PriorKept
<1> QED BY <1>1, <1>2, <1>3, <1>4, <1>5, <1>6, <1>7, <1>8

\* A batch below the gate is forgotten.
LEMMA UpdGateInv ==
    ASSUME Inv, UpdGate
    PROVE  Inv'
<1> USE EvolutionAssumption DEF Inv, Types, UpdGate, detectVars, offerVars, bankVars, maintVars, ctlVars
<1>a. batch' \in Seq(Nat) /\ IsInjective(batch') /\ ToSet(batch') \subseteq ToSet(batch)
  BY EmptySeqSet DEF Shape, OfferedOnce
<1>1. BanksOK' /\ SizesOK' /\ IdsOK' /\ FramesOK' /\ CountsOK' /\ OnDisk'
  BY Frames
<1>2. CandidatesOK'
  BY <1>a DEF CandidatesOK
<1>3. LabelsOK'
  BY DEF LabelsOK
<1>4. OfferedOnce'
  BY <1>a DEF OfferedOnce
<1>5. Shape'
  BY <1>a DEF Shape
<1>6. Control'
  BY DEF Control
<1>7. Undecided'
  BY <1>a DEF Undecided
<1>8. PriorKept'
  BY DEF PriorKept
<1> QED BY <1>1, <1>2, <1>3, <1>4, <1>5, <1>6, <1>7, <1>8

\* What is built holds patches of the standby bank and of the batch only.
LEMMA UpdBuildInv ==
    ASSUME Inv, UpdBuild
    PROVE  Inv'
<1> USE EvolutionAssumption DEF Inv, Types, UpdBuild, detectVars, offerVars, bankVars, maintVars, ctlVars
<1>a. /\ batch \in Seq(Nat) /\ buffer \in Seq(Nat) /\ Len(origin) \in Nat /\ banks \in Nat
      /\ batch' \in Seq(Nat) /\ IsInjective(batch') /\ ToSet(batch') \subseteq ToSet(batch)
  <2>1. batch' = batch \/ batch' = <<>>
    OBVIOUS
  <2>2. batch \in Seq(Nat) /\ buffer \in Seq(Nat) /\ Len(origin) \in Nat /\ banks \in Nat
    BY DEF Shape
  <2>3. batch' \in Seq(Nat)
    BY <2>1, <2>2, EmptySeqSet
  <2>4. IsInjective(batch') /\ ToSet(batch') \subseteq ToSet(batch)
    BY <2>1, EmptySeqSet DEF OfferedOnce
  <2> QED BY <2>2, <2>3, <2>4
<1>b. \/ made' = made /\ banks' = banks
      \/ /\ made'.id = banks + 1 /\ made' \in [id : Nat, has : SUBSET (standby.has \cup ToSet(batch))]
         /\ Cardinality(made'.has) <= TargetSize
         /\ banks' = banks + 1
  <2>1. Prefiltered(batch) \subseteq ToSet(batch)
    BY <1>a, PrefilteredOfBatch
  <2>2. ASSUME NEW s \in Selections(standby.has \cup Prefiltered(batch)), made' = Bank(banks + 1, s)
        PROVE  /\ made'.id = banks + 1 /\ made' \in [id : Nat, has : SUBSET (standby.has \cup ToSet(batch))]
               /\ Cardinality(made'.has) <= TargetSize
    BY <2>1, <2>2, <1>a, SelectionSize DEF Bank
  <2> QED BY <2>2
<1>c. standby.has \cup ToSet(batch) \subseteq 0 .. Len(origin)
  BY SMTT(60) DEF BanksOK, CandidatesOK
<1>1. FramesOK' /\ CountsOK'
  BY Frames
<1>2. BanksOK'
  <2>1. banks' \in Nat /\ banks <= banks'
    BY <1>a, <1>b, SMTT(60)
  <2>2. \A b : b \in [id : 0 .. banks, has : SUBSET (0 .. Len(origin))]
                 => b \in [id : 0 .. banks', has : SUBSET (0 .. Len(origin))]
    BY <1>a, <2>1, BankGrows, SMTT(60)
  <2>3. made' \in [id : 0 .. banks', has : SUBSET (0 .. Len(origin))]
    <3>1. CASE made' = made
      BY <3>1, <2>2, ZenonT(30) DEF BanksOK
    <3>2. CASE /\ made'.id = banks + 1 /\ banks' = banks + 1
               /\ made' \in [id : Nat, has : SUBSET (standby.has \cup ToSet(batch))]
      <4>1. banks + 1 \in 0 .. banks'
        BY <3>2, <1>a
      <4>2. SUBSET (standby.has \cup ToSet(batch)) \subseteq SUBSET (0 .. Len(origin))
        BY <1>c, ZenonT(30)
      <4> QED BY <3>2, <4>1, <4>2
    <3> QED BY <1>b, <3>1, <3>2, ZenonT(30)
  <2>4. UNCHANGED <<active, standby, old, search, origin>>
    OBVIOUS
  <2> QED BY <2>2, <2>3, <2>4, ZenonT(30) DEF BanksOK
<1>3. SizesOK'
  BY <1>b DEF SizesOK
<1>4. IdsOK'
  <2>1. banks' \in Nat /\ banks <= banks' /\ UNCHANGED <<activeProfile, standbyProfile, disk>>
    BY <1>a, <1>b, SMTT(60)
  <2>2. 0 .. banks \subseteq 0 .. banks'
    BY <2>1, <1>a
  <2> QED BY <2>1, <2>2, Zenon DEF IdsOK
<1>5. CandidatesOK'
  BY <1>a DEF CandidatesOK
<1>6. LabelsOK'
  BY DEF LabelsOK
<1>7. OfferedOnce'
  BY <1>a, <1>b DEF OfferedOnce
<1>8. Shape'
  BY <1>a, <1>b DEF Shape
<1>9. Control'
  BY DEF Control
<1>10. Undecided'
  BY <1>a DEF Undecided
<1>11. PriorKept'
  BY SMTT(60) DEF PriorKept
<1>12. OnDisk'
  BY DEF OnDisk, Control
<1> QED BY <1>1, <1>2, <1>3, <1>4, <1>5, <1>6, <1>7, <1>8, <1>9, <1>10, <1>11, <1>12

\* The bank of before the update is taken out.
LEMMA UpdSwapOutInv ==
    ASSUME Inv, UpdSwapOut
    PROVE  Inv'
<1> USE EvolutionAssumption DEF Inv, Types, UpdSwapOut, detectVars, offerVars, bankVars, maintVars, ctlVars
<1>1. IdsOK' /\ FramesOK' /\ CandidatesOK' /\ CountsOK' /\ Shape' /\ OnDisk'
  BY Frames
<1>2. BanksOK'
  BY NoBankOK, ZenonT(60) DEF BanksOK, Shape
<1>3. SizesOK'
  BY NoBankOK DEF SizesOK
<1>4. LabelsOK'
  BY DEF LabelsOK
<1>5. OfferedOnce'
  BY NoBankOK DEF OfferedOnce
<1>6. Control'
  BY DEF Control
<1>7. Undecided'
  BY DEF Undecided
<1>8. PriorKept'
  BY DEF PriorKept
<1> QED BY <1>1, <1>2, <1>3, <1>4, <1>5, <1>6, <1>7, <1>8

\* It becomes the standby, and its profile the standby's.
LEMMA UpdSwapInInv ==
    ASSUME Inv, UpdSwapIn
    PROVE  Inv'
<1> USE EvolutionAssumption DEF Inv, Types, UpdSwapIn, detectVars, offerVars, bankVars, maintVars, ctlVars
<1>1. FramesOK' /\ CandidatesOK' /\ CountsOK' /\ Shape'
  BY Frames
<1>2. BanksOK'
  BY NoBankOK, ZenonT(60) DEF BanksOK, Shape
<1>3. SizesOK'
  BY NoBankOK DEF SizesOK
<1>4. IdsOK'
  BY DEF IdsOK, BanksOK
<1>5. LabelsOK'
  BY DEF LabelsOK
<1>6. OfferedOnce'
  BY NoBankOK DEF OfferedOnce
<1>7. Control'
  BY DEF Control
<1>8. Undecided'
  BY DEF Undecided
<1>9. PriorKept'
  BY DEF PriorKept
<1>10. OnDisk'
  BY DEF OnDisk, Control
<1> QED BY <1>1, <1>2, <1>3, <1>4, <1>5, <1>6, <1>7, <1>8, <1>9, <1>10

\* An update is kept, or the bank of before it starts on its way back.
LEMMA UpdValidateInv ==
    ASSUME Inv, UpdValidate
    PROVE  Inv'
<1> USE EvolutionAssumption DEF Inv, Types, UpdValidate, detectVars, offerVars, bankVars, maintVars, ctlVars
<1>1. IdsOK' /\ FramesOK' /\ CandidatesOK' /\ CountsOK' /\ Shape'
  BY Frames
<1>2. BanksOK'
  BY NoBankOK, ZenonT(60) DEF BanksOK, Shape
<1>3. SizesOK'
  BY NoBankOK DEF SizesOK
<1>4. LabelsOK'
  BY DEF LabelsOK
<1>5. OfferedOnce'
  BY NoBankOK DEF OfferedOnce
<1>6. Control'
  BY DEF Control
<1>7. Undecided'
  BY DEF Undecided
<1>8. PriorKept'
  BY DEF PriorKept, Undecided
<1>9. OnDisk'
  BY DEF OnDisk, Control
<1> QED BY <1>1, <1>2, <1>3, <1>4, <1>5, <1>6, <1>7, <1>8, <1>9

\* The rejected bank is taken out.
LEMMA UpdBackOutInv ==
    ASSUME Inv, UpdBackOut
    PROVE  Inv'
<1> USE EvolutionAssumption DEF Inv, Types, UpdBackOut, detectVars, offerVars, bankVars, maintVars, ctlVars
<1>1. IdsOK' /\ FramesOK' /\ CandidatesOK' /\ CountsOK' /\ Shape' /\ OnDisk'
  BY Frames
<1>2. BanksOK'
  BY NoBankOK, ZenonT(60) DEF BanksOK, Shape
<1>3. SizesOK'
  BY NoBankOK DEF SizesOK
<1>4. LabelsOK'
  BY DEF LabelsOK
<1>5. OfferedOnce'
  BY NoBankOK DEF OfferedOnce
<1>6. Control'
  BY DEF Control
<1>7. Undecided'
  BY DEF Undecided
<1>8. PriorKept'
  BY DEF PriorKept
<1> QED BY <1>1, <1>2, <1>3, <1>4, <1>5, <1>6, <1>7, <1>8

\* The bank and the profile of before the update are in use again.
LEMMA UpdBackInInv ==
    ASSUME Inv, UpdBackIn
    PROVE  Inv'
<1> USE EvolutionAssumption DEF Inv, Types, UpdBackIn, detectVars, offerVars, bankVars, maintVars, ctlVars
<1>1. FramesOK' /\ CandidatesOK' /\ CountsOK'
  BY Frames
<1>2. BanksOK'
  BY NoBankOK, ZenonT(60) DEF BanksOK, Shape
<1>3. SizesOK'
  BY NoBankOK DEF SizesOK
<1>4. IdsOK'
  BY DEF IdsOK
<1>5. LabelsOK'
  BY DEF LabelsOK
<1>6. OfferedOnce'
  BY NoBankOK DEF OfferedOnce
<1>7. Shape'
  BY DEF Shape, CandidatesOK
<1>8. Control'
  BY DEF Control
<1>9. Undecided'
  BY DEF Undecided, OfferedOnce
<1>10. PriorKept'
  BY DEF PriorKept
<1>11. OnDisk'
  BY DEF OnDisk, Control
<1> QED BY <1>1, <1>2, <1>3, <1>4, <1>5, <1>6, <1>7, <1>8, <1>9, <1>10, <1>11

\* The update is over and the batch forgotten.
LEMMA UpdRecordInv ==
    ASSUME Inv, UpdRecord
    PROVE  Inv'
<1> USE EvolutionAssumption DEF Inv, Types, UpdRecord, detectVars, offerVars, bankVars, maintVars, ctlVars
<1>a. /\ UNCHANGED <<standby, saturation, paused>>
      /\ displacement' \in Seq(Nat) /\ Len(displacement') <= 5
  BY CheckDriftOnlyRecords DEF Shape, CountsOK, LabelsOK
<1>1. BanksOK' /\ SizesOK' /\ IdsOK' /\ FramesOK' /\ OnDisk'
  BY <1>a, Frames
<1>2. CandidatesOK'
  BY EmptySeqSet DEF CandidatesOK
<1>3. LabelsOK'
  BY <1>a DEF LabelsOK
<1>4. CountsOK'
  BY <1>a DEF CountsOK
<1>5. OfferedOnce'
  BY <1>a, EmptySeqSet DEF OfferedOnce
<1>6. Shape'
  BY <1>a, EmptySeqSet DEF Shape
<1>7. Control'
  BY DEF Control
<1>8. Undecided'
  BY EmptySeqSet DEF Undecided
<1>9. PriorKept'
  BY DEF PriorKept
<1> QED BY <1>1, <1>2, <1>3, <1>4, <1>5, <1>6, <1>7, <1>8, <1>9

\* A new updater has no batch.
LEMMA StartInv ==
    ASSUME Inv, Start
    PROVE  Inv'
<1> USE EvolutionAssumption DEF Inv, Types, Start, detectVars, offerVars, bankVars, maintVars, ctlVars
<1>1. /\ BanksOK' /\ SizesOK' /\ IdsOK' /\ FramesOK' /\ CandidatesOK' /\ CountsOK'
      /\ OfferedOnce' /\ Shape' /\ OnDisk'
  BY Frames
<1>2. LabelsOK'
  BY DEF LabelsOK
<1>3. Control'
  BY DEF Control
<1>4. Undecided'
  BY DEF Undecided
<1>5. PriorKept'
  BY DEF PriorKept
<1> QED BY <1>1, <1>2, <1>3, <1>4, <1>5

\* Stop asks for the end and waits for it.
LEMMA StopCallInv ==
    ASSUME Inv, StopCall
    PROVE  Inv'
<1> USE EvolutionAssumption DEF Inv, Types, StopCall, detectVars, offerVars, bankVars, maintVars, ctlVars
<1>1. /\ BanksOK' /\ SizesOK' /\ IdsOK' /\ FramesOK' /\ CandidatesOK' /\ CountsOK'
      /\ OfferedOnce' /\ Shape' /\ Undecided' /\ PriorKept'
  BY Frames
<1>2. LabelsOK'
  BY DEF LabelsOK
<1>3. Control'
  BY DEF Control
<1>4. OnDisk'
  BY DEF OnDisk
<1> QED BY <1>1, <1>2, <1>3, <1>4

\* The updater has left without a batch.
LEMMA StopJoinInv ==
    ASSUME Inv, StopJoin
    PROVE  Inv'
<1> USE EvolutionAssumption DEF Inv, Types, StopJoin, detectVars, offerVars, bankVars, maintVars, ctlVars
<1>1. /\ BanksOK' /\ SizesOK' /\ IdsOK' /\ FramesOK' /\ CandidatesOK' /\ CountsOK'
      /\ OfferedOnce' /\ Shape'
  BY Frames
<1>2. LabelsOK'
  BY DEF LabelsOK
<1>3. Control'
  BY DEF Control
<1>4. Undecided'
  BY DEF Undecided
<1>5. PriorKept'
  BY DEF PriorKept
<1>6. OnDisk'
  BY DEF OnDisk
<1> QED BY <1>1, <1>2, <1>3, <1>4, <1>5, <1>6

\* A rebuild starts when there is no updater.
LEMMA RebuildCallInv ==
    ASSUME Inv, RebuildCall
    PROVE  Inv'
<1> USE EvolutionAssumption DEF Inv, Types, RebuildCall, detectVars, offerVars, bankVars, maintVars, ctlVars
<1>1. /\ BanksOK' /\ SizesOK' /\ IdsOK' /\ FramesOK' /\ CandidatesOK' /\ CountsOK'
      /\ OfferedOnce' /\ Shape' /\ Undecided' /\ PriorKept'
  BY Frames
<1>2. LabelsOK'
  BY DEF LabelsOK
<1>3. Control'
  BY DEF Control
<1>4. OnDisk'
  BY DEF OnDisk
<1> QED BY <1>1, <1>2, <1>3, <1>4

\* A rebuild takes the buffer's candidates while nobody else does.
LEMMA RebuildInv ==
    ASSUME Inv, Rebuild
    PROVE  Inv'
<1> USE EvolutionAssumption DEF Inv, Types, Rebuild, detectVars, offerVars, bankVars, maintVars, ctlVars
<1> DEFINE merged == standby.has \cup ToSet(buffer)
<1>a. /\ upc = "none" /\ batch \in Seq(Nat) /\ Len(origin) \in Nat /\ banks \in Nat
      /\ merged \subseteq 0 .. Len(origin)
  <2>1. upc = "none" /\ batch \in Seq(Nat) /\ Len(origin) \in Nat /\ banks \in Nat
    BY DEF Control, Shape
  <2>2. standby.has \subseteq 0 .. Len(origin) /\ ToSet(buffer) \subseteq 1 .. Len(origin)
    BY DEF BanksOK, CandidatesOK
  <2> QED BY <2>1, <2>2, SMTT(60)
<1>b. \/ made' = made /\ banks' = banks /\ cpc' = "idle"
      \/ /\ made'.id = banks + 1 /\ made' \in [id : Nat, has : SUBSET merged]
         /\ Cardinality(made'.has) <= TargetSize
         /\ banks' = banks + 1 /\ cpc' = "saveBank"
  <2>1. ASSUME NEW s \in Selections(merged), made' = Bank(banks + 1, s)
        PROVE  /\ made'.id = banks + 1 /\ made' \in [id : Nat, has : SUBSET merged]
               /\ Cardinality(made'.has) <= TargetSize
    BY <2>1, <1>a, SelectionSize DEF Bank
  <2> QED BY <2>1
<1> HIDE DEF merged
<1>1. FramesOK' /\ CountsOK'
  BY Frames
<1>2. BanksOK'
  <2>1. banks' \in Nat /\ banks <= banks'
    BY <1>a, <1>b, SMTT(60)
  <2>2. made' \in [id : 0 .. banks', has : SUBSET (0 .. Len(origin))]
    <3>1. CASE made' = made
      BY <3>1, <1>a, <2>1, SMTT(60) DEF BanksOK
    <3>2. CASE made'.id = banks + 1 /\ made' \in [id : Nat, has : SUBSET merged] /\ banks' = banks + 1
      <4>1. banks + 1 \in 0 .. banks' /\ SUBSET merged \subseteq SUBSET (0 .. Len(origin))
        BY <3>2, <1>a
      <4> QED BY <3>2, <4>1
    <3> QED BY <1>b, <3>1, <3>2
  <2>3. \A b : b \in [id : 0 .. banks, has : SUBSET (0 .. Len(origin))]
                 => b \in [id : 0 .. banks', has : SUBSET (0 .. Len(origin))]
    BY <1>a, <2>1, BankGrows, SMTT(60)
  <2>4. UNCHANGED <<active, standby, old, search, origin>>
    OBVIOUS
  <2> QED BY <2>2, <2>3, <2>4, ZenonT(30) DEF BanksOK
<1>3. SizesOK'
  BY <1>b DEF SizesOK
<1>4. IdsOK'
  BY <1>a, <1>b, SMTT(60) DEF IdsOK
<1>5. CandidatesOK'
  BY EmptySeqSet DEF CandidatesOK
<1>6. LabelsOK'
  BY <1>b DEF LabelsOK
<1>7. OfferedOnce'
  BY EmptySeqSet DEF OfferedOnce
<1>8. Shape'
  BY <1>a, <1>b, EmptySeqSet DEF Shape
<1>9. Control'
  BY <1>a DEF Control
<1>10. Undecided'
  BY EmptySeqSet DEF Undecided
<1>11. PriorKept'
  BY <1>a DEF PriorKept
<1>12. OnDisk'
  <2>1. disk.bank <= banks
    BY <1>a, SMTT(60) DEF IdsOK
  <2> QED BY <2>1, <1>a, <1>b, SMTT(60) DEF OnDisk, Shape
<1> QED BY <1>1, <1>2, <1>3, <1>4, <1>5, <1>6, <1>7, <1>8, <1>9, <1>10, <1>11, <1>12

\* The file of the bank comes first.
LEMMA SaveBankInv ==
    ASSUME Inv, SaveBank
    PROVE  Inv'
<1> USE EvolutionAssumption DEF Inv, Types, SaveBank, Saved, detectVars, offerVars, bankVars, maintVars, ctlVars
<1>a. /\ upc = "none" /\ banks \in Nat /\ disk \in [bank : Nat, profile : Nat]
      /\ made.id \in 0 .. banks /\ disk' \in [bank : Nat, profile : Nat]
  <2>1. upc = "none" /\ banks \in Nat /\ disk \in [bank : Nat, profile : Nat]
    BY DEF Control, Shape
  <2>2. made.id \in 0 .. banks
    BY ZenonT(30) DEF BanksOK
  <2>3. made.id \in Nat
    BY <2>1, <2>2
  <2> QED BY <2>1, <2>2, <2>3
<1>b. \/ disk'.bank = made.id /\ disk'.profile = disk.profile /\ made' = made /\ cpc' = "saveProfile"
      \/ disk' = disk /\ made' = NoBank /\ cpc' = "idle"
  BY <1>a
<1>1. FramesOK' /\ CandidatesOK' /\ CountsOK' /\ Undecided'
  BY Frames
<1>2. BanksOK'
  BY <1>b, NoBankOK, ZenonT(60) DEF BanksOK, Shape
<1>3. SizesOK'
  BY <1>b, NoBankOK DEF SizesOK
<1>4. IdsOK'
  BY <1>a, <1>b DEF IdsOK
<1>5. LabelsOK'
  BY <1>b DEF LabelsOK
<1>6. OfferedOnce'
  BY <1>b, NoBankOK DEF OfferedOnce
<1>7. Shape'
  BY <1>a DEF Shape
<1>8. Control'
  BY <1>a DEF Control
<1>9. PriorKept'
  BY <1>a DEF PriorKept
<1>10. OnDisk'
  BY <1>a, <1>b DEF OnDisk
<1> QED BY <1>1, <1>2, <1>3, <1>4, <1>5, <1>6, <1>7, <1>8, <1>9, <1>10

\* The profile written is that of the bank in the file.
LEMMA SaveProfileInv ==
    ASSUME Inv, SaveProfile
    PROVE  Inv'
<1> USE EvolutionAssumption DEF Inv, Types, SaveProfile, Saved, detectVars, offerVars, bankVars, maintVars, ctlVars
<1>a. /\ upc = "none" /\ banks \in Nat /\ disk \in [bank : Nat, profile : Nat]
      /\ made.id \in 0 .. banks /\ disk' \in [bank : Nat, profile : Nat]
  <2>1. upc = "none" /\ banks \in Nat /\ disk \in [bank : Nat, profile : Nat]
    BY DEF Control, Shape
  <2>2. made.id \in 0 .. banks
    BY ZenonT(30) DEF BanksOK
  <2>3. made.id \in Nat
    BY <2>1, <2>2
  <2> QED BY <2>1, <2>2, <2>3
<1>b. \/ disk'.profile = made.id /\ disk'.bank = disk.bank /\ made' = made /\ cpc' = "swapOut"
      \/ disk' = disk /\ made' = NoBank /\ cpc' = "idle"
  BY <1>a
<1>1. FramesOK' /\ CandidatesOK' /\ CountsOK' /\ Undecided'
  BY Frames
<1>2. BanksOK'
  BY <1>b, NoBankOK, ZenonT(60) DEF BanksOK, Shape
<1>3. SizesOK'
  BY <1>b, NoBankOK DEF SizesOK
<1>4. IdsOK'
  BY <1>a, <1>b DEF IdsOK
<1>5. LabelsOK'
  BY <1>b DEF LabelsOK
<1>6. OfferedOnce'
  BY <1>b, NoBankOK DEF OfferedOnce
<1>7. Shape'
  BY <1>a DEF Shape
<1>8. Control'
  BY <1>a, <1>b DEF Control
<1>9. PriorKept'
  BY <1>a DEF PriorKept
<1>10. OnDisk'
  BY <1>a, <1>b DEF OnDisk
<1> QED BY <1>1, <1>2, <1>3, <1>4, <1>5, <1>6, <1>7, <1>8, <1>9, <1>10

\* The active bank is taken out.
LEMMA RebuildSwapOutInv ==
    ASSUME Inv, RebuildSwapOut
    PROVE  Inv'
<1> USE EvolutionAssumption DEF Inv, Types, RebuildSwapOut, detectVars, offerVars, bankVars, maintVars, ctlVars
<1>1. IdsOK' /\ FramesOK' /\ CandidatesOK' /\ CountsOK' /\ Shape' /\ Undecided'
  BY Frames
<1>2. BanksOK'
  BY NoBankOK, ZenonT(60) DEF BanksOK, Shape
<1>3. SizesOK'
  BY NoBankOK DEF SizesOK
<1>4. LabelsOK'
  BY DEF LabelsOK
<1>5. OfferedOnce'
  BY NoBankOK DEF OfferedOnce
<1>6. Control'
  BY DEF Control
<1>7. PriorKept'
  BY DEF PriorKept, Control
<1>8. OnDisk'
  BY DEF OnDisk
<1> QED BY <1>1, <1>2, <1>3, <1>4, <1>5, <1>6, <1>7, <1>8

\* The rebuilt bank goes in with its own profile.
LEMMA RebuildSwapInInv ==
    ASSUME Inv, RebuildSwapIn
    PROVE  Inv'
<1> USE EvolutionAssumption DEF Inv, Types, RebuildSwapIn, detectVars, offerVars, bankVars, maintVars, ctlVars
<1>a. /\ standby' = old /\ saturation' = 0 /\ paused' = FALSE
      /\ displacement' \in Seq(Nat) /\ Len(displacement') <= 5
  BY CheckDriftOnlyRecords DEF Shape, CountsOK
<1>b. upc = "none"
  BY DEF Control
<1>1. FramesOK' /\ CandidatesOK' /\ Undecided'
  BY Frames
<1>2. BanksOK'
  BY <1>a, NoBankOK, ZenonT(60) DEF BanksOK, Shape
<1>3. SizesOK'
  BY <1>a, NoBankOK DEF SizesOK
<1>4. IdsOK'
  BY DEF IdsOK, BanksOK
<1>5. LabelsOK'
  BY <1>a DEF LabelsOK
<1>6. CountsOK'
  BY <1>a DEF CountsOK
<1>7. OfferedOnce'
  BY <1>a, NoBankOK DEF OfferedOnce
<1>8. Shape'
  BY <1>a DEF Shape
<1>9. Control'
  BY <1>b DEF Control
<1>10. PriorKept'
  BY <1>b DEF PriorKept
<1>11. OnDisk'
  BY DEF OnDisk
<1> QED BY <1>1, <1>2, <1>3, <1>4, <1>5, <1>6, <1>7, <1>8, <1>9, <1>10, <1>11

\* Two copies of the application's bank, which holds one patch; nobody at work.
LEMMA InvInit == Init => Inv
<1> SUFFICES ASSUME Init PROVE Inv
  OBVIOUS
<1> USE EvolutionAssumption, NoBankOK, EmptySeqSet DEF Init, Bank, Base
<1>1. Cardinality({0}) = 1
  BY FS_Singleton
<1>2. Len(<<>>) = 0
  OBVIOUS
<1>3. BanksOK
  BY <1>2 DEF BanksOK
<1>4. SizesOK
  <2>1. TargetSize \in Nat \ {0} /\ Cardinality({0}) <= TargetSize
    BY <1>1
  <2>2. active.has = {0} /\ standby.has = {0} /\ made.has = {} /\ old.has = {}
    OBVIOUS
  <2> QED BY <2>1, <2>2 DEF SizesOK
<1>5. IdsOK /\ FramesOK /\ LabelsOK /\ CountsOK
  <2>1. IdsOK /\ FramesOK
    BY DEF IdsOK, FramesOK
  <2>2. LabelsOK
    BY DEF LabelsOK
  <2>3. CountsOK
    BY <1>2 DEF CountsOK
  <2> QED BY <2>1, <2>2, <2>3
<1>6. CandidatesOK /\ OfferedOnce
  BY <1>2 DEF CandidatesOK, OfferedOnce
<1>7. Shape /\ Control /\ Undecided /\ PriorKept /\ OnDisk
  BY <1>2 DEF Shape, Control, Undecided, PriorKept, OnDisk
<1> QED BY <1>3, <1>4, <1>5, <1>6, <1>7 DEF Inv, Types

\* Every step of the workers, the updater and the controlling thread keeps it.
LEMMA InvStep == Inv /\ [Next]_vars => Inv'
<1> SUFFICES ASSUME Inv, [Next]_vars PROVE Inv'
  OBVIOUS
<1>1. CASE UNCHANGED vars
  BY <1>1, Frames DEF vars, detectVars, offerVars, bankVars, maintVars, ctlVars, Inv, Types
<1>2. CASE DetectStep \/ OfferCall \/ Assess
  BY <1>2, DetectTestInv, DetectLoadInv, DetectDoneInv, OfferCallInv, AssessInv, Zenon DEF DetectStep
<1>3. CASE Update
  BY <1>3, UpdWaitInv, UpdDrainInv, UpdGateInv, UpdBuildInv, UpdSwapOutInv, UpdSwapInInv,
     UpdValidateInv, UpdBackOutInv, UpdBackInInv, UpdRecordInv, Zenon DEF Update
<1>4. CASE Start \/ StopCall \/ StopJoin \/ RebuildCall \/ RebuildStep
  BY <1>4, StartInv, StopCallInv, StopJoinInv, RebuildCallInv, RebuildInv, SaveBankInv,
     SaveProfileInv, RebuildSwapOutInv, RebuildSwapInInv, Zenon DEF RebuildStep
<1> QED BY <1>1, <1>2, <1>3, <1>4, Zenon DEF Next

\* The inductive invariant holds throughout.
LEMMA InvAlways == Spec => []Inv
  BY InvInit, InvStep, PTL DEF Spec

\* Whatever the selections keep, no bank outgrows target_size and no buffer
\* max_frames, and a candidate that Drain has handed over
\* (coreset_evolution.cpp, CandidateBuffer::Drain) is in no later batch, so that
\* no patch enters a bank twice.
THEOREM CandidatesMergedOnce == Spec => []EvolutionInv
<1>1. Inv => EvolutionInv
  BY TypeParts DEF Inv, EvolutionInv
<1> QED BY <1>1, InvAlways, PTL

\* Self-validation: after the two swaps of a rejected update the detector has
\* the bank, and the evolution the profile, that they had before it, with frames
\* searched and offered between any two of the steps.
THEOREM RejectionRestores == Spec => []RejectRestores
<1>1. Inv => RejectRestores
  <2> SUFFICES ASSUME Inv, upc = "record", ToSet(batch) \subseteq rejected
               PROVE  active = prior.bank /\ activeProfile = prior.profile
    BY DEF RejectRestores
  <2>1. batch \in Seq(Nat) /\ batch # <<>>
    BY DEF Inv, Shape, Control
  <2>2. ToSet(batch) # {}
    BY <2>1, EmptySeqSet
  <2> QED BY <2>2 DEF Inv, PriorKept
<1> QED BY <1>1, InvAlways, PTL

\* CheckDrift never reports a drift, for any displacements and any number of
\* updates and rebuilds: in its window of five, three values cannot all be more
\* than two standard deviations above the mean.
THEOREM NoDriftReported == Spec => []DriftSilent
<1>1. Inv => DriftSilent
  BY NeverDrifts DEF Inv, Types, CountsOK, Shape, DriftSilent
<1> QED BY <1>1, InvAlways, PTL

\* FullRebuild writes the .bin before the .profile.yaml and gives up on the first
\* failure: the profile on disk is never newer than the bank beside it.
THEOREM ProfileFollowsBank == Spec => []ProfileNotAheadOfBank
<1>1. Inv => ProfileNotAheadOfBank
  BY DEF Inv, OnDisk, ProfileNotAheadOfBank
<1> QED BY <1>1, InvAlways, PTL

-----------------------------------------------------------------------------
(* Banks: what a bank covers, and the bank a frame is compared with.        *)
CONSTANTS Surfaces, Positions, Embeddings, Datasets, MaxSamples, Bootstraps, MaxBuilds, Images
VARIABLES dirs, job, builds, app, boots, last, frames

Repo == INSTANCE Banks WITH disk <- dirs

\* A directory is one surface's; the settings ask for a patch at least.
BankAssumption ==
  /\ \A s, t \in Surfaces : s = t
  /\ Positions \subseteq Nat
  /\ \A e \in Images : e.pos \in Positions /\ e.emb \in Seq(Int)
  /\ Datasets \subseteq Seq(Images)
  /\ Embeddings \subseteq Seq(Int)
  /\ MaxSamples \in Nat \ {0}
  /\ \A b \in Bootstraps : b.min \in Nat \ {0} /\ b.target \in Nat \ {0}

LEMMA LeastIs ==
    ASSUME NEW T \in SUBSET Nat, T # {}
    PROVE  Repo!Min(T) \in T /\ \A m \in T : Repo!Min(T) <= m
<1>1. \E n \in T : \A m \in T : n <= m
  BY LeastNumber
<1> QED BY <1>1 DEF Repo!Min

LEMMA LeastOfTwo ==
    ASSUME NEW a \in Nat, NEW b \in Nat
    PROVE  Repo!Min({a, b}) = IF a <= b THEN a ELSE b
<1>1. {a, b} \in SUBSET Nat /\ {a, b} # {}
  OBVIOUS
<1>2. Repo!Min({a, b}) \in {a, b} /\ \A m \in {a, b} : Repo!Min({a, b}) <= m
  BY <1>1, LeastIs
<1> QED BY <1>2

LEMMA SquaresAreNumbers ==
    ASSUME NEW x \in Int, NEW y \in Int
    PROVE  Repo!Sq(x, y) \in Nat /\ Repo!Sq(x, y) = Repo!Sq(y, x) /\ Repo!Sq(x, x) = 0
<1>1. \A a \in Int : a * a \in Int /\ a * a >= 0
  OBVIOUS
<1>2. x - y \in Int /\ y - x \in Int
  OBVIOUS
<1>3. (x - y) * (x - y) = (y - x) * (y - x)
  OBVIOUS
<1>4. (x - x) * (x - x) = 0
  OBVIOUS
<1> QED BY <1>1, <1>2, <1>3, <1>4 DEF Repo!Sq

\* Two points near a third one are not far from each other.
LEMMA TwiceAsFar ==
    ASSUME NEW x \in Int, NEW y \in Int, NEW z \in Int, NEW r \in Nat, Repo!Sq(x, z) <= r, Repo!Sq(y, z) <= r
    PROVE  Repo!Sq(x, y) <= 4 * r
<1> DEFINE u == x - z
           v == y - z
<1>1. u \in Int /\ v \in Int /\ x - y = u - v
  OBVIOUS
<1>2. u * u <= r /\ v * v <= r
  BY DEF Repo!Sq
<1> HIDE DEF u, v
<1>3. \A a \in Int : a * a \in Int /\ a * a >= 0
  OBVIOUS
<1>4. (u + v) * (u + v) >= 0
  BY <1>1, <1>3
<1>5. (u - v) * (u - v) = 2 * (u * u) + 2 * (v * v) - (u + v) * (u + v)
  BY <1>1
<1>6. (u - v) * (u - v) <= 4 * r
  <2>1. u * u \in Int /\ v * v \in Int /\ (u + v) * (u + v) \in Int /\ (u - v) * (u - v) \in Int
    BY <1>1
  <2> DEFINE p == u * u
             q == v * v
             s == (u + v) * (u + v)
             w == (u - v) * (u - v)
  <2>2. p \in Int /\ q \in Int /\ s \in Int /\ p <= r /\ q <= r /\ s >= 0 /\ w = 2 * p + 2 * q - s
    BY <1>2, <1>4, <1>5, <2>1, SMTT(60)
  <2> HIDE DEF p, q, s, w
  <2>3. w <= 4 * r
    BY <2>2
  <2> QED BY <2>3 DEF w
<1> QED BY <1>1, <1>6 DEF Repo!Sq

\* How far a point is from a set of points.
Apart(x, has) == Repo!Min({Repo!Sq(x, y) : y \in has})

LEMMA ClosestIs ==
    ASSUME NEW x \in Int, NEW has \in SUBSET Int, has # {}
    PROVE  /\ Apart(x, has) \in Nat
           /\ \E y \in has : Repo!Sq(x, y) = Apart(x, has)
           /\ \A y \in has : Apart(x, has) <= Repo!Sq(x, y)
<1> DEFINE T == {Repo!Sq(x, y) : y \in has}
<1>1. T \in SUBSET Nat /\ T # {}
  BY SquaresAreNumbers
<1>2. Repo!Min(T) \in T /\ \A m \in T : Repo!Min(T) <= m
  BY <1>1, LeastIs
<1> QED BY <1>1, <1>2 DEF Apart

LEMMA RadiusIs ==
    ASSUME NEW all \in Seq(Int), all # <<>>, NEW has \in SUBSET Int, has # {}
    PROVE  /\ Repo!Radius(all, has) \in Nat
           /\ \E i \in DOMAIN all : Repo!Radius(all, has) = Apart(all[i], has)
           /\ \A i \in DOMAIN all : Apart(all[i], has) <= Repo!Radius(all, has)
<1> DEFINE n == Len(all)
           d == [i \in 1 .. n |-> Apart(all[i], has)]
           T == {d[i] : i \in 1 .. n}
<1>1. n \in Nat /\ 1 <= n /\ DOMAIN all = 1 .. n /\ \A i \in 1 .. n : all[i] \in Int
  OBVIOUS
<1>2. \A i \in 1 .. n : Apart(all[i], has) \in Nat
  BY <1>1, ClosestIs
<1>3. Repo!Range(all) = {all[i] : i \in 1 .. n}
  BY <1>1 DEF Repo!Range
<1> HIDE DEF n
<1>4. {Apart(x, has) : x \in Repo!Range(all)} = T
  BY <1>3
<1>5. Repo!Radius(all, has) = Repo!Max(T)
  BY <1>4 DEF Repo!Radius, Apart
<1>6. d \in [1 .. n -> Int] /\ \A i \in 1 .. n : d[i] = Apart(all[i], has) /\ d[i] \in Nat
  BY <1>2
<1> HIDE DEF d
<1>7. PICK i \in 1 .. n : \A j \in 1 .. n : d[i] > d[j] \/ (d[i] = d[j] /\ i <= j)
  BY <1>1, <1>6, FirstGreatest
<1>8. d[i] \in T /\ \A y \in T : d[i] >= y
  BY <1>6, <1>7
<1>9. Repo!Max(T) \in T /\ \A y \in T : Repo!Max(T) >= y
  BY <1>8 DEF Repo!Max
<1> QED BY <1>1, <1>5, <1>6, <1>9

\* The points picked so far, by their places in the sequence of all.
Picked(all, chosen) == {all[j] : j \in Repo!Range(chosen)}
PickedSeqs(all) == Seq(DOMAIN all) \ {<<>>}

LEMMA PickedPoints ==
    ASSUME NEW all \in Seq(Int), NEW c \in PickedSeqs(all)
    PROVE  /\ Picked(all, c) = {all[c[k]] : k \in DOMAIN c}
           /\ Picked(all, c) \in SUBSET Int /\ Picked(all, c) # {}
           /\ \A i : Repo!Nearest(all, i, c) = Apart(all[i], Picked(all, c))
<1>1. c \in Seq(DOMAIN all) /\ 1 \in DOMAIN c /\ \A k \in DOMAIN c : c[k] \in DOMAIN all
  BY DEF PickedSeqs
<1>2. Repo!Range(c) = {c[k] : k \in DOMAIN c}
  BY DEF Repo!Range
<1>3. Picked(all, c) = {all[c[k]] : k \in DOMAIN c}
  BY <1>2 DEF Picked
<1>4. \A i \in DOMAIN all : all[i] \in Int
  OBVIOUS
<1>5. ASSUME NEW i PROVE Repo!Nearest(all, i, c) = Apart(all[i], Picked(all, c))
  <2>1. {Repo!Sq(all[i], all[j]) : j \in Repo!Range(c)} = {Repo!Sq(all[i], y) : y \in Picked(all, c)}
    BY DEF Picked
  <2> QED BY <2>1 DEF Repo!Nearest, Apart
<1> QED BY <1>1, <1>3, <1>4, <1>5

\* The next pick is as far from the bank as any patch.
LEMMA FurthestIs ==
    ASSUME NEW all \in Seq(Int), all # <<>>, NEW c \in PickedSeqs(all)
    PROVE  /\ Repo!Furthest(all, c) \in DOMAIN all
           /\ \A i \in DOMAIN all : Repo!Nearest(all, i, c) \in Nat
           /\ \A i \in DOMAIN all : Repo!Nearest(all, i, c) <= Repo!Nearest(all, Repo!Furthest(all, c), c)
<1> DEFINE n == Len(all)
           d == [i \in 1 .. n |-> Repo!Nearest(all, i, c)]
<1>1. n \in Nat /\ 1 <= n /\ DOMAIN all = 1 .. n /\ \A i \in 1 .. n : all[i] \in Int
  OBVIOUS
<1>2. \A i \in 1 .. n : Repo!Nearest(all, i, c) \in Nat
  BY <1>1, PickedPoints, ClosestIs
<1> HIDE DEF n
<1>3. d \in [1 .. n -> Int] /\ \A i \in 1 .. n : d[i] = Repo!Nearest(all, i, c)
  BY <1>2
<1> HIDE DEF d
<1>4. PICK i \in 1 .. n : \A j \in 1 .. n : d[i] > d[j] \/ (d[i] = d[j] /\ i <= j)
  BY <1>1, <1>3, FirstGreatest
<1>5. \A j \in DOMAIN all : LET e(m) == Repo!Nearest(all, m, c) IN e(i) > e(j) \/ (e(i) = e(j) /\ i <= j)
  BY <1>1, <1>3, <1>4
<1> DEFINE f == Repo!Furthest(all, c)
<1>6. f \in DOMAIN all /\ \A j \in DOMAIN all : LET e(m) == Repo!Nearest(all, m, c) IN e(f) > e(j) \/ (e(f) = e(j) /\ f <= j)
  BY <1>1, <1>5 DEF Repo!Furthest
<1> HIDE DEF f
<1>7. \A j \in DOMAIN all : Repo!Nearest(all, j, c) <= Repo!Nearest(all, f, c)
  BY <1>1, <1>2, <1>6, SMTT(60)
<1> QED BY <1>1, <1>2, <1>6, <1>7 DEF f

\* The picks of the greedy sampling, one more in each round.
Picks(all, max, pick) ==
  /\ pick \in [1 .. max -> PickedSeqs(all)] /\ pick[1] = <<1>>
  /\ \A k \in 2 .. max : pick[k] = Append(pick[k - 1], Repo!Furthest(all, pick[k - 1]))

LEMMA GreedyPicks ==
    ASSUME NEW all \in Seq(Int), all # <<>>, NEW max \in Nat \ {0}
    PROVE  \E pick : /\ Picks(all, max, pick)
                     /\ LET c == pick[Repo!Min({max, Len(all)})]
                        IN  Repo!Greedy(all, max) = [k \in DOMAIN c |-> all[c[k]]]
<1> DEFINE D == PickedSeqs(all)
           step == [k \in Nat |-> [c \in D |-> Append(c, Repo!Furthest(all, c))]]
           Rec(g) == g = [k \in 1 .. max |-> IF k = 1 THEN <<1>> ELSE Append(g[k - 1], Repo!Furthest(all, g[k - 1]))]
           pick == CHOOSE g : Rec(g)
<1>1. <<1>> \in D
  <2>1. 1 \in DOMAIN all
    OBVIOUS
  <2> HIDE DEF PickedSeqs
  <2>2. <<1>> \in Seq(DOMAIN all) /\ <<1>> # <<>>
    BY <2>1
  <2> QED BY <2>2 DEF PickedSeqs
<1>2. ASSUME NEW c \in D PROVE Append(c, Repo!Furthest(all, c)) \in D
  <2>1. Repo!Furthest(all, c) \in DOMAIN all
    BY FurthestIs
  <2>2. c \in Seq(DOMAIN all)
    BY DEF PickedSeqs
  <2> DEFINE f == Repo!Furthest(all, c)
             I == DOMAIN all
  <2> HIDE DEF f, I
  <2>3. Append(c, f) \in Seq(I) /\ Append(c, f) # <<>>
    <3>1. c \in Seq(I) /\ f \in I
      BY <2>1, <2>2 DEF f, I
    <3> QED BY <3>1
  <2> QED BY <2>3 DEF f, I, PickedSeqs
<1> HIDE DEF D
<1>3. \A k \in Nat : \A c \in D : step[k][c] \in D
  BY <1>2
<1>4. \A k \in Nat : \A c \in D : step[k][c] = Append(c, Repo!Furthest(all, c))
  OBVIOUS
<1> HIDE DEF step
<1>5. PICK f \in [1 .. max -> D] : f[1] = <<1>> /\ \A k \in 1 + 1 .. max : f[k] = step[k][f[k - 1]]
  <2> DEFINE one == 1
             start == <<1>>
  <2>1. one \in Nat /\ max \in Nat /\ one <= max /\ start \in D
    BY <1>1
  <2> HIDE DEF one, start, pick
  <2>2. \E f : Recurs(f, one, max, D, start, step)
    BY <1>3, <2>1, RecursionDefines, Zenon
  <2> QED BY <2>2 DEF Recurs, one, start
<1>6. Rec(f)
  <2>1. ASSUME NEW k \in 1 .. max, k # 1 PROVE f[k] = Append(f[k - 1], Repo!Furthest(all, f[k - 1]))
    <3>1. k \in Nat /\ k \in 1 + 1 .. max /\ k - 1 \in 1 .. max
      BY <2>1
    <3>2. f[k - 1] \in D
      BY <1>5, <3>1, SMTT(60)
    <3> QED BY <1>4, <1>5, <3>1, <3>2
  <2> QED BY <1>5, <2>1
<1>7. Rec(pick)
  BY <1>6
<1> HIDE DEF pick
<1>8. \A k \in 1 .. max : pick[k] = f[k]
  <2> DEFINE T == {k \in 1 .. max : pick[k] = f[k]}
  <2>1. 1 \in T
    <3>1. 1 \in 1 .. max
      OBVIOUS
    <3>2. pick[1] = <<1>>
      BY <1>7, <3>1
    <3> QED BY <1>5, <3>1, <3>2
  <2>2. ASSUME NEW k \in 1 .. max, k + 1 <= max, k \in T PROVE k + 1 \in T
    <3>1. k + 1 \in 1 .. max /\ k + 1 # 1 /\ (k + 1) - 1 = k
      BY <2>2
    <3>2. pick[k + 1] = Append(pick[k], Repo!Furthest(all, pick[k])) /\ f[k + 1] = Append(f[k], Repo!Furthest(all, f[k]))
      BY <1>6, <1>7, <3>1, ZenonT(60)
    <3> QED BY <2>2, <3>1, <3>2
  <2> HIDE DEF T
  <2>3. \A k \in 1 .. max : k \in T
    <3>1. 1 \in Nat /\ max \in Nat
      OBVIOUS
    <3> QED BY <2>1, <2>2, <3>1, StepByStep
  <2> QED BY <2>3 DEF T
<1>9. Picks(all, max, pick)
  <2>1. pick = [k \in 1 .. max |-> pick[k]]
    BY <1>7
  <2>2. pick \in [1 .. max -> D]
    BY <1>5, <1>8, <2>1, SMTT(60)
  <2>3. ASSUME NEW k \in 2 .. max PROVE pick[k] = Append(pick[k - 1], Repo!Furthest(all, pick[k - 1]))
    <3>1. k \in 1 .. max /\ k # 1
      OBVIOUS
    <3> QED BY <1>7, <3>1
  <2>4. pick[1] = <<1>>
    <3>1. 1 \in 1 .. max
      OBVIOUS
    <3> QED BY <1>7, <3>1
  <2> QED BY <2>2, <2>3, <2>4 DEF Picks, D
<1>10. LET c == pick[Repo!Min({max, Len(all)})] IN Repo!Greedy(all, max) = [k \in DOMAIN c |-> all[c[k]]]
  BY DEF Repo!Greedy, pick
<1> QED BY <1>9, <1>10

\* How far the next pick is from what has been picked.
Ahead(all, c) == Repo!Nearest(all, Repo!Furthest(all, c), c)
\* A sequence of k picks no two of which are nearer to each other than the next is to them.
Spread(all, k, c) ==
  /\ c \in PickedSeqs(all) /\ Len(c) = k
  /\ \A i, j \in 1 .. k : i < j => Ahead(all, c) <= Repo!Sq(all[c[i]], all[c[j]])

LEMMA GreedySpreads ==
    ASSUME NEW all \in Seq(Int), all # <<>>, NEW max \in Nat \ {0}, NEW pick, Picks(all, max, pick)
    PROVE  \A k \in 1 .. max : Spread(all, k, pick[k])
<1> DEFINE T == {k \in 1 .. max : Spread(all, k, pick[k])}
<1>1. 1 \in T
  <2>1. 1 \in 1 .. max
    OBVIOUS
  <2>2. pick[1] \in PickedSeqs(all) /\ Len(pick[1]) = 1
    BY <2>1 DEF Picks
  <2>3. \A i, j \in 1 .. 1 : ~(i < j)
    OBVIOUS
  <2> QED BY <2>1, <2>2, <2>3 DEF Spread
<1>2. ASSUME NEW k \in 1 .. max, k + 1 <= max, k \in T PROVE k + 1 \in T
  <2> DEFINE c == pick[k]
             f == Repo!Furthest(all, c)
             d == pick[k + 1]
             g == Repo!Furthest(all, d)
  <2>1. k \in Nat /\ k >= 1 /\ k + 1 \in 2 .. max /\ k + 1 \in 1 .. max /\ (k + 1) - 1 = k
    BY <1>2
  <2>2. Spread(all, k, c)
    BY <1>2
  <2>3. c \in PickedSeqs(all) /\ Len(c) = k
    BY <2>2 DEF Spread
  <2>4. d = Append(c, f)
    BY <2>1 DEF Picks
  <2>5. d \in PickedSeqs(all)
    BY <2>1 DEF Picks
  <2>6. f \in DOMAIN all /\ \A i \in DOMAIN all : Repo!Nearest(all, i, c) \in Nat /\ Repo!Nearest(all, i, c) <= Ahead(all, c)
    BY <2>3, FurthestIs DEF Ahead
  <2>7. g \in DOMAIN all /\ Repo!Nearest(all, g, d) \in Nat /\ Ahead(all, d) = Repo!Nearest(all, g, d)
    BY <2>5, FurthestIs DEF Ahead
  <2> HIDE DEF f, g, d, c
  <2>8. Len(d) = k + 1 /\ (\A i \in 1 .. k : d[i] = c[i]) /\ d[k + 1] = f /\ c \in Seq(DOMAIN all)
    <3>1. c \in Seq(DOMAIN all)
      BY <2>3 DEF PickedSeqs
    <3> DEFINE I == DOMAIN all
    <3> HIDE DEF I
    <3>2. c \in Seq(I) /\ f \in I
      BY <2>6, <3>1 DEF I
    <3> QED BY <2>3, <2>4, <3>1, <3>2, SMTT(60)
  <2>9. \A i \in 1 .. k : c[i] \in DOMAIN all
    <3>1. \A i \in 1 .. k : i \in DOMAIN c
      BY <2>1, <2>3, <2>8
    <3> QED BY <2>8, <3>1
  <2>10. \A i \in DOMAIN all : all[i] \in Int
    OBVIOUS
  <2>11. Picked(all, c) \subseteq Picked(all, d)
    <3>1. DOMAIN c = 1 .. k /\ DOMAIN d = 1 .. k + 1
      BY <2>1, <2>3, <2>5, <2>8 DEF PickedSeqs
    <3>2. Picked(all, c) = {all[c[i]] : i \in 1 .. k} /\ Picked(all, d) = {all[d[i]] : i \in 1 .. k + 1}
      BY <2>3, <2>5, <3>1, PickedPoints
    <3>3. \A i \in 1 .. k : i \in 1 .. k + 1
      BY <2>1
    <3> QED BY <2>8, <3>2, <3>3
  <2>12. \A y \in Picked(all, d) : Ahead(all, d) <= Repo!Sq(all[g], y)
    <3>1. Repo!Nearest(all, g, d) = Apart(all[g], Picked(all, d)) /\ Picked(all, d) \in SUBSET Int /\ Picked(all, d) # {}
      BY <2>5, PickedPoints
    <3> QED BY <2>7, <2>10, <3>1, ClosestIs
  <2>13. Ahead(all, d) <= Ahead(all, c)
    <3>1. Repo!Nearest(all, g, c) = Apart(all[g], Picked(all, c)) /\ Picked(all, c) \in SUBSET Int /\ Picked(all, c) # {}
      BY <2>3, PickedPoints
    <3>2. PICK y \in Picked(all, c) : Repo!Sq(all[g], y) = Repo!Nearest(all, g, c)
      BY <2>7, <2>10, <3>1, ClosestIs
    <3>3. Ahead(all, d) <= Repo!Nearest(all, g, c)
      BY <2>11, <2>12, <3>2, SMTT(60)
    <3>4. Repo!Nearest(all, g, c) <= Ahead(all, c) /\ Repo!Nearest(all, g, c) \in Nat
      BY <2>6, <2>7
    <3>5. Ahead(all, c) \in Nat /\ Ahead(all, d) \in Nat
      BY <2>6, <2>7 DEF Ahead, f
    <3> QED BY <3>3, <3>4, <3>5
  <2>14. ASSUME NEW i \in 1 .. k + 1, NEW j \in 1 .. k + 1, i < j PROVE Ahead(all, c) <= Repo!Sq(all[d[i]], all[d[j]])
    <3>1. i \in 1 .. k
      BY <2>1, <2>14
    <3>2. CASE j = k + 1
      <4>1. d[i] = c[i] /\ d[j] = f /\ c[i] \in DOMAIN all
        BY <2>8, <2>9, <3>1, <3>2, SMTT(60)
      <4>2. all[c[i]] \in Picked(all, c)
        <5>1. i \in DOMAIN c
          BY <2>1, <2>3, <2>8, <3>1, SMTT(60)
        <5> QED BY <2>3, <5>1, PickedPoints
      <4>3. Ahead(all, c) = Apart(all[f], Picked(all, c)) /\ Picked(all, c) \in SUBSET Int /\ Picked(all, c) # {}
        BY <2>3, PickedPoints DEF Ahead, f
      <4>4. Ahead(all, c) <= Repo!Sq(all[f], all[c[i]])
        BY <2>6, <2>10, <4>2, <4>3, ClosestIs
      <4>5. Repo!Sq(all[f], all[c[i]]) = Repo!Sq(all[c[i]], all[f])
        BY <2>6, <2>10, <4>1, SquaresAreNumbers
      <4> QED BY <4>1, <4>4, <4>5, SMTT(60)
    <3>3. CASE j # k + 1
      <4>1. j \in 1 .. k
        BY <2>1, <3>3
      <4>2. d[i] = c[i] /\ d[j] = c[j]
        BY <2>8, <3>1, <4>1
      <4> QED BY <2>2, <2>14, <3>1, <4>1, <4>2 DEF Spread
    <3> QED BY <3>2, <3>3
  <2>15. ASSUME NEW i \in 1 .. k + 1, NEW j \in 1 .. k + 1, i < j PROVE Ahead(all, d) <= Repo!Sq(all[d[i]], all[d[j]])
    <3>1. Ahead(all, c) <= Repo!Sq(all[d[i]], all[d[j]])
      BY <2>14, <2>15
    <3>2. Ahead(all, c) \in Nat /\ Ahead(all, d) \in Nat
      BY <2>6, <2>7 DEF Ahead, f
    <3>3. \A m \in 1 .. k + 1 : d[m] \in DOMAIN all
      <4>1. \A m \in 1 .. k + 1 : m # k + 1 => m \in 1 .. k
        BY <2>1
      <4> QED BY <2>6, <2>8, <2>9, <4>1
    <3>4. Repo!Sq(all[d[i]], all[d[j]]) \in Nat
      BY <2>10, <3>3, SquaresAreNumbers
    <3> QED BY <2>13, <3>1, <3>2, <3>4
  <2>16. Spread(all, k + 1, d)
    BY <2>5, <2>8, <2>15 DEF Spread
  <2> QED BY <2>1, <2>16 DEF d
<1> HIDE DEF T
<1>3. \A k \in 1 .. max : k \in T
  <2>1. 1 \in Nat /\ max \in Nat
    OBVIOUS
  <2> QED BY <1>1, <1>2, <2>1, StepByStep
<1> QED BY <1>3 DEF T

LEMMA BankCardinality == \A T : Repo!Cardinality(T) = Cardinality(T)
  BY DEF Repo!Cardinality, Cardinality, Repo!IsFiniteSet, IsFiniteSet

\* The best bank of so many patches is one of them.
LEMMA BestIs ==
    ASSUME NEW all \in Seq(Int), all # <<>>, NEW max \in Nat \ {0}
    PROVE  \E s \in SUBSET Repo!Range(all) :
             s # {} /\ IsFiniteSet(s) /\ Cardinality(s) <= max /\ Repo!Best(all, max) = Repo!Radius(all, s)
<1> DEFINE V == {s \in SUBSET Repo!Range(all) : s # {} /\ Repo!Cardinality(s) <= max}
           T == {Repo!Radius(all, s) : s \in V}
<1>1. Repo!Range(all) \in SUBSET Int /\ 1 \in DOMAIN all
  BY DEF Repo!Range
<1>2. T \in SUBSET Nat
  <2>1. ASSUME NEW s \in V PROVE Repo!Radius(all, s) \in Nat
    BY <1>1, RadiusIs
  <2> QED BY <2>1
<1>3. {all[1]} \in V
  <2>1. Cardinality({all[1]}) = 1
    BY FS_Singleton
  <2>2. {all[1]} \in SUBSET Repo!Range(all)
    BY <1>1 DEF Repo!Range
  <2> QED BY <2>1, <2>2, BankCardinality
<1>4. T # {}
  BY <1>3, SMTT(60)
<1>5. Repo!Best(all, max) = Repo!Min(T)
  BY DEF Repo!Best
<1> HIDE DEF T
<1>6. Repo!Min(T) \in T
  BY <1>2, <1>4, LeastIs
<1>7. PICK s \in V : Repo!Best(all, max) = Repo!Radius(all, s)
  BY <1>5, <1>6 DEF T
<1>8. IsFiniteSet(s)
  <2> DEFINE n == Len(all)
  <2>1. IsFiniteSet(1 .. n)
    BY FS_Interval
  <2>2. Repo!Range(all) = {all[i] : i \in 1 .. n}
    BY DEF Repo!Range
  <2> HIDE DEF n
  <2> DEFINE g == [i \in 1 .. n |-> all[i]]
             R == Repo!Range(all)
  <2>4. g \in Surjection(1 .. n, R)
    BY <2>2, Fun_IsSurj
  <2> HIDE DEF g, R
  <2>3. IsFiniteSet(R)
    BY <2>1, <2>4, FS_Surjection
  <2> QED BY <2>3, FS_Subset DEF R
<1> QED BY <1>7, <1>8, BankCardinality

\* A greedy bank reaches every patch within twice the distance of the best bank of its size.
LEMMA GreedyCovers ==
    ASSUME NEW all \in Seq(Int), all # <<>>, NEW max \in Nat \ {0}
    PROVE  LET has == Repo!Greedy(all, max) IN
           /\ Len(has) = Repo!Min({max, Len(all)})
           /\ Repo!Range(has) \subseteq Repo!Range(all)
           /\ Repo!Radius(all, Repo!Range(has)) <= 4 * Repo!Best(all, max)
<1> DEFINE has == Repo!Greedy(all, max)
           n == Len(all)
           m == Repo!Min({max, n})
<1>1. PICK pick : Picks(all, max, pick) /\ LET c == pick[m] IN has = [k \in DOMAIN c |-> all[c[k]]]
  BY GreedyPicks
<1> DEFINE c == pick[m]
           f == Repo!Furthest(all, c)
<1>2. n \in Nat /\ 1 <= n /\ DOMAIN all = 1 .. n /\ \A i \in 1 .. n : all[i] \in Int
  OBVIOUS
<1>3. has = [k \in DOMAIN c |-> all[c[k]]]
  BY <1>1
<1> HIDE DEF has, n
<1>4. m = IF max <= n THEN max ELSE n
  BY <1>2, LeastOfTwo
<1> HIDE DEF m
<1>5. m \in 1 .. max /\ m \in Nat /\ m <= n /\ (m = max \/ m = n)
  BY <1>2, <1>4
<1>6. Spread(all, m, c)
  BY <1>1, <1>5, GreedySpreads
<1> HIDE DEF c
<1>7. c \in PickedSeqs(all) /\ Len(c) = m /\ c \in Seq(DOMAIN all) /\ DOMAIN c = 1 .. m
  BY <1>5, <1>6 DEF Spread, PickedSeqs
<1>8. \A i \in 1 .. m : c[i] \in 1 .. n
  BY <1>2, <1>7
<1>9. Len(has) = m
  BY <1>3, <1>5, <1>7
<1>10. Repo!Range(has) = {all[c[k]] : k \in 1 .. m}
  BY <1>3, <1>7 DEF Repo!Range
<1>11. Repo!Range(has) \subseteq Repo!Range(all)
  BY <1>2, <1>8, <1>10 DEF Repo!Range
<1>12. Picked(all, c) = Repo!Range(has) /\ Picked(all, c) \in SUBSET Int /\ Picked(all, c) # {}
  BY <1>7, <1>10, PickedPoints
<1>13. f \in 1 .. n /\ Ahead(all, c) \in Nat
  BY <1>2, <1>7, FurthestIs DEF Ahead
<1>14. Repo!Radius(all, Repo!Range(has)) <= Ahead(all, c) /\ Repo!Radius(all, Repo!Range(has)) \in Nat
  <2>1. PICK i \in DOMAIN all : Repo!Radius(all, Repo!Range(has)) = Apart(all[i], Repo!Range(has))
    BY <1>12, RadiusIs
  <2>2. Apart(all[i], Repo!Range(has)) = Repo!Nearest(all, i, c)
    BY <1>7, <1>12, PickedPoints
  <2>3. Repo!Radius(all, Repo!Range(has)) \in Nat
    BY <1>12, RadiusIs
  <2> QED BY <1>7, <2>1, <2>2, <2>3, FurthestIs DEF Ahead
<1> DEFINE z == [i \in 1 .. m + 1 |-> IF i = m + 1 THEN f ELSE c[i]]
<1>15. z \in [1 .. m + 1 -> 1 .. n] /\ \A i \in 1 .. m + 1 : all[z[i]] \in Int
  <2>1. \A i \in 1 .. m + 1 : i # m + 1 => i \in 1 .. m
    BY <1>5
  <2> HIDE DEF f
  <2> QED BY <1>2, <1>8, <1>13, <2>1
<1>16. ASSUME NEW i \in 1 .. m + 1, NEW j \in 1 .. m + 1, i < j PROVE Ahead(all, c) <= Repo!Sq(all[z[i]], all[z[j]])
  <2>1. i \in 1 .. m /\ z[i] = c[i]
    BY <1>5, <1>16
  <2>2. CASE j = m + 1
    <3>1. z[j] = f
      BY <1>5, <2>2
    <3>2. Ahead(all, c) = Apart(all[f], Picked(all, c))
      BY <1>7, PickedPoints DEF Ahead
    <3>3. all[c[i]] \in Picked(all, c)
      BY <1>10, <1>12, <2>1
    <3> HIDE DEF f, z
    <3>4. all[f] \in Int /\ all[c[i]] \in Int
      BY <1>2, <1>8, <1>13, <2>1
    <3>5. Ahead(all, c) <= Repo!Sq(all[f], all[c[i]])
      BY <1>12, <3>2, <3>3, <3>4, ClosestIs
    <3> QED BY <2>1, <3>1, <3>4, <3>5, SquaresAreNumbers
  <2>3. CASE j # m + 1
    <3>1. j \in 1 .. m /\ z[j] = c[j]
      BY <1>5, <2>3
    <3> QED BY <1>6, <1>16, <2>1, <3>1, SMTT(60) DEF Spread
  <2> QED BY <2>2, <2>3
<1> HIDE DEF z, f
<1>17. \A i, j \in 1 .. m + 1 : i # j => Ahead(all, c) <= Repo!Sq(all[z[i]], all[z[j]])
  <2>1. ASSUME NEW i \in 1 .. m + 1, NEW j \in 1 .. m + 1, i # j PROVE Ahead(all, c) <= Repo!Sq(all[z[i]], all[z[j]])
    <3>1. i < j \/ j < i
      BY <2>1
    <3>2. Repo!Sq(all[z[i]], all[z[j]]) = Repo!Sq(all[z[j]], all[z[i]])
      BY <1>15, SquaresAreNumbers
    <3> QED BY <1>16, <3>1, <3>2
  <2> QED BY <2>1
<1>18. IsFiniteSet(1 .. m + 1) /\ Cardinality(1 .. m + 1) = m + 1
  <2>1. m + 1 \in Int /\ 1 \in Int /\ 1 <= m + 1 /\ (m + 1) - 1 + 1 = m + 1
    BY <1>5
  <2> QED BY <2>1, FS_Interval
<1>19. PICK s \in SUBSET Repo!Range(all) :
         s # {} /\ IsFiniteSet(s) /\ Cardinality(s) <= max /\ Repo!Best(all, max) = Repo!Radius(all, s)
  BY BestIs
<1>20. s \in SUBSET Int
  BY <1>2 DEF Repo!Range
<1>21. Repo!Best(all, max) \in Nat
  BY <1>19, <1>20, RadiusIs
<1>22. Ahead(all, c) <= 4 * Repo!Best(all, max)
  <2>1. CASE m = max
    <3> DEFINE b == Repo!Best(all, max)
               h == [i \in 1 .. m + 1 |-> CHOOSE y \in s : Repo!Sq(all[z[i]], y) <= b]
    <3>1. ASSUME NEW i \in 1 .. m + 1 PROVE \E y \in s : Repo!Sq(all[z[i]], y) <= b
      <4>1. z[i] \in DOMAIN all
        BY <1>2, <1>15
      <4>2. Apart(all[z[i]], s) <= b
        BY <1>19, <1>20, <4>1, RadiusIs, SMTT(60)
      <4>3. PICK y \in s : Repo!Sq(all[z[i]], y) = Apart(all[z[i]], s)
        BY <1>15, <1>19, <1>20, ClosestIs, SMTT(60)
      <4> QED BY <4>2, <4>3
    <3> HIDE DEF b
    <3>2. h \in [1 .. m + 1 -> s] /\ \A i \in 1 .. m + 1 : Repo!Sq(all[z[i]], h[i]) <= b
      BY <3>1
    <3> HIDE DEF h
    <3>3. Cardinality(s) < Cardinality(1 .. m + 1)
      <4>1. Cardinality(s) \in Nat
        BY <1>19, FS_CardinalityType
      <4> QED BY <1>5, <1>18, <1>19, <2>1, <4>1
    <3>4. PICK i \in 1 .. m + 1, j \in 1 .. m + 1 : i # j /\ h[i] = h[j]
      <4> DEFINE I == 1 .. m + 1
      <4>1. IsFiniteSet(I) /\ h \in [I -> s] /\ Cardinality(s) < Cardinality(I)
        BY <1>18, <3>2, <3>3, SMTT(60)
      <4> HIDE DEF I
      <4>2. \E i, j \in I : i # j /\ h[i] = h[j]
        BY <1>19, <4>1, FS_PigeonHole, SMT
      <4> QED BY <4>2 DEF I
    <3>5. h[i] \in Int /\ all[z[i]] \in Int /\ all[z[j]] \in Int
      BY <1>15, <1>20, <3>2
    <3>6. Repo!Sq(all[z[i]], h[i]) <= b /\ Repo!Sq(all[z[j]], h[i]) <= b
      BY <3>2, <3>4
    <3>7. b \in Nat
      BY <1>21 DEF b
    <3>8. Repo!Sq(all[z[i]], all[z[j]]) <= 4 * b
      BY <3>5, <3>6, <3>7, TwiceAsFar
    <3>9. Ahead(all, c) <= Repo!Sq(all[z[i]], all[z[j]]) /\ Repo!Sq(all[z[i]], all[z[j]]) \in Nat
      BY <1>17, <3>4, <3>5, SquaresAreNumbers
    <3>10. Ahead(all, c) <= 4 * b
      BY <1>13, <3>7, <3>8, <3>9
    <3> QED BY <3>10 DEF b
  <2>2. CASE m = n
    <3>1. IsFiniteSet(1 .. n) /\ Cardinality(1 .. n) = n
      <4>1. n \in Int /\ 1 \in Int /\ 1 <= n /\ n - 1 + 1 = n
        BY <1>2
      <4> QED BY <4>1, FS_Interval
    <3>2. Cardinality(1 .. n) < Cardinality(1 .. m + 1)
      BY <1>5, <1>18, <2>2, <3>1, SMTT(60)
    <3>3. PICK i \in 1 .. m + 1, j \in 1 .. m + 1 : i # j /\ z[i] = z[j]
      <4> DEFINE I == 1 .. m + 1
                 J == 1 .. n
      <4>1. IsFiniteSet(I) /\ IsFiniteSet(J) /\ z \in [I -> J] /\ Cardinality(J) < Cardinality(I)
        BY <1>15, <1>18, <3>1, <3>2, SMTT(60)
      <4> HIDE DEF I, J
      <4>2. \E i, j \in I : i # j /\ z[i] = z[j]
        BY <4>1, FS_PigeonHole, SMT
      <4> QED BY <4>2 DEF I
    <3>4. Repo!Sq(all[z[i]], all[z[j]]) = 0
      BY <1>15, <3>3, SquaresAreNumbers
    <3>5. Ahead(all, c) <= 0
      BY <1>17, <3>3, <3>4
    <3> QED BY <1>13, <1>21, <3>5
  <2> QED BY <1>5, <2>1, <2>2
<1>23. Repo!Radius(all, Repo!Range(has)) <= 4 * Repo!Best(all, max)
  BY <1>13, <1>14, <1>21, <1>22, SMTT(60)
<1> QED BY <1>9, <1>11, <1>23 DEF has, m, n

\* A uniform bank has as many patches as it may.
LEMMA UniformTakes ==
    ASSUME NEW all \in Seq(Int), all # <<>>, NEW max \in Nat \ {0}
    PROVE  LET has == Repo!Uniform(all, max) IN
           Len(has) = Repo!Min({max, Len(all)}) /\ Repo!Range(has) \subseteq Repo!Range(all)
<1> DEFINE n == Len(all)
           has == Repo!Uniform(all, max)
<1>1. n \in Nat /\ 1 <= n /\ DOMAIN all = 1 .. n
  OBVIOUS
<1>2. Repo!Min({max, n}) = IF max <= n THEN max ELSE n
  BY <1>1, LeastOfTwo
<1>3. CASE n <= max
  <2>1. has = all
    BY <1>3 DEF Repo!Uniform
  <2> HIDE DEF n, has
  <2>2. Repo!Min({max, n}) = n
    BY <1>1, <1>2, <1>3
  <2> QED BY <2>1, <2>2 DEF n, has
<1>4. CASE ~(n <= max)
  <2> DEFINE stride == n \div max
  <2>1. has = [i \in 1 .. max |-> all[(i - 1) * stride + 1]]
    BY <1>4 DEF Repo!Uniform
  <2> HIDE DEF n, has
  <2>2. stride \in Nat /\ max * stride <= n /\ stride >= 1
    BY <1>1, <1>4
  <2> HIDE DEF stride
  <2>3. ASSUME NEW i \in 1 .. max PROVE (i - 1) * stride + 1 \in 1 .. n
    <3>1. (i - 1) * stride \in Nat
      BY <2>2
    <3>2. (max - i) * stride >= 0
      BY <2>2
    <3>3. max * stride = (max - i) * stride + (i - 1) * stride + stride
      BY <2>2
    <3> DEFINE p == (i - 1) * stride
               q == (max - i) * stride
               r == max * stride
    <3>4. p \in Nat /\ q \in Int /\ q >= 0 /\ r = q + p + stride /\ r <= n
      BY <2>2, <3>1, <3>2, <3>3
    <3> HIDE DEF p, q, r
    <3>5. p + 1 \in 1 .. n
      BY <1>1, <2>2, <3>4
    <3> QED BY <3>5 DEF p
  <2>4. Len(has) = max
    BY <2>1
  <2>5. Repo!Range(has) = {all[(i - 1) * stride + 1] : i \in 1 .. max}
    BY <2>1 DEF Repo!Range
  <2>6. Repo!Range(has) \subseteq Repo!Range(all)
    BY <1>1, <2>3, <2>5 DEF Repo!Range
  <2>7. Repo!Min({max, n}) = max
    BY <1>1, <1>2, <1>4
  <2> QED BY <2>4, <2>6, <2>7 DEF n, has
<1> QED BY <1>3, <1>4

\* A bank that BuildBank has made of patches, and one that is under a key.
Made(b) == /\ b.all \in Seq(Int) /\ b.all # <<>> /\ b.max \in Nat \ {0}
           /\ b.has = IF b.algo = "greedy" THEN Repo!Greedy(b.all, b.max) ELSE Repo!Uniform(b.all, b.max)
Kept(b, keys) == b = Repo!NoBank \/ (Made(b) /\ b.key \in keys)

DiskInv == /\ DOMAIN dirs = {"banks", "manifests"}
           /\ DOMAIN dirs.banks = Positions /\ \A p \in Positions : Kept(dirs.banks[p], Surfaces \X {p})
           /\ DOMAIN dirs.manifests = Surfaces /\ \A s \in Surfaces : dirs.manifests[s] \in Seq(Positions)
JobInv == /\ DOMAIN job = {"surface", "algo", "embs", "todo", "done"}
          /\ job.embs \in [Positions -> Seq(Int)] /\ job.todo \in SUBSET Positions /\ job.done \in Seq(Positions)
          /\ job = Repo!NoJob \/ job.surface \in Surfaces
AppInv == /\ DOMAIN app = {"phase", "positions", "boot"}
          /\ app.boot.min \in Nat \ {0} /\ app.boot.target \in Nat \ {0}
          /\ DOMAIN app.positions \subseteq Nat /\ (app.phase = "up" => 1 \in DOMAIN app.positions)
          /\ \A i \in DOMAIN app.positions : Kept(app.positions[i].bank, {app.positions[i].key})
BootInv == /\ DOMAIN boots = DOMAIN app.positions
           /\ \A i \in DOMAIN boots : DOMAIN boots[i] = Repo!Keys
           /\ \A i \in DOMAIN boots : \A k \in Repo!Keys :
                /\ DOMAIN boots[i][k] = {"vectors", "frames", "bank"}
                /\ boots[i][k].vectors \in Seq(Int) /\ Kept(boots[i][k].bank, {k})
BankInv == DiskInv /\ JobInv /\ AppInv /\ BootInv /\ Repo!OwnBank

\* A bank covers what it was made of.
LEMMA MadeCovers ==
    ASSUME BankInv
    PROVE  Repo!BankCovers
<1>1. ASSUME NEW b \in Repo!Banked \ {Repo!NoBank} PROVE Made(b)
  <2>1. CASE b \in Repo!Range(dirs.banks)
    <3>1. PICK p \in Positions : b = dirs.banks[p]
      BY <2>1 DEF BankInv, DiskInv, Repo!Range
    <3> QED BY <1>1, <3>1 DEF BankInv, DiskInv, Kept
  <2>2. CASE b \in {app.positions[i].bank : i \in DOMAIN app.positions}
    BY <1>1, <2>2 DEF BankInv, AppInv, Kept
  <2>3. CASE b \in {boots[i][k].bank : i \in DOMAIN boots, k \in Repo!Keys}
    BY <1>1, <2>3 DEF BankInv, BootInv, Kept
  <2> QED BY <1>1, <2>1, <2>2, <2>3, SMTT(60) DEF Repo!Banked
<1>2. ASSUME NEW b, Made(b)
      PROVE  /\ Len(b.has) = Repo!Min({b.max, Len(b.all)}) /\ Repo!Range(b.has) \subseteq Repo!Range(b.all)
             /\ b.algo = "greedy" => Repo!Radius(b.all, Repo!Range(b.has)) <= 4 * Repo!Best(b.all, b.max)
  <2>1. b.all \in Seq(Int) /\ b.all # <<>> /\ b.max \in Nat \ {0}
    BY <1>2 DEF Made
  <2>2. CASE b.algo = "greedy"
    <3>1. b.has = Repo!Greedy(b.all, b.max)
      BY <1>2, <2>2 DEF Made
    <3> QED BY <2>1, <3>1, GreedyCovers
  <2>3. CASE b.algo # "greedy"
    <3>1. b.has = Repo!Uniform(b.all, b.max)
      BY <1>2, <2>3 DEF Made
    <3> QED BY <2>1, <2>3, <3>1, UniformTakes
  <2> QED BY <2>2, <2>3
<1> QED BY <1>1, <1>2 DEF Repo!BankCovers

LEMMA BankCoversInit ==
    ASSUME BankAssumption, Repo!BankInit
    PROVE  BankInv
<1>1. dirs = [banks |-> [p \in Positions |-> Repo!NoBank], manifests |-> [s \in Surfaces |-> <<>>]]
  BY DEF Repo!BankInit
<1>2. DiskInv
  <2>1. <<>> \in Seq(Positions)
    OBVIOUS
  <2> QED BY <1>1, <2>1 DEF DiskInv, Kept
<1>3. JobInv
  <2>1. job = Repo!NoJob
    BY DEF Repo!BankInit
  <2>2. <<>> \in Seq(Positions) /\ <<>> \in Seq(Int)
    OBVIOUS
  <2> QED BY <2>1, <2>2 DEF JobInv, Repo!NoJob
<1>4. AppInv
  <2>1. app = [phase |-> "down", positions |-> <<>>, boot |-> [on |-> FALSE, min |-> 1, target |-> 1]]
    BY DEF Repo!BankInit
  <2> QED BY <2>1 DEF AppInv
<1>5. BootInv
  BY DEF Repo!BankInit, BootInv
<1>6. Repo!OwnBank
  BY DEF Repo!BankInit, Repo!OwnBank, Repo!NoFrame
<1> QED BY <1>2, <1>3, <1>4, <1>5, <1>6, SMTT(60) DEF BankInv

\* Of a manifest's positions the loadable ones are listed.
LEMMA LoadableListed ==
    ASSUME NEW listed \in Seq(Positions), NEW readable
    PROVE  Repo!Loadable(listed, readable) \in Seq(Positions)
<1> DEFINE n == Len(listed)
           D == Seq(Positions)
           step == [i \in Nat |-> [found \in D |-> IF i \in 1 .. n /\ listed[i] \in readable THEN Append(found, listed[i]) ELSE found]]
           Rec(g) == g = [i \in 0 .. n |-> IF i = 0 THEN <<>>
                                           ELSE IF listed[i] \in readable THEN Append(g[i - 1], listed[i]) ELSE g[i - 1]]
           found == CHOOSE g : Rec(g)
<1>1. n \in Nat /\ \A i \in 1 .. n : listed[i] \in Positions
  OBVIOUS
<1>2. \A i \in Nat : \A y \in D : step[i][y] \in D
  BY <1>1
<1>3. \A i \in 1 .. n : \A y \in D : step[i][y] = IF listed[i] \in readable THEN Append(y, listed[i]) ELSE y
  BY <1>1
<1>4. <<>> \in D
  OBVIOUS
<1>5. Repo!Loadable(listed, readable) = found[n]
  BY DEF Repo!Loadable
<1> HIDE DEF n, step, D
<1>6. PICK f : Recurs(f, 0, n, D, <<>>, step)
  <2> DEFINE zero == 0
             start == <<>>
  <2>1. zero \in Nat /\ n \in Nat /\ zero <= n /\ start \in D
    BY <1>1, <1>4
  <2> HIDE DEF zero, start, Rec, found
  <2>2. \E f : Recurs(f, zero, n, D, start, step)
    BY <1>2, <2>1, RecursionDefines, Zenon
  <2> QED BY <2>2 DEF zero, start
<1>7. f \in [0 .. n -> D] /\ f[0] = <<>> /\ \A i \in 0 + 1 .. n : f[i] = step[i][f[i - 1]]
  BY <1>6 DEF Recurs
<1>8. Rec(f)
  <2>1. ASSUME NEW i \in 0 .. n, i # 0
        PROVE  f[i] = IF listed[i] \in readable THEN Append(f[i - 1], listed[i]) ELSE f[i - 1]
    <3>1. i \in 0 + 1 .. n /\ i \in 1 .. n /\ i - 1 \in 0 .. n
      BY <1>1, <2>1, SMTT(60)
    <3> QED BY <1>3, <1>7, <3>1
  <2> QED BY <1>7, <2>1
<1>9. Rec(found)
  BY <1>8
<1> HIDE DEF found
<1>10. \A i \in 0 .. n : found[i] \in D
  <2> DEFINE T == {i \in 0 .. n : found[i] \in D}
  <2>1. 0 \in T
    <3>1. 0 \in 0 .. n
      BY <1>1
    <3> QED BY <1>4, <1>9, <3>1
  <2>2. ASSUME NEW i \in 0 .. n, i + 1 <= n, i \in T PROVE i + 1 \in T
    <3>1. i + 1 \in 0 .. n /\ i + 1 \in 1 .. n /\ i + 1 # 0 /\ (i + 1) - 1 = i
      BY <1>1, <2>2
    <3>2. found[i + 1] = IF listed[i + 1] \in readable THEN Append(found[i], listed[i + 1]) ELSE found[i]
      BY <1>9, <3>1
    <3>3. listed[i + 1] \in Positions /\ found[i] \in Seq(Positions)
      BY <1>1, <2>2, <3>1 DEF D
    <3> DEFINE e == listed[i + 1]
               y == found[i]
    <3>4. Append(y, e) \in Seq(Positions)
      <4> HIDE DEF e, y
      <4>1. e \in Positions /\ y \in Seq(Positions)
        BY <3>3 DEF e, y
      <4> QED BY <4>1
    <3>5. found[i + 1] \in D
      BY <3>2, <3>3, <3>4 DEF D
    <3> QED BY <3>1, <3>5
  <2> HIDE DEF T
  <2>3. \A i \in 0 .. n : i \in T
    <3>1. 0 \in Nat
      OBVIOUS
    <3> QED BY <1>1, <2>1, <2>2, <3>1, StepByStep
  <2> QED BY <2>3 DEF T
<1> QED BY <1>1, <1>5, <1>10 DEF D

LEMMA FlattenedIs ==
    ASSUME NEW ss \in Seq(Seq(Int))
    PROVE  Repo!FlattenSeq(ss) \in Seq(Int)
<1> DEFINE n == Len(ss)
           D == Seq(Int)
           step == [i \in Nat |-> [y \in D |-> IF i \in 1 .. n THEN y \o ss[i] ELSE y]]
           Rec(g) == g = [i \in 1 .. n |-> IF i = 1 THEN ss[i] ELSE g[i - 1] \o ss[i]]
           joined == CHOOSE g : Rec(g)
<1>1. n \in Nat /\ \A i \in 1 .. n : ss[i] \in D
  OBVIOUS
<1>2. Repo!FlattenSeq(ss) = IF n = 0 THEN ss ELSE joined[n]
  BY DEF Repo!FlattenSeq
<1>3. n = 0 => ss = <<>> /\ <<>> \in D
  OBVIOUS
<1>4. SUFFICES ASSUME n # 0 PROVE joined[n] \in D
  BY <1>2, <1>3
<1>5. \A y, e \in D : y \o e \in D
  OBVIOUS
<1> HIDE DEF D, n
<1>6. \A i \in Nat : \A y \in D : step[i][y] \in D
  BY <1>1, <1>5
<1>7. \A i \in 1 .. n : \A y \in D : step[i][y] = y \o ss[i]
  BY <1>1, SMTT(60)
<1> HIDE DEF step
<1>8. 1 \in 1 .. n /\ 1 <= n /\ ss[1] \in D
  BY <1>1, <1>4
<1>9. PICK f : Recurs(f, 1, n, D, ss[1], step)
  <2> DEFINE one == 1
             start == ss[1]
  <2>1. one \in Nat /\ n \in Nat /\ one <= n /\ start \in D
    BY <1>1, <1>8
  <2> HIDE DEF one, start, Rec, joined
  <2>2. \E f : Recurs(f, one, n, D, start, step)
    BY <1>6, <2>1, RecursionDefines, Zenon
  <2> QED BY <2>2 DEF one, start
<1>10. f \in [1 .. n -> D] /\ f[1] = ss[1] /\ \A i \in 1 + 1 .. n : f[i] = step[i][f[i - 1]]
  BY <1>9 DEF Recurs
<1>11. Rec(f)
  <2>1. ASSUME NEW i \in 1 .. n, i # 1 PROVE f[i] = f[i - 1] \o ss[i]
    <3>1. i \in 1 + 1 .. n /\ i - 1 \in 1 .. n
      BY <1>1, <2>1
    <3> QED BY <1>7, <1>10, <3>1
  <2> QED BY <1>10, <2>1
<1>12. Rec(joined)
  BY <1>11
<1> HIDE DEF joined
<1>13. \A i \in 1 .. n : joined[i] \in D
  <2> DEFINE T == {i \in 1 .. n : joined[i] \in D}
  <2>1. 1 \in T
    BY <1>8, <1>12
  <2>2. ASSUME NEW i \in 1 .. n, i + 1 <= n, i \in T PROVE i + 1 \in T
    <3>1. i + 1 \in 1 .. n /\ i + 1 # 1 /\ (i + 1) - 1 = i
      BY <1>1, <2>2, SMTT(60)
    <3>2. joined[i + 1] = joined[i] \o ss[i + 1]
      BY <1>12, <3>1
    <3> QED BY <1>1, <1>5, <2>2, <3>1, <3>2
  <2> HIDE DEF T
  <2>3. \A i \in 1 .. n : i \in T
    <3>1. 1 \in Nat
      OBVIOUS
    <3> QED BY <1>1, <2>1, <2>2, <3>1, StepByStep
  <2> QED BY <2>3 DEF T
<1> QED BY <1>1, <1>8, <1>13

\* What is extracted from images is a sequence of patches for each position.
LEMMA GroupedIs ==
    ASSUME BankAssumption, NEW ds \in Datasets, NEW ok
    PROVE  Repo!GroupByPosition(ds, ok) \in [Positions -> Seq(Int)]
<1>1. ds \in Seq(Images)
  BY DEF BankAssumption
<1>2. ASSUME NEW i \in DOMAIN ds PROVE Repo!Extracted(ds[i]) \in Seq(Int)
  <2>1. ds[i] \in Images
    BY <1>1
  <2> DEFINE emb == ds[i].emb
  <2>2. emb \in Seq(Int)
    BY <2>1 DEF BankAssumption
  <2> HIDE DEF emb
  <2>3. [j \in DOMAIN emb |-> Repo!Misread] \in Seq(Int)
    BY <2>2 DEF Repo!Misread
  <2>4. Repo!Extracted(ds[i]) \in {emb, [j \in DOMAIN emb |-> Repo!Misread]}
    BY DEF Repo!Extracted, emb
  <2> QED BY <2>2, <2>3, <2>4, SMTT(60)
<1>3. ASSUME NEW p \in Positions
      PROVE  Repo!FlattenSeq([i \in DOMAIN ds |-> IF i \in ok /\ ds[i].pos = p THEN Repo!Extracted(ds[i]) ELSE <<>>]) \in Seq(Int)
  <2> DEFINE ss == [i \in DOMAIN ds |-> IF i \in ok /\ ds[i].pos = p THEN Repo!Extracted(ds[i]) ELSE <<>>]
             E == Seq(Int)
  <2>1. <<>> \in E /\ \A i \in DOMAIN ds : Repo!Extracted(ds[i]) \in E
    BY <1>2
  <2> HIDE DEF E
  <2>2. ss \in Seq(E)
    <3>1. DOMAIN ds = 1 .. Len(ds) /\ Len(ds) \in Nat
      BY <1>1
    <3> QED BY <2>1, <3>1
  <2> HIDE DEF ss
  <2>3. Repo!FlattenSeq(ss) \in Seq(Int)
    BY <2>2, FlattenedIs DEF E
  <2> QED BY <2>3 DEF ss
<1> QED BY <1>3 DEF Repo!GroupByPosition

\* A frame's patches that a bootstrap keeps are patches of the frame.
LEMMA SampledIs ==
    ASSUME AppInv, NEW emb \in Seq(Int), emb = <<>> \/ Repo!PerFrame # 0
    PROVE  Repo!Sampled(emb) \in Seq(Int)
<1> DEFINE n == Len(emb)
           per == Repo!PerFrame
           stride == IF n > per THEN n \div per ELSE 1
           count == (n + stride - 1) \div stride
<1>1. n \in Nat /\ DOMAIN emb = 1 .. n /\ (\A i \in 1 .. n : emb[i] \in Int) /\ (emb = <<>> => n = 0)
  OBVIOUS
<1>2. per \in Nat
  <2>1. app.boot.min \in Nat \ {0} /\ app.boot.target \in Nat \ {0}
    BY DEF AppInv
  <2>2. \A a, b \in Nat : b # 0 => a \div b \in Nat
    OBVIOUS
  <2> QED BY <2>1, <2>2 DEF Repo!PerFrame
<1>3. Repo!Sampled(emb) = [i \in 1 .. count |-> emb[(i - 1) * stride + 1]]
  BY DEF Repo!Sampled
<1> HIDE DEF n, per
<1>4. stride \in Nat /\ stride >= 1
  <2>1. CASE n > per
    <3>1. per # 0
      BY <1>1, <1>2, <2>1 DEF per
    <3>2. \A a, b \in Nat : b # 0 /\ a > b => a \div b \in Nat /\ a \div b >= 1
      OBVIOUS
    <3> QED BY <1>1, <1>2, <2>1, <3>1, <3>2
  <2>2. CASE ~(n > per)
    BY <2>2
  <2> QED BY <2>1, <2>2
<1> HIDE DEF stride
<1>5. count \in Nat /\ count * stride <= n + stride - 1
  <2> DEFINE a == n + stride - 1
  <2>1. a \in Nat
    BY <1>1, <1>4
  <2> HIDE DEF a
  <2>2. a \div stride \in Nat /\ (a \div stride) * stride <= a
    BY <1>4, <2>1
  <2> QED BY <2>2 DEF a
<1> HIDE DEF count
<1>6. ASSUME NEW i \in 1 .. count PROVE (i - 1) * stride + 1 \in 1 .. n
  <2>1. (i - 1) * stride \in Nat
    BY <1>4, <1>5
  <2>2. (count - i) * stride >= 0 /\ (count - i) * stride \in Int
    BY <1>4, <1>5
  <2>3. count * stride = (count - i) * stride + (i - 1) * stride + stride
    BY <1>4, <1>5
  <2> DEFINE p == (i - 1) * stride
             q == (count - i) * stride
             r == count * stride
  <2>4. p \in Nat /\ q \in Int /\ q >= 0 /\ r = q + p + stride /\ r <= n + stride - 1
    BY <1>5, <2>1, <2>2, <2>3, SMTT(60)
  <2> HIDE DEF p, q, r
  <2>5. p + 1 \in 1 .. n
    BY <1>1, <1>4, <2>4
  <2> QED BY <2>5 DEF p
<1>7. \A i \in 1 .. count : emb[(i - 1) * stride + 1] \in Int
  BY <1>1, <1>6
<1>8. [i \in 1 .. count |-> emb[(i - 1) * stride + 1]] \in Seq(Int)
  BY <1>5, <1>7
<1> QED BY <1>3, <1>8

-----------------------------------------------------------------------------
(* The steps of the builder and of the application.                         *)

\* A bank that has patches was made of patches.
LEMMA BuiltIsMade ==
    ASSUME NEW key, NEW all \in Seq(Int), NEW algo, NEW max \in Nat \ {0}, Repo!BuildBank(key, all, algo, max).has # <<>>
    PROVE  Made(Repo!BuildBank(key, all, algo, max)) /\ Repo!BuildBank(key, all, algo, max).key = key
<1> DEFINE has == IF algo = "greedy" THEN Repo!Greedy(all, max) ELSE Repo!Uniform(all, max)
           b == Repo!BuildBank(key, all, algo, max)
<1>1. b = [has |-> IF all = <<>> THEN <<>> ELSE has, all |-> all, algo |-> algo, key |-> key, max |-> max, grid |-> TRUE]
  BY DEF Repo!BuildBank
<1>2. all # <<>>
  BY <1>1
<1>3. b.has = has /\ b.all = all /\ b.algo = algo /\ b.key = key /\ b.max = max
  BY <1>1, <1>2
<1> HIDE DEF b
<1>4. Made(b)
  BY <1>2, <1>3, SMTT(60) DEF Made
<1> QED BY <1>3, <1>4 DEF b

LEMMA BuildStep ==
    ASSUME BankAssumption, BankInv, NEW s \in Surfaces, NEW ds \in Datasets, NEW algo, Repo!BuildCoreset(s, ds, algo)
    PROVE  BankInv'
<1>1. PICK ok \in SUBSET DOMAIN ds :
        job' = [surface |-> s, algo |-> algo, embs |-> Repo!GroupByPosition(ds, ok), todo |-> {ds[i].pos : i \in ok}, done |-> <<>>]
  BY DEF Repo!BuildCoreset
<1>2. JobInv'
  <2>1. Repo!GroupByPosition(ds, ok) \in [Positions -> Seq(Int)]
    BY GroupedIs
  <2>2. \A i \in ok : ds[i].pos \in Positions
    BY DEF BankAssumption
  <2>3. <<>> \in Seq(Positions)
    OBVIOUS
  <2> QED BY <1>1, <2>1, <2>2, <2>3, SMTT(60) DEF JobInv
<1> QED BY <1>2 DEF Repo!BuildCoreset, BankInv, DiskInv, AppInv, BootInv, Repo!OwnBank

LEMMA SaveBankStep ==
    ASSUME BankAssumption, BankInv, Repo!SaveBank
    PROVE  BankInv'
<1> DEFINE p == Repo!Min(job.todo)
           bank == Repo!BuildBank(<<job.surface, p>>, job.embs[p], job.algo, MaxSamples)
<1>1. p \in Positions /\ job # Repo!NoJob
  <2>1. job.todo \in SUBSET Nat /\ job.todo \in SUBSET Positions /\ job.todo # {}
    BY DEF BankInv, JobInv, BankAssumption, Repo!SaveBank
  <2> QED BY <2>1, LeastIs DEF Repo!NoJob
<1> HIDE DEF p
<1>2. CASE /\ bank.has # <<>>
           /\ dirs' = [dirs EXCEPT !.banks[p] = bank]
           /\ job' = [job EXCEPT !.todo = @ \ {p}, !.done = Append(@, p)]
  <2>1. job.surface \in Surfaces /\ job.embs[p] \in Seq(Int)
    BY <1>1 DEF BankInv, JobInv
  <2>2. Made(bank) /\ bank.key = <<job.surface, p>>
    BY <1>2, <2>1, BuiltIsMade DEF BankAssumption
  <2>3. Kept(bank, Surfaces \X {p})
    BY <2>1, <2>2 DEF Kept
  <2> HIDE DEF bank
  <2>4. DiskInv'
    <3>1. DiskInv
      BY DEF BankInv
    <3>2. /\ DOMAIN dirs' = {"banks", "manifests"} /\ dirs'.manifests = dirs.manifests
          /\ dirs'.banks = [dirs.banks EXCEPT ![p] = bank]
      BY <1>2, <3>1 DEF DiskInv
    <3>3. /\ DOMAIN dirs'.banks = Positions
          /\ \A q \in Positions : dirs'.banks[q] = IF q = p THEN bank ELSE dirs.banks[q]
      BY <3>1, <3>2 DEF DiskInv
    <3> QED BY <2>3, <3>1, <3>2, <3>3 DEF DiskInv
  <2>5. JobInv'
    <3>1. JobInv
      BY DEF BankInv
    <3>2. /\ DOMAIN job' = DOMAIN job /\ job'.embs = job.embs /\ job'.surface = job.surface
          /\ job'.todo = job.todo \ {p} /\ job'.done = Append(job.done, p)
      BY <1>2, <3>1 DEF JobInv
    <3> DEFINE done == job.done
    <3>3. done \in Seq(Positions)
      BY <3>1 DEF JobInv
    <3> HIDE DEF done
    <3>4. Append(done, p) \in Seq(Positions)
      BY <1>1, <3>3
    <3> QED BY <2>1, <3>1, <3>2, <3>4 DEF JobInv, done
  <2> QED BY <2>4, <2>5 DEF Repo!SaveBank, BankInv, AppInv, BootInv, Repo!OwnBank
<1>3. CASE job' = Repo!NoJob /\ UNCHANGED dirs
  <2>1. JobInv'
    <3>1. <<>> \in Seq(Positions) /\ <<>> \in Seq(Int)
      OBVIOUS
    <3> QED BY <1>3, <3>1 DEF JobInv, Repo!NoJob
  <2> QED BY <1>3, <2>1 DEF Repo!SaveBank, BankInv, DiskInv, AppInv, BootInv, Repo!OwnBank
<1> QED BY <1>2, <1>3 DEF Repo!SaveBank, p

LEMMA ManifestStep ==
    ASSUME BankAssumption, BankInv, Repo!SaveCoresetManifest
    PROVE  BankInv'
<1>1. job # Repo!NoJob /\ job' = Repo!NoJob /\ dirs' \in {dirs, [dirs EXCEPT !.manifests[job.surface] = job.done]}
  BY DEF Repo!SaveCoresetManifest
<1>2. job.surface \in Surfaces /\ job.done \in Seq(Positions) /\ DiskInv
  BY <1>1 DEF BankInv, JobInv
<1>3. DiskInv'
  <2>1. CASE dirs' = dirs
    BY <1>2, <2>1 DEF DiskInv
  <2>2. CASE dirs' = [dirs EXCEPT !.manifests[job.surface] = job.done]
    <3>1. /\ DOMAIN dirs' = {"banks", "manifests"} /\ dirs'.banks = dirs.banks
          /\ dirs'.manifests = [dirs.manifests EXCEPT ![job.surface] = job.done]
      BY <1>2, <2>2 DEF DiskInv
    <3>2. /\ DOMAIN dirs'.manifests = Surfaces
          /\ \A s \in Surfaces : dirs'.manifests[s] \in Seq(Positions)
      BY <1>2, <3>1 DEF DiskInv
    <3> QED BY <1>2, <3>1, <3>2 DEF DiskInv
  <2> QED BY <1>1, <2>1, <2>2, SMTT(60)
<1>4. JobInv'
  <2>1. <<>> \in Seq(Positions) /\ <<>> \in Seq(Int)
    OBVIOUS
  <2> QED BY <1>1, <2>1 DEF JobInv, Repo!NoJob
<1> QED BY <1>3, <1>4 DEF Repo!SaveCoresetManifest, BankInv, AppInv, BootInv, Repo!OwnBank

\* What AssembleApplication finds: pipelines in a row, each with a bank under its own key.
FoundOK(found) == /\ \E n \in Nat : DOMAIN found = 1 .. n
                  /\ \A i \in DOMAIN found : Kept(found[i].bank, {found[i].key})

LEMMA AssembleStep ==
    ASSUME BankAssumption, BankInv, NEW found, FoundOK(found), found = <<>> \/ 1 \in DOMAIN found,
           Repo!AssembleApplication(found)
    PROVE  BankInv'
<1>1. \/ \E b \in Bootstraps : app' = [phase |-> "up", positions |-> Repo!Wire(found), boot |-> b]
      \/ UNCHANGED app /\ app.phase = "down"
  BY DEF Repo!AssembleApplication
<1>2. AppInv'
  <2>1. CASE UNCHANGED app
    BY <2>1 DEF BankInv, AppInv
  <2>2. ASSUME NEW b \in Bootstraps, app' = [phase |-> "up", positions |-> Repo!Wire(found), boot |-> b] PROVE AppInv'
    <3>1. b.min \in Nat \ {0} /\ b.target \in Nat \ {0}
      BY DEF BankAssumption
    <3>2. /\ DOMAIN Repo!Wire(found) \subseteq Nat /\ 1 \in DOMAIN Repo!Wire(found)
          /\ \A i \in DOMAIN Repo!Wire(found) : Kept(Repo!Wire(found)[i].bank, {Repo!Wire(found)[i].key})
      <4>1. CASE found # <<>>
        <5>1. Repo!Wire(found) = found
          BY <4>1 DEF Repo!Wire
        <5>2. PICK n \in Nat : DOMAIN found = 1 .. n
          BY DEF FoundOK
        <5>3. DOMAIN found \subseteq Nat /\ 1 \in DOMAIN found
          BY <4>1, <5>2
        <5>4. \A i \in DOMAIN found : Kept(found[i].bank, {found[i].key})
          BY DEF FoundOK
        <5> QED BY <5>1, <5>3, <5>4
      <4>2. CASE found = <<>>
        <5>1. Repo!Wire(found) = <<[key |-> <<"default", 0>>, bank |-> Repo!NoBank]>>
          BY <4>2 DEF Repo!Wire
        <5> QED BY <5>1 DEF Kept
      <4> QED BY <4>1, <4>2
    <3> QED BY <2>2, <3>1, <3>2 DEF AppInv
  <2> QED BY <1>1, <2>1, <2>2
<1>3. BootInv'
  <2>1. boots' = [i \in DOMAIN app'.positions |-> [k \in Repo!Keys |-> [vectors |-> <<>>, frames |-> 0, bank |-> Repo!NoBank]]]
    BY DEF Repo!AssembleApplication
  <2>2. <<>> \in Seq(Int)
    OBVIOUS
  <2> QED BY <2>1, <2>2 DEF BootInv, Kept
<1>4. Repo!OwnBank'
  BY DEF Repo!AssembleApplication, Repo!OwnBank, Repo!NoFrame
<1> QED BY <1>2, <1>3, <1>4 DEF Repo!AssembleApplication, BankInv, DiskInv, JobInv

LEMMA LoadStep ==
    ASSUME BankAssumption, BankInv, NEW s \in Surfaces, Repo!Manifest(s)
    PROVE  BankInv'
<1>1. PICK readable \in Repo!LoadFromFile : Repo!AssembleApplication(Repo!LoadBanks(s, readable))
  BY DEF Repo!Manifest
<1> DEFINE listed == Repo!Loadable(dirs.manifests[s], readable)
           found == Repo!LoadBanks(s, readable)
<1>2. listed \in Seq(Positions)
  BY LoadableListed DEF BankInv, DiskInv
<1>3. found = [i \in DOMAIN listed |-> [key |-> <<s, listed[i]>>, bank |-> dirs.banks[listed[i]]]]
  BY DEF Repo!LoadBanks, Repo!LoadCoresetManifest
<1> HIDE DEF listed, found
<1>4. PICK n \in Nat : DOMAIN found = 1 .. n
  BY <1>2, <1>3
<1>5. ASSUME NEW i \in DOMAIN found PROVE Kept(found[i].bank, {found[i].key})
  <2>1. listed[i] \in Positions /\ found[i].bank = dirs.banks[listed[i]] /\ found[i].key = <<s, listed[i]>>
    BY <1>2, <1>3
  <2>2. Kept(dirs.banks[listed[i]], Surfaces \X {listed[i]})
    BY <2>1 DEF BankInv, DiskInv
  <2>3. \A t \in Surfaces : t = s
    BY DEF BankAssumption
  <2>4. Surfaces \X {listed[i]} \subseteq {<<s, listed[i]>>}
    BY <2>3, SMTT(60)
  <2> QED BY <2>1, <2>2, <2>4 DEF Kept
<1>6. found = <<>> \/ 1 \in DOMAIN found
  <2>1. CASE n = 0
    <3>1. DOMAIN found = {}
      BY <1>4, <2>1
    <3>2. DOMAIN listed = {}
      BY <1>3, <3>1
    <3> QED BY <1>3, <3>2
  <2>2. CASE n # 0
    BY <1>4, <2>2
  <2> QED BY <2>1, <2>2
<1>7. FoundOK(found)
  BY <1>4, <1>5 DEF FoundOK
<1> QED BY <1>1, <1>6, <1>7, AssembleStep, SMTT(60) DEF found

LEMMA SingleStep ==
    ASSUME BankAssumption, BankInv, NEW p \in Positions, Repo!Single(p)
    PROVE  BankInv'
<1> DEFINE found == <<>>
<1>1. DOMAIN found = 1 .. 0
  OBVIOUS
<1>2. 0 \in Nat
  OBVIOUS
<1>3. FoundOK(found)
  BY <1>1, <1>2 DEF FoundOK
<1>4. found = <<>> /\ Repo!AssembleApplication(found)
  BY DEF Repo!Single
<1> HIDE DEF found
<1> QED BY <1>3, <1>4, AssembleStep

\* The pipeline FindPosition answers with is one of the application's.
LEMMA FoundPosition ==
    ASSUME BankInv, app.phase = "up", NEW key
    PROVE  Repo!FindPosition(key) \in DOMAIN app.positions
<1> DEFINE own == {i \in DOMAIN app.positions : app.positions[i].key = key}
<1>1. own \in SUBSET Nat /\ 1 \in DOMAIN app.positions
  BY DEF BankInv, AppInv
<1>2. own # {} => Repo!Min(own) \in own
  BY <1>1, LeastIs, SMTT(60)
<1> QED BY <1>1, <1>2 DEF Repo!FindPosition

LEMMA ImagesStep ==
    ASSUME BankAssumption, BankInv, NEW key \in Repo!Keys, NEW emb \in Embeddings,
           Repo!DetectWithBank(key, emb) \/ Repo!DetectWithNothing(key, emb)
    PROVE  BankInv'
<1> DEFINE i == Repo!FindPosition(key)
<1>1. app.phase = "up" /\ UNCHANGED <<dirs, job, app, boots>>
  BY DEF Repo!DetectWithBank, Repo!DetectWithNothing, Repo!Frame
<1>2. i \in DOMAIN app.positions /\ DOMAIN boots = DOMAIN app.positions
  BY <1>1, FoundPosition DEF BankInv, BootInv
<1>3. \A bank, keys : Kept(bank, keys) /\ bank # Repo!NoBank => bank.key \in keys
  BY DEF Kept
<1>4. ASSUME NEW bank, Repo!Detected(key, emb, bank), bank = Repo!NoBank \/ bank.key = key PROVE Repo!OwnBank'
  BY <1>4 DEF Repo!Detected, Repo!OwnBank
<1>5. Repo!OwnBank'
  <2>1. CASE Repo!DetectWithNothing(key, emb)
    BY <1>4, <2>1, SMTT(60) DEF Repo!DetectWithNothing
  <2>2. CASE app.positions[i].key = key /\ Repo!Detected(key, emb, app.positions[i].bank)
    <3>1. Kept(app.positions[i].bank, {app.positions[i].key})
      BY <1>2, SMTT(60) DEF BankInv, AppInv
    <3> QED BY <1>3, <1>4, <2>2, <3>1
  <2>3. CASE boots[i][key].bank # Repo!NoBank /\ Repo!Detected(key, emb, boots[i][key].bank)
    <3>1. Kept(boots[i][key].bank, {key})
      BY <1>2 DEF BankInv, BootInv
    <3> QED BY <1>3, <1>4, <2>3, <3>1
  <2> QED BY <2>1, <2>2, <2>3, SMTT(60) DEF Repo!DetectWithBank
<1> QED BY <1>1, <1>5 DEF BankInv, DiskInv, JobInv, AppInv, BootInv

LEMMA BootstrapStep ==
    ASSUME BankAssumption, BankInv, NEW key \in Repo!Keys, NEW emb \in Embeddings, Repo!Bootstrap(key, emb)
    PROVE  BankInv'
<1> DEFINE i == Repo!FindPosition(key)
           b == boots[i][key]
           more == [b EXCEPT !.vectors = @ \o Repo!Sampled(emb), !.frames = @ + 1]
           enough == b.frames + 1 >= app.boot.min
           unsafe == (emb # <<>> /\ Repo!PerFrame = 0 /\ Len(emb) > 0) \/ (emb = <<>> /\ enough)
           new == IF enough THEN Repo!Complete(more, key) ELSE more
<1>1. app.phase = "up" /\ UNCHANGED <<dirs, job>> /\ Repo!Detected(key, emb, Repo!NoBank)
  BY DEF Repo!Bootstrap, Repo!Frame
<1>2. i \in DOMAIN boots /\ DOMAIN boots = DOMAIN app.positions /\ i \in DOMAIN app.positions
  BY <1>1, FoundPosition DEF BankInv, BootInv
<1>3. DOMAIN b = {"vectors", "frames", "bank"} /\ b.vectors \in Seq(Int) /\ Kept(b.bank, {key})
  BY <1>2 DEF BankInv, BootInv
<1>4. Repo!OwnBank'
  BY <1>1 DEF Repo!Detected, Repo!OwnBank
<1>5. emb \in Seq(Int)
  BY DEF BankAssumption
<1> HIDE DEF i
<1>6. \/ unsafe /\ app' = [app EXCEPT !.phase = "crashed"] /\ UNCHANGED boots
      \/ ~unsafe /\ boots' = [boots EXCEPT ![i][key] = new] /\ UNCHANGED app
  BY DEF Repo!Bootstrap, i
<1>7. CASE unsafe /\ app' = [app EXCEPT !.phase = "crashed"] /\ UNCHANGED boots
  <2>1. DOMAIN app' = DOMAIN app /\ app'.positions = app.positions /\ app'.boot = app.boot /\ app'.phase = "crashed"
    BY <1>7 DEF BankInv, AppInv
  <2>2. AppInv' /\ BootInv'
    BY <1>7, <2>1 DEF BankInv, AppInv, BootInv
  <2> QED BY <1>1, <1>4, <2>2 DEF BankInv, DiskInv, JobInv
<1>8. CASE ~unsafe /\ boots' = [boots EXCEPT ![i][key] = new] /\ UNCHANGED app
  <2>1. Repo!Sampled(emb) \in Seq(Int)
    <3>1. emb # <<>> => Len(emb) > 0
      BY <1>5
    <3> QED BY <1>5, <1>8, <3>1, SampledIs DEF BankInv
  <2> DEFINE v == b.vectors
             w == Repo!Sampled(emb)
  <2>2. v \o w \in Seq(Int)
    <3>1. v \in Seq(Int) /\ w \in Seq(Int)
      BY <1>3, <2>1
    <3> HIDE DEF v, w
    <3> QED BY <3>1
  <2> HIDE DEF b
  <2>3. DOMAIN more = {"vectors", "frames", "bank"} /\ more.vectors = v \o w /\ more.bank = b.bank
    BY <1>3
  <2> HIDE DEF v, w, more, enough
  <2>4. DOMAIN new = {"vectors", "frames", "bank"} /\ new.vectors \in Seq(Int) /\ Kept(new.bank, {key})
    <3>1. CASE ~enough
      BY <1>3, <2>2, <2>3, <3>1
    <3>2. CASE enough
      <4> DEFINE all == more.vectors
                 bank == Repo!BuildBank(key, all, "greedy", app.boot.target)
                 done == [bank EXCEPT !.grid = FALSE]
      <4>1. new = [vectors |-> <<>>, frames |-> 0, bank |-> IF all = <<>> THEN Repo!NoBank ELSE done]
        BY <3>2 DEF Repo!Complete
      <4>2. all \in Seq(Int) /\ app.boot.target \in Nat \ {0}
        BY <2>2, <2>3 DEF BankInv, AppInv
      <4>3. ASSUME all # <<>> PROVE Kept(done, {key})
        <5>1. bank = [has |-> Repo!Greedy(all, app.boot.target), all |-> all, algo |-> "greedy", key |-> key, max |-> app.boot.target, grid |-> TRUE]
          BY <4>3 DEF Repo!BuildBank
        <5>2. /\ done.has = Repo!Greedy(all, app.boot.target) /\ done.all = all /\ done.algo = "greedy"
              /\ done.key = key /\ done.max = app.boot.target
          BY <5>1
        <5> HIDE DEF done
        <5>3. Made(done)
          BY <4>2, <4>3, <5>2 DEF Made
        <5> QED BY <5>2, <5>3 DEF Kept
      <4> HIDE DEF all, done, new
      <4>4. <<>> \in Seq(Int) /\ Kept(Repo!NoBank, {key})
        BY DEF Kept
      <4>5. /\ DOMAIN new = {"vectors", "frames", "bank"} /\ new.vectors = <<>>
            /\ new.bank = IF all = <<>> THEN Repo!NoBank ELSE done
        BY <4>1
      <4> QED BY <4>3, <4>4, <4>5, SMTT(60)
    <3> QED BY <3>1, <3>2
  <2> HIDE DEF new
  <2>5. BootInv'
    <3>1. BootInv
      BY DEF BankInv
    <3>2. /\ DOMAIN boots' = DOMAIN boots
          /\ \A j \in DOMAIN boots : boots'[j] = IF j = i THEN [boots[i] EXCEPT ![key] = new] ELSE boots[j]
      BY <1>8
    <3>3. /\ DOMAIN boots'[i] = Repo!Keys
          /\ \A k \in Repo!Keys : boots'[i][k] = IF k = key THEN new ELSE boots[i][k]
      BY <1>2, <3>1, <3>2, SMTT(60) DEF BootInv
    <3>4. ASSUME NEW j \in DOMAIN boots
          PROVE  /\ DOMAIN boots'[j] = Repo!Keys
                 /\ \A k \in Repo!Keys : /\ DOMAIN boots'[j][k] = {"vectors", "frames", "bank"}
                                         /\ boots'[j][k].vectors \in Seq(Int) /\ Kept(boots'[j][k].bank, {k})
      <4>1. CASE j = i
        <5>1. \A k \in Repo!Keys : /\ DOMAIN boots[i][k] = {"vectors", "frames", "bank"}
                                   /\ boots[i][k].vectors \in Seq(Int) /\ Kept(boots[i][k].bank, {k})
          BY <1>2, <3>1 DEF BootInv
        <5>2. ASSUME NEW k \in Repo!Keys
              PROVE  /\ DOMAIN boots'[i][k] = {"vectors", "frames", "bank"}
                     /\ boots'[i][k].vectors \in Seq(Int) /\ Kept(boots'[i][k].bank, {k})
          <6>1. CASE k = key
            BY <2>4, <3>3, <6>1
          <6>2. CASE k # key
            BY <3>3, <5>1, <6>2
          <6> QED BY <6>1, <6>2
        <5> QED BY <3>3, <4>1, <5>2
      <4>2. CASE j # i
        BY <3>1, <3>2, <4>2, ZenonT(60) DEF BootInv
      <4> QED BY <4>1, <4>2
    <3> QED BY <1>2, <1>8, <3>2, <3>4 DEF BootInv
  <2> QED BY <1>1, <1>4, <1>8, <2>5 DEF BankInv, DiskInv, JobInv, AppInv
<1> QED BY <1>6, <1>7, <1>8

LEMMA ExitStep ==
    ASSUME BankInv, Repo!Exit
    PROVE  BankInv'
<1>1. app' = [app EXCEPT !.phase = "down", !.positions = <<>>] /\ boots' = <<>> /\ last' = Repo!NoFrame
  BY DEF Repo!Exit
<1>2. DOMAIN app' = {"phase", "positions", "boot"} /\ app'.phase = "down" /\ app'.positions = <<>> /\ app'.boot = app.boot
  BY <1>1 DEF BankInv, AppInv
<1>3. AppInv' /\ BootInv' /\ Repo!OwnBank'
  BY <1>1, <1>2 DEF BankInv, AppInv, BootInv, Repo!OwnBank, Repo!NoFrame
<1> QED BY <1>3 DEF Repo!Exit, BankInv, DiskInv, JobInv

LEMMA BankInvHolds ==
    ASSUME BankAssumption
    PROVE  Repo!BankSpec => []BankInv
<1>1. Repo!BankInit => BankInv
  BY BankCoversInit
<1>2. BankInv /\ [Repo!BankNext]_(Repo!bankVars) => BankInv'
  <2>1. SUFFICES ASSUME BankInv, [Repo!BankNext]_(Repo!bankVars) PROVE BankInv'
    OBVIOUS
  <2>2. CASE UNCHANGED Repo!bankVars
    BY <2>1, <2>2 DEF Repo!bankVars, BankInv, DiskInv, JobInv, AppInv, BootInv, Repo!OwnBank
  <2>3. CASE \E s \in Surfaces, ds \in Datasets, algo \in {"greedy", "uniform"} : Repo!BuildCoreset(s, ds, algo)
    BY <2>1, <2>3, BuildStep
  <2>4. CASE Repo!SaveBank
    BY <2>1, <2>4, SaveBankStep
  <2>5. CASE Repo!SaveCoresetManifest
    BY <2>1, <2>5, ManifestStep
  <2>6. CASE Repo!Exit
    BY <2>1, <2>6, ExitStep
  <2>7. CASE \E p \in Positions : Repo!Single(p)
    BY <2>1, <2>7, SingleStep, SMTT(60)
  <2>8. CASE \E s \in Surfaces : Repo!Manifest(s)
    BY <2>1, <2>8, LoadStep, SMTT(60)
  <2>9. CASE \E key \in Repo!Keys, emb \in Embeddings :
               Repo!DetectWithBank(key, emb) \/ Repo!DetectWithNothing(key, emb) \/ Repo!Bootstrap(key, emb)
    BY <2>1, <2>9, ImagesStep, BootstrapStep
  <2> QED BY <2>1, <2>2, <2>3, <2>4, <2>5, <2>6, <2>7, <2>8, <2>9 DEF Repo!BankNext
<1> QED BY <1>1, <1>2, PTL DEF Repo!BankSpec

\* A bank (feature_bank.cpp:152-345) has as many patches as it may, all of its own
\* key's images, and reaches each of these within twice the distance of the best
\* bank of its size when the sampling is greedy; a frame (detect_stage.cpp:36-119)
\* is compared with the bank of its own surface and position.  For datasets of any
\* size, any patches and limits, any number of positions, builds and frames, with
\* the failures of the builder and unreadable files, in a directory of one surface.
THEOREM BanksCoverAndServe == ASSUME BankAssumption PROVE Repo!BankSpec => [](Repo!BankCovers /\ Repo!OwnBank)
<1>1. BankInv => Repo!BankCovers /\ Repo!OwnBank
  BY MadeCovers DEF BankInv
<1> QED BY <1>1, BankInvHolds, PTL
=============================================================================
