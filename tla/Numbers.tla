------------------------------ MODULE Numbers -------------------------------
(***************************************************************************)
(* Lemmas about numbers and sequences that the proofs share.  Induction over*)
(* numbers is a property of sets of numbers: one with 0, and with the next *)
(* of each of its members, is all of them.                                 *)
(***************************************************************************)
EXTENDS Integers, Sequences, SequencesExt, SequenceTheorems, WellFoundedInduction, TLAPS

-----------------------------------------------------------------------------
(* Sequences                                                                *)

\* Tail loses nothing but the head.
LEMMA HeadAndTail ==
    ASSUME NEW S, NEW s \in Seq(S), s # <<>>
    PROVE  /\ Tail(s) \in Seq(S) /\ Head(s) \in S /\ Head(s) \in ToSet(s)
           /\ \A n \in ToSet(s) : n = Head(s) \/ n \in ToSet(Tail(s))
           /\ ToSet(Tail(s)) \subseteq ToSet(s)
<1>1. Tail(s) \in Seq(S) /\ Head(s) \in S /\ Len(Tail(s)) = Len(s) - 1 /\ Head(s) = s[1] /\ Len(s) > 0
      /\ \A i \in 1 .. Len(s) - 1 : Tail(s)[i] = s[i + 1]
  OBVIOUS
<1>2. Head(s) \in ToSet(s)
  BY <1>1 DEF ToSet
<1>3. ASSUME NEW n \in ToSet(s), n # Head(s) PROVE n \in ToSet(Tail(s))
  <2>1. PICK i \in 1 .. Len(s) : s[i] = n
    BY <1>3 DEF ToSet
  <2>2. i # 1 /\ i - 1 \in 1 .. Len(Tail(s)) /\ Tail(s)[i - 1] = n
    BY <1>1, <1>3, <2>1
  <2>3. DOMAIN Tail(s) = 1 .. Len(Tail(s))
    BY <1>1
  <2> QED BY <2>2, <2>3 DEF ToSet
<1>4. ToSet(Tail(s)) \subseteq ToSet(s)
  <2>1. DOMAIN Tail(s) = 1 .. Len(s) - 1 /\ DOMAIN s = 1 .. Len(s) /\ Len(s) \in Nat
    BY <1>1
  <2> QED BY <1>1, <2>1 DEF ToSet
<1> QED BY <1>1, <1>2, <1>3, <1>4

\* Append adds its element and no other.
LEMMA AppendSet ==
    ASSUME NEW S, NEW s \in Seq(S), NEW x \in S
    PROVE  /\ Append(s, x) \in Seq(S) /\ Len(Append(s, x)) = Len(s) + 1
           /\ ToSet(Append(s, x)) = ToSet(s) \cup {x}
           /\ \A i \in 1 .. Len(s) : Append(s, x)[i] = s[i]
           /\ Append(s, x)[Len(s) + 1] = x
<1>1. /\ Append(s, x) \in Seq(S) /\ Len(Append(s, x)) = Len(s) + 1
      /\ \A i \in 1 .. Len(s) : Append(s, x)[i] = s[i]
      /\ Append(s, x)[Len(s) + 1] = x
      /\ DOMAIN s = 1 .. Len(s) /\ DOMAIN Append(s, x) = 1 .. Len(s) + 1 /\ Len(s) \in Nat
  OBVIOUS
<1>2. ToSet(Append(s, x)) = ToSet(s) \cup {x}
  <2>1. ASSUME NEW y \in ToSet(Append(s, x)) PROVE y \in ToSet(s) \cup {x}
    BY <1>1, <2>1 DEF ToSet
  <2>2. ASSUME NEW y \in ToSet(s) \cup {x} PROVE y \in ToSet(Append(s, x))
    <3>1. CASE y \in ToSet(s)
      BY <1>1, <3>1 DEF ToSet
    <3>2. CASE y = x
      BY <1>1, <3>2 DEF ToSet
    <3> QED BY <3>1, <3>2
  <2> QED BY <2>1, <2>2
<1> QED BY <1>1, <1>2

\* A concatenation's entries, those of the first sequence and then of the second.
LEMMA ConcatEntries ==
    ASSUME NEW S, NEW s \in Seq(S), NEW t \in Seq(S)
    PROVE  LET m == Len(s)  n == Len(t)
           IN  /\ Len(s \o t) = m + n /\ DOMAIN (s \o t) = 1 .. m + n
               /\ \A i \in 1 .. m : (s \o t)[i] = s[i]
               /\ \A i \in m + 1 .. m + n : (s \o t)[i] = t[i - m]
<1>1. Len(s) \in Nat /\ Len(t) \in Nat /\ Len(s \o t) = Len(s) + Len(t) /\ s \o t \in Seq(S)
  OBVIOUS
<1>2. DOMAIN (s \o t) = 1 .. Len(s) + Len(t)
  BY <1>1
<1>3. \A i \in 1 .. Len(s) : (s \o t)[i] = s[i]
  OBVIOUS
<1>4. \A i \in Len(s) + 1 .. Len(s) + Len(t) : (s \o t)[i] = t[i - Len(s)]
  OBVIOUS
<1> QED BY <1>1, <1>2, <1>3, <1>4

-----------------------------------------------------------------------------
(* Every set of numbers that is not empty has a least one, and with it      *)
(* induction over sets of numbers.                                         *)
LEMMA LeastNumber ==
    ASSUME NEW T \in SUBSET Nat, T # {}
    PROVE  \E n \in T : \A m \in T : n <= m
<1> DEFINE R == OpToRel(<, Nat)
<1>1. IsWellFoundedOn(R, Nat)
  BY NatLessThanWellFounded
<1>2. \A m, n \in Nat : <<m, n>> \in R <=> m < n
  BY DEF OpToRel
<1> HIDE DEF R
<1>3. PICK n \in T : \A m \in T : ~(<<m, n>> \in R)
  BY <1>1, WFMin
<1>4. ASSUME NEW m \in T PROVE n <= m
  <2>1. ~(m < n)
    BY <1>2, <1>3
  <2> QED BY <2>1
<1> QED BY <1>4

LEMMA NumbersByInduction ==
    ASSUME NEW T \in SUBSET Nat, 0 \in T, \A n \in T : n + 1 \in T
    PROVE  T = Nat
<1>1. SUFFICES ASSUME Nat \ T # {} PROVE FALSE
  OBVIOUS
<1>2. PICK n \in Nat \ T : \A m \in Nat \ T : n <= m
  BY <1>1, LeastNumber
<1>3. n # 0
  OBVIOUS
<1>4. n - 1 \in T
  BY <1>2, <1>3
<1> QED BY <1>3, <1>4

\* Induction over the numbers from a to n.
LEMMA StepByStep ==
    ASSUME NEW a \in Nat, NEW n \in Nat, NEW T, a \in T, \A i \in a .. n : i + 1 <= n /\ i \in T => i + 1 \in T
    PROVE  \A i \in a .. n : i \in T
<1> DEFINE U == {m \in Nat : a + m <= n => a + m \in T}
<1>1. 0 \in U
  OBVIOUS
<1>2. ASSUME NEW m \in U PROVE m + 1 \in U
  <2>1. SUFFICES ASSUME a + (m + 1) <= n PROVE a + (m + 1) \in T
    OBVIOUS
  <2>2. a + m \in a .. n /\ (a + m) + 1 <= n /\ (a + m) + 1 = a + (m + 1) /\ a + m <= n
    BY <2>1
  <2>3. a + m \in T
    BY <2>2
  <2> QED BY <2>2, <2>3
<1> HIDE DEF U
<1>3. U \in SUBSET Nat
  BY DEF U
<1>4. U = Nat
  BY <1>1, <1>2, <1>3, NumbersByInduction
<1>5. ASSUME NEW i \in a .. n PROVE i \in T
  <2>1. i - a \in Nat /\ a + (i - a) = i /\ i <= n
    OBVIOUS
  <2>2. i - a \in U
    BY <1>4, <2>1
  <2> QED BY <2>1, <2>2 DEF U
<1> QED BY <1>5

\* The function on a .. n whose first value is x and whose i-th is step's of the one before.
Recurs(f, a, n, D, x, step) ==
  f \in [a .. n -> D] /\ f[a] = x /\ \A i \in a + 1 .. n : f[i] = step[i][f[i - 1]]

\* A function given by its first value and by each step is there.
LEMMA RecursionDefines ==
    ASSUME NEW a \in Nat, NEW n \in Nat, a <= n, NEW D, NEW x \in D,
           NEW step, \A i \in Nat : \A y \in D : step[i][y] \in D
    PROVE  \E f : Recurs(f, a, n, D, x, step)
<1> DEFINE Defined(m) == \E f \in [a .. m -> D] : f[a] = x /\ \A i \in a + 1 .. m : f[i] = step[i][f[i - 1]]
           T == {m \in a .. n : Defined(m)}
<1>1. a \in T
  <2> DEFINE f == [i \in a .. a |-> x]
  <2>1. f \in [a .. a -> D] /\ f[a] = x /\ \A i \in a + 1 .. a : f[i] = step[i][f[i - 1]]
    OBVIOUS
  <2> HIDE DEF f
  <2>2. Defined(a)
    BY <2>1
  <2> QED BY <2>2
<1>2. ASSUME NEW m \in a .. n, m + 1 <= n, m \in T PROVE m + 1 \in T
  <2>1. PICK f \in [a .. m -> D] : f[a] = x /\ \A i \in a + 1 .. m : f[i] = step[i][f[i - 1]]
    BY <1>2
  <2> DEFINE y == step[m + 1][f[m]]
             h == [i \in a .. m + 1 |-> IF i = m + 1 THEN y ELSE f[i]]
  <2>2. m \in a .. m /\ m + 1 \in Nat /\ m \in Nat /\ a <= m
    OBVIOUS
  <2>3. y \in D
    BY <2>1, <2>2
  <2>4. \A i \in a .. m + 1 : i # m + 1 => i \in a .. m
    BY <2>2
  <2> HIDE DEF y
  <2>5. h \in [a .. m + 1 -> D]
    BY <2>1, <2>3, <2>4
  <2>6. h[m + 1] = y /\ \A i \in a .. m : h[i] = f[i]
    BY <2>2
  <2> HIDE DEF h
  <2>7. h[a] = x
    BY <2>1, <2>2, <2>6
  <2>8. ASSUME NEW i \in a + 1 .. m + 1 PROVE h[i] = step[i][h[i - 1]]
    <3>1. i - 1 \in a .. m /\ h[i - 1] = f[i - 1]
      BY <2>2, <2>6
    <3>2. CASE i = m + 1
      <4>1. i - 1 = m /\ h[i] = y
        BY <2>2, <2>6, <3>2
      <4> QED BY <3>1, <3>2, <4>1 DEF y
    <3>3. CASE i # m + 1
      <4>1. i \in a + 1 .. m /\ i \in a .. m
        BY <2>2, <3>3
      <4> QED BY <2>1, <2>6, <3>1, <4>1
    <3> QED BY <3>2, <3>3
  <2>9. m + 1 \in a .. n
    BY <1>2, <2>2
  <2> QED BY <2>5, <2>7, <2>8, <2>9
<1> HIDE DEF T
<1>3. n \in T
  <2>1. \A i \in a .. n : i \in T
    BY <1>1, <1>2, StepByStep
  <2> QED BY <2>1
<1> QED BY <1>3 DEF T, Recurs

\* Of finitely many numbers one is the greatest, and the first of those.
LEMMA FirstGreatest ==
    ASSUME NEW n \in Nat, 1 <= n, NEW d \in [1 .. n -> Int]
    PROVE  \E i \in 1 .. n : \A j \in 1 .. n : d[i] > d[j] \/ (d[i] = d[j] /\ i <= j)
<1> DEFINE T == {m \in 1 .. n : \E i \in 1 .. m : \A j \in 1 .. m : d[i] > d[j] \/ (d[i] = d[j] /\ i <= j)}
<1>1. 1 \in T
  OBVIOUS
<1>2. ASSUME NEW m \in 1 .. n, m + 1 <= n, m \in T PROVE m + 1 \in T
  <2>1. PICK i \in 1 .. m : \A j \in 1 .. m : d[i] > d[j] \/ (d[i] = d[j] /\ i <= j)
    BY <1>2
  <2>2. m \in Nat /\ i \in 1 .. n /\ m + 1 \in 1 .. n /\ i \in 1 .. m + 1 /\ \A j \in 1 .. m + 1 : j \in 1 .. n /\ (j # m + 1 => j \in 1 .. m)
    BY <1>2
  <2>3. d[i] \in Int /\ d[m + 1] \in Int /\ \A j \in 1 .. m + 1 : d[j] \in Int
    BY <2>2
  <2>4. CASE d[m + 1] > d[i]
    <3>1. \A j \in 1 .. m + 1 : d[m + 1] > d[j] \/ (d[m + 1] = d[j] /\ m + 1 <= j)
      BY <2>1, <2>2, <2>3, <2>4
    <3> QED BY <2>2, <3>1, SMTT(60)
  <2>5. CASE ~(d[m + 1] > d[i])
    <3>1. \A j \in 1 .. m + 1 : d[i] > d[j] \/ (d[i] = d[j] /\ i <= j)
      BY <2>1, <2>2, <2>3, <2>5
    <3> QED BY <2>2, <3>1
  <2> QED BY <2>4, <2>5
<1> HIDE DEF T
<1>3. n \in T
  <2>1. \A i \in 1 .. n : i \in T
    <3>1. 1 \in Nat
      OBVIOUS
    <3> QED BY <1>1, <1>2, <3>1, StepByStep
  <2> QED BY <2>1
<1> QED BY <1>3 DEF T

\* Of some of the places of a sequence one is the last.
LEMMA GreatestOf ==
    ASSUME NEW n \in Nat, NEW T \in SUBSET (1 .. n), T # {}
    PROVE  \E i \in T : \A j \in T : j <= i
<1> DEFINE D == {n - i : i \in T}
<1>1. D \in SUBSET Nat /\ D # {}
  <2>1. \A i \in 1 .. n : n - i \in Nat
    OBVIOUS
  <2> QED BY <2>1
<1>2. PICK k \in D : \A m \in D : k <= m
  <2> HIDE DEF D
  <2> QED BY <1>1, LeastNumber
<1>3. PICK i \in T : k = n - i
  BY <1>2
<1>4. ASSUME NEW j \in T PROVE j <= i
  <2>1. n - j \in D
    OBVIOUS
  <2>2. n - i <= n - j /\ i \in 1 .. n /\ j \in 1 .. n
    BY <1>2, <1>3, <2>1
  <2> QED BY <2>2
<1> QED BY <1>4
=============================================================================
