---------------------------- MODULE OscarProofs ----------------------------
(***************************************************************************)
(* Theorems about the framing of Oscar and the packed numbers it uses, for *)
(* any width of a number and of a group, any packets and any pieces.       *)
(***************************************************************************)
EXTENDS Oscar, SequenceTheorems, WellFoundedInduction, TLAPS

-----------------------------------------------------------------------------
(* Induction over a set of naturals, and what it makes of Pow2.            *)

LEMMA SetInduction ==
    ASSUME NEW T, 0 \in T, \A n \in Nat : n \in T => n + 1 \in T
    PROVE  \A n \in Nat : n \in T
<1> SUFFICES ASSUME NEW x \in Nat \ T PROVE FALSE
  OBVIOUS
<1> DEFINE R == {ss \in Nat \X Nat : ss[1] < ss[2]}
           U == Nat \ T
<1>1. IsWellFoundedOn(R, Nat)
  BY NatLessThanWellFounded, Zenon DEF OpToRel
<1>2. PICK m \in U : \A y \in U : <<y, m>> \notin R
  <2> HIDE DEF R
  <2>1. U \subseteq Nat /\ U # {} OBVIOUS
  <2> HIDE DEF U
  <2>2. QED BY <1>1, <2>1, WFMin
<1>3. m \in Nat /\ m # 0 OBVIOUS
<1>4. m - 1 \in Nat /\ <<m - 1, m>> \in R
  BY <1>3
<1>5. m - 1 \in T BY <1>2, <1>4
<1>6. (m - 1) + 1 \in T BY <1>4, <1>5
<1>7. QED BY <1>3, <1>6

\* The functions that agree with the recursion up to n.
Doubles(f, n) == f[0] = 1 /\ \A i \in 1 .. n : f[i] = 2 * f[i - 1]

LEMMA DoublesExist ==
    \A n \in Nat : \E f \in [0 .. n -> Nat \ {0}] : Doubles(f, n)
<1> DEFINE T == {n \in Nat : \E f \in [0 .. n -> Nat \ {0}] : Doubles(f, n)}
<1>1. 0 \in T
  <2>1. [i \in 0 .. 0 |-> 1] \in [0 .. 0 -> Nat \ {0}] /\ Doubles([i \in 0 .. 0 |-> 1], 0)
    BY DEF Doubles
  <2>2. QED BY <2>1
<1>2. ASSUME NEW n \in Nat, n \in T PROVE n + 1 \in T
  <2>1. PICK f \in [0 .. n -> Nat \ {0}] : Doubles(f, n) BY <1>2
  <2> DEFINE g == [i \in 0 .. n + 1 |-> IF i = n + 1 THEN 2 * f[n] ELSE f[i]]
  <2>2. g \in [0 .. n + 1 -> Nat \ {0}]
    OBVIOUS
  <2>3. Doubles(g, n + 1)
    BY <2>1 DEF Doubles
  <2> HIDE DEF g
  <2>4. QED BY <2>2, <2>3
<1> HIDE DEF T
<1>3. \A n \in Nat : n \in T BY <1>1, <1>2, SetInduction
<1>4. QED BY <1>3 DEF T

LEMMA DoublesAgree ==
    ASSUME NEW f, NEW g, NEW n \in Nat, NEW m \in Nat, Doubles(f, n), Doubles(g, m)
    PROVE  \A i \in Nat : i <= n /\ i <= m => f[i] = g[i]
<1> DEFINE T == {i \in Nat : i <= n /\ i <= m => f[i] = g[i]}
<1>1. 0 \in T BY DEF Doubles
<1>2. ASSUME NEW i \in Nat, i \in T PROVE i + 1 \in T
  <2> SUFFICES ASSUME i + 1 <= n, i + 1 <= m PROVE f[i + 1] = g[i + 1]
    OBVIOUS
  <2>1. i + 1 \in 1 .. n /\ i + 1 \in 1 .. m /\ (i + 1) - 1 = i OBVIOUS
  <2>2. f[i] = g[i] BY <1>2
  <2>3. f[i + 1] = 2 * f[i] /\ g[i + 1] = 2 * g[i] BY <2>1 DEF Doubles
  <2>4. QED BY <2>2, <2>3
<1> HIDE DEF T
<1>3. \A i \in Nat : i \in T BY <1>1, <1>2, SetInduction
<1>4. QED BY <1>3 DEF T

\* Pow2 is the function its definition describes.
LEMMA Pow2Defined ==
    /\ Pow2 \in [Nat -> Nat \ {0}]
    /\ Pow2[0] = 1
    /\ \A n \in Nat : Pow2[n + 1] = 2 * Pow2[n]
<1> DEFINE h == [n \in Nat |-> CHOOSE f \in [0 .. n -> Nat \ {0}] : Doubles(f, n)]
           p == [n \in Nat |-> h[n][n]]
<1>1. \A n \in Nat : h[n] \in [0 .. n -> Nat \ {0}] /\ Doubles(h[n], n)
  BY DoublesExist
<1> HIDE DEF h
<1>2. p \in [Nat -> Nat \ {0}]
  BY <1>1
<1>3. \A n \in Nat : p[n] = IF n = 0 THEN 1 ELSE 2 * p[n - 1]
  <2> SUFFICES ASSUME NEW n \in Nat PROVE p[n] = IF n = 0 THEN 1 ELSE 2 * p[n - 1]
    OBVIOUS
  <2>1. CASE n = 0 BY <1>1, <2>1 DEF Doubles
  <2>2. CASE n # 0
    <3>1. n - 1 \in Nat /\ n - 1 <= n /\ n \in 1 .. n BY <2>2
    <3>2. h[n][n] = 2 * h[n][n - 1] BY <1>1, <3>1 DEF Doubles
    <3>3. h[n][n - 1] = h[n - 1][n - 1] BY <1>1, <3>1, DoublesAgree
    <3>4. QED BY <2>2, <3>1, <3>2, <3>3
  <2>3. QED BY <2>1, <2>2
<1>4. p = [n \in Nat |-> IF n = 0 THEN 1 ELSE 2 * p[n - 1]]
  BY <1>2, <1>3
<1> HIDE DEF p
<1>5. Pow2 = [n \in Nat |-> IF n = 0 THEN 1 ELSE 2 * Pow2[n - 1]]
  BY <1>4 DEF Pow2
<1>6. Pow2 \in [Nat -> Nat \ {0}]
  <2> DEFINE T == {n \in Nat : Pow2[n] \in Nat \ {0}}
  <2>1. 0 \in T BY <1>5
  <2>2. ASSUME NEW n \in Nat, n \in T PROVE n + 1 \in T
    <3>1. Pow2[n + 1] = 2 * Pow2[n] BY <1>5
    <3>2. QED BY <2>2, <3>1
  <2> HIDE DEF T
  <2>3. \A n \in Nat : n \in T BY <2>1, <2>2, SetInduction
  <2>4. \A n \in Nat : Pow2[n] \in Nat \ {0} BY <2>3 DEF T
  <2>5. QED BY <1>5, <2>4
<1>7. QED
  <2>1. Pow2[0] = 1 BY <1>5
  <2>2. \A n \in Nat : Pow2[n + 1] = 2 * Pow2[n] BY <1>5
  <2>3. QED BY <1>6, <2>1, <2>2

LEMMA Pow2Sum ==
    \A m, n \in Nat : Pow2[m + n] = Pow2[m] * Pow2[n]
<1> SUFFICES ASSUME NEW m \in Nat PROVE \A n \in Nat : Pow2[m + n] = Pow2[m] * Pow2[n]
  OBVIOUS
<1> DEFINE T == {n \in Nat : Pow2[m + n] = Pow2[m] * Pow2[n]}
<1>1. 0 \in T BY Pow2Defined
<1>2. ASSUME NEW n \in Nat, n \in T PROVE n + 1 \in T
  <2>1. Pow2[m + (n + 1)] = 2 * Pow2[m + n]
    <3>1. m + (n + 1) = (m + n) + 1 /\ m + n \in Nat OBVIOUS
    <3>2. QED BY <3>1, Pow2Defined
  <2>2. Pow2[n + 1] = 2 * Pow2[n] BY Pow2Defined
  <2>3. Pow2[m] \in Nat /\ Pow2[n] \in Nat BY Pow2Defined
  <2>4. Pow2[m + n] = Pow2[m] * Pow2[n] BY <1>2
  <2>5. 2 * (Pow2[m] * Pow2[n]) = Pow2[m] * (2 * Pow2[n])
    <3>1. \A a, b \in Nat : 2 * (a * b) = a * (2 * b) OBVIOUS
    <3>2. QED BY <2>3, <3>1
  <2>6. QED BY <2>1, <2>2, <2>4, <2>5
<1> HIDE DEF T
<1>3. \A n \in Nat : n \in T BY <1>1, <1>2, SetInduction
<1>4. QED BY <1>3 DEF T

LEMMA Pow2Grows ==
    \A m, n \in Nat : m <= n => Pow2[m] <= Pow2[n]
<1> SUFFICES ASSUME NEW m \in Nat, NEW n \in Nat, m <= n PROVE Pow2[m] <= Pow2[n]
  OBVIOUS
<1>1. n - m \in Nat /\ m + (n - m) = n OBVIOUS
<1>2. Pow2[n] = Pow2[m] * Pow2[n - m] BY <1>1, Pow2Sum
<1>3. Pow2[m] \in Nat \ {0} /\ Pow2[n - m] \in Nat \ {0} BY <1>1, Pow2Defined
<1>4. \A a, b \in Nat \ {0} : a <= a * b OBVIOUS
<1>5. QED BY <1>2, <1>3, <1>4

-----------------------------------------------------------------------------
(* The fold of the reader                                                  *)

LEMMA MaxOfRange ==
    \A n \in Nat : \A t \in SUBSET (1 .. n) :
        t # {} => Max(t) \in t /\ \A y \in t : Max(t) >= y
<1> DEFINE Bounded(t) == \E x \in t : \A y \in t : x >= y
           T == {n \in Nat : \A t \in SUBSET (1 .. n) : t # {} => Bounded(t)}
<1>1. 0 \in T
  <2>1. SUBSET (1 .. 0) = {{}} OBVIOUS
  <2>2. QED BY <2>1
<1>2. ASSUME NEW n \in Nat, n \in T PROVE n + 1 \in T
  <2> SUFFICES ASSUME NEW t \in SUBSET (1 .. n + 1), t # {} PROVE Bounded(t)
    OBVIOUS
  <2>1. CASE n + 1 \in t
    <3>1. \A y \in t : n + 1 >= y OBVIOUS
    <3>2. QED BY <2>1, <3>1
  <2>2. CASE n + 1 \notin t
    <3>1. t \in SUBSET (1 .. n) BY <2>2
    <3>2. QED BY <1>2, <3>1
  <2>3. QED BY <2>1, <2>2
<1> HIDE DEF T
<1>3. \A n \in Nat : n \in T BY <1>1, <1>2, SetInduction
<1>4. SUFFICES ASSUME NEW n \in Nat, NEW t \in SUBSET (1 .. n), t # {}
               PROVE  Max(t) \in t /\ \A y \in t : Max(t) >= y
  OBVIOUS
<1>5. \E x \in t : \A y \in t : x >= y BY <1>3, <1>4 DEF T
<1>6. QED BY <1>5 DEF Max

\* The functions MapThenFoldSet chooses from, over the first n elements of s.
Folding(f, s, n) ==
    f = [t \in SUBSET (1 .. n) |->
            IF t = {} THEN 0 ELSE Shifted(f[t \ {Max(t)}], s[Max(t)])]

LEMMA FoldingExists ==
    ASSUME NEW s
    PROVE  \A n \in Nat : \E f : Folding(f, s, n)
<1> DEFINE T == {n \in Nat : \E f : Folding(f, s, n)}
<1>1. 0 \in T
  <2> DEFINE f == [t \in SUBSET (1 .. 0) |-> 0]
  <2>1. SUBSET (1 .. 0) = {{}} OBVIOUS
  <2>2. Folding(f, s, 0) BY <2>1 DEF Folding
  <2>3. QED BY <2>2
<1>2. ASSUME NEW n \in Nat, n \in T PROVE n + 1 \in T
  <2>1. PICK f : Folding(f, s, n) BY <1>2
  <2> DEFINE g == [t \in SUBSET (1 .. n + 1) |->
                      IF n + 1 \in t THEN Shifted(f[t \ {n + 1}], s[n + 1]) ELSE f[t]]
  <2>2. ASSUME NEW t \in SUBSET (1 .. n + 1)
        PROVE  g[t] = IF t = {} THEN 0 ELSE Shifted(g[t \ {Max(t)}], s[Max(t)])
    <3>1. CASE n + 1 \in t
      <4>1. Max(t) \in t /\ \A y \in t : Max(t) >= y
        <5>1. n + 1 \in Nat /\ t # {} BY <3>1
        <5>2. QED BY <5>1, MaxOfRange
      <4>2. Max(t) = n + 1
        <5>1. Max(t) \in 1 .. n + 1 BY <4>1
        <5>2. Max(t) >= n + 1 BY <3>1, <4>1
        <5>3. QED BY <5>1, <5>2
      <4>3. t \ {n + 1} \in SUBSET (1 .. n + 1) /\ n + 1 \notin t \ {n + 1} OBVIOUS
      <4>4. g[t \ {n + 1}] = f[t \ {n + 1}] BY <4>3, Zenon
      <4>5. g[t] = Shifted(f[t \ {n + 1}], s[n + 1]) BY <3>1
      <4> HIDE DEF g
      <4>6. QED BY <3>1, <4>2, <4>4, <4>5
    <3>2. CASE n + 1 \notin t /\ t # {}
      <4>1. t \in SUBSET (1 .. n) BY <3>2
      <4>2. t \ {Max(t)} \in SUBSET (1 .. n + 1) /\ n + 1 \notin t \ {Max(t)} BY <3>2
      <4>3. g[t] = f[t] /\ g[t \ {Max(t)}] = f[t \ {Max(t)}] BY <3>2, <4>2, Zenon
      <4> HIDE DEF g
      <4>4. f[t] = Shifted(f[t \ {Max(t)}], s[Max(t)])
        BY <2>1, <3>2, <4>1 DEF Folding
      <4>5. QED BY <3>2, <4>3, <4>4
    <3>3. CASE t = {}
      <4>1. t \in SUBSET (1 .. n) BY <3>3
      <4>2. g[t] = f[t] BY <3>3
      <4>3. f[t] = 0 BY <2>1, <3>3, <4>1 DEF Folding
      <4> HIDE DEF g
      <4>4. QED BY <3>3, <4>2, <4>3
    <3>4. QED BY <3>1, <3>2, <3>3
  <2>3. g = [t \in SUBSET (1 .. n + 1) |->
                IF t = {} THEN 0 ELSE Shifted(g[t \ {Max(t)}], s[Max(t)])]
    <3>1. g = [t \in SUBSET (1 .. n + 1) |-> g[t]] OBVIOUS
    <3> HIDE DEF g
    <3>2. QED BY <2>2, <3>1, Zenon
  <2> HIDE DEF g
  <2>4. Folding(g, s, n + 1) BY <2>3 DEF Folding
  <2>5. QED BY <2>4
<1> HIDE DEF T
<1>3. \A n \in Nat : n \in T BY <1>1, <1>2, SetInduction
<1>4. QED BY <1>3 DEF T

\* The reader goes through the bytes in their order.
LEMMA ReaderFolds ==
    ASSUME NEW S, NEW s \in Seq(S)
    PROVE  \E v : /\ v[0] = 0
                  /\ \A i \in 1 .. Len(s) : v[i] = Shifted(v[i - 1], s[i])
                  /\ FoldLeft(Shifted, 0, s) = v[Len(s)]
<1> DEFINE iter == CHOOSE f : Folding(f, s, Len(s))
           v == [i \in 0 .. Len(s) |-> iter[1 .. i]]
<1>1. Len(s) \in Nat /\ DOMAIN s = 1 .. Len(s) OBVIOUS
<1>2. Folding(iter, s, Len(s)) BY <1>1, FoldingExists
<1>3. FoldLeft(Shifted, 0, s) = iter[1 .. Len(s)]
  BY <1>1 DEF FoldLeft, MapThenFoldSet, Folding
<1> HIDE DEF iter
<1>4. v[0] = 0
  <2>1. 1 .. 0 = {} /\ {} \in SUBSET (1 .. Len(s)) BY <1>1
  <2>2. iter[{}] = 0 BY <1>2, <2>1 DEF Folding
  <2>3. QED BY <1>1, <2>1, <2>2
<1>5. ASSUME NEW i \in 1 .. Len(s) PROVE v[i] = Shifted(v[i - 1], s[i])
  <2>1. 1 .. i \in SUBSET (1 .. Len(s)) /\ 1 .. i # {} /\ i \in Nat /\ i \in 1 .. i
    <3>1. i \in Nat /\ i \in 1 .. i BY <1>1
    <3>2. 1 .. i \subseteq 1 .. Len(s) BY <1>1
    <3>3. QED BY <3>1, <3>2
  <2>2. Max(1 .. i) \in 1 .. i /\ \A y \in 1 .. i : Max(1 .. i) >= y BY <2>1, MaxOfRange
  <2>3. Max(1 .. i) = i BY <2>1, <2>2
  <2>4. (1 .. i) \ {i} = 1 .. i - 1 BY <2>1
  <2>5. iter[1 .. i] = Shifted(iter[(1 .. i) \ {Max(1 .. i)}], s[Max(1 .. i)])
    BY <1>2, <2>1 DEF Folding
  <2>6. v[i] = iter[1 .. i] /\ v[i - 1] = iter[1 .. i - 1] BY <1>1
  <2>7. QED BY <2>3, <2>4, <2>5, <2>6
<1>6. v[Len(s)] = iter[1 .. Len(s)] BY <1>1
<1> HIDE DEF v
<1>7. QED BY <1>3, <1>4, <1>5, <1>6

-----------------------------------------------------------------------------
(* The groups of a number                                                  *)

LEMMA Division ==
    \A a \in Nat, d \in Nat \ {0} :
        /\ a \div d \in Nat /\ a % d \in 0 .. d - 1
        /\ a = d * (a \div d) + (a % d)
<1>1. \A a \in Nat, d \in Nat \ {0} : a = d * (a \div d) + (a % d)
  <2> SUFFICES ASSUME NEW a \in Nat, NEW d \in Nat \ {0} PROVE a = d * (a \div d) + (a % d)
    OBVIOUS
  <2> QED OBVIOUS
<1>2. \A a \in Nat, d \in Nat \ {0} : a % d \in 0 .. d - 1 OBVIOUS
<1>3. \A a \in Nat, d \in Nat \ {0} : a \div d \in Nat OBVIOUS
<1>4. QED BY <1>1, <1>2, <1>3

LEMMA Quotient ==
    ASSUME NEW d \in Nat \ {0}, NEW q \in Nat, NEW r \in 0 .. d - 1
    PROVE  (d * q + r) \div d = q /\ (d * q + r) % d = r
<1> DEFINE a == d * q + r
<1>1. a \div d = q OBVIOUS
<1>2. a \in Nat /\ d * q \in Nat /\ a = d * q + r OBVIOUS
<1> HIDE DEF a
<1>3. a = d * q + (a % d) /\ a % d \in 0 .. d - 1
  BY <1>1, <1>2, Division
<1>4. a % d = r BY <1>2, <1>3
<1>5. QED BY <1>1, <1>4 DEF a

LEMMA QuotientOfQuotient ==
    ASSUME NEW a \in Nat, NEW d \in Nat \ {0}, NEW h \in Nat \ {0}
    PROVE  (a \div d) \div h = a \div (d * h)
<1> DEFINE q == a \div d
           p == q \div h
           u == q % h
           v == a % d
           r == d * u + v
<1>1. q \in Nat /\ v \in 0 .. d - 1 /\ a = d * q + v BY Division
<1>2. p \in Nat /\ u \in 0 .. h - 1 /\ q = h * p + u BY <1>1, Division
<1> HIDE DEF q, p, u, v
<1>3. d * h \in Nat \ {0} OBVIOUS
<1>4. r \in Nat /\ r < d * h
  <2>1. d * u <= d * (h - 1) BY <1>2
  <2>2. d * (h - 1) = d * h - d OBVIOUS
  <2>3. d * u \in Nat /\ d * h \in Nat BY <1>2
  <2>4. QED BY <1>1, <2>1, <2>2, <2>3
<1>5. a = (d * h) * p + r
  <2>1. \A x, y, z, w \in Nat : x * (y * z + w) = (x * y) * z + x * w OBVIOUS
  <2>2. d * q = (d * h) * p + d * u BY <1>2, <2>1
  <2>3. (d * h) * p \in Nat /\ d * u \in Nat /\ v \in Nat BY <1>1, <1>2, <1>3
  <2>4. QED BY <1>1, <2>2, <2>3
<1> HIDE DEF r
<1>6. r \in 0 .. (d * h) - 1 BY <1>3, <1>4
<1>7. a \div (d * h) = p BY <1>2, <1>3, <1>5, <1>6, Quotient
<1>8. QED BY <1>7 DEF p, q

\* The weight of the i-th group.
Place(i) == Pow2[GroupBits * i]

LEMMA Sizes ==
    /\ Width \in Nat \ {0} /\ GroupBits \in Nat \ {0} /\ LastGroup \in Nat
    /\ Modulus \in Nat \ {0} /\ High \in Nat \ {0} /\ 2 <= High
<1>1. Width \in Nat \ {0} /\ GroupBits \in Nat \ {0} BY WidthAssumption
<1>2. LastGroup \in Nat
  <2>1. \A n \in Nat, d \in Nat \ {0} : n \div d \in Nat OBVIOUS
  <2>2. Width - 1 \in Nat BY <1>1
  <2>3. QED BY <1>1, <2>1, <2>2 DEF LastGroup
<1>3. Modulus \in Nat \ {0} /\ High \in Nat \ {0}
  BY <1>1, Pow2Defined DEF Modulus, High
<1>4. 2 <= High
  <2>1. Pow2[1] <= Pow2[GroupBits] BY <1>1, Pow2Grows
  <2>2. Pow2[0 + 1] = 2 * Pow2[0] /\ Pow2[0] = 1 BY Pow2Defined
  <2>3. QED BY <2>1, <2>2 DEF High
<1>5. QED BY <1>1, <1>2, <1>3, <1>4

LEMMA Places ==
    /\ Place(0) = 1
    /\ \A i \in Nat : Place(i) \in Nat \ {0} /\ Place(i + 1) = Place(i) * High
<1>1. Place(0) = 1
  <2>1. GroupBits * 0 = 0 BY Sizes
  <2>2. QED BY <2>1, Pow2Defined DEF Place
<1>2. ASSUME NEW i \in Nat
      PROVE  Place(i) \in Nat \ {0} /\ Place(i + 1) = Place(i) * High
  <2>1. GroupBits * i \in Nat /\ GroupBits * (i + 1) = GroupBits * i + GroupBits
    <3>1. \A a \in Nat : a * i \in Nat /\ a * (i + 1) = a * i + a OBVIOUS
    <3>2. QED BY <3>1, Sizes
  <2>2. QED BY <2>1, Sizes, Pow2Defined, Pow2Sum DEF Place, High
<1>3. QED BY <1>1, <1>2

\* The groups up to the last one are all of a number.
LEMMA NothingBeyond ==
    \A n \in Numbers : n \div Place(LastGroup + 1) = 0
<1> SUFFICES ASSUME NEW n \in Numbers PROVE n \div Place(LastGroup + 1) = 0
  OBVIOUS
<1>1. Width <= GroupBits * (LastGroup + 1)
  <2>1. \A w, g \in Nat \ {0} : w <= g * (((w - 1) \div g) + 1)
    <3>2. SUFFICES ASSUME NEW w \in Nat \ {0}, NEW g \in Nat \ {0}
                   PROVE  w <= g * (((w - 1) \div g) + 1)
      OBVIOUS
    <3>0. w - 1 \in Nat OBVIOUS
    <3>3. (w - 1) \div g \in Nat /\ (w - 1) % g \in 0 .. g - 1
      BY <3>0, Division
    <3>4. w - 1 = g * ((w - 1) \div g) + ((w - 1) % g) BY <3>0, Division
    <3>5. g * (((w - 1) \div g) + 1) = g * ((w - 1) \div g) + g BY <3>3
    <3>6. g * ((w - 1) \div g) \in Nat BY <3>3
    <3>7. QED BY <3>0, <3>3, <3>4, <3>5, <3>6
  <2>2. QED BY <2>1, Sizes DEF LastGroup
<1>2. GroupBits * (LastGroup + 1) \in Nat BY Sizes
<1>3. Modulus <= Place(LastGroup + 1)
  BY <1>1, <1>2, Sizes, Pow2Grows DEF Modulus, Place
<1>4. n \in Nat /\ n < Modulus BY Sizes DEF Numbers
<1>5. Place(LastGroup + 1) \in Nat \ {0} BY Sizes, Places
<1>6. \A a \in Nat, d \in Nat \ {0} : a < d => a \div d = 0 OBVIOUS
<1>7. QED BY <1>3, <1>4, <1>5, <1>6, Sizes

LEMMA GroupStep ==
    \A n, i \in Nat :
        /\ n \div Place(i) \in Nat
        /\ Group(n, i) \in 0 .. High - 1
        /\ n \div Place(i) = (n \div Place(i + 1)) * High + Group(n, i)
<1> SUFFICES ASSUME NEW n \in Nat, NEW i \in Nat
             PROVE  /\ n \div Place(i) \in Nat
                    /\ Group(n, i) \in 0 .. High - 1
                    /\ n \div Place(i) = (n \div Place(i + 1)) * High + Group(n, i)
  OBVIOUS
<1>1. Place(i) \in Nat \ {0} /\ Place(i + 1) = Place(i) * High BY Places
<1>4. n \div Place(i) \in Nat BY <1>1
<1>5. Group(n, i) = (n \div Place(i)) % High BY DEF Group, Place
<1>6. (n \div Place(i)) \div High = n \div Place(i + 1) BY <1>1, Sizes, QuotientOfQuotient
<1>7. QED
  <2>1. (n \div Place(i)) % High \in 0 .. High - 1 BY <1>4, Sizes, Division
  <2>2. n \div Place(i) = High * (n \div Place(i + 1)) + Group(n, i)
    BY <1>4, <1>5, <1>6, Sizes, Division
  <2>3. n \div Place(i + 1) \in Nat BY <1>4, <1>6, Sizes, Division
  <2>4. \A h, q \in Nat : h * q = q * h OBVIOUS
  <2>5. High * (n \div Place(i + 1)) = (n \div Place(i + 1)) * High BY <2>3, <2>4, Sizes
  <2>6. QED BY <1>4, <1>5, <2>1, <2>2, <2>5

\* There is a group to begin with.
LEMMA FirstWrittenIs ==
    ASSUME NEW n
    PROVE  /\ FirstWritten(n) \in 0 .. LastGroup
           /\ Group(n, FirstWritten(n)) # 0 \/ FirstWritten(n) = 0
           /\ \A j \in FirstWritten(n) + 1 .. LastGroup : Group(n, j) = 0
<1> DEFINE First(i, m) == /\ Group(n, i) # 0 \/ i = 0
                          /\ \A j \in i + 1 .. m : Group(n, j) = 0
           T == {m \in Nat : \E i \in 0 .. m : First(i, m)}
<1>1. 0 \in T
  <2>1. First(0, 0) OBVIOUS
  <2>2. QED BY <2>1
<1>2. ASSUME NEW m \in Nat, m \in T PROVE m + 1 \in T
  <2>1. CASE Group(n, m + 1) # 0
    <3>1. First(m + 1, m + 1) BY <2>1
    <3>2. QED BY <3>1
  <2>2. CASE Group(n, m + 1) = 0
    <3>1. PICK i \in 0 .. m : First(i, m) BY <1>2
    <3>2. First(i, m + 1)
      <4>1. \A j \in i + 1 .. m + 1 : j \in i + 1 .. m \/ j = m + 1 OBVIOUS
      <4>2. QED BY <2>2, <3>1, <4>1
    <3>3. i \in 0 .. m + 1 OBVIOUS
    <3>4. QED BY <3>2, <3>3
  <2>3. QED BY <2>1, <2>2
<1> HIDE DEF T
<1>3. \A m \in Nat : m \in T BY <1>1, <1>2, SetInduction
<1>4. \E i \in 0 .. LastGroup : First(i, LastGroup) BY <1>3, Sizes DEF T
<1>5. QED BY <1>4, Zenon DEF FirstWritten

\* What the writer leaves out is zero.
LEMMA NothingLeftOut ==
    \A n \in Numbers : n \div Place(FirstWritten(n) + 1) = 0
<1> SUFFICES ASSUME NEW n \in Numbers PROVE n \div Place(FirstWritten(n) + 1) = 0
  OBVIOUS
<1> DEFINE F == FirstWritten(n)
           T == {d \in Nat : d <= LastGroup - F => n \div Place((LastGroup - d) + 1) = 0}
<1>1. F \in 0 .. LastGroup /\ \A j \in F + 1 .. LastGroup : Group(n, j) = 0
  BY FirstWrittenIs
<1>2. n \in Nat /\ LastGroup \in Nat BY Sizes DEF Numbers
<1> HIDE DEF F
<1>3. 0 \in T
  <2>1. n \div Place(LastGroup + 1) = 0 BY NothingBeyond
  <2>2. (LastGroup - 0) + 1 = LastGroup + 1 BY <1>2
  <2>3. QED BY <2>1, <2>2
<1>4. ASSUME NEW d \in Nat, d \in T PROVE d + 1 \in T
  <2> SUFFICES ASSUME d + 1 <= LastGroup - F
               PROVE  n \div Place((LastGroup - (d + 1)) + 1) = 0
    OBVIOUS
  <2> DEFINE i == LastGroup - d
  <2>1. i \in F + 1 .. LastGroup /\ i \in Nat /\ (LastGroup - (d + 1)) + 1 = i BY <1>1, <1>2
  <2>2. n \div Place(i + 1) = 0 BY <1>1, <1>2, <1>4
  <2> HIDE DEF i
  <2>3. Group(n, i) = 0 BY <1>1, <2>1
  <2>4. n \div Place(i) = (n \div Place(i + 1)) * High + Group(n, i)
    BY <1>2, <2>1, GroupStep
  <2>5. 0 * High + 0 = 0 BY Sizes
  <2>6. QED BY <2>1, <2>2, <2>3, <2>4, <2>5
<1> HIDE DEF T
<1>5. \A d \in Nat : d \in T BY <1>3, <1>4, SetInduction
<1>6. LastGroup - F \in Nat /\ (LastGroup - (LastGroup - F)) + 1 = F + 1 BY <1>1, <1>2
<1>7. LastGroup - F \in T BY <1>5, <1>6
<1>8. n \div Place((LastGroup - (LastGroup - F)) + 1) = 0 BY <1>6, <1>7 DEF T
<1>9. QED BY <1>6, <1>8 DEF F

\* A number's bytes, and which of them is the last.
LEMMA PutIs ==
    ASSUME NEW n \in Numbers
    PROVE  /\ Put(n) \in Seq(Byte)
           /\ FirstWritten(n) \in Nat /\ Len(Put(n)) = FirstWritten(n) + 1
           /\ \A k \in 1 .. Len(Put(n)) :
                /\ Put(n)[k] % High = Group(n, Len(Put(n)) - k)
                /\ k # Len(Put(n)) => Put(n)[k] >= High
           /\ Put(n)[Len(Put(n))] < High
<1> DEFINE F == FirstWritten(n)
<1>1. F \in Nat /\ n \in Nat BY FirstWrittenIs, Sizes DEF Numbers
<1>2. Put(n) = [k \in 1 .. F + 1 |-> Group(n, F + 1 - k) + Flag(F + 1 - k)]
  BY DEF Put
<1> HIDE DEF F
<1>3. ASSUME NEW k \in 1 .. F + 1
      PROVE  /\ Put(n)[k] \in Byte
             /\ Put(n)[k] % High = Group(n, F + 1 - k)
             /\ k # F + 1 => Put(n)[k] >= High
             /\ k = F + 1 => Put(n)[k] < High
  <2> DEFINE g == Group(n, F + 1 - k)
  <2>1. F + 1 - k \in Nat BY <1>1
  <2>2. g \in 0 .. High - 1 BY <1>1, <2>1, GroupStep
  <2>3. Put(n)[k] = g + Flag(F + 1 - k) BY <1>2
  <2> HIDE DEF g
  <2>4. CASE k # F + 1
    <3>1. Flag(F + 1 - k) = High BY <1>1, <2>4 DEF Flag
    <3>2. Put(n)[k] = High * 1 + g BY <2>2, <2>3, <3>1, Sizes
    <3>3. (High * 1 + g) % High = g BY <2>2, Sizes, Quotient
    <3>4. High * 1 + g \in Byte /\ High * 1 + g >= High BY <2>2, Sizes DEF Byte
    <3>5. QED BY <2>4, <3>2, <3>3, <3>4 DEF g
  <2>5. CASE k = F + 1
    <3>1. Flag(F + 1 - k) = 0 BY <1>1, <2>5 DEF Flag
    <3>2. Put(n)[k] = High * 0 + g BY <2>2, <2>3, <3>1, Sizes
    <3>3. (High * 0 + g) % High = g BY <2>2, Sizes, Quotient
    <3>4. High * 0 + g \in Byte /\ High * 0 + g < High BY <2>2, Sizes DEF Byte
    <3>5. QED BY <2>5, <3>2, <3>3, <3>4 DEF g
  <2>6. QED BY <2>4, <2>5
<1>4. Put(n) \in [1 .. F + 1 -> Byte] BY <1>2, <1>3
<1>5. Put(n) \in Seq(Byte) /\ Len(Put(n)) = F + 1 BY <1>1, <1>4
<1>6. F + 1 \in 1 .. F + 1 BY <1>1
<1>7. QED BY <1>1, <1>3, <1>5, <1>6 DEF F

\* Read one by one they make the number again.
LEMMA PutFolds ==
    ASSUME NEW n \in Numbers
    PROVE  FoldLeft(Shifted, 0, Put(n)) = n
<1> DEFINE L == Len(Put(n))
           s == Put(n)
<1>1. /\ s \in Seq(Byte) /\ L \in Nat /\ L = FirstWritten(n) + 1
      /\ \A k \in 1 .. L : s[k] % High = Group(n, L - k)
  BY PutIs
<1>2. n \in Nat /\ n < Modulus BY Sizes DEF Numbers
<1>3. PICK v : /\ v[0] = 0
               /\ \A i \in 1 .. L : v[i] = Shifted(v[i - 1], s[i])
               /\ FoldLeft(Shifted, 0, s) = v[L]
  BY <1>1, ReaderFolds
<1>4. n \div Place(L) = 0 BY <1>1, NothingLeftOut
<1> HIDE DEF L, s
<1> DEFINE T == {i \in Nat : i <= L => v[i] = n \div Place(L - i)}
<1>5. 0 \in T
  <2>1. L - 0 = L BY <1>1
  <2>2. QED BY <1>3, <1>4, <2>1
<1>6. ASSUME NEW i \in Nat, i \in T PROVE i + 1 \in T
  <2> SUFFICES ASSUME i + 1 <= L PROVE v[i + 1] = n \div Place(L - (i + 1))
    OBVIOUS
  <2> DEFINE j == L - (i + 1)
  <2>1. i + 1 \in 1 .. L /\ (i + 1) - 1 = i /\ j \in Nat /\ L - i = j + 1 /\ i <= L BY <1>1
  <2>2. v[i] = n \div Place(j + 1) BY <1>6, <2>1
  <2>3. v[i + 1] = Shifted(v[i], s[i + 1]) BY <1>3, <2>1
  <2>4. s[i + 1] % High = Group(n, j) BY <1>1, <2>1
  <2> HIDE DEF j
  <2>5. v[i + 1] = ((n \div Place(j + 1)) * High + Group(n, j)) % Modulus
    BY <2>2, <2>3, <2>4 DEF Shifted
  <2>6. v[i + 1] = (n \div Place(j)) % Modulus BY <1>2, <2>1, <2>5, GroupStep
  <2>7. n \div Place(j) \in Nat /\ n \div Place(j) <= n
    <3>1. \A a \in Nat, d \in Nat \ {0} : a \div d <= a
      <4>1. SUFFICES ASSUME NEW a \in Nat, NEW d \in Nat \ {0}, NEW q \in Nat, NEW r \in Nat,
                            a = d * q + r
                     PROVE  q <= a
        BY Division
      <4>2. d * q >= q OBVIOUS
      <4>3. d * q \in Nat OBVIOUS
      <4>4. QED BY <4>1, <4>2, <4>3
    <3>2. QED BY <1>2, <2>1, <3>1, Places, GroupStep
  <2>8. \A a \in Nat, m \in Nat \ {0} : a < m => a % m = a OBVIOUS
  <2>9. (n \div Place(j)) % Modulus = n \div Place(j) BY <1>2, <2>7, <2>8, Sizes
  <2>10. QED BY <2>6, <2>9 DEF j
<1> HIDE DEF T
<1>7. \A i \in Nat : i \in T BY <1>5, <1>6, SetInduction
<1>8. v[L] = n \div Place(L - L) BY <1>1, <1>7 DEF T
<1>9. L - L = 0 /\ Place(0) = 1 BY <1>1, Places
<1>10. n \div 1 = n BY <1>2
<1>11. QED BY <1>3, <1>8, <1>9, <1>10 DEF s

-----------------------------------------------------------------------------
(* What the readers may rely on                                            *)

LEMMA GetStops ==
    ASSUME NEW s \in Seq(Byte), NEW k \in 1 .. Len(s),
           s[k] < High, \A j \in 1 .. k - 1 : s[j] >= High
    PROVE  Get(s) = [success |-> TRUE, value |-> FoldLeft(Shifted, 0, SubSeq(s, 1, k)),
                     used |-> k]
<1> DEFINE c == CHOOSE i \in Ends(s) : \A j \in Ends(s) : i <= j
<1>1. k \in Ends(s) BY DEF Ends
<1>2. \A j \in Ends(s) : j \in 1 .. Len(s) /\ s[j] < High BY DEF Ends
<1>3. \A i \in 1 .. Len(s) : s[i] \in Nat BY Sizes DEF Byte
<1>4. \A j \in Ends(s) : k <= j
  <2> SUFFICES ASSUME NEW j \in Ends(s), j < k PROVE FALSE
    BY <1>2
  <2>1. j \in 1 .. k - 1 /\ s[j] \in Nat /\ s[j] < High BY <1>2, <1>3
  <2>2. s[j] >= High BY <2>1
  <2>3. QED BY <2>1, <2>2, Sizes
<1>5. c \in Ends(s) /\ \A j \in Ends(s) : c <= j BY <1>1, <1>4
<1>6. c = k
  <2> HIDE DEF c
  <2>1. c \in Nat /\ c <= k /\ k <= c BY <1>1, <1>2, <1>4, <1>5
  <2>2. QED BY <2>1
<1>7. Ends(s) # {} BY <1>1
<1>8. Get(s) = [success |-> TRUE, value |-> FoldLeft(Shifted, 0, SubSeq(s, 1, c)), used |-> c]
  BY <1>7, Zenon DEF Get
<1>9. QED BY <1>6, <1>8, Zenon

LEMMA ReadsBackHolds ==
    ASSUME NEW n \in Numbers, NEW rest \in Seq(Byte)
    PROVE  ReadsBack(n, rest)
<1> DEFINE p == Put(n)
           L == Len(Put(n))
           s == p \o rest
<1>1. /\ p \in Seq(Byte) /\ L \in Nat \ {0} /\ L = Len(p) /\ p[L] < High
      /\ \A k \in 1 .. L : k # L => p[k] >= High
  BY PutIs
<1>2. FoldLeft(Shifted, 0, p) = n BY PutFolds
<1> HIDE DEF p, L
<1>3. /\ s \in Seq(Byte) /\ Len(s) = L + Len(rest)
      /\ \A i \in 1 .. L : s[i] = p[i]
  BY <1>1, ConcatProperties
<1>4. SubSeq(s, 1, L) = p
  <2>1. /\ SubSeq(s, 1, L) \in Seq(Byte) /\ Len(SubSeq(s, 1, L)) = L
        /\ \A i \in 1 .. L : SubSeq(s, 1, L)[i] = s[i]
    BY <1>1, <1>3
  <2> HIDE DEF s
  <2>2. QED BY <1>1, <1>3, <2>1, SeqEqual
<1> HIDE DEF s
<1>5. L \in 1 .. Len(s) /\ s[L] < High BY <1>1, <1>3
<1>6. \A j \in 1 .. L - 1 : s[j] >= High BY <1>1, <1>3
<1>7. Get(s) = [success |-> TRUE, value |-> FoldLeft(Shifted, 0, SubSeq(s, 1, L)), used |-> L]
  BY <1>3, <1>5, <1>6, GetStops
<1>8. Get(s) = [success |-> TRUE, value |-> n, used |-> L] BY <1>2, <1>4, <1>7, Zenon
<1>9. QED BY <1>8, Zenon DEF ReadsBack, s, p, L

LEMMA PrefixFailsHolds ==
    ASSUME NEW n \in Numbers
    PROVE  PrefixFails(n)
<1> DEFINE p == Put(n)
           L == Len(Put(n))
<1>1. /\ p \in Seq(Byte) /\ L \in Nat \ {0} /\ L = Len(p)
      /\ \A k \in 1 .. L : k # L => p[k] >= High
  BY PutIs
<1>2. \A k \in 1 .. L : p[k] \in Nat BY <1>1, Sizes DEF Byte
<1> HIDE DEF p, L
<1>3. ASSUME NEW k \in 0 .. L - 1 PROVE ~Get(SubSeq(p, 1, k)).success
  <2> DEFINE s == SubSeq(p, 1, k)
  <2>1. Len(s) = k /\ DOMAIN s = 1 .. k /\ \A i \in 1 .. k : s[i] = p[i] BY <1>1
  <2> HIDE DEF s
  <2>2. Ends(s) = {}
    <3> SUFFICES ASSUME NEW i \in 1 .. k, s[i] < High PROVE FALSE
      BY <2>1 DEF Ends
    <3>1. i \in 1 .. L /\ i # L BY <1>1
    <3>2. p[i] >= High /\ p[i] \in Nat /\ s[i] = p[i] BY <1>1, <1>2, <2>1, <3>1
    <3>3. QED BY <3>2, Sizes
  <2>3. Get(s) = [success |-> FALSE, value |-> 0, used |-> Len(s)] BY <2>2 DEF Get
  <2>4. QED BY <2>3 DEF s
<1>4. QED BY <1>3 DEF PrefixFails, p, L

LEMMA NarrowReadsBackHolds ==
    ASSUME NEW x \in Numbers, NEW Bits \in 1 .. Width, x < Pow2[Bits]
    PROVE  NarrowReadsBack(x, Bits)
<1> DEFINE N == SignExtended(x, Bits)
           M == Pow2[Bits]
           K == Pow2[Width - Bits]
<1>1. x \in Nat BY Sizes DEF Numbers
<1>2. M \in Nat \ {0} /\ K \in Nat \ {0} /\ Modulus = M * K
  <2>1. Bits \in Nat /\ Width - Bits \in Nat /\ Bits + (Width - Bits) = Width BY Sizes
  <2>2. QED BY <2>1, Pow2Defined, Pow2Sum DEF Modulus
<1>3. N = IF x >= Pow2[Bits - 1] THEN Modulus - M + x ELSE x BY DEF SignExtended
<1>4. x < M OBVIOUS
<1> HIDE DEF N, M, K
<1>5. PICK q \in Nat : N = M * q + x /\ N \in Numbers
  <2>1. CASE x >= Pow2[Bits - 1]
    <3>1. K - 1 \in Nat /\ M * (K - 1) = M * K - M BY <1>2
    <3>2. N = M * K - M + x BY <1>2, <1>3, <2>1
    <3>3. M * K \in Nat /\ M * (K - 1) \in Nat BY <1>2, <3>1
    <3>4. N = M * (K - 1) + x BY <1>1, <1>2, <3>1, <3>2, <3>3
    <3>5. N \in Nat /\ N < M * K BY <1>1, <1>2, <1>4, <3>1, <3>3, <3>4
    <3>6. N \in Numbers BY <1>2, <3>3, <3>5 DEF Numbers
    <3>7. QED BY <3>1, <3>4, <3>6
  <2>2. CASE ~(x >= Pow2[Bits - 1])
    <3>1. N = x BY <1>3, <2>2
    <3>2. N = M * 0 + x BY <1>1, <1>2, <3>1
    <3>3. QED BY <3>1, <3>2
  <2>3. QED BY <2>1, <2>2
<1>6. Get(Put(N)).value = N
  <2>1. ReadsBack(N, <<>>)
    <3>1. <<>> \in Seq(Byte) OBVIOUS
    <3>2. QED BY <1>5, <3>1, ReadsBackHolds
  <2>2. Put(N) \o <<>> = Put(N) BY <1>5, PutIs, ConcatEmptySeq
  <2>3. QED BY <2>1, <2>2 DEF ReadsBack
<1>7. N % M = x
  <2>1. x \in 0 .. M - 1 BY <1>1, <1>2, <1>4
  <2>2. QED BY <1>2, <1>5, <2>1, Quotient
<1>8. QED BY <1>6, <1>7 DEF NarrowReadsBack, Truncated, N, M

-----------------------------------------------------------------------------
(* The frames of a stream                                                  *)

Bodies == Payloads \cup {GoodVersion, BadVersion, <<>>}
Frames == [start : {SB_HELLO, SB_SINGLEPACKET, SB_ACK}, body : Bodies]
Written(f) == Framed(f.start, f.body)

LEMMA BodyBytes ==
    \A b \in Bodies : b \in Seq(Byte) /\ Len(b) \in Numbers
<1>1. <<>> \in Seq(Byte) /\ Len(<<>>) = 0 OBVIOUS
<1>2. 0 \in Numbers BY Sizes DEF Numbers
<1>3. QED BY <1>1, <1>2, PayloadAssumption DEF Bodies

LEMMA WrittenBytes ==
    ASSUME NEW f \in Frames
    PROVE  LET L == Len(Put(Len(f.body)))
           IN  /\ Written(f) \in Seq(Byte)
               /\ Len(Written(f)) = 1 + L + Len(f.body)
               /\ Written(f)[1] = f.start
               /\ \A i \in 1 .. L : Written(f)[1 + i] = Put(Len(f.body))[i]
               /\ \A i \in 1 .. Len(f.body) : Written(f)[1 + L + i] = f.body[i]
<1> DEFINE b == f.body
           p == Put(Len(b))
           L == Len(p)
           h == <<f.start>>
<1>1. f.start \in {SB_HELLO, SB_SINGLEPACKET, SB_ACK} /\ b \in Bodies BY DEF Frames
<1>2. b \in Seq(Byte) /\ Len(b) \in Nat BY <1>1, BodyBytes
<1>3. p \in Seq(Byte) /\ L \in Nat
  <2>1. Len(b) \in Numbers BY <1>1, BodyBytes
  <2> HIDE DEF b
  <2>2. QED BY <2>1, PutIs
<1>4. f.start \in Byte BY <1>1, Sizes DEF Byte, SB_HELLO, SB_SINGLEPACKET, SB_ACK
<1>5. h \in Seq(Byte) /\ Len(h) = 1 /\ h[1] = f.start BY <1>4
<1>6. Written(f) = (h \o p) \o b BY DEF Written, Framed
<1> HIDE DEF b, p, h
<1>7. /\ h \o p \in Seq(Byte) /\ Len(h \o p) = 1 + L
      /\ (h \o p)[1] = f.start
      /\ \A i \in 1 .. L : (h \o p)[1 + i] = p[i]
  <2>1. /\ h \o p \in Seq(Byte) /\ Len(h \o p) = 1 + L
        /\ \A i \in 1 .. 1 + L : (h \o p)[i] = IF i <= 1 THEN h[i] ELSE p[i - 1]
    <3>1. /\ h \o p \in Seq(Byte) /\ Len(h \o p) = Len(h) + Len(p)
          /\ \A i \in 1 .. Len(h) + Len(p) :
                (h \o p)[i] = IF i <= Len(h) THEN h[i] ELSE p[i - Len(h)]
      BY <1>3, <1>5, ConcatProperties, Zenon
    <3>2. QED BY <1>5, <3>1
  <2>2. (h \o p)[1] = f.start BY <1>3, <1>5, <2>1
  <2>3. \A i \in 1 .. L : (h \o p)[1 + i] = p[i]
    <3> SUFFICES ASSUME NEW i \in 1 .. L PROVE (h \o p)[1 + i] = p[i]
      OBVIOUS
    <3>1. 1 + i \in 1 .. 1 + L /\ ~(1 + i <= 1) /\ (1 + i) - 1 = i BY <1>3
    <3>2. QED BY <2>1, <3>1
  <2>4. QED BY <2>1, <2>2, <2>3
<1> DEFINE c == h \o p
<1>8. /\ c \in Seq(Byte) /\ Len(c) = 1 + L /\ c[1] = f.start
      /\ \A i \in 1 .. L : c[1 + i] = p[i]
  BY <1>7
<1>9. Written(f) = c \o b BY <1>6
<1> HIDE DEF c, L
<1>10. /\ c \o b \in Seq(Byte) /\ Len(c \o b) = (1 + L) + Len(b)
       /\ \A i \in 1 .. (1 + L) + Len(b) :
            (c \o b)[i] = IF i <= 1 + L THEN c[i] ELSE b[i - (1 + L)]
  <2>1. /\ c \o b \in Seq(Byte) /\ Len(c \o b) = Len(c) + Len(b)
        /\ \A i \in 1 .. Len(c) + Len(b) :
              (c \o b)[i] = IF i <= Len(c) THEN c[i] ELSE b[i - Len(c)]
    BY <1>2, <1>8, ConcatProperties, Zenon
  <2>2. QED BY <1>8, <2>1
<1>11. (c \o b)[1] = f.start BY <1>2, <1>3, <1>8, <1>10
<1>12. \A i \in 1 .. L : (c \o b)[1 + i] = p[i]
  <2> SUFFICES ASSUME NEW i \in 1 .. L PROVE (c \o b)[1 + i] = p[i]
    OBVIOUS
  <2>1. 1 + i \in 1 .. (1 + L) + Len(b) /\ 1 + i <= 1 + L BY <1>2, <1>3
  <2>2. QED BY <1>8, <1>10, <2>1
<1>13. \A i \in 1 .. Len(b) : (c \o b)[1 + L + i] = b[i]
  <2> SUFFICES ASSUME NEW i \in 1 .. Len(b) PROVE (c \o b)[1 + L + i] = b[i]
    OBVIOUS
  <2>1. /\ 1 + L + i \in 1 .. (1 + L) + Len(b) /\ ~(1 + L + i <= 1 + L)
        /\ (1 + L + i) - (1 + L) = i
    BY <1>2, <1>3
  <2>2. QED BY <1>10, <2>1
<1>14. QED BY <1>9, <1>10, <1>11, <1>12, <1>13 DEF b, p, L

\* The stream is these frames, one after the other, and nothing else.
Cut(R, stream) ==
    \E T \in [0 .. Len(R) -> Seq(Byte)] :
        /\ T[0] = stream /\ T[Len(R)] = <<>>
        /\ \A i \in 1 .. Len(R) : T[i - 1] = Written(R[i]) \o T[i]

LEMMA ThreeInOrder ==
    \A a, b, c \in Seq(Byte) : (a \o b) \o c = a \o (b \o c)
BY ConcatAssociative, SMT

LEMMA CutNone == Cut(<<>>, <<>>)
<1> DEFINE T == [i \in 0 .. 0 |-> <<>>]
<1>1. Len(<<>>) = 0 /\ <<>> \in Seq(Byte) /\ 1 .. 0 = {} OBVIOUS
<1>2. T \in [0 .. 0 -> Seq(Byte)] /\ T[0] = <<>> OBVIOUS
<1> HIDE DEF T
<1>3. QED BY <1>1, <1>2 DEF Cut

LEMMA CutAppend ==
    ASSUME NEW R \in Seq(Frames), NEW stream \in Seq(Byte), NEW f \in Frames, Cut(R, stream)
    PROVE  Cut(Append(R, f), stream \o Written(f))
<1> DEFINE E == Written(f)
           n == Len(R)
           Q == Append(R, f)
<1>1. E \in Seq(Byte) BY WrittenBytes
<1>2. n \in Nat /\ Len(Q) = n + 1 /\ Q[n + 1] = f /\ \A i \in 1 .. n : Q[i] = R[i] /\ R[i] \in Frames
  OBVIOUS
<1>3. PICK T \in [0 .. n -> Seq(Byte)] :
        /\ T[0] = stream /\ T[n] = <<>>
        /\ \A i \in 1 .. n : T[i - 1] = Written(R[i]) \o T[i]
  BY DEF Cut
<1> DEFINE U == [i \in 0 .. n + 1 |-> IF i = n + 1 THEN <<>> ELSE T[i] \o E]
<1> HIDE DEF E, n, Q
<1>4. U \in [0 .. n + 1 -> Seq(Byte)]
  <2>1. ASSUME NEW i \in 0 .. n PROVE T[i] \o E \in Seq(Byte)
    <3>1. T[i] \in Seq(Byte) BY <1>3
    <3>2. QED BY <1>1, <3>1, ConcatProperties
  <2>2. \A i \in 0 .. n + 1 : i = n + 1 \/ i \in 0 .. n BY <1>2
  <2>3. <<>> \in Seq(Byte) OBVIOUS
  <2>4. QED BY <2>1, <2>2, <2>3
<1>5. U[0] = stream \o E BY <1>2, <1>3
<1>6. U[n + 1] = <<>> BY <1>2
<1>7. ASSUME NEW i \in 1 .. n + 1 PROVE U[i - 1] = Written(Q[i]) \o U[i]
  <2>1. CASE i = n + 1
    <3>1. U[i - 1] = T[n] \o E /\ U[i] = <<>> BY <1>2, <2>1
    <3>2. <<>> \o E = E /\ E \o <<>> = E BY <1>1, ConcatEmptySeq
    <3>3. Written(Q[i]) = E BY <1>2, <2>1 DEF E
    <3>4. QED BY <1>3, <3>1, <3>2, <3>3
  <2>2. CASE i # n + 1
    <3>1. /\ i \in 1 .. n /\ i - 1 \in 0 .. n /\ i \in 0 .. n /\ i - 1 # n + 1
          /\ i - 1 \in 0 .. n + 1 /\ i \in 0 .. n + 1
      BY <1>2, <2>2
    <3>2. U[i - 1] = T[i - 1] \o E /\ U[i] = T[i] \o E BY <2>2, <3>1
    <3>3. T[i - 1] = Written(R[i]) \o T[i] /\ T[i] \in Seq(Byte) BY <1>3, <3>1
    <3>4. Q[i] = R[i] /\ Written(R[i]) \in Seq(Byte) BY <1>2, <3>1, WrittenBytes
    <3>5. (Written(R[i]) \o T[i]) \o E = Written(R[i]) \o (T[i] \o E)
      <4>1. \A a, b, c \in Seq(Byte) : (a \o b) \o c = a \o (b \o c)
        BY ThreeInOrder, Zenon
      <4>2. E \in Seq(Byte) /\ T[i] \in Seq(Byte) /\ Written(R[i]) \in Seq(Byte)
        BY <1>1, <3>3, <3>4, Zenon
      <4>3. QED BY <4>1, <4>2, Zenon
    <3>6. QED BY <3>2, <3>3, <3>4, <3>5
  <2>3. QED BY <2>1, <2>2
<1> HIDE DEF U
<1>8. QED BY <1>2, <1>4, <1>5, <1>6, <1>7 DEF Cut, E, Q

LEMMA CutFirst ==
    ASSUME NEW R \in Seq(Frames), NEW stream \in Seq(Byte), Cut(R, stream), stream # <<>>
    PROVE  /\ Len(R) >= 1 /\ R[1] \in Frames
           /\ \E rest \in Seq(Byte) : stream = Written(R[1]) \o rest /\ Cut(Tail(R), rest)
<1> DEFINE n == Len(R)
           Q == Tail(R)
<1>1. PICK T \in [0 .. n -> Seq(Byte)] :
        /\ T[0] = stream /\ T[n] = <<>>
        /\ \A i \in 1 .. n : T[i - 1] = Written(R[i]) \o T[i]
  BY DEF Cut
<1>2. n \in Nat /\ n # 0 BY <1>1
<1>3. R[1] \in Frames BY <1>2
<1>4. Q \in Seq(Frames) /\ Len(Q) = n - 1 /\ \A i \in 1 .. n - 1 : Q[i] = R[i + 1]
  <2>1. R # <<>> BY <1>2
  <2>2. QED BY <2>1, HeadTailProperties
<1> DEFINE U == [i \in 0 .. n - 1 |-> T[i + 1]]
<1> HIDE DEF n, Q
<1>5. U \in [0 .. n - 1 -> Seq(Byte)]
  <2>1. ASSUME NEW i \in 0 .. n - 1 PROVE T[i + 1] \in Seq(Byte)
    <3>1. i + 1 \in 0 .. n BY <1>2
    <3>2. QED BY <1>1, <3>1
  <2>2. QED BY <2>1
<1>6. U[0] = T[1] /\ U[n - 1] = <<>> BY <1>1, <1>2
<1>7. ASSUME NEW i \in 1 .. n - 1 PROVE U[i - 1] = Written(Q[i]) \o U[i]
  <2>1. i + 1 \in 1 .. n /\ i - 1 \in 0 .. n - 1 /\ i \in 0 .. n - 1 /\ (i + 1) - 1 = i /\ (i - 1) + 1 = i
    BY <1>2
  <2>2. U[i - 1] = T[i] /\ U[i] = T[i + 1] BY <2>1
  <2>3. T[i] = Written(R[i + 1]) \o T[i + 1] BY <1>1, <2>1
  <2>4. QED BY <1>4, <2>2, <2>3
<1> HIDE DEF U
<1>8. Cut(Q, T[1]) BY <1>4, <1>5, <1>6, <1>7 DEF Cut
<1>9. T[1] \in Seq(Byte) /\ stream = Written(R[1]) \o T[1]
  <2>1. 1 \in 1 .. n /\ 1 - 1 = 0 /\ 1 \in 0 .. n BY <1>2
  <2>2. T[1 - 1] = Written(R[1]) \o T[1] BY <1>1, <2>1
  <2>3. QED BY <1>1, <2>1, <2>2
<1>10. \E rest \in Seq(Byte) : stream = Written(R[1]) \o rest /\ Cut(Tail(R), rest)
  BY <1>8, <1>9, Zenon DEF Q
<1>11. Len(R) >= 1 BY <1>2 DEF n
<1>12. QED BY <1>3, <1>10, <1>11

-----------------------------------------------------------------------------
(* The frame at the front of m_inBuffer                                    *)

\* When the reader takes a frame to be complete, it is, and what the reader passes on
\* and erases is that frame.
LEMMA FrameAtFront ==
    ASSUME m_inBuffer \in Seq(Byte), wire \in Seq(Byte),
           NEW f \in Frames, NEW rest \in Seq(Byte),
           m_inBuffer \o wire = Written(f) \o rest, Complete
    PROVE  /\ Head(m_inBuffer) = f.start /\ Request = f.body
           /\ ErasedFrame \in Seq(Byte) /\ ErasedFrame \o wire = rest
<1> DEFINE b == f.body
           p == Put(Len(b))
           L == Len(p)
           B == Len(b)
           m == m_inBuffer
           w == wire
           E == Written(f)
           t == Tail(m_inBuffer)
           s == m_inBuffer \o wire
<1>1. f.start \in Byte /\ b \in Seq(Byte) /\ B \in Nat /\ B \in Numbers
  <2>1. f.start \in {SB_HELLO, SB_SINGLEPACKET, SB_ACK} /\ b \in Bodies BY DEF Frames
  <2>2. b \in Seq(Byte) /\ B \in Nat /\ B \in Numbers BY <2>1, BodyBytes
  <2>3. f.start \in Byte BY <2>1, Sizes DEF Byte, SB_HELLO, SB_SINGLEPACKET, SB_ACK
  <2>4. QED BY <2>2, <2>3
<1>2. p \in Seq(Byte) /\ L \in Nat
  <2> HIDE DEF b, B
  <2>1. Put(B) \in Seq(Byte) BY <1>1, PutIs
  <2>2. QED BY <2>1 DEF B
<1>3. /\ E \in Seq(Byte) /\ Len(E) = 1 + L + B /\ E[1] = f.start
      /\ \A i \in 1 .. L : E[1 + i] = p[i]
      /\ \A i \in 1 .. B : E[1 + L + i] = b[i]
  BY WrittenBytes
<1>4. HasLength /\ m # <<>> /\ m \in Seq(Byte) /\ w \in Seq(Byte) /\ s = E \o rest
  BY DEF Complete, HasLength
<1>5. t \in Seq(Byte) /\ Len(t) = Len(m) - 1 /\ \A i \in 1 .. Len(t) : t[i] = m[i + 1]
  BY <1>4, HeadTailProperties
<1>6. Head(m) = m[1] /\ Len(m) \in Nat /\ Len(m) >= 1 /\ Len(w) \in Nat /\ Len(rest) \in Nat
  BY <1>4
<1>7. ReadsBack(B, SubSeq(t, L + 1, Len(t))) /\ PrefixFails(B)
  <2>1. SubSeq(t, L + 1, Len(t)) \in Seq(Byte)
    <3>1. \A i \in L + 1 .. Len(t) : t[i] \in Byte BY <1>2, <1>5
    <3>2. L + 1 \in Int /\ Len(t) \in Int BY <1>2, <1>5
    <3> HIDE DEF t, L
    <3>3. QED BY <3>1, <3>2, SubSeqProperties
  <2> HIDE DEF b, B, p, L, t
  <2>2. QED BY <1>1, <2>1, ReadsBackHolds, PrefixFailsHolds
<1>8. Length = Get(t) /\ (Length).success BY <1>4 DEF Length, HasLength
<1>9. /\ Len(s) = Len(m) + Len(w)
      /\ \A i \in 1 .. Len(m) + Len(w) : s[i] = IF i <= Len(m) THEN m[i] ELSE w[i - Len(m)]
  BY <1>4, ConcatProperties, Zenon
<1>10. /\ Len(s) = Len(E) + Len(rest)
       /\ \A i \in 1 .. Len(E) + Len(rest) :
            s[i] = IF i <= Len(E) THEN E[i] ELSE rest[i - Len(E)]
  <2> HIDE DEF E, s
  <2>1. E \in Seq(Byte) /\ s = E \o rest BY <1>3, <1>4
  <2>2. QED BY <2>1, ConcatProperties, Zenon
<1> HIDE DEF b, B, p, L, m, w, E, t, s
<1>11. s[1] = f.start /\ \A i \in 1 .. L : s[1 + i] = p[i]
  <2>1. s[1] = f.start
    <3>1. 1 \in 1 .. Len(E) + Len(rest) /\ 1 <= Len(E) BY <1>1, <1>2, <1>3, <1>6
    <3>2. QED BY <1>3, <1>10, <3>1
  <2>2. ASSUME NEW i \in 1 .. L PROVE s[1 + i] = p[i]
    <3>1. 1 + i \in 1 .. Len(E) + Len(rest) /\ 1 + i <= Len(E) BY <1>1, <1>2, <1>3, <1>6
    <3>2. QED BY <1>3, <1>10, <3>1
  <2>3. QED BY <2>1, <2>2
<1>12. \A i \in 1 .. B : s[1 + L + i] = b[i]
  <2> SUFFICES ASSUME NEW i \in 1 .. B PROVE s[1 + L + i] = b[i]
    OBVIOUS
  <2>1. 1 + L + i \in 1 .. Len(E) + Len(rest) /\ 1 + L + i <= Len(E)
    BY <1>1, <1>2, <1>3, <1>6
  <2>2. QED BY <1>3, <1>10, <2>1
<1>13. \A i \in 1 .. Len(rest) : s[1 + L + B + i] = rest[i]
  <2> SUFFICES ASSUME NEW i \in 1 .. Len(rest) PROVE s[1 + L + B + i] = rest[i]
    OBVIOUS
  <2>1. /\ 1 + L + B + i \in 1 .. Len(E) + Len(rest) /\ ~(1 + L + B + i <= Len(E))
        /\ (1 + L + B + i) - Len(E) = i
    BY <1>1, <1>2, <1>3, <1>6
  <2>2. QED BY <1>10, <2>1
<1>14. Len(t) >= L
  <2> SUFFICES ASSUME Len(t) < L PROVE FALSE
    BY <1>2, <1>5, <1>6
  <2>1. Len(t) \in 0 .. L - 1 BY <1>2, <1>5, <1>6
  <2> DEFINE u == SubSeq(p, 1, Len(t))
  <2>2. u \in Seq(Byte) /\ Len(u) = Len(t) /\ \A i \in 1 .. Len(t) : u[i] = p[i]
    <3>1. \A i \in 1 .. Len(t) : p[i] \in Byte BY <1>2, <2>1 DEF L
    <3>2. Len(t) \in Int BY <2>1
    <3>3. QED BY <2>1, <3>1, <3>2, SubSeqProperties
  <2> HIDE DEF u
  <2>3. \A i \in 1 .. Len(t) : t[i] = u[i]
    <3> SUFFICES ASSUME NEW i \in 1 .. Len(t) PROVE t[i] = u[i]
      OBVIOUS
    <3>1. t[i] = m[i + 1] BY <1>5
    <3>2. i + 1 \in 1 .. Len(m) + Len(w) /\ i + 1 <= Len(m) BY <1>5, <1>6
    <3>3. s[i + 1] = m[i + 1] BY <1>9, <3>2
    <3>4. i \in 1 .. L /\ 1 + i = i + 1 BY <1>2, <2>1
    <3>5. s[i + 1] = p[i] BY <1>11, <3>4
    <3>6. QED BY <2>2, <3>1, <3>3, <3>5
  <2>4. t = u BY <1>5, <2>2, <2>3, SeqEqual
  <2>5. \A k \in 0 .. L - 1 : ~Get(SubSeq(p, 1, k)).success
    BY <1>7 DEF PrefixFails, p, L, B
  <2>6. ~Get(u).success BY <2>1, <2>5 DEF u
  <2>7. QED BY <1>8, <2>4, <2>6
<1>15. Length = [success |-> TRUE, value |-> B, used |-> L]
  <2> DEFINE v == SubSeq(t, L + 1, Len(t))
             x == p \o v
  <2>1. v \in Seq(Byte) /\ Len(v) = Len(t) - L /\ \A i \in 1 .. Len(t) - L : v[i] = t[L + i]
    <3>1. \A i \in L + 1 .. Len(t) : t[i] \in Byte BY <1>2, <1>5
    <3>2. L + 1 \in Int /\ Len(t) \in Int BY <1>2, <1>5
    <3>3. /\ v \in Seq(Byte)
          /\ Len(v) = IF L + 1 <= Len(t) THEN Len(t) - (L + 1) + 1 ELSE 0
          /\ \A i \in 1 .. Len(t) - (L + 1) + 1 : v[i] = t[L + 1 + i - 1]
      BY <3>1, <3>2, SubSeqProperties
    <3> HIDE DEF v
    <3>4. Len(v) = Len(t) - L BY <1>2, <1>5, <1>14, <3>3
    <3>5. Len(t) - (L + 1) + 1 = Len(t) - L BY <1>2, <1>5, <3>2
    <3>6. \A i \in 1 .. Len(t) - L : L + 1 + i - 1 = L + i BY <1>2
    <3>7. QED BY <3>3, <3>4, <3>5, <3>6
  <2> HIDE DEF v
  <2>2. /\ x \in Seq(Byte) /\ Len(x) = L + Len(v)
        /\ \A i \in 1 .. L + Len(v) : x[i] = IF i <= L THEN p[i] ELSE v[i - L]
    BY <1>2, <2>1, ConcatProperties DEF L
  <2> HIDE DEF x
  <2>3. Len(x) = Len(t) BY <1>2, <1>5, <2>1, <2>2
  <2>4. \A i \in 1 .. Len(t) : t[i] = x[i]
    <3> SUFFICES ASSUME NEW i \in 1 .. Len(t) PROVE t[i] = x[i]
      OBVIOUS
    <3>1. CASE i <= L
      <4>1. t[i] = m[i + 1] BY <1>5
      <4>2. i + 1 \in 1 .. Len(m) + Len(w) /\ i + 1 <= Len(m) BY <1>5, <1>6
      <4>3. s[i + 1] = m[i + 1] BY <1>9, <4>2
      <4>4. i \in 1 .. L /\ 1 + i = i + 1 BY <1>2, <3>1
      <4>5. s[i + 1] = p[i] BY <1>11, <4>4
      <4>6. x[i] = p[i] BY <2>2, <2>3, <3>1
      <4>7. QED BY <4>1, <4>3, <4>5, <4>6
    <3>2. CASE ~(i <= L)
      <4>1. x[i] = v[i - L] BY <2>2, <2>3, <3>2
      <4>2. i - L \in 1 .. Len(t) - L /\ L + (i - L) = i BY <1>2, <1>5, <3>2
      <4>3. QED BY <2>1, <4>1, <4>2
    <3>3. QED BY <3>1, <3>2
  <2>5. t = x BY <1>5, <2>2, <2>3, <2>4, SeqEqual
  <2>6. Get(x) = [success |-> TRUE, value |-> B, used |-> L]
    BY <1>7, Zenon DEF ReadsBack, x, v, p, L, B
  <2>7. QED BY <1>8, <2>5, <2>6
<1>16. HeaderSize = 1 + L /\ (Length).value = B BY <1>15 DEF HeaderSize
<1>17. Len(m) >= 1 + L + B
  <2>1. Len(m) - HeaderSize >= (Length).value BY DEF Complete, m
  <2>2. QED BY <1>1, <1>2, <1>6, <1>16, <2>1
<1>18. \A i \in 1 .. 1 + L + B : m[i] = s[i]
  <2> SUFFICES ASSUME NEW i \in 1 .. 1 + L + B PROVE m[i] = s[i]
    OBVIOUS
  <2>1. i \in 1 .. Len(m) + Len(w) /\ i <= Len(m) BY <1>1, <1>2, <1>6, <1>17
  <2>2. QED BY <1>9, <2>1
<1>19. Head(m_inBuffer) = f.start
  <2>1. 1 \in 1 .. 1 + L + B BY <1>1, <1>2
  <2>2. QED BY <1>6, <1>11, <1>18, <2>1 DEF m
<1>20. Request = f.body
  <2>1. Request = SubSeq(m, L + 2, 1 + L + B)
    <3>1. (1 + L) + 1 = L + 2 /\ (1 + L) + B = 1 + L + B BY <1>1, <1>2
    <3>2. QED BY <1>16, <3>1 DEF Request, m
  <2> DEFINE q == SubSeq(m, L + 2, 1 + L + B)
  <2>2. /\ q \in Seq(Byte) /\ Len(q) = B /\ \A i \in 1 .. B : q[i] = m[1 + L + i]
    <3>1. \A i \in L + 2 .. 1 + L + B : m[i] \in Byte BY <1>1, <1>2, <1>4, <1>17
    <3>2. L + 2 \in Int /\ 1 + L + B \in Int BY <1>1, <1>2
    <3>3. /\ q \in Seq(Byte)
          /\ Len(q) = IF L + 2 <= 1 + L + B THEN (1 + L + B) - (L + 2) + 1 ELSE 0
          /\ \A i \in 1 .. (1 + L + B) - (L + 2) + 1 : q[i] = m[(L + 2) + i - 1]
      BY <3>1, <3>2, SubSeqProperties
    <3> HIDE DEF q
    <3>4. Len(q) = B BY <1>1, <1>2, <3>3
    <3>5. (1 + L + B) - (L + 2) + 1 = B BY <1>1, <1>2
    <3>6. \A i \in 1 .. B : (L + 2) + i - 1 = 1 + L + i BY <1>2
    <3>7. QED BY <3>3, <3>4, <3>5, <3>6
  <2> HIDE DEF q
  <2>3. \A i \in 1 .. B : q[i] = b[i]
    <3> SUFFICES ASSUME NEW i \in 1 .. B PROVE q[i] = b[i]
      OBVIOUS
    <3>1. 1 + L + i \in 1 .. 1 + L + B BY <1>1, <1>2
    <3>2. QED BY <1>12, <1>18, <2>2, <3>1
  <2>4. q = b BY <1>1, <2>2, <2>3, SeqEqual DEF B
  <2>5. QED BY <2>1, <2>4 DEF q, b
<1>21. ErasedFrame \in Seq(Byte) /\ ErasedFrame \o wire = rest
  <2> DEFINE K == 1 + L + B
             e == SubSeq(m, K + 1, Len(m))
             y == e \o w
  <2>1. ErasedFrame = e
    <3>1. (1 + L) + B + 1 = K + 1 BY <1>1, <1>2
    <3>2. QED BY <1>16, <3>1 DEF ErasedFrame, m
  <2>2. K \in Nat /\ K <= Len(m) BY <1>1, <1>2, <1>17
  <2>3. /\ Len(m) + Len(w) = K + Len(rest)
        /\ \A i \in 1 .. Len(rest) : s[K + i] = rest[i]
    BY <1>3, <1>9, <1>10, <1>13
  <2> HIDE DEF K
  <2>4. /\ e \in Seq(Byte) /\ Len(e) = Len(m) - K /\ \A i \in 1 .. Len(m) - K : e[i] = m[K + i]
    <3>1. \A i \in K + 1 .. Len(m) : m[i] \in Byte BY <1>4, <2>2
    <3>2. K + 1 \in Int /\ Len(m) \in Int BY <1>6, <2>2
    <3>3. /\ e \in Seq(Byte)
          /\ Len(e) = IF K + 1 <= Len(m) THEN Len(m) - (K + 1) + 1 ELSE 0
          /\ \A i \in 1 .. Len(m) - (K + 1) + 1 : e[i] = m[(K + 1) + i - 1]
      BY <3>1, <3>2, SubSeqProperties
    <3> HIDE DEF e
    <3>4. Len(e) = Len(m) - K BY <1>6, <2>2, <3>3
    <3>5. Len(m) - (K + 1) + 1 = Len(m) - K BY <1>6, <2>2
    <3>6. \A i \in 1 .. Len(m) - K : (K + 1) + i - 1 = K + i BY <2>2
    <3>7. QED BY <3>3, <3>4, <3>5, <3>6
  <2> HIDE DEF e
  <2>5. /\ y \in Seq(Byte) /\ Len(y) = Len(e) + Len(w)
        /\ \A i \in 1 .. Len(e) + Len(w) : y[i] = IF i <= Len(e) THEN e[i] ELSE w[i - Len(e)]
    BY <1>4, <2>4, ConcatProperties, Zenon
  <2> HIDE DEF y
  <2>6. Len(y) = Len(rest) BY <1>6, <2>2, <2>3, <2>4, <2>5
  <2>7. \A i \in 1 .. Len(rest) : y[i] = rest[i]
    <3> SUFFICES ASSUME NEW i \in 1 .. Len(rest) PROVE y[i] = rest[i]
      OBVIOUS
    <3>1. s[K + i] = rest[i] BY <2>3
    <3>2. K + i \in 1 .. Len(m) + Len(w) /\ i \in 1 .. Len(e) + Len(w)
      BY <1>6, <2>2, <2>3, <2>5, <2>6
    <3>3. CASE i <= Len(e)
      <4>1. i \in 1 .. Len(m) - K /\ K + i <= Len(m) BY <1>6, <2>2, <2>4, <3>3
      <4>2. QED BY <1>9, <2>4, <2>5, <3>1, <3>2, <3>3, <4>1
    <3>4. CASE ~(i <= Len(e))
      <4>1. ~(K + i <= Len(m)) /\ (K + i) - Len(m) = i - Len(e)
        BY <1>6, <2>2, <2>4, <3>4
      <4>2. QED BY <1>9, <2>5, <3>1, <3>2, <3>4, <4>1
    <3>5. QED BY <3>3, <3>4
  <2>8. y = rest BY <2>5, <2>6, <2>7, SeqEqual
  <2>9. QED BY <2>1, <2>4, <2>8 DEF y, w
<1>22. QED BY <1>19, <1>20, <1>21

-----------------------------------------------------------------------------
(* The frames on their way                                                 *)

\* A HELLO may come first and a frame Oscar does not know last; between them are the packets
\* of s after the first k, each once and in order.
DueWith(R, s, k, odd, a, z) ==
    /\ Len(R) = a + (Len(s) - k) + z
    /\ a = 1 => R[1].start = SB_HELLO
    /\ \A i \in 1 .. Len(s) - k :
         R[a + i] = [start |-> SB_SINGLEPACKET, body |-> s[k + i]]
    /\ z = 1 => odd /\ R[Len(R)].start = SB_ACK

Due(R, s, k, odd) == \E a, z \in {0, 1} : DueWith(R, s, k, odd, a, z)

LEMMA DueAfterSend ==
    ASSUME NEW R \in Seq(Frames), NEW s \in Seq(Payloads), NEW k \in 0 .. Len(s),
           NEW p \in Payloads, Due(R, s, k, FALSE)
    PROVE  Due(Append(R, [start |-> SB_SINGLEPACKET, body |-> p]), Append(s, p), k, FALSE)
<1> DEFINE f == [start |-> SB_SINGLEPACKET, body |-> p]
           Q == Append(R, f)
           u == Append(s, p)
<1>0. PICK a \in {0, 1}, z \in {0, 1} : DueWith(R, s, k, FALSE, a, z)
  BY DEF Due
<1>1. /\ Len(R) = a + (Len(s) - k) + z
      /\ a = 1 => R[1].start = SB_HELLO
      /\ \A i \in 1 .. Len(s) - k :
           R[a + i] = [start |-> SB_SINGLEPACKET, body |-> s[k + i]]
      /\ z = 1 => FALSE /\ R[Len(R)].start = SB_ACK
  BY <1>0, Zenon DEF DueWith
<1>2. z = 0 /\ Len(s) \in Nat /\ k \in Nat BY <1>1
<1>3. Len(Q) = Len(R) + 1 /\ Q[Len(R) + 1] = f /\ \A i \in 1 .. Len(R) : Q[i] = R[i]
  OBVIOUS
<1>4. Len(u) = Len(s) + 1 /\ u[Len(s) + 1] = p /\ \A i \in 1 .. Len(s) : u[i] = s[i]
  OBVIOUS
<1> HIDE DEF Q, u
<1>5. Len(Q) = a + (Len(u) - k) + 0 BY <1>1, <1>2, <1>3, <1>4
<1>6. a = 1 => Q[1].start = SB_HELLO
  <2> SUFFICES ASSUME a = 1 PROVE Q[1].start = SB_HELLO
    OBVIOUS
  <2>1. 1 \in 1 .. Len(R) BY <1>1, <1>2
  <2>2. QED BY <1>1, <1>3, <2>1
<1>7. ASSUME NEW i \in 1 .. Len(u) - k PROVE Q[a + i] = [start |-> SB_SINGLEPACKET, body |-> u[k + i]]
  <2>1. CASE i = Len(s) - k + 1
    <3>1. a + i = Len(R) + 1 /\ k + i = Len(s) + 1 BY <1>1, <1>2, <2>1
    <3>2. QED BY <1>3, <1>4, <3>1
  <2>2. CASE i # Len(s) - k + 1
    <3>1. i \in 1 .. Len(s) - k BY <1>2, <1>4, <2>2
    <3>2. a + i \in 1 .. Len(R) /\ k + i \in 1 .. Len(s) BY <1>1, <1>2, <3>1
    <3>3. Q[a + i] = R[a + i] /\ u[k + i] = s[k + i] BY <1>3, <1>4, <3>2
    <3>4. R[a + i] = [start |-> SB_SINGLEPACKET, body |-> s[k + i]] BY <1>1, <3>1
    <3>5. QED BY <3>3, <3>4
  <2>3. QED BY <2>1, <2>2
<1>8. DueWith(Q, u, k, FALSE, a, 0)
  <2>1. 0 = 1 => FALSE /\ Q[Len(Q)].start = SB_ACK OBVIOUS
  <2>2. QED BY <1>5, <1>6, <1>7, <2>1, Zenon DEF DueWith
<1>9. Due(Q, u, k, FALSE) BY <1>8 DEF Due
<1>10. QED BY <1>9 DEF Q, u

LEMMA DueAfterStrange ==
    ASSUME NEW R \in Seq(Frames), NEW s \in Seq(Payloads), NEW k \in 0 .. Len(s),
           NEW f \in Frames, f.start = SB_ACK, Due(R, s, k, FALSE)
    PROVE  Due(Append(R, f), s, k, TRUE)
<1> DEFINE Q == Append(R, f)
<1>0. PICK a \in {0, 1}, z \in {0, 1} : DueWith(R, s, k, FALSE, a, z)
  BY DEF Due
<1>1. /\ Len(R) = a + (Len(s) - k) + z
      /\ a = 1 => R[1].start = SB_HELLO
      /\ \A i \in 1 .. Len(s) - k :
           R[a + i] = [start |-> SB_SINGLEPACKET, body |-> s[k + i]]
      /\ z = 1 => FALSE /\ R[Len(R)].start = SB_ACK
  BY <1>0, Zenon DEF DueWith
<1>2. z = 0 /\ Len(s) \in Nat /\ k \in Nat BY <1>1
<1>3. Len(Q) = Len(R) + 1 /\ Q[Len(R) + 1] = f /\ \A i \in 1 .. Len(R) : Q[i] = R[i]
  OBVIOUS
<1> HIDE DEF Q
<1>4. Len(Q) = a + (Len(s) - k) + 1 BY <1>1, <1>2, <1>3
<1>5. a = 1 => Q[1].start = SB_HELLO
  <2> SUFFICES ASSUME a = 1 PROVE Q[1].start = SB_HELLO
    OBVIOUS
  <2>1. 1 \in 1 .. Len(R) BY <1>1, <1>2
  <2>2. QED BY <1>1, <1>3, <2>1
<1>6. ASSUME NEW i \in 1 .. Len(s) - k PROVE Q[a + i] = [start |-> SB_SINGLEPACKET, body |-> s[k + i]]
  <2>1. a + i \in 1 .. Len(R) BY <1>1, <1>2
  <2>2. QED BY <1>1, <1>3, <2>1
<1>7. Q[Len(Q)].start = SB_ACK BY <1>3
<1>8. DueWith(Q, s, k, TRUE, a, 1) BY <1>4, <1>5, <1>6, <1>7, Zenon DEF DueWith
<1>9. Due(Q, s, k, TRUE) BY <1>8 DEF Due
<1>10. QED BY <1>9 DEF Q

LEMMA DuePacket ==
    ASSUME NEW R \in Seq(Frames), NEW s \in Seq(Payloads), NEW k \in 0 .. Len(s),
           NEW odd \in BOOLEAN, Due(R, s, k, odd),
           Len(R) >= 1, R[1].start = SB_SINGLEPACKET
    PROVE  /\ k + 1 \in 0 .. Len(s) /\ R[1].body = s[k + 1]
           /\ Due(Tail(R), s, k + 1, odd)
<1> DEFINE Q == Tail(R)
<1>0. PICK a \in {0, 1}, z \in {0, 1} : DueWith(R, s, k, odd, a, z)
  BY DEF Due
<1>1. /\ Len(R) = a + (Len(s) - k) + z
      /\ a = 1 => R[1].start = SB_HELLO
      /\ \A i \in 1 .. Len(s) - k :
           R[a + i] = [start |-> SB_SINGLEPACKET, body |-> s[k + i]]
      /\ z = 1 => odd /\ R[Len(R)].start = SB_ACK
  BY <1>0, Zenon DEF DueWith
<1>2. a = 0 /\ Len(s) \in Nat /\ k \in Nat BY <1>1 DEF SB_HELLO, SB_SINGLEPACKET
<1>3. Len(s) - k >= 1
  <2> SUFFICES ASSUME Len(s) - k = 0 PROVE FALSE
    BY <1>2
  <2>1. z = 1 /\ Len(R) = 1 BY <1>1, <1>2
  <2>2. R[Len(R)].start = SB_ACK BY <1>1, <2>1, Zenon
  <2>3. QED BY <2>1, <2>2 DEF SB_ACK, SB_SINGLEPACKET
<1>4. R[1].body = s[k + 1]
  <2>1. 1 \in 1 .. Len(s) - k /\ a + 1 = 1 BY <1>2, <1>3
  <2>2. R[a + 1] = [start |-> SB_SINGLEPACKET, body |-> s[k + 1]] BY <1>1, <2>1
  <2>3. QED BY <2>1, <2>2
<1>5. Len(Q) = Len(R) - 1 /\ \A i \in 1 .. Len(R) - 1 : Q[i] = R[i + 1]
  <2>1. R # <<>> OBVIOUS
  <2>2. QED BY <2>1, HeadTailProperties
<1> HIDE DEF Q
<1>6. Len(Q) = 0 + (Len(s) - (k + 1)) + z BY <1>1, <1>2, <1>5
<1>7. ASSUME NEW i \in 1 .. Len(s) - (k + 1)
      PROVE  Q[0 + i] = [start |-> SB_SINGLEPACKET, body |-> s[(k + 1) + i]]
  <2>1. i + 1 \in 1 .. Len(s) - k /\ a + (i + 1) = i + 1 /\ k + (i + 1) = (k + 1) + i BY <1>2
  <2>2. R[a + (i + 1)] = [start |-> SB_SINGLEPACKET, body |-> s[k + (i + 1)]] BY <1>1, <2>1
  <2>3. i \in 1 .. Len(R) - 1 /\ 0 + i = i BY <1>1, <1>2
  <2>4. QED BY <1>5, <2>1, <2>2, <2>3
<1>8. z = 1 => odd /\ Q[Len(Q)].start = SB_ACK
  <2> SUFFICES ASSUME z = 1 PROVE odd /\ Q[Len(Q)].start = SB_ACK
    OBVIOUS
  <2>1. Len(Q) \in 1 .. Len(R) - 1 /\ Len(Q) + 1 = Len(R) BY <1>1, <1>2, <1>3, <1>5
  <2>2. QED BY <1>1, <1>5, <2>1
<1>9. Due(Q, s, k + 1, odd)
  <2>1. 0 = 1 => Q[1].start = SB_HELLO OBVIOUS
  <2>2. DueWith(Q, s, k + 1, odd, 0, z) BY <1>6, <1>7, <1>8, <2>1, Zenon DEF DueWith
  <2>3. QED BY <2>2 DEF Due
<1>10. k + 1 \in 0 .. Len(s) BY <1>2, <1>3
<1>11. QED BY <1>4, <1>9, <1>10 DEF Q

LEMMA DueOther ==
    ASSUME NEW R \in Seq(Frames), NEW s \in Seq(Payloads), NEW k \in 0 .. Len(s),
           NEW odd \in BOOLEAN, Due(R, s, k, odd),
           Len(R) >= 1, R[1].start # SB_SINGLEPACKET
    PROVE  Due(Tail(R), s, k, odd)
<1> DEFINE Q == Tail(R)
<1>0. PICK a \in {0, 1}, z \in {0, 1} : DueWith(R, s, k, odd, a, z)
  BY DEF Due
<1>1. /\ Len(R) = a + (Len(s) - k) + z
      /\ a = 1 => R[1].start = SB_HELLO
      /\ \A i \in 1 .. Len(s) - k :
           R[a + i] = [start |-> SB_SINGLEPACKET, body |-> s[k + i]]
      /\ z = 1 => odd /\ R[Len(R)].start = SB_ACK
  BY <1>0, Zenon DEF DueWith
<1>2. Len(s) \in Nat /\ k \in Nat /\ Len(s) - k \in Nat /\ Len(R) \in Nat OBVIOUS
<1>3. Len(Q) = Len(R) - 1 /\ \A i \in 1 .. Len(R) - 1 : Q[i] = R[i + 1]
  <2>1. R # <<>> OBVIOUS
  <2>2. QED BY <2>1, HeadTailProperties
<1> HIDE DEF Q
<1>4. 0 = 1 => Q[1].start = SB_HELLO OBVIOUS
<1>5. CASE a = 1
  <2>1. Len(Q) = 0 + (Len(s) - k) + z BY <1>1, <1>2, <1>3, <1>5
  <2>2. ASSUME NEW i \in 1 .. Len(s) - k
        PROVE  Q[0 + i] = [start |-> SB_SINGLEPACKET, body |-> s[k + i]]
    <3>1. R[a + i] = [start |-> SB_SINGLEPACKET, body |-> s[k + i]] BY <1>1
    <3>2. i \in 1 .. Len(R) - 1 /\ 0 + i = i /\ a + i = i + 1 BY <1>1, <1>2, <1>5
    <3>3. QED BY <1>3, <3>1, <3>2
  <2>3. z = 1 => odd /\ Q[Len(Q)].start = SB_ACK
    <3> SUFFICES ASSUME z = 1 PROVE odd /\ Q[Len(Q)].start = SB_ACK
      OBVIOUS
    <3>1. Len(Q) \in 1 .. Len(R) - 1 /\ Len(Q) + 1 = Len(R) BY <1>1, <1>2, <1>3, <2>1
    <3>2. QED BY <1>1, <1>3, <3>1
  <2>4. DueWith(Q, s, k, odd, 0, z) BY <1>4, <2>1, <2>2, <2>3, Zenon DEF DueWith
  <2>5. QED BY <2>4 DEF Due, Q
<1>6. CASE a = 0
  <2>1. Len(s) - k = 0
    <3> SUFFICES ASSUME Len(s) - k >= 1 PROVE FALSE
      BY <1>2
    <3>1. 1 \in 1 .. Len(s) - k /\ a + 1 = 1 BY <1>2, <1>6
    <3>2. R[1] = [start |-> SB_SINGLEPACKET, body |-> s[k + 1]] BY <1>1, <3>1
    <3>3. QED BY <3>2
  <2>2. z = 1 /\ Len(Q) = 0 + (Len(s) - k) + 0 BY <1>1, <1>2, <1>3, <1>6, <2>1
  <2>3. \A i \in 1 .. Len(s) - k : Q[0 + i] = [start |-> SB_SINGLEPACKET, body |-> s[k + i]]
    BY <2>1
  <2>4. Due(Q, s, k, odd)
    <3>1. 0 = 1 => odd /\ Q[Len(Q)].start = SB_ACK OBVIOUS
    <3>2. DueWith(Q, s, k, odd, 0, 0) BY <1>4, <2>2, <2>3, <3>1, Zenon DEF DueWith
    <3>3. QED BY <3>2 DEF Due
  <2>5. QED BY <2>4 DEF Q
<1>7. QED BY <1>5, <1>6

-----------------------------------------------------------------------------
(* The invariant                                                           *)

\* The bytes received and not consumed, and behind them those still on the wire, are whole
\* frames: those of the packets not yet delivered among them, and no other packets.
FramesDue ==
    /\ Len(delivered) \in 0 .. Len(sent)
    /\ \E R \in Seq(Frames) :
         Cut(R, m_inBuffer \o wire) /\ Due(R, sent, Len(delivered), stranger)

FramingInv == TypeOK /\ FramesDue

LEMMA InitFraming == Init => FramingInv
<1> SUFFICES ASSUME Init PROVE FramingInv
  OBVIOUS
<1> USE DEF Init
<1>1. <<>> \in Seq(Frames) /\ <<>> \in Seq(Byte) /\ Len(<<>>) = 0 OBVIOUS
<1>2. Cut(<<>>, <<>>) BY CutNone
<1>3. CASE hello = <<>>
  <2>1. wire = <<>> /\ m_inBuffer = <<>> /\ m_inBuffer \o wire = <<>> BY <1>3
  <2>2. TypeOK
    <3>1. <<>> \in Seq(Payloads) OBVIOUS
    <3>2. sent \in Seq(Payloads) /\ delivered \in Seq(Payloads) BY <3>1
    <3>3. QED BY <1>1, <2>1, <3>2 DEF TypeOK
  <2>3. DueWith(<<>>, sent, Len(delivered), stranger, 0, 0) BY DEF DueWith
  <2>4. Due(<<>>, sent, Len(delivered), stranger) BY <2>3 DEF Due
  <2>5. Len(delivered) \in 0 .. Len(sent) OBVIOUS
  <2>6. QED BY <1>1, <1>2, <2>1, <2>2, <2>4, <2>5 DEF FramingInv, FramesDue
<1>4. CASE hello # <<>>
  <2> DEFINE f == [start |-> SB_HELLO, body |-> hello]
             R == Append(<<>>, f)
  <2>1. f \in Frames BY DEF Frames, Bodies
  <2>2. Written(f) \in Seq(Byte) BY <2>1, WrittenBytes
  <2>3. wire = Written(f) /\ m_inBuffer = <<>> BY <1>4 DEF Written
  <2>4. R \in Seq(Frames) /\ Len(R) = 1 /\ R[1] = f BY <2>1
  <2>5. Cut(R, <<>> \o Written(f)) BY <1>1, <1>2, <2>1, CutAppend
  <2>6. Cut(R, m_inBuffer \o wire) BY <2>3, <2>5
  <2>7. TypeOK
    <3>1. <<>> \in Seq(Payloads) OBVIOUS
    <3>2. sent \in Seq(Payloads) /\ delivered \in Seq(Payloads) BY <3>1
    <3>3. wire \in Seq(Byte) /\ m_inBuffer \in Seq(Byte) BY <1>1, <2>2, <2>3
    <3> HIDE DEF f, R
    <3>4. QED BY <3>2, <3>3 DEF TypeOK
  <2>8. R[1].start = SB_HELLO BY <2>4
  <2> HIDE DEF f, R
  <2>9. DueWith(R, sent, Len(delivered), stranger, 1, 0) BY <2>4, <2>8 DEF DueWith
  <2>10. Due(R, sent, Len(delivered), stranger) BY <2>9 DEF Due
  <2>11. Len(delivered) \in 0 .. Len(sent) OBVIOUS
  <2>12. QED BY <2>4, <2>6, <2>7, <2>10, <2>11 DEF FramingInv, FramesDue
<1>5. QED BY <1>3, <1>4

\* A frame is written behind the others.
LEMMA WritingFrame ==
    ASSUME TypeOK, NEW f \in Frames, NEW R \in Seq(Frames), Cut(R, m_inBuffer \o wire)
    PROVE  /\ wire \o Written(f) \in Seq(Byte)
           /\ Append(R, f) \in Seq(Frames)
           /\ Cut(Append(R, f), m_inBuffer \o (wire \o Written(f)))
<1>1. m_inBuffer \in Seq(Byte) /\ wire \in Seq(Byte) BY DEF TypeOK
<1>2. Written(f) \in Seq(Byte) BY WrittenBytes
<1>3. m_inBuffer \o wire \in Seq(Byte) /\ wire \o Written(f) \in Seq(Byte)
  BY <1>1, <1>2, ConcatProperties
<1>4. Cut(Append(R, f), (m_inBuffer \o wire) \o Written(f)) BY <1>3, CutAppend
<1>5. (m_inBuffer \o wire) \o Written(f) = m_inBuffer \o (wire \o Written(f))
  BY <1>1, <1>2, ThreeInOrder, Zenon
<1>6. QED BY <1>3, <1>4, <1>5

\* The first frame is consumed: what on_StreamRead takes for it is it.
LEMMA ConsumingFrame ==
    ASSUME FramingInv, Complete
    PROVE  /\ ErasedFrame \in Seq(Byte)
           /\ Head(m_inBuffer) = SB_SINGLEPACKET =>
                /\ Len(delivered) + 1 \in 0 .. Len(sent)
                /\ Request = sent[Len(delivered) + 1]
                /\ \E R \in Seq(Frames) :
                     Cut(R, ErasedFrame \o wire) /\ Due(R, sent, Len(delivered) + 1, stranger)
           /\ Head(m_inBuffer) # SB_SINGLEPACKET =>
                \E R \in Seq(Frames) :
                     Cut(R, ErasedFrame \o wire) /\ Due(R, sent, Len(delivered), stranger)
<1>1. PICK R \in Seq(Frames) :
        Cut(R, m_inBuffer \o wire) /\ Due(R, sent, Len(delivered), stranger)
  BY DEF FramingInv, FramesDue
<1>2. /\ m_inBuffer \in Seq(Byte) /\ wire \in Seq(Byte) /\ m_inBuffer \o wire \in Seq(Byte)
      /\ sent \in Seq(Payloads) /\ stranger \in BOOLEAN /\ Len(delivered) \in 0 .. Len(sent)
  BY ConcatProperties DEF FramingInv, FramesDue, TypeOK
<1>3. m_inBuffer \o wire # <<>>
  <2>1. m_inBuffer # <<>> BY DEF Complete, HasLength
  <2>2. QED BY <1>2, <2>1, ConcatEqualIffEmpty
<1>4. /\ Len(R) >= 1 /\ R[1] \in Frames
      /\ \E rest \in Seq(Byte) : m_inBuffer \o wire = Written(R[1]) \o rest /\ Cut(Tail(R), rest)
  BY <1>1, <1>2, <1>3, CutFirst
<1>5. PICK rest \in Seq(Byte) : m_inBuffer \o wire = Written(R[1]) \o rest /\ Cut(Tail(R), rest)
  BY <1>4
<1>6. /\ Head(m_inBuffer) = R[1].start /\ Request = R[1].body
      /\ ErasedFrame \in Seq(Byte) /\ ErasedFrame \o wire = rest
  BY <1>2, <1>4, <1>5, FrameAtFront
<1>7. Tail(R) \in Seq(Frames) BY <1>4
<1>8. Cut(Tail(R), ErasedFrame \o wire) BY <1>5, <1>6
<1>9. ASSUME Head(m_inBuffer) = SB_SINGLEPACKET
      PROVE  /\ Len(delivered) + 1 \in 0 .. Len(sent)
             /\ Request = sent[Len(delivered) + 1]
             /\ Due(Tail(R), sent, Len(delivered) + 1, stranger)
  <2>1. R[1].start = SB_SINGLEPACKET BY <1>6, <1>9
  <2>2. QED BY <1>1, <1>2, <1>4, <1>6, <2>1, DuePacket
<1>10. ASSUME Head(m_inBuffer) # SB_SINGLEPACKET
       PROVE  Due(Tail(R), sent, Len(delivered), stranger)
  <2>1. R[1].start # SB_SINGLEPACKET BY <1>6, <1>10
  <2>2. QED BY <1>1, <1>2, <1>4, <2>1, DueOther
<1>11. QED BY <1>6, <1>7, <1>8, <1>9, <1>10

LEMMA NextFraming == FramingInv /\ [Next]_vars => FramingInv'
<1> SUFFICES ASSUME FramingInv, [Next]_vars PROVE FramingInv'
  OBVIOUS
<1>1. /\ TypeOK /\ m_inBuffer \in Seq(Byte) /\ wire \in Seq(Byte)
      /\ sent \in Seq(Payloads) /\ delivered \in Seq(Payloads) /\ stranger \in BOOLEAN
      /\ Len(delivered) \in 0 .. Len(sent)
  BY DEF FramingInv, FramesDue, TypeOK
<1>2. PICK R \in Seq(Frames) :
        Cut(R, m_inBuffer \o wire) /\ Due(R, sent, Len(delivered), stranger)
  BY DEF FramingInv, FramesDue
<1>3. ASSUME NEW p \in Payloads, SendPacket(p) PROVE FramingInv'
  <2> USE <1>3 DEF SendPacket
  <2> DEFINE f == [start |-> SB_SINGLEPACKET, body |-> p]
             Q == Append(R, f)
  <2>1. f \in Frames BY DEF Frames, Bodies
  <2>2. wire' = wire \o Written(f) BY DEF Written
  <2>3. wire' \in Seq(Byte) /\ Q \in Seq(Frames) /\ Cut(Q, m_inBuffer \o wire')
    BY <1>1, <1>2, <2>1, <2>2, WritingFrame
  <2>4. stranger = FALSE BY <1>1
  <2>5. Due(Q, Append(sent, p), Len(delivered), FALSE)
    BY <1>1, <1>2, <2>4, DueAfterSend
  <2>6. Due(Q, sent', Len(delivered'), stranger') BY <2>4, <2>5
  <2>7. Len(delivered') \in 0 .. Len(sent') /\ sent' \in Seq(Payloads) BY <1>1
  <2> HIDE DEF Q
  <2>8. TypeOK' BY <1>1, <2>3, <2>7 DEF TypeOK
  <2>9. Cut(Q, m_inBuffer' \o wire') BY <2>3
  <2>10. QED BY <2>3, <2>6, <2>7, <2>8, <2>9 DEF FramingInv, FramesDue
<1>4. ASSUME SendStrange PROVE FramingInv'
  <2> USE <1>4 DEF SendStrange
  <2> DEFINE f == [start |-> SB_ACK, body |-> <<>>]
             Q == Append(R, f)
  <2>1. f \in Frames BY DEF Frames, Bodies
  <2>2. wire' = wire \o Written(f) BY DEF Written
  <2>3. wire' \in Seq(Byte) /\ Q \in Seq(Frames) /\ Cut(Q, m_inBuffer \o wire')
    BY <1>1, <1>2, <2>1, <2>2, WritingFrame
  <2>4. stranger = FALSE /\ stranger' = TRUE BY <1>1
  <2>5. f.start = SB_ACK OBVIOUS
  <2> HIDE DEF f
  <2>6. Due(Q, sent, Len(delivered), TRUE) BY <1>1, <1>2, <2>1, <2>4, <2>5, DueAfterStrange
  <2>7. Due(Q, sent', Len(delivered'), stranger') BY <2>4, <2>6
  <2>8. Len(delivered') \in 0 .. Len(sent') BY <1>1
  <2> HIDE DEF Q
  <2>9. TypeOK' BY <1>1, <2>3 DEF TypeOK
  <2>10. Cut(Q, m_inBuffer' \o wire') BY <2>3
  <2>11. QED BY <2>3, <2>7, <2>8, <2>9, <2>10 DEF FramingInv, FramesDue
<1>5. ASSUME NEW n \in 1 .. Len(wire), Receive(n) PROVE FramingInv'
  <2> USE <1>5 DEF Receive
  <2> DEFINE x == SubSeq(wire, 1, n)
             y == SubSeq(wire, n + 1, Len(wire))
  <2>1. x \o y = wire
    <3>1. /\ 1 \in 1 .. Len(wire) + 1 /\ n \in 1 - 1 .. Len(wire) /\ Len(wire) \in n .. Len(wire)
      BY <1>1
    <3>2. x \o y = SubSeq(wire, 1, Len(wire)) BY <1>1, <3>1, ConcatAdjacentSubSeq
    <3>3. QED BY <1>1, <3>2, SubSeqFull
  <2>2. x \in Seq(Byte) /\ y \in Seq(Byte)
    <3>1. n \in Int /\ n + 1 \in Int /\ Len(wire) \in Int BY <1>1
    <3>2. \A i \in 1 .. n : wire[i] \in Byte BY <1>1
    <3>3. \A i \in n + 1 .. Len(wire) : wire[i] \in Byte BY <1>1
    <3>4. x \in Seq(Byte) BY <3>1, <3>2, SubSeqProperties
    <3>5. y \in Seq(Byte) BY <3>1, <3>3, SubSeqProperties
    <3>6. QED BY <3>4, <3>5
  <2>3. m_inBuffer' = m_inBuffer \o x /\ wire' = y OBVIOUS
  <2> HIDE DEF x, y
  <2>4. m_inBuffer' \in Seq(Byte) BY <1>1, <2>2, <2>3, ConcatProperties
  <2>5. (m_inBuffer \o x) \o y = m_inBuffer \o (x \o y)
    BY <1>1, <2>2, ThreeInOrder, Zenon
  <2>6. m_inBuffer' \o wire' = m_inBuffer \o wire BY <2>1, <2>3, <2>5
  <2>7. TypeOK' BY <1>1, <2>2, <2>3, <2>4 DEF TypeOK
  <2>8. QED BY <1>1, <1>2, <2>6, <2>7 DEF FramingInv, FramesDue
<1>6. ASSUME Incomplete PROVE FramingInv'
  <2>1. UNCHANGED <<wire, m_inBuffer, closed, sent, delivered, afterHello, hello, stranger>>
        /\ reading' = FALSE
    BY <1>6 DEF Incomplete
  <2>2. TypeOK' BY <1>1, <2>1 DEF TypeOK
  <2>3. QED BY <1>1, <1>2, <2>1, <2>2 DEF FramingInv, FramesDue
<1>7. ASSUME SinglePacket PROVE FramingInv'
  <2> USE <1>7 DEF SinglePacket
  <2>1. /\ ErasedFrame \in Seq(Byte) /\ Len(delivered) + 1 \in 0 .. Len(sent)
        /\ Request = sent[Len(delivered) + 1]
        /\ \E Q \in Seq(Frames) :
             Cut(Q, ErasedFrame \o wire) /\ Due(Q, sent, Len(delivered) + 1, stranger)
    BY ConsumingFrame
  <2>2. Request \in Payloads
    <3>1. Len(delivered) + 1 \in 1 .. Len(sent) BY <1>1, <2>1
    <3>2. QED BY <1>1, <2>1, <3>1
  <2>3. delivered' \in Seq(Payloads) /\ Len(delivered') = Len(delivered) + 1 BY <1>1, <2>2
  <2>4. TypeOK' BY <1>1, <2>1, <2>3 DEF TypeOK
  <2>5. QED BY <2>1, <2>3, <2>4 DEF FramingInv, FramesDue
<1>8. ASSUME Hello \/ InvalidStartByte PROVE FramingInv'
  <2>1. /\ Complete /\ Head(m_inBuffer) # SB_SINGLEPACKET /\ m_inBuffer' = ErasedFrame
        /\ UNCHANGED <<wire, sent, delivered, hello, stranger>> /\ reading' = FALSE
        /\ afterHello' \in {TRUE, afterHello}
        /\ closed' \in {closed, "oscar"}
    <3>1. CASE Hello
      <4>1. Head(m_inBuffer) # SB_SINGLEPACKET BY <3>1 DEF Hello, SB_HELLO, SB_SINGLEPACKET
      <4>2. closed' \in {closed, "oscar"} BY <3>1 DEF Hello
      <4>3. QED BY <3>1, <4>1, <4>2 DEF Hello
    <3>2. CASE InvalidStartByte
      <4>1. Head(m_inBuffer) # SB_SINGLEPACKET BY <3>2 DEF InvalidStartByte
      <4>2. closed' \in {closed, "oscar"} BY <3>2 DEF InvalidStartByte
      <4>3. QED BY <3>2, <4>1, <4>2 DEF InvalidStartByte
    <3>3. QED BY <1>8, <3>1, <3>2
  <2>2. /\ ErasedFrame \in Seq(Byte)
        /\ \E Q \in Seq(Frames) :
             Cut(Q, ErasedFrame \o wire) /\ Due(Q, sent, Len(delivered), stranger)
    BY <2>1, ConsumingFrame
  <2>3. TypeOK' BY <1>1, <2>1, <2>2 DEF TypeOK
  <2>4. QED BY <1>1, <2>1, <2>2, <2>3 DEF FramingInv, FramesDue
<1>9. ASSUME HandlerCloses PROVE FramingInv'
  <2>1. UNCHANGED <<wire, m_inBuffer, reading, sent, delivered, afterHello, hello, stranger>>
        /\ closed' = "handler"
    BY <1>9 DEF HandlerCloses
  <2>2. TypeOK' BY <1>1, <2>1 DEF TypeOK
  <2>3. QED BY <1>1, <1>2, <2>1, <2>2 DEF FramingInv, FramesDue
<1>10. CASE UNCHANGED vars
  <2>1. TypeOK' BY <1>1, <1>10 DEF TypeOK, vars
  <2>2. QED BY <1>1, <1>2, <1>10, <2>1 DEF FramingInv, FramesDue, vars
<1>11. QED
  BY <1>3, <1>4, <1>5, <1>6, <1>7, <1>8, <1>9, <1>10 DEF Next, on_StreamRead

LEMMA FramingInvariant == Spec => []FramingInv
BY InitFraming, NextFraming, PTL DEF Spec

-----------------------------------------------------------------------------
(* The theorems                                                            *)

\* Every variable keeps its type; above all, whatever on_StreamRead passes on is a packet
\* that may be sent, never a piece of one or bytes of two.
THEOREM TypeCorrect == Spec => []TypeOK
<1>1. FramingInv => TypeOK BY DEF FramingInv
<1>2. QED BY <1>1, FramingInvariant, PTL

\* put_PN$ and get_PN_nothrow, for every width and every size of a group: a number is read
\* as it was put whatever follows it in the buffer, no part of its bytes passes for all of
\* them, and a narrower integer, a negative one included, survives its way through the wider.
THEOREM RoundTripHolds == Spec => []RoundTrip
<1>1. FramingInv => RoundTrip
  <2> SUFFICES ASSUME FramingInv, NEW n \in Numbers
               PROVE  /\ ReadsBack(n, m_inBuffer)
                      /\ PrefixFails(n)
                      /\ \A Bits \in 1 .. Width : n < Pow2[Bits] => NarrowReadsBack(n, Bits)
    BY DEF RoundTrip
  <2>1. m_inBuffer \in Seq(Byte) BY DEF FramingInv, TypeOK
  <2>2. QED BY <2>1, ReadsBackHolds, PrefixFailsHolds, NarrowReadsBackHolds
<1>2. QED BY <1>1, FramingInvariant, PTL

\* on_StreamRead implements a channel: whatever the pieces the bytes come in, packets are
\* passed to RPC whole, once and in the order sendPacketPlain wrote them.
THEOREM OscarImplementsChannel == Spec => ImplementsChannel
<1> USE DEF Connection!vars
<1>1. Init => Connection!Init
  BY DEF Init, Connection!Init
<1>2. FramingInv /\ [Next]_vars => [Connection!Next]_(Connection!vars)
  <2> SUFFICES ASSUME FramingInv, [Next]_vars PROVE [Connection!Next]_(Connection!vars)
    OBVIOUS
  <2>1. ASSUME NEW p \in Payloads, SendPacket(p) PROVE Connection!Send
    BY <2>1 DEF SendPacket, Connection!Send
  <2>2. ASSUME SinglePacket PROVE Connection!Deliver
    <3>1. Len(delivered) + 1 \in 0 .. Len(sent) /\ Request = sent[Len(delivered) + 1]
      BY <2>2, ConsumingFrame DEF SinglePacket
    <3>2. Len(delivered) \in Nat /\ Len(sent) \in Nat BY DEF FramingInv, TypeOK
    <3>3. QED BY <2>2, <3>1, <3>2 DEF SinglePacket, Connection!Deliver
  <2>3. ASSUME Hello \/ InvalidStartByte \/ HandlerCloses
        PROVE  Connection!Break \/ UNCHANGED <<sent, delivered, closed>>
    BY <2>3 DEF Hello, InvalidStartByte, HandlerCloses, Connection!Break
  <2>4. ASSUME SendStrange \/ Incomplete \/ (\E n \in 1 .. Len(wire) : Receive(n)) \/ UNCHANGED vars
        PROVE  UNCHANGED <<sent, delivered, closed>>
    BY <2>4 DEF SendStrange, Incomplete, Receive, vars
  <2>5. UNCHANGED <<sent, delivered, closed>> => UNCHANGED Connection!vars
    OBVIOUS
  <2>6. QED BY <2>1, <2>2, <2>3, <2>4, <2>5 DEF Next, on_StreamRead, Connection!Next
<1>3. QED
  BY <1>1, <1>2, FramingInvariant, PTL DEF Spec, ImplementsChannel, Connection!Spec
=============================================================================
