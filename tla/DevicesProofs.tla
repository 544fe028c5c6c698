--------------------------- MODULE DevicesProofs ---------------------------
(***************************************************************************)
(* Proofs about the device tools, for any network and any calls: what each *)
(* of Packet Tracer's operations does to the devices of a name, what a     *)
(* call that nothing crossed may count on at each of its steps, and so     *)
(* that what such a call answers is true.                                  *)
(***************************************************************************)
EXTENDS Devices, FiniteSetTheorems, NaturalsInduction, WellFoundedInduction, TLAPS

----------------------------------------------------------------------------
\* Natural numbers.

LEMMA SmallestOf ==
  ASSUME NEW T, T \subseteq Nat, T # {}
  PROVE  \E x \in T : \A y \in T : x <= y
<1>1. PICK x \in T : \A y \in T : ~(<<y, x>> \in OpToRel(<, Nat))
  BY Zenon, NatLessThanWellFounded, WFMin
<1>2. \A y \in T : ~(y < x)
  BY <1>1 DEF OpToRel
<1>3. QED BY <1>2

\* Induction, with what is to be proved as a set.
LEMMA EveryNumber ==
  ASSUME NEW T, 0 \in T, \A i \in T \cap Nat : i + 1 \in T
  PROVE  \A i \in Nat : i \in T
<1>1. SUFFICES ASSUME Nat \ T # {} PROVE FALSE
  OBVIOUS
<1>2. PICK x \in Nat \ T : \A y \in Nat \ T : x <= y
  BY <1>1, SmallestOf
<1>3. x - 1 \in Nat
  BY <1>2
<1>4. x - 1 \in T
  BY <1>2, <1>3
<1>5. (x - 1) + 1 \in T
  BY <1>3, <1>4
<1>6. (x - 1) + 1 = x
  BY <1>2
<1>7. QED BY <1>2, <1>5, <1>6

----------------------------------------------------------------------------
\* Networks.

IsList(q) == q \in Seq({q[k] : k \in DOMAIN q})

IsDevice(d) ==
  d \in [id : {d.id}, name : {d.name}, place : {d.place}, on : BOOLEAN, card : BOOLEAN]

IsNetwork(s) == IsList(s) /\ \A i \in DOMAIN s : IsDevice(s[i])

\* Devices are listed in the order they were made.
Numbered(s, m) ==
  /\ \A i \in DOMAIN s : s[i].id \in 1..m
  /\ \A i, j \in DOMAIN s : i < j => s[i].id < s[j].id

Unique(s) == \A i, j \in DOMAIN s : s[i].name = s[j].name => i = j

\* The devices that have this name.
DevicesCalled(s, n) == {s[i] : i \in {j \in DOMAIN s : s[j].name = n}}

LEMMA OneOfAName ==
  ASSUME NEW s, Unique(s), NEW n, NEW d \in DevicesCalled(s, n), NEW e \in DevicesCalled(s, n)
  PROVE  d = e
BY DEF Unique, DevicesCalled

LEMMA KnownAs ==
  ASSUME NEW s, NEW i \in DOMAIN s
  PROVE  s[i] \in DevicesCalled(s, s[i].name)
BY DEF DevicesCalled

LEMMA NoneKnown ==
  ASSUME NEW s, NEW n
  PROVE  DevicesCalled(s, n) = {} <=> \A i \in DOMAIN s : s[i].name # n
BY DEF DevicesCalled

LEMMA OneKnown ==
  ASSUME NEW s, NEW n, NEW k \in DOMAIN s, s[k].name = n,
         \A i \in DOMAIN s : s[i].name = n => i = k
  PROVE  DevicesCalled(s, n) = {s[k]}
<1>1. {j \in DOMAIN s : s[j].name = n} = {k}
  OBVIOUS
<1>2. QED BY <1>1 DEF DevicesCalled

LEMMA AppendOne ==
  ASSUME NEW s, IsNetwork(s), NEW d, IsDevice(d)
  PROVE  LET s2 == Append(s, d) IN
         /\ IsNetwork(s2)
         /\ \A n : n # d.name => DevicesCalled(s2, n) = DevicesCalled(s, n)
         /\ DevicesCalled(s, d.name) = {} => DevicesCalled(s2, d.name) = {d}
         /\ Unique(s) /\ DevicesCalled(s, d.name) = {} => Unique(s2)
         /\ \A m \in Nat : Numbered(s, m) /\ d.id = m + 1 => Numbered(s2, m + 1)
<1> DEFINE s2 == Append(s, d)
           S == {s[i] : i \in DOMAIN s}
<1>1. s \in Seq(S \cup {d}) /\ DOMAIN s = 1..Len(s) /\ Len(s) \in Nat
  <2>1. s \in Seq(S)
    BY DEF IsNetwork, IsList
  <2>2. QED BY <2>1
<1>2. /\ s2 \in Seq(S \cup {d}) /\ Len(s2) = Len(s) + 1 /\ DOMAIN s2 = 1..(Len(s) + 1)
      /\ \A i \in DOMAIN s : s2[i] = s[i]
      /\ s2[Len(s) + 1] = d
  BY <1>1
<1> HIDE DEF s2, S
<1>3. \A i \in DOMAIN s2 : i \in DOMAIN s \/ i = Len(s) + 1
  BY <1>1, <1>2
<1>4. IsNetwork(s2)
  <2>1. \A i \in DOMAIN s2 : IsDevice(s2[i])
    BY <1>2, <1>3 DEF IsNetwork
  <2>2. s2 \in [1..(Len(s) + 1) -> {s2[i] : i \in DOMAIN s2}]
    BY <1>2
  <2>3. IsList(s2)
    BY <1>1, <2>2 DEF IsList
  <2>4. QED BY <2>1, <2>3 DEF IsNetwork
<1>5. \A n : n # d.name => DevicesCalled(s2, n) = DevicesCalled(s, n)
  <2> TAKE n
  <2> HAVE n # d.name
  <2>1. {j \in DOMAIN s2 : s2[j].name = n} = {j \in DOMAIN s : s[j].name = n}
    BY <1>1, <1>2, <1>3
  <2>2. QED BY <1>2, <2>1 DEF DevicesCalled
<1>6. DevicesCalled(s, d.name) = {} => DevicesCalled(s2, d.name) = {d}
  <2> HAVE DevicesCalled(s, d.name) = {}
  <2>1. \A i \in DOMAIN s2 : s2[i].name = d.name => i = Len(s) + 1
    BY <1>2, <1>3, NoneKnown
  <2>2. Len(s) + 1 \in DOMAIN s2
    BY <1>1, <1>2
  <2>3. QED BY <1>2, <2>1, <2>2, OneKnown
<1>7. Unique(s) /\ DevicesCalled(s, d.name) = {} => Unique(s2)
  <2> HAVE Unique(s) /\ DevicesCalled(s, d.name) = {}
  <2>1. \A i \in DOMAIN s : s2[i].name # d.name
    BY <1>2, NoneKnown
  <2>2. QED BY <1>1, <1>2, <1>3, <2>1 DEF Unique
<1>8. \A m \in Nat : Numbered(s, m) /\ d.id = m + 1 => Numbered(s2, m + 1)
  BY <1>1, <1>2, <1>3 DEF Numbered
<1>9. QED BY <1>4, <1>5, <1>6, <1>7, <1>8 DEF s2

\* A device that is changed keeps its number and, unless it gets another, its name.
Replaces(s2, s, k, e) ==
  /\ IsNetwork(s2) /\ DOMAIN s2 = DOMAIN s /\ Len(s2) = Len(s)
  /\ s2[k] = e /\ \A i \in DOMAIN s : i # k => s2[i] = s[i]
  /\ \A m \in Nat : Numbered(s, m) => Numbered(s2, m)
  /\ \A n : n \notin {s[k].name, e.name} => DevicesCalled(s2, n) = DevicesCalled(s, n)
  /\ Unique(s) /\ (e.name # s[k].name => DevicesCalled(s, e.name) = {}) =>
       /\ Unique(s2) /\ DevicesCalled(s2, e.name) = {e}
       /\ e.name # s[k].name => DevicesCalled(s2, s[k].name) = {}

LEMMA ReplaceOne ==
  ASSUME NEW s, IsNetwork(s), NEW k \in DOMAIN s, NEW e, IsDevice(e), e.id = s[k].id
  PROVE  Replaces([s EXCEPT ![k] = e], s, k, e)
<1> DEFINE s2 == [s EXCEPT ![k] = e]
<1>1. /\ DOMAIN s2 = DOMAIN s /\ DOMAIN s = 1..Len(s) /\ Len(s) \in Nat
      /\ s2[k] = e /\ \A i \in DOMAIN s : i # k => s2[i] = s[i]
      /\ Len(s2) = Len(s)
  BY DEF IsNetwork, IsList
<1> HIDE DEF s2
<1>2. IsNetwork(s2)
  <2>1. \A i \in DOMAIN s2 : IsDevice(s2[i])
    BY <1>1 DEF IsNetwork
  <2> DEFINE R == {s2[i] : i \in DOMAIN s2}
  <2>2. s2 \in [1..Len(s) -> R] /\ Len(s) \in Nat
    BY <1>1 DEF s2
  <2> HIDE DEF R
  <2>3. s2 \in Seq(R)
    BY <2>2
  <2>4. QED BY <2>1, <2>3 DEF IsNetwork, IsList, R
<1>3. \A m \in Nat : Numbered(s, m) => Numbered(s2, m)
  BY <1>1 DEF Numbered
<1>4. \A n : n \notin {s[k].name, e.name} => DevicesCalled(s2, n) = DevicesCalled(s, n)
  <2> TAKE n
  <2> HAVE n \notin {s[k].name, e.name}
  <2>1. {j \in DOMAIN s2 : s2[j].name = n} = {j \in DOMAIN s : s[j].name = n} \ {k}
    BY <1>1
  <2>2. k \notin {j \in DOMAIN s : s[j].name = n}
    OBVIOUS
  <2>3. QED BY <1>1, <2>1, <2>2 DEF DevicesCalled
<1>5. ASSUME Unique(s), e.name # s[k].name => DevicesCalled(s, e.name) = {}
      PROVE  /\ Unique(s2) /\ DevicesCalled(s2, e.name) = {e}
             /\ e.name # s[k].name => DevicesCalled(s2, s[k].name) = {}
  <2>1. \A i \in DOMAIN s : i # k => s2[i].name \notin {e.name, s[k].name}
    BY <1>1, <1>5, NoneKnown DEF Unique
  <2>2. Unique(s2)
    BY <1>1, <1>5, <2>1 DEF Unique
  <2>3. DevicesCalled(s2, e.name) = {e}
    <3>1. k \in DOMAIN s2 /\ s2[k].name = e.name /\ \A i \in DOMAIN s2 : s2[i].name = e.name => i = k
      BY <1>1, <2>1
    <3>2. QED BY <1>1, <3>1, OneKnown
  <2>4. e.name # s[k].name => DevicesCalled(s2, s[k].name) = {}
    BY <1>1, <2>1, NoneKnown
  <2>5. QED BY <2>2, <2>3, <2>4
<1>6. QED BY <1>1, <1>2, <1>3, <1>4, <1>5 DEF Replaces, s2

\* The function that Without is made of exists.
LEMMA KeptIsThere ==
  ASSUME NEW s, Len(s) \in Nat, NEW n
  PROVE  \E g :
           /\ Without(s, n) = g[Len(s)]
           /\ g[0] = <<>>
           /\ \A k \in 1..Len(s) : g[k] = IF s[k].name = n THEN g[k - 1] ELSE Append(g[k - 1], s[k])
<1> DEFINE next(k, q) == IF s[k].name = n THEN q ELSE Append(q, s[k])
           R(g, m) == g = [k \in 0..m |-> IF k = 0 THEN <<>> ELSE next(k, g[k - 1])]
           T == {m \in Nat : \E g : R(g, m)}
           step(g, m) == [k \in 0..(m + 1) |-> IF k <= m THEN g[k] ELSE next(m + 1, g[m])]
<1> HIDE DEF next
<1>1. R([k \in 0..0 |-> <<>>], 0)
  OBVIOUS
<1>2. ASSUME NEW m \in Nat, NEW g, R(g, m) PROVE R(step(g, m), m + 1)
  <2> DEFINE h == step(g, m)
  <2>1. \A k \in 0..m : h[k] = g[k] /\ g[k] = IF k = 0 THEN <<>> ELSE next(k, g[k - 1])
    BY <1>2
  <2>2. \A k \in 0..m : k # 0 => k - 1 \in 0..m
    OBVIOUS
  <2>3. \A k \in 0..m : h[k] = IF k = 0 THEN <<>> ELSE next(k, h[k - 1])
    BY <2>1, <2>2
  <2>4. h[m + 1] = next(m + 1, h[m]) /\ (m + 1) - 1 = m
    <3>1. /\ m + 1 \in 0..(m + 1) /\ m \in 0..(m + 1) /\ m <= m /\ ~(m + 1 <= m)
          /\ (m + 1) - 1 = m
      OBVIOUS
    <3>2. QED BY <3>1
  <2>5. \A k \in 0..(m + 1) : h[k] = IF k = 0 THEN <<>> ELSE next(k, h[k - 1])
    <3> HIDE DEF h
    <3>1. \A k \in 0..(m + 1) : k \in 0..m \/ k = m + 1
      OBVIOUS
    <3>2. m + 1 # 0
      OBVIOUS
    <3>3. QED BY <2>3, <2>4, <3>1, <3>2
  <2>6. h = [k \in 0..(m + 1) |-> h[k]]
    OBVIOUS
  <2> HIDE DEF h
  <2>7. h = [k \in 0..(m + 1) |-> IF k = 0 THEN <<>> ELSE next(k, h[k - 1])]
    BY <2>5, <2>6
  <2>8. QED BY <2>7 DEF h
<1>3. \A m \in Nat : m \in T
  <2>1. 0 \in T
    BY <1>1
  <2>2. ASSUME NEW m \in T \cap Nat PROVE m + 1 \in T
    <3>1. PICK g : R(g, m)
      OBVIOUS
    <3>2. m + 1 \in Nat /\ R(step(g, m), m + 1)
      BY <1>2, <3>1
    <3> HIDE DEF R, step
    <3>3. QED BY <3>2
  <2> HIDE DEF T
  <2>3. QED BY <2>1, <2>2, EveryNumber
<1>4. PICK g0 : R(g0, Len(s))
  BY <1>3
<1> DEFINE g == CHOOSE g : R(g, Len(s))
<1>5. R(g, Len(s))
  BY <1>4
<1>6. Without(s, n) = g[Len(s)]
  BY DEF Without, next
<1> HIDE DEF g
<1>7. g[0] = <<>> /\ \A k \in 1..Len(s) : g[k] = next(k, g[k - 1])
  BY <1>5
<1>8. QED BY <1>6, <1>7 DEF next

LEMMA RemoveName ==
  ASSUME NEW s, IsNetwork(s), NEW m \in Nat, Numbered(s, m), NEW n
  PROVE  LET s2 == Without(s, n) IN
         /\ IsNetwork(s2) /\ Numbered(s2, m)
         /\ DevicesCalled(s2, n) = {}
         /\ \A b : b # n => DevicesCalled(s2, b) = DevicesCalled(s, b)
         /\ Unique(s) => Unique(s2)
<1> DEFINE S == {s[i] : i \in DOMAIN s}
           Good(q, k) ==
             /\ q \in Seq(S)
             /\ \A j \in DOMAIN q : \E i \in 1..k : q[j] = s[i] /\ s[i].name # n
             /\ \A i \in 1..k : s[i].name # n => \E j \in DOMAIN q : q[j] = s[i]
             /\ \A i, j \in DOMAIN q : i < j => q[i].id < q[j].id
<1>1. s \in Seq(S) /\ DOMAIN s = 1..Len(s) /\ Len(s) \in Nat
  <2>1. s \in Seq(S)
    BY DEF IsNetwork, IsList
  <2>2. QED BY <2>1
<1>2. PICK g : /\ Without(s, n) = g[Len(s)]
               /\ g[0] = <<>>
               /\ \A k \in 1..Len(s) : g[k] = IF s[k].name = n THEN g[k - 1] ELSE Append(g[k - 1], s[k])
  BY <1>1, KeptIsThere
<1>3. \A k \in DOMAIN s : s[k] \in S
  OBVIOUS
<1> HIDE DEF S
<1>4. Good(<<>>, 0)
  OBVIOUS
<1>5. ASSUME NEW k \in 1..Len(s), NEW q, Good(q, k - 1), s[k].name = n PROVE Good(q, k)
  BY <1>1, <1>5
<1>6. ASSUME NEW k \in 1..Len(s), NEW q, Good(q, k - 1), s[k].name # n PROVE Good(Append(q, s[k]), k)
  <2> DEFINE r == Append(q, s[k])
  <2>1. q \in Seq(S) /\ s[k] \in S
    BY <1>1, <1>3, <1>6
  <2>2. /\ r \in Seq(S) /\ DOMAIN q = 1..Len(q) /\ Len(q) \in Nat /\ DOMAIN r = 1..(Len(q) + 1)
        /\ \A j \in DOMAIN q : r[j] = q[j]
        /\ r[Len(q) + 1] = s[k]
    BY <2>1
  <2> HIDE DEF r
  <2>3. \A j \in DOMAIN r : j \in DOMAIN q \/ j = Len(q) + 1
    BY <2>2
  <2>4. \A j \in DOMAIN r : \E i \in 1..k : r[j] = s[i] /\ s[i].name # n
    BY <1>1, <1>6, <2>2, <2>3
  <2>5. \A i \in 1..k : s[i].name # n => \E j \in DOMAIN r : r[j] = s[i]
    BY <1>1, <1>6, <2>2
  <2>6. \A i \in 1..(k - 1) : s[i].id < s[k].id
    BY <1>1 DEF Numbered
  <2>7. \A j \in DOMAIN q : q[j].id < s[k].id
    BY <1>6, <2>6
  <2>8. \A i, j \in DOMAIN r : i < j => r[i].id < r[j].id
    BY <1>6, <2>2, <2>3, <2>7
  <2>9. QED BY <2>2, <2>4, <2>5, <2>8 DEF r
<1> DEFINE T == {k \in Nat : k <= Len(s) => Good(g[k], k)}
<1> HIDE DEF Good
<1>7. Good(g[Len(s)], Len(s))
  <2>1. 0 \in T
    BY <1>2, <1>4
  <2>2. ASSUME NEW k \in T \cap Nat PROVE k + 1 \in T
    <3>1. CASE k + 1 <= Len(s)
      <4>1. Good(g[k], k) /\ (k + 1) - 1 = k /\ k + 1 \in 1..Len(s)
        BY <1>1, <3>1
      <4>2. CASE s[k + 1].name = n
        BY <1>2, <1>5, <4>1, <4>2
      <4>3. CASE s[k + 1].name # n
        BY <1>2, <1>6, <4>1, <4>3
      <4>4. QED BY <4>2, <4>3
    <3>2. QED BY <1>1, <3>1
  <2>3. \A k \in Nat : k \in T
    <3> HIDE DEF T
    <3>1. QED BY <2>1, <2>2, EveryNumber
  <2>4. QED BY <1>1, <2>3
<1> DEFINE s2 == Without(s, n)
<1>8. Good(s2, Len(s))
  BY <1>2, <1>7
<1> HIDE DEF s2
<1> USE DEF Good
<1>9. DOMAIN s2 = 1..Len(s2) /\ Len(s2) \in Nat
  BY <1>8
<1>10. IsNetwork(s2)
  <2>1. \A j \in DOMAIN s2 : IsDevice(s2[j])
    BY <1>1, <1>8 DEF IsNetwork
  <2>2. s2 \in [1..Len(s2) -> {s2[j] : j \in DOMAIN s2}]
    BY <1>8, <1>9
  <2>3. s2 \in Seq({s2[j] : j \in DOMAIN s2})
    BY <1>9, <2>2
  <2>4. QED BY <2>1, <2>3 DEF IsNetwork, IsList
<1>11. Numbered(s2, m)
  BY <1>1, <1>8 DEF Numbered
<1>12. DevicesCalled(s2, n) = {}
  BY <1>8, NoneKnown
<1>13. \A b : b # n => DevicesCalled(s2, b) = DevicesCalled(s, b)
  <2> TAKE b
  <2> HAVE b # n
  <2>1. ASSUME NEW j \in DOMAIN s2, s2[j].name = b PROVE \E i \in DOMAIN s : s2[j] = s[i] /\ s[i].name = b
    BY <1>1, <1>8, <2>1
  <2>2. ASSUME NEW i \in DOMAIN s, s[i].name = b PROVE \E j \in DOMAIN s2 : s2[j] = s[i] /\ s2[j].name = b
    BY <1>1, <1>8, <2>2
  <2>3. QED BY <2>1, <2>2 DEF DevicesCalled
<1>14. Unique(s) => Unique(s2)
  <2> SUFFICES ASSUME Unique(s), NEW i \in DOMAIN s2, NEW j \in DOMAIN s2, s2[i].name = s2[j].name
               PROVE  i = j
    BY DEF Unique
  <2>1. PICK a \in DOMAIN s : s2[i] = s[a]
    BY <1>1, <1>8
  <2>2. PICK b \in DOMAIN s : s2[j] = s[b]
    BY <1>1, <1>8
  <2>3. s2[i] = s2[j]
    BY <2>1, <2>2 DEF Unique
  <2>4. s2[i].id \in Nat /\ ~(s2[i].id < s2[j].id) /\ ~(s2[j].id < s2[i].id)
    <3>1. s2[i].id \in 1..m
      BY <2>1 DEF Numbered
    <3>2. QED BY <2>3, <3>1
  <2>5. (i < j => s2[i].id < s2[j].id) /\ (j < i => s2[j].id < s2[i].id)
    BY <1>8
  <2>6. i \in Nat /\ j \in Nat
    <3> HIDE DEF Good
    <3>1. QED BY <1>9
  <2> HIDE DEF Good
  <2>7. ~(i < j) /\ ~(j < i)
    BY <2>4, <2>5
  <2>8. QED BY <2>6, <2>7
<1>15. QED BY <1>10, <1>11, <1>12, <1>13, <1>14 DEF s2

----------------------------------------------------------------------------
\* Looking up.

LEMMA HereIsKnown ==
  ASSUME NEW n
  PROVE  Here(n) <=> DevicesCalled(devices, n) # {}
BY DEF Here, Called, Positions, DevicesCalled

LEMMA AtIsFirst ==
  ASSUME IsNetwork(devices), NEW n, Here(n)
  PROVE  At(n) \in DOMAIN devices /\ devices[At(n)].name = n
<1>1. Called(n) \subseteq Nat /\ Called(n) # {}
  <2>1. DOMAIN devices = 1..Len(devices)
    BY DEF IsNetwork, IsList
  <2>2. QED BY <2>1 DEF Here, Called, Positions
<1>2. \E i \in Called(n) : \A j \in Called(n) : i <= j
  BY <1>1, SmallestOf
<1>3. At(n) \in Called(n)
  BY <1>2 DEF At
<1>4. QED BY <1>3 DEF Called, Positions

LEMMA DeviceIsKnown ==
  ASSUME IsNetwork(devices), NEW n, Here(n)
  PROVE  Device(n) \in DevicesCalled(devices, n) /\ IsDevice(Device(n)) /\ Device(n).name = n
BY AtIsFirst DEF Device, DevicesCalled, IsNetwork

LEMMA TheDeviceKnown ==
  ASSUME IsNetwork(devices), Unique(devices), NEW n, Here(n)
  PROVE  DevicesCalled(devices, n) = {Device(n)}
BY DeviceIsKnown, OneOfAName

PickNames == {Picks[k] : k \in DOMAIN Picks}

LEMMA FirstNumbers ==
  ASSUME NEW n \in Nat
  PROVE  IsFiniteSet(1..n) /\ Cardinality(1..n) = n
BY FS_Interval

\* There are more names to pick from than devices were ever made.
LEMMA PickIsNew ==
  ASSUME IsNetwork(devices), made \in Nat, made <= MaxMade, Numbered(devices, made)
  PROVE  Pick \in PickNames /\ ~Here(Pick)
<1>1. DOMAIN Picks = 1..Len(Picks) /\ Len(Picks) \in Nat /\ made < Len(Picks)
  BY PicksAssumption
<1>2. \E k \in DOMAIN Picks : ~Here(Picks[k])
  <2> SUFFICES ASSUME \A k \in DOMAIN Picks : Here(Picks[k])
               PROVE  FALSE
    OBVIOUS
  <2> DEFINE f == [k \in DOMAIN Picks |-> devices[At(Picks[k])].id]
  <2>1. \A k \in DOMAIN Picks : At(Picks[k]) \in DOMAIN devices /\ devices[At(Picks[k])].name = Picks[k]
    BY AtIsFirst
  <2>2. f \in [DOMAIN Picks -> 1..made]
    BY <2>1 DEF Numbered
  <2>3. /\ IsFiniteSet(DOMAIN Picks) /\ IsFiniteSet(1..made)
        /\ Cardinality(1..made) < Cardinality(DOMAIN Picks)
    <3>1. IsFiniteSet(1..made) /\ Cardinality(1..made) = made
      BY FirstNumbers
    <3>2. IsFiniteSet(1..Len(Picks)) /\ Cardinality(1..Len(Picks)) = Len(Picks)
      BY Zenon, <1>1, FirstNumbers
    <3>3. QED BY <1>1, <3>1, <3>2
  <2> HIDE DEF f
  <2>4. PICK j \in DOMAIN Picks, k \in DOMAIN Picks : j # k /\ f[j] = f[k]
    BY <2>2, <2>3, FS_PigeonHole
  <2>5. devices[At(Picks[j])].id = devices[At(Picks[k])].id
    BY <2>4 DEF f
  <2>6. At(Picks[j]) = At(Picks[k])
    <3>1. DOMAIN devices = 1..Len(devices) /\ Len(devices) \in Nat
      BY DEF IsNetwork, IsList
    <3>2. QED BY <2>1, <2>5, <3>1 DEF Numbered
  <2>7. Picks[j] = Picks[k]
    BY <2>1, <2>6
  <2>8. QED BY <2>4, <2>7, PicksAssumption
<1>3. \E k \in DOMAIN Picks : ~Here(Picks[k]) /\ \A j \in 1..(k - 1) : Here(Picks[j])
  <2> DEFINE T == {k \in DOMAIN Picks : ~Here(Picks[k])}
  <2>1. T \subseteq Nat /\ T # {}
    BY <1>1, <1>2
  <2>2. PICK k \in T : \A j \in T : k <= j
    BY <2>1, SmallestOf
  <2>3. \A j \in 1..(k - 1) : Here(Picks[j])
    BY <1>1, <2>2
  <2>4. QED BY <2>2, <2>3
<1>4. QED BY <1>3 DEF Pick, PickNames

----------------------------------------------------------------------------
\* What a call knows at each of its steps, if nothing has crossed it.

IsCall(c) ==
  /\ c \in [pc : {c.pc}, req : {c.req}, aim : {c.aim}, count : {c.count}, rows : {c.rows},
             back : {c.back}, applied : {c.applied}, result : {c.result},
             touched : {c.touched}, cut : {c.cut}, crossed : BOOLEAN]
  /\ IsList(c.rows) /\ IsList(c.back)

\* The steps of each tool.
StandsRight(c) ==
  /\ c.req \in Requests
  /\ c.req.tool = "add"    => c.pc \in {"unused", "count", "create", "boot", "setname", "describe"}
  /\ c.req.tool = "rename" => c.pc \in {"find", "unused", "setname", "describe"}
  /\ c.req.tool = "remove" => c.pc \in {"find", "remove", "reply"}
  /\ c.req.tool = "move"   => c.pc \in {"find", "move", "describe"}
  /\ c.req.tool = "power"  => c.pc \in {"find", "look", "switch", "boot", "verify"}
  /\ c.req.tool = "module" => c.pc \in {"find", "off", "change", "on", "boot", "after"}
  /\ c.req.tool = "cycle"  => c.pc \in {"count", "row", "cut", "darken", "find", "look", "switch", "boot", "verify"}
  /\ c.pc = "darken" => c.rows # <<>>
  /\ c.req.tool = "cycle" /\ c.pc \in {"find", "look", "switch", "boot", "verify"} => c.back # <<>>

Untouched(c) == c.touched = {} /\ c.cut = {}

\* The device that was added is there under its new name, and the name it is to get is free.
HasAdded(c) == c.req.tool = "add" /\ c.pc \in {"boot", "setname", "describe"}
AddIsRight(c, s) ==
  c.req.tool = "add" =>
    /\ c.cut = {}
    /\ ~HasAdded(c) => c.touched = {}
    /\ c.pc = "unused" => c.req.name # NoName
    /\ c.pc \in {"count", "create"} /\ c.req.name # NoName => DevicesCalled(s, c.req.name) = {}
    /\ HasAdded(c) =>
         \E d \in DevicesCalled(s, c.aim) : c.touched = {d.id} /\ (c.req.at # Grid => d.place = c.req.at)
    /\ c.pc \in {"boot", "setname"} =>
         c.aim \in PickNames /\ (c.req.name \notin {NoName, c.aim} => DevicesCalled(s, c.req.name) = {})
    /\ c.pc = "setname" => c.req.name \notin {NoName, c.aim}
    /\ c.pc = "describe" => IF c.req.name = NoName THEN c.aim \in PickNames ELSE c.aim = c.req.name

RenameIsRight(c, s) ==
  c.req.tool = "rename" =>
    /\ c.cut = {}
    /\ c.pc # "describe" => c.touched = {} /\ c.aim = c.req.name
    /\ c.pc \in {"unused", "setname"} => c.req.name # c.req.to
    /\ c.pc = "setname" => DevicesCalled(s, c.req.to) = {}
    /\ c.pc = "describe" =>
         /\ c.aim = c.req.to /\ \E d \in DevicesCalled(s, c.req.to) : c.touched \subseteq {d.id}
         /\ c.req.name # c.req.to => DevicesCalled(s, c.req.name) = {}

RemoveIsRight(c, s) ==
  c.req.tool = "remove" =>
    /\ c.cut = {} /\ c.aim = c.req.name
    /\ c.pc # "reply" => c.touched = {}
    /\ c.pc = "reply" => DevicesCalled(s, c.req.name) = {} /\ (c.applied = "yes" <=> c.touched # {})

MoveIsRight(c, s) ==
  c.req.tool = "move" =>
    /\ c.cut = {} /\ c.aim = c.req.name
    /\ c.pc # "describe" => c.touched = {}
    /\ c.pc = "describe" => DevicesCalled(s, c.req.name) # {} /\ \A d \in DevicesCalled(s, c.req.name) : d.place = c.req.at

PowerIsRight(c, s) ==
  c.req.tool = "power" =>
    /\ c.cut = {} /\ c.aim = c.req.name
    /\ c.pc \in {"find", "look", "switch"} => c.touched = {}
    /\ c.pc \in {"look", "switch", "boot", "verify"} => DevicesCalled(s, c.req.name) # {}
    /\ c.pc \in {"boot", "verify"} => \A d \in DevicesCalled(s, c.req.name) : d.on = c.req.on

\* The device is off while it is changed, and on again before the call returns.
ModuleIsRight(c, s) ==
  c.req.tool = "module" =>
    /\ c.aim = c.req.name
    /\ c.pc \in {"find", "off"} => Untouched(c)
    /\ c.pc # "find" => DevicesCalled(s, c.req.name) # {}
    /\ c.pc \in {"off", "change"} => \A d \in DevicesCalled(s, c.req.name) : d.card # c.req.on
    /\ c.pc = "change" => \A d \in DevicesCalled(s, c.req.name) : ~d.on
    /\ c.pc \in {"change", "on", "boot", "after"} => \A d \in DevicesCalled(s, c.req.name) : c.cut = {d.id}
    /\ c.pc \in {"on", "boot", "after"} =>
         /\ c.applied \in {"yes", "lost"}
         /\ c.applied = "yes" => \A d \in DevicesCalled(s, c.req.name) : d.card = c.req.on
    /\ c.pc \in {"boot", "after"} => \A d \in DevicesCalled(s, c.req.name) : d.on

\* First the devices are listed.
Listing(c, s) ==
  /\ Untouched(c) /\ c.back = <<>>
  /\ c.pc = "count" => c.rows = <<>>
  /\ c.pc = "row" =>
       c.count = Len(s) /\ Len(c.rows) <= Len(s) /\ \A k \in DOMAIN c.rows : c.rows[k] = s[k].name

\* Then those that are on go off, in that order; what is left of the list are the last names.
Through(c, s) == Len(s) - Len(c.rows)
Cutting(c, s) ==
  /\ Through(c, s) \in Nat
  /\ \A k \in DOMAIN c.rows : Through(c, s) + k \in DOMAIN s /\ c.rows[k] = s[Through(c, s) + k].name
  /\ \A i \in DOMAIN s :
       IF i <= Through(c, s) THEN ~s[i].on /\ (s[i].id \in c.cut <=> \E k \in DOMAIN c.back : c.back[k] = s[i].name)
       ELSE s[i].id \notin c.cut
  /\ \A k \in DOMAIN c.back : \E i \in DOMAIN s : i <= Through(c, s) /\ c.back[k] = s[i].name
  /\ c.pc = "darken" => c.rows # <<>>

\* And what was cut comes back; what is not yet back is off.
Restoring(c, s) ==
  /\ c.back # <<>> /\ c.aim = Head(c.back)
  /\ \A k \in DOMAIN c.back : \E i \in DOMAIN s : c.back[k] = s[i].name /\ s[i].id \in c.cut
  /\ \A i \in DOMAIN s : s[i].on => s[i].id \in c.cut
  /\ \A i \in DOMAIN s : s[i].id \in c.cut => s[i].on \/ \E k \in DOMAIN c.back : c.back[k] = s[i].name
  /\ c.pc \in {"boot", "verify"} => \A i \in DOMAIN s : s[i].name = c.aim => s[i].on

CycleIsRight(c, s) ==
  c.req.tool = "cycle" =>
    /\ c.pc \in {"count", "row"} => Listing(c, s)
    /\ c.pc \in {"cut", "darken"} => Cutting(c, s)
    /\ c.pc \in {"find", "look", "switch", "boot", "verify"} => Restoring(c, s)

Right(c, s) ==
  /\ AddIsRight(c, s) /\ RenameIsRight(c, s) /\ RemoveIsRight(c, s) /\ MoveIsRight(c, s)
  /\ PowerIsRight(c, s) /\ ModuleIsRight(c, s) /\ CycleIsRight(c, s)

----------------------------------------------------------------------------
\* What the calls beside it must leave alone for that.

Own(c) == NamesOf(c.req) \cup (IF HasAdded(c) THEN {c.aim} ELSE {})

SameButPlaces(s, s2) ==
  /\ DOMAIN s2 = DOMAIN s /\ Len(s2) = Len(s)
  /\ \A i \in DOMAIN s : s2[i].id = s[i].id /\ s2[i].name = s[i].name /\ s2[i].on = s[i].on

SamePlace(s, s2, n) ==
  {d.place : d \in DevicesCalled(s2, n)} = {d.place : d \in DevicesCalled(s, n)}

LeftTo(c, s, s2) ==
  CASE c.req.tool = "cycle" -> SameButPlaces(s, s2)
    [] c.req.tool = "move"  -> \A n \in Own(c) : SamePlace(s, s2, n)
    [] OTHER                -> \A n \in Own(c) : DevicesCalled(s2, n) = DevicesCalled(s, n)

LEMMA CycleStaysRight ==
  ASSUME NEW c, NEW s, IsNetwork(s), IsList(c.rows), NEW s2, CycleIsRight(c, s), SameButPlaces(s, s2)
  PROVE  CycleIsRight(c, s2)
<1>1. /\ DOMAIN s2 = DOMAIN s /\ Len(s2) = Len(s)
      /\ \A i \in DOMAIN s : s2[i].id = s[i].id /\ s2[i].name = s[i].name /\ s2[i].on = s[i].on
  BY DEF SameButPlaces
<1>2. Through(c, s2) = Through(c, s)
  BY <1>1 DEF Through
<1>3. Listing(c, s) => Listing(c, s2)
  <2>1. DOMAIN c.rows = 1..Len(c.rows) /\ DOMAIN s = 1..Len(s) /\ Len(c.rows) \in Nat /\ Len(s) \in Nat
    BY DEF IsNetwork, IsList
  <2>2. QED BY <1>1, <2>1 DEF Listing
<1>4. Cutting(c, s) => Cutting(c, s2)
  BY <1>1, <1>2 DEF Cutting
<1>5. Restoring(c, s) => Restoring(c, s2)
  BY <1>1 DEF Restoring
<1>6. QED BY Zenon, <1>3, <1>4, <1>5 DEF CycleIsRight

LEMMA StaysRight ==
  ASSUME NEW c, IsCall(c), NEW s, IsNetwork(s), NEW s2,
         c.req \in Requests, Right(c, s), LeftTo(c, s, s2)
  PROVE  Right(c, s2)
<1>1. c.req.tool \in Tools /\ (c.req.tool \notin {"add", "cycle"} => c.req.name # NoName)
      /\ (c.req.tool = "rename" => c.req.to # NoName)
  BY RequestsAssumption
<1>2. (c.req.name # NoName => c.req.name \in Own(c)) /\ (c.req.to # NoName => c.req.to \in Own(c))
      /\ (HasAdded(c) => c.aim \in Own(c))
  BY DEF Own, NamesOf
<1>3. CASE c.req.tool = "cycle"
  <2>1. CycleIsRight(c, s2)
    BY <1>3, CycleStaysRight DEF Right, LeftTo, IsCall
  <2>2. QED BY <1>3, <2>1 DEF Right, AddIsRight, RenameIsRight, RemoveIsRight, MoveIsRight, PowerIsRight, ModuleIsRight
<1>4. CASE c.req.tool = "move"
  <2>1. SamePlace(s, s2, c.req.name)
    BY <1>1, <1>2, <1>4 DEF LeftTo
  <2>2. MoveIsRight(c, s2)
    BY <1>4, <2>1 DEF Right, MoveIsRight, SamePlace
  <2>3. QED BY <1>4, <2>2 DEF Right, AddIsRight, RenameIsRight, RemoveIsRight, CycleIsRight, PowerIsRight, ModuleIsRight
<1>5. CASE c.req.tool \notin {"cycle", "move"}
  <2>1. \A n \in Own(c) : DevicesCalled(s2, n) = DevicesCalled(s, n)
    BY <1>5 DEF LeftTo
  <2>2. AddIsRight(c, s2)
    BY <1>1, <1>2, <2>1 DEF Right, AddIsRight, HasAdded
  <2>3. RenameIsRight(c, s2)
    BY <1>1, <1>2, <2>1 DEF Right, RenameIsRight
  <2>4. RemoveIsRight(c, s2) /\ PowerIsRight(c, s2) /\ ModuleIsRight(c, s2)
    BY <1>1, <1>2, <2>1 DEF Right, RemoveIsRight, PowerIsRight, ModuleIsRight, Untouched
  <2>5. QED BY <1>5, <2>2, <2>3, <2>4 DEF Right, MoveIsRight, CycleIsRight
<1>6. QED BY <1>3, <1>4, <1>5

----------------------------------------------------------------------------
\* The invariant.

NetworkFits ==
  /\ IsNetwork(devices) /\ Numbered(devices, made)
  /\ made \in 0..MaxMade /\ started \in 0..MaxCalls

CallsFit ==
  /\ call = [t \in Tasks |-> call[t]]
  /\ \A t \in Tasks :
       /\ IsCall(call[t])
       /\ IF Running(t) THEN StandsRight(call[t]) ELSE call[t] = [Free EXCEPT !.result = call[t].result]

\* Crossed calls come together: while one runs that is not, none is, no two of them concern
\* the same name, and no two devices share one.
CrossedTogether ==
  \A t, o \in Tasks : Running(t) /\ Running(o) => call[t].crossed = call[o].crossed

Apart(c, b) == ~Disturbs(b.req, c.req) /\ (HasAdded(c) /\ HasAdded(b) => c.aim # b.aim)

Undisturbed(t) ==
  /\ Unique(devices) /\ Right(call[t], devices)
  /\ \A o \in Tasks \ {t} : Running(o) => Apart(call[t], call[o])

Inductive ==
  /\ NetworkFits /\ CallsFit /\ CrossedTogether
  /\ \A t \in Tasks : Running(t) /\ ~call[t].crossed => Undisturbed(t)

----------------------------------------------------------------------------
\* How a step keeps it.

LEMMA FreeIsCall ==
  ASSUME NEW r
  PROVE  IsCall([Free EXCEPT !.result = r]) /\ [Free EXCEPT !.result = r].pc = "free"
<1>1. IsList(<<>>)
  BY DEF IsList
<1>2. QED BY <1>1 DEF IsCall, Free

LEMMA DisturbsIsMutual ==
  ASSUME NEW r, NEW q
  PROVE  Disturbs(r, q) <=> Disturbs(q, r)
BY DEF Disturbs

LEMMA ApartIsMutual ==
  ASSUME NEW c, NEW b, Apart(c, b)
  PROVE  Apart(b, c)
BY DisturbsIsMutual DEF Apart

\* The names a step of t may change.
MayTouch(t, b) ==
  \/ b \in NamesOf(call[t].req)
  \/ /\ call[t].req.tool = "add"
     /\ \/ HasAdded(call[t]) /\ b = call[t].aim
        \/ b \in PickNames /\ DevicesCalled(devices, b) = {}

LEMMA AddedIsKnown ==
  ASSUME NEW c, NEW s, Right(c, s), HasAdded(c)
  PROVE  /\ c.req.tool = "add" /\ DevicesCalled(s, c.aim) # {}
         /\ c.aim \in PickNames \/ c.aim \in NamesOf(c.req)
BY DEF Right, AddIsRight, HasAdded, NamesOf

LEMMA OthersAreLeft ==
  ASSUME Inductive, NEW t \in Tasks, Running(t), ~call[t].crossed,
         NEW o \in Tasks \ {t}, Running(o),
         NEW B,
         call[t].req.tool # "cycle" =>
           /\ \A b \in B : MayTouch(t, b)
           /\ \A b : b \notin B => DevicesCalled(devices', b) = DevicesCalled(devices, b),
         call[t].req.tool = "cycle" => \A b : SamePlace(devices, devices', b),
         call[t].req.tool = "move" => SameButPlaces(devices, devices')
  PROVE  LeftTo(call[o], devices, devices')
<1>1. ~call[o].crossed /\ call[o].crossed \in BOOLEAN
  BY DEF Inductive, CrossedTogether, CallsFit, IsCall
<1>2. /\ Right(call[t], devices) /\ Right(call[o], devices) /\ Apart(call[t], call[o])
      /\ ~Disturbs(call[o].req, call[t].req)
  BY <1>1 DEF Inductive, Undisturbed, Apart
<1>3. /\ NamesOf(call[o].req) \cap NamesOf(call[t].req) = {}
      /\ NamesOf(call[o].req) \cap MayMake(call[t].req) = {}
      /\ NamesOf(call[t].req) \cap MayMake(call[o].req) = {}
      /\ call[o].req.tool = "cycle" => call[t].req.tool = "move"
      /\ call[t].req.tool = "cycle" => call[o].req.tool = "move"
  BY <1>2 DEF Disturbs
<1>4. /\ call[t].req.tool = "add" => MayMake(call[t].req) = PickNames
      /\ call[o].req.tool = "add" => MayMake(call[o].req) = PickNames
  BY DEF MayMake, PickNames
<1>5. ASSUME call[t].req.tool # "cycle", NEW n \in Own(call[o]), n \in B PROVE FALSE
  <2>1. MayTouch(t, n)
    BY <1>5
  <2>2. CASE n \in NamesOf(call[o].req)
    <3>1. HasAdded(call[t]) => call[t].aim \in PickNames \cup NamesOf(call[t].req) /\ call[t].req.tool = "add"
      BY <1>2, AddedIsKnown
    <3>2. QED BY <1>3, <1>4, <2>1, <2>2, <3>1 DEF MayTouch
  <2>3. CASE n \notin NamesOf(call[o].req)
    <3>1. HasAdded(call[o]) /\ n = call[o].aim
      BY <2>3 DEF Own
    <3>2. n \in PickNames /\ DevicesCalled(devices, n) # {} /\ call[o].req.tool = "add"
      BY <1>2, <2>3, <3>1, AddedIsKnown
    <3>3. n \notin NamesOf(call[t].req)
      BY <1>3, <1>4, <3>2
    <3>4. ~(HasAdded(call[t]) /\ n = call[t].aim)
      BY <1>2, <3>1 DEF Apart
    <3>5. QED BY <2>1, <3>2, <3>3, <3>4 DEF MayTouch
  <2>4. QED BY <2>2, <2>3
<1>6. call[t].req.tool # "cycle" => \A n \in Own(call[o]) : DevicesCalled(devices', n) = DevicesCalled(devices, n)
  BY <1>5
<1>7. CASE call[o].req.tool = "cycle"
  BY <1>3, <1>7 DEF LeftTo
<1>8. CASE call[o].req.tool = "move"
  BY <1>6, <1>8 DEF LeftTo, SamePlace
<1>9. CASE call[o].req.tool \notin {"cycle", "move"}
  BY <1>3, <1>6, <1>9 DEF LeftTo
<1>10. QED BY <1>7, <1>8, <1>9

\* What a step of t must leave for it to keep the invariant.
LEMMA StepKeeps ==
  ASSUME Inductive, NEW t \in Tasks, Running(t), NetworkFits',
         NEW n, IsCall(n), Goes(t, n),
         n.pc = "free" => n = [Free EXCEPT !.result = n.result],
         n.pc # "free" => StandsRight(n) /\ n.req = call[t].req /\ n.crossed = call[t].crossed,
         ~call[t].crossed =>
           /\ Unique(devices')
           /\ n.pc # "free" => Right(n, devices')
           /\ \A o \in Tasks \ {t} : Running(o) =>
                /\ LeftTo(call[o], devices, devices')
                /\ HasAdded(n) /\ HasAdded(call[o]) => n.aim # call[o].aim
  PROVE  Inductive'
<1>1. /\ call' = [o \in Tasks |-> call'[o]] /\ call'[t] = n
      /\ \A o \in Tasks \ {t} : call'[o] = call[o]
  BY DEF Inductive, CallsFit, Goes
<1>2. /\ Running(t)' <=> n.pc # "free"
      /\ \A o \in Tasks \ {t} : Running(o)' <=> Running(o)
  BY <1>1 DEF Running
<1>3. CallsFit'
  BY <1>1, <1>2 DEF Inductive, CallsFit
<1>4. CrossedTogether'
  BY <1>1, <1>2 DEF Inductive, CrossedTogether
<1>5. ASSUME NEW o \in Tasks, Running(o)', ~call'[o].crossed PROVE Undisturbed(o)'
  <2>1. ~call[t].crossed
    BY <1>1, <1>2, <1>5 DEF Inductive, CrossedTogether
  <2>2. Unique(devices')
    BY <2>1
  <2>3. CASE o = t
    <3>1. Right(call'[o], devices')
      BY <1>1, <1>2, <1>5, <2>1, <2>3
    <3>2. ASSUME NEW i \in Tasks \ {t}, Running(i)' PROVE Apart(call'[t], call'[i])
      <4>1. Running(i) /\ call'[i] = call[i] /\ Apart(call[t], call[i]) /\ n.req = call[t].req
        BY <1>1, <1>2, <1>5, <2>1, <2>3, <3>2 DEF Inductive, Undisturbed
      <4>2. HasAdded(n) /\ HasAdded(call[i]) => n.aim # call[i].aim
        BY <2>1, <4>1
      <4>3. QED BY <1>1, <4>1, <4>2 DEF Apart
    <3>3. QED BY <2>2, <2>3, <3>1, <3>2 DEF Undisturbed
  <2>4. CASE o # t
    <3>1. /\ Running(o) /\ call'[o] = call[o] /\ ~call[o].crossed
          /\ IsCall(call[o]) /\ call[o].req \in Requests /\ IsNetwork(devices)
      BY <1>1, <1>2, <1>5, <2>4 DEF Inductive, CallsFit, StandsRight, NetworkFits
    <3>2. Right(call[o], devices) /\ LeftTo(call[o], devices, devices')
      BY <2>1, <2>4, <3>1 DEF Inductive, Undisturbed
    <3>3. Right(call'[o], devices')
      BY <3>1, <3>2, StaysRight
    <3>4. ASSUME NEW i \in Tasks \ {o}, Running(i)' PROVE Apart(call'[o], call'[i])
      <4>1. CASE i # t
        BY <1>1, <1>2, <3>1, <3>4, <4>1 DEF Inductive, Undisturbed
      <4>2. CASE i = t
        <5>1. Apart(call[o], call[t]) /\ n.req = call[t].req
          BY <1>2, <2>4, <3>1, <3>4, <4>2 DEF Inductive, Undisturbed
        <5>2. HasAdded(n) /\ HasAdded(call[o]) => n.aim # call[o].aim
          BY <2>1, <2>4, <3>1
        <5>3. QED BY <1>1, <3>1, <4>2, <5>1, <5>2 DEF Apart
      <4>3. QED BY <4>1, <4>2
    <3>5. QED BY <2>2, <3>3, <3>4 DEF Undisturbed
  <2>5. QED BY <2>3, <2>4
<1>6. QED BY <1>3, <1>4, <1>5 DEF Inductive

----------------------------------------------------------------------------
\* The start.

LEMMA BoundsFit ==
  MaxMade \in Nat /\ MaxCalls \in Nat
BY Zenon, PicksAssumption

LEMMA SameResult ==
  ASSUME NEW c, IsCall(c)
  PROVE  [c EXCEPT !.result = c.result] = c
BY DEF IsCall

LEMMA NothingIsThere ==
  ASSUME Init
  PROVE  Inductive
<1>1. NetworkFits
  <2>1. devices = <<>> /\ made = 0 /\ started = 0
    BY DEF Init
  <2>2. IsNetwork(devices) /\ Numbered(devices, made)
    BY <2>1 DEF IsNetwork, IsList, Numbered
  <2>3. made \in 0..MaxMade /\ started \in 0..MaxCalls
    BY <2>1, BoundsFit
  <2>4. QED BY Zenon, <2>2, <2>3 DEF NetworkFits
<1>2. call = [t \in Tasks |-> Free]
  BY DEF Init
<1>3. IsCall(Free) /\ Free = [Free EXCEPT !.result = Free.result] /\ Free.pc = "free"
  <2>1. IsList(<<>>)
    BY DEF IsList
  <2>2. IsCall(Free) /\ Free.pc = "free"
    BY <2>1 DEF IsCall, Free
  <2>3. QED BY Zenon, <2>2, SameResult
<1>4. CallsFit
  BY <1>2, <1>3 DEF CallsFit, Running
<1>5. \A t \in Tasks : ~Running(t)
  BY <1>2, <1>3 DEF Running
<1>6. QED BY <1>1, <1>4, <1>5 DEF Inductive, CrossedTogether

\* A call that is about to take its first step.
LEMMA FirstIsRight ==
  ASSUME NEW r \in Requests, NEW x \in BOOLEAN, NEW s
  PROVE  LET n == [Free EXCEPT !.pc = FirstStep(r), !.req = r, !.aim = r.name, !.crossed = x] IN
         /\ IsCall(n) /\ StandsRight(n) /\ Right(n, s) /\ ~HasAdded(n)
         /\ n.req = r /\ n.crossed = x /\ n.pc # "free"
<1> DEFINE n == [Free EXCEPT !.pc = FirstStep(r), !.req = r, !.aim = r.name, !.crossed = x]
<1>1. /\ n.pc = FirstStep(r) /\ n.req = r /\ n.aim = r.name /\ n.crossed = x
      /\ n.rows = <<>> /\ n.back = <<>> /\ n.touched = {} /\ n.cut = {}
      /\ n \in [pc : {n.pc}, req : {n.req}, aim : {n.aim}, count : {n.count}, rows : {n.rows},
                back : {n.back}, applied : {n.applied}, result : {n.result},
                touched : {n.touched}, cut : {n.cut}, crossed : BOOLEAN]
  BY DEF Free
<1> HIDE DEF n
<1>2. IsCall(n)
  BY <1>1 DEF IsCall, IsList
<1>3. r.tool \in Tools /\ (r.tool \notin {"add", "cycle"} => r.name # NoName)
  BY RequestsAssumption
<1>4. /\ r.tool = "add" /\ r.name # NoName => n.pc = "unused"
      /\ r.tool = "add" /\ r.name = NoName => n.pc \in {"count", "create"}
      /\ r.tool = "cycle" => n.pc = "count"
      /\ r.tool \notin {"add", "cycle"} => n.pc = "find"
  BY <1>1 DEF FirstStep
<1>5. StandsRight(n) /\ ~HasAdded(n) /\ n.pc # "free"
  BY <1>1, <1>3, <1>4 DEF StandsRight, HasAdded, Tools
<1>6. Right(n, s)
  <2>1. AddIsRight(n, s)
    BY <1>1, <1>4, <1>5 DEF AddIsRight
  <2>2. RenameIsRight(n, s) /\ RemoveIsRight(n, s) /\ MoveIsRight(n, s) /\ PowerIsRight(n, s)
    BY <1>1, <1>4 DEF RenameIsRight, RemoveIsRight, MoveIsRight, PowerIsRight
  <2>3. ModuleIsRight(n, s)
    BY <1>1, <1>4 DEF ModuleIsRight, Untouched
  <2>4. CycleIsRight(n, s)
    BY <1>1, <1>4 DEF CycleIsRight, Listing, Untouched
  <2>5. QED BY <2>1, <2>2, <2>3, <2>4 DEF Right
<1>7. QED BY <1>1, <1>2, <1>5, <1>6 DEF n

LEMMA SameCrossed ==
  ASSUME NEW c, IsCall(c)
  PROVE  [c EXCEPT !.crossed = c.crossed] = c
BY DEF IsCall

LEMMA StartKeeps ==
  ASSUME Inductive, NEW t \in Tasks, Start(t)
  PROVE  Inductive'
<1>1. PICK r \in Requests :
        LET race == \E o \in Tasks : Running(o) /\ (call[o].crossed \/ Disturbs(call[o].req, r)) IN
        call' = [o \in Tasks |->
                   IF o = t THEN [Free EXCEPT !.pc = FirstStep(r), !.req = r, !.aim = r.name,
                                              !.crossed = race \/ ~UniqueNames]
                   ELSE [call[o] EXCEPT !.crossed = @ \/ (race /\ Running(o))]]
  BY Zenon DEF Start
<1> DEFINE race == \E o \in Tasks : Running(o) /\ (call[o].crossed \/ Disturbs(call[o].req, r))
           x == race \/ ~UniqueNames
           n == [Free EXCEPT !.pc = FirstStep(r), !.req = r, !.aim = r.name, !.crossed = x]
<1>2. /\ IsCall(n) /\ StandsRight(n) /\ Right(n, devices) /\ ~HasAdded(n)
      /\ n.req = r /\ n.crossed = x /\ n.pc # "free"
  <2>1. x \in BOOLEAN
    BY Zenon
  <2> HIDE DEF x
  <2>2. QED BY Zenon, <2>1, FirstIsRight
<1>3. call' = [o \in Tasks |-> call'[o]] /\ call'[t] = n
  BY Zenon, <1>1
<1>4. \A o \in Tasks \ {t} : call'[o] = [call[o] EXCEPT !.crossed = @ \/ (race /\ Running(o))]
  BY Zenon, <1>1
<1> HIDE DEF n
<1>5. /\ \A o \in Tasks \ {t} : race /\ Running(o) => call'[o] = [call[o] EXCEPT !.crossed = TRUE]
      /\ \A o \in Tasks \ {t} : ~(race /\ Running(o)) => call'[o] = call[o]
  <2> SUFFICES ASSUME NEW o \in Tasks \ {t}
               PROVE  /\ race /\ Running(o) => call'[o] = [call[o] EXCEPT !.crossed = TRUE]
                      /\ ~(race /\ Running(o)) => call'[o] = call[o]
    BY Zenon
  <2>1. IsCall(call[o]) /\ call[o].crossed \in BOOLEAN
    BY DEF Inductive, CallsFit, IsCall
  <2>2. call[o].crossed = TRUE \/ call[o].crossed = FALSE
    BY <2>1
  <2> HIDE DEF race
  <2>3. ASSUME race, Running(o) PROVE call'[o] = [call[o] EXCEPT !.crossed = TRUE]
    <3>1. (call[o].crossed \/ (race /\ Running(o))) = TRUE
      BY <2>3
    <3>2. call'[o] = [call[o] EXCEPT !.crossed = call[o].crossed \/ (race /\ Running(o))]
      BY Zenon, <1>4
    <3>3. QED BY Zenon, <3>1, <3>2
  <2>4. ASSUME ~(race /\ Running(o)) PROVE call'[o] = call[o]
    <3>1. (call[o].crossed \/ (race /\ Running(o))) = call[o].crossed
      BY <2>2, <2>4
    <3>2. call'[o] = [call[o] EXCEPT !.crossed = call[o].crossed \/ (race /\ Running(o))]
      BY Zenon, <1>4
    <3>3. call'[o] = [call[o] EXCEPT !.crossed = call[o].crossed]
      BY Zenon, <3>1, <3>2
    <3>4. [call[o] EXCEPT !.crossed = call[o].crossed] = call[o]
      BY Zenon, <2>1, SameCrossed
    <3>5. QED BY Zenon, <3>3, <3>4
  <2>5. QED BY Zenon, <2>3, <2>4
<1>6. /\ devices' = devices /\ made' = made /\ NetworkFits'
  <2>1. started' = started + 1 /\ started < MaxCalls /\ UNCHANGED <<devices, made>>
    BY Zenon DEF Start
  <2>2. QED BY <2>1, BoundsFit DEF Inductive, NetworkFits
<1>7. Running(t)' /\ \A o \in Tasks \ {t} : Running(o)' <=> Running(o)
  <2>1. ASSUME NEW o \in Tasks \ {t} PROVE call'[o].pc = call[o].pc
    <3>1. IsCall(call[o])
      BY DEF Inductive, CallsFit
    <3>2. [call[o] EXCEPT !.crossed = TRUE].pc = call[o].pc
      BY <3>1 DEF IsCall
    <3> HIDE DEF race
    <3>3. QED BY <1>5, <3>2
  <2>2. QED BY <1>2, <1>3, <2>1 DEF Running
<1>8. CASE race
  <2>1. \A o \in Tasks \ {t} : Running(o) => /\ call'[o] = [call[o] EXCEPT !.crossed = TRUE]
                                             /\ call'[o].crossed = TRUE
                                             /\ IsCall(call'[o])
                                             /\ StandsRight(call'[o])
    <3> TAKE o \in Tasks \ {t}
    <3> HAVE Running(o)
    <3>1. call'[o] = [call[o] EXCEPT !.crossed = TRUE]
      BY <1>5, <1>8
    <3>2. IsCall(call[o]) /\ StandsRight(call[o])
      BY DEF Inductive, CallsFit
    <3>3. IsCall(call'[o]) /\ call'[o].crossed = TRUE /\ call'[o].req = call[o].req /\ call'[o].pc = call[o].pc
      BY <3>1, <3>2 DEF IsCall
    <3>4. QED BY <3>1, <3>2, <3>3 DEF StandsRight
  <2>2. \A o \in Tasks \ {t} : ~Running(o) => call'[o] = call[o]
    BY <1>5
  <2>3. n.crossed = TRUE
    BY <1>2, <1>8
  <2> HIDE DEF race, x
  <2>4. CallsFit'
    BY <1>2, <1>3, <1>7, <2>1, <2>2 DEF Inductive, CallsFit
  <2>5. \A o \in Tasks : Running(o)' => call'[o].crossed = TRUE
    BY <1>3, <1>7, <2>1, <2>3
  <2>6. CrossedTogether'
    BY <2>5 DEF CrossedTogether
  <2>7. QED BY <1>6, <2>4, <2>5, <2>6 DEF Inductive
<1>9. CASE ~race
  <2>1. \A o \in Tasks \ {t} : call'[o] = call[o]
    BY <1>5, <1>9
  <2>2. \A o \in Tasks : Running(o) => ~call[o].crossed /\ ~Disturbs(call[o].req, r)
    BY <1>9
  <2>3. ~n.crossed <=> Unique(devices)
    BY <1>2, <1>9 DEF UniqueNames, Unique, Positions
  <2> HIDE DEF race, x
  <2>4. CallsFit'
    BY <1>2, <1>3, <1>7, <2>1 DEF Inductive, CallsFit
  <2>5. \A o \in Tasks \ {t} : Running(o) => Undisturbed(o) /\ ~n.crossed
    BY <2>2, <2>3 DEF Inductive, Undisturbed
  <2>6. CrossedTogether'
    <3>1. \A o \in Tasks \ {t} : Running(o)' => call'[o].crossed = FALSE /\ n.crossed = FALSE
      BY <1>2, <1>7, <2>1, <2>2, <2>5 DEF Inductive, CallsFit, IsCall
    <3>2. QED BY <1>3, <3>1 DEF CrossedTogether
  <2>7. ASSUME NEW o \in Tasks, Running(o)', ~call'[o].crossed PROVE Undisturbed(o)'
    <3>1. CASE o = t
      <4>1. Unique(devices') /\ Right(call'[o], devices')
        BY <1>2, <1>3, <1>6, <2>3, <2>7, <3>1
      <4>2. ASSUME NEW i \in Tasks \ {t}, Running(i)' PROVE Apart(call'[t], call'[i])
        BY <1>2, <1>3, <1>7, <2>1, <2>2, <4>2 DEF Apart
      <4>3. QED BY <3>1, <4>1, <4>2 DEF Undisturbed
    <3>2. CASE o # t
      <4>1. Undisturbed(o) /\ call'[o] = call[o] /\ Running(o)
        BY <1>7, <2>1, <2>5, <2>7, <3>2
      <4>2. ASSUME NEW i \in Tasks \ {o}, Running(i)' PROVE Apart(call'[o], call'[i])
        <5>1. CASE i = t
          <6>1. ~Disturbs(n.req, call[o].req)
            BY <1>2, <2>2, <4>1, DisturbsIsMutual
          <6>2. QED BY <1>2, <1>3, <4>1, <5>1, <6>1 DEF Apart
        <5>2. CASE i # t
          BY <1>7, <2>1, <4>1, <4>2, <5>2 DEF Undisturbed
        <5>3. QED BY <5>1, <5>2
      <4>3. QED BY <1>6, <4>1, <4>2 DEF Undisturbed
    <3>3. QED BY <3>1, <3>2
  <2>8. QED BY <1>6, <2>4, <2>6, <2>7 DEF Inductive
<1>10. QED BY <1>8, <1>9

----------------------------------------------------------------------------
\* The other steps: what a call may become, and what it may answer.

Lit(c, s) == \A i \in DOMAIN s : s[i].id \in c.cut => s[i].on

\* What call c may answer when it leaves network s and nothing has crossed it.
Truth(c, result, s) ==
  /\ result = "refused" => c.touched = {}
  /\ result # "lost" => Lit(c, s)
  /\ result = "done" => Done(c, s)

Truthful(t) ==
  ~call[t].crossed =>
    /\ Unique(devices')
    /\ Returns(t) => Truth(call[t], call'[t].result, devices')

LEMMA NothingCut ==
  ASSUME NEW c, NEW s, c.cut = {}
  PROVE  Lit(c, s)
BY DEF Lit

LEMMA LostIsTrue ==
  ASSUME NEW c, NEW s
  PROVE  Truth(c, "lost", s)
BY DEF Truth

LEMMA OfItsTool ==
  ASSUME NEW c, NEW s
  PROVE  /\ c.req.tool = "add"    => (Right(c, s) <=> AddIsRight(c, s))
         /\ c.req.tool = "rename" => (Right(c, s) <=> RenameIsRight(c, s))
         /\ c.req.tool = "remove" => (Right(c, s) <=> RemoveIsRight(c, s))
         /\ c.req.tool = "move"   => (Right(c, s) <=> MoveIsRight(c, s))
         /\ c.req.tool = "power"  => (Right(c, s) <=> PowerIsRight(c, s))
         /\ c.req.tool = "module" => (Right(c, s) <=> ModuleIsRight(c, s))
         /\ c.req.tool = "cycle"  => (Right(c, s) <=> CycleIsRight(c, s))
BY DEF Right, AddIsRight, RenameIsRight, RemoveIsRight, MoveIsRight, PowerIsRight, ModuleIsRight, CycleIsRight

\* What the invariant says of a running call.
LEMMA OfRunning ==
  ASSUME Inductive, NEW t \in Tasks, Running(t)
  PROVE  /\ IsCall(call[t]) /\ StandsRight(call[t]) /\ call[t].req \in Requests /\ call[t].req.tool \in Tools
         /\ call[t].req.tool \notin {"add", "cycle"} => call[t].req.name # NoName
         /\ call[t].req.tool = "rename" => call[t].req.to # NoName
         /\ IsNetwork(devices) /\ Numbered(devices, made) /\ made \in Nat
         /\ ~call[t].crossed => Unique(devices) /\ Right(call[t], devices)
<1>1. NetworkFits /\ CallsFit /\ (~call[t].crossed => Undisturbed(t))
  BY DEF Inductive
<1>2. call[t].req \in Requests /\ IsCall(call[t]) /\ StandsRight(call[t])
  BY <1>1 DEF CallsFit, StandsRight
<1>3. IsNetwork(devices) /\ Numbered(devices, made) /\ made \in Nat
  BY <1>1 DEF NetworkFits
<1>4. ~call[t].crossed => Unique(devices) /\ Right(call[t], devices)
  BY <1>1 DEF Undisturbed
<1>5. QED BY <1>2, <1>3, <1>4, RequestsAssumption

LEMMA LeftAlone ==
  ASSUME NEW c, NEW s
  PROVE  LeftTo(c, s, s)
BY DEF LeftTo, SameButPlaces, SamePlace

\* A call that only reads goes on.
LEMMA ReadKeeps ==
  ASSUME Inductive, NEW t \in Tasks, Running(t), Reads,
         NEW n, IsCall(n), Goes(t, n), StandsRight(n), n.pc # "free",
         n.req = call[t].req, n.crossed = call[t].crossed,
         ~call[t].crossed =>
           Right(n, devices) /\ (HasAdded(n) => HasAdded(call[t]) /\ n.aim = call[t].aim)
  PROVE  Inductive' /\ Truthful(t)
<1>1. devices' = devices /\ made' = made /\ started' = started
  BY DEF Reads
<1>2. NetworkFits'
  BY <1>1 DEF Inductive, NetworkFits
<1>3. ASSUME ~call[t].crossed
      PROVE  /\ Unique(devices')
             /\ Right(n, devices')
             /\ \A o \in Tasks \ {t} : Running(o) =>
                  /\ LeftTo(call[o], devices, devices')
                  /\ HasAdded(n) /\ HasAdded(call[o]) => n.aim # call[o].aim
  <2>1. Undisturbed(t) /\ Unique(devices') /\ Right(n, devices')
    BY <1>1, <1>3 DEF Inductive, Undisturbed
  <2>2. \A o \in Tasks \ {t} : LeftTo(call[o], devices, devices')
    BY <1>1, LeftAlone
  <2>3. QED BY <1>3, <2>1, <2>2 DEF Undisturbed, Apart
<1>4. Inductive'
  BY <1>2, <1>3, StepKeeps
<1>5. call'[t] = n
  BY DEF Inductive, CallsFit, Goes
<1>6. QED BY <1>3, <1>4, <1>5 DEF Truthful, Returns

\* A call that only reads ends.
LEMMA EndKeeps ==
  ASSUME Inductive, NEW t \in Tasks, Running(t), Reads, NEW result, Return(t, result),
         ~call[t].crossed => Truth(call[t], result, devices)
  PROVE  Inductive' /\ Truthful(t)
<1> DEFINE n == [Free EXCEPT !.result = result]
<1>1. devices' = devices /\ made' = made /\ started' = started
  BY DEF Reads
<1>2. NetworkFits'
  BY <1>1 DEF Inductive, NetworkFits
<1>3. IsCall(n) /\ n.pc = "free" /\ n.result = result /\ Goes(t, n)
  <2>1. n.result = result
    BY DEF Free
  <2>2. Goes(t, n)
    BY DEF Return
  <2> HIDE DEF n
  <2>3. QED BY <2>1, <2>2, FreeIsCall DEF n
<1>4. n = [Free EXCEPT !.result = n.result] /\ ~HasAdded(n)
  BY Zenon, <1>3 DEF HasAdded
<1> HIDE DEF n
<1>5. ASSUME ~call[t].crossed
      PROVE  /\ Unique(devices')
             /\ \A o \in Tasks \ {t} : Running(o) => LeftTo(call[o], devices, devices')
  BY <1>1, <1>5, LeftAlone DEF Inductive, Undisturbed
<1>6. Inductive'
  BY <1>2, <1>3, <1>4, <1>5, StepKeeps
<1>7. call'[t] = n
  BY <1>3 DEF Inductive, CallsFit, Goes
<1>8. QED BY <1>1, <1>3, <1>5, <1>6, <1>7 DEF Truthful

\* A call changes the network and goes on, or its answer is lost.
LEMMA AlterKeeps ==
  ASSUME Inductive, NEW t \in Tasks, Running(t), NEW n, Goes(t, n) \/ Return(t, "lost"),
         NetworkFits', IsCall(n), StandsRight(n), n.pc # "free",
         n.req = call[t].req, n.crossed = call[t].crossed,
         NEW B,
         ~call[t].crossed =>
           /\ Unique(devices') /\ Right(n, devices')
           /\ call[t].req.tool # "cycle" =>
                /\ \A b \in B : MayTouch(t, b)
                /\ \A b : b \notin B => DevicesCalled(devices', b) = DevicesCalled(devices, b)
           /\ call[t].req.tool = "cycle" => \A b : SamePlace(devices, devices', b)
           /\ call[t].req.tool = "move" => SameButPlaces(devices, devices')
           /\ HasAdded(n) => \/ n.aim \in NamesOf(call[t].req)
                             \/ HasAdded(call[t]) /\ n.aim = call[t].aim
                             \/ DevicesCalled(devices, n.aim) = {}
  PROVE  Inductive' /\ Truthful(t)
<1>3. ASSUME ~call[t].crossed, NEW o \in Tasks \ {t}, Running(o)
      PROVE  LeftTo(call[o], devices, devices')
  BY <1>3, OthersAreLeft
<1>4. ASSUME ~call[t].crossed, NEW o \in Tasks \ {t}, Running(o), HasAdded(n), HasAdded(call[o])
      PROVE  n.aim # call[o].aim
  <2>1. Apart(call[t], call[o]) /\ Right(call[o], devices)
    BY <1>4 DEF Inductive, Undisturbed, CrossedTogether
  <2>2. CASE HasAdded(call[t]) /\ n.aim = call[t].aim
    BY <1>4, <2>1, <2>2 DEF Apart
  <2>3. CASE n.aim \in NamesOf(call[t].req)
    <3>1. call[o].req.tool = "add" /\ call[o].aim \in PickNames \cup NamesOf(call[o].req)
      BY <1>4, <2>1, AddedIsKnown
    <3>2. n.aim \notin MayMake(call[o].req) /\ n.aim \notin NamesOf(call[o].req)
      BY <2>1, <2>3 DEF Apart, Disturbs
    <3>3. MayMake(call[o].req) = PickNames
      BY <3>1 DEF MayMake, PickNames
    <3>4. QED BY <3>1, <3>2, <3>3
  <2>4. CASE DevicesCalled(devices, n.aim) = {}
    BY <1>4, <2>1, <2>4, AddedIsKnown
  <2>5. QED BY <1>4, <2>2, <2>3, <2>4
<1>5. CASE Goes(t, n)
  <2>1. Inductive'
    BY <1>3, <1>4, <1>5, StepKeeps
  <2>2. call'[t] = n
    BY <1>5 DEF Inductive, CallsFit, Goes
  <2>3. QED BY <2>1, <2>2 DEF Truthful, Returns
<1>6. CASE Return(t, "lost")
  <2> DEFINE e == [Free EXCEPT !.result = "lost"]
  <2>1. IsCall(e) /\ e.pc = "free" /\ Goes(t, e)
    BY <1>6, FreeIsCall DEF Return
  <2>2. e.result = "lost"
    BY DEF Free
  <2>3. e = [Free EXCEPT !.result = e.result] /\ ~HasAdded(e)
    BY Zenon, <2>1, <2>2 DEF HasAdded
  <2> HIDE DEF e
  <2>4. Inductive'
    BY <1>3, <2>1, <2>3, StepKeeps
  <2>5. call'[t] = e
    BY <2>1 DEF Inductive, CallsFit, Goes
  <2>6. QED BY <2>2, <2>4, <2>5, LostIsTrue DEF Truthful
<1>7. QED BY <1>5, <1>6

LEMMA ChangeKeeps ==
  ASSUME Inductive, NEW t \in Tasks, Running(t), NEW s, NEW n, Changes(t, s, n),
         IsNetwork(s), Numbered(s, made), IsCall(n), StandsRight(n), n.pc # "free",
         n.req = call[t].req, n.crossed = call[t].crossed,
         NEW B,
         ~call[t].crossed =>
           /\ Unique(s) /\ Right(n, s)
           /\ call[t].req.tool # "cycle" =>
                /\ \A b \in B : MayTouch(t, b)
                /\ \A b : b \notin B => DevicesCalled(s, b) = DevicesCalled(devices, b)
           /\ call[t].req.tool = "cycle" => \A b : SamePlace(devices, s, b)
           /\ call[t].req.tool = "move" => SameButPlaces(devices, s)
           /\ HasAdded(n) => \/ n.aim \in NamesOf(call[t].req)
                             \/ HasAdded(call[t]) /\ n.aim = call[t].aim
  PROVE  Inductive' /\ Truthful(t)
<1>1. devices' = s /\ made' = made /\ started' = started /\ (Goes(t, n) \/ Return(t, "lost"))
  BY Zenon DEF Changes
<1>2. NetworkFits'
  BY <1>1 DEF Inductive, NetworkFits
<1>3. QED BY <1>1, <1>2, AlterKeeps

----------------------------------------------------------------------------
\* What becomes of a call when one of its fields changes.

LEMMA AtStep ==
  ASSUME NEW c, IsCall(c), NEW p
  PROVE  LET n == [c EXCEPT !.pc = p] IN
         /\ IsCall(n) /\ n.pc = p /\ n.req = c.req /\ n.aim = c.aim /\ n.count = c.count /\ n.rows = c.rows
         /\ n.back = c.back /\ n.applied = c.applied /\ n.touched = c.touched /\ n.cut = c.cut /\ n.crossed = c.crossed
BY DEF IsCall

LEMMA FirstOf ==
  ASSUME NEW q, IsList(q)
  PROVE  /\ Len(q) \in Nat /\ DOMAIN q = 1..Len(q)
         /\ q # <<>> => /\ 1 \in DOMAIN q /\ Head(q) = q[1]
                        /\ IsList(Tail(q)) /\ Len(Tail(q)) = Len(q) - 1
                        /\ \A k \in DOMAIN Tail(q) : k + 1 \in DOMAIN q /\ Tail(q)[k] = q[k + 1]
                        /\ \A k \in DOMAIN q : k # 1 => k - 1 \in DOMAIN Tail(q) /\ Tail(q)[k - 1] = q[k]
<1> DEFINE S == {q[k] : k \in DOMAIN q}
<1>1. q \in Seq(S)
  BY DEF IsList
<1> HIDE DEF S
<1>2. Len(q) \in Nat /\ DOMAIN q = 1..Len(q)
  BY <1>1
<1>3. ASSUME q # <<>>
      PROVE  /\ 1 \in DOMAIN q /\ Head(q) = q[1]
             /\ Len(Tail(q)) = Len(q) - 1 /\ Tail(q) \in Seq(S)
             /\ \A k \in 1..(Len(q) - 1) : Tail(q)[k] = q[k + 1]
  BY <1>1, <1>3
<1>4. ASSUME NEW r \in Seq(S)
      PROVE  IsList(r) /\ DOMAIN r = 1..Len(r)
  <2> DEFINE R == {r[k] : k \in DOMAIN r}
  <2>1. r \in [1..Len(r) -> R] /\ Len(r) \in Nat /\ DOMAIN r = 1..Len(r)
    OBVIOUS
  <2> HIDE DEF R
  <2>2. r \in Seq(R)
    BY <2>1
  <2>3. QED BY <2>1, <2>2 DEF IsList, R
<1>5. ASSUME q # <<>>
      PROVE  /\ IsList(Tail(q)) /\ DOMAIN Tail(q) = 1..(Len(q) - 1)
  BY <1>3, <1>4, <1>5
<1>6. ASSUME q # <<>>
      PROVE  /\ \A k \in DOMAIN Tail(q) : k + 1 \in DOMAIN q /\ Tail(q)[k] = q[k + 1]
             /\ \A k \in DOMAIN q : k # 1 => k - 1 \in DOMAIN Tail(q) /\ Tail(q)[k - 1] = q[k]
  <2> DEFINE r == Tail(q)
  <2>1. DOMAIN r = 1..(Len(q) - 1) /\ \A k \in 1..(Len(q) - 1) : r[k] = q[k + 1]
    BY <1>3, <1>5, <1>6
  <2> HIDE DEF r
  <2>2. \A k \in DOMAIN r : k + 1 \in DOMAIN q /\ r[k] = q[k + 1]
    BY <1>2, <2>1
  <2>3. \A k \in DOMAIN q : k # 1 => k - 1 \in 1..(Len(q) - 1) /\ (k - 1) + 1 = k
    BY <1>2
  <2>4. \A k \in DOMAIN q : k # 1 => k - 1 \in DOMAIN r /\ r[k - 1] = q[k]
    BY <2>1, <2>3
  <2>5. QED BY <2>2, <2>4 DEF r
<1>7. QED BY Zenon, <1>2, <1>3, <1>5, <1>6

LEMMA LongerBy ==
  ASSUME NEW q, IsList(q), NEW e
  PROVE  /\ IsList(Append(q, e)) /\ Len(Append(q, e)) = Len(q) + 1
         /\ DOMAIN Append(q, e) = DOMAIN q \cup {Len(q) + 1}
         /\ Append(q, e)[Len(q) + 1] = e /\ \A k \in DOMAIN q : Append(q, e)[k] = q[k]
<1> DEFINE S == {q[k] : k \in DOMAIN q} \cup {e}
           r == Append(q, e)
<1>1. q \in Seq(S) /\ e \in S
  <2>1. q \in Seq({q[k] : k \in DOMAIN q})
    BY DEF IsList
  <2>2. QED BY <2>1
<1> HIDE DEF S
<1>2. /\ r \in Seq(S) /\ Len(r) = Len(q) + 1 /\ DOMAIN r = 1..(Len(q) + 1) /\ DOMAIN q = 1..Len(q)
      /\ Len(q) \in Nat /\ r[Len(q) + 1] = e /\ \A k \in DOMAIN q : r[k] = q[k]
  BY <1>1
<1> HIDE DEF r
<1>3. r \in [1..Len(r) -> {r[k] : k \in DOMAIN r}]
  BY <1>2
<1>4. IsList(r)
  BY <1>2, <1>3 DEF IsList
<1>5. QED BY <1>2, <1>4 DEF r

----------------------------------------------------------------------------
\* One lemma for each action.

\* A cycle that brings devices back finds the next of them.
LEMMA NextIsThere ==
  ASSUME NEW c, IsCall(c), c.req.tool = "cycle", Right(c, devices),
         c.pc \in {"find", "look", "switch", "boot", "verify"}
  PROVE  Here(c.aim) /\ Restoring(c, devices)
<1>1. Restoring(c, devices)
  BY OfItsTool DEF CycleIsRight
<1>2. 1 \in DOMAIN c.back /\ c.aim = c.back[1]
  BY <1>1, FirstOf DEF Restoring, IsCall
<1>3. QED BY <1>1, <1>2 DEF Restoring, Here, Called, Positions

LEMMA FindKeeps ==
  ASSUME Inductive, NEW t \in Tasks, Find(t)
  PROVE  Inductive' /\ Truthful(t)
<1> DEFINE c == call[t]
           n == [c EXCEPT !.pc = AfterFind(t)]
<1>1. c.pc = "find" /\ Running(t)
  BY DEF Find, Running
<1>2. /\ IsCall(c) /\ StandsRight(c) /\ c.req \in Requests /\ c.req.tool \in Tools /\ IsNetwork(devices)
      /\ c.req.tool \notin {"add", "cycle"} => c.req.name # NoName
      /\ ~c.crossed => Unique(devices) /\ Right(c, devices)
  BY <1>1, OfRunning
<1>3. c.req.tool \in {"rename", "remove", "move", "power", "module", "cycle"}
  BY <1>1, <1>2 DEF StandsRight, Tools
<1>4. ASSUME ~c.crossed, c.req.tool = "cycle" PROVE Here(c.aim)
  BY <1>1, <1>2, <1>4, NextIsThere
<1>5. CASE /\ Here(c.aim)
           /\ c.req.tool = "module" => Device(c.aim).card # c.req.on
  <2>1. Goes(t, n) /\ Reads
    BY Zenon, <1>5 DEF Find, To
  <2>2. /\ IsCall(n) /\ n.pc = AfterFind(t) /\ n.req = c.req /\ n.aim = c.aim /\ n.back = c.back
        /\ n.touched = c.touched /\ n.cut = c.cut /\ n.crossed = c.crossed
    BY <1>2, AtStep
  <2>3. /\ c.req.tool = "rename" /\ c.req.to = c.req.name => n.pc = "describe"
        /\ c.req.tool = "rename" /\ c.req.to # c.req.name => n.pc = "unused"
        /\ c.req.tool = "power" => n.pc = "look"
        /\ c.req.tool = "cycle" => n.pc = "look"
        /\ c.req.tool = "module" => n.pc = "off"
        /\ c.req.tool \in {"remove", "move"} => n.pc = c.req.tool
    <3>1. n.pc = AfterFind(t)
      BY <2>2
    <3> HIDE DEF n
    <3>2. QED BY <3>1 DEF AfterFind
  <2> HIDE DEF n
  <2>4. StandsRight(n) /\ n.pc # "free" /\ ~HasAdded(n)
    <3>1. n.pc \in {"describe", "unused", "look", "off", "remove", "move"}
      BY <1>3, <2>3
    <3>2. c.req.tool = "cycle" => n.back # <<>>
      BY <1>1, <1>2, <2>2 DEF StandsRight
    <3>3. n.req \in Requests /\ n.req.tool = c.req.tool
      BY <1>2, <2>2
    <3> HIDE DEF c
    <3>4. QED BY <1>3, <2>2, <2>3, <3>1, <3>2, <3>3 DEF StandsRight, HasAdded
  <2>5. ASSUME ~c.crossed PROVE Right(n, devices)
    <3>1. DevicesCalled(devices, c.aim) = {Device(c.aim)} /\ Right(c, devices)
      BY <1>2, <1>5, <2>5, TheDeviceKnown
    <3>2. CASE c.req.tool = "rename"
      <4>1. RenameIsRight(c, devices)
        BY <1>2, <2>5, <3>2, OfItsTool
      <4>2. RenameIsRight(n, devices)
        BY <1>1, <2>2, <2>3, <3>1, <3>2, <4>1 DEF RenameIsRight
      <4>3. QED BY <2>2, <3>2, <4>2, OfItsTool
    <3>3. CASE c.req.tool = "remove"
      BY <1>1, <2>2, <2>3, <3>1, <3>3, OfItsTool DEF RemoveIsRight
    <3>4. CASE c.req.tool = "move"
      BY <1>1, <2>2, <2>3, <3>1, <3>4, OfItsTool DEF MoveIsRight
    <3>5. CASE c.req.tool = "power"
      BY <1>1, <2>2, <2>3, <3>1, <3>5, OfItsTool DEF PowerIsRight
    <3>6. CASE c.req.tool = "module"
      BY <1>1, <1>5, <2>2, <2>3, <3>1, <3>6, OfItsTool DEF ModuleIsRight, Untouched
    <3>7. CASE c.req.tool = "cycle"
      BY <1>1, <2>2, <2>3, <3>1, <3>7, OfItsTool DEF CycleIsRight, Restoring
    <3>8. QED BY <1>3, <3>2, <3>3, <3>4, <3>5, <3>6, <3>7
  <2>6. QED BY <1>1, <2>1, <2>2, <2>4, <2>5, ReadKeeps
<1>6. CASE ~(/\ Here(c.aim)
             /\ c.req.tool = "module" => Device(c.aim).card # c.req.on)
  <2>1. Return(t, "refused") /\ Reads
    BY <1>6 DEF Find, Refused, Reads
  <2>2. ASSUME ~c.crossed PROVE Truth(c, "refused", devices)
    <3>1. c.req.tool # "cycle" /\ Right(c, devices)
      BY <1>2, <1>4, <1>6, <2>2
    <3>2. c.touched = {} /\ c.cut = {}
      BY <1>1, <1>3, <3>1, OfItsTool
         DEF RenameIsRight, RemoveIsRight, MoveIsRight, PowerIsRight, ModuleIsRight, Untouched
    <3>3. QED BY <3>2, NothingCut DEF Truth
  <2>3. QED BY <1>1, <2>1, <2>2, EndKeeps
<1>7. QED BY <1>5, <1>6

LEMMA UnusedKeeps ==
  ASSUME Inductive, NEW t \in Tasks, Unused(t)
  PROVE  Inductive' /\ Truthful(t)
<1> DEFINE c == call[t]
           p == IF c.req.tool = "rename" THEN "setname" ELSE IF c.req.at = Grid THEN "count" ELSE "create"
           n == [c EXCEPT !.pc = p]
<1>1. c.pc = "unused" /\ Running(t)
  BY DEF Unused, Running
<1>2. /\ IsCall(c) /\ StandsRight(c) /\ c.req.tool \in Tools
      /\ ~c.crossed => Right(c, devices)
  BY <1>1, OfRunning
<1>3. c.req.tool \in {"add", "rename"}
  BY <1>1, <1>2 DEF StandsRight, Tools
<1>4. ASSUME ~c.crossed
      PROVE  /\ c.touched = {} /\ c.cut = {}
             /\ c.req.tool = "add" => c.req.name # NoName
             /\ c.req.tool = "rename" => c.aim = c.req.name /\ c.req.name # c.req.to
  BY <1>1, <1>2, <1>3, <1>4, OfItsTool DEF AddIsRight, RenameIsRight, HasAdded
<1>5. CASE Here(Wanted(t))
  <2>1. Return(t, "refused") /\ Reads
    BY <1>5 DEF Unused, Refused, Reads
  <2>2. ~c.crossed => Truth(c, "refused", devices)
    BY <1>4, NothingCut DEF Truth
  <2>3. QED BY <1>1, <2>1, <2>2, EndKeeps
<1>6. CASE ~Here(Wanted(t))
  <2>1. Goes(t, n) /\ Reads
    <3>1. To(t, p) /\ Reads
      BY Zenon, <1>6 DEF Unused
    <3> HIDE DEF p
    <3>2. QED BY Zenon, <3>1 DEF To
  <2>2. /\ IsCall(n) /\ n.pc = p /\ n.req = c.req /\ n.aim = c.aim
        /\ n.touched = c.touched /\ n.cut = c.cut /\ n.crossed = c.crossed
    BY <1>2, AtStep
  <2>3. DevicesCalled(devices, Wanted(t)) = {}
    BY <1>6, HereIsKnown
  <2> HIDE DEF n
  <2>4. StandsRight(n) /\ n.pc # "free" /\ ~HasAdded(n)
    BY <1>2, <1>3, <2>2 DEF StandsRight, HasAdded
  <2>5. ASSUME ~c.crossed PROVE Right(n, devices)
    <3>1. CASE c.req.tool = "add"
      <4>1. n.pc \in {"count", "create"} /\ DevicesCalled(devices, c.req.name) = {}
        BY <2>2, <2>3, <3>1 DEF Wanted
      <4>2. AddIsRight(n, devices)
        BY <1>4, <2>2, <2>4, <2>5, <3>1, <4>1 DEF AddIsRight
      <4>3. QED BY <2>2, <3>1, <4>2, OfItsTool
    <3>2. CASE c.req.tool = "rename"
      <4>1. n.pc = "setname" /\ DevicesCalled(devices, c.req.to) = {}
        BY <2>2, <2>3, <3>2 DEF Wanted
      <4>2. RenameIsRight(n, devices)
        BY <1>4, <2>2, <2>5, <3>2, <4>1 DEF RenameIsRight
      <4>3. QED BY <2>2, <3>2, <4>2, OfItsTool
    <3>3. QED BY <1>3, <3>1, <3>2
  <2>6. QED BY <1>1, <2>1, <2>2, <2>4, <2>5, ReadKeeps
<1>7. QED BY <1>5, <1>6

LEMMA CountKeeps ==
  ASSUME Inductive, NEW t \in Tasks, Count(t)
  PROVE  Inductive' /\ Truthful(t)
<1> DEFINE c == call[t]
           n == [c EXCEPT !.pc = "create", !.count = Len(devices)]
<1>1. c.pc = "count" /\ Running(t) /\ c.req.tool = "add" /\ Goes(t, n) /\ Reads
  BY DEF Count, Running, On
<1>2. /\ IsCall(c) /\ StandsRight(c)
      /\ ~c.crossed => Right(c, devices)
  BY <1>1, OfRunning
<1>3. /\ IsCall(n) /\ n.pc = "create" /\ n.req = c.req
      /\ n.touched = c.touched /\ n.cut = c.cut /\ n.crossed = c.crossed
  BY <1>2 DEF IsCall
<1> HIDE DEF n
<1>4. StandsRight(n) /\ n.pc # "free" /\ ~HasAdded(n)
  BY <1>1, <1>2, <1>3 DEF StandsRight, HasAdded
<1>5. ASSUME ~c.crossed PROVE Right(n, devices)
  <2>1. AddIsRight(c, devices)
    BY <1>1, <1>2, <1>5, OfItsTool
  <2>2. AddIsRight(n, devices)
    BY <1>1, <1>3, <1>4, <2>1 DEF AddIsRight, HasAdded
  <2>3. QED BY <1>1, <1>3, <2>2, OfItsTool
<1>6. QED BY <1>1, <1>3, <1>4, <1>5, ReadKeeps

LEMMA CreateKeeps ==
  ASSUME Inductive, NEW t \in Tasks, Create(t)
  PROVE  Inductive' /\ Truthful(t)
<1> DEFINE c == call[t]
           d == New(Place(t))
           s == Append(devices, d)
           m == c.touched \cup {made + 1}
           n == [c EXCEPT !.pc = "boot", !.aim = Pick, !.touched = m]
<1>1. /\ c.pc = "create" /\ Running(t) /\ devices' = s /\ made' = made + 1 /\ started' = started
      /\ made < MaxMade
      /\ Goes(t, n) \/ Return(t, "lost")
  BY Zenon DEF Create, Running, Made
<1>2. /\ IsCall(c) /\ StandsRight(c) /\ c.req.tool \in Tools /\ IsNetwork(devices)
      /\ Numbered(devices, made) /\ made \in Nat
      /\ ~c.crossed => Unique(devices) /\ Right(c, devices)
  BY <1>1, OfRunning
<1>3. c.req.tool = "add"
  BY <1>1, <1>2 DEF StandsRight, Tools
<1>4. Pick \in PickNames /\ DevicesCalled(devices, Pick) = {}
  <2>1. made <= MaxMade
    BY <1>1, <1>2, BoundsFit
  <2>2. Pick \in PickNames /\ ~Here(Pick)
    BY <1>2, <2>1, PickIsNew
  <2>3. QED BY Zenon, <2>2, HereIsKnown
<1>5. /\ IsDevice(d) /\ d.id = made + 1 /\ d.name = Pick /\ d.place = Place(t)
  BY DEF New, IsDevice
<1> HIDE DEF d
<1>6. /\ IsNetwork(s) /\ Numbered(s, made + 1) /\ DevicesCalled(s, Pick) = {d}
      /\ \A b : b # Pick => DevicesCalled(s, b) = DevicesCalled(devices, b)
      /\ ~c.crossed => Unique(s)
  BY <1>2, <1>4, <1>5, AppendOne
<1>7. NetworkFits'
  <2>1. made' \in 0..MaxMade /\ started' \in 0..MaxCalls
    BY <1>1, <1>2, BoundsFit DEF Inductive, NetworkFits
  <2> HIDE DEF s
  <2>2. QED BY Zenon, <1>1, <1>6, <2>1 DEF NetworkFits
<1>8. /\ IsCall(n) /\ n.pc = "boot" /\ n.req = c.req /\ n.aim = Pick
      /\ n.touched = c.touched \cup {made + 1} /\ n.cut = c.cut /\ n.crossed = c.crossed
  <2>1. IsCall(c)
    BY <1>2
  <2>2. n = [c EXCEPT !.pc = "boot", !.aim = Pick, !.touched = m]
    OBVIOUS
  <2> HIDE DEF n, m
  <2>3. /\ IsCall(n) /\ n.pc = "boot" /\ n.req = c.req /\ n.aim = Pick
        /\ n.touched = m /\ n.cut = c.cut /\ n.crossed = c.crossed
    BY <2>1, <2>2 DEF IsCall
  <2>4. QED BY <2>3 DEF m
<1> HIDE DEF n, s
<1>9. StandsRight(n) /\ n.pc # "free" /\ HasAdded(n)
  BY <1>2, <1>3, <1>8 DEF StandsRight, HasAdded
<1>10. ASSUME ~c.crossed PROVE Right(n, devices')
  <2>1. AddIsRight(c, devices)
    BY <1>2, <1>3, <1>10, OfItsTool
  <2>2. n.touched = {d.id} /\ n.cut = {} /\ (c.req.name # NoName => DevicesCalled(devices, c.req.name) = {})
    BY <1>1, <1>3, <1>5, <1>8, <2>1 DEF AddIsRight, HasAdded
  <2>3. c.req.at # Grid => d.place = c.req.at
    BY <1>5 DEF Place
  <2>4. AddIsRight(n, s)
    BY <1>4, <1>6, <1>8, <1>9, <2>2, <2>3 DEF AddIsRight
  <2>5. QED BY <1>1, <1>3, <1>8, <2>4, OfItsTool
<1> DEFINE B == {Pick}
<1>11. ASSUME ~c.crossed
       PROVE  /\ Unique(devices') /\ Right(n, devices')
              /\ \A b \in B : MayTouch(t, b)
              /\ \A b : b \notin B => DevicesCalled(devices', b) = DevicesCalled(devices, b)
              /\ DevicesCalled(devices, n.aim) = {}
  <2>1. \A b \in {Pick} : MayTouch(t, b)
    BY <1>3, <1>4 DEF MayTouch
  <2>2. QED BY <1>1, <1>4, <1>6, <1>8, <1>10, <1>11, <2>1
<1>12. c.req.tool # "cycle" /\ c.req.tool # "move"
  BY <1>3
<1> HIDE DEF B
<1>13. QED BY <1>1, <1>7, <1>8, <1>9, <1>11, <1>12, AlterKeeps

LEMMA BootNewKeeps ==
  ASSUME Inductive, NEW t \in Tasks, BootNew(t)
  PROVE  Inductive' /\ Truthful(t)
<1> DEFINE c == call[t]
           p == IF Wanted(t) \notin {NoName, c.aim} THEN "setname" ELSE "describe"
           n == [c EXCEPT !.pc = p]
<1>1. c.pc = "boot" /\ Running(t) /\ c.req.tool = "add" /\ Goes(t, n) /\ Reads
  BY DEF BootNew, Running, On, To
<1>2. /\ IsCall(c) /\ StandsRight(c)
      /\ ~c.crossed => Right(c, devices)
  BY <1>1, OfRunning
<1>3. /\ IsCall(n) /\ n.pc = p /\ n.req = c.req /\ n.aim = c.aim
      /\ n.touched = c.touched /\ n.cut = c.cut /\ n.crossed = c.crossed
  BY <1>2, AtStep
<1>4. IF c.req.name \notin {NoName, c.aim} THEN n.pc = "setname" ELSE n.pc = "describe"
  BY <1>1, <1>3 DEF Wanted
<1> HIDE DEF n, p
<1>5. StandsRight(n) /\ n.pc # "free" /\ HasAdded(n) /\ HasAdded(c)
  BY <1>1, <1>2, <1>3, <1>4 DEF StandsRight, HasAdded
<1>6. ASSUME ~c.crossed PROVE Right(n, devices)
  <2>1. AddIsRight(c, devices)
    BY <1>1, <1>2, <1>6, OfItsTool
  <2>2. AddIsRight(n, devices)
    BY <1>1, <1>3, <1>4, <1>5, <2>1 DEF AddIsRight
  <2>3. QED BY <1>1, <1>3, <2>2, OfItsTool
<1>7. QED BY <1>1, <1>3, <1>5, <1>6, ReadKeeps

----------------------------------------------------------------------------
\* A change of one device.

\* The device called n has become e.
Becoming(s, n, e) ==
  /\ IsNetwork(s) /\ Numbered(s, made)
  /\ \A b : b \notin {n, e.name} => DevicesCalled(s, b) = DevicesCalled(devices, b)
  /\ Unique(devices) /\ (e.name # n => DevicesCalled(devices, e.name) = {}) =>
       /\ Unique(s) /\ DevicesCalled(s, e.name) = {e}
       /\ e.name # n => DevicesCalled(s, n) = {}
  /\ DOMAIN s = DOMAIN devices /\ Len(s) = Len(devices)
  /\ s[At(n)] = e /\ \A i \in DOMAIN devices : i # At(n) => s[i] = devices[i]

LEMMA BecomesOne ==
  ASSUME IsNetwork(devices), Numbered(devices, made), made \in Nat,
         NEW n, Here(n), NEW e, IsDevice(e), e.id = Device(n).id
  PROVE  Becoming([devices EXCEPT ![At(n)] = e], n, e)
<1> DEFINE k == At(n)
           s == [devices EXCEPT ![k] = e]
<1>1. k \in DOMAIN devices /\ devices[k].name = n /\ e.id = devices[k].id
  BY AtIsFirst DEF Device
<1> HIDE DEF k
<1>2. Replaces(s, devices, k, e)
  BY <1>1, ReplaceOne
<1> HIDE DEF s
<1>3. Becoming(s, n, e)
  BY <1>1, <1>2 DEF Replaces, Becoming, k
<1>4. QED BY <1>3 DEF s, k

LEMMA NamedOne ==
  ASSUME IsNetwork(devices), Numbered(devices, made), made \in Nat, NEW n, Here(n), NEW new
  PROVE  LET e == [Device(n) EXCEPT !.name = new] IN
         /\ Becoming(Named(n, new), n, e)
         /\ e.id = Device(n).id /\ e.name = new /\ e.place = Device(n).place
<1> DEFINE e == [Device(n) EXCEPT !.name = new]
<1>1. Named(n, new) = [devices EXCEPT ![At(n)] = e]
  BY DEF Named, Device
<1>2. IsDevice(e) /\ e.id = Device(n).id /\ e.name = new /\ e.place = Device(n).place
  <2> DEFINE d == Device(n)
  <2>1. IsDevice(d) /\ d.name = n
    BY DeviceIsKnown
  <2> HIDE DEF d
  <2>2. IsDevice(e) /\ e.id = d.id /\ e.name = new /\ e.place = d.place
    BY <2>1 DEF IsDevice, d
  <2>3. QED BY <2>2 DEF d
<1> HIDE DEF e
<1>3. Becoming([devices EXCEPT ![At(n)] = e], n, e)
  BY Zenon, <1>2, BecomesOne
<1>4. QED BY Zenon, <1>1, <1>2, <1>3 DEF e

LEMMA MovedOne ==
  ASSUME IsNetwork(devices), Numbered(devices, made), made \in Nat, NEW n, Here(n), NEW place
  PROVE  LET e == [Device(n) EXCEPT !.place = place] IN
         /\ Becoming(Moved(n, place), n, e)
         /\ e.id = Device(n).id /\ e.name = n /\ e.place = place
         /\ SameButPlaces(devices, Moved(n, place))
<1> DEFINE e == [Device(n) EXCEPT !.place = place]
<1>1. Moved(n, place) = [devices EXCEPT ![At(n)] = e]
  BY DEF Moved, Device
<1>2. IsDevice(e) /\ e.id = Device(n).id /\ e.name = n /\ e.place = place /\ e.on = Device(n).on
  <2> DEFINE d == Device(n)
  <2>1. IsDevice(d) /\ d.name = n
    BY DeviceIsKnown
  <2> HIDE DEF d
  <2>2. IsDevice(e) /\ e.id = d.id /\ e.name = n /\ e.place = place /\ e.on = d.on
    BY <2>1 DEF IsDevice, d
  <2>3. QED BY <2>2 DEF d
<1> HIDE DEF e
<1>3. Becoming(Moved(n, place), n, e)
  <2>1. IsDevice(e) /\ e.id = Device(n).id
    BY <1>2
  <2>2. QED BY Zenon, <1>1, <2>1, BecomesOne
<1>4. SameButPlaces(devices, Moved(n, place))
  BY <1>2, <1>3, AtIsFirst DEF SameButPlaces, Becoming, Device
<1>5. QED BY Zenon, <1>2, <1>3, <1>4 DEF e

LEMMA PoweredOne ==
  ASSUME IsNetwork(devices), Numbered(devices, made), made \in Nat, NEW n, Here(n), NEW on \in BOOLEAN
  PROVE  LET e == [Device(n) EXCEPT !.on = on] IN
         /\ Becoming(Powered(n, on), n, e)
         /\ e.id = Device(n).id /\ e.name = n /\ e.on = on /\ e.card = Device(n).card
         /\ Unique(devices) => \A b : SamePlace(devices, Powered(n, on), b)
<1> DEFINE e == [Device(n) EXCEPT !.on = on]
<1>1. Powered(n, on) = [devices EXCEPT ![At(n)] = e]
  BY DEF Powered, Device
<1>2. /\ IsDevice(e) /\ e.id = Device(n).id /\ e.name = n /\ e.on = on /\ e.card = Device(n).card
      /\ e.place = Device(n).place
  <2> DEFINE d == Device(n)
  <2>1. IsDevice(d) /\ d.name = n
    BY DeviceIsKnown
  <2> HIDE DEF d
  <2>2. IsDevice(e) /\ e.id = d.id /\ e.name = n /\ e.on = on /\ e.card = d.card /\ e.place = d.place
    BY <2>1 DEF IsDevice, d
  <2>3. QED BY <2>2 DEF d
<1> HIDE DEF e
<1>3. Becoming(Powered(n, on), n, e)
  <2>1. IsDevice(e) /\ e.id = Device(n).id
    BY <1>2
  <2>2. QED BY Zenon, <1>1, <2>1, BecomesOne
<1>4. ASSUME Unique(devices), NEW b PROVE SamePlace(devices, Powered(n, on), b)
  <2>1. CASE b = n
    <3>1. DevicesCalled(Powered(n, on), b) = {e} /\ DevicesCalled(devices, b) = {Device(n)}
      BY <1>2, <1>3, <1>4, <2>1, TheDeviceKnown DEF Becoming
    <3>2. QED BY <1>2, <3>1 DEF SamePlace
  <2>2. CASE b # n
    BY <1>2, <1>3, <2>2 DEF Becoming, SamePlace
  <2>3. QED BY <2>1, <2>2
<1>5. QED BY Zenon, <1>2, <1>3, <1>4 DEF e

LEMMA CardedOne ==
  ASSUME IsNetwork(devices), Numbered(devices, made), made \in Nat, NEW n, Here(n), NEW in \in BOOLEAN
  PROVE  LET e == [Device(n) EXCEPT !.card = in] IN
         /\ Becoming(Carded(n, in), n, e)
         /\ e.id = Device(n).id /\ e.name = n /\ e.on = Device(n).on /\ e.card = in
<1> DEFINE e == [Device(n) EXCEPT !.card = in]
<1>1. Carded(n, in) = [devices EXCEPT ![At(n)] = e]
  BY DEF Carded, Device
<1>2. IsDevice(e) /\ e.id = Device(n).id /\ e.name = n /\ e.on = Device(n).on /\ e.card = in
  <2> DEFINE d == Device(n)
  <2>1. IsDevice(d) /\ d.name = n
    BY DeviceIsKnown
  <2> HIDE DEF d
  <2>2. IsDevice(e) /\ e.id = d.id /\ e.name = n /\ e.on = d.on /\ e.card = in
    BY <2>1 DEF IsDevice, d
  <2>3. QED BY <2>2 DEF d
<1> HIDE DEF e
<1>3. Becoming(Carded(n, in), n, e)
  <2>1. IsDevice(e) /\ e.id = Device(n).id
    BY <1>2
  <2>2. QED BY Zenon, <1>1, <2>1, BecomesOne
<1>4. QED BY Zenon, <1>2, <1>3 DEF e

----------------------------------------------------------------------------
\* add, rename, move and remove once they change a device.

LEMMA SetNameKeeps ==
  ASSUME Inductive, NEW t \in Tasks, SetName(t)
  PROVE  Inductive' /\ Truthful(t)
<1> DEFINE c == call[t]
           a == c.aim
           w == Wanted(t)
           d == Device(a)
           m == c.touched \cup {d.id}
           n == [c EXCEPT !.pc = "describe", !.aim = w, !.touched = m]
<1>1. c.pc = "setname" /\ Running(t)
  BY DEF SetName, Running
<1>2. /\ IsCall(c) /\ StandsRight(c) /\ c.req.tool \in Tools /\ IsNetwork(devices)
      /\ Numbered(devices, made) /\ made \in Nat
      /\ c.req.tool \notin {"add", "cycle"} => c.req.name # NoName
      /\ c.req.tool = "rename" => c.req.to # NoName
      /\ ~c.crossed => Unique(devices) /\ Right(c, devices)
  BY <1>1, OfRunning
<1>3. c.req.tool \in {"add", "rename"}
  BY <1>1, <1>2 DEF StandsRight, Tools
<1>4. ASSUME ~c.crossed
      PROVE  /\ c.req.tool = "add" => AddIsRight(c, devices)
             /\ c.req.tool = "rename" => RenameIsRight(c, devices)
  BY <1>2, <1>4, OfItsTool
<1>5. CASE ~Here(a)
  <2>1. Return(t, "refused") /\ Reads
    BY <1>5 DEF SetName, Refused, Reads
  <2>2. ASSUME ~c.crossed PROVE Truth(c, "refused", devices)
    <3>1. DevicesCalled(devices, a) = {}
      BY <1>5, HereIsKnown
    <3>2. c.req.tool = "rename"
      BY <1>1, <1>3, <1>4, <2>2, <3>1 DEF AddIsRight, HasAdded
    <3>3. c.touched = {} /\ c.cut = {}
      BY <1>1, <1>4, <2>2, <3>2 DEF RenameIsRight
    <3>4. QED BY <3>3, NothingCut DEF Truth
  <2>3. QED BY <1>1, <2>1, <2>2, EndKeeps
<1>6. CASE Here(a)
  <2> DEFINE s == Named(a, w)
             e == [d EXCEPT !.name = w]
             B == {a, w}
  <2>1. Changes(t, s, n)
    BY Zenon, <1>6 DEF SetName
  <2>2. /\ IsCall(n) /\ n.pc = "describe" /\ n.req = c.req /\ n.aim = w
        /\ n.touched = m /\ n.cut = c.cut /\ n.crossed = c.crossed
    <3>1. IsCall(c) /\ n = [c EXCEPT !.pc = "describe", !.aim = w, !.touched = m]
      BY <1>2
    <3> HIDE DEF n, m, w
    <3>2. QED BY <3>1 DEF IsCall
  <2>3. Becoming(s, a, e) /\ e.id = d.id /\ e.name = w /\ e.place = d.place
    BY Zenon, <1>2, <1>6, NamedOne
  <2>4. w = IF c.req.tool = "rename" THEN c.req.to ELSE c.req.name
    BY DEF Wanted
  <2>5. ~c.crossed => DevicesCalled(devices, a) = {d}
    BY <1>2, <1>6, TheDeviceKnown
  <2>6. IsNetwork(s) /\ Numbered(s, made) /\ \A b : b \notin B => DevicesCalled(s, b) = DevicesCalled(devices, b)
    BY <2>3 DEF Becoming
  <2>7. StandsRight(n) /\ n.pc # "free" /\ (HasAdded(n) <=> c.req.tool = "add")
    BY <1>2, <1>3, <2>2 DEF StandsRight, HasAdded
  <2> HIDE DEF s, e, n, m, w, d
  <2>8. ASSUME ~c.crossed
        PROVE  /\ Unique(s) /\ Right(n, s)
               /\ \A b \in B : MayTouch(t, b)
               /\ HasAdded(n) => n.aim \in NamesOf(c.req)
    <3>1. CASE c.req.tool = "add"
      <4>1. /\ AddIsRight(c, devices) /\ HasAdded(c) /\ c.req.name \notin {NoName, a} /\ c.cut = {}
            /\ DevicesCalled(devices, c.req.name) = {}
            /\ c.touched = {d.id} /\ (c.req.at # Grid => d.place = c.req.at)
        BY <1>1, <1>4, <2>5, <2>8, <3>1 DEF AddIsRight, HasAdded
      <4>2. Unique(s) /\ DevicesCalled(s, w) = {e} /\ w = c.req.name
        BY <1>2, <2>3, <2>4, <2>8, <3>1, <4>1 DEF Becoming
      <4>3. m = {e.id}
        BY <2>3, <4>1 DEF m
      <4>4. AddIsRight(n, s)
        BY <2>2, <2>3, <3>1, <4>1, <4>2, <4>3 DEF AddIsRight, HasAdded
      <4>5. w \in NamesOf(c.req) /\ MayTouch(t, a) /\ MayTouch(t, w)
        BY <3>1, <4>1, <4>2 DEF NamesOf, MayTouch
      <4>6. QED BY <2>2, <3>1, <4>2, <4>4, <4>5, OfItsTool
    <3>2. CASE c.req.tool = "rename"
      <4>1. /\ c.touched = {} /\ a = c.req.name /\ c.cut = {} /\ c.req.name # c.req.to
            /\ DevicesCalled(devices, c.req.to) = {} /\ w = c.req.to
        BY <1>1, <1>4, <2>4, <2>8, <3>2 DEF RenameIsRight
      <4>2. Unique(s) /\ DevicesCalled(s, w) = {e} /\ DevicesCalled(s, a) = {}
        BY <1>2, <2>3, <2>8, <4>1 DEF Becoming
      <4>3. m = {e.id}
        BY <2>3, <4>1 DEF m
      <4>4. RenameIsRight(n, s)
        BY <2>2, <3>2, <4>1, <4>2, <4>3 DEF RenameIsRight
      <4>5. MayTouch(t, a) /\ MayTouch(t, w)
        BY <1>2, <3>2, <4>1 DEF NamesOf, MayTouch
      <4>6. QED BY <2>2, <2>7, <3>2, <4>2, <4>4, <4>5, OfItsTool
    <3>3. QED BY <1>3, <3>1, <3>2
  <2>9. c.req.tool # "cycle" /\ c.req.tool # "move"
    BY <1>3
  <2> HIDE DEF B
  <2>10. QED BY <1>1, <2>1, <2>2, <2>6, <2>7, <2>8, <2>9, ChangeKeeps
<1>7. QED BY <1>5, <1>6

LEMMA DescribeKeeps ==
  ASSUME Inductive, NEW t \in Tasks, Describe(t)
  PROVE  Inductive' /\ Truthful(t)
<1> DEFINE c == call[t]
<1>1. c.pc = "describe" /\ Running(t) /\ Reads
  BY DEF Describe, Running, Refused, Reads
<1>2. /\ IsCall(c) /\ StandsRight(c) /\ c.req.tool \in Tools
      /\ c.req.tool \notin {"add", "cycle"} => c.req.name # NoName
      /\ ~c.crossed => Unique(devices) /\ Right(c, devices)
  BY <1>1, OfRunning
<1>3. c.req.tool \in {"add", "rename", "move"}
  BY <1>1, <1>2 DEF StandsRight, Tools
<1>4. ASSUME ~c.crossed
      PROVE  Here(c.aim) /\ c.cut = {} /\ Done(c, devices)
  <2>1. CASE c.req.tool = "add"
    <3>1. AddIsRight(c, devices)
      BY <1>2, <1>4, <2>1, OfItsTool
    <3>2. PICK d \in DevicesCalled(devices, c.aim) : c.touched = {d.id} /\ (c.req.at # Grid => d.place = c.req.at)
      BY <1>1, <2>1, <3>1 DEF AddIsRight, HasAdded
    <3>3. PICK i \in DOMAIN devices : devices[i] = d /\ devices[i].name = c.aim
      BY <3>2 DEF DevicesCalled
    <3>4. c.req.name # NoName => c.aim = c.req.name
      BY <1>1, <2>1, <3>1 DEF AddIsRight
    <3>5. c.req.name # NoName => {j \in DOMAIN devices : devices[j].name = c.req.name} = {i}
      BY <1>2, <1>4, <3>3, <3>4 DEF Unique
    <3>6. Done(c, devices)
      BY <2>1, <3>2, <3>3, <3>5 DEF Done
    <3>7. QED BY <2>1, <3>1, <3>2, <3>6, HereIsKnown DEF AddIsRight
  <2>2. CASE c.req.tool = "rename"
    <3>1. /\ c.cut = {} /\ c.aim = c.req.to
          /\ c.req.name # c.req.to => DevicesCalled(devices, c.req.name) = {}
      BY <1>1, <1>2, <1>4, <2>2, OfItsTool DEF RenameIsRight
    <3>2. PICK d \in DevicesCalled(devices, c.req.to) : c.touched \subseteq {d.id}
      BY <1>1, <1>2, <1>4, <2>2, OfItsTool DEF RenameIsRight
    <3>3. PICK i \in DOMAIN devices : devices[i] = d /\ devices[i].name = c.req.to
      BY <3>2 DEF DevicesCalled
    <3>4. {j \in DOMAIN devices : devices[j].name = c.req.to} = {i}
      BY <1>2, <1>4, <3>3 DEF Unique
    <3>5. c.req.name # c.req.to => {j \in DOMAIN devices : devices[j].name = c.req.name} = {}
      BY <3>1, NoneKnown
    <3>6. Done(c, devices)
      BY <2>2, <3>2, <3>3, <3>4, <3>5 DEF Done
    <3>7. QED BY <3>1, <3>2, <3>6, HereIsKnown
  <2>3. CASE c.req.tool = "move"
    <3>1. /\ c.cut = {} /\ c.aim = c.req.name /\ DevicesCalled(devices, c.req.name) # {}
          /\ \A d \in DevicesCalled(devices, c.req.name) : d.place = c.req.at
      BY <1>1, <1>2, <1>4, <2>3, OfItsTool DEF MoveIsRight
    <3>2. Done(c, devices)
      BY <2>3, <3>1, KnownAs DEF Done
    <3>3. QED BY <3>1, <3>2, HereIsKnown
  <2>4. QED BY <1>3, <2>1, <2>2, <2>3
<1>5. CASE Here(c.aim)
  <2>1. Return(t, "done")
    BY <1>5 DEF Describe
  <2>2. ~c.crossed => Truth(c, "done", devices)
    BY <1>4, NothingCut DEF Truth
  <2>3. QED BY <1>1, <2>1, <2>2, EndKeeps
<1>6. CASE ~Here(c.aim)
  <2>1. Return(t, "refused")
    BY <1>6 DEF Describe, Refused
  <2>2. QED BY <1>1, <1>4, <1>6, <2>1, EndKeeps
<1>7. QED BY <1>5, <1>6

LEMMA MoveKeeps ==
  ASSUME Inductive, NEW t \in Tasks, Move(t)
  PROVE  Inductive' /\ Truthful(t)
<1> DEFINE c == call[t]
           a == c.aim
           d == Device(a)
           m == c.touched \cup {d.id}
           n == [c EXCEPT !.pc = "describe", !.touched = m]
<1>1. c.pc = "move" /\ Running(t)
  BY DEF Move, Running
<1>2. /\ IsCall(c) /\ StandsRight(c) /\ c.req.tool \in Tools /\ IsNetwork(devices)
      /\ Numbered(devices, made) /\ made \in Nat
      /\ c.req.tool \notin {"add", "cycle"} => c.req.name # NoName
      /\ ~c.crossed => Unique(devices) /\ Right(c, devices)
  BY <1>1, OfRunning
<1>3. c.req.tool = "move"
  BY <1>1, <1>2 DEF StandsRight, Tools
<1>4. ~c.crossed => c.cut = {} /\ c.touched = {} /\ a = c.req.name
  BY <1>1, <1>2, <1>3, OfItsTool DEF MoveIsRight
<1>5. CASE ~Here(a)
  <2>1. Return(t, "refused") /\ Reads
    BY <1>5 DEF Move, Refused, Reads
  <2>2. ~c.crossed => Truth(c, "refused", devices)
    BY <1>4, NothingCut DEF Truth
  <2>3. QED BY <1>1, <2>1, <2>2, EndKeeps
<1>6. CASE Here(a)
  <2> DEFINE s == Moved(a, c.req.at)
             e == [d EXCEPT !.place = c.req.at]
             B == {a}
  <2>1. Changes(t, s, n)
    BY Zenon, <1>6 DEF Move
  <2>2. /\ IsCall(n) /\ n.pc = "describe" /\ n.req = c.req /\ n.aim = a
        /\ n.touched = m /\ n.cut = c.cut /\ n.crossed = c.crossed
    <3>1. IsCall(c) /\ n = [c EXCEPT !.pc = "describe", !.touched = m]
      BY <1>2
    <3> HIDE DEF n, m
    <3>2. QED BY <3>1 DEF IsCall
  <2>3. Becoming(s, a, e) /\ e.name = a /\ e.place = c.req.at /\ SameButPlaces(devices, s)
    BY Zenon, <1>2, <1>6, MovedOne
  <2>4. IsNetwork(s) /\ Numbered(s, made) /\ \A b : b \notin B => DevicesCalled(s, b) = DevicesCalled(devices, b)
    BY <2>3 DEF Becoming
  <2>5. StandsRight(n) /\ n.pc # "free" /\ ~HasAdded(n)
    BY <1>2, <1>3, <2>2 DEF StandsRight, HasAdded
  <2> HIDE DEF s, e, n, m, d
  <2>6. ASSUME ~c.crossed
        PROVE  Unique(s) /\ Right(n, s) /\ \A b \in B : MayTouch(t, b)
    <3>1. Unique(s) /\ DevicesCalled(s, c.req.name) = {e}
      BY <1>2, <1>4, <2>3, <2>6 DEF Becoming
    <3>2. MoveIsRight(n, s)
      BY <1>4, <2>2, <2>3, <2>6, <3>1 DEF MoveIsRight
    <3>3. MayTouch(t, a)
      BY <1>2, <1>3, <1>4, <2>6 DEF NamesOf, MayTouch
    <3>4. QED BY <1>3, <2>2, <3>1, <3>2, <3>3, OfItsTool
  <2> HIDE DEF B
  <2>7. c.req.tool # "cycle"
    BY <1>3
  <2>8. QED BY <1>1, <2>1, <2>2, <2>3, <2>4, <2>5, <2>6, <2>7, ChangeKeeps
<1>7. QED BY <1>5, <1>6

LEMMA RemoveKeeps ==
  ASSUME Inductive, NEW t \in Tasks, RemoveDevice(t)
  PROVE  Inductive' /\ Truthful(t)
<1> DEFINE c == call[t]
           a == c.aim
           x == IF Here(a) THEN "yes" ELSE "no"
           m == c.touched \cup {devices[i].id : i \in Called(a)}
           s == Without(devices, a)
           n == [c EXCEPT !.pc = "reply", !.applied = x, !.touched = m]
           B == {a}
<1>1. c.pc = "remove" /\ Running(t) /\ Changes(t, s, n)
  BY Zenon DEF RemoveDevice, Running
<1>2. /\ IsCall(c) /\ StandsRight(c) /\ c.req.tool \in Tools /\ IsNetwork(devices)
      /\ Numbered(devices, made) /\ made \in Nat
      /\ c.req.tool \notin {"add", "cycle"} => c.req.name # NoName
      /\ ~c.crossed => Unique(devices) /\ Right(c, devices)
  BY <1>1, OfRunning
<1>3. c.req.tool = "remove"
  BY <1>1, <1>2 DEF StandsRight, Tools
<1>4. ~c.crossed => c.cut = {} /\ c.touched = {} /\ a = c.req.name
  BY <1>1, <1>2, <1>3, OfItsTool DEF RemoveIsRight
<1>5. /\ IsNetwork(s) /\ Numbered(s, made) /\ DevicesCalled(s, a) = {}
      /\ \A b : b \notin B => DevicesCalled(s, b) = DevicesCalled(devices, b)
      /\ Unique(devices) => Unique(s)
  BY <1>2, RemoveName
<1>6. /\ IsCall(n) /\ n.pc = "reply" /\ n.req = c.req /\ n.aim = a /\ n.applied = x
      /\ n.touched = m /\ n.cut = c.cut /\ n.crossed = c.crossed
  <2>1. IsCall(c) /\ n = [c EXCEPT !.pc = "reply", !.applied = x, !.touched = m]
    BY <1>2
  <2> HIDE DEF n, m, x
  <2>2. QED BY <2>1 DEF IsCall
<1>7. ~c.crossed => (x = "yes" <=> m # {})
  <2>1. x = "yes" <=> Here(a)
    OBVIOUS
  <2>2. {devices[i].id : i \in Called(a)} # {} <=> Here(a)
    BY DEF Here
  <2>3. QED BY <1>4, <2>1, <2>2
<1> HIDE DEF n, s, m, x
<1>8. StandsRight(n) /\ n.pc # "free" /\ ~HasAdded(n)
  BY <1>2, <1>3, <1>6 DEF StandsRight, HasAdded
<1>9. ASSUME ~c.crossed
      PROVE  Unique(s) /\ Right(n, s) /\ \A b \in B : MayTouch(t, b)
  <2>1. RemoveIsRight(n, s)
    BY <1>4, <1>5, <1>6, <1>7, <1>9 DEF RemoveIsRight
  <2>2. MayTouch(t, a)
    BY <1>2, <1>3, <1>4, <1>9 DEF NamesOf, MayTouch
  <2>3. QED BY <1>2, <1>3, <1>5, <1>6, <1>9, <2>1, <2>2, OfItsTool
<1> HIDE DEF B
<1>10. c.req.tool # "cycle" /\ c.req.tool # "move"
  BY <1>3
<1>11. QED BY <1>1, <1>5, <1>6, <1>8, <1>9, <1>10, ChangeKeeps

LEMMA ReplyKeeps ==
  ASSUME Inductive, NEW t \in Tasks, Reply(t)
  PROVE  Inductive' /\ Truthful(t)
<1> DEFINE c == call[t]
           x == IF c.applied = "yes" THEN "done" ELSE "refused"
<1>1. c.pc = "reply" /\ Running(t) /\ Return(t, x) /\ Reads
  BY DEF Reply, Running
<1>2. /\ StandsRight(c) /\ c.req.tool \in Tools
      /\ ~c.crossed => Right(c, devices)
  BY <1>1, OfRunning
<1>3. c.req.tool = "remove"
  BY <1>1, <1>2 DEF StandsRight, Tools
<1>4. ASSUME ~c.crossed PROVE Truth(c, x, devices)
  <2>1. c.cut = {} /\ DevicesCalled(devices, c.req.name) = {} /\ (c.applied = "yes" <=> c.touched # {})
    BY <1>1, <1>2, <1>3, <1>4, OfItsTool DEF RemoveIsRight
  <2>2. c.touched # {} => Done(c, devices)
    BY <1>3, <2>1, NoneKnown DEF Done
  <2>3. QED BY <2>1, <2>2, NothingCut DEF Truth
<1>5. QED BY <1>1, <1>4, EndKeeps

----------------------------------------------------------------------------
\* add_module and remove_module.

LEMMA SameId ==
  ASSUME NEW s, IsNetwork(s), NEW m \in Nat, Numbered(s, m),
         NEW i \in DOMAIN s, NEW j \in DOMAIN s, s[i].id = s[j].id
  PROVE  i = j
<1>1. i \in Nat /\ j \in Nat /\ s[i].id \in Nat
  BY DEF IsNetwork, IsList, Numbered
<1>2. ~(i < j) /\ ~(j < i)
  BY <1>1 DEF Numbered
<1>3. QED BY <1>1, <1>2

LEMMA ModuleKnows ==
  ASSUME NEW c, IsCall(c), Right(c, devices), c.req.tool = "module", c.pc # "find",
         IsNetwork(devices), Unique(devices)
  PROVE  /\ ModuleIsRight(c, devices) /\ c.aim = c.req.name
         /\ Here(c.aim) /\ DevicesCalled(devices, c.req.name) = {Device(c.aim)}
<1>1. ModuleIsRight(c, devices)
  BY OfItsTool
<1>2. Here(c.aim) /\ c.aim = c.req.name
  BY <1>1, HereIsKnown DEF ModuleIsRight
<1>3. QED BY <1>1, <1>2, TheDeviceKnown

LEMMA PowerOffKeeps ==
  ASSUME Inductive, NEW t \in Tasks, PowerOff(t)
  PROVE  Inductive' /\ Truthful(t)
<1> DEFINE c == call[t]
           a == c.aim
           d == Device(a)
           m == c.touched \cup {d.id}
           k == c.cut \cup {d.id}
           n == [c EXCEPT !.pc = "change", !.touched = m, !.cut = k]
<1>1. c.pc = "off" /\ Running(t)
  BY DEF PowerOff, Running
<1>2. /\ IsCall(c) /\ StandsRight(c) /\ c.req.tool \in Tools /\ IsNetwork(devices)
      /\ Numbered(devices, made) /\ made \in Nat
      /\ c.req.tool \notin {"add", "cycle"} => c.req.name # NoName
      /\ ~c.crossed => Unique(devices) /\ Right(c, devices)
  BY <1>1, OfRunning
<1>3. c.req.tool = "module"
  BY <1>1, <1>2 DEF StandsRight, Tools
<1>4. ASSUME ~c.crossed
      PROVE  /\ Here(a) /\ a = c.req.name /\ c.touched = {} /\ c.cut = {}
             /\ DevicesCalled(devices, a) = {d} /\ d.card # c.req.on
  BY <1>1, <1>2, <1>3, <1>4, ModuleKnows DEF ModuleIsRight, Untouched
<1>5. CASE ~Here(a)
  <2>1. Return(t, "refused") /\ Reads
    BY <1>5 DEF PowerOff, Refused, Reads
  <2>2. QED BY <1>1, <1>4, <1>5, <2>1, EndKeeps
<1>6. CASE Here(a)
  <2> DEFINE s == Powered(a, FALSE)
             e == [d EXCEPT !.on = FALSE]
             B == {a}
  <2>1. Changes(t, s, n)
    BY Zenon, <1>6 DEF PowerOff
  <2>2. /\ IsCall(n) /\ n.pc = "change" /\ n.req = c.req /\ n.aim = a
        /\ n.touched = m /\ n.cut = k /\ n.crossed = c.crossed
    <3>1. IsCall(c) /\ n = [c EXCEPT !.pc = "change", !.touched = m, !.cut = k]
      BY <1>2
    <3> HIDE DEF n, m, k
    <3>2. QED BY <3>1 DEF IsCall
  <2>3. Becoming(s, a, e) /\ e.id = d.id /\ e.name = a /\ e.on = FALSE /\ e.card = d.card
    BY <1>2, <1>6, PoweredOne
  <2>4. IsNetwork(s) /\ Numbered(s, made) /\ \A b : b \notin B => DevicesCalled(s, b) = DevicesCalled(devices, b)
    BY <2>3 DEF Becoming
  <2>5. StandsRight(n) /\ n.pc # "free" /\ ~HasAdded(n)
    BY <1>2, <1>3, <2>2 DEF StandsRight, HasAdded
  <2> HIDE DEF s, e, n, m, d
  <2>6. ASSUME ~c.crossed
        PROVE  Unique(s) /\ Right(n, s) /\ \A b \in B : MayTouch(t, b)
    <3>1. Unique(s) /\ DevicesCalled(s, c.req.name) = {e}
      BY <1>2, <1>4, <2>3, <2>6 DEF Becoming
    <3>2. n.cut = {e.id}
      BY <1>4, <2>2, <2>3, <2>6
    <3>3. ModuleIsRight(n, s)
      BY <1>4, <2>2, <2>3, <2>6, <3>1, <3>2 DEF ModuleIsRight
    <3>4. MayTouch(t, a)
      BY <1>2, <1>3, <1>4, <2>6 DEF NamesOf, MayTouch
    <3>5. QED BY <1>3, <2>2, <3>1, <3>3, <3>4, OfItsTool
  <2> HIDE DEF B
  <2>7. c.req.tool # "cycle" /\ c.req.tool # "move"
    BY <1>3
  <2>8. QED BY <1>1, <2>1, <2>2, <2>4, <2>5, <2>6, <2>7, ChangeKeeps
<1>7. QED BY <1>5, <1>6

LEMMA ChangeItKeeps ==
  ASSUME Inductive, NEW t \in Tasks, Change(t)
  PROVE  Inductive' /\ Truthful(t)
<1> DEFINE c == call[t]
           a == c.aim
           d == Device(a)
           n(x) == [c EXCEPT !.pc = "on", !.applied = x]
<1>1. c.pc = "change" /\ Running(t)
  BY DEF Change, Running
<1>2. /\ IsCall(c) /\ StandsRight(c) /\ c.req.tool \in Tools /\ IsNetwork(devices) /\ c.req \in Requests
      /\ Numbered(devices, made) /\ made \in Nat
      /\ c.req.tool \notin {"add", "cycle"} => c.req.name # NoName
      /\ ~c.crossed => Unique(devices) /\ Right(c, devices)
  BY <1>1, OfRunning
<1>3. c.req.tool = "module" /\ c.req.on \in BOOLEAN
  BY <1>1, <1>2, RequestsAssumption DEF StandsRight, Tools
<1>4. ASSUME ~c.crossed
      PROVE  /\ Here(a) /\ a = c.req.name /\ c.cut = {d.id} /\ ~d.on
             /\ DevicesCalled(devices, a) = {d} /\ d.card # c.req.on
  BY <1>1, <1>2, <1>3, <1>4, ModuleKnows DEF ModuleIsRight
<1>5. ASSUME NEW x
      PROVE  /\ IsCall(n(x)) /\ n(x).pc = "on" /\ n(x).req = c.req /\ n(x).aim = a
             /\ n(x).applied = x /\ n(x).cut = c.cut /\ n(x).crossed = c.crossed
             /\ StandsRight(n(x)) /\ n(x).pc # "free" /\ ~HasAdded(n(x))
  <2> DEFINE nx == n(x)
  <2>1. /\ IsCall(nx) /\ nx.pc = "on" /\ nx.req = c.req /\ nx.aim = a
        /\ nx.applied = x /\ nx.cut = c.cut /\ nx.crossed = c.crossed
    BY <1>2 DEF IsCall
  <2> HIDE DEF nx
  <2>2. StandsRight(nx) /\ nx.pc # "free" /\ ~HasAdded(nx)
    BY <1>2, <1>3, <2>1 DEF StandsRight, HasAdded
  <2>3. QED BY Zenon, <2>1, <2>2 DEF nx
<1>6. CASE Here(a) /\ Takes(a, c.req.on)
  <2> DEFINE s == Carded(a, c.req.on)
             e == [d EXCEPT !.card = c.req.on]
             B == {a}
  <2>1. PICK x \in {"yes", "lost"} : devices' = s /\ made' = made /\ started' = started /\ Goes(t, n(x))
    BY Zenon, <1>6 DEF Change, Becomes
  <2>2. Becoming(s, a, e) /\ e.id = d.id /\ e.name = a /\ e.card = c.req.on
    BY <1>2, <1>3, <1>6, CardedOne
  <2>3. IsNetwork(s) /\ Numbered(s, made) /\ \A b : b \notin B => DevicesCalled(s, b) = DevicesCalled(devices, b)
    BY <2>2 DEF Becoming
  <2>4. NetworkFits'
    BY <2>1, <2>3 DEF Inductive, NetworkFits
  <2> DEFINE nx == n(x)
  <2>5. /\ IsCall(nx) /\ nx.pc = "on" /\ nx.req = c.req /\ nx.aim = a
        /\ nx.applied = x /\ nx.cut = c.cut /\ nx.crossed = c.crossed
        /\ StandsRight(nx) /\ nx.pc # "free" /\ ~HasAdded(nx)
    BY Zenon, <1>5
  <2>6. Goes(t, nx)
    BY <2>1
  <2> HIDE DEF s, e, n, nx, d
  <2>7. ASSUME ~c.crossed
        PROVE  Unique(s) /\ Right(nx, s) /\ \A b \in B : MayTouch(t, b)
    <3>1. Unique(s) /\ DevicesCalled(s, c.req.name) = {e}
      BY <1>2, <1>4, <2>2, <2>7 DEF Becoming
    <3>2. ModuleIsRight(nx, s)
      BY <1>4, <2>1, <2>2, <2>5, <2>7, <3>1 DEF ModuleIsRight
    <3>3. MayTouch(t, a)
      BY <1>2, <1>3, <1>4, <2>7 DEF NamesOf, MayTouch
    <3>4. QED BY <1>3, <2>5, <3>1, <3>2, <3>3, OfItsTool
  <2> HIDE DEF B
  <2>8. c.req.tool # "cycle" /\ c.req.tool # "move"
    BY <1>3
  <2>9. QED BY <1>1, <2>1, <2>3, <2>4, <2>5, <2>6, <2>7, <2>8, AlterKeeps
<1>7. CASE ~(Here(a) /\ Takes(a, c.req.on))
  <2>1. PICK x \in {"no", "lost"} : Goes(t, n(x)) /\ Reads
    BY Zenon, <1>7 DEF Change, Becomes
  <2>2. ~c.crossed => Takes(a, c.req.on)
    BY <1>4 DEF Takes
  <2> DEFINE nx == n(x)
  <2>3. /\ IsCall(nx) /\ nx.req = c.req /\ nx.crossed = c.crossed
        /\ StandsRight(nx) /\ nx.pc # "free"
    BY Zenon, <1>5
  <2>4. Goes(t, nx) /\ Reads
    BY <2>1
  <2> HIDE DEF nx, n
  <2>5. QED BY <1>1, <1>4, <1>7, <2>2, <2>3, <2>4, ReadKeeps
<1>8. QED BY <1>6, <1>7

LEMMA PowerOnKeeps ==
  ASSUME Inductive, NEW t \in Tasks, PowerOn(t)
  PROVE  Inductive' /\ Truthful(t)
<1> DEFINE c == call[t]
           a == c.aim
           d == Device(a)
           n == [c EXCEPT !.pc = "boot"]
<1>1. c.pc = "on" /\ Running(t)
  BY DEF PowerOn, Running
<1>2. /\ IsCall(c) /\ StandsRight(c) /\ c.req.tool \in Tools /\ IsNetwork(devices)
      /\ Numbered(devices, made) /\ made \in Nat
      /\ c.req.tool \notin {"add", "cycle"} => c.req.name # NoName
      /\ ~c.crossed => Unique(devices) /\ Right(c, devices)
  BY <1>1, OfRunning
<1>3. c.req.tool = "module"
  BY <1>1, <1>2 DEF StandsRight, Tools
<1>4. ASSUME ~c.crossed
      PROVE  /\ Here(a) /\ a = c.req.name /\ c.cut = {d.id} /\ DevicesCalled(devices, a) = {d}
             /\ c.applied \in {"yes", "lost"} /\ (c.applied = "yes" => d.card = c.req.on)
  BY <1>1, <1>2, <1>3, <1>4, ModuleKnows DEF ModuleIsRight
<1>5. CASE ~Here(a)
  <2>1. Return(t, "refused") /\ Reads
    BY <1>5 DEF PowerOn, Refused, Reads
  <2>2. QED BY <1>1, <1>4, <1>5, <2>1, EndKeeps
<1>6. CASE Here(a)
  <2> DEFINE s == Powered(a, TRUE)
             e == [d EXCEPT !.on = TRUE]
             B == {a}
  <2>1. Changes(t, s, n)
    BY Zenon, <1>6 DEF PowerOn
  <2>2. /\ IsCall(n) /\ n.pc = "boot" /\ n.req = c.req /\ n.aim = a
        /\ n.applied = c.applied /\ n.cut = c.cut /\ n.crossed = c.crossed
    BY <1>2, AtStep
  <2>3. Becoming(s, a, e) /\ e.id = d.id /\ e.name = a /\ e.on = TRUE /\ e.card = d.card
    BY <1>2, <1>6, PoweredOne
  <2>4. IsNetwork(s) /\ Numbered(s, made) /\ \A b : b \notin B => DevicesCalled(s, b) = DevicesCalled(devices, b)
    BY <2>3 DEF Becoming
  <2>5. StandsRight(n) /\ n.pc # "free" /\ ~HasAdded(n)
    BY <1>2, <1>3, <2>2 DEF StandsRight, HasAdded
  <2> HIDE DEF s, e, n, d
  <2>6. ASSUME ~c.crossed
        PROVE  Unique(s) /\ Right(n, s) /\ \A b \in B : MayTouch(t, b)
    <3>1. Unique(s) /\ DevicesCalled(s, c.req.name) = {e}
      BY <1>2, <1>4, <2>3, <2>6 DEF Becoming
    <3>2. ModuleIsRight(n, s)
      BY <1>4, <2>2, <2>3, <2>6, <3>1 DEF ModuleIsRight
    <3>3. MayTouch(t, a)
      BY <1>2, <1>3, <1>4, <2>6 DEF NamesOf, MayTouch
    <3>4. QED BY <1>3, <2>2, <3>1, <3>2, <3>3, OfItsTool
  <2> HIDE DEF B
  <2>7. c.req.tool # "cycle" /\ c.req.tool # "move"
    BY <1>3
  <2>8. QED BY <1>1, <2>1, <2>2, <2>4, <2>5, <2>6, <2>7, ChangeKeeps
<1>7. QED BY <1>5, <1>6

LEMMA BootModuleKeeps ==
  ASSUME Inductive, NEW t \in Tasks, BootModule(t)
  PROVE  Inductive' /\ Truthful(t)
<1> DEFINE c == call[t]
           n == [c EXCEPT !.pc = "after"]
<1>1. c.pc = "boot" /\ Running(t) /\ c.req.tool = "module" /\ Goes(t, n) /\ Reads
  BY DEF BootModule, Running, On, To
<1>2. /\ IsCall(c) /\ StandsRight(c)
      /\ ~c.crossed => Right(c, devices)
  BY <1>1, OfRunning
<1>3. /\ IsCall(n) /\ n.pc = "after" /\ n.req = c.req /\ n.aim = c.aim /\ n.applied = c.applied
      /\ n.touched = c.touched /\ n.cut = c.cut /\ n.crossed = c.crossed
  BY <1>2, AtStep
<1> HIDE DEF n
<1>4. StandsRight(n) /\ n.pc # "free" /\ ~HasAdded(n)
  BY <1>1, <1>2, <1>3 DEF StandsRight, HasAdded
<1>5. ASSUME ~c.crossed PROVE Right(n, devices)
  <2>1. ModuleIsRight(c, devices)
    BY <1>1, <1>2, <1>5, OfItsTool
  <2>2. ModuleIsRight(n, devices)
    BY <1>1, <1>3, <2>1 DEF ModuleIsRight
  <2>3. QED BY <1>1, <1>3, <2>2, OfItsTool
<1>6. QED BY <1>1, <1>3, <1>4, <1>5, ReadKeeps

LEMMA AfterKeeps ==
  ASSUME Inductive, NEW t \in Tasks, After(t)
  PROVE  Inductive' /\ Truthful(t)
<1> DEFINE c == call[t]
           a == c.aim
           d == Device(a)
           result == CASE c.applied = "lost" -> "change_lost"
                       [] c.applied = "no"   -> "refused"
                       [] OTHER -> IF Here(a) THEN "done" ELSE "refused"
<1>1. c.pc = "after" /\ Running(t) /\ Return(t, result) /\ Reads
  BY Zenon DEF After, Running
<1>2. /\ IsCall(c) /\ StandsRight(c) /\ c.req.tool \in Tools /\ IsNetwork(devices)
      /\ Numbered(devices, made) /\ made \in Nat
      /\ ~c.crossed => Unique(devices) /\ Right(c, devices)
  BY <1>1, OfRunning
<1>3. c.req.tool = "module"
  BY <1>1, <1>2 DEF StandsRight, Tools
<1>4. ASSUME ~c.crossed PROVE Truth(c, result, devices)
  <2>1. /\ ModuleIsRight(c, devices) /\ Here(a) /\ a = c.req.name
        /\ DevicesCalled(devices, c.req.name) = {d}
    BY <1>1, <1>2, <1>3, <1>4, ModuleKnows
  <2>2. /\ c.applied \in {"yes", "lost"} /\ c.cut = {d.id} /\ d.on
        /\ c.applied = "yes" => d.card = c.req.on
    BY <1>1, <1>3, <2>1 DEF ModuleIsRight
  <2>3. result = "change_lost" \/ (c.applied = "yes" /\ result = "done")
    BY <2>1, <2>2
  <2> HIDE DEF result
  <2>4. \A i \in DOMAIN devices : devices[i].name = c.req.name => devices[i] = d
    BY <2>1 DEF DevicesCalled
  <2>5. At(a) \in DOMAIN devices /\ d = devices[At(a)]
    BY <2>1, <1>2, AtIsFirst DEF Device
  <2>6. Lit(c, devices)
    BY <1>2, <2>2, <2>5, SameId DEF Lit
  <2>7. c.applied = "yes" => Done(c, devices)
    BY <1>3, <2>2, <2>4 DEF Done
  <2>8. QED BY <2>3, <2>6, <2>7 DEF Truth
<1> HIDE DEF result
<1>5. QED BY <1>1, <1>4, EndKeeps

----------------------------------------------------------------------------
\* set_power, and the second half of a power cycle.

LEMMA PowerKnows ==
  ASSUME NEW c, IsCall(c), Right(c, devices), IsNetwork(devices), Unique(devices),
         c.req.tool = "power" \/ c.req.tool = "cycle", c.pc \in {"look", "switch", "boot", "verify"}
  PROVE  /\ Here(c.aim) /\ DevicesCalled(devices, c.aim) = {Device(c.aim)}
         /\ At(c.aim) \in DOMAIN devices /\ devices[At(c.aim)] = Device(c.aim)
         /\ \A i \in DOMAIN devices : devices[i].name = c.aim => i = At(c.aim)
         /\ c.req.tool = "power" => PowerIsRight(c, devices) /\ c.aim = c.req.name
         /\ c.req.tool = "cycle" => Restoring(c, devices)
<1>1. CASE c.req.tool = "power"
  <2>1. PowerIsRight(c, devices)
    BY <1>1, OfItsTool
  <2>2. Here(c.aim) /\ c.aim = c.req.name
    BY <1>1, <2>1, HereIsKnown DEF PowerIsRight
  <2>3. QED BY <1>1, <2>1, <2>2, TheDeviceKnown, AtIsFirst DEF Unique, Device
<1>2. CASE c.req.tool = "cycle"
  <2>1. Here(c.aim) /\ Restoring(c, devices)
    BY <1>2, NextIsThere
  <2>2. QED BY <1>2, <2>1, TheDeviceKnown, AtIsFirst DEF Unique, Device
<1>3. QED BY <1>1, <1>2

LEMMA AskedIsRight ==
  ASSUME NEW t, call[t].req \in Requests
  PROVE  /\ Asked(t) \in BOOLEAN /\ call[t].req.on \in BOOLEAN
         /\ call[t].req.tool = "cycle" => Asked(t) = TRUE
         /\ call[t].req.tool = "power" => Asked(t) = call[t].req.on
<1>1. call[t].req.on \in BOOLEAN
  BY RequestsAssumption
<1>2. call[t].req.tool = "power" => Asked(t) = call[t].req.on
  BY <1>1 DEF Asked
<1>3. call[t].req.tool = "cycle" => Asked(t) = TRUE
  BY DEF Asked
<1>4. Asked(t) \in BOOLEAN
  BY Zenon DEF Asked
<1>5. QED BY Zenon, <1>1, <1>2, <1>3, <1>4

LEMMA LookKeeps ==
  ASSUME Inductive, NEW t \in Tasks, Look(t)
  PROVE  Inductive' /\ Truthful(t)
<1> DEFINE c == call[t]
           a == c.aim
           d == Device(a)
           p == IF d.on = Asked(t) THEN "verify" ELSE "switch"
           n == [c EXCEPT !.pc = p]
<1>1. c.pc = "look" /\ Running(t)
  BY DEF Look, Running
<1>2. /\ IsCall(c) /\ StandsRight(c) /\ c.req \in Requests /\ c.req.tool \in Tools /\ IsNetwork(devices)
      /\ ~c.crossed => Unique(devices) /\ Right(c, devices)
  BY <1>1, OfRunning
<1>3. c.req.tool = "power" \/ c.req.tool = "cycle"
  BY <1>1, <1>2 DEF StandsRight, Tools
<1>4. ASSUME ~c.crossed
      PROVE  /\ Here(a) /\ DevicesCalled(devices, a) = {d} /\ devices[At(a)] = d
             /\ \A i \in DOMAIN devices : devices[i].name = a => i = At(a)
             /\ c.req.tool = "power" => PowerIsRight(c, devices) /\ a = c.req.name
             /\ c.req.tool = "cycle" => Restoring(c, devices)
  BY <1>1, <1>2, <1>3, <1>4, PowerKnows
<1>5. CASE ~Here(a)
  <2>1. Return(t, "refused") /\ Reads
    BY <1>5 DEF Look, Refused, Reads
  <2>2. QED BY <1>1, <1>4, <1>5, <2>1, EndKeeps
<1>6. CASE Here(a)
  <2>1. Goes(t, n) /\ Reads
    <3>1. To(t, p) /\ Reads
      BY Zenon, <1>6 DEF Look
    <3> HIDE DEF p
    <3>2. QED BY Zenon, <3>1 DEF To
  <2>2. /\ IsCall(n) /\ n.pc = p /\ n.req = c.req /\ n.aim = a /\ n.back = c.back
        /\ n.touched = c.touched /\ n.cut = c.cut /\ n.crossed = c.crossed
    BY <1>2, AtStep
  <2>3. n.pc \in {"verify", "switch"} /\ (n.pc = "verify" => d.on = Asked(t))
    BY <2>2
  <2> HIDE DEF n, d, p
  <2>4. StandsRight(n) /\ n.pc # "free" /\ ~HasAdded(n)
    BY <1>1, <1>2, <1>3, <2>2, <2>3 DEF StandsRight, HasAdded
  <2>5. ASSUME ~c.crossed PROVE Right(n, devices)
    <3>1. CASE c.req.tool = "power"
      <4>1. n.pc = "verify" => d.on = c.req.on
        BY Zenon, <1>2, <2>3, <3>1, AskedIsRight
      <4>2. PowerIsRight(n, devices)
        BY <1>1, <1>4, <2>2, <2>3, <2>5, <3>1, <4>1 DEF PowerIsRight
      <4>3. QED BY <2>2, <3>1, <4>2, OfItsTool
    <3>2. CASE c.req.tool = "cycle"
      <4>1. n.pc = "verify" => d.on
        BY Zenon, <1>2, <2>3, <3>2, AskedIsRight
      <4>2. Restoring(n, devices)
        BY <1>4, <2>2, <2>3, <2>5, <3>2, <4>1 DEF Restoring
      <4>3. CycleIsRight(n, devices)
        BY <2>3, <4>2 DEF CycleIsRight
      <4>4. QED BY <2>2, <3>2, <4>3, OfItsTool
    <3>3. QED BY <1>3, <3>1, <3>2
  <2>6. QED BY <1>1, <2>1, <2>2, <2>4, <2>5, ReadKeeps
<1>7. QED BY <1>5, <1>6

LEMMA SwitchKeeps ==
  ASSUME Inductive, NEW t \in Tasks, Switch(t)
  PROVE  Inductive' /\ Truthful(t)
<1> DEFINE c == call[t]
           a == c.aim
           d == Device(a)
           p == IF Asked(t) THEN "boot" ELSE "verify"
           m == c.touched \cup {d.id}
           n == [c EXCEPT !.pc = p, !.touched = m]
<1>1. c.pc = "switch" /\ Running(t)
  BY DEF Switch, Running
<1>2. /\ IsCall(c) /\ StandsRight(c) /\ c.req \in Requests /\ c.req.tool \in Tools /\ IsNetwork(devices)
      /\ Numbered(devices, made) /\ made \in Nat
      /\ c.req.tool \notin {"add", "cycle"} => c.req.name # NoName
      /\ ~c.crossed => Unique(devices) /\ Right(c, devices)
  BY <1>1, OfRunning
<1>3. c.req.tool = "power" \/ c.req.tool = "cycle"
  BY <1>1, <1>2 DEF StandsRight, Tools
<1>4. ASSUME ~c.crossed
      PROVE  /\ Here(a) /\ DevicesCalled(devices, a) = {d} /\ devices[At(a)] = d /\ At(a) \in DOMAIN devices
             /\ \A i \in DOMAIN devices : devices[i].name = a => i = At(a)
             /\ c.req.tool = "power" => PowerIsRight(c, devices) /\ a = c.req.name
             /\ c.req.tool = "cycle" => Restoring(c, devices)
  BY <1>1, <1>2, <1>3, <1>4, PowerKnows
<1>5. CASE ~Here(a)
  <2>1. Return(t, "refused") /\ Reads
    BY <1>5 DEF Switch, Refused, Reads
  <2>2. QED BY <1>1, <1>4, <1>5, <2>1, EndKeeps
<1>6. CASE Here(a)
  <2> DEFINE on == Asked(t)
             s == Powered(a, on)
             e == [d EXCEPT !.on = on]
             B == {a}
  <2>1. Changes(t, s, n)
    BY Zenon, <1>6 DEF Switch
  <2>2. /\ IsCall(n) /\ n.pc \in {"boot", "verify"} /\ n.req = c.req /\ n.aim = a /\ n.back = c.back
        /\ n.touched = m /\ n.cut = c.cut /\ n.crossed = c.crossed
    <3>1. IsCall(c) /\ n = [c EXCEPT !.pc = p, !.touched = m] /\ p \in {"boot", "verify"}
      BY <1>2
    <3> HIDE DEF n, m, p
    <3>2. QED BY <3>1 DEF IsCall
  <2>3. /\ Becoming(s, a, e) /\ e.id = d.id /\ e.name = a /\ e.on = on
        /\ Unique(devices) => \A b : SamePlace(devices, s, b)
    <3>1. on \in BOOLEAN
      BY <1>2, AskedIsRight
    <3> HIDE DEF on
    <3>2. QED BY <1>2, <1>6, <3>1, PoweredOne
  <2>4. IsNetwork(s) /\ Numbered(s, made) /\ \A b : b \notin B => DevicesCalled(s, b) = DevicesCalled(devices, b)
    BY <2>3 DEF Becoming
  <2>5. StandsRight(n) /\ n.pc # "free" /\ ~HasAdded(n)
    <3> HIDE DEF n, m, p
    <3>1. QED BY <1>1, <1>2, <1>3, <2>2 DEF StandsRight, HasAdded
  <2>6. /\ c.req.tool = "power" => e.on = c.req.on
        /\ c.req.tool = "cycle" => e.on = TRUE
    BY Zenon, <1>2, <2>3, AskedIsRight
  <2> HIDE DEF s, e, n, m, d, p, on
  <2>7. ASSUME ~c.crossed
        PROVE  Unique(s) /\ Right(n, s) /\ (c.req.tool # "cycle" => \A b \in B : MayTouch(t, b))
    <3>1. Unique(s) /\ DevicesCalled(s, a) = {e}
      BY <1>2, <2>3, <2>7 DEF Becoming
    <3>2. CASE c.req.tool = "power"
      <4>1. PowerIsRight(n, s)
        BY <1>4, <2>2, <2>6, <2>7, <3>1, <3>2 DEF PowerIsRight
      <4>2. MayTouch(t, a)
        BY <1>2, <1>4, <2>7, <3>2 DEF NamesOf, MayTouch
      <4>3. QED BY <2>2, <3>1, <3>2, <4>1, <4>2, OfItsTool
    <3>3. CASE c.req.tool = "cycle"
      <4>1. /\ Restoring(c, devices) /\ DOMAIN s = DOMAIN devices
            /\ s[At(a)] = e /\ \A i \in DOMAIN devices : i # At(a) => s[i] = devices[i]
        BY <1>4, <2>3, <2>7, <3>3 DEF Becoming
      <4>2. \A i \in DOMAIN devices : s[i].id = devices[i].id /\ s[i].name = devices[i].name
        <5>1. devices[At(a)].name = a /\ devices[At(a)].id = e.id /\ e.name = a
          BY <1>2, <1>4, <1>6, <2>3, <2>7, AtIsFirst
        <5>2. QED BY <4>1, <5>1
      <4>3. devices[At(a)].id \in c.cut
        <5>1. 1 \in DOMAIN c.back /\ a = c.back[1]
          BY <1>2, <4>1, FirstOf DEF Restoring, IsCall
        <5>2. QED BY <1>4, <2>7, <4>1, <5>1 DEF Restoring
      <4>4. \A i \in DOMAIN s : s[i].name = a => s[i].on
        BY <1>4, <2>6, <2>7, <3>3, <4>1, <4>2
      <4>5. Restoring(n, s)
        <5>1. \A i \in DOMAIN s : s[i].on => s[i].id \in c.cut
          BY <4>1, <4>2, <4>3 DEF Restoring
        <5>2. \A i \in DOMAIN s : s[i].id \in c.cut => s[i].on \/ \E k \in DOMAIN c.back : c.back[k] = s[i].name
          BY <2>6, <3>3, <4>1, <4>2 DEF Restoring
        <5>3. QED BY <2>2, <4>1, <4>2, <4>4, <5>1, <5>2 DEF Restoring
      <4>6. CycleIsRight(n, s)
        BY <2>2, <4>5 DEF CycleIsRight
      <4>7. QED BY <2>2, <3>1, <3>3, <4>6, OfItsTool
    <3>4. QED BY <1>3, <3>2, <3>3
  <2> HIDE DEF B
  <2>8. c.req.tool # "move" /\ (~c.crossed /\ c.req.tool = "cycle" => \A b : SamePlace(devices, s, b))
    BY <1>2, <1>3, <2>3
  <2>9. QED BY <1>1, <2>1, <2>2, <2>4, <2>5, <2>7, <2>8, ChangeKeeps
<1>7. QED BY <1>5, <1>6

LEMMA BootAgainKeeps ==
  ASSUME Inductive, NEW t \in Tasks, BootAgain(t)
  PROVE  Inductive' /\ Truthful(t)
<1> DEFINE c == call[t]
           a == c.aim
           n == [c EXCEPT !.pc = "verify"]
<1>1. c.pc = "boot" /\ Running(t) /\ (c.req.tool = "power" \/ c.req.tool = "cycle")
  BY DEF BootAgain, Running, On
<1>2. /\ IsCall(c) /\ StandsRight(c) /\ IsNetwork(devices)
      /\ ~c.crossed => Unique(devices) /\ Right(c, devices)
  BY <1>1, OfRunning
<1>3. ASSUME ~c.crossed
      PROVE  /\ Here(a)
             /\ c.req.tool = "power" => PowerIsRight(c, devices)
             /\ c.req.tool = "cycle" => Restoring(c, devices)
  BY <1>1, <1>2, <1>3, PowerKnows
<1>4. CASE ~Here(a)
  <2>1. Return(t, "refused") /\ Reads
    BY <1>4 DEF BootAgain, Refused, Reads
  <2>2. QED BY <1>1, <1>3, <1>4, <2>1, EndKeeps
<1>5. CASE Here(a)
  <2>1. Goes(t, n) /\ Reads
    BY Zenon, <1>5 DEF BootAgain, To
  <2>2. /\ IsCall(n) /\ n.pc = "verify" /\ n.req = c.req /\ n.aim = a /\ n.back = c.back
        /\ n.touched = c.touched /\ n.cut = c.cut /\ n.crossed = c.crossed
    BY <1>2, AtStep
  <2> HIDE DEF n
  <2>3. StandsRight(n) /\ n.pc # "free" /\ ~HasAdded(n)
    BY <1>1, <1>2, <2>2 DEF StandsRight, HasAdded
  <2>4. ASSUME ~c.crossed PROVE Right(n, devices)
    <3>1. CASE c.req.tool = "power"
      <4>1. PowerIsRight(n, devices)
        BY <1>1, <1>3, <2>2, <2>4, <3>1 DEF PowerIsRight
      <4>2. QED BY <2>2, <3>1, <4>1, OfItsTool
    <3>2. CASE c.req.tool = "cycle"
      <4>1. Restoring(n, devices)
        BY <1>1, <1>3, <2>2, <2>4, <3>2 DEF Restoring
      <4>2. CycleIsRight(n, devices)
        BY <2>2, <4>1 DEF CycleIsRight
      <4>3. QED BY <2>2, <3>2, <4>2, OfItsTool
    <3>3. QED BY <1>1, <3>1, <3>2
  <2>5. QED BY <1>1, <2>1, <2>2, <2>3, <2>4, ReadKeeps
<1>6. QED BY <1>4, <1>5

LEMMA VerifyKeeps ==
  ASSUME Inductive, NEW t \in Tasks, Verify(t)
  PROVE  Inductive' /\ Truthful(t)
<1> DEFINE c == call[t]
           a == c.aim
           d == Device(a)
           q == Tail(c.back)
           b == [c EXCEPT !.back = q]
           n == [b EXCEPT !.pc = "find", !.aim = Head(b.back)]
<1>1. c.pc = "verify" /\ Running(t)
  BY DEF Verify, Running
<1>2. /\ IsCall(c) /\ StandsRight(c) /\ c.req \in Requests /\ c.req.tool \in Tools /\ IsNetwork(devices)
      /\ Numbered(devices, made) /\ made \in Nat
      /\ ~c.crossed => Unique(devices) /\ Right(c, devices)
  BY <1>1, OfRunning
<1>3. c.req.tool = "power" \/ c.req.tool = "cycle"
  BY <1>1, <1>2 DEF StandsRight, Tools
<1>4. ASSUME ~c.crossed
      PROVE  /\ Here(a) /\ DevicesCalled(devices, a) = {d} /\ devices[At(a)] = d /\ At(a) \in DOMAIN devices
             /\ \A i \in DOMAIN devices : devices[i].name = a => i = At(a)
             /\ c.req.tool = "power" => PowerIsRight(c, devices) /\ a = c.req.name
             /\ c.req.tool = "cycle" => Restoring(c, devices)
  BY <1>1, <1>2, <1>3, <1>4, PowerKnows
<1>5. ASSUME ~c.crossed
      PROVE  d.on = Asked(t)
  <2>1. CASE c.req.tool = "power"
    <3>1. d.on = c.req.on
      BY <1>1, <1>4, <1>5, <2>1 DEF PowerIsRight
    <3>2. QED BY Zenon, <1>2, <2>1, <3>1, AskedIsRight
  <2>2. CASE c.req.tool = "cycle"
    <3>1. d.on /\ d.on \in BOOLEAN
      BY <1>1, <1>2, <1>4, <1>5, <2>2, DeviceIsKnown DEF Restoring, IsDevice
    <3>2. Asked(t) = TRUE
      BY <1>2, <2>2, AskedIsRight
    <3>3. QED BY <3>1, <3>2
  <2>3. QED BY <1>3, <2>1, <2>2
<1>6. CASE ~Here(a) \/ d.on # Asked(t)
  <2>1. Return(t, "refused") /\ Reads
    BY Zenon, <1>6 DEF Verify, Refused, Reads
  <2>2. QED BY <1>1, <1>4, <1>5, <1>6, <2>1, EndKeeps
<1>7. CASE ~(~Here(a) \/ d.on # Asked(t)) /\ c.req.tool # "cycle"
  <2>1. Return(t, "done") /\ Reads
    BY Zenon, <1>7 DEF Verify
  <2>2. ASSUME ~c.crossed PROVE Truth(c, "done", devices)
    <3>1. c.cut = {} /\ \A x \in DevicesCalled(devices, c.req.name) : x.on = c.req.on
      BY <1>1, <1>3, <1>4, <1>7, <2>2 DEF PowerIsRight
    <3>2. Done(c, devices)
      BY <1>3, <1>7, <3>1 DEF Done, DevicesCalled
    <3>3. QED BY <3>1, <3>2, NothingCut DEF Truth
  <2>3. QED BY <1>1, <2>1, <2>2, EndKeeps
<1>8. CASE ~(~Here(a) \/ d.on # Asked(t)) /\ c.req.tool = "cycle"
  <2>1. NextBack(t, b) /\ Reads
    BY Zenon, <1>8 DEF Verify
  <2>2. /\ IsList(c.back) /\ c.back # <<>>
    BY <1>1, <1>2, <1>8 DEF IsCall, StandsRight
  <2>3. /\ 1 \in DOMAIN c.back /\ Head(c.back) = c.back[1]
        /\ IsList(q) /\ \A k \in DOMAIN q : k + 1 \in DOMAIN c.back /\ q[k] = c.back[k + 1]
        /\ \A k \in DOMAIN c.back : k # 1 => k - 1 \in DOMAIN q /\ q[k - 1] = c.back[k]
    BY <2>2, FirstOf
  <2>4. b.back = q
    BY <1>2 DEF IsCall
  <2>5. CASE q = <<>>
    <3>1. Return(t, "done") /\ Reads
      BY Zenon, <2>1, <2>4, <2>5 DEF NextBack
    <3>2. ASSUME ~c.crossed PROVE Truth(c, "done", devices)
      <4>1. \A k \in DOMAIN c.back : k = 1
        <5> HIDE DEF q, c
        <5>1. DOMAIN q = {}
          BY <2>5
        <5>2. QED BY <2>3, <5>1
      <4>2. Restoring(c, devices) /\ c.aim = c.back[1]
        BY <1>4, <1>8, <2>3, <3>2 DEF Restoring
      <4>3. \A i \in DOMAIN devices : devices[i].id \in c.cut => devices[i].on
        BY <1>1, <4>1, <4>2 DEF Restoring
      <4>4. Lit(c, devices)
        BY <4>3 DEF Lit
      <4>5. Done(c, devices)
        BY <1>8, <4>2, <4>3 DEF Done, Restoring
      <4>6. QED BY <4>4, <4>5 DEF Truth
    <3>3. QED BY <1>1, <3>1, <3>2, EndKeeps
  <2>6. CASE q # <<>>
    <3> DEFINE h == Head(q)
    <3>1. Goes(t, n) /\ Reads
      BY Zenon, <2>1, <2>4, <2>6 DEF NextBack
    <3>2. /\ IsCall(n) /\ n.pc = "find" /\ n.req = c.req /\ n.aim = h /\ n.back = q
          /\ n.touched = c.touched /\ n.cut = c.cut /\ n.crossed = c.crossed
      <4>1. IsCall(b) /\ b.req = c.req /\ b.back = q /\ b.touched = c.touched /\ b.cut = c.cut /\ b.crossed = c.crossed
        <5>1. IsCall(c) /\ IsList(q) /\ b = [c EXCEPT !.back = q]
          BY <1>2, <2>3
        <5> HIDE DEF b, q
        <5>2. QED BY <5>1 DEF IsCall
      <4>2. n = [b EXCEPT !.pc = "find", !.aim = h]
        BY Zenon, <4>1
      <4> HIDE DEF n, b, h, q
      <4>3. QED BY <4>1, <4>2 DEF IsCall
    <3> HIDE DEF n, b
    <3>3. StandsRight(n) /\ n.pc # "free" /\ ~HasAdded(n)
      <4> HIDE DEF q
      <4>1. QED BY <1>2, <1>8, <2>6, <3>2 DEF StandsRight, HasAdded
    <3>4. ASSUME ~c.crossed PROVE Right(n, devices)
      <4>1. Restoring(c, devices) /\ c.aim = c.back[1]
        BY <1>4, <1>8, <2>3, <3>4 DEF Restoring
      <4> HIDE DEF q, h
      <4>2. \A k \in DOMAIN q : \E i \in DOMAIN devices : q[k] = devices[i].name /\ devices[i].id \in c.cut
        BY <2>3, <4>1 DEF Restoring
      <4>3. \A i \in DOMAIN devices : devices[i].id \in c.cut =>
              devices[i].on \/ \E k \in DOMAIN q : q[k] = devices[i].name
        BY <1>1, <2>3, <4>1 DEF Restoring
      <4>4. Restoring(n, devices)
        BY <2>6, <3>2, <4>1, <4>2, <4>3 DEF Restoring, h
      <4>5. CycleIsRight(n, devices)
        BY <3>2, <4>4 DEF CycleIsRight
      <4>6. QED BY <1>8, <3>2, <4>5, OfItsTool
    <3>5. QED BY <1>1, <3>1, <3>2, <3>3, <3>4, ReadKeeps
  <2>7. QED BY <2>5, <2>6
<1>9. QED BY <1>6, <1>7, <1>8

----------------------------------------------------------------------------
\* The first half of a power cycle.

LEMMA CountRowsKeeps ==
  ASSUME Inductive, NEW t \in Tasks, CountRows(t)
  PROVE  Inductive' /\ Truthful(t)
<1> DEFINE c == call[t]
           l == Len(devices)
           n == [c EXCEPT !.pc = "row", !.count = l]
<1>1. c.pc = "count" /\ Running(t) /\ c.req.tool = "cycle" /\ Goes(t, n) /\ Reads
  BY DEF CountRows, Running, On
<1>2. /\ IsCall(c) /\ StandsRight(c) /\ IsNetwork(devices)
      /\ ~c.crossed => Right(c, devices)
  BY <1>1, OfRunning
<1>3. /\ IsCall(n) /\ n.pc = "row" /\ n.req = c.req /\ n.count = l /\ n.rows = c.rows /\ n.back = c.back
      /\ n.touched = c.touched /\ n.cut = c.cut /\ n.crossed = c.crossed
  <2>1. IsCall(c) /\ n = [c EXCEPT !.pc = "row", !.count = l]
    BY <1>2
  <2> HIDE DEF n, l
  <2>2. QED BY <2>1 DEF IsCall
<1> HIDE DEF n
<1>4. StandsRight(n) /\ n.pc # "free" /\ ~HasAdded(n)
  BY <1>1, <1>2, <1>3 DEF StandsRight, HasAdded
<1>5. ASSUME ~c.crossed PROVE Right(n, devices)
  <2>1. Listing(c, devices)
    BY <1>1, <1>2, <1>5, OfItsTool DEF CycleIsRight
  <2>2. c.rows = <<>> /\ Len(devices) \in Nat /\ Untouched(n) /\ n.back = <<>>
    BY <1>1, <1>2, <1>3, <2>1 DEF Listing, Untouched, IsNetwork, IsList
  <2>3. Listing(n, devices)
    BY <1>3, <2>2 DEF Listing
  <2>4. CycleIsRight(n, devices)
    BY <1>3, <2>3 DEF CycleIsRight
  <2>5. QED BY <1>1, <1>3, <2>4, OfItsTool
<1>6. QED BY <1>1, <1>3, <1>4, <1>5, ReadKeeps

LEMMA RowKeeps ==
  ASSUME Inductive, NEW t \in Tasks, Row(t)
  PROVE  Inductive' /\ Truthful(t)
<1> DEFINE c == call[t]
           k == Len(c.rows) + 1
<1>1. c.pc = "row" /\ Running(t)
  BY DEF Row, Running
<1>2. /\ IsCall(c) /\ StandsRight(c) /\ c.req.tool \in Tools /\ IsNetwork(devices)
      /\ ~c.crossed => Right(c, devices)
  BY <1>1, OfRunning
<1>3. c.req.tool = "cycle"
  BY <1>1, <1>2 DEF StandsRight, Tools
<1>4. /\ Len(c.rows) \in Nat /\ DOMAIN c.rows = 1..Len(c.rows)
      /\ Len(devices) \in Nat /\ DOMAIN devices = 1..Len(devices)
  <2>1. Len(c.rows) \in Nat /\ DOMAIN c.rows = 1..Len(c.rows)
    BY <1>2, FirstOf DEF IsCall
  <2>2. QED BY <1>2, <2>1 DEF IsNetwork, IsList
<1>5. ASSUME ~c.crossed
      PROVE  /\ Untouched(c) /\ c.back = <<>> /\ c.count = Len(devices) /\ Len(c.rows) <= Len(devices)
             /\ \A j \in DOMAIN c.rows : c.rows[j] = devices[j].name
  BY <1>1, <1>2, <1>3, <1>5, OfItsTool DEF CycleIsRight, Listing
<1>6. CASE k > c.count
  <2> DEFINE n == [c EXCEPT !.pc = "cut"]
  <2>1. Goes(t, n) /\ Reads
    BY Zenon, <1>6 DEF Row, To
  <2>2. /\ IsCall(n) /\ n.pc = "cut" /\ n.req = c.req /\ n.rows = c.rows /\ n.back = c.back
        /\ n.touched = c.touched /\ n.cut = c.cut /\ n.crossed = c.crossed
    BY <1>2, AtStep
  <2> HIDE DEF n
  <2>3. StandsRight(n) /\ n.pc # "free" /\ ~HasAdded(n)
    BY <1>2, <1>3, <2>2 DEF StandsRight, HasAdded
  <2>4. ASSUME ~c.crossed PROVE Right(n, devices)
    <3>1. Len(c.rows) = Len(devices)
      BY <1>4, <1>5, <1>6, <2>4
    <3>2. Through(n, devices) = 0
      BY <1>4, <2>2, <3>1 DEF Through
    <3>3. n.cut = {} /\ n.back = <<>>
      BY <1>5, <2>2, <2>4 DEF Untouched
    <3>4. \A j \in DOMAIN n.rows : 0 + j \in DOMAIN devices /\ n.rows[j] = devices[0 + j].name
      BY <1>4, <1>5, <2>2, <2>4, <3>1
    <3>5. \A i \in DOMAIN devices : ~(i <= 0)
      BY <1>4
    <3>6. DOMAIN n.back = {}
      BY <3>3
    <3>7. Cutting(n, devices)
      BY <2>2, <3>2, <3>3, <3>4, <3>5, <3>6 DEF Cutting
    <3>8. CycleIsRight(n, devices)
      BY <2>2, <3>7 DEF CycleIsRight
    <3>9. QED BY <1>3, <2>2, <3>8, OfItsTool
  <2>5. QED BY <1>1, <2>1, <2>2, <2>3, <2>4, ReadKeeps
<1>7. CASE ~(k > c.count) /\ k \notin Positions
  <2>1. Return(t, "refused") /\ Reads
    BY Zenon, <1>7 DEF Row, Refused, Reads
  <2>2. ~c.crossed => Truth(c, "refused", devices)
    BY <1>5, NothingCut DEF Truth, Untouched
  <2>3. QED BY <1>1, <2>1, <2>2, EndKeeps
<1>8. CASE ~(k > c.count) /\ k \in Positions
  <2> DEFINE name == devices[k].name
             r == Append(c.rows, name)
             n == [c EXCEPT !.rows = r]
  <2>1. Goes(t, n) /\ Reads
    BY Zenon, <1>8 DEF Row
  <2>2. /\ IsList(r) /\ Len(r) = k /\ DOMAIN r = DOMAIN c.rows \cup {k}
        /\ r[k] = name /\ \A j \in DOMAIN c.rows : r[j] = c.rows[j]
    <3>1. IsList(c.rows)
      BY <1>2 DEF IsCall
    <3> HIDE DEF name
    <3>2. QED BY Zenon, <3>1, LongerBy
  <2>3. /\ IsCall(n) /\ n.pc = "row" /\ n.req = c.req /\ n.rows = r /\ n.back = c.back /\ n.count = c.count
        /\ n.touched = c.touched /\ n.cut = c.cut /\ n.crossed = c.crossed
    <3>1. IsCall(c) /\ n = [c EXCEPT !.rows = r] /\ IsList(r)
      BY <1>2, <2>2
    <3> HIDE DEF n, r
    <3>2. QED BY <1>1, <3>1 DEF IsCall
  <2> HIDE DEF n, r
  <2>4. StandsRight(n) /\ n.pc # "free" /\ ~HasAdded(n)
    BY <1>2, <1>3, <2>3 DEF StandsRight, HasAdded
  <2>5. ASSUME ~c.crossed PROVE Right(n, devices)
    <3>1. Len(r) <= Len(devices)
      BY <1>4, <1>8, <2>2 DEF Positions
    <3>2. \A j \in DOMAIN r : r[j] = devices[j].name
      BY <1>5, <2>2, <2>5
    <3>3. Listing(n, devices)
      BY <1>5, <2>3, <2>5, <3>1, <3>2 DEF Listing, Untouched
    <3>4. CycleIsRight(n, devices)
      BY <2>3, <3>3 DEF CycleIsRight
    <3>5. QED BY <1>3, <2>3, <3>4, OfItsTool
  <2>6. QED BY <1>1, <2>1, <2>3, <2>4, <2>5, ReadKeeps
<1>9. QED BY <1>6, <1>7, <1>8

\* Of the devices that are left the first is the one to look at.
LEMMA NextRow ==
  ASSUME NEW c, IsCall(c), Right(c, devices), IsNetwork(devices), Unique(devices),
         c.req.tool = "cycle", c.pc \in {"cut", "darken"}, c.rows # <<>>
  PROVE  LET w == Through(c, devices) IN
         /\ w \in Nat /\ w + 1 \in DOMAIN devices /\ w = Len(devices) - Len(c.rows)
         /\ Here(Head(c.rows)) /\ At(Head(c.rows)) = w + 1 /\ Device(Head(c.rows)) = devices[w + 1]
         /\ devices[w + 1].name = Head(c.rows) /\ devices[w + 1].id \notin c.cut
         /\ Cutting(c, devices)
<1> DEFINE w == Through(c, devices)
<1>1. Cutting(c, devices) /\ w \in Nat /\ w = Len(devices) - Len(c.rows)
  BY OfItsTool DEF CycleIsRight, Cutting, Through
<1>2. 1 \in DOMAIN c.rows /\ Head(c.rows) = c.rows[1]
  BY FirstOf DEF IsCall
<1>3. w + 1 \in DOMAIN devices /\ devices[w + 1].name = Head(c.rows)
  BY <1>1, <1>2 DEF Cutting
<1> HIDE DEF w
<1>4. Here(Head(c.rows))
  BY <1>3 DEF Here, Called, Positions
<1>5. At(Head(c.rows)) = w + 1
  BY <1>3, <1>4, AtIsFirst DEF Unique
<1>6. ~(w + 1 <= w)
  <2>1. w \in Nat
    BY <1>1
  <2>2. QED BY <2>1
<1>7. devices[w + 1].id \notin c.cut
  BY <1>1, <1>3, <1>6 DEF Cutting, w
<1>8. QED BY <1>1, <1>3, <1>4, <1>5, <1>7 DEF Device, w

\* One device further down the list, which is off now.
OneMore(c, s, n, s2) ==
  /\ n.rows = Tail(c.rows) /\ n.pc = "cut"
  /\ DOMAIN s2 = DOMAIN s /\ Len(s2) = Len(s)
  /\ \A i \in DOMAIN s : s2[i].id = s[i].id /\ s2[i].name = s[i].name
  /\ \A i \in DOMAIN s : i # Through(c, s) + 1 => s2[i].on = s[i].on
  /\ ~s2[Through(c, s) + 1].on
  /\ \/ n.back = c.back /\ n.cut = c.cut
     \/ /\ n.back = Append(c.back, s[Through(c, s) + 1].name)
        /\ n.cut = c.cut \cup {s[Through(c, s) + 1].id}

LEMMA CutOneMore ==
  ASSUME NEW c, IsCall(c), NEW s, IsNetwork(s), Cutting(c, s), Unique(s), c.rows # <<>>,
         NEW m \in Nat, Numbered(s, m),
         NEW n, NEW s2, OneMore(c, s, n, s2)
  PROVE  Cutting(n, s2)
<1> USE DEF OneMore
<1> DEFINE w == Through(c, s)
           e == s[w + 1]
           named(q, x) == \E k \in DOMAIN q : q[k] = x
<1>1. /\ w \in Nat /\ \A k \in DOMAIN c.rows : w + k \in DOMAIN s /\ c.rows[k] = s[w + k].name
      /\ \A i \in DOMAIN s : i <= w => ~s[i].on /\ (s[i].id \in c.cut <=> named(c.back, s[i].name))
      /\ \A i \in DOMAIN s : ~(i <= w) => s[i].id \notin c.cut
      /\ \A k \in DOMAIN c.back : \E i \in DOMAIN s : i <= w /\ c.back[k] = s[i].name
  BY DEF Cutting
<1>2. DOMAIN s = 1..Len(s) /\ Len(s) \in Nat /\ w = Len(s) - Len(c.rows)
  BY DEF Through, IsNetwork, IsList
<1>3. /\ Len(c.rows) \in Nat /\ 1 \in DOMAIN c.rows /\ Len(n.rows) = Len(c.rows) - 1
      /\ \A k \in DOMAIN n.rows : k + 1 \in DOMAIN c.rows /\ n.rows[k] = c.rows[k + 1]
      /\ DOMAIN n.rows \subseteq Nat
  <2>1. IsList(c.rows)
    BY DEF IsCall
  <2>2. /\ IsList(n.rows) /\ Len(c.rows) \in Nat /\ 1 \in DOMAIN c.rows /\ Len(n.rows) = Len(c.rows) - 1
        /\ \A k \in DOMAIN n.rows : k + 1 \in DOMAIN c.rows /\ n.rows[k] = c.rows[k + 1]
    BY <2>1, FirstOf
  <2>3. DOMAIN n.rows = 1..Len(n.rows)
    BY <2>2, FirstOf
  <2>4. QED BY <2>2, <2>3
<1>4. Through(n, s2) = w + 1
  <2>1. Through(n, s2) = Len(s) - (Len(c.rows) - 1)
    BY <1>3 DEF Through
  <2>2. QED BY <1>2, <1>3, <2>1
<1>5. w + 1 \in DOMAIN s
  BY <1>1, <1>3
<1>6. \A i \in DOMAIN s : s[i].name = e.name \/ s[i].id = e.id => i = w + 1
  BY <1>5, SameId DEF Unique
<1> HIDE DEF w, named
<1>7. w \in Nat /\ w + 1 \in Nat /\ ~(w + 1 <= w) /\ w + 1 <= w + 1
      /\ \A i \in Nat : i <= w + 1 <=> i <= w \/ i = w + 1
  <2>1. w \in Nat
    BY <1>1
  <2>2. QED BY <2>1
<1>8. \A i \in DOMAIN s : i \in Nat
  <2>1. DOMAIN s = 1..Len(s) /\ Len(s) \in Nat
    BY DEF IsNetwork, IsList
  <2>2. QED BY <2>1
<1> DEFINE u == w + 1
           low(i) == i <= w
           upto(i) == i <= u
<1>9. /\ ~low(u) /\ upto(u)
      /\ \A i \in DOMAIN s : upto(i) <=> low(i) \/ i = u
  BY <1>7, <1>8
<1>10. u \in DOMAIN s /\ e = s[u]
  BY <1>5
<1>11. /\ \A i \in DOMAIN s : low(i) => ~s[i].on /\ (s[i].id \in c.cut <=> named(c.back, s[i].name))
       /\ \A i \in DOMAIN s : ~low(i) => s[i].id \notin c.cut
       /\ \A k \in DOMAIN c.back : \E i \in DOMAIN s : low(i) /\ c.back[k] = s[i].name
  BY <1>1
<1>12. \A i \in DOMAIN s : s[i].name = e.name \/ s[i].id = e.id => i = u
  BY <1>6
<1>13. /\ \A i \in DOMAIN s : i # u => s2[i].on = s[i].on
       /\ ~s2[u].on
       /\ \/ n.back = c.back /\ n.cut = c.cut
          \/ n.back = Append(c.back, e.name) /\ n.cut = c.cut \cup {e.id}
  BY Zenon DEF w
<1> HIDE DEF e, u, low, upto
<1>14. e.id \notin c.cut /\ ~named(c.back, e.name)
  BY <1>9, <1>10, <1>11, <1>12 DEF named
<1>15. /\ \A i \in DOMAIN s : upto(i) => (s[i].id \in n.cut <=> named(n.back, s[i].name))
       /\ \A i \in DOMAIN s : ~upto(i) => s[i].id \notin n.cut
       /\ \A k \in DOMAIN n.back : \E i \in DOMAIN s : upto(i) /\ n.back[k] = s[i].name
  <2>1. CASE n.back = c.back /\ n.cut = c.cut
    <3>1. \A i \in DOMAIN s : upto(i) => (s[i].id \in c.cut <=> named(c.back, s[i].name))
      BY <1>9, <1>10, <1>11, <1>14
    <3>2. QED BY <1>9, <1>11, <2>1, <3>1
  <2>2. CASE n.back = Append(c.back, e.name) /\ n.cut = c.cut \cup {e.id}
    <3>1. /\ DOMAIN n.back = DOMAIN c.back \cup {Len(c.back) + 1}
          /\ n.back[Len(c.back) + 1] = e.name /\ \A k \in DOMAIN c.back : n.back[k] = c.back[k]
      BY <2>2, LongerBy DEF IsCall
    <3>2. \A x : named(n.back, x) <=> named(c.back, x) \/ x = e.name
      BY <3>1 DEF named
    <3>3. \A i \in DOMAIN s : upto(i) => (s[i].id \in n.cut <=> named(n.back, s[i].name))
      BY <1>9, <1>10, <1>11, <1>12, <2>2, <3>2
    <3>4. \A i \in DOMAIN s : ~upto(i) => s[i].id \notin n.cut
      BY <1>9, <1>10, <1>11, <1>12, <2>2
    <3>5. \A k \in DOMAIN n.back : \E i \in DOMAIN s : upto(i) /\ n.back[k] = s[i].name
      BY <1>9, <1>10, <1>11, <3>1
    <3>6. QED BY <3>3, <3>4, <3>5
  <2>3. QED BY <1>13, <2>1, <2>2
<1>16. \A i \in DOMAIN s2 : upto(i) => ~s2[i].on
  BY <1>9, <1>11, <1>13
<1>17. \A k \in DOMAIN n.rows : (w + 1) + k \in DOMAIN s2 /\ n.rows[k] = s2[(w + 1) + k].name
  <2> TAKE k \in DOMAIN n.rows
  <2>1. k \in Nat /\ k + 1 \in DOMAIN c.rows /\ n.rows[k] = c.rows[k + 1]
    BY <1>3
  <2>2. (w + 1) + k = w + (k + 1)
    BY <1>7, <2>1
  <2>3. w + (k + 1) \in DOMAIN s /\ c.rows[k + 1] = s[w + (k + 1)].name
    BY <1>1, <2>1
  <2>4. QED BY <2>1, <2>2, <2>3
<1>18. /\ \A i \in DOMAIN s : i <= w + 1 => ~s2[i].on /\ (s2[i].id \in n.cut <=> \E k \in DOMAIN n.back : n.back[k] = s2[i].name)
       /\ \A i \in DOMAIN s : ~(i <= w + 1) => s2[i].id \notin n.cut
       /\ \A k \in DOMAIN n.back : \E i \in DOMAIN s : i <= w + 1 /\ n.back[k] = s2[i].name
  BY <1>15, <1>16 DEF upto, u, named
<1>19. QED BY <1>4, <1>7, <1>17, <1>18 DEF Cutting

\* At the end of the list every device is off.
LEMMA AllThrough ==
  ASSUME NEW c, NEW s, IsNetwork(s), Cutting(c, s), c.rows = <<>>
  PROVE  /\ \A i \in DOMAIN s : ~s[i].on
         /\ \A i \in DOMAIN s : s[i].id \in c.cut <=> \E k \in DOMAIN c.back : c.back[k] = s[i].name
         /\ \A k \in DOMAIN c.back : \E i \in DOMAIN s : c.back[k] = s[i].name
         /\ c.back = <<>> => \A i \in DOMAIN s : s[i].id \notin c.cut
<1>1. DOMAIN s = 1..Len(s) /\ Len(s) \in Nat /\ Len(c.rows) = 0
  BY DEF IsNetwork, IsList
<1>2. Through(c, s) = Len(s)
  BY <1>1 DEF Through
<1>3. \A i \in DOMAIN s : i <= Len(s)
  BY <1>1
<1>4. c.back = <<>> => DOMAIN c.back = {}
  OBVIOUS
<1>5. /\ \A i \in DOMAIN s : ~s[i].on
      /\ \A i \in DOMAIN s : s[i].id \in c.cut <=> \E k \in DOMAIN c.back : c.back[k] = s[i].name
      /\ \A k \in DOMAIN c.back : \E i \in DOMAIN s : c.back[k] = s[i].name
  BY <1>2, <1>3 DEF Cutting
<1>6. QED BY <1>4, <1>5

LEMMA CutKeeps ==
  ASSUME Inductive, NEW t \in Tasks, Cut(t)
  PROVE  Inductive' /\ Truthful(t)
<1> DEFINE c == call[t]
           h == Head(c.rows)
           w == Through(c, devices)
<1>1. c.pc = "cut" /\ Running(t)
  BY DEF Cut, Running
<1>2. /\ IsCall(c) /\ StandsRight(c) /\ c.req.tool \in Tools /\ IsNetwork(devices)
      /\ Numbered(devices, made) /\ made \in Nat
      /\ ~c.crossed => Unique(devices) /\ Right(c, devices)
  BY <1>1, OfRunning
<1>3. c.req.tool = "cycle"
  BY <1>1, <1>2 DEF StandsRight, Tools
<1>4. ~c.crossed => Cutting(c, devices)
  BY <1>1, <1>2, <1>3, OfItsTool DEF CycleIsRight
<1>5. CASE c.rows = <<>> /\ c.back = <<>>
  <2>1. Return(t, "done") /\ Reads
    BY Zenon, <1>5 DEF Cut, NextBack
  <2>2. ASSUME ~c.crossed PROVE Truth(c, "done", devices)
    <3>1. \A i \in DOMAIN devices : ~devices[i].on /\ devices[i].id \notin c.cut
      BY <1>2, <1>4, <1>5, <2>2, AllThrough
    <3>2. QED BY <1>3, <3>1 DEF Truth, Lit, Done
  <2>3. QED BY <1>1, <2>1, <2>2, EndKeeps
<1>6. CASE c.rows = <<>> /\ c.back # <<>>
  <2> DEFINE g == Head(c.back)
             n == [c EXCEPT !.pc = "find", !.aim = g]
  <2>1. Goes(t, n) /\ Reads
    BY Zenon, <1>6 DEF Cut, NextBack
  <2>2. /\ IsCall(n) /\ n.pc = "find" /\ n.req = c.req /\ n.aim = g /\ n.back = c.back
        /\ n.touched = c.touched /\ n.cut = c.cut /\ n.crossed = c.crossed
    <3>1. IsCall(c) /\ n = [c EXCEPT !.pc = "find", !.aim = g]
      BY <1>2
    <3> HIDE DEF n, g
    <3>2. QED BY <3>1 DEF IsCall
  <2> HIDE DEF n
  <2>3. StandsRight(n) /\ n.pc # "free" /\ ~HasAdded(n)
    BY <1>2, <1>3, <1>6, <2>2 DEF StandsRight, HasAdded
  <2>4. ASSUME ~c.crossed PROVE Right(n, devices)
    <3>1. /\ \A i \in DOMAIN devices : ~devices[i].on
          /\ \A i \in DOMAIN devices : devices[i].id \in c.cut <=> \E k \in DOMAIN c.back : c.back[k] = devices[i].name
          /\ \A k \in DOMAIN c.back : \E i \in DOMAIN devices : c.back[k] = devices[i].name
      BY <1>2, <1>4, <1>6, <2>4, AllThrough
    <3>2. Restoring(n, devices)
      BY <1>6, <2>2, <3>1 DEF Restoring
    <3>3. CycleIsRight(n, devices)
      BY <2>2, <3>2 DEF CycleIsRight
    <3>4. QED BY <1>3, <2>2, <3>3, OfItsTool
  <2>5. QED BY <1>1, <2>1, <2>2, <2>3, <2>4, ReadKeeps
<1>7. ASSUME c.rows # <<>>, ~c.crossed
      PROVE  /\ w + 1 \in DOMAIN devices /\ Here(h) /\ Device(h) = devices[w + 1] /\ Cutting(c, devices)
             /\ devices[w + 1].name = h
  BY <1>1, <1>2, <1>3, <1>7, NextRow
<1>8. CASE c.rows # <<>> /\ ~Here(h)
  <2>1. Return(t, "refused") /\ Reads
    BY Zenon, <1>8 DEF Cut, Refused, Reads
  <2>2. QED BY <1>1, <1>7, <1>8, <2>1, EndKeeps
<1>9. CASE c.rows # <<>> /\ Here(h) /\ Device(h).on
  <2> DEFINE n == [c EXCEPT !.pc = "darken"]
  <2>1. Goes(t, n) /\ Reads
    BY Zenon, <1>9 DEF Cut, To
  <2>2. /\ IsCall(n) /\ n.pc = "darken" /\ n.req = c.req /\ n.rows = c.rows /\ n.back = c.back
        /\ n.touched = c.touched /\ n.cut = c.cut /\ n.crossed = c.crossed
    BY <1>2, AtStep
  <2> HIDE DEF n
  <2>3. StandsRight(n) /\ n.pc # "free" /\ ~HasAdded(n)
    BY <1>2, <1>3, <1>9, <2>2 DEF StandsRight, HasAdded
  <2>4. ASSUME ~c.crossed PROVE Right(n, devices)
    <3>1. Cutting(c, devices) /\ Through(n, devices) = Through(c, devices)
      BY <1>4, <2>2, <2>4 DEF Through
    <3>2. Cutting(n, devices)
      BY <1>9, <2>2, <3>1 DEF Cutting
    <3>3. CycleIsRight(n, devices)
      BY <2>2, <3>2 DEF CycleIsRight
    <3>4. QED BY <1>3, <2>2, <3>3, OfItsTool
  <2>5. QED BY <1>1, <2>1, <2>2, <2>3, <2>4, ReadKeeps
<1>10. CASE c.rows # <<>> /\ Here(h) /\ ~Device(h).on
  <2> DEFINE r == Tail(c.rows)
             n == [c EXCEPT !.rows = r]
  <2>1. Goes(t, n) /\ Reads
    BY Zenon, <1>10 DEF Cut
  <2>2. IsCall(c) /\ IsList(r)
    BY <1>2, <1>10, FirstOf DEF IsCall
  <2>3. /\ IsCall(n) /\ n.pc = "cut" /\ n.req = c.req /\ n.rows = r /\ n.back = c.back
        /\ n.touched = c.touched /\ n.cut = c.cut /\ n.crossed = c.crossed
    <3>1. n = [c EXCEPT !.rows = r]
      OBVIOUS
    <3> HIDE DEF n, r
    <3>2. QED BY <1>1, <2>2, <3>1 DEF IsCall
  <2> HIDE DEF n
  <2>4. StandsRight(n) /\ n.pc # "free" /\ ~HasAdded(n)
    BY <1>2, <1>3, <2>3 DEF StandsRight, HasAdded
  <2>5. ASSUME ~c.crossed PROVE Right(n, devices)
    <3>1. Cutting(c, devices) /\ ~devices[Through(c, devices) + 1].on /\ Unique(devices)
      BY <1>2, <1>7, <1>10, <2>5
    <3> HIDE DEF w
    <3>2. Cutting(n, devices)
      <4>1. OneMore(c, devices, n, devices)
        BY <2>3, <3>1 DEF OneMore
      <4>2. QED BY <1>2, <1>10, <3>1, <4>1, CutOneMore
    <3>3. CycleIsRight(n, devices)
      BY <2>3, <3>2 DEF CycleIsRight
    <3>4. QED BY <1>3, <2>3, <3>3, OfItsTool
  <2>6. QED BY <1>1, <2>1, <2>3, <2>4, <2>5, ReadKeeps
<1>11. QED BY <1>5, <1>6, <1>8, <1>9, <1>10

LEMMA DarkenKeeps ==
  ASSUME Inductive, NEW t \in Tasks, Darken(t)
  PROVE  Inductive' /\ Truthful(t)
<1> DEFINE c == call[t]
           h == Head(c.rows)
           d == Device(h)
           w == Through(c, devices)
           r == Tail(c.rows)
           b == Append(c.back, h)
           m == c.touched \cup {d.id}
           k == c.cut \cup {d.id}
           n == [c EXCEPT !.pc = "cut", !.rows = r, !.back = b, !.touched = m, !.cut = k]
<1>1. c.pc = "darken" /\ Running(t)
  BY DEF Darken, Running
<1>2. /\ IsCall(c) /\ StandsRight(c) /\ c.req.tool \in Tools /\ IsNetwork(devices)
      /\ Numbered(devices, made) /\ made \in Nat
      /\ ~c.crossed => Unique(devices) /\ Right(c, devices)
  BY <1>1, OfRunning
<1>3. c.req.tool = "cycle" /\ c.rows # <<>>
  BY <1>1, <1>2 DEF StandsRight, Tools
<1>4. ASSUME ~c.crossed
      PROVE  /\ w + 1 \in DOMAIN devices /\ Here(h) /\ At(h) = w + 1 /\ d = devices[w + 1]
             /\ devices[w + 1].name = h /\ Cutting(c, devices)
  BY <1>1, <1>2, <1>3, <1>4, NextRow
<1>5. CASE ~Here(h)
  <2>1. Return(t, "refused") /\ Reads
    BY Zenon, <1>5 DEF Darken, Refused, Reads
  <2>2. QED BY <1>1, <1>4, <1>5, <2>1, EndKeeps
<1>6. CASE Here(h)
  <2> DEFINE s == Powered(h, FALSE)
             e == [d EXCEPT !.on = FALSE]
             B == {h}
  <2>1. Changes(t, s, n)
    BY Zenon, <1>6 DEF Darken
  <2>2. IsList(r) /\ IsList(b)
    BY <1>2, <1>3, FirstOf, LongerBy DEF IsCall
  <2>3. /\ IsCall(n) /\ n.pc = "cut" /\ n.req = c.req /\ n.rows = r /\ n.back = b
        /\ n.touched = m /\ n.cut = k /\ n.crossed = c.crossed
    <3>1. IsCall(c) /\ n = [c EXCEPT !.pc = "cut", !.rows = r, !.back = b, !.touched = m, !.cut = k]
      BY <1>2
    <3> HIDE DEF n, m, k, r, b
    <3>2. QED BY <2>2, <3>1 DEF IsCall
  <2>4. /\ Becoming(s, h, e) /\ e.id = d.id /\ e.name = h /\ e.on = FALSE
        /\ Unique(devices) => \A x : SamePlace(devices, s, x)
    BY <1>2, <1>6, PoweredOne
  <2>5. IsNetwork(s) /\ Numbered(s, made)
    BY <2>4 DEF Becoming
  <2> HIDE DEF n, m, b, r
  <2>6. StandsRight(n) /\ n.pc # "free" /\ ~HasAdded(n)
    BY <1>2, <1>3, <2>3 DEF StandsRight, HasAdded
  <2> HIDE DEF s, e
  <2>7. ASSUME ~c.crossed
        PROVE  Unique(s) /\ Right(n, s)
    <3>1. Unique(s)
      BY <1>2, <2>4, <2>7 DEF Becoming
    <3>2. /\ DOMAIN s = DOMAIN devices /\ Len(s) = Len(devices) /\ s[w + 1] = e
          /\ \A i \in DOMAIN devices : i # w + 1 => s[i] = devices[i]
      BY <1>4, <2>4, <2>7 DEF Becoming
    <3>3. /\ n.rows = Tail(c.rows) /\ n.back = Append(c.back, devices[w + 1].name)
          /\ n.cut = c.cut \cup {devices[w + 1].id}
      BY <1>4, <2>3, <2>7 DEF r, b
    <3>4. /\ \A i \in DOMAIN devices : s[i].id = devices[i].id /\ s[i].name = devices[i].name
          /\ \A i \in DOMAIN devices : i # w + 1 => s[i].on = devices[i].on
          /\ ~s[w + 1].on
      <4>1. e.id = devices[w + 1].id /\ e.name = devices[w + 1].name /\ ~e.on
        BY <1>4, <2>4, <2>7
      <4> HIDE DEF w
      <4>2. QED BY <3>2, <4>1
    <3>5. Cutting(c, devices) /\ Unique(devices)
      BY <1>2, <1>4, <2>7
    <3>6. Cutting(n, s)
      <4>1. OneMore(c, devices, n, s)
        BY <2>3, <3>2, <3>3, <3>4 DEF OneMore
      <4>2. QED BY <1>2, <1>3, <3>5, <4>1, CutOneMore
    <3>7. CycleIsRight(n, s)
      BY <2>3, <3>6 DEF CycleIsRight
    <3>8. QED BY <1>3, <2>3, <3>1, <3>7, OfItsTool
  <2> HIDE DEF B
  <2>8. ~c.crossed => \A x : SamePlace(devices, s, x)
    BY <1>2, <2>4
  <2>9. c.req.tool = "cycle"
    BY <1>3
  <2>10. QED BY <1>1, <2>1, <2>3, <2>5, <2>6, <2>7, <2>8, <2>9, ChangeKeeps
<1>7. QED BY <1>5, <1>6

----------------------------------------------------------------------------
\* Every step.

LEMMA LoseKeeps ==
  ASSUME Inductive, NEW t \in Tasks, Lose(t)
  PROVE  Inductive' /\ Truthful(t)
BY LostIsTrue, EndKeeps DEF Lose

LEMMA StepKeepsAll ==
  ASSUME Inductive, NEW t \in Tasks, Step(t)
  PROVE  Inductive' /\ Truthful(t)
BY Zenon, FindKeeps, UnusedKeeps, CountKeeps, CreateKeeps, BootNewKeeps, SetNameKeeps,
   DescribeKeeps, MoveKeeps, RemoveKeeps, ReplyKeeps, CountRowsKeeps, RowKeeps, CutKeeps,
   DarkenKeeps, LookKeeps, SwitchKeeps, BootAgainKeeps, VerifyKeeps, PowerOffKeeps,
   ChangeItKeeps, PowerOnKeeps, BootModuleKeeps, AfterKeeps, LoseKeeps DEF Step

----------------------------------------------------------------------------
\* What a step does to the other calls: it leaves them as they are, but for the mark of
\* having been crossed.

LEMMA OneGoes ==
  ASSUME NEW t, Step(t)
  PROVE  \E n : Goes(t, n)
<1>1. ASSUME NEW s, NEW n, Changes(t, s, n) PROVE \E x : Goes(t, x)
  BY Zenon, <1>1 DEF Changes, Return
<1>2. CASE Find(t) \/ Unused(t) \/ Count(t) \/ BootNew(t)
  BY Zenon, <1>2 DEF Find, Unused, Count, BootNew, To, Refused, Return
<1>3. CASE Create(t)
  BY Zenon, <1>3 DEF Create, Return
<1>4. CASE SetName(t) \/ Move(t) \/ RemoveDevice(t) \/ Darken(t)
  BY Zenon, <1>1, <1>4 DEF SetName, Move, RemoveDevice, Darken, Refused, Return
<1>5. CASE Switch(t) \/ PowerOff(t) \/ PowerOn(t)
  BY Zenon, <1>1, <1>5 DEF Switch, PowerOff, PowerOn, Refused, Return
<1>6. CASE Describe(t) \/ Reply(t) \/ After(t) \/ Lose(t) \/ BootModule(t) \/ BootAgain(t) \/ Look(t)
  BY Zenon, <1>6 DEF Describe, Reply, After, Lose, BootModule, BootAgain, Look, To, Refused, Return
<1>7. CASE CountRows(t) \/ Row(t) \/ Cut(t)
  BY Zenon, <1>7 DEF CountRows, Row, Cut, NextBack, To, Refused, Return
<1>8. CASE Verify(t)
  BY Zenon, <1>8 DEF Verify, NextBack, Refused, Return
<1>9. CASE Change(t)
  BY Zenon, <1>9 DEF Change, Becomes
<1>10. QED BY Zenon, <1>2, <1>3, <1>4, <1>5, <1>6, <1>7, <1>8, <1>9 DEF Step

\* Only the call that takes a step may return, and none does when one starts.
LEMMA NobodyElseReturns ==
  ASSUME Inductive, NEW t \in Tasks, Start(t) \/ Step(t), NEW o \in Tasks, Returns(o)
  PROVE  o = t /\ Step(t)
<1>1. call = [x \in Tasks |-> call[x]] /\ IsCall(call[o])
  BY DEF Inductive, CallsFit
<1>2. ASSUME Step(t) PROVE o = t
  <2>1. PICK n : Goes(t, n)
    BY <1>2, OneGoes
  <2>2. QED BY <1>1, <2>1 DEF Goes, Returns, Running
<1>3. ASSUME Start(t) PROVE FALSE
  <2>1. ~Running(t)
    BY Zenon, <1>3 DEF Start
  <2>2. \A x : [call[o] EXCEPT !.crossed = x].pc = call[o].pc
    BY <1>1 DEF IsCall
  <2>3. o # t /\ Running(o) /\ call'[o].pc = "free"
    BY <2>1 DEF Returns
  <2>4. \E x : call'[o] = [call[o] EXCEPT !.crossed = x]
    <3>1. PICK r \in Requests :
            LET race == \E y \in Tasks : Running(y) /\ (call[y].crossed \/ Disturbs(call[y].req, r)) IN
            call' = [y \in Tasks |->
                       IF y = t THEN [Free EXCEPT !.pc = FirstStep(r), !.req = r, !.aim = r.name,
                                                  !.crossed = race \/ ~UniqueNames]
                       ELSE [call[y] EXCEPT !.crossed = @ \/ (race /\ Running(y))]]
      BY Zenon, <1>3 DEF Start
    <3>2. QED BY Zenon, <2>3, <3>1
  <2>5. call[o].pc = "free"
    BY <2>2, <2>3, <2>4
  <2>6. QED BY <2>3, <2>5 DEF Running
<1>4. QED BY <1>2, <1>3

LEMMA StepRuns ==
  ASSUME NEW t, Step(t)
  PROVE  Running(t)
<1> USE DEF Running, On
<1>1. CASE Find(t) \/ Unused(t) \/ Count(t) \/ BootNew(t) \/ Create(t) \/ SetName(t) \/ Move(t) \/ RemoveDevice(t)
  BY <1>1 DEF Find, Unused, Count, BootNew, Create, SetName, Move, RemoveDevice
<1>2. CASE Describe(t) \/ Reply(t) \/ After(t) \/ Lose(t) \/ BootModule(t) \/ BootAgain(t) \/ Look(t) \/ Switch(t)
  BY <1>2 DEF Describe, Reply, After, Lose, BootModule, BootAgain, Look, Switch
<1>3. CASE CountRows(t) \/ Row(t) \/ Cut(t) \/ Darken(t) \/ Verify(t) \/ PowerOff(t) \/ Change(t) \/ PowerOn(t)
  BY <1>3 DEF CountRows, Row, Cut, Darken, Verify, PowerOff, Change, PowerOn
<1>4. QED BY Zenon, <1>1, <1>2, <1>3 DEF Step

LEMMA NextKeeps ==
  ASSUME Inductive, [Next]_vars
  PROVE  /\ Inductive'
         /\ \A t \in Tasks : Returns(t) => Step(t) /\ Truthful(t)
         /\ devices' = devices \/ \E t \in Tasks : Running(t) /\ Truthful(t)
<1>1. CASE UNCHANGED vars
  <2>1. devices' = devices /\ made' = made /\ call' = call /\ started' = started
    BY <1>1 DEF vars
  <2>2. Inductive' = Inductive
    BY Zenon, <2>1 DEF Inductive, NetworkFits, CallsFit, CrossedTogether, Undisturbed, Running,
       Apart, HasAdded
  <2>3. \A t \in Tasks : ~Returns(t)
    BY <2>1 DEF Returns, Running
  <2>4. QED BY <2>1, <2>2, <2>3
<1>2. ASSUME NEW t \in Tasks, Start(t)
      PROVE  /\ Inductive' /\ devices' = devices
             /\ \A o \in Tasks : ~Returns(o)
  <2>1. ~Running(t) /\ UNCHANGED <<devices, made>>
    BY Zenon, <1>2 DEF Start
  <2>2. Inductive'
    BY Zenon, <1>2, StartKeeps
  <2>3. ASSUME NEW o \in Tasks, Returns(o) PROVE FALSE
    <3>1. o = t
      BY Zenon, <1>2, <2>3, NobodyElseReturns
    <3>2. QED BY Zenon, <2>1, <2>3, <3>1 DEF Returns
  <2>4. QED BY <2>1, <2>2, <2>3
<1>3. ASSUME NEW t \in Tasks, Step(t)
      PROVE  /\ Inductive' /\ Truthful(t) /\ Running(t)
             /\ \A o \in Tasks : Returns(o) => o = t
  <2>1. Inductive' /\ Truthful(t)
    BY <1>3, StepKeepsAll
  <2>2. Running(t)
    BY <1>3, StepRuns
  <2>3. \A o \in Tasks : Returns(o) => o = t
    BY <1>3, NobodyElseReturns
  <2>4. QED BY <2>1, <2>2, <2>3
<1>4. QED
  <2>1. CASE Next
    <3>1. PICK t \in Tasks : Start(t) \/ Step(t)
      BY Zenon, <2>1 DEF Next
    <3>2. CASE Start(t)
      BY Zenon, <1>2, <3>2
    <3>3. CASE Step(t)
      BY Zenon, <1>3, <3>3
    <3>4. QED BY <3>1, <3>2, <3>3
  <2>2. QED BY <1>1, <2>1

----------------------------------------------------------------------------
\* The theorems.

\* In every behaviour the invariant of DevicesProofs holds: what a call that nothing has
\* crossed counts on at each of its steps is so, whatever the other calls do meanwhile.
THEOREM InductiveHolds == Spec => []Inductive
<1>1. Init => Inductive
  BY NothingIsThere
<1>2. Inductive /\ [Next]_vars => Inductive'
  BY NextKeeps
<1>3. QED BY <1>1, <1>2, PTL DEF Spec

LEMMA FreeIsBare ==
  ASSUME NEW r
  PROVE  [Free EXCEPT !.result = r].req = Nothing /\ [Free EXCEPT !.result = r].pc = "free"
BY DEF Free

LEMMA TypesFit == Inductive => TypeOK
<1> SUFFICES ASSUME Inductive PROVE TypeOK
  OBVIOUS
<1>1. /\ made \in 0..MaxMade /\ started \in 0..MaxCalls
      /\ \A i \in Positions : devices[i].id \in 1..made
      /\ \A i, j \in Positions : i < j => devices[i].id < devices[j].id
  BY DEF Inductive, NetworkFits, Numbered, Positions
<1>2. \A i \in Positions : devices[i].on \in BOOLEAN /\ devices[i].card \in BOOLEAN
  BY DEF Inductive, NetworkFits, IsNetwork, IsDevice, Positions
<1>3. ASSUME NEW t \in Tasks
      PROVE  /\ call[t].pc \in Pcs
             /\ call[t].req \in Requests \cup {Nothing}
             /\ ~Running(t) => call[t] = [Free EXCEPT !.result = call[t].result]
  <2>1. CASE Running(t)
    <3>1. StandsRight(call[t]) /\ call[t].req \in Requests /\ call[t].req.tool \in Tools
      BY <2>1, OfRunning
    <3>2. call[t].pc \in Pcs
      BY <3>1 DEF StandsRight, Tools, Pcs
    <3>3. QED BY <2>1, <3>1, <3>2
  <2>2. CASE ~Running(t)
    <3>1. call[t] = [Free EXCEPT !.result = call[t].result]
      BY <2>2 DEF Inductive, CallsFit
    <3>2. call[t].req = Nothing /\ call[t].pc = "free"
      BY Zenon, <3>1, FreeIsBare
    <3>3. QED BY <3>1, <3>2 DEF Pcs
  <2>3. QED BY <2>1, <2>2
<1>4. QED BY Zenon, <1>1, <1>2, <1>3 DEF TypeOK

\* Every variable has its type; a free task keeps nothing but its last result.
THEOREM TypesHold == Spec => []TypeOK
BY TypesFit, InductiveHolds, PTL

\* No two devices come to share a name except in the step of a call that another crossed.
THEOREM NamesClashOnlyInRaces == Spec => SharedNamesComeFromRaces
<1>1. ASSUME Inductive, [Next]_vars
      PROVE  [UniqueNames /\ ~UniqueNames' => \E t \in Tasks : Running(t) /\ call[t].crossed]_vars
  <2>1. SUFFICES ASSUME UniqueNames, ~UniqueNames'
                 PROVE  \E t \in Tasks : Running(t) /\ call[t].crossed
    OBVIOUS
  <2>2. devices' # devices
    BY <2>1 DEF UniqueNames, Positions
  <2>3. PICK t \in Tasks : Running(t) /\ Truthful(t)
    BY <1>1, <2>2, NextKeeps
  <2>4. ~Unique(devices')
    BY <2>1 DEF UniqueNames, Unique, Positions
  <2>5. QED BY <2>3, <2>4 DEF Truthful
<1>2. QED BY <1>1, InductiveHolds, PTL DEF Spec, SharedNamesComeFromRaces

\* What a step may answer, of the call that takes it.
LEMMA AnswersAreTrue ==
  ASSUME Inductive, [Next]_vars, NEW t \in Tasks, Returns(t), ~call[t].crossed
  PROVE  Truth(call[t], call'[t].result, devices')
BY NextKeeps DEF Truthful

\* A tool that refuses, and that no other crossed, has changed nothing.
THEOREM RefusalsHold == Spec => RefusalsChangeNothing
<1>1. ASSUME Inductive, [Next]_vars, NEW t \in Tasks, Answers(t, {"refused"}), ~call[t].crossed
      PROVE  call[t].touched = {}
  BY <1>1, AnswersAreTrue DEF Answers, Truth
<1>2. Inductive /\ [Next]_vars =>
        [\A t \in Tasks : Answers(t, {"refused"}) /\ ~call[t].crossed => call[t].touched = {}]_vars
  BY <1>1
<1>3. QED BY <1>2, InductiveHolds, PTL DEF Spec, RefusalsChangeNothing

----------------------------------------------------------------------------
\* What a lost answer leaves off.

LEMMA PoweredIsAsBefore ==
  ASSUME IsNetwork(devices), NEW n, Here(n), NEW on \in BOOLEAN, devices' = Powered(n, on)
  PROVE  /\ DOMAIN devices' = DOMAIN devices
         /\ \A i \in DOMAIN devices :
              /\ devices'[i].id = devices[i].id /\ devices'[i].name = devices[i].name
              /\ on /\ devices[i].on => devices'[i].on
<1> DEFINE e == [Device(n) EXCEPT !.on = on]
<1>1. devices' = [devices EXCEPT ![At(n)] = e]
  BY DEF Powered, Device
<1>2. e.id = Device(n).id /\ e.name = Device(n).name /\ e.on = on
  <2> DEFINE d == Device(n)
  <2>1. IsDevice(d)
    BY DeviceIsKnown
  <2> HIDE DEF d
  <2>2. [d EXCEPT !.on = on].id = d.id /\ [d EXCEPT !.on = on].name = d.name /\ [d EXCEPT !.on = on].on = on
    BY <2>1 DEF IsDevice
  <2>3. QED BY <2>2 DEF d
<1> HIDE DEF e
<1>3. QED BY <1>1, <1>2 DEF Device

LEMMA OnlyThesePower ==
  ASSUME NEW t \in Tasks, Step(t)
  PROVE  \/ devices' = devices
         \/ call[t].pc \in {"create", "setname", "move", "remove", "off", "change", "on"}
         \/ Darken(t) \/ Switch(t)
<1>1. CASE Find(t) \/ Unused(t) \/ Count(t) \/ Create(t) \/ BootNew(t) \/ SetName(t)
           \/ Describe(t) \/ Move(t) \/ RemoveDevice(t) \/ Reply(t)
  BY <1>1 DEF Find, Unused, Count, Create, BootNew, SetName, Describe, Move, RemoveDevice, Reply,
              Refused, Reads
<1>2. CASE CountRows(t) \/ Row(t) \/ Cut(t) \/ Look(t) \/ BootAgain(t) \/ Verify(t)
  BY <1>2 DEF CountRows, Row, Cut, Look, BootAgain, Verify, Refused, Reads
<1>3. CASE PowerOff(t) \/ Change(t) \/ PowerOn(t) \/ BootModule(t) \/ After(t) \/ Lose(t)
  BY <1>3 DEF PowerOff, Change, PowerOn, BootModule, After, Lose, Reads
<1>4. QED BY <1>1, <1>2, <1>3 DEF Step

LEMMA ChangeGoesOn ==
  ASSUME Inductive, NEW t \in Tasks, Step(t), call[t].pc = "change"
  PROVE  ~Returns(t)
<1>1. Change(t)
  BY DEF Step, Find, Unused, Count, Create, BootNew, SetName, Describe, Move, RemoveDevice, Reply,
         CountRows, Row, Cut, Darken, Look, Switch, BootAgain, Verify, PowerOff, PowerOn,
         BootModule, After, Lose, On
<1>2. PICK applied : Becomes(t, applied)
  BY <1>1 DEF Change
<1>3. IsCall(call[t]) /\ call'[t] = [call[t] EXCEPT !.pc = "on", !.applied = applied]
  BY <1>2 DEF Becomes, Goes, Inductive, CallsFit
<1>4. call'[t].pc = "on"
  BY <1>3 DEF IsCall
<1>5. QED BY <1>4 DEF Returns

LEMMA LossLeaves ==
  ASSUME Inductive, NEW t \in Tasks, Step(t), Returns(t), ~call[t].crossed,
         NEW i \in DOMAIN devices', devices'[i].id \in call[t].cut
  PROVE  devices'[i].on \/ StillOff(call[t], devices'[i].name)
<1>1. /\ StandsRight(call[t]) /\ call[t].req.tool \in Tools
      /\ IsNetwork(devices) /\ Numbered(devices, made) /\ made \in Nat
      /\ Unique(devices) /\ Right(call[t], devices)
  BY OfRunning DEF Returns
<1>2. CASE call[t].req.tool = "module"
  <2>1. ModuleIsRight(call[t], devices)
    BY <1>1 DEF Right
  <2>2. call[t].pc \in {"boot", "after"} \/ call[t].pc = "on"
    BY <1>1, <1>2, <2>1, ChangeGoesOn DEF StandsRight, ModuleIsRight, Untouched
  <2>3. CASE call[t].pc \in {"boot", "after"}
    <3>1. devices' = devices
      <4>1. ~Darken(t) /\ ~Switch(t)
        BY Zenon, <2>3 DEF Darken, Switch
      <4>2. QED BY <2>3, <4>1, OnlyThesePower
    <3>2. PICK d \in DevicesCalled(devices, call[t].req.name) : d.on /\ call[t].cut = {d.id}
      BY <1>2, <2>1, <2>3 DEF ModuleIsRight
    <3>3. PICK j \in DOMAIN devices : devices[j] = d
      BY DEF DevicesCalled
    <3>4. devices[i].id = devices[j].id
      BY <3>1, <3>2, <3>3
    <3>5. i = j
      BY <1>1, <3>1, <3>4, SameId
    <3>6. QED BY <3>1, <3>2, <3>3, <3>5
  <2>4. CASE call[t].pc = "on"
    BY <1>2, <2>4 DEF StillOff
  <2>5. QED BY <2>2, <2>3, <2>4
<1>3. CASE call[t].req.tool = "cycle"
  <2>1. CycleIsRight(call[t], devices)
    BY <1>1 DEF Right
  <2>2. \/ devices' = devices
        \/ Here(Head(call[t].rows)) /\ devices' = Powered(Head(call[t].rows), FALSE) /\ call[t].pc = "darken"
        \/ Here(call[t].aim) /\ devices' = Powered(call[t].aim, TRUE) /\ call[t].pc = "switch"
    <3>1. devices' = devices \/ Darken(t) \/ Switch(t)
      BY <1>1, <1>3, OnlyThesePower DEF StandsRight
    <3>2. QED BY <1>3, <3>1 DEF Darken, Switch, Refused, Changes, Asked
  <2>3. /\ DOMAIN devices' = DOMAIN devices
        /\ devices'[i].id = devices[i].id /\ devices'[i].name = devices[i].name
        /\ devices[i].on /\ call[t].pc # "darken" => devices'[i].on
    <3>1. CASE devices' = devices
      BY <3>1
    <3>2. CASE Here(Head(call[t].rows)) /\ devices' = Powered(Head(call[t].rows), FALSE) /\ call[t].pc = "darken"
      <4> DEFINE n == Head(call[t].rows)
      <4>1. Here(n) /\ devices' = Powered(n, FALSE)
        BY <3>2
      <4> HIDE DEF n
      <4>2. /\ DOMAIN devices' = DOMAIN devices
            /\ \A k \in DOMAIN devices :
                 devices'[k].id = devices[k].id /\ devices'[k].name = devices[k].name
        BY Zenon, <1>1, <4>1, PoweredIsAsBefore
      <4>3. QED BY <3>2, <4>2
    <3>3. CASE Here(call[t].aim) /\ devices' = Powered(call[t].aim, TRUE) /\ call[t].pc = "switch"
      <4> DEFINE n == call[t].aim
      <4>1. Here(n) /\ devices' = Powered(n, TRUE)
        BY <3>3
      <4> HIDE DEF n
      <4>2. /\ DOMAIN devices' = DOMAIN devices
            /\ \A k \in DOMAIN devices :
                 /\ devices'[k].id = devices[k].id /\ devices'[k].name = devices[k].name
                 /\ devices[k].on => devices'[k].on
        BY Zenon, <1>1, <4>1, PoweredIsAsBefore
      <4>3. QED BY Zenon, <4>2
    <3>4. QED BY <2>2, <3>1, <3>2, <3>3
  <2>4. CASE call[t].pc \in {"count", "row"}
    BY <1>3, <2>1, <2>4 DEF CycleIsRight, Listing, Untouched
  <2>5. CASE call[t].pc \in {"cut", "darken"}
    <3>1. \E k \in DOMAIN call[t].back : call[t].back[k] = devices[i].name
      BY <1>3, <2>1, <2>3, <2>5 DEF CycleIsRight, Cutting
    <3>2. QED BY <1>3, <2>3, <3>1 DEF StillOff
  <2>6. CASE call[t].pc \in {"find", "look", "switch", "boot", "verify"}
    <3>1. devices[i].on \/ \E k \in DOMAIN call[t].back : call[t].back[k] = devices[i].name
      BY <1>3, <2>1, <2>3, <2>6 DEF CycleIsRight, Restoring
    <3>2. QED BY <1>3, <2>3, <2>6, <3>1 DEF StillOff
  <2>7. QED BY <1>1, <1>3, <2>4, <2>5, <2>6 DEF StandsRight
<1>4. CASE call[t].req.tool \notin {"module", "cycle"}
  BY <1>1, <1>4 DEF Right, AddIsRight, RenameIsRight, RemoveIsRight, MoveIsRight, PowerIsRight, Tools
<1>5. QED BY <1>2, <1>3, <1>4

\* A power cycle or a module change that no other call crossed brings back every device it
\* knows to have switched off; a lost answer leaves off only what was still to be brought back.
THEOREM NothingStaysDark == Spec => NothingLeftDark
<1>1. ASSUME Inductive, [Next]_vars, NEW t \in Tasks, Returns(t), ~call[t].crossed,
             NEW i \in DOMAIN devices', devices'[i].id \in call[t].cut
      PROVE  \/ devices'[i].on
             \/ call'[t].result = "lost" /\ StillOff(call[t], devices'[i].name)
  <2>1. Step(t)
    BY <1>1, NextKeeps
  <2>2. CASE call'[t].result = "lost"
    BY <1>1, <2>1, <2>2, LossLeaves
  <2>3. CASE call'[t].result # "lost"
    BY <1>1, <2>3, AnswersAreTrue DEF Truth, Lit
  <2>4. QED BY <2>2, <2>3
<1>2. Inductive /\ [Next]_vars =>
        [\A t \in Tasks :
           Returns(t) /\ ~call[t].crossed
           => \A i \in DOMAIN devices' : devices'[i].id \in call[t].cut =>
                \/ devices'[i].on
                \/ call'[t].result = "lost" /\ StillOff(call[t], devices'[i].name)]_vars
  BY <1>1
<1>3. QED BY <1>2, InductiveHolds, PTL DEF Spec, NothingLeftDark

\* A device tool that answers that it is done has done what it was asked to the device it
\* was asked about, as the network shows at that moment.
THEOREM DoneHolds == Spec => DoneIsDone
<1>1. ASSUME Inductive, [Next]_vars, NEW t \in Tasks, Answers(t, {"done"}), ~call[t].crossed
      PROVE  Done(call[t], devices')
  BY <1>1, AnswersAreTrue DEF Answers, Truth
<1>2. Inductive /\ [Next]_vars =>
        [\A t \in Tasks : Answers(t, {"done"}) /\ ~call[t].crossed => Done(call[t], devices')]_vars
  BY <1>1
<1>3. QED BY <1>2, InductiveHolds, PTL DEF Spec, DoneIsDone
=============================================================================
