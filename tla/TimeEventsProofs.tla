-------------------------- MODULE TimeEventsProofs --------------------------
(***************************************************************************)
(* TimeEvents for every set of timers, every width of the counter and      *)
(* every delay and period below half its range.  IInv is the inductive     *)
(* invariant; IInvariant is the theorem the others follow from.            *)
(*                                                                         *)
(* A list is reasoned about through a witness: the links it goes through,  *)
(* in order.  Wrapped arithmetic is reasoned about through SignedIs: a     *)
(* signed difference is the only number of its half-range congruent to the *)
(* difference.                                                             *)
(***************************************************************************)
EXTENDS TimeEvents, FiniteSetTheorems, TLAPS

-----------------------------------------------------------------------------
\* Distances on a counter that wraps.
LEMMA WrapFacts ==
  ASSUME NEW n \in Int
  PROVE  /\ Wrap(n) \in 0 .. Span - 1
         /\ \E q \in Int : n = Wrap(n) + q * Span
<1>1. Span \in Nat \ {0} BY HalfAssumption DEF Span
<1>2. \A r \in Nat \ {0} : n % r \in 0 .. r - 1 OBVIOUS
<1>3. \A r \in Nat \ {0} : n = (n % r) + (n \div r) * r OBVIOUS
<1>4. \A r \in Nat \ {0} : n \div r \in Int OBVIOUS
<1>. QED BY <1>1, <1>2, <1>3, <1>4 DEF Wrap

LEMMA SignedFacts ==
  ASSUME NEW n \in Int
  PROVE  /\ Signed(n) \in -Half .. Half - 1
         /\ \E q \in Int : n = Signed(n) + q * Span
<1>1. PICK q \in Int : n = Wrap(n) + q * Span BY WrapFacts
<1>2. Span \in Nat /\ Wrap(n) \in 0 .. Span - 1 BY WrapFacts, HalfAssumption DEF Span
<1>3. CASE Wrap(n) < Half
  <2>1. Signed(n) = Wrap(n) BY <1>3 DEF Signed
  <2>2. Signed(n) \in -Half .. Half - 1 BY <1>2, <1>3, <2>1, HalfAssumption
  <2>. QED BY <1>1, <2>1, <2>2
<1>4. CASE ~(Wrap(n) < Half)
  <2>1. Signed(n) = Wrap(n) - Span BY <1>4 DEF Signed
  <2>2. Signed(n) \in -Half .. Half - 1 BY <1>2, <1>4, <2>1, HalfAssumption DEF Span
  <2>3. \A r, w \in Int : w + q * r = (w - r) + (q + 1) * r OBVIOUS
  <2>4. n = Signed(n) + (q + 1) * Span BY <1>1, <1>2, <2>1, <2>3
  <2>. QED BY <2>2, <2>4
<1>. QED BY <1>3, <1>4

LEMMA SignedIs ==
  ASSUME NEW x \in -Half .. Half - 1, NEW q \in Int, NEW n \in Int, n = x + q * Span
  PROVE  Signed(n) = x
<1>1. PICK p \in Int : n = Signed(n) + p * Span BY SignedFacts
<1>2. Signed(n) \in -Half .. Half - 1 BY SignedFacts
<1>3. Span \in Nat \ {0} /\ Span = 2 * Half BY HalfAssumption DEF Span
<1>4. \A r \in Nat : (q - p) * r = q * r - p * r OBVIOUS
<1>5. \A r \in Nat, k \in Int : (k >= 1 => k * r >= r) /\ (k <= -1 => k * r <= -r) OBVIOUS
<1>6. Signed(n) - x = (q - p) * Span BY <1>1, <1>2, <1>3, <1>4, HalfAssumption
<1>7. q - p = 0
  <2>. DEFINE k == q - p
  <2>1. k \in Int OBVIOUS
  <2>. HIDE DEF k
  <2>2. ~(k >= 1) /\ ~(k <= -1) BY <1>2, <1>3, <1>5, <1>6, <2>1, HalfAssumption DEF k
  <2>. QED BY <2>1, <2>2 DEF k
<1>. QED BY <1>2, <1>3, <1>6, <1>7

\* A distance changes with its ends, as long as it stays within half the range.
LEMMA SignedShift ==
  ASSUME NEW a \in Int, NEW k \in Int, Signed(a) + k \in -Half .. Half - 1
  PROVE  Signed(a + k) = Signed(a) + k
<1>1. PICK q \in Int : a = Signed(a) + q * Span BY SignedFacts
<1>2. Signed(a) \in Int /\ Span \in Int BY SignedFacts, HalfAssumption DEF Span
<1>3. a + k = (Signed(a) + k) + q * Span BY <1>1, <1>2
<1>. QED BY <1>3, SignedIs

LEMMA SignedOpposite ==
  ASSUME NEW a \in Int, Signed(a) # -Half
  PROVE  Signed(-a) = -Signed(a)
<1>1. PICK q \in Int : a = Signed(a) + q * Span BY SignedFacts
<1>2. Signed(a) \in -Half .. Half - 1 /\ Span \in Int BY SignedFacts, HalfAssumption DEF Span
<1>3. -Signed(a) \in -Half .. Half - 1 BY <1>2, HalfAssumption
<1>4. \A s, m \in Int : s = Signed(a) + q * m => -s = -Signed(a) + (-q) * m BY <1>2
<1>5. -a = -Signed(a) + (-q) * Span BY <1>1, <1>2, <1>4
<1>. QED BY <1>3, <1>5, SignedIs

\* The counter may have wrapped at either end.
LEMMA SignedOfWrap ==
  ASSUME NEW a \in Int, NEW b \in Int
  PROVE  /\ Signed(Wrap(a) - b) = Signed(a - b)
         /\ Signed(b - Wrap(a)) = Signed(b - a)
<1>1. PICK q \in Int : a = Wrap(a) + q * Span BY WrapFacts
<1>2. Wrap(a) \in Int /\ Span \in Int BY WrapFacts, HalfAssumption DEF Span
<1>3. PICK p \in Int : a - b = Signed(a - b) + p * Span BY SignedFacts
<1>4. PICK r \in Int : b - a = Signed(b - a) + r * Span BY SignedFacts
<1>5. Signed(a - b) \in -Half .. Half - 1 /\ Signed(b - a) \in -Half .. Half - 1 BY SignedFacts
<1>6. \A s \in Int : (p - q) * s = p * s - q * s /\ (r + q) * s = r * s + q * s OBVIOUS
<1>7. Signed(a - b) \in Int /\ Signed(b - a) \in Int BY <1>5, HalfAssumption
<1>8. Wrap(a) - b = Signed(a - b) + (p - q) * Span BY <1>1, <1>2, <1>3, <1>6, <1>7
<1>9. b - Wrap(a) = Signed(b - a) + (r + q) * Span BY <1>1, <1>2, <1>4, <1>6, <1>7
<1>10. Wrap(a) - b \in Int /\ b - Wrap(a) \in Int /\ p - q \in Int /\ r + q \in Int BY <1>2
<1>11. Signed(Wrap(a) - b) = Signed(a - b) BY <1>5, <1>8, <1>10, SignedIs
<1>12. Signed(b - Wrap(a)) = Signed(b - a) BY <1>5, <1>9, <1>10, SignedIs
<1>. QED BY <1>11, <1>12

-----------------------------------------------------------------------------
\* Induction over the naturals, for a predicate given as a set of them.
LEMMA Less == IsWellFoundedOn({p \in Nat \X Nat : p[1] < p[2]}, Nat)
BY NatLessThanWellFounded DEF OpToRel

LEMMA LeastNatural ==
  ASSUME NEW S \in SUBSET Nat, S # {}
  PROVE  \E x \in S : \A y \in S : x <= y
<1>. DEFINE R == {p \in Nat \X Nat : p[1] < p[2]}
<1>1. PICK x \in S : \A y \in S : <<y, x>> \notin R BY Less, WFMin
<1>2. ASSUME NEW y \in S, y < x PROVE FALSE
  <2>1. <<y, x>> \in Nat \X Nat /\ <<y, x>>[1] < <<y, x>>[2] BY <1>2
  <2>2. <<y, x>> \in R BY <2>1
  <2>. QED BY <1>1, <2>2
<1>3. \A y \in S : y \in Nat /\ x \in Nat OBVIOUS
<1>. QED BY <1>2, <1>3

LEMMA SetInduction ==
  ASSUME NEW S \in SUBSET Nat, 0 \in S, \A n \in S : n + 1 \in S
  PROVE  \A n \in Nat : n \in S
<1>. SUFFICES ASSUME Nat \ S # {} PROVE FALSE OBVIOUS
<1>1. PICK x \in Nat \ S : \A y \in Nat \ S : x <= y BY LeastNatural
<1>2. x # 0 /\ x - 1 \in Nat /\ ~(x <= x - 1) BY <1>1
<1>3. (x - 1) + 1 \in S BY <1>1, <1>2
<1>. QED BY <1>2, <1>3

-----------------------------------------------------------------------------
\* c is the links of the list (h, n) in order: the head, then the next_ of
\* each node; the last of them is null.
IsChain(h, n, c, m) ==
  /\ m \in Nat /\ c \in [0 .. m -> Link] /\ c[0] = Head
  /\ \A i, j \in 0 .. m : c[i] = c[j] => i = j
  /\ \A i \in 0 .. m - 1 : Deref(h, n, c[i]) = c[i + 1]
  /\ Deref(h, n, c[m]) = Null

\* NodesFrom, of any list.
NodesOf(h, n, l) == {Deref(h, n, k) : k \in LinksFrom(h, n, l)} \ {Null}

LEMMA ChainFacts ==
  ASSUME NEW h, NEW n, NEW c, NEW m, IsChain(h, n, c, m)
  PROVE  /\ m \in Nat /\ c[0] = Head
         /\ \A i \in 1 .. m : c[i] \in Timer /\ c[i] # Head
         /\ \A i \in 0 .. m : c[i] \in Link /\ c[i] # Null
         /\ m <= Cardinality(Timer) /\ Cardinality(Timer) \in Nat
<1>. USE DEF IsChain
<1>1. \A i \in 1 .. m : c[i] \in Timer /\ c[i] # Head
  <2>. TAKE i \in 1 .. m
  <2>1. i \in 0 .. m /\ 0 \in 0 .. m /\ i # 0 OBVIOUS
  <2>. QED BY <2>1 DEF Link
<1>2. \A i \in 0 .. m : c[i] \in Link /\ c[i] # Null BY TimerAssumption DEF Link
<1>3. Cardinality(Timer) \in Nat BY TimerAssumption, FS_CardinalityType
<1>4. m <= Cardinality(Timer)
  <2>. DEFINE f == [i \in 1 .. m |-> c[i]]
  <2>1. f \in [1 .. m -> Timer] BY <1>1
  <2>2. \A i, j \in 1 .. m : f[i] = f[j] => i = j OBVIOUS
  <2>3. f \in Injection(1 .. m, Timer)
    <3>. HIDE DEF f
    <3>. QED BY <2>1, <2>2 DEF Injection, IsInjective
  <2>. HIDE DEF f
  <2>4. Cardinality(1 .. m) <= Cardinality(Timer) BY <2>3, TimerAssumption, FS_Injection
  <2>5. Cardinality(1 .. m) = m
    <3>1. 1 \in Int /\ m \in Int OBVIOUS
    <3>. QED BY <3>1, FS_Interval
  <2>. QED BY <2>4, <2>5
<1>. QED BY <1>1, <1>2, <1>3, <1>4

\* A loop from a link of the list goes through that link and those after it.
LEMMA LinksOfChain ==
  ASSUME NEW h, NEW n, NEW c, NEW m, IsChain(h, n, c, m), NEW i \in 0 .. m
  PROVE  LinksFrom(h, n, c[i]) = {c[j] : j \in i .. m}
<1>. DEFINE N == Cardinality(Timer)
            l == c[i]
            at[k \in 0 .. N] ==
              IF k = 0 THEN l
              ELSE LET before == at[k - 1]
                   IN  IF before = Null THEN Null ELSE Deref(h, n, before)
            f == [k \in 0 .. N |-> IF i + k <= m THEN c[i + k] ELSE Null]
<1>1. m \in Nat /\ N \in Nat /\ m <= N BY ChainFacts
<1>2. \A j \in 0 .. m : c[j] # Null BY ChainFacts
<1>3. LinksFrom(h, n, c[i]) = {at[k] : k \in 0 .. N} \ {Null} BY DEF LinksFrom
<1>. HIDE DEF N
<1>4. \A k \in 0 .. N : f[k] =
        IF k = 0 THEN l
        ELSE IF f[k - 1] = Null THEN Null ELSE Deref(h, n, f[k - 1])
  <2>. TAKE k \in 0 .. N
  <2>1. CASE k = 0 BY <1>1, <2>1
  <2>2. CASE k # 0
    <3>1. k - 1 \in 0 .. N BY <1>1, <2>2
    <3>2. f[k - 1] = (IF i + k - 1 <= m THEN c[i + k - 1] ELSE Null)
      BY <1>1, <3>1
    <3>3. f[k] = (IF i + k <= m THEN c[i + k] ELSE Null) OBVIOUS
    <3>. HIDE DEF f
    <3>4. CASE i + k <= m
      <4>1. i + k - 1 \in 0 .. m - 1 /\ i + k - 1 \in 0 .. m /\ (i + k - 1) + 1 = i + k
        BY <1>1, <2>2, <3>4
      <4>2. Deref(h, n, c[i + k - 1]) = c[i + k] BY <4>1 DEF IsChain
      <4>3. f[k - 1] = c[i + k - 1] /\ f[k - 1] # Null BY <1>2, <3>2, <4>1
      <4>. QED BY <2>2, <3>3, <3>4, <4>2, <4>3
    <3>5. CASE i + k = m + 1
      <4>1. i + k - 1 = m /\ m \in 0 .. m BY <1>1, <3>5
      <4>2. f[k - 1] = c[m] /\ f[k - 1] # Null BY <1>1, <1>2, <3>2, <4>1
      <4>3. f[k] = Null BY <1>1, <3>3, <3>5
      <4>. QED BY <2>2, <4>2, <4>3 DEF IsChain
    <3>6. CASE i + k > m + 1
      <4>1. f[k - 1] = Null /\ f[k] = Null BY <1>1, <3>2, <3>3, <3>6
      <4>. QED BY <2>2, <4>1
    <3>. QED BY <1>1, <3>4, <3>5, <3>6
  <2>. QED BY <2>1, <2>2
<1>5. at = [k \in 0 .. N |->
              IF k = 0 THEN l
              ELSE IF at[k - 1] = Null THEN Null ELSE Deref(h, n, at[k - 1])]
  <2>1. f = [k \in 0 .. N |->
              IF k = 0 THEN l
              ELSE IF f[k - 1] = Null THEN Null ELSE Deref(h, n, f[k - 1])]
    BY <1>4
  <2>. HIDE DEF f
  <2>. QED BY <2>1
<1>6. \A k \in Nat : k \in {e \in Nat : e \in 0 .. N => at[e] = f[e]}
  <2>. DEFINE S == {e \in Nat : e \in 0 .. N => at[e] = f[e]}
  <2>. HIDE DEF at, f
  <2>1. 0 \in S BY <1>1, <1>4, <1>5
  <2>2. ASSUME NEW e \in S PROVE e + 1 \in S
    <3>1. e \in Nat OBVIOUS
    <3>2. CASE e + 1 \in 0 .. N
      <4>1. e \in 0 .. N /\ (e + 1) - 1 = e /\ e + 1 # 0 BY <1>1, <3>1, <3>2
      <4>2. at[e] = f[e] BY <4>1
      <4>3. at[e + 1] = IF at[e] = Null THEN Null ELSE Deref(h, n, at[e])
        BY <1>5, <3>2, <4>1
      <4>4. f[e + 1] = IF f[e] = Null THEN Null ELSE Deref(h, n, f[e])
        BY <1>4, <3>2, <4>1
      <4>. QED BY <3>1, <4>2, <4>3, <4>4
    <3>. QED BY <3>1, <3>2
  <2>3. S \in SUBSET Nat OBVIOUS
  <2>. HIDE DEF S
  <2>4. \A e \in Nat : e \in S BY <2>1, <2>2, <2>3, SetInduction
  <2>. QED BY <2>4 DEF S
<1>7. \A k \in 0 .. N : at[k] = IF i + k <= m THEN c[i + k] ELSE Null
  <2>. HIDE DEF at
  <2>1. \A k \in 0 .. N : k \in Nat BY <1>1
  <2>2. \A k \in 0 .. N : at[k] = f[k] BY <1>6, <2>1
  <2>. QED BY <2>2
<1>. HIDE DEF at, f
<1>8. ASSUME NEW j \in i .. m PROVE c[j] \in {at[k] : k \in 0 .. N} \ {Null}
  <2>1. j - i \in 0 .. N /\ i + (j - i) = j /\ j \in 0 .. m BY <1>1
  <2>2. at[j - i] = c[j] BY <1>1, <1>7, <2>1
  <2>. QED BY <1>2, <2>1, <2>2
<1>9. ASSUME NEW k \in 0 .. N, at[k] # Null PROVE at[k] \in {c[j] : j \in i .. m}
  <2>1. i + k <= m /\ at[k] = c[i + k] BY <1>7, <1>9
  <2>2. i + k \in i .. m BY <1>1, <2>1
  <2>. QED BY <2>1, <2>2
<1>. QED BY <1>3, <1>8, <1>9

LEMMA NodesOfChain ==
  ASSUME NEW h, NEW n, NEW c, NEW m, IsChain(h, n, c, m), NEW i \in 0 .. m
  PROVE  NodesOf(h, n, c[i]) = {c[j] : j \in i + 1 .. m}
<1>1. m \in Nat /\ \A j \in 0 .. m : c[j] # Null BY ChainFacts
<1>2. LinksFrom(h, n, c[i]) = {c[j] : j \in i .. m} BY LinksOfChain
<1>3. ASSUME NEW j \in i .. m, Deref(h, n, c[j]) # Null
      PROVE  Deref(h, n, c[j]) \in {c[k] : k \in i + 1 .. m}
  <2>1. j # m BY <1>3 DEF IsChain
  <2>2. j \in 0 .. m - 1 /\ j + 1 \in i + 1 .. m BY <1>1, <2>1
  <2>. QED BY <2>2 DEF IsChain
<1>4. ASSUME NEW k \in i + 1 .. m
      PROVE  c[k] \in {Deref(h, n, c[j]) : j \in i .. m} \ {Null}
  <2>1. k - 1 \in 0 .. m - 1 /\ k - 1 \in i .. m /\ (k - 1) + 1 = k /\ k \in 0 .. m BY <1>1
  <2>2. Deref(h, n, c[k - 1]) = c[k] BY <2>1 DEF IsChain
  <2>. QED BY <1>1, <2>1, <2>2
<1>. QED BY <1>2, <1>3, <1>4 DEF NodesOf

-----------------------------------------------------------------------------
\* A list's operations, on its links: one node out, one in at the head.
Without(c, m, j) == [i \in 0 .. m - 1 |-> IF i < j THEN c[i] ELSE c[i + 1]]
Ahead(c, m, t) == [i \in 0 .. m + 1 |-> IF i = 0 THEN Head ELSE IF i = 1 THEN t ELSE c[i - 1]]

Nexts == [Timer -> Timer \cup {Null}]

\* The list with the node te, which the link l points at, taken out.
CutHead(h, n, l, te) == Store(l, n[te], h, n)[1]
CutNext(h, n, l, te) == [Store(l, n[te], h, n)[2] EXCEPT ![te] = Null]

LEMMA CutDeref ==
  ASSUME NEW h, NEW n \in Nexts, NEW l \in Link, NEW te \in Timer, l # te
  PROVE  /\ Deref(CutHead(h, n, l, te), CutNext(h, n, l, te), l) = n[te]
         /\ \A k \in Link \ {l, te} :
              Deref(CutHead(h, n, l, te), CutNext(h, n, l, te), k) = Deref(h, n, k)
         /\ CutNext(h, n, l, te) \in Nexts
         /\ CutHead(h, n, l, te) = IF l = Head THEN n[te] ELSE h
<1>. DEFINE cut == Store(l, n[te], h, n)
            n2 == [cut[2] EXCEPT ![te] = Null]
<1>1. te # Head BY TimerAssumption
<1>2. CASE l = Head
  <2>1. cut[1] = n[te] /\ cut[2] = n BY <1>2 DEF Store
  <2>2. n2 = [n EXCEPT ![te] = Null] BY <2>1
  <2>3. n2[te] = Null /\ n2 \in Nexts /\ \A k \in Timer \ {te} : n2[k] = n[k]
    BY <2>2 DEF Nexts
  <2>. HIDE DEF n2, cut
  <2>. QED BY <1>1, <1>2, <2>1, <2>3 DEF Deref, Link, CutHead, CutNext, cut, n2
<1>3. CASE l # Head
  <2>. DEFINE n1 == [n EXCEPT ![l] = n[te]]
  <2>1. cut[1] = h /\ cut[2] = n1 BY <1>3 DEF Store
  <2>2. l \in Timer BY <1>3 DEF Link
  <2>3. n1[l] = n[te] /\ n1 \in Nexts /\ \A k \in Timer \ {l} : n1[k] = n[k]
    BY <2>2 DEF Nexts
  <2>. HIDE DEF n1
  <2>4. n2 = [n1 EXCEPT ![te] = Null] BY <2>1
  <2>5. n2[te] = Null /\ n2 \in Nexts /\ \A k \in Timer \ {te} : n2[k] = n1[k]
    BY <2>3, <2>4 DEF Nexts
  <2>. HIDE DEF n2, cut
  <2>. QED BY <1>1, <1>3, <2>1, <2>2, <2>3, <2>5 DEF Deref, Link, CutHead, CutNext, cut, n2
<1>. QED BY <1>2, <1>3

LEMMA CutChain ==
  ASSUME NEW h, NEW n \in Nexts, NEW c, NEW m, IsChain(h, n, c, m), NEW j \in 1 .. m
  PROVE  /\ IsChain(CutHead(h, n, c[j - 1], c[j]), CutNext(h, n, c[j - 1], c[j]),
                    Without(c, m, j), m - 1)
         /\ CutNext(h, n, c[j - 1], c[j]) \in Nexts
<1>. DEFINE te == c[j]
            l == c[j - 1]
            h2 == CutHead(h, n, l, te)
            n2 == CutNext(h, n, l, te)
            d == Without(c, m, j)
<1>1. /\ m \in Nat /\ c[0] = Head
      /\ \A i \in 1 .. m : c[i] \in Timer /\ c[i] # Head
      /\ \A i \in 0 .. m : c[i] \in Link
  BY ChainFacts
<1>2. \A i, k \in 0 .. m : c[i] = c[k] => i = k BY DEF IsChain
<1>3. \A i \in 0 .. m - 1 : Deref(h, n, c[i]) = c[i + 1] BY DEF IsChain
<1>4. Deref(h, n, c[m]) = Null BY DEF IsChain
<1>5. j - 1 \in 0 .. m /\ j \in 0 .. m /\ j # j - 1 /\ j - 1 # m BY <1>1
<1>6. l \in Link /\ te \in Timer /\ l # te BY <1>1, <1>2, <1>5
<1>7. /\ Deref(h2, n2, l) = n[te]
      /\ \A k \in Link \ {l, te} : Deref(h2, n2, k) = Deref(h, n, k)
      /\ n2 \in Nexts
  <2>. HIDE DEF te, l
  <2>. QED BY <1>6, CutDeref
<1>. HIDE DEF n2, h2
<1>8. Deref(h, n, te) = n[te] BY <1>1 DEF Deref
<1>9. \A i \in 0 .. m : i # j - 1 /\ i # j => Deref(h2, n2, c[i]) = Deref(h, n, c[i])
  BY <1>1, <1>2, <1>5, <1>7
<1>10. /\ m - 1 \in Nat /\ 0 < j
       /\ \A i \in 0 .. m - 1 : d[i] = IF i < j THEN c[i] ELSE c[i + 1]
  BY <1>1 DEF Without
<1>11. d \in [0 .. m - 1 -> Link]
  <2>1. \A i \in 0 .. m - 1 : c[i] \in Link /\ c[i + 1] \in Link BY <1>1
  <2>. QED BY <2>1 DEF Without
<1>. HIDE DEF d
<1>12. d[0] = Head BY <1>1, <1>10
<1>13. \A i, k \in 0 .. m - 1 : d[i] = d[k] => i = k
  <2>. TAKE i, k \in 0 .. m - 1
  <2>1. /\ i \in 0 .. m /\ k \in 0 .. m /\ i + 1 \in 0 .. m /\ k + 1 \in 0 .. m
        /\ i \in Int /\ k \in Int /\ j \in Int
    BY <1>1
  <2>2. d[i] = (IF i < j THEN c[i] ELSE c[i + 1]) /\ d[k] = (IF k < j THEN c[k] ELSE c[k + 1])
    BY <1>10
  <2>. QED BY <1>2, <2>1, <2>2
<1>14. ASSUME NEW i \in 0 .. (m - 1) - 1 PROVE Deref(h2, n2, d[i]) = d[i + 1]
  <2>1. i \in 0 .. m - 1 /\ i + 1 \in 0 .. m - 1 /\ i \in 0 .. m BY <1>1
  <2>2. d[i] = (IF i < j THEN c[i] ELSE c[i + 1])
        /\ d[i + 1] = (IF i + 1 < j THEN c[i + 1] ELSE c[(i + 1) + 1])
    BY <1>10, <2>1
  <2>3. CASE i < j - 1
    <3>1. d[i] = c[i] /\ d[i + 1] = c[i + 1] BY <2>1, <2>2, <2>3
    <3>2. Deref(h2, n2, c[i]) = Deref(h, n, c[i]) BY <1>9, <2>1, <2>3
    <3>. QED BY <1>3, <2>1, <3>1, <3>2
  <2>4. CASE i = j - 1
    <3>1. d[i] = l /\ d[i + 1] = c[j + 1] BY <2>1, <2>2, <2>4
    <3>2. Deref(h, n, te) = c[j + 1] BY <1>3, <2>1, <2>4
    <3>. QED BY <1>7, <1>8, <3>1, <3>2
  <2>5. CASE i > j - 1
    <3>1. d[i] = c[i + 1] /\ d[i + 1] = c[(i + 1) + 1] BY <2>1, <2>2, <2>5
    <3>2. Deref(h2, n2, c[i + 1]) = Deref(h, n, c[i + 1])
      <4>1. i + 1 \in 0 .. m /\ i + 1 # j - 1 /\ i + 1 # j BY <1>1, <2>1, <2>5
      <4>. QED BY <1>9, <4>1
    <3>. QED BY <1>3, <2>1, <3>1, <3>2
  <2>. QED BY <2>1, <2>3, <2>4, <2>5
<1>15. Deref(h2, n2, d[m - 1]) = Null
  <2>1. CASE j = m
    <3>1. d[m - 1] = l /\ Deref(h, n, te) = Null BY <1>1, <1>4, <1>10, <2>1
    <3>. QED BY <1>7, <1>8, <3>1
  <2>2. CASE j # m
    <3>1. m - 1 \in 0 .. m - 1 /\ ~(m - 1 < j) /\ (m - 1) + 1 = m /\ m \in 0 .. m
          /\ m # j /\ m # j - 1
      BY <1>1, <2>2
    <3>2. d[m - 1] = c[m] BY <1>10, <3>1
    <3>3. Deref(h2, n2, c[m]) = Deref(h, n, c[m]) BY <1>9, <3>1
    <3>. QED BY <1>4, <3>2, <3>3
  <2>. QED BY <2>1, <2>2
<1>16. IsChain(h2, n2, d, m - 1)
  BY <1>10, <1>11, <1>12, <1>13, <1>14, <1>15 DEF IsChain
<1>. QED BY <1>7, <1>16 DEF d, n2, h2

LEMMA AbsentChain ==
  ASSUME NEW h, NEW n \in Nexts, NEW c, NEW m, IsChain(h, n, c, m), NEW te \in Timer,
         te \notin {c[j] : j \in 1 .. m}
  PROVE  IsChain(h, [n EXCEPT ![te] = Null], c, m) /\ [n EXCEPT ![te] = Null] \in Nexts
<1>. DEFINE n2 == [n EXCEPT ![te] = Null]
<1>1. m \in Nat /\ c[0] = Head /\ \A i \in 0 .. m : c[i] \in Link BY ChainFacts
<1>2. n2 \in Nexts /\ \A k \in Timer \ {te} : n2[k] = n[k] BY DEF Nexts
<1>. HIDE DEF n2
<1>3. \A i \in 0 .. m : c[i] # te
  <2>. TAKE i \in 0 .. m
  <2>1. i = 0 \/ i \in 1 .. m BY <1>1
  <2>. QED BY <1>1, <2>1, TimerAssumption
<1>4. \A i \in 0 .. m : Deref(h, n2, c[i]) = Deref(h, n, c[i])
  BY <1>1, <1>2, <1>3 DEF Deref, Link
<1>5. m \in 0 .. m /\ \A i \in 0 .. m - 1 : i \in 0 .. m BY <1>1
<1>6. IsChain(h, n2, c, m) BY <1>4, <1>5 DEF IsChain
<1>. QED BY <1>2, <1>6 DEF n2

LEMMA AheadChain ==
  ASSUME NEW h \in Timer \cup {Null}, NEW n \in Nexts, NEW c, NEW m, IsChain(h, n, c, m),
         NEW te \in Timer, te \notin {c[j] : j \in 1 .. m}
  PROVE  /\ IsChain(te, [n EXCEPT ![te] = h], Ahead(c, m, te), m + 1)
         /\ [n EXCEPT ![te] = h] \in Nexts
<1>. DEFINE n2 == [n EXCEPT ![te] = h]
            d == Ahead(c, m, te)
<1>1. m \in Nat /\ c[0] = Head /\ \A i \in 0 .. m : c[i] \in Link BY ChainFacts
<1>2. n2 \in Nexts /\ n2[te] = h /\ \A k \in Timer \ {te} : n2[k] = n[k] BY DEF Nexts
<1>3. te # Head BY TimerAssumption
<1>. HIDE DEF n2
<1>4. \A i \in 1 .. m : c[i] \in Timer /\ c[i] # Head /\ c[i] # te BY ChainFacts
<1>5. \A i \in 1 .. m : Deref(te, n2, c[i]) = Deref(h, n, c[i])
  BY <1>2, <1>4 DEF Deref
<1>6. Deref(te, n2, Head) = te /\ Deref(te, n2, te) = Deref(h, n, Head)
  BY <1>2, <1>3 DEF Deref
<1>7. /\ \A i \in 0 .. m + 1 :
           d[i] = IF i = 0 THEN Head ELSE IF i = 1 THEN te ELSE c[i - 1]
      /\ d \in [0 .. m + 1 -> Link]
  <2>1. \A i \in 0 .. m + 1 : i # 0 => c[i - 1] \in Link BY <1>1
  <2>. QED BY <2>1 DEF Ahead, Link
<1>. HIDE DEF d
<1>8. d[0] = Head /\ d[1] = te BY <1>1, <1>7
<1>9. \A i, k \in 0 .. m + 1 : d[i] = d[k] => i = k
  <2>1. \A i \in 0 .. m + 1 : i # 0 /\ i # 1 =>
          d[i] = c[i - 1] /\ i - 1 \in 1 .. m /\ i - 1 \in 0 .. m
    BY <1>1, <1>7
  <2>2. \A i, k \in 0 .. m : c[i] = c[k] => i = k BY DEF IsChain
  <2>. TAKE i, k \in 0 .. m + 1
  <2>3. CASE i # 0 /\ i # 1 /\ k # 0 /\ k # 1
    <3>1. d[i] = d[k] => i - 1 = k - 1 BY <2>1, <2>2, <2>3
    <3>. QED BY <3>1
  <2>4. CASE i # 0 /\ i # 1 /\ (k = 0 \/ k = 1) BY <1>3, <1>4, <1>8, <2>1, <2>4
  <2>5. CASE k # 0 /\ k # 1 /\ (i = 0 \/ i = 1) BY <1>3, <1>4, <1>8, <2>1, <2>5
  <2>6. CASE (i = 0 \/ i = 1) /\ (k = 0 \/ k = 1) BY <1>3, <1>8, <2>6
  <2>. QED BY <2>3, <2>4, <2>5, <2>6
<1>10. ASSUME NEW i \in 0 .. (m + 1) - 1 PROVE Deref(te, n2, d[i]) = d[i + 1]
  <2>1. CASE i = 0 BY <1>6, <1>8, <2>1
  <2>2. CASE i = 1
    <3>1. 0 \in 0 .. m - 1 /\ 2 \in 0 .. m + 1 /\ d[2] = c[1] BY <1>1, <1>7, <2>2
    <3>2. Deref(h, n, Head) = c[0 + 1] BY <1>1, <3>1 DEF IsChain
    <3>. QED BY <1>6, <1>8, <2>2, <3>1, <3>2
  <2>3. CASE i # 0 /\ i # 1
    <3>1. /\ i \in 0 .. m + 1 /\ i + 1 \in 0 .. m + 1 /\ i + 1 # 0 /\ i + 1 # 1
          /\ (i + 1) - 1 = (i - 1) + 1 /\ i - 1 \in 1 .. m /\ i - 1 \in 0 .. m - 1
      BY <1>1, <2>3
    <3>2. d[i] = c[i - 1] /\ d[i + 1] = c[(i - 1) + 1] BY <1>7, <2>3, <3>1
    <3>3. Deref(h, n, c[i - 1]) = c[(i - 1) + 1] BY <3>1 DEF IsChain
    <3>. QED BY <1>5, <3>1, <3>2, <3>3
  <2>. QED BY <2>1, <2>2, <2>3
<1>11. Deref(te, n2, d[m + 1]) = Null
  <2>1. Deref(h, n, c[m]) = Null BY DEF IsChain
  <2>2. CASE m = 0 BY <1>1, <1>6, <1>8, <2>1, <2>2
  <2>3. CASE m # 0
    <3>1. m + 1 \in 0 .. m + 1 /\ m + 1 # 0 /\ m + 1 # 1 /\ (m + 1) - 1 = m /\ m \in 1 .. m
      BY <1>1, <2>3
    <3>2. d[m + 1] = c[m] BY <1>7, <3>1
    <3>. QED BY <1>5, <2>1, <3>1, <3>2
  <2>. QED BY <2>2, <2>3
<1>12. m + 1 \in Nat BY <1>1
<1>13. IsChain(te, n2, d, m + 1) BY <1>7, <1>8, <1>9, <1>10, <1>11, <1>12 DEF IsChain
<1>. QED BY <1>2, <1>13 DEF d, n2

-----------------------------------------------------------------------------
\* The list (h, n) is the timers of S, each once.
IsList(h, n, S) ==
  \E c, m : IsChain(h, n, c, m) /\ S = {c[j] : j \in 1 .. m}

LEMMA ChainIsList ==
  ASSUME NEW h, NEW n, NEW c, NEW m, IsChain(h, n, c, m)
  PROVE  IsList(h, n, {c[j] : j \in 1 .. m})
BY DEF IsList, IsChain

LEMMA ListFacts ==
  ASSUME NEW h, NEW n, NEW S, IsList(h, n, S)
  PROVE  /\ S \in SUBSET Timer /\ IsFiniteSet(S) /\ h \in Timer \cup {Null}
         /\ LinksFrom(h, n, Head) = S \cup {Head}
         /\ NodesOf(h, n, Head) = S
         /\ \A l \in S \cup {Head} : NodesOf(h, n, l) \in SUBSET (S \ {l})
<1>1. PICK c, m : m \in Nat /\ IsChain(h, n, c, m) /\ S = {c[j] : j \in 1 .. m}
  BY DEF IsList, IsChain
<1>2. c[0] = Head /\ \A i \in 1 .. m : c[i] \in Timer BY <1>1, ChainFacts
<1>3. S \in SUBSET Timer BY <1>1, <1>2
<1>4. IsFiniteSet(S) BY <1>3, TimerAssumption, FS_Subset
<1>5. 0 \in 0 .. m BY <1>1
<1>6. LinksFrom(h, n, Head) = S \cup {Head}
  <2>0. LinksFrom(h, n, c[0]) = {c[j] : j \in 0 .. m} BY <1>1, <1>5, LinksOfChain
  <2>1. LinksFrom(h, n, Head) = {c[j] : j \in 0 .. m} BY <1>2, <2>0
  <2>2. \A j \in 0 .. m : j = 0 \/ j \in 1 .. m BY <1>1
  <2>3. \A j \in 1 .. m : j \in 0 .. m BY <1>1
  <2>. QED BY <1>1, <1>2, <1>5, <2>1, <2>2, <2>3
<1>7. NodesOf(h, n, Head) = S
  <2>1. NodesOf(h, n, c[0]) = {c[j] : j \in 0 + 1 .. m} BY <1>1, <1>5, NodesOfChain
  <2>. QED BY <1>1, <1>2, <2>1
<1>8. ASSUME NEW i \in 0 .. m PROVE NodesOf(h, n, c[i]) \in SUBSET (S \ {c[i]})
  <2>1. NodesOf(h, n, c[i]) = {c[j] : j \in i + 1 .. m} BY <1>1, NodesOfChain
  <2>2. \A j \in i + 1 .. m : j \in 0 .. m /\ j \in 1 .. m /\ j # i BY <1>1
  <2>3. \A j \in i + 1 .. m : c[j] \in S /\ c[j] # c[i] BY <1>1, <2>2 DEF IsChain
  <2>. QED BY <2>1, <2>3
<1>9. \A l \in S \cup {Head} : \E i \in 0 .. m : l = c[i]
  <2>1. \A j \in 1 .. m : j \in 0 .. m BY <1>1
  <2>. QED BY <1>1, <1>2, <1>5, <2>1
<1>10. h \in Timer \cup {Null}
  <2>1. Deref(h, n, Head) = h BY DEF Deref
  <2>2. CASE m = 0 BY <1>1, <1>2, <2>1, <2>2 DEF IsChain
  <2>3. CASE m # 0
    <3>1. 0 \in 0 .. m - 1 /\ 1 \in 1 .. m BY <1>1, <2>3
    <3>2. Deref(h, n, c[0]) = c[0 + 1] BY <1>1, <3>1 DEF IsChain
    <3>. QED BY <1>2, <2>1, <3>1, <3>2
  <2>. QED BY <2>2, <2>3
<1>. QED BY <1>3, <1>4, <1>6, <1>7, <1>8, <1>9, <1>10

\* The nodes at the places after i.
After(c, i, m) == {c[k] : k \in i + 1 .. m}

\* What a walk sees of the list (h, n), the chain c but for its place j.
SeenWithout(h, n, c, m, j) ==
  /\ NodesOf(h, n, c[j - 1]) = After(c, j, m)
  /\ \A w \in 0 .. m : w # j => NodesOf(h, n, c[w]) = After(c, w, m) \ {c[j]}

\* One node out of a chain: what is left, and what is left of it from a link
\* that stays, the link that pointed at the node standing for its own.
LEMMA CutList ==
  ASSUME NEW h, NEW n \in Nexts, NEW c, NEW m, IsChain(h, n, c, m), NEW j \in 1 .. m
  PROVE  LET h2 == CutHead(h, n, c[j - 1], c[j])
             n2 == CutNext(h, n, c[j - 1], c[j])
         IN  /\ n2 \in Nexts
             /\ IsList(h2, n2, After(c, 0, m) \ {c[j]})
             /\ SeenWithout(h2, n2, c, m, j)
<1>. DEFINE d == Without(c, m, j)
            h2 == CutHead(h, n, c[j - 1], c[j])
            n2 == CutNext(h, n, c[j - 1], c[j])
<1>1. IsChain(h2, n2, d, m - 1) /\ n2 \in Nexts BY CutChain
<1>. HIDE DEF h2, n2
<1>2. m \in Nat /\ j - 1 \in 0 .. m - 1 /\ \A i, k \in 0 .. m : c[i] = c[k] => i = k
  BY DEF IsChain
<1>3. \A i \in 0 .. m - 1 : d[i] = IF i < j THEN c[i] ELSE c[i + 1] BY <1>2 DEF Without
<1>. HIDE DEF d
\* From place k of what is left: the places after it, but the one cut.
<1>4. ASSUME NEW k \in 0 .. m - 1, NEW w \in 0 .. m, w = IF k < j THEN k ELSE k + 1
      PROVE  {d[i] : i \in k + 1 .. m - 1} = {c[i] : i \in w + 1 .. m} \ {c[j]}
  <2>1. ASSUME NEW i \in k + 1 .. m - 1 PROVE d[i] \in {c[e] : e \in w + 1 .. m} \ {c[j]}
    <3>1. i \in 0 .. m - 1 /\ i \in 0 .. m /\ i + 1 \in 0 .. m /\ j \in 0 .. m BY <1>2
    <3>2. CASE i < j
      <4>1. d[i] = c[i] /\ i # j /\ i \in w + 1 .. m BY <1>2, <1>3, <1>4, <3>1, <3>2
      <4>. QED BY <1>2, <3>1, <4>1
    <3>3. CASE ~(i < j)
      <4>1. d[i] = c[i + 1] /\ i + 1 # j /\ i + 1 \in w + 1 .. m
        BY <1>2, <1>3, <1>4, <3>1, <3>3
      <4>. QED BY <1>2, <3>1, <4>1
    <3>. QED BY <3>2, <3>3
  <2>2. ASSUME NEW i \in w + 1 .. m, i # j PROVE c[i] \in {d[e] : e \in k + 1 .. m - 1}
    <3>1. CASE i < j
      <4>1. i \in k + 1 .. m - 1 /\ i \in 0 .. m - 1 BY <1>2, <1>4, <3>1
      <4>2. d[i] = c[i] BY <1>3, <3>1, <4>1
      <4>. QED BY <4>1, <4>2
    <3>2. CASE ~(i < j)
      <4>1. /\ i - 1 \in k + 1 .. m - 1 /\ i - 1 \in 0 .. m - 1 /\ ~(i - 1 < j)
            /\ (i - 1) + 1 = i
        BY <1>2, <1>4, <2>2, <3>2
      <4>2. d[i - 1] = c[i] BY <1>3, <4>1
      <4>. QED BY <4>1, <4>2
    <3>. QED BY <3>1, <3>2
  <2>. QED BY <2>1, <2>2
<1>5. ASSUME NEW k \in 0 .. m - 1 PROVE NodesOf(h2, n2, d[k]) = {d[i] : i \in k + 1 .. m - 1}
  BY <1>1, NodesOfChain
<1>6. {d[i] : i \in 1 .. m - 1} = {c[i] : i \in 1 .. m} \ {c[j]}
  <2>1. 0 \in 0 .. m - 1 /\ 0 \in 0 .. m /\ 0 = (IF 0 < j THEN 0 ELSE 0 + 1) BY <1>2
  <2>2. {d[i] : i \in 0 + 1 .. m - 1} = {c[i] : i \in 0 + 1 .. m} \ {c[j]} BY <1>4, <2>1
  <2>. QED BY <2>2
<1>7. IsList(h2, n2, {c[i] : i \in 1 .. m} \ {c[j]}) BY <1>1, <1>6, ChainIsList
<1>8. ASSUME NEW w \in 0 .. m, w # j
      PROVE  NodesOf(h2, n2, c[w]) = {c[i] : i \in w + 1 .. m} \ {c[j]}
  <2>1. CASE w < j
    <3>1. w \in 0 .. m - 1 /\ w = (IF w < j THEN w ELSE w + 1) /\ d[w] = c[w]
      BY <1>2, <1>3, <2>1
    <3>2. {d[i] : i \in w + 1 .. m - 1} = {c[i] : i \in w + 1 .. m} \ {c[j]} BY <1>4, <3>1
    <3>3. NodesOf(h2, n2, d[w]) = {d[i] : i \in w + 1 .. m - 1} BY <1>5, <3>1
    <3>. QED BY <3>1, <3>2, <3>3
  <2>2. CASE ~(w < j)
    <3>. DEFINE k == w - 1
    <3>1. k \in 0 .. m - 1 /\ w = (IF k < j THEN k ELSE k + 1) /\ ~(k < j) /\ k + 1 = w
      BY <1>2, <1>8, <2>2
    <3>. HIDE DEF k
    <3>2. d[k] = c[w] BY <1>3, <3>1
    <3>3. {d[i] : i \in k + 1 .. m - 1} = {c[i] : i \in w + 1 .. m} \ {c[j]} BY <1>4, <3>1
    <3>4. NodesOf(h2, n2, d[k]) = {d[i] : i \in k + 1 .. m - 1} BY <1>5, <3>1
    <3>. QED BY <3>2, <3>3, <3>4
  <2>. QED BY <2>1, <2>2
<1>9. NodesOf(h2, n2, c[j - 1]) = {c[i] : i \in j + 1 .. m}
  <2>1. j - 1 \in 0 .. m /\ j - 1 # j /\ (j - 1) + 1 = j /\ j \in 0 .. m BY <1>2
  <2>2. NodesOf(h2, n2, c[j - 1]) = {c[i] : i \in j .. m} \ {c[j]} BY <1>8, <2>1
  <2>3. \A i \in j .. m : i \in 0 .. m /\ (i = j \/ i \in j + 1 .. m) BY <1>2
  <2>4. \A i \in j + 1 .. m : i \in j .. m /\ i # j BY <1>2
  <2>5. \A i \in j + 1 .. m : c[i] # c[j] BY <1>2, <2>1, <2>3, <2>4
  <2>. QED BY <2>2, <2>3, <2>4, <2>5
<1>. QED BY <1>1, <1>7, <1>8, <1>9 DEF h2, n2, After, SeenWithout

\* What a walk sees of the list (h2, n2), the list (h, n) of S with te ahead.
SeenAhead(h2, n2, h, n, S, te) ==
  /\ NodesOf(h2, n2, te) = S
  /\ \A l \in S : NodesOf(h2, n2, l) = NodesOf(h, n, l)

\* One node in at the head: a walk past the old links sees no more than
\* before, and one from the new node sees what one from the head saw.
LEMMA AheadList ==
  ASSUME NEW h \in Timer \cup {Null}, NEW n \in Nexts, NEW S, IsList(h, n, S),
         NEW te \in Timer \ S
  PROVE  /\ [n EXCEPT ![te] = h] \in Nexts
         /\ IsList(te, [n EXCEPT ![te] = h], S \cup {te})
         /\ SeenAhead(te, [n EXCEPT ![te] = h], h, n, S, te)
<1>. SUFFICES ASSUME NEW n2, n2 = [n EXCEPT ![te] = h]
              PROVE  n2 \in Nexts /\ IsList(te, n2, S \cup {te}) /\ SeenAhead(te, n2, h, n, S, te)
  OBVIOUS
<1>1. PICK c, m : m \in Nat /\ IsChain(h, n, c, m) /\ S = {c[j] : j \in 1 .. m}
  BY DEF IsList, IsChain
<1>. DEFINE d == Ahead(c, m, te)
<1>2. IsChain(te, n2, d, m + 1) /\ n2 \in Nexts
  <2>1. te \notin {c[j] : j \in 1 .. m} BY <1>1
  <2>. QED BY <1>1, <2>1, AheadChain
<1>3. d[1] = te /\ \A i \in 1 .. m : d[i + 1] = c[i]
  <2>1. \A i \in 1 .. m : i + 1 \in 0 .. m + 1 /\ i + 1 # 0 /\ i + 1 # 1 /\ (i + 1) - 1 = i
    BY <1>1
  <2>2. 1 \in 0 .. m + 1 BY <1>1
  <2>. QED BY <2>1, <2>2 DEF Ahead
<1>. HIDE DEF d
<1>4. ASSUME NEW i \in 0 .. m PROVE {d[k] : k \in (i + 1) + 1 .. m + 1} = {c[k] : k \in i + 1 .. m}
  <2>1. \A k \in (i + 1) + 1 .. m + 1 : k - 1 \in i + 1 .. m /\ k - 1 \in 1 .. m /\ (k - 1) + 1 = k
    BY <1>1
  <2>2. \A k \in (i + 1) + 1 .. m + 1 : d[k] = c[k - 1] /\ k - 1 \in i + 1 .. m BY <1>3, <2>1
  <2>3. \A k \in i + 1 .. m : k + 1 \in (i + 1) + 1 .. m + 1 /\ k \in 1 .. m BY <1>1
  <2>. QED BY <1>3, <2>2, <2>3
<1>5. {d[k] : k \in 1 .. m + 1} = S \cup {te}
  <2>1. 1 \in 1 .. m + 1 /\ 0 \in 0 .. m BY <1>1
  <2>2. {d[k] : k \in 2 .. m + 1} = S BY <1>1, <1>4, <2>1
  <2>3. \A k \in 1 .. m + 1 : k = 1 \/ k \in 2 .. m + 1 BY <1>1
  <2>4. \A k \in 2 .. m + 1 : k \in 1 .. m + 1 BY <1>1
  <2>. QED BY <1>3, <2>1, <2>2, <2>3, <2>4
<1>6. IsList(te, n2, S \cup {te}) BY <1>2, <1>5, ChainIsList
<1>7. NodesOf(te, n2, te) = S
  <2>1. 1 \in 0 .. m + 1 /\ 0 \in 0 .. m BY <1>1
  <2>2. NodesOf(te, n2, d[1]) = {d[k] : k \in 1 + 1 .. m + 1} BY <1>2, <2>1, NodesOfChain
  <2>3. {d[k] : k \in (0 + 1) + 1 .. m + 1} = {c[k] : k \in 0 + 1 .. m} BY <1>4, <2>1
  <2>4. 0 + 1 = 1 /\ (0 + 1) + 1 = 1 + 1 OBVIOUS
  <2>. QED BY <1>1, <1>3, <2>2, <2>3, <2>4
<1>8. ASSUME NEW i \in 1 .. m PROVE NodesOf(te, n2, c[i]) = NodesOf(h, n, c[i])
  <2>1. i + 1 \in 0 .. m + 1 /\ i \in 0 .. m BY <1>1
  <2>2. NodesOf(te, n2, d[i + 1]) = {d[k] : k \in (i + 1) + 1 .. m + 1}
    BY <1>2, <2>1, NodesOfChain
  <2>3. NodesOf(h, n, c[i]) = {c[k] : k \in i + 1 .. m} BY <1>1, <2>1, NodesOfChain
  <2>. QED BY <1>3, <1>4, <2>1, <2>2, <2>3
<1>. QED BY <1>1, <1>2, <1>6, <1>7, <1>8 DEF SeenAhead

\* unlink(), whatever the list and wherever the walk.
LEMMA UnlinkFacts ==
  ASSUME next \in Nexts, NEW S, IsList(head, next, S), NEW te \in Timer
  PROVE  /\ Unlink(te)[2] \in Nexts
         /\ IsList(Unlink(te)[1], Unlink(te)[2], S \ {te})
         /\ walk = Null => Unlink(te)[3] = Null
         /\ walk \in S \cup {Head} =>
              /\ Unlink(te)[3] \in (S \ {te}) \cup {Head}
              /\ NodesOf(Unlink(te)[1], Unlink(te)[2], Unlink(te)[3])
                   = NodesOf(head, next, walk) \ {te}
<1>1. PICK c, m :
        m \in Nat /\ IsChain(head, next, c, m) /\ S = {c[j] : j \in 1 .. m}
  BY DEF IsList, IsChain
<1>. DEFINE to == {l \in LinksFrom(head, next, Head) : Deref(head, next, l) = te}
<1>2. /\ c[0] = Head /\ \A i \in 1 .. m : c[i] \in Timer /\ c[i] # Head
      /\ \A i, k \in 0 .. m : c[i] = c[k] => i = k
      /\ \A i \in 0 .. m - 1 : Deref(head, next, c[i]) = c[i + 1]
      /\ Deref(head, next, c[m]) = Null
  <2>1. c[0] = Head /\ \A i \in 1 .. m : c[i] \in Timer /\ c[i] # Head BY <1>1, ChainFacts
  <2>. QED BY <1>1, <2>1 DEF IsChain
<1>3. LinksFrom(head, next, Head) = {c[j] : j \in 0 .. m}
  <2>1. 0 \in 0 .. m BY <1>1
  <2>2. LinksFrom(head, next, c[0]) = {c[j] : j \in 0 .. m} BY <1>1, <2>1, LinksOfChain
  <2>. QED BY <1>2, <2>2
<1>4. te # Null /\ te # Head /\ Head # Null BY TimerAssumption
<1>5. \A w \in 0 .. m : NodesOf(head, next, c[w]) = {c[i] : i \in w + 1 .. m}
  BY <1>1, NodesOfChain
<1>6. \A l \in S \cup {Head} : \E w \in 0 .. m : l = c[w]
  <2>1. 0 \in 0 .. m /\ \A j \in 1 .. m : j \in 0 .. m BY <1>1
  <2>. QED BY <1>1, <1>2, <2>1
<1>7. CASE te \in S
  <2>1. PICK j \in 1 .. m : te = c[j] BY <1>1, <1>7
  <2>. DEFINE l == c[j - 1]
  <2>2. j - 1 \in 0 .. m - 1 /\ j - 1 \in 0 .. m /\ j \in 0 .. m /\ (j - 1) + 1 = j BY <1>1
  <2>3. to = {l}
    <3>1. l \in to BY <1>2, <1>3, <2>1, <2>2
    <3>2. ASSUME NEW i \in 0 .. m, Deref(head, next, c[i]) = te PROVE i = j - 1
      <4>1. i # m BY <1>2, <1>4, <3>2
      <4>2. i \in 0 .. m - 1 /\ i + 1 \in 0 .. m BY <1>1, <4>1
      <4>3. c[i + 1] = c[j] BY <1>2, <2>1, <3>2, <4>2
      <4>4. i + 1 = j BY <1>2, <2>2, <4>2, <4>3
      <4>. QED BY <4>2, <4>4
    <3>. QED BY <1>3, <3>1, <3>2
  <2>4. (CHOOSE k \in to : TRUE) = l
    <3>. HIDE DEF to, l
    <3>. QED BY <2>3
  <2>5. Unlink(te) = <<CutHead(head, next, l, te), CutNext(head, next, l, te),
                       IF walk = te THEN l ELSE walk>>
    <3>1. to # {} BY <2>3
    <3>. QED BY <2>4, <3>1 DEF Unlink, CutHead, CutNext
  <2>. DEFINE h2 == CutHead(head, next, l, te)
              n2 == CutNext(head, next, l, te)
              w2 == IF walk = te THEN l ELSE walk
  <2>6. Unlink(te)[1] = h2 /\ Unlink(te)[2] = n2 /\ Unlink(te)[3] = w2 BY <2>5
  <2>7. /\ n2 \in Nexts
        /\ IsList(h2, n2, S \ {te})
        /\ NodesOf(h2, n2, l) = {c[i] : i \in j + 1 .. m}
        /\ \A w \in 0 .. m : w # j =>
              NodesOf(h2, n2, c[w]) = {c[i] : i \in w + 1 .. m} \ {te}
    <3>1. h2 = CutHead(head, next, c[j - 1], c[j]) /\ n2 = CutNext(head, next, c[j - 1], c[j])
      BY <2>1
    <3>2. IsChain(head, next, c, m) BY <1>1
    <3>3. CutNext(head, next, c[j - 1], c[j]) \in Nexts BY <3>2, CutList
    <3>4. IsList(CutHead(head, next, c[j - 1], c[j]), CutNext(head, next, c[j - 1], c[j]),
                 After(c, 0, m) \ {c[j]})
      BY <3>2, CutList
    <3>5. SeenWithout(CutHead(head, next, c[j - 1], c[j]), CutNext(head, next, c[j - 1], c[j]),
                      c, m, j)
      BY <3>2, CutList
    <3>. HIDE DEF h2, n2
    <3>6. n2 \in Nexts BY <3>1, <3>3
    <3>7. IsList(h2, n2, S \ {te})
      <4>1. After(c, 0, m) = S BY <1>1 DEF After
      <4>. QED BY <2>1, <3>1, <3>4, <4>1
    <3>8. SeenWithout(h2, n2, c, m, j) BY <3>1, <3>5
    <3>. HIDE DEF l
    <3>9. NodesOf(h2, n2, l) = {c[i] : i \in j + 1 .. m} BY <3>8 DEF SeenWithout, After, l
    <3>10. \A w \in 0 .. m : w # j => NodesOf(h2, n2, c[w]) = {c[i] : i \in w + 1 .. m} \ {te}
      BY <2>1, <3>8 DEF SeenWithout, After
    <3>. QED BY <3>6, <3>7, <3>9, <3>10
  <2>8. l \in (S \ {te}) \cup {Head}
    <3>1. j - 1 = 0 \/ j - 1 \in 1 .. m BY <1>1
    <3>2. l # te BY <1>2, <2>1, <2>2
    <3>. QED BY <1>1, <1>2, <3>1, <3>2
  <2>. HIDE DEF h2, n2, l
  <2>9. walk = Null => w2 = Null BY <1>4
  <2>10. ASSUME walk \in S \cup {Head}
         PROVE  /\ w2 \in (S \ {te}) \cup {Head}
                /\ NodesOf(h2, n2, w2) = NodesOf(head, next, walk) \ {te}
    <3>1. CASE walk = te
      <4>1. w2 = l BY <3>1
      <4>2. NodesOf(head, next, walk) = {c[i] : i \in j + 1 .. m} BY <1>5, <2>1, <2>2, <3>1
      <4>3. \A i \in j + 1 .. m : i \in 0 .. m /\ i # j BY <1>1
      <4>4. te \notin {c[i] : i \in j + 1 .. m} BY <1>2, <2>1, <2>2, <4>3
      <4>. QED BY <2>7, <2>8, <4>1, <4>2, <4>4
    <3>2. CASE walk # te
      <4>1. w2 = walk BY <3>2
      <4>2. PICK w \in 0 .. m : walk = c[w] BY <1>6, <2>10
      <4>3. w # j BY <2>1, <3>2, <4>2
      <4>4. NodesOf(h2, n2, walk) = {c[i] : i \in w + 1 .. m} \ {te} BY <2>7, <4>2, <4>3
      <4>5. NodesOf(head, next, walk) = {c[i] : i \in w + 1 .. m} BY <1>5, <4>2
      <4>. QED BY <2>10, <3>2, <4>1, <4>4, <4>5
    <3>. QED BY <3>1, <3>2
  <2>. HIDE DEF w2
  <2>. QED BY <2>6, <2>7, <2>9, <2>10
<1>8. CASE te \notin S
  <2>1. to = {}
    <3>1. ASSUME NEW i \in 0 .. m, Deref(head, next, c[i]) = te PROVE FALSE
      <4>1. i # m BY <1>2, <1>4, <3>1
      <4>2. i \in 0 .. m - 1 /\ i + 1 \in 1 .. m BY <1>1, <4>1
      <4>. QED BY <1>1, <1>2, <1>8, <3>1, <4>2
    <3>. QED BY <1>3, <3>1
  <2>. DEFINE n2 == [next EXCEPT ![te] = Null]
  <2>2. Unlink(te) = <<head, n2, walk>> BY <2>1 DEF Unlink
  <2>3. n2 \in Nexts /\ IsChain(head, n2, c, m)
    <3>1. te \notin {c[j] : j \in 1 .. m} BY <1>1, <1>8
    <3>. QED BY <1>1, <3>1, AbsentChain
  <2>. HIDE DEF n2
  <2>4. S \ {te} = S BY <1>8
  <2>5. IsList(head, n2, S \ {te}) BY <1>1, <2>3, <2>4, ChainIsList
  <2>6. ASSUME walk \in S \cup {Head}
        PROVE  NodesOf(head, n2, walk) = NodesOf(head, next, walk) \ {te}
    <3>1. PICK w \in 0 .. m : walk = c[w] BY <1>6, <2>6
    <3>2. NodesOf(head, n2, walk) = {c[i] : i \in w + 1 .. m} BY <2>3, <3>1, NodesOfChain
    <3>3. NodesOf(head, next, walk) = {c[i] : i \in w + 1 .. m} BY <1>5, <3>1
    <3>4. te \notin {c[i] : i \in w + 1 .. m}
      <4>1. \A i \in w + 1 .. m : i \in 1 .. m BY <1>1
      <4>. QED BY <1>1, <1>8, <4>1
    <3>. QED BY <3>2, <3>3, <3>4
  <2>7. Unlink(te)[1] = head /\ Unlink(te)[2] = n2 /\ Unlink(te)[3] = walk BY <2>2
  <2>. QED BY <2>3, <2>4, <2>5, <2>6, <2>7
<1>. QED BY <1>7, <1>8

-----------------------------------------------------------------------------
\* What a walk over the list (h, n) from the link l has to fire.
DueFrom(h, n, l, at) == {t \in NodesOf(h, n, l) : Mature(t, at)}

\* next_due(): the walk goes to the first mature node and leaves the others
\* ahead of it, whether that node stays or goes.
TookPeriodic(from, n, te) ==
  /\ period[te] # 0
  /\ deadline' = [deadline EXCEPT ![te] = Wrap(@ + period[te])]
  /\ walk' = te
  /\ UNCHANGED <<head, next, period, armed>>
  /\ NodesOf(head, next, te) \subseteq NodesOf(head, next, from) \ {te}
  /\ DueFrom(head, next, te, n) = DueFrom(head, next, from, n) \ {te}

TookOneShot(from, n, te, S) ==
  /\ period[te] = 0
  /\ armed' = [armed EXCEPT ![te] = FALSE]
  /\ UNCHANGED <<deadline, period>>
  /\ next' \in Nexts /\ IsList(head', next', S \ {te})
  /\ walk' \in (S \ {te}) \cup {Head}
  /\ NodesOf(head', next', walk') \subseteq NodesOf(head, next, from) \ {te}
  /\ DueFrom(head', next', walk', n) = DueFrom(head, next, from, n) \ {te}

LEMMA NextDueFacts ==
  ASSUME next \in Nexts, NEW S, IsList(head, next, S), NEW from \in S \cup {Head}, NEW n,
         NextDue(from, n)
  PROVE  \/ /\ DueFrom(head, next, from, n) = {}
            /\ walk' = Null /\ due' = Null /\ now' = 0 /\ pc' = "idle"
            /\ UNCHANGED list
         \/ \E te \in DueFrom(head, next, from, n) :
              /\ te \in S
              /\ due' = te /\ now' = n /\ pc' = "fire"
              /\ TookPeriodic(from, n, te) \/ TookOneShot(from, n, te, S)
<1>1. PICK c, m :
        m \in Nat /\ IsChain(head, next, c, m) /\ S = {c[j] : j \in 1 .. m}
  BY DEF IsList, IsChain
<1>2. /\ \A i \in 1 .. m : c[i] \in Timer /\ c[i] # Null
      /\ \A i, k \in 0 .. m : c[i] = c[k] => i = k
      /\ \A i \in 0 .. m - 1 : Deref(head, next, c[i]) = c[i + 1]
      /\ Deref(head, next, c[m]) = Null
  <2>1. \A i \in 1 .. m : c[i] \in Timer BY <1>1, ChainFacts
  <2>. QED BY <1>1, <2>1, TimerAssumption DEF IsChain
<1>3. PICK f \in 0 .. m : from = c[f]
  <2>1. c[0] = Head /\ 0 \in 0 .. m /\ \A j \in 1 .. m : j \in 0 .. m BY <1>1 DEF IsChain
  <2>. QED BY <1>1, <2>1
<1>. DEFINE ahead == LinksFrom(head, next, from)
            stops == {l \in ahead : Deref(head, next, l) # Null /\ Mature(Deref(head, next, l), n)}
            first == CHOOSE l \in stops : stops \subseteq LinksFrom(head, next, l)
            te == Deref(head, next, first)
            cut == Store(first, next[te], head, next)
            D == DueFrom(head, next, from, n)
            I == {i \in f + 1 .. m : Mature(c[i], n)}
<1>4. \/ /\ stops = {}
         /\ walk' = Null /\ due' = Null /\ now' = 0 /\ pc' = "idle"
         /\ UNCHANGED list
      \/ /\ stops # {} /\ period[te] # 0
         /\ deadline' = [deadline EXCEPT ![te] = Wrap(@ + period[te])]
         /\ walk' = te /\ due' = te /\ now' = n /\ pc' = "fire"
         /\ UNCHANGED <<head, next, period, armed>>
      \/ /\ stops # {} /\ period[te] = 0
         /\ head' = cut[1]
         /\ next' = [cut[2] EXCEPT ![te] = Null]
         /\ armed' = [armed EXCEPT ![te] = FALSE]
         /\ walk' = first /\ due' = te /\ now' = n /\ pc' = "fire"
         /\ UNCHANGED <<deadline, period>>
  BY DEF NextDue
<1>5. \A w \in 0 .. m : LinksFrom(head, next, c[w]) = {c[j] : j \in w .. m}
  BY <1>1, LinksOfChain
<1>6. \A w \in 0 .. m : NodesOf(head, next, c[w]) = {c[i] : i \in w + 1 .. m}
  BY <1>1, NodesOfChain
<1>7. D = {c[i] : i \in I} BY <1>3, <1>6 DEF DueFrom
<1>8. stops = {c[i - 1] : i \in I}
  <2>1. ASSUME NEW i \in f .. m, Deref(head, next, c[i]) # Null,
               Mature(Deref(head, next, c[i]), n)
        PROVE  c[i] \in {c[j - 1] : j \in I}
    <3>1. i # m BY <1>2, <2>1
    <3>2. i \in 0 .. m - 1 /\ i + 1 \in f + 1 .. m /\ (i + 1) - 1 = i BY <1>1, <3>1
    <3>3. i + 1 \in I BY <1>2, <2>1, <3>2
    <3>. QED BY <3>2, <3>3
  <2>2. ASSUME NEW i \in I
        PROVE  /\ i - 1 \in f .. m
               /\ Deref(head, next, c[i - 1]) # Null /\ Mature(Deref(head, next, c[i - 1]), n)
    <3>1. /\ i - 1 \in f .. m /\ i - 1 \in 0 .. m - 1 /\ (i - 1) + 1 = i
          /\ i \in 1 .. m
      BY <1>1
    <3>2. Deref(head, next, c[i - 1]) = c[i] BY <1>2, <3>1
    <3>. QED BY <1>2, <3>1, <3>2
  <2>3. ahead = {c[j] : j \in f .. m} BY <1>3, <1>5
  <2>. HIDE DEF I, ahead
  <2>. QED BY <2>1, <2>2, <2>3
<1>. HIDE DEF stops, first, te, cut, D, ahead
<1>9. CASE I = {}
  <2>1. stops = {} /\ D = {} BY <1>7, <1>8, <1>9
  <2>. QED BY <1>4, <2>1 DEF D
<1>10. CASE I # {}
  <2>1. PICK k \in I : \A i \in I : k <= i
    <3>1. I \in SUBSET Nat BY <1>1
    <3>. QED BY <1>10, <3>1, LeastNatural
  <2>2. /\ k \in f + 1 .. m /\ Mature(c[k], n) /\ k \in 1 .. m /\ k \in 0 .. m
        /\ k - 1 \in 0 .. m - 1 /\ k - 1 \in 0 .. m /\ (k - 1) + 1 = k
    BY <1>1
  <2>3. c[k - 1] \in stops BY <1>8
  <2>4. first = c[k - 1]
    <3>1. stops \subseteq LinksFrom(head, next, c[k - 1])
      <4>1. \A i \in I : i - 1 \in k - 1 .. m
        <5>. TAKE i \in I
        <5>1. k <= i /\ i \in f + 1 .. m BY <2>1
        <5>. QED BY <1>1, <2>2, <5>1
      <4>. QED BY <1>5, <1>8, <2>2, <4>1
    <3>2. ASSUME NEW l \in stops, stops \subseteq LinksFrom(head, next, l)
          PROVE  l = c[k - 1]
      <4>1. PICK i \in I : l = c[i - 1] BY <1>8
      <4>2. i \in f + 1 .. m /\ k <= i /\ i - 1 \in 0 .. m BY <1>1, <2>1
      <4>3. c[k - 1] \in {c[j] : j \in i - 1 .. m} BY <1>5, <2>3, <3>2, <4>1, <4>2
      <4>4. PICK j \in i - 1 .. m : c[k - 1] = c[j] BY <4>3
      <4>5. j \in 0 .. m /\ i - 1 <= j BY <1>1, <4>2
      <4>6. k - 1 = j BY <1>2, <2>2, <4>4, <4>5
      <4>7. i = k BY <1>1, <2>2, <4>2, <4>5, <4>6
      <4>. QED BY <4>1, <4>7
    <3>. QED BY <2>3, <3>1, <3>2 DEF first
  <2>5. te = c[k] BY <1>2, <2>2, <2>4 DEF te
  <2>6. stops # {} /\ te \in D /\ te \in S /\ te \in Timer
    <3>1. te \in D BY <1>7, <2>1, <2>5
    <3>. QED BY <1>1, <1>2, <2>2, <2>3, <2>5, <3>1
\* The nodes passed over on the way are not mature.
  <2>7. {c[i] : i \in k + 1 .. m} \subseteq {c[i] : i \in f + 1 .. m} \ {te}
    <3>1. \A i \in k + 1 .. m : i \in f + 1 .. m /\ i \in 0 .. m /\ i # k BY <1>1, <2>2
    <3>2. \A i \in k + 1 .. m : c[i] # te BY <1>2, <2>2, <2>5, <3>1
    <3>. QED BY <3>1, <3>2
  <2>8. {t \in {c[i] : i \in k + 1 .. m} : Mature(t, n)} = D \ {te}
    <3>1. \A i \in I : i = k \/ i \in k + 1 .. m
      <4>. TAKE i \in I
      <4>1. k <= i /\ i \in f + 1 .. m BY <2>1
      <4>. QED BY <1>1, <2>2, <4>1
    <3>2. \A i \in k + 1 .. m : Mature(c[i], n) => i \in I BY <1>1, <2>2
    <3>3. \A i \in I : Mature(c[i], n) OBVIOUS
    <3>. HIDE DEF I
    <3>. QED BY <1>7, <2>5, <2>7, <3>1, <3>2, <3>3
  <2>9. CASE period[te] # 0
    <3>1. /\ deadline' = [deadline EXCEPT ![te] = Wrap(@ + period[te])]
          /\ walk' = te /\ due' = te /\ now' = n /\ pc' = "fire"
          /\ UNCHANGED <<head, next, period, armed>>
      BY <1>4, <2>6, <2>9
    <3>2. NodesOf(head, next, te) = {c[i] : i \in k + 1 .. m} BY <1>6, <2>2, <2>5
    <3>3. NodesOf(head, next, te) \subseteq NodesOf(head, next, from) \ {te}
      BY <1>3, <1>6, <2>7, <3>2
    <3>4. DueFrom(head, next, te, n) = DueFrom(head, next, from, n) \ {te}
      BY <2>8, <3>2 DEF DueFrom, D
    <3>5. TookPeriodic(from, n, te) BY <2>9, <3>1, <3>3, <3>4 DEF TookPeriodic
    <3>. QED BY <2>6, <3>1, <3>5 DEF D
  <2>10. CASE period[te] = 0
    <3>1. /\ head' = cut[1] /\ next' = [cut[2] EXCEPT ![te] = Null]
          /\ armed' = [armed EXCEPT ![te] = FALSE]
          /\ walk' = first /\ due' = te /\ now' = n /\ pc' = "fire"
          /\ UNCHANGED <<deadline, period>>
      BY <1>4, <2>6, <2>10
    <3>2. /\ head' = CutHead(head, next, c[k - 1], c[k])
          /\ next' = CutNext(head, next, c[k - 1], c[k])
      BY <2>4, <2>5, <3>1 DEF cut, CutHead, CutNext
    <3>3. IsChain(head, next, c, m) BY <1>1
    <3>4. CutNext(head, next, c[k - 1], c[k]) \in Nexts BY <2>2, <3>3, CutList
    <3>5. IsList(CutHead(head, next, c[k - 1], c[k]), CutNext(head, next, c[k - 1], c[k]),
                 After(c, 0, m) \ {c[k]})
      BY <2>2, <3>3, CutList
    <3>6. SeenWithout(CutHead(head, next, c[k - 1], c[k]), CutNext(head, next, c[k - 1], c[k]),
                      c, m, k)
      BY <2>2, <3>3, CutList
    <3>7. next' \in Nexts BY <3>2, <3>4
    <3>8. IsList(head', next', S \ {te})
      <4>1. After(c, 0, m) = S BY <1>1 DEF After
      <4>. QED BY <2>5, <3>2, <3>5, <4>1
    <3>9. NodesOf(head', next', c[k - 1]) = {c[i] : i \in k + 1 .. m}
      <4>1. SeenWithout(head', next', c, m, k) BY <3>2, <3>6
      <4>. QED BY <4>1 DEF SeenWithout, After
    <3>10. walk' = c[k - 1] BY <2>4, <3>1
    <3>11. walk' \in (S \ {te}) \cup {Head}
      <4>1. k - 1 = 0 \/ k - 1 \in 1 .. m BY <1>1, <2>2
      <4>2. c[0] = Head BY <1>1 DEF IsChain
      <4>3. k - 1 # k BY <2>2
      <4>4. c[k - 1] # c[k] BY <1>2, <2>2, <4>3
      <4>. QED BY <1>1, <2>5, <3>10, <4>1, <4>2, <4>4
    <3>12. NodesOf(head', next', walk') \subseteq NodesOf(head, next, from) \ {te}
      BY <1>3, <1>6, <2>7, <3>9, <3>10
    <3>13. DueFrom(head', next', walk', n) = DueFrom(head, next, from, n) \ {te}
      BY <2>8, <3>9, <3>10 DEF DueFrom, D
    <3>14. TookOneShot(from, n, te, S)
      BY <2>10, <3>1, <3>7, <3>8, <3>11, <3>12, <3>13 DEF TookOneShot
    <3>. QED BY <2>6, <3>1, <3>14 DEF D
  <2>. QED BY <2>9, <2>10
<1>. QED BY <1>9, <1>10

-----------------------------------------------------------------------------
\* What the timers' users see: the ticks each has left, its period, the
\* timers the turn has yet to fire.
Left(t) == Signed(deadline[t] - clock)
LeftOf == [t \in Listed |-> Left(t)]
EveryOf == [t \in Listed |-> period[t]]
Todo == IF pc = "idle" THEN {} ELSE DueFrom(head, next, walk, now)

\* The list is the armed timers, each once, and the walk, when there is one,
\* stands on a link of it.
ListInv ==
  /\ IsList(head, next, Listed)
  /\ pc = "idle" => walk = Null
  /\ pc # "idle" => walk \in Listed \cup {Head}
  /\ pc = "fire" => due \in Timer

\* No deadline is half the range behind the clock, and one that the turn has
\* yet to fire, mature when the turn looked, has been since: only then is a
\* signed difference the time really left, whichever of the two is later.
TimeInv ==
  /\ \A t \in Listed : Left(t) >= -MaxLate
  /\ \A t \in Todo : Left(t) <= 0

IInv == TypeOK /\ ListInv /\ TimeInv

LEMMA LeftType ==
  ASSUME TypeOK, NEW t \in Timer
  PROVE  /\ Left(t) \in -Half .. Half - 1 /\ Half \in Nat \ {0} /\ Span = 2 * Half
         /\ MaxLate \in 0 .. Half - 1
         /\ deadline[t] \in Int /\ clock \in Int /\ now \in Int /\ period[t] \in 0 .. Half - 1
<1>1. Half \in Nat \ {0} /\ Span = 2 * Half /\ Span \in Nat BY HalfAssumption DEF Span
<1>2. deadline[t] \in Int /\ clock \in Int /\ now \in Int BY <1>1 DEF TypeOK
<1>3. period[t] \in 0 .. Half - 1
  <2>1. period[t] \in Periods \cup {0} BY DEF TypeOK
  <2>2. 0 \in 0 .. Half - 1 /\ Periods \subseteq 0 .. Half - 1 BY <1>1, DelayAssumption
  <2>. HIDE DEF TypeOK
  <2>. QED BY <2>1, <2>2, Zenon
<1>4. deadline[t] - clock \in Int BY <1>2
<1>. QED BY <1>1, <1>2, <1>3, <1>4, SignedFacts, LateAssumption DEF Left

LEMMA TodoListed == ASSUME ListInv PROVE Todo \in SUBSET Listed
<1>1. CASE pc = "idle" BY <1>1 DEF Todo
<1>2. CASE pc # "idle"
  <2>1. NodesOf(head, next, walk) \in SUBSET (Listed \ {walk})
    BY <1>2, ListFacts DEF ListInv
  <2>. QED BY <1>2, <2>1 DEF Todo, DueFrom
<1>. QED BY <1>1, <1>2

\* Mature now is nothing left: the question asked either way round.
LEMMA MatureNow ==
  ASSUME IInv, NEW t \in Listed
  PROVE  Mature(t, clock) <=> Left(t) <= 0
<1>1. t \in Timer BY DEF Listed
<1>2. /\ Left(t) \in -Half .. Half - 1 /\ Half \in Nat \ {0}
      /\ MaxLate \in 0 .. Half - 1 /\ deadline[t] \in Int /\ clock \in Int
  BY <1>1, LeftType DEF IInv
<1>3. Left(t) >= -MaxLate BY DEF IInv, TimeInv
<1>4. Left(t) # -Half /\ Left(t) \in Int BY <1>2, <1>3
<1>5. deadline[t] - clock \in Int /\ clock - deadline[t] = -(deadline[t] - clock) BY <1>2
<1>6. Signed(clock - deadline[t]) = -Left(t)
  <2>1. Signed(-(deadline[t] - clock)) = -Signed(deadline[t] - clock)
    BY <1>4, <1>5, SignedOpposite DEF Left
  <2>. QED BY <1>5, <2>1 DEF Left
<1>. QED BY <1>4, <1>6 DEF Mature

\* The distance of a deadline set from another by less than half the range.
LEMMA LeftShift ==
  ASSUME TypeOK, NEW a \in Int, NEW k \in Int, Signed(a - clock) + k \in -Half .. Half - 1
  PROVE  Signed(Wrap(a + k) - clock) = Signed(a - clock) + k
<1>1. clock \in Int BY HalfAssumption DEF TypeOK, Span
<1>2. a + k \in Int /\ a - clock \in Int /\ (a + k) - clock = (a - clock) + k BY <1>1
<1>3. Signed(Wrap(a + k) - clock) = Signed((a + k) - clock) BY <1>1, <1>2, SignedOfWrap
<1>4. Signed((a - clock) + k) = Signed(a - clock) + k BY <1>2, SignedShift
<1>. QED BY <1>2, <1>3, <1>4

LEMMA InitIInv == Init => IInv
<1>. SUFFICES ASSUME Init PROVE IInv OBVIOUS
<1>1. TypeOK
  BY HalfAssumption DEF Init, TypeOK, Span, Link
<1>2. Listed = {} BY DEF Init, Listed
<1>3. IsList(head, next, Listed)
  <2>. DEFINE c == [i \in 0 .. 0 |-> Head]
  <2>1. IsChain(head, next, c, 0) BY DEF Init, IsChain, Link, Deref
  <2>2. {c[j] : j \in 1 .. 0} = {} OBVIOUS
  <2>. HIDE DEF c
  <2>. QED BY <1>2, <2>1, <2>2, ChainIsList
<1>4. Todo = {} BY DEF Init, Todo
<1>. QED BY <1>1, <1>2, <1>3, <1>4 DEF IInv, ListInv, TimeInv, Init

\* arm(): the new node is at the head, its walk, if any, behind it.
LEMMA ArmFacts ==
  ASSUME IInv, NEW te \in Timer, NEW d \in Delays, NEW p \in Periods, Arm(te, d, p)
  PROVE  /\ IInv' /\ Listed' = Listed \cup {te} /\ Todo' = Todo \ {te}
         /\ LeftOf' = [t \in Listed \cup {te} |-> IF t = te THEN d ELSE LeftOf[t]]
         /\ EveryOf' = [t \in Listed \cup {te} |-> IF t = te THEN p ELSE EveryOf[t]]
<1>. USE DEF IInv
<1>. DEFINE u1 == Unlink(te)[1]
            u2 == Unlink(te)[2]
            u3 == Unlink(te)[3]
            R == Listed \ {te}
<1>1. /\ next' = [u2 EXCEPT ![te] = u1] /\ walk' = IF u3 = Head THEN te ELSE u3
      /\ head' = te
      /\ deadline' = [deadline EXCEPT ![te] = Wrap(clock + d)]
      /\ period' = [period EXCEPT ![te] = p]
      /\ armed' = [armed EXCEPT ![te] = TRUE]
      /\ UNCHANGED <<clock, now, due, pc, preempt>> /\ pc # "fire"
  BY DEF Arm, MayTouch
<1>2. next \in Nexts BY DEF TypeOK, Nexts
<1>3. IsList(head, next, Listed) BY DEF ListInv
<1>4. /\ u2 \in Nexts /\ IsList(u1, u2, R)
      /\ walk = Null => u3 = Null
      /\ walk \in Listed \cup {Head} =>
           /\ u3 \in R \cup {Head}
           /\ NodesOf(u1, u2, u3) = NodesOf(head, next, walk) \ {te}
  <2>. HIDE DEF IInv
  <2>. QED BY <1>2, <1>3, UnlinkFacts
<1>. HIDE DEF u1, u2, u3
<1>5. te \notin R /\ Listed \subseteq Timer BY DEF Listed
<1>. HIDE DEF R
<1>6. u1 \in Timer \cup {Null} /\ NodesOf(u1, u2, Head) = R /\ Head \notin R
  BY <1>4, ListFacts, TimerAssumption
<1>7. /\ next' \in Nexts /\ IsList(head', next', R \cup {te})
      /\ NodesOf(head', next', te) = R
      /\ \A l \in R : NodesOf(head', next', l) = NodesOf(u1, u2, l)
  <2>. HIDE DEF IInv
  <2>1. te \in Timer \ R BY <1>5
  <2>2. [u2 EXCEPT ![te] = u1] \in Nexts BY <1>4, <1>6, <2>1, AheadList
  <2>3. IsList(te, [u2 EXCEPT ![te] = u1], R \cup {te}) BY <1>4, <1>6, <2>1, AheadList
  <2>4. SeenAhead(te, [u2 EXCEPT ![te] = u1], u1, u2, R, te) BY <1>4, <1>6, <2>1, AheadList
  <2>5. SeenAhead(head', next', u1, u2, R, te) BY <1>1, <2>4
  <2>. QED BY <1>1, <2>2, <2>3, <2>5 DEF SeenAhead
<1>8. Listed' = Listed \cup {te} /\ R \cup {te} = Listed \cup {te} BY <1>1 DEF TypeOK, Listed, R
<1>9. ASSUME pc # "idle"
      PROVE  walk' \in Listed' /\ NodesOf(head', next', walk') = NodesOf(head, next, walk) \ {te}
  <2>1. walk \in Listed \cup {Head} BY <1>9 DEF ListInv
  <2>. QED BY <1>1, <1>4, <1>6, <1>7, <1>8, <2>1 DEF R
<1>10. pc = "idle" => walk' = Null
  <2>1. Head # Null BY TimerAssumption
  <2>. QED BY <1>1, <1>4, <2>1 DEF ListInv
<1>11. ListInv'
  BY <1>1, <1>7, <1>8, <1>9, <1>10 DEF ListInv
<1>12. d \in 0 .. Half - 1 /\ p \in 0 .. Half - 1 /\ clock \in Int /\ Half \in Nat \ {0}
  BY DelayAssumption, LeftType
<1>13. /\ deadline'[te] = Wrap(clock + d) /\ \A t \in Timer \ {te} : deadline'[t] = deadline[t]
       /\ period'[te] = p /\ \A t \in Timer \ {te} : period'[t] = period[t]
  BY <1>1 DEF TypeOK
<1>14. Left(te)' = d
  <2>1. clock - clock = 0 /\ 0 = 0 + 0 * Span /\ 0 \in -Half .. Half - 1
    BY <1>12 DEF Span
  <2>2. Signed(clock - clock) = 0 BY <2>1, SignedIs
  <2>3. d \in Int /\ Signed(clock - clock) + d \in -Half .. Half - 1 BY <1>12, <2>2
  <2>4. Signed(Wrap(clock + d) - clock) = 0 + d BY <1>12, <2>2, <2>3, LeftShift
  <2>. QED BY <1>1, <1>12, <1>13, <2>4 DEF Left
<1>15. \A t \in Timer \ {te} : Left(t)' = Left(t) /\ (Mature(t, now)' <=> Mature(t, now))
  BY <1>1, <1>13 DEF Left, Mature
<1>16. Todo' = Todo \ {te}
  <2>1. CASE pc = "idle" BY <1>1, <2>1 DEF Todo
  <2>2. CASE pc # "idle"
    <3>1. NodesOf(head, next, walk) \in SUBSET Timer
      BY <1>3, <1>5, <2>2, ListFacts DEF ListInv
    <3>2. \A t \in NodesOf(head, next, walk) \ {te} : Mature(t, now)' <=> Mature(t, now)
      BY <1>15, <3>1
    <3>. QED BY <1>1, <1>9, <2>2, <3>2 DEF Todo, DueFrom
  <2>. QED BY <2>1, <2>2
<1>17. TimeInv'
  <2>1. Left(te)' >= -MaxLate BY <1>12, <1>14, LateAssumption
  <2>2. \A t \in Listed' : Left(t)' >= -MaxLate
    BY <1>5, <1>8, <1>15, <2>1 DEF TimeInv
  <2>3. Todo \in SUBSET Listed BY TodoListed
  <2>4. \A t \in Todo' : Left(t)' <= 0 BY <1>5, <1>15, <1>16, <2>3 DEF TimeInv
  <2>. QED BY <2>2, <2>4 DEF TimeInv
<1>18. TypeOK'
  <2>1. Wrap(clock + d) \in 0 .. Span - 1
    <3>1. clock + d \in Int BY <1>12
    <3>. QED BY <3>1, WrapFacts
  <2>2. /\ deadline' \in [Timer -> 0 .. Span - 1] /\ period' \in [Timer -> Periods \cup {0}]
        /\ armed' \in [Timer -> BOOLEAN]
    BY <1>1, <2>1 DEF TypeOK
  <2>3. next' \in [Timer -> Timer \cup {Null}] BY <1>7 DEF Nexts
  <2>4. walk' \in Link \cup {Null} BY <1>5, <1>8, <1>9, <1>10 DEF Link
  <2>. QED BY <1>1, <2>2, <2>3, <2>4 DEF TypeOK
<1>19. LeftOf' = [t \in Listed \cup {te} |-> IF t = te THEN d ELSE LeftOf[t]]
  <2>1. \A t \in Listed : LeftOf[t] = Left(t) BY DEF LeftOf
  <2>2. LeftOf' = [t \in Listed' |-> Left(t)'] BY DEF LeftOf
  <2>3. \A t \in Listed \cup {te} : Left(t)' = IF t = te THEN d ELSE LeftOf[t]
    BY <1>5, <1>14, <1>15, <2>1
  <2>. QED BY <1>8, <2>2, <2>3
<1>20. EveryOf' = [t \in Listed \cup {te} |-> IF t = te THEN p ELSE EveryOf[t]]
  <2>1. \A t \in Listed : EveryOf[t] = period[t] BY DEF EveryOf
  <2>2. EveryOf' = [t \in Listed' |-> period'[t]] BY DEF EveryOf
  <2>3. \A t \in Listed \cup {te} : period'[t] = IF t = te THEN p ELSE EveryOf[t]
    BY <1>5, <1>13, <2>1
  <2>. QED BY <1>8, <2>2, <2>3
<1>. QED BY <1>8, <1>11, <1>16, <1>17, <1>18, <1>19, <1>20

\* disarm(): the node is out, and not one other behind a walk it carried.
LEMMA DisarmFacts ==
  ASSUME IInv, NEW te \in Timer, Disarm(te)
  PROVE  /\ IInv' /\ Listed' = Listed \ {te} /\ Todo' = Todo \ {te}
         /\ LeftOf' = [t \in Listed \ {te} |-> LeftOf[t]]
         /\ EveryOf' = [t \in Listed \ {te} |-> EveryOf[t]]
<1>. USE DEF IInv
<1>. DEFINE u1 == Unlink(te)[1]
            u2 == Unlink(te)[2]
            u3 == Unlink(te)[3]
<1>1. /\ head' = u1 /\ next' = u2 /\ walk' = u3
      /\ armed' = [armed EXCEPT ![te] = FALSE]
      /\ UNCHANGED <<deadline, period, clock, now, due, pc, preempt>>
  BY DEF Disarm
<1>2. next \in Nexts BY DEF TypeOK, Nexts
<1>3. IsList(head, next, Listed) BY DEF ListInv
<1>4. /\ u2 \in Nexts /\ IsList(u1, u2, Listed \ {te})
      /\ walk = Null => u3 = Null
      /\ walk \in Listed \cup {Head} =>
           /\ u3 \in (Listed \ {te}) \cup {Head}
           /\ NodesOf(u1, u2, u3) = NodesOf(head, next, walk) \ {te}
  <2>. HIDE DEF IInv
  <2>. QED BY <1>2, <1>3, UnlinkFacts
<1>. HIDE DEF u1, u2, u3
<1>5. Listed' = Listed \ {te} /\ Listed \subseteq Timer BY <1>1 DEF TypeOK, Listed
<1>6. head' \in Timer \cup {Null} BY <1>1, <1>4, ListFacts
<1>7. \A t : Left(t)' = Left(t) /\ (Mature(t, now)' <=> Mature(t, now))
  BY <1>1 DEF Left, Mature
<1>8. Todo' = Todo \ {te}
  <2>1. CASE pc = "idle" BY <1>1, <2>1 DEF Todo
  <2>2. CASE pc # "idle"
    <3>1. walk \in Listed \cup {Head} BY <2>2 DEF ListInv
    <3>. QED BY <1>1, <1>4, <1>7, <2>2, <3>1 DEF Todo, DueFrom
  <2>. QED BY <2>1, <2>2
<1>9. ListInv' BY <1>1, <1>4, <1>5 DEF ListInv
<1>10. TimeInv'
  <2>1. \A t \in Listed' : Left(t)' >= -MaxLate BY <1>5, <1>7 DEF TimeInv
  <2>2. \A t \in Todo' : Left(t)' <= 0 BY <1>7, <1>8 DEF TimeInv
  <2>. QED BY <2>1, <2>2 DEF TimeInv
<1>11. TypeOK'
  <2>1. armed' \in [Timer -> BOOLEAN] BY <1>1 DEF TypeOK
  <2>2. next' \in [Timer -> Timer \cup {Null}] BY <1>1, <1>4 DEF Nexts
  <2>3. walk' \in Link \cup {Null} BY <1>5, <1>9, <1>1 DEF ListInv, Link
  <2>. QED BY <1>1, <1>6, <2>1, <2>2, <2>3 DEF TypeOK
<1>12. LeftOf' = [t \in Listed \ {te} |-> LeftOf[t]]
  <2>1. LeftOf' = [t \in Listed' |-> Left(t)'] BY DEF LeftOf
  <2>2. \A t \in Listed \ {te} : Left(t)' = LeftOf[t] BY <1>7 DEF LeftOf
  <2>. QED BY <1>5, <2>1, <2>2
<1>13. EveryOf' = [t \in Listed \ {te} |-> EveryOf[t]]
  <2>1. EveryOf' = [t \in Listed' |-> period[t]] BY <1>1 DEF EveryOf
  <2>2. \A t \in Listed \ {te} : period[t] = EveryOf[t] BY DEF EveryOf
  <2>. QED BY <1>5, <2>1, <2>2
<1>. QED BY <1>5, <1>8, <1>9, <1>10, <1>11, <1>12, <1>13

\* clear_all(): nothing is armed.
LEMMA ClearAllFacts ==
  ASSUME IInv, ClearAll
  PROVE  IInv' /\ Listed' = {} /\ Todo' = {}
<1>. USE DEF IInv
<1>1. /\ pc = "idle" /\ head' = Null
      /\ next' = [t \in Timer |-> IF t \in NodesFrom(Head) THEN Null ELSE next[t]]
      /\ armed' = [t \in Timer |-> armed[t] /\ t \notin NodesFrom(Head)]
      /\ UNCHANGED <<deadline, period, walk, clock, now, due, pc, preempt>>
  BY DEF ClearAll
<1>2. NodesFrom(Head) = Listed
  <2>1. NodesOf(head, next, Head) = Listed BY ListFacts DEF ListInv
  <2>. QED BY <2>1 DEF NodesOf, NodesFrom
<1>3. Listed' = {} BY <1>1, <1>2 DEF Listed
<1>4. IsList(head', next', {})
  <2>. DEFINE c == [i \in 0 .. 0 |-> Head]
  <2>1. IsChain(head', next', c, 0) BY <1>1 DEF IsChain, Link, Deref
  <2>2. {c[j] : j \in 1 .. 0} = {} OBVIOUS
  <2>. HIDE DEF c
  <2>. QED BY <2>1, <2>2, ChainIsList
<1>5. Todo' = {} BY <1>1 DEF Todo
<1>6. ListInv' BY <1>1, <1>3, <1>4 DEF ListInv
<1>7. TimeInv' BY <1>3, <1>5 DEF TimeInv
<1>8. TypeOK'
  <2>1. next' \in [Timer -> Timer \cup {Null}] BY <1>1 DEF TypeOK
  <2>2. armed' \in [Timer -> BOOLEAN]
    <3>1. \A t \in Timer : (armed[t] /\ t \notin NodesFrom(Head)) \in BOOLEAN OBVIOUS
    <3>. QED BY <1>1, <3>1
  <2>. QED BY <1>1, <2>1, <2>2 DEF TypeOK
<1>. QED BY <1>3, <1>5, <1>6, <1>7, <1>8

\* A tick: one less left of each.
LEMMA TickFacts ==
  ASSUME IInv, Tick
  PROVE  /\ IInv' /\ Listed' = Listed /\ Todo' = Todo
         /\ LeftOf' = [t \in Listed |-> LeftOf[t] - 1]
<1>. USE DEF IInv
<1>1. /\ clock' = Wrap(clock + 1) /\ UNCHANGED <<list, walk, now, due, pc, preempt>>
      /\ \A t \in Listed : Left(t) > -MaxLate
  BY DEF Tick, Listed, Left
<1>2. UNCHANGED <<head, next, deadline, period, armed>> BY <1>1 DEF list
<1>3. Listed' = Listed /\ Todo' = Todo
  BY <1>1, <1>2 DEF Listed, Todo, DueFrom, Mature
<1>4. Span \in Nat \ {0} /\ clock \in Int BY HalfAssumption DEF TypeOK, Span
<1>5. ASSUME NEW t \in Listed PROVE Left(t)' = Left(t) - 1 /\ Left(t) \in Int
  <2>1. t \in Timer BY DEF Listed
  <2>2. /\ Left(t) \in -Half .. Half - 1 /\ Half \in Nat \ {0}
        /\ MaxLate \in 0 .. Half - 1 /\ deadline[t] \in Int
    BY <2>1, LeftType
  <2>3. Left(t) - 1 \in -Half .. Half - 1 /\ Left(t) \in Int BY <1>1, <2>2
  <2>. DEFINE a == deadline[t] - clock
  <2>4. a \in Int /\ clock + 1 \in Int /\ deadline[t] - (clock + 1) = a + (-1) BY <1>4, <2>2
  <2>5. Left(t)' = Signed(deadline[t] - Wrap(clock + 1)) BY <1>1, <1>2 DEF Left
  <2>6. Signed(deadline[t] - Wrap(clock + 1)) = Signed(deadline[t] - (clock + 1))
    BY <2>2, <2>4, SignedOfWrap
  <2>. HIDE DEF a
  <2>7. Signed(a) = Left(t) BY DEF a, Left
  <2>8. Signed(a) + (-1) \in -Half .. Half - 1 BY <2>3, <2>7
  <2>9. Signed(a + (-1)) = Signed(a) + (-1) BY <2>4, <2>8, SignedShift
  <2>. QED BY <2>3, <2>4, <2>5, <2>6, <2>7, <2>9
<1>6. TimeInv'
  <2>1. MaxLate \in Int BY LateAssumption, HalfAssumption
  <2>2. \A t \in Listed' : Left(t)' >= -MaxLate BY <1>1, <1>3, <1>5, <2>1
  <2>3. Todo \in SUBSET Listed BY TodoListed
  <2>4. \A t \in Todo' : Left(t)' <= 0 BY <1>3, <1>5, <2>3 DEF TimeInv
  <2>. QED BY <2>2, <2>4 DEF TimeInv
<1>7. TypeOK'
  <2>1. clock' \in 0 .. Span - 1
    <3>1. clock + 1 \in Int BY <1>4
    <3>. QED BY <1>1, <3>1, WrapFacts
  <2>. QED BY <1>1, <1>2, <2>1 DEF TypeOK
<1>8. ListInv' BY <1>1, <1>2, <1>3 DEF ListInv
<1>9. LeftOf' = [t \in Listed |-> LeftOf[t] - 1]
  <2>1. LeftOf' = [t \in Listed' |-> Left(t)'] BY DEF LeftOf
  <2>2. \A t \in Listed : Left(t)' = LeftOf[t] - 1 BY <1>5 DEF LeftOf
  <2>. QED BY <1>3, <2>1, <2>2
<1>. QED BY <1>3, <1>6, <1>7, <1>8, <1>9

\* One visit of next_due(), as the timers' users see it: nothing of D was
\* left to fire and the turn is over, or one of D is about to fire.
Visited(D) ==
  \/ /\ D = {} /\ pc' = "idle" /\ Todo' = {}
     /\ LeftOf' = LeftOf /\ EveryOf' = EveryOf
  \/ \E te \in D :
       /\ pc' = "fire" /\ due' = te /\ Todo' = D \ {te} /\ te \in Listed
       /\ \/ /\ EveryOf[te] # 0 /\ EveryOf' = EveryOf
             /\ LeftOf' = [LeftOf EXCEPT ![te] = @ + EveryOf[te]]
          \/ /\ EveryOf[te] = 0
             /\ LeftOf' = [t \in Listed \ {te} |-> LeftOf[t]]
             /\ EveryOf' = [t \in Listed \ {te} |-> EveryOf[t]]

LEMMA PeriodicFacts ==
  ASSUME IInv, NEW from \in Listed \cup {Head}, NEW n \in 0 .. Span - 1,
         \A t \in DueFrom(head, next, from, n) : Left(t) <= 0,
         UNCHANGED <<clock, preempt>>,
         NEW te \in DueFrom(head, next, from, n), te \in Listed,
         due' = te, now' = n, pc' = "fire", TookPeriodic(from, n, te)
  PROVE  IInv' /\ Visited(DueFrom(head, next, from, n))
<1>. USE DEF IInv
<1>. DEFINE D == DueFrom(head, next, from, n)
<1>1. /\ period[te] # 0
      /\ deadline' = [deadline EXCEPT ![te] = Wrap(deadline[te] + period[te])]
      /\ walk' = te
      /\ UNCHANGED <<head, next, period, armed>>
      /\ NodesOf(head, next, te) \subseteq NodesOf(head, next, from) \ {te}
      /\ DueFrom(head, next, te, n) = D \ {te}
  BY DEF TookPeriodic
<1>2. Listed' = Listed /\ te \in Timer /\ Listed \subseteq Timer BY <1>1 DEF Listed
<1>3. IsList(head, next, Listed) BY DEF ListInv
<1>4. NodesOf(head, next, from) \in SUBSET Listed BY <1>3, ListFacts
<1>5. /\ Left(te) \in -Half .. Half - 1 /\ Half \in Nat \ {0} /\ MaxLate \in 0 .. Half - 1
      /\ deadline[te] \in Int /\ clock \in Int /\ period[te] \in 0 .. Half - 1
  BY <1>2, LeftType
<1>6. Left(te) <= 0 /\ Left(te) >= -MaxLate BY DEF TimeInv
<1>7. deadline'[te] = Wrap(deadline[te] + period[te])
      /\ \A t \in Timer \ {te} : deadline'[t] = deadline[t]
  BY <1>1, <1>2 DEF TypeOK
<1>8. Left(te)' = Left(te) + period[te]
  <2>1. Left(te) + period[te] \in -Half .. Half - 1 /\ period[te] \in Int BY <1>5, <1>6
  <2>2. Signed(Wrap(deadline[te] + period[te]) - clock) = Left(te) + period[te]
    BY <1>5, <2>1, LeftShift DEF Left
  <2>. QED BY <1>7, <2>2 DEF Left
<1>9. \A t \in Timer \ {te} : Left(t)' = Left(t) /\ (Mature(t, n)' <=> Mature(t, n))
  BY <1>7 DEF Left, Mature
<1>10. Todo' = D \ {te}
  <2>1. Todo' = {t \in NodesOf(head, next, te) : Mature(t, n)'}
    BY <1>1 DEF Todo, DueFrom
  <2>2. \A t \in NodesOf(head, next, te) : t \in Timer \ {te} BY <1>1, <1>2, <1>4
  <2>. QED BY <1>1, <1>9, <2>1, <2>2 DEF DueFrom
<1>11. ListInv' BY <1>1, <1>2, <1>3 DEF ListInv
<1>12. TimeInv'
  <2>1. Left(te)' >= -MaxLate BY <1>5, <1>6, <1>8
  <2>2. \A t \in Listed' : Left(t)' >= -MaxLate BY <1>2, <1>9, <2>1 DEF TimeInv
  <2>3. D \in SUBSET Listed BY <1>4 DEF DueFrom
  <2>4. \A t \in Todo' : Left(t)' <= 0 BY <1>2, <1>9, <1>10, <2>3
  <2>. QED BY <2>2, <2>4 DEF TimeInv
<1>13. TypeOK'
  <2>1. Wrap(deadline[te] + period[te]) \in 0 .. Span - 1
    <3>1. deadline[te] + period[te] \in Int BY <1>5
    <3>. QED BY <3>1, WrapFacts
  <2>2. deadline' \in [Timer -> 0 .. Span - 1] BY <1>1, <2>1 DEF TypeOK
  <2>. QED BY <1>1, <1>2, <2>2 DEF TypeOK, Link
<1>14. EveryOf' = EveryOf /\ EveryOf[te] = period[te] BY <1>1, <1>2 DEF EveryOf
<1>15. LeftOf' = [LeftOf EXCEPT ![te] = @ + EveryOf[te]]
  <2>1. LeftOf' = [t \in Listed' |-> Left(t)'] BY DEF LeftOf
  <2>2. \A t \in Listed : Left(t)' = IF t = te THEN LeftOf[te] + EveryOf[te] ELSE LeftOf[t]
    BY <1>2, <1>8, <1>9, <1>14 DEF LeftOf
  <2>3. DOMAIN LeftOf = Listed BY DEF LeftOf
  <2>4. [LeftOf EXCEPT ![te] = @ + EveryOf[te]] =
          [t \in Listed |-> IF t = te THEN LeftOf[te] + EveryOf[te] ELSE LeftOf[t]]
    BY <2>3 DEF LeftOf
  <2>. QED BY <1>2, <2>1, <2>2, <2>4
<1>16. Visited(D) BY <1>1, <1>10, <1>14, <1>15 DEF Visited
<1>. QED BY <1>11, <1>12, <1>13, <1>16

LEMMA OneShotFacts ==
  ASSUME IInv, NEW from \in Listed \cup {Head}, NEW n \in 0 .. Span - 1,
         \A t \in DueFrom(head, next, from, n) : Left(t) <= 0,
         UNCHANGED <<clock, preempt>>,
         NEW te \in DueFrom(head, next, from, n), te \in Listed,
         due' = te, now' = n, pc' = "fire", TookOneShot(from, n, te, Listed)
  PROVE  IInv' /\ Visited(DueFrom(head, next, from, n))
<1>. USE DEF IInv
<1>. DEFINE D == DueFrom(head, next, from, n)
<1>1. /\ period[te] = 0
      /\ armed' = [armed EXCEPT ![te] = FALSE]
      /\ UNCHANGED <<deadline, period>>
      /\ next' \in Nexts /\ IsList(head', next', Listed \ {te})
      /\ walk' \in (Listed \ {te}) \cup {Head}
      /\ DueFrom(head', next', walk', n) = D \ {te}
  BY DEF TookOneShot
<1>2. Listed' = Listed \ {te} /\ te \in Timer /\ Listed \subseteq Timer
  BY <1>1 DEF Listed, TypeOK
<1>3. \A t : Left(t)' = Left(t) /\ (Mature(t, n)' <=> Mature(t, n))
  BY <1>1 DEF Left, Mature
<1>4. Todo' = D \ {te} BY <1>1, <1>3 DEF Todo, DueFrom
<1>5. ListInv' BY <1>1, <1>2 DEF ListInv
<1>6. TimeInv'
  <2>1. \A t \in Listed' : Left(t)' >= -MaxLate BY <1>2, <1>3 DEF TimeInv
  <2>2. \A t \in Todo' : Left(t)' <= 0 BY <1>3, <1>4
  <2>. QED BY <2>1, <2>2 DEF TimeInv
<1>7. TypeOK'
  <2>1. head' \in Timer \cup {Null} BY <1>1, ListFacts
  <2>2. next' \in [Timer -> Timer \cup {Null}] BY <1>1 DEF Nexts
  <2>3. armed' \in [Timer -> BOOLEAN] BY <1>1 DEF TypeOK
  <2>4. walk' \in Link \cup {Null} BY <1>1, <1>2 DEF Link
  <2>. QED BY <1>1, <1>2, <2>1, <2>2, <2>3, <2>4 DEF TypeOK
<1>8. LeftOf' = [t \in Listed \ {te} |-> LeftOf[t]]
  <2>1. LeftOf' = [t \in Listed' |-> Left(t)'] BY DEF LeftOf
  <2>2. \A t \in Listed \ {te} : Left(t)' = LeftOf[t] BY <1>3 DEF LeftOf
  <2>. QED BY <1>2, <2>1, <2>2
<1>9. EveryOf' = [t \in Listed \ {te} |-> EveryOf[t]] /\ EveryOf[te] = 0
  <2>1. EveryOf' = [t \in Listed' |-> period[t]] BY <1>1 DEF EveryOf
  <2>2. \A t \in Listed : period[t] = EveryOf[t] BY DEF EveryOf
  <2>. QED BY <1>1, <1>2, <2>1, <2>2
<1>10. Visited(D) BY <1>4, <1>8, <1>9 DEF Visited
<1>. QED BY <1>5, <1>6, <1>7, <1>10

LEMMA NextDueSeen ==
  ASSUME IInv, NEW from \in Listed \cup {Head}, NEW n \in 0 .. Span - 1,
         \A t \in DueFrom(head, next, from, n) : Left(t) <= 0,
         NextDue(from, n), UNCHANGED <<clock, preempt>>
  PROVE  IInv' /\ Visited(DueFrom(head, next, from, n))
<1>. DEFINE D == DueFrom(head, next, from, n)
<1>1. next \in Nexts /\ IsList(head, next, Listed) BY DEF IInv, TypeOK, Nexts, ListInv
<1>2. \/ /\ D = {}
         /\ walk' = Null /\ due' = Null /\ now' = 0 /\ pc' = "idle"
         /\ UNCHANGED list
      \/ \E te \in D :
           /\ te \in Listed
           /\ due' = te /\ now' = n /\ pc' = "fire"
           /\ TookPeriodic(from, n, te) \/ TookOneShot(from, n, te, Listed)
  BY <1>1, NextDueFacts
<1>3. CASE /\ D = {}
           /\ walk' = Null /\ due' = Null /\ now' = 0 /\ pc' = "idle"
           /\ UNCHANGED list
  <2>. USE DEF IInv
  <2>1. UNCHANGED <<head, next, deadline, period, armed, clock, preempt>> BY <1>3 DEF list
  <2>2. Listed' = Listed /\ Todo' = {} /\ (\A t : Left(t)' = Left(t))
    BY <1>3, <2>1 DEF Listed, Todo, Left
  <2>3. ListInv' BY <1>3, <2>1, <2>2 DEF ListInv
  <2>4. TimeInv' BY <2>2 DEF TimeInv
  <2>5. TypeOK'
    <3>1. 0 \in 0 .. Span - 1 BY HalfAssumption DEF Span
    <3>. QED BY <1>3, <2>1, <3>1 DEF TypeOK
  <2>6. LeftOf' = LeftOf
    <3>1. LeftOf' = [t \in Listed' |-> Left(t)'] BY DEF LeftOf
    <3>. QED BY <2>2, <3>1 DEF LeftOf
  <2>7. EveryOf' = EveryOf BY <2>1, <2>2 DEF EveryOf
  <2>. QED BY <1>3, <2>2, <2>3, <2>4, <2>5, <2>6, <2>7 DEF Visited
<1>4. CASE \E te \in D :
             /\ te \in Listed
             /\ due' = te /\ now' = n /\ pc' = "fire"
             /\ TookPeriodic(from, n, te) \/ TookOneShot(from, n, te, Listed)
  <2>1. PICK te \in D :
             /\ te \in Listed
             /\ due' = te /\ now' = n /\ pc' = "fire"
             /\ TookPeriodic(from, n, te) \/ TookOneShot(from, n, te, Listed)
    BY <1>4
  <2>2. CASE TookPeriodic(from, n, te) BY <2>1, <2>2, PeriodicFacts
  <2>3. CASE TookOneShot(from, n, te, Listed) BY <2>1, <2>3, OneShotFacts
  <2>. QED BY <2>1, <2>2, <2>3
<1>. QED BY <1>2, <1>3, <1>4

\* A turn looks at what is due when it starts.
LEMMA DueNow ==
  ASSUME IInv
  PROVE  DueFrom(head, next, Head, clock) = {t \in Listed : Left(t) <= 0}
<1>1. NodesOf(head, next, Head) = Listed BY ListFacts DEF IInv, ListInv
<1>. QED BY <1>1, MatureNow DEF DueFrom

LEMMA StartFacts ==
  ASSUME IInv, ProcessStart
  PROVE  IInv' /\ Visited({t \in Listed : Left(t) <= 0}) /\ pc = "idle"
<1>1. pc = "idle" /\ NextDue(Head, clock) /\ UNCHANGED <<clock, preempt>> BY DEF ProcessStart
<1>2. clock \in 0 .. Span - 1 BY DEF IInv, TypeOK
<1>3. \A t \in DueFrom(head, next, Head, clock) : Left(t) <= 0 BY DueNow
<1>4. IInv' /\ Visited(DueFrom(head, next, Head, clock))
  <2>1. Head \in Listed \cup {Head} OBVIOUS
  <2>. QED BY <1>1, <1>2, <1>3, <2>1, NextDueSeen
<1>. QED BY <1>1, <1>4, DueNow

LEMMA ResumeFacts ==
  ASSUME IInv, ProcessNext
  PROVE  IInv' /\ Visited(Todo) /\ pc = "fired"
<1>1. pc = "fired" /\ NextDue(walk, now) /\ UNCHANGED <<clock, preempt>> BY DEF ProcessNext
<1>2. now \in 0 .. Span - 1 /\ walk \in Listed \cup {Head} BY <1>1 DEF IInv, TypeOK, ListInv
<1>3. Todo = DueFrom(head, next, walk, now) BY <1>1 DEF Todo
<1>4. \A t \in DueFrom(head, next, walk, now) : Left(t) <= 0 BY <1>3 DEF IInv, TimeInv
<1>5. IInv' /\ Visited(DueFrom(head, next, walk, now)) BY <1>1, <1>2, <1>4, NextDueSeen
<1>. QED BY <1>1, <1>3, <1>5

LEMMA FireFacts ==
  ASSUME IInv, Fire
  PROVE  /\ IInv' /\ UNCHANGED <<LeftOf, EveryOf, Todo>>
         /\ pc = "fire" /\ pc' = "fired" /\ due \in Timer
<1>1. /\ pc = "fire" /\ pc' = "fired" /\ due' = Null
      /\ UNCHANGED <<list, walk, clock, now, preempt>>
  BY DEF Fire
<1>2. UNCHANGED <<head, next, deadline, period, armed>> BY <1>1 DEF list
<1>3. Listed' = Listed /\ Todo' = Todo /\ LeftOf' = LeftOf /\ EveryOf' = EveryOf
  BY <1>1, <1>2 DEF Listed, Todo, DueFrom, Mature, LeftOf, EveryOf, Left
<1>4. TypeOK' BY <1>1, <1>2 DEF IInv, TypeOK
<1>5. ListInv' BY <1>1, <1>2, <1>3 DEF IInv, ListInv
<1>6. TimeInv' BY <1>1, <1>2, <1>3 DEF IInv, TimeInv, Left
<1>. QED BY <1>1, <1>3, <1>4, <1>5, <1>6 DEF IInv, ListInv

LEMMA NextKeeps == IInv /\ [Next]_vars => IInv'
<1>. SUFFICES ASSUME IInv, [Next]_vars PROVE IInv' OBVIOUS
<1>1. CASE Process BY <1>1, StartFacts, ResumeFacts, FireFacts DEF Process
<1>2. CASE Tick BY <1>2, TickFacts
<1>3. CASE ClearAll BY <1>3, ClearAllFacts
<1>4. ASSUME NEW te \in Timer, Disarm(te) PROVE IInv' BY <1>4, DisarmFacts
<1>5. ASSUME NEW te \in Timer, NEW d \in Delays, NEW p \in Periods, Arm(te, d, p) PROVE IInv'
  BY <1>5, ArmFacts
<1>6. CASE UNCHANGED vars
  <2>1. UNCHANGED <<head, next, deadline, period, armed, walk, clock, now, due, pc, preempt>>
    BY <1>6 DEF vars, list
  <2>2. Listed' = Listed /\ Todo' = Todo /\ (\A t : Left(t)' = Left(t))
    BY <2>1 DEF Listed, Todo, DueFrom, Mature, Left
  <2>3. TypeOK' BY <2>1 DEF IInv, TypeOK
  <2>4. ListInv' BY <2>1, <2>2 DEF IInv, ListInv
  <2>5. TimeInv' BY <2>2 DEF IInv, TimeInv
  <2>. QED BY <2>3, <2>4, <2>5 DEF IInv
<1>. QED BY <1>1, <1>2, <1>3, <1>4, <1>5, <1>6 DEF Next

\* The list and the times are always as the arithmetic and the walk need.
THEOREM IInvariant == Spec => []IInv
BY InitIInv, NextKeeps, PTL DEF Spec

\* The list is the armed timers, each once, and no arm, disarm or fire made
\* during a walk leaves the walk on a node that is out of it.
THEOREM ListIsAlwaysArmed == Spec => []ListIsArmed
<1>1. IInv => ListIsArmed
  <2>. SUFFICES ASSUME IInv PROVE ListIsArmed OBVIOUS
  <2>1. IsList(head, next, Listed) BY DEF IInv, ListInv
  <2>2. /\ IsFiniteSet(Listed) /\ LinksFrom(head, next, Head) = Listed \cup {Head}
        /\ NodesOf(head, next, Head) = Listed /\ Head \notin Listed
    BY <2>1, ListFacts, TimerAssumption
  <2>3. NodesFrom(Head) = Listed BY <2>2 DEF NodesFrom, NodesOf
  <2>4. Cardinality(Listed \cup {Head}) = Cardinality(Listed) + 1 BY <2>2, FS_AddElement
  <2>. QED BY <2>2, <2>3, <2>4 DEF IInv, ListInv, ListIsArmed, Listed
<1>. QED BY <1>1, IInvariant, PTL

-----------------------------------------------------------------------------
\* The promise's own variables, as the instance has them.
TodoThere == IF pc = "idle" THEN {} ELSE {t \in NodesFrom(walk) : Mature(t, now)}
Firing == IF pc = "fire" THEN due ELSE Null

LEMMA SameTodo == TodoThere = Todo /\ TodoThere' = Todo'
BY DEF TodoThere, Todo, DueFrom, NodesFrom, NodesOf

LEMMA Domains == DOMAIN LeftOf = Listed /\ DOMAIN EveryOf = Listed
BY DEF LeftOf, EveryOf

\* A visit of next_due() is one of the promise's.
LEMMA VisitIsSeen ==
  ASSUME NEW D, Visited(D)
  PROVE  Promise!Visit(D)
<1>1. CASE D = {} /\ pc' = "idle" /\ Todo' = {} /\ LeftOf' = LeftOf /\ EveryOf' = EveryOf
  <2>1. TodoThere' = {} BY <1>1, SameTodo
  <2>2. Firing' = Null BY <1>1 DEF Firing
  <2>3. (pc # "idle")' = FALSE BY <1>1
  <2>. QED BY <1>1, <2>1, <2>2, <2>3 DEF Promise!Visit, LeftOf, EveryOf, Left, TodoThere, Firing
<1>2. ASSUME NEW te \in D,
             pc' = "fire", due' = te, Todo' = D \ {te}, te \in Listed,
             \/ /\ EveryOf[te] # 0 /\ EveryOf' = EveryOf
                /\ LeftOf' = [LeftOf EXCEPT ![te] = @ + EveryOf[te]]
             \/ /\ EveryOf[te] = 0
                /\ LeftOf' = [t \in Listed \ {te} |-> LeftOf[t]]
                /\ EveryOf' = [t \in Listed \ {te} |-> EveryOf[t]]
      PROVE  Promise!Visit(D)
  <2>1. TodoThere' = D \ {te} BY <1>2, SameTodo
  <2>2. Firing' = te BY <1>2 DEF Firing
  <2>3. (pc # "idle")' = TRUE BY <1>2
  <2>4. Promise!Take(te)
    <3>1. CASE EveryOf[te] # 0
      <4>1. LeftOf' = [LeftOf EXCEPT ![te] = @ + EveryOf[te]] /\ EveryOf' = EveryOf
        BY <1>2, <3>1
      <4>. QED BY <3>1, <4>1 DEF Promise!Take, LeftOf, EveryOf, Left
    <3>2. CASE EveryOf[te] = 0
      <4>1. /\ LeftOf' = [t \in DOMAIN LeftOf \ {te} |-> LeftOf[t]]
            /\ EveryOf' = [t \in DOMAIN EveryOf \ {te} |-> EveryOf[t]]
        BY <1>2, <3>2, Domains
      <4>. QED BY <3>2, <4>1 DEF Promise!Take, Promise!Only, LeftOf, EveryOf, Left
    <3>. QED BY <3>1, <3>2
  <2>. QED BY <1>2, <2>1, <2>2, <2>3, <2>4 DEF Promise!Visit, TodoThere, Firing
<1>. QED BY <1>1, <1>2 DEF Visited

LEMMA InitIsSeen == Init => Promise!Init
<1>. SUFFICES ASSUME Init PROVE Promise!Init OBVIOUS
<1>1. Listed = {} /\ pc = "idle" BY DEF Init, Listed
<1>2. LeftOf = [t \in {} |-> 0] /\ EveryOf = [t \in {} |-> 0] BY <1>1 DEF LeftOf, EveryOf
<1>. QED BY <1>1, <1>2 DEF Promise!Init, LeftOf, EveryOf, Left

LEMMA ArmIsSeen ==
  ASSUME IInv, NEW te \in Timer, NEW d \in Delays, NEW p \in Periods, Arm(te, d, p)
  PROVE  Promise!Arm(te, d, p)
<1>1. /\ Todo' = Todo \ {te}
      /\ LeftOf' = [t \in DOMAIN LeftOf \cup {te} |-> IF t = te THEN d ELSE LeftOf[t]]
      /\ EveryOf' = [t \in DOMAIN EveryOf \cup {te} |-> IF t = te THEN p ELSE EveryOf[t]]
  BY ArmFacts, Domains
<1>2. pc # "fire" /\ pc' = pc BY DEF Arm, MayTouch
<1>3. Firing = Null /\ Firing' = Firing /\ (pc # "idle")' = (pc # "idle") BY <1>2 DEF Firing
<1>4. TodoThere' = TodoThere \ {te} BY <1>1, SameTodo
<1>. QED BY <1>1, <1>3, <1>4
     DEF Promise!Arm, Promise!With, LeftOf, EveryOf, Left, TodoThere, Firing

LEMMA DisarmIsSeen ==
  ASSUME IInv, NEW te \in Timer, Disarm(te)
  PROVE  Promise!Disarm(te)
<1>1. /\ Todo' = Todo \ {te}
      /\ LeftOf' = [t \in DOMAIN LeftOf \ {te} |-> LeftOf[t]]
      /\ EveryOf' = [t \in DOMAIN EveryOf \ {te} |-> EveryOf[t]]
  BY DisarmFacts, Domains
<1>2. pc # "fire" /\ pc' = pc BY DEF Disarm, MayTouch
<1>3. Firing = Null /\ Firing' = Firing /\ (pc # "idle")' = (pc # "idle") BY <1>2 DEF Firing
<1>4. TodoThere' = TodoThere \ {te} BY <1>1, SameTodo
<1>. QED BY <1>1, <1>3, <1>4
     DEF Promise!Disarm, Promise!Only, LeftOf, EveryOf, Left, TodoThere, Firing

LEMMA ClearAllIsSeen == ASSUME IInv, ClearAll PROVE Promise!ClearAll
<1>1. Listed' = {} /\ Todo' = {} BY ClearAllFacts
<1>2. pc = "idle" /\ pc' = "idle" BY DEF ClearAll
<1>3. LeftOf' = [t \in {} |-> LeftOf[t]] /\ EveryOf' = [t \in {} |-> EveryOf[t]]
  BY <1>1 DEF LeftOf, EveryOf
<1>4. TodoThere' = TodoThere BY <1>1, <1>2, SameTodo DEF Todo
<1>5. Firing' = Firing /\ (pc # "idle")' = (pc # "idle") BY <1>2 DEF Firing
<1>. QED BY <1>2, <1>3, <1>4, <1>5
     DEF Promise!ClearAll, Promise!Only, LeftOf, EveryOf, Left, TodoThere, Firing

LEMMA TickIsSeen == ASSUME IInv, Tick PROVE Promise!Tick
<1>1. Listed' = Listed /\ Todo' = Todo /\ LeftOf' = [t \in DOMAIN LeftOf |-> LeftOf[t] - 1]
  BY TickFacts, Domains
<1>2. UNCHANGED <<period, due, pc>> BY DEF Tick, list
<1>3. EveryOf' = EveryOf BY <1>1, <1>2 DEF EveryOf
<1>4. TodoThere' = TodoThere BY <1>1, SameTodo
<1>5. Firing' = Firing /\ (pc # "idle")' = (pc # "idle") BY <1>2 DEF Firing
<1>. QED BY <1>1, <1>3, <1>4, <1>5
     DEF Promise!Tick, LeftOf, EveryOf, Left, TodoThere, Firing

LEMMA FireIsSeen == ASSUME IInv, Fire PROVE Promise!Post
<1>1. /\ UNCHANGED <<LeftOf, EveryOf, Todo>> /\ pc = "fire" /\ pc' = "fired" /\ due \in Timer
  BY FireFacts
<1>2. Firing # Null /\ Firing' = Null BY <1>1, TimerAssumption DEF Firing
<1>3. (pc # "idle")' = (pc # "idle") BY <1>1
<1>4. TodoThere' = TodoThere BY <1>1, SameTodo
<1>. QED BY <1>1, <1>2, <1>3, <1>4
     DEF Promise!Post, LeftOf, EveryOf, Left, TodoThere, Firing

LEMMA StartIsSeen == ASSUME IInv, ProcessStart PROVE Promise!Turn
<1>1. Visited({t \in Listed : Left(t) <= 0}) /\ pc = "idle" BY StartFacts
<1>2. {t \in Listed : Left(t) <= 0} = {t \in DOMAIN LeftOf : LeftOf[t] <= 0}
  BY Domains DEF LeftOf
<1>3. ASSUME NEW D, D = {t \in DOMAIN LeftOf : LeftOf[t] <= 0} PROVE Promise!Visit(D)
  <2>1. Visited(D) BY <1>1, <1>2, <1>3
  <2>. QED BY <2>1, VisitIsSeen
<1>. QED BY <1>1, <1>3 DEF Promise!Turn, Promise!Visit, LeftOf, Left

LEMMA ResumeIsSeen == ASSUME IInv, ProcessNext PROVE Promise!Resume
<1>1. Visited(Todo) /\ pc = "fired" BY ResumeFacts
<1>2. ASSUME NEW D, D = TodoThere PROVE Promise!Visit(D)
  <2>1. Visited(D) BY <1>1, <1>2, SameTodo
  <2>. QED BY <2>1, VisitIsSeen
<1>3. Firing = Null BY <1>1 DEF Firing
<1>. QED BY <1>1, <1>2, <1>3 DEF Promise!Resume, Promise!Visit, TodoThere, Firing

LEMMA NextIsSeen == IInv /\ [Next]_vars => [Promise!Next]_Promise!vars
<1>. SUFFICES ASSUME IInv, [Next]_vars PROVE [Promise!Next]_Promise!vars OBVIOUS
<1>1. CASE Process BY <1>1, StartIsSeen, ResumeIsSeen, FireIsSeen DEF Process, Promise!Next
<1>2. CASE Tick BY <1>2, TickIsSeen DEF Promise!Next
<1>3. CASE ClearAll BY <1>3, ClearAllIsSeen DEF Promise!Next
<1>4. ASSUME NEW te \in Timer, Disarm(te) PROVE Promise!Next
  BY <1>4, DisarmIsSeen DEF Promise!Next
<1>5. ASSUME NEW te \in Timer, NEW d \in Delays, NEW p \in Periods, Arm(te, d, p)
      PROVE  Promise!Next
  BY <1>5, ArmIsSeen DEF Promise!Next
<1>6. CASE UNCHANGED vars
  <2>1. UNCHANGED <<head, next, deadline, period, armed, walk, clock, now, due, pc>>
    BY <1>6 DEF vars, list
  <2>2. UNCHANGED <<LeftOf, EveryOf, TodoThere, Firing>> /\ (pc # "idle")' = (pc # "idle")
    BY <2>1 DEF LeftOf, EveryOf, Left, Listed, TodoThere, NodesFrom, Mature, Firing
  <2>. QED BY <2>2 DEF Promise!vars, LeftOf, EveryOf, Left, TodoThere, Firing
<1>. QED BY <1>1, <1>2, <1>3, <1>4, <1>5, <1>6 DEF Next

\* The intrusive list, its walk and the counter that wraps do what Timers
\* says of a set of timers and the ticks they really have left: no node is
\* skipped or visited twice, none fires early, none once disarmed.
THEOREM ImplementsItsPromise == Spec => ImplementsTimers
BY InitIsSeen, NextIsSeen, IInvariant, PTL DEF Spec, ImplementsTimers, Promise!Spec

-----------------------------------------------------------------------------
\* The two questions about the nearest deadline.
LEMMA WrapIs ==
  ASSUME NEW x \in 0 .. Span - 1, NEW q \in Int, NEW n \in Int, n = x + q * Span
  PROVE  Wrap(n) = x
<1>1. PICK p \in Int : n = Wrap(n) + p * Span BY WrapFacts
<1>2. Wrap(n) \in 0 .. Span - 1 BY WrapFacts
<1>3. Span \in Nat \ {0} BY HalfAssumption DEF Span
<1>4. \A r \in Nat : (q - p) * r = q * r - p * r OBVIOUS
<1>5. \A r \in Nat, k \in Int : (k >= 1 => k * r >= r) /\ (k <= -1 => k * r <= -r) OBVIOUS
<1>6. Wrap(n) - x = (q - p) * Span BY <1>1, <1>2, <1>3, <1>4
<1>7. q - p = 0
  <2>. DEFINE k == q - p
  <2>1. k \in Int OBVIOUS
  <2>. HIDE DEF k
  <2>2. ~(k >= 1) /\ ~(k <= -1) BY <1>2, <1>3, <1>5, <1>6, <2>1 DEF k
  <2>. QED BY <2>1, <2>2 DEF k
<1>. QED BY <1>2, <1>3, <1>6, <1>7

LEMMA LeastFacts ==
  ASSUME NEW S \in SUBSET Int, S # {}, NEW b \in Int, \A x \in S : b <= x
  PROVE  LeastOf(S) \in S /\ \A y \in S : LeastOf(S) <= y
<1>. DEFINE N == {x - b : x \in S}
<1>1. N \in SUBSET Nat /\ N # {} OBVIOUS
<1>2. PICK k \in N : \A y \in N : k <= y BY <1>1, LeastNatural
<1>3. PICK x \in S : k = x - b BY <1>2
<1>4. \A y \in S : x <= y
  <2>. TAKE y \in S
  <2>1. x - b <= y - b BY <1>2, <1>3
  <2>. QED BY <2>1
<1>. QED BY <1>3, <1>4 DEF LeastOf

\* A timer matures as many ticks from now as it has left.
LEMMA MatureThen ==
  ASSUME IInv, NEW t \in Listed, NEW k \in Int, k - Left(t) \in -Half .. Half - 1
  PROVE  Mature(t, clock + k) <=> k >= Left(t)
<1>1. t \in Timer BY DEF Listed
<1>2. /\ Left(t) \in -Half .. Half - 1 /\ Half \in Nat \ {0}
      /\ MaxLate \in 0 .. Half - 1 /\ deadline[t] \in Int /\ clock \in Int
  BY <1>1, LeftType DEF IInv
<1>3. Left(t) >= -MaxLate BY DEF IInv, TimeInv
<1>4. Left(t) # -Half /\ Left(t) \in Int BY <1>2, <1>3
<1>. DEFINE a == clock - deadline[t]
<1>5. a \in Int /\ deadline[t] - clock \in Int /\ a = -(deadline[t] - clock)
      /\ (clock + k) - deadline[t] = a + k
  BY <1>2
<1>6. Signed(-(deadline[t] - clock)) = -Left(t)
  BY <1>4, <1>5, SignedOpposite DEF Left
<1>. HIDE DEF a
<1>7. Signed(a) = -Left(t) BY <1>5, <1>6
<1>8. Signed(a) + k \in -Half .. Half - 1 BY <1>2, <1>4, <1>7
<1>9. Signed(a + k) = Signed(a) + k BY <1>5, <1>8, SignedShift
<1>. QED BY <1>4, <1>5, <1>7, <1>9 DEF Mature

\* What the loop is told before it sleeps is what process() will do: 0 ticks
\* exactly when a timer would fire, else the instant the first one does.
THEOREM QuestionsAlwaysAgree == Spec => []QuestionsAgree
<1>1. IInv => QuestionsAgree
  <2>. SUFFICES ASSUME IInv PROVE QuestionsAgree OBVIOUS
  <2>. DEFINE T == TicksToNext
              least == LeastOf(Distances)
              Clamped == {IF d > 0 THEN d ELSE 0 : d \in Distances}
  <2>1. NodesFrom(Head) = Listed
    <3>1. NodesOf(head, next, Head) = Listed BY ListFacts DEF IInv, ListInv
    <3>. QED BY <3>1 DEF NodesOf, NodesFrom
  <2>2. Distances = {Left(t) : t \in Listed} BY <2>1 DEF Distances, Left
  <2>3. \A t \in Listed : t \in Timer /\ Left(t) \in -Half .. Half - 1
    <3>1. \A t \in Listed : t \in Timer BY DEF Listed
    <3>2. \A t \in Timer : Left(t) \in -Half .. Half - 1 BY LeftType DEF IInv
    <3>. QED BY <3>1, <3>2
  <2>4. Half \in Nat \ {0} /\ Null \notin Int BY HalfAssumption, TimerAssumption
  <2>5. CASE Listed = {}
    <3>1. T = Null BY <2>2, <2>5 DEF TicksToNext
    <3>2. T # 0 BY <2>4, <3>1
    <3>. QED BY <2>1, <2>5, <3>1, <3>2 DEF QuestionsAgree
  <2>6. CASE Listed # {}
    <3>1. Distances # {} /\ Distances \in SUBSET Int BY <2>2, <2>3, <2>4, <2>6
    <3>2. least \in Distances /\ \A y \in Distances : least <= y
      <4>1. -Half \in Int /\ \A x \in Distances : -Half <= x BY <2>2, <2>3, <2>4
      <4>. QED BY <3>1, <4>1, LeastFacts
    <3>3. T = IF least > 0 THEN least ELSE 0
      <4>1. T = LeastOf(Clamped) BY <3>1 DEF TicksToNext
      <4>2. Clamped \in SUBSET Int /\ Clamped # {} /\ (\A x \in Clamped : 0 <= x)
        <5>1. ASSUME NEW x \in Clamped PROVE x \in Int /\ 0 <= x
          <6>1. PICK d \in Distances : x = IF d > 0 THEN d ELSE 0 OBVIOUS
          <6>2. d \in Int BY <3>1
          <6>. QED BY <6>1, <6>2
        <5>2. Clamped # {}
          <6>1. PICK d \in Distances : TRUE BY <3>1
          <6>2. (IF d > 0 THEN d ELSE 0) \in Clamped BY <6>1
          <6>. QED BY <6>2
        <5>. QED BY <5>1, <5>2
      <4>3. T \in Clamped /\ \A y \in Clamped : T <= y
        <5>1. \A S \in SUBSET Int : S # {} /\ (\A x \in S : 0 <= x)
                => LeastOf(S) \in S /\ \A y \in S : LeastOf(S) <= y
          BY LeastFacts
        <5>. HIDE DEF Clamped, T
        <5>. QED BY <4>1, <4>2, <5>1
      <4>4. (IF least > 0 THEN least ELSE 0) \in Clamped BY <3>2
      <4>5. T <= IF least > 0 THEN least ELSE 0 BY <4>3, <4>4
      <4>6. \A x \in Clamped : (IF least > 0 THEN least ELSE 0) <= x
        <5>. TAKE x \in Clamped
        <5>1. PICK d \in Distances : x = IF d > 0 THEN d ELSE 0 OBVIOUS
        <5>2. least <= d /\ d \in Int /\ least \in Int BY <3>1, <3>2
        <5>. QED BY <5>1, <5>2
      <4>7. T \in Int /\ least \in Int BY <3>1, <3>2, <4>2, <4>3
      <4>8. (IF least > 0 THEN least ELSE 0) <= T BY <4>3, <4>6
      <4>. QED BY <4>5, <4>7, <4>8
    <3>. HIDE DEF T, least, Clamped
    <3>4. least \in Int /\ T \in Int /\ T # Null BY <2>4, <3>1, <3>2, <3>3
    <3>5. \A t \in Listed : least <= Left(t) BY <2>2, <3>2
    <3>6. PICK t0 \in Listed : Left(t0) = least BY <2>2, <3>2
    <3>7. T = 0 <=> \E t \in Listed : Mature(t, clock)
      <4>1. T = 0 <=> least <= 0 BY <3>3, <3>4
      <4>2. (\E t \in Listed : Left(t) <= 0) <=> least <= 0
        <5>1. \A t \in Listed : Left(t) \in Int BY <2>3, <2>4
        <5>. QED BY <3>4, <3>5, <3>6, <5>1
      <4>. QED BY <4>1, <4>2, MatureNow
    <3>8. PICK t1 \in Listed : Left(t1) = least /\ NextDeadline = deadline[t1]
      <4>. DEFINE t1 == CHOOSE t \in Listed : Signed(deadline[t] - clock) = least
      <4>1. NextDeadline = deadline[t1] BY <2>1, <3>1 DEF NextDeadline, least
      <4>2. t1 \in Listed /\ Left(t1) = least BY <3>6 DEF Left
      <4>. HIDE DEF t1
      <4>. QED BY <4>1, <4>2
    <3>9. Signed(NextDeadline - clock) <= T BY <3>3, <3>4, <3>8 DEF Left
    <3>10. ASSUME T > 0 PROVE Wrap(clock + T) = NextDeadline
      <4>1. T = least BY <3>3, <3>4, <3>10
      <4>2. deadline[t1] \in 0 .. Span - 1 /\ clock \in Int /\ deadline[t1] \in Int /\ Span \in Int
        <5>1. Span \in Nat BY <2>4 DEF Span
        <5>. QED BY <2>3, <5>1 DEF IInv, TypeOK
      <4>3. deadline[t1] - clock \in Int BY <4>2
      <4>4. PICK q \in Int : deadline[t1] - clock = Signed(deadline[t1] - clock) + q * Span
        BY <4>3, SignedFacts
      <4>5. deadline[t1] - clock = T + q * Span BY <3>8, <4>1, <4>4 DEF Left
      <4>6. \A s \in Int : q * s \in Int /\ (-q) * s = -(q * s) OBVIOUS
      <4>7. clock + T = deadline[t1] + (-q) * Span
        <5>. DEFINE x == q * Span
                    y == (-q) * Span
        <5>1. x \in Int /\ y = -x BY <4>2, <4>6
        <5>2. deadline[t1] - clock = T + x BY <4>5
        <5>. HIDE DEF x, y
        <5>3. clock + T = deadline[t1] + y BY <3>4, <4>2, <5>1, <5>2
        <5>. QED BY <5>3 DEF y
      <4>8. clock + T \in Int /\ -q \in Int BY <3>4, <4>2
      <4>9. Wrap(clock + T) = deadline[t1] BY <4>2, <4>7, <4>8, WrapIs
      <4>. QED BY <3>8, <4>9
    <3>11. Mature(t0, clock + T)
      <4>1. T - Left(t0) \in -Half .. Half - 1 /\ T >= Left(t0)
        <5>1. least \in -Half .. Half - 1 /\ least >= -MaxLate /\ MaxLate \in 0 .. Half - 1
          BY <2>3, <3>6, LateAssumption DEF IInv, TimeInv
        <5>. QED BY <2>4, <3>3, <3>6, <5>1
      <4>. QED BY <3>4, <4>1, MatureThen
    <3>12. ASSUME NEW k \in 0 .. T - 1, NEW t \in Listed PROVE ~Mature(t, clock + k)
      <4>1. T = least /\ k \in Int BY <3>3, <3>4
      <4>2. Left(t) \in -Half .. Half - 1 /\ least <= Left(t) BY <2>3, <3>5
      <4>3. k - Left(t) \in -Half .. Half - 1 /\ ~(k >= Left(t)) BY <2>4, <3>4, <4>1, <4>2
      <4>. QED BY <4>1, <4>3, MatureThen
    <3>. QED BY <2>1, <3>7, <3>9, <3>10, <3>11, <3>12 DEF QuestionsAgree, T
  <2>. QED BY <2>5, <2>6
<1>. QED BY <1>1, IInvariant, PTL
=============================================================================
