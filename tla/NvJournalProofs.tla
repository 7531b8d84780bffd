--------------------------- MODULE NvJournalProofs ---------------------------
(***************************************************************************)
(* NvJournal for every set of ids and values, every geometry the           *)
(* static_assert allows and any number of losses of power, panics and      *)
(* refusals, on a media that refuses a program before any of it is down.   *)
(***************************************************************************)
EXTENDS NvJournal, FiniteSetTheorems, WellFoundedInduction, TLAPS

Cursors ==
  [index : [Ids -> Place \cup {Nothing}], seq : Nat, used : 0 .. HalfCells, active : Half,
   pending : BOOLEAN]
Flashes == [Half -> [1 .. HalfCells -> Cell]]

At(f, p) == f[p[1]][p[2]]
EntriesOf(f, i) == {p \in Entries(f) : At(f, p).id = i}
Stored(f) == {At(f, p).id : p \in Entries(f)}

\* The index names the newest entry of every id, and no number is ahead.
NewestAt(f, i, p) == p \in EntriesOf(f, i) /\ \A q \in EntriesOf(f, i) : At(f, q).seq <= At(f, p).seq
Indexed(f, r) ==
  /\ Sound(f) /\ r \in Cursors
  /\ \A p \in Entries(f) : At(f, p).seq <= r.seq
  /\ \A i \in Ids : IF r.index[i] = Nothing THEN EntriesOf(f, i) = {} ELSE NewestAt(f, i, r.index[i])

\* What is behind the cursor ends there, and what is ahead is blank.
Clear(f, r) ==
  /\ \A c \in 1 .. HalfCells : c > r.used => f[r.active][c] = Blank
  /\ \A c \in 1 .. HalfCells :
       HeaderAt(f, r.active, c) => c + Cells[f[r.active][c].val] - 1 <= r.used

TypeInv ==
  /\ Sound(flash) /\ ram \in Cursors
  /\ pc \in {"off", "idle", "wipe", "copy", "append"} /\ page \in 1 .. HalfPages
  /\ req \in {Nothing} \cup [id : Ids, val : Vals]
  /\ answer \in {"none", "taken", "too_many_ids", "no_room", "media", "gc_failed"}
  /\ saved \in BOOLEAN

\* A save under way has no answer, and one that was taken has been saved.
CallInv ==
  /\ pc \in {"off", "idle"} => req = Nothing
  /\ pc = "append" => req # Nothing
  /\ req # Nothing => answer = "none"
  /\ answer = "taken" => saved
  /\ pc = "off" => ~saved

\* Unless a collection is under way or left to be finished, the idle half has
\* no entry; the pages an erase has passed are blank.
PlaceInv ==
  /\ pc \in {"wipe", "append"} => ~ram.pending
  /\ pc \in {"idle", "wipe", "append"} /\ ~ram.pending => \A p \in Entries(flash) : p[1] = ram.active
  /\ pc \in {"wipe", "copy"} =>
       \A c \in 1 .. HalfCells : c <= (page - 1) * PageCells => flash[1 - ram.active][c] = Blank
  /\ pc = "copy" /\ page > 1 => Uncopied = {}
  /\ req # Nothing /\ ~ram.pending => ~TooMany(ram, req.id)

\* The entries of the half a collection fills are one copy of each id.
Copied(r) == {i \in Live(r) : r.index[i][1] = r.active}
Packed(r) == r.used <= MaxEntryCells * Cardinality(Copied(r))
RoomInv ==
  /\ saved => ram.used + Reserve <= HalfCells
  /\ pc = "append" => ram.used + Cells[req.val] + Reserve <= HalfCells
  /\ pc = "copy" /\ ~ram.pending => Packed(ram)
  /\ saved /\ ram.pending => Packed(ram)

IInv ==
  /\ TypeInv /\ CallInv
  /\ pc # "off" => Indexed(flash, ram) /\ Clear(flash, ram) /\ PlaceInv /\ RoomInv

-----------------------------------------------------------------------------
\* Induction over the naturals, for a predicate given as a set of them.
LEMMA Less == IsWellFoundedOn({p \in Nat \X Nat : p[1] < p[2]}, Nat)
BY NatLessThanWellFounded DEF OpToRel

LEMMA LeastNatural ==
  ASSUME NEW S \in SUBSET Nat, S # {}
  PROVE  \E x \in S : \A y \in S : x <= y
<1>. DEFINE R == {p \in Nat \X Nat : p[1] < p[2]}
<1>1. PICK x \in S : \A y \in S : <<y, x>> \notin R BY Less, WFMin
<1>2. ASSUME NEW y \in S, y < x PROVE FALSE
  <2>1. <<y, x>> \in Nat \X Nat /\ <<y, x>>[1] < <<y, x>>[2] BY <1>2
  <2>2. <<y, x>> \in R BY <2>1
  <2>. QED BY <1>1, <2>2
<1>3. \A y \in S : y \in Nat /\ x \in Nat OBVIOUS
<1>. QED BY <1>2, <1>3

LEMMA SetInduction ==
  ASSUME NEW S \in SUBSET Nat, 0 \in S, \A n \in S : n + 1 \in S
  PROVE  \A n \in Nat : n \in S
<1>. SUFFICES ASSUME Nat \ S # {} PROVE FALSE OBVIOUS
<1>1. PICK x \in Nat \ S : \A y \in Nat \ S : x <= y BY LeastNatural
<1>2. x # 0 /\ x - 1 \in Nat /\ ~(x <= x - 1) BY <1>1
<1>3. (x - 1) + 1 \in S BY <1>1, <1>2
<1>. QED BY <1>2, <1>3

\* A finite set of naturals has a greatest element.
LEMMA MaxBelow ==
  ASSUME NEW S \in SUBSET Nat, S # {}, NEW b \in Nat, \A x \in S : x <= b
  PROVE  Max(S) \in S /\ \A x \in S : x <= Max(S)
<1>. DEFINE N == {b - x : x \in S}
<1>1. N \in SUBSET Nat /\ N # {}
  <2>1. \A x \in S : b - x \in Nat OBVIOUS
  <2>. QED BY <2>1
<1>2. PICK k \in N : \A y \in N : k <= y BY <1>1, LeastNatural
<1>3. PICK m \in S : k = b - m BY <1>2
<1>4. \A x \in S : m >= x
  <2>. TAKE x \in S
  <2>1. b - m <= b - x BY <1>2, <1>3
  <2>. QED BY <2>1
<1>5. Max(S) \in S /\ \A x \in S : Max(S) >= x BY <1>3, <1>4 DEF Max
<1>. QED BY <1>5

LEMMA Bounded ==
  ASSUME NEW n \in Nat, NEW g \in [1 .. n -> Nat]
  PROVE  \E b \in Nat : \A c \in 1 .. n : g[c] <= b
<1>. DEFINE S == {k \in Nat : k <= n => \E b \in Nat : \A c \in 1 .. k : g[c] <= b}
<1>1. 0 \in S
  <2>1. \A c \in 1 .. 0 : g[c] <= 0 OBVIOUS
  <2>. QED BY <2>1
<1>2. ASSUME NEW k \in S PROVE k + 1 \in S
  <2>1. CASE k + 1 <= n
    <3>1. k \in Nat /\ k <= n BY <2>1
    <3>2. PICK b \in Nat : \A c \in 1 .. k : g[c] <= b BY <3>1
    <3>3. g[k + 1] \in Nat BY <2>1, <3>1
    <3>4. PICK d \in Nat : b <= d /\ g[k + 1] <= d
      <4>1. CASE b <= g[k + 1] BY <3>3, <4>1
      <4>2. CASE g[k + 1] <= b BY <3>3, <4>2
      <4>. QED BY <3>3, <4>1, <4>2
    <3>5. \A c \in 1 .. k + 1 : g[c] <= d
      <4>. TAKE c \in 1 .. k + 1
      <4>1. CASE c = k + 1 BY <3>4, <4>1
      <4>2. CASE c # k + 1
        <5>1. c \in 1 .. k /\ g[c] \in Nat BY <2>1, <3>1, <4>2
        <5>. QED BY <3>2, <3>4, <5>1
      <4>. QED BY <4>1, <4>2
    <3>. QED BY <3>1, <3>5
  <2>. QED BY <2>1
<1>3. S \in SUBSET Nat OBVIOUS
<1>. HIDE DEF S
<1>4. n \in S BY <1>1, <1>2, <1>3, SetInduction
<1>. QED BY <1>4 DEF S

LEMMA MaxFacts ==
  ASSUME NEW S \in SUBSET Nat, S # {}, IsFiniteSet(S)
  PROVE  Max(S) \in S /\ \A x \in S : x <= Max(S)
<1>1. PICK n \in Nat : ExistsBijection(1 .. n, S) BY FS_NatBijection
<1>2. PICK g : g \in Bijection(1 .. n, S) BY <1>1 DEF ExistsBijection
<1>3. g \in [1 .. n -> S] /\ \A x \in S : \E c \in 1 .. n : g[c] = x
  BY <1>2 DEF Bijection, Surjection
<1>4. g \in [1 .. n -> Nat] BY <1>3
<1>5. PICK b \in Nat : \A c \in 1 .. n : g[c] <= b BY <1>4, Bounded
<1>6. \A x \in S : x <= b BY <1>3, <1>5
<1>. QED BY <1>6, MaxBelow

-----------------------------------------------------------------------------
LEMMA FiniteImage ==
  ASSUME NEW D, IsFiniteSet(D), NEW f, DOMAIN f = D, f = [x \in D |-> f[x]]
  PROVE  IsFiniteSet({f[x] : x \in D}) /\ Cardinality({f[x] : x \in D}) <= Cardinality(D)
<1>. DEFINE T == {f[x] : x \in D}
<1>1. f \in Surjection(D, T) BY DEF Surjection
<1>. QED BY <1>1, FS_Surjection

\* The sizes.
LEMMA Sizes ==
  /\ HalfCells \in Nat /\ MaxEntryCells \in Nat \ {0} /\ Reserve = MaxEntryCells
  /\ \A v \in Vals : Cells[v] \in 1 .. MaxEntryCells
  /\ (MaxIds + 2) * MaxEntryCells <= HalfCells
<1>1. HalfCells \in Nat
  <2>1. \A a, b \in Nat : a * b \in Nat OBVIOUS
  <2>. QED BY <2>1, BoundsAssumption DEF HalfCells
<1>. DEFINE S == {Cells[v] : v \in Vals}
<1>2. S \in SUBSET Nat /\ S # {} /\ IsFiniteSet(S)
  <2>1. S \in SUBSET Nat /\ S # {} BY CellsAssumption
  <2>2. IsFiniteSet({Cells[v] : v \in Vals}) BY CellsAssumption, FiniteImage
  <2>. QED BY <2>1, <2>2
<1>3. MaxEntryCells \in S /\ \A x \in S : x <= MaxEntryCells BY <1>2, MaxFacts DEF MaxEntryCells
<1>4. \A v \in Vals : Cells[v] \in Nat \ {0} BY CellsAssumption
<1>5. MaxEntryCells \in Nat \ {0} BY <1>3, <1>4
<1>6. \A v \in Vals : Cells[v] \in 1 .. MaxEntryCells BY <1>3, <1>4, <1>5
<1>. QED BY <1>1, <1>5, <1>6, GeometryAssumption DEF Reserve

-----------------------------------------------------------------------------
\* Headers and whole entries.
Nested(f) ==
  \A h \in Half, c, d \in 1 .. HalfCells :
    HeaderAt(f, h, c) /\ c < d /\ d < c + Cells[f[h][c].val] => ~HeaderAt(f, h, d)

LEMMA HeaderFacts ==
  ASSUME NEW f \in Flashes, NEW h \in Half, NEW c \in 1 .. HalfCells, HeaderAt(f, h, c)
  PROVE  /\ f[h][c] \in Laid /\ f[h][c].val \in Vals /\ f[h][c].id \in Ids
         /\ f[h][c].seq \in Nat \ {0} /\ f[h][c].part = 1
         /\ Cells[f[h][c].val] \in 1 .. MaxEntryCells
         /\ c + Cells[f[h][c].val] - 1 <= HalfCells
<1>1. f[h][c] \in Laid BY DEF Flashes, Cell, HeaderAt
<1>2. f[h][c].val \in Vals /\ f[h][c].id \in Ids /\ f[h][c].seq \in Nat \ {0} BY <1>1 DEF Laid
<1>. QED BY <1>1, <1>2, Sizes DEF HeaderAt

LEMMA EntryFacts ==
  ASSUME NEW f \in Flashes, NEW p \in Entries(f)
  PROVE  /\ p \in Place /\ p[1] \in Half /\ p[2] \in 1 .. HalfCells /\ p = <<p[1], p[2]>>
         /\ Whole(f, p[1], p[2]) /\ HeaderAt(f, p[1], p[2])
         /\ At(f, p) \in Laid /\ At(f, p).val \in Vals /\ At(f, p).id \in Ids
         /\ At(f, p).seq \in Nat \ {0}
         /\ Cells[At(f, p).val] \in 1 .. MaxEntryCells
<1>1. p \in Place /\ Whole(f, p[1], p[2]) BY DEF Entries
<1>2. p[1] \in Half /\ p[2] \in 1 .. HalfCells /\ p = <<p[1], p[2]>> BY <1>1 DEF Place
<1>3. HeaderAt(f, p[1], p[2]) BY <1>1 DEF Whole
<1>. QED BY <1>1, <1>2, <1>3, HeaderFacts DEF At

\* Two flashes that agree on the cells of an entry both have it.
LEMMA WholeAgrees ==
  ASSUME NEW f \in Flashes, NEW g, NEW h \in Half, NEW c \in 1 .. HalfCells, Whole(f, h, c),
         \A d \in c .. c + Cells[f[h][c].val] - 1 : g[h][d] = f[h][d]
  PROVE  Whole(g, h, c)
<1>. DEFINE n == Cells[f[h][c].val]
<1>1. HeaderAt(f, h, c) BY DEF Whole
<1>2. n \in Nat /\ n >= 1 /\ c \in Nat BY <1>1, HeaderFacts, Sizes
<1>3. g[h][c] = f[h][c]
  <2>1. c \in c .. c + n - 1 BY <1>2
  <2>. QED BY <2>1
<1>4. HeaderAt(g, h, c) BY <1>1, <1>3 DEF HeaderAt
<1>5. \A k \in 2 .. n : f[h][c + k - 1] = [f[h][c] EXCEPT !.part = k] BY DEF Whole
<1>6. \A k \in 2 .. n : g[h][c + k - 1] = f[h][c + k - 1]
  <2>. TAKE k \in 2 .. n
  <2>1. c + k - 1 \in c .. c + n - 1 BY <1>2
  <2>. QED BY <2>1
<1>7. \A k \in 2 .. Cells[g[h][c].val] : g[h][c + k - 1] = [g[h][c] EXCEPT !.part = k]
  BY <1>3, <1>5, <1>6
<1>. QED BY <1>4, <1>7 DEF Whole

\* The walk of scan_half() finds every header, as no entry holds another.
LEMMA HeadersAre ==
  ASSUME NEW f \in Flashes, Nested(f), NEW h \in Half
  PROVE  Headers(f, h) = {c \in 1 .. HalfCells : HeaderAt(f, h, c)}
<1>. DEFINE N == HalfCells
            from[c \in 1 .. N + 1] ==
              IF c > HalfCells THEN {}
              ELSE IF HeaderAt(f, h, c) THEN {c} \cup from[c + Cells[f[h][c].val]]
              ELSE from[c + 1]
            g == [c \in 1 .. N + 1 |-> {d \in c .. N : HeaderAt(f, h, d)}]
<1>1. N \in Nat BY Sizes
<1>2. Headers(f, h) = from[1] BY DEF Headers
<1>3. \A c \in 1 .. N : HeaderAt(f, h, c) =>
        /\ c + Cells[f[h][c].val] \in 1 .. N + 1 /\ c + Cells[f[h][c].val] > c
        /\ \A d \in c + 1 .. N : d < c + Cells[f[h][c].val] => ~HeaderAt(f, h, d)
  <2>. TAKE c \in 1 .. N
  <2>. HAVE HeaderAt(f, h, c)
  <2>1. Cells[f[h][c].val] \in 1 .. MaxEntryCells /\ c + Cells[f[h][c].val] - 1 <= HalfCells
    BY HeaderFacts
  <2>2. c + Cells[f[h][c].val] \in 1 .. N + 1 /\ c + Cells[f[h][c].val] > c BY <1>1, <2>1, Sizes
  <2>3. \A d \in c + 1 .. N : c < d /\ d \in 1 .. N BY <1>1
  <2>. QED BY <2>2, <2>3 DEF Nested
<1>4. \A c \in 1 .. N + 1 : g[c] =
        IF c > HalfCells THEN {}
        ELSE IF HeaderAt(f, h, c) THEN {c} \cup g[c + Cells[f[h][c].val]]
        ELSE g[c + 1]
  <2>. TAKE c \in 1 .. N + 1
  <2>1. CASE c > N BY <1>1, <2>1
  <2>2. CASE c <= N
    <3>0. c \in 1 .. N /\ c + 1 \in 1 .. N + 1 BY <1>1, <2>2
    <3>1. CASE HeaderAt(f, h, c)
      <4>. DEFINE e == c + Cells[f[h][c].val]
      <4>1. e \in 1 .. N + 1 /\ e > c /\ \A d \in c + 1 .. N : d < e => ~HeaderAt(f, h, d)
        BY <1>3, <3>0, <3>1
      <4>2. g[e] = {d \in e .. N : HeaderAt(f, h, d)} BY <4>1
      <4>3. g[c] = {d \in c .. N : HeaderAt(f, h, d)} OBVIOUS
      <4>. HIDE DEF e, g
      <4>4. g[c] = {c} \cup g[e] BY <1>1, <3>0, <3>1, <4>1, <4>2, <4>3
      <4>. QED BY <1>1, <2>2, <3>1, <4>4 DEF e
    <3>2. CASE ~HeaderAt(f, h, c)
      <4>1. g[c + 1] = {d \in c + 1 .. N : HeaderAt(f, h, d)} BY <3>0
      <4>2. g[c] = {d \in c .. N : HeaderAt(f, h, d)} OBVIOUS
      <4>. HIDE DEF g
      <4>3. g[c] = g[c + 1] BY <1>1, <3>0, <3>2, <4>1, <4>2
      <4>. QED BY <1>1, <2>2, <3>2, <4>3
    <3>. QED BY <3>1, <3>2
  <2>. QED BY <1>1, <2>1, <2>2
<1>5. from = [c \in 1 .. N + 1 |->
        IF c > HalfCells THEN {}
        ELSE IF HeaderAt(f, h, c) THEN {c} \cup from[c + Cells[f[h][c].val]]
        ELSE from[c + 1]]
  <2>1. g = [c \in 1 .. N + 1 |->
          IF c > HalfCells THEN {}
          ELSE IF HeaderAt(f, h, c) THEN {c} \cup g[c + Cells[f[h][c].val]]
          ELSE g[c + 1]]
    BY <1>4
  <2>. HIDE DEF g
  <2>. QED BY <2>1
<1>. DEFINE S == {k \in Nat : \A c \in 1 .. N + 1 : N + 1 - c <= k => from[c] = g[c]}
<1>. HIDE DEF from, g
<1>6. 0 \in S
  <2>1. \A c \in 1 .. N + 1 : N + 1 - c <= 0 => from[c] = g[c]
    <3>. TAKE c \in 1 .. N + 1
    <3>. HAVE N + 1 - c <= 0
    <3>1. c > HalfCells BY <1>1
    <3>. QED BY <1>4, <1>5, <3>1
  <2>. QED BY <2>1
<1>7. ASSUME NEW k \in S PROVE k + 1 \in S
  <2>1. \A c \in 1 .. N + 1 : N + 1 - c <= k + 1 => from[c] = g[c]
    <3>. TAKE c \in 1 .. N + 1
    <3>. HAVE N + 1 - c <= k + 1
    <3>1. CASE c > HalfCells BY <1>4, <1>5, <3>1
    <3>2. CASE ~(c > HalfCells)
      <4>1. c \in 1 .. N /\ c + 1 \in 1 .. N + 1 /\ N + 1 - (c + 1) <= k BY <1>1, <3>2
      <4>2. CASE HeaderAt(f, h, c)
        <5>. DEFINE e == c + Cells[f[h][c].val]
        <5>1. e \in 1 .. N + 1 /\ e > c BY <1>3, <4>1, <4>2
        <5>2. N + 1 - e <= k
          <6>. HIDE DEF e
          <6>. QED BY <1>1, <4>1, <5>1
        <5>3. from[e] = g[e] BY <5>1, <5>2
        <5>. QED BY <1>4, <1>5, <3>2, <4>2, <5>3
      <4>3. CASE ~HeaderAt(f, h, c)
        <5>1. from[c + 1] = g[c + 1] BY <4>1
        <5>. QED BY <1>4, <1>5, <3>2, <4>3, <5>1
      <4>. QED BY <4>2, <4>3
    <3>. QED BY <3>1, <3>2
  <2>. QED BY <2>1
<1>8. S \in SUBSET Nat OBVIOUS
<1>9. N \in S
  <2>. HIDE DEF S
  <2>. QED BY <1>1, <1>6, <1>7, <1>8, SetInduction
<1>10. 1 \in 1 .. N + 1 /\ N + 1 - 1 <= N BY <1>1
<1>11. from[1] = g[1] BY <1>9, <1>10
<1>12. g[1] = {d \in 1 .. N : HeaderAt(f, h, d)} BY <1>10 DEF g
<1>. QED BY <1>2, <1>11, <1>12

-----------------------------------------------------------------------------
\* Sound flashes and what their indexes say.
Distinct(f) == \A p, q \in Entries(f) : At(f, p).seq = At(f, q).seq => p = q

LEMMA SoundIs ==
  ASSUME NEW f
  PROVE  Sound(f) <=> /\ f \in Flashes /\ Nested(f) /\ Distinct(f)
                      /\ Cardinality(Stored(f)) <= MaxIds
<1>1. Stored(f) = {f[p[1]][p[2]].id : p \in Entries(f)} BY DEF Stored, At
<1>. QED BY <1>1 DEF Sound, Flashes, Nested, Distinct, At

LEMMA Finite ==
  ASSUME NEW f
  PROVE  /\ IsFiniteSet(Entries(f)) /\ IsFiniteSet(Stored(f))
         /\ Cardinality(Stored(f)) \in Nat
<1>1. IsFiniteSet(Half)
  <2>1. IsFiniteSet({0}) /\ IsFiniteSet({1}) BY FS_Singleton
  <2>2. IsFiniteSet({0} \cup {1}) BY <2>1, FS_Union
  <2>3. Half = {0} \cup {1} BY DEF Half
  <2>. QED BY <2>2, <2>3
<1>2. IsFiniteSet(1 .. HalfCells) BY Sizes, FS_Interval
<1>3. IsFiniteSet(Place) BY <1>1, <1>2, FS_Product DEF Place
<1>4. Entries(f) \subseteq Place BY DEF Entries
<1>5. IsFiniteSet(Entries(f)) BY <1>3, <1>4, FS_Subset
<1>. DEFINE g == [p \in Entries(f) |-> At(f, p).id]
<1>6. IsFiniteSet({g[p] : p \in Entries(f)})
  <2>1. DOMAIN g = Entries(f) /\ g = [p \in Entries(f) |-> g[p]] OBVIOUS
  <2>. HIDE DEF g
  <2>. QED BY <1>5, <2>1, FiniteImage
<1>7. Stored(f) = {g[p] : p \in Entries(f)} BY DEF Stored
<1>8. IsFiniteSet(Stored(f)) BY <1>6, <1>7
<1>. QED BY <1>5, <1>8, FS_CardinalityType

\* Some of the entries of f, and no others.
Fewer(f, g) ==
  /\ g \in Flashes /\ Nested(g)
  /\ Entries(g) \subseteq Entries(f) /\ \A p \in Entries(g) : At(g, p) = At(f, p)

LEMMA FewerSound ==
  ASSUME NEW f, NEW g, Sound(f), Fewer(f, g)
  PROVE  Sound(g)
<1>1. Distinct(g) BY SoundIs DEF Fewer, Distinct
<1>2. Stored(g) \subseteq Stored(f) BY DEF Fewer, Stored
<1>3. Cardinality(Stored(g)) <= Cardinality(Stored(f)) BY <1>2, Finite, FS_Subset
<1>4. Cardinality(Stored(g)) <= MaxIds
  BY <1>3, Finite, SoundIs, BoundsAssumption
<1>. QED BY <1>1, <1>4, SoundIs DEF Fewer

LEMMA NewestIs ==
  ASSUME NEW f, Sound(f), NEW i, NEW p, NewestAt(f, i, p)
  PROVE  Newest(f, EntriesOf(f, i)) = p /\ Value(f, i) = At(f, p).val
<1>. DEFINE at == EntriesOf(f, i)
<1>1. p \in at /\ \A q \in at : At(f, q).seq <= At(f, p).seq BY DEF NewestAt
<1>2. \A q \in at : q \in Entries(f) /\ At(f, q).seq \in Nat
  BY SoundIs, EntryFacts DEF EntriesOf
<1>3. p \in at /\ \A q \in at : At(f, p).seq >= At(f, q).seq BY <1>1, <1>2
<1>4. \A n \in at : (\A q \in at : At(f, n).seq >= At(f, q).seq) => n = p
  <2>. TAKE n \in at
  <2>. HAVE \A q \in at : At(f, n).seq >= At(f, q).seq
  <2>1. At(f, n).seq = At(f, p).seq BY <1>1, <1>2
  <2>. QED BY <1>2, <1>1, <2>1, SoundIs DEF Distinct
<1>5. Newest(f, at) = CHOOSE n \in at : \A q \in at : At(f, n).seq >= At(f, q).seq
  BY DEF Newest, At
<1>. HIDE DEF at
<1>6. Newest(f, at) = p BY <1>3, <1>4, <1>5
<1>7. at = {q \in Entries(f) : f[q[1]][q[2]].id = i} BY DEF at, EntriesOf, At
<1>8. at # {} BY <1>1
<1>9. Value(f, i) = f[Newest(f, at)[1]][Newest(f, at)[2]].val BY <1>7, <1>8 DEF Value
<1>. QED BY <1>6, <1>9 DEF at, At

LEMMA ValueFacts ==
  ASSUME NEW f, NEW r, Indexed(f, r), NEW i \in Ids
  PROVE  /\ r.index[i] = Nothing => Value(f, i) = Nothing
         /\ r.index[i] # Nothing =>
              /\ r.index[i] \in Entries(f) /\ At(f, r.index[i]).id = i
              /\ Value(f, i) = At(f, r.index[i]).val /\ Value(f, i) \in Vals
         /\ Read(f, r, i) = Value(f, i)
<1>. DEFINE p == r.index[i]
<1>1. CASE p = Nothing
  <2>1. EntriesOf(f, i) = {} BY <1>1 DEF Indexed
  <2>2. Value(f, i) = Nothing BY <2>1 DEF Value, EntriesOf, At
  <2>3. Read(f, r, i) = Nothing BY <1>1 DEF Read
  <2>. QED BY <1>1, <2>2, <2>3
<1>2. CASE p # Nothing
  <2>1. Sound(f) /\ NewestAt(f, i, p) BY <1>2 DEF Indexed
  <2>2. p \in Entries(f) /\ At(f, p).id = i BY <2>1 DEF NewestAt, EntriesOf
  <2>3. Value(f, i) = At(f, p).val BY <2>1, NewestIs
  <2>4. Value(f, i) \in Vals BY <2>1, <2>2, <2>3, SoundIs, EntryFacts
  <2>5. Whole(f, p[1], p[2]) BY <2>2 DEF Entries
  <2>6. Read(f, r, i) = At(f, p).val BY <1>2, <2>2, <2>5 DEF Read, At
  <2>. QED BY <1>2, <2>2, <2>3, <2>4, <2>6
<1>. QED BY <1>1, <1>2

LEMMA LiveIsStored ==
  ASSUME NEW f, NEW r, Indexed(f, r)
  PROVE  /\ Live(r) = Stored(f) /\ IsFiniteSet(Live(r))
         /\ Cardinality(Live(r)) \in Nat /\ Cardinality(Live(r)) <= MaxIds
<1>1. ASSUME NEW i \in Live(r) PROVE i \in Stored(f)
  <2>1. i \in Ids /\ r.index[i] # Nothing BY DEF Live
  <2>2. r.index[i] \in Entries(f) /\ At(f, r.index[i]).id = i BY <2>1, ValueFacts
  <2>. QED BY <2>2 DEF Stored
<1>2. ASSUME NEW i \in Stored(f) PROVE i \in Live(r)
  <2>1. PICK p \in Entries(f) : At(f, p).id = i BY DEF Stored
  <2>2. i \in Ids BY <2>1, SoundIs, EntryFacts DEF Indexed
  <2>3. EntriesOf(f, i) # {} BY <2>1 DEF EntriesOf
  <2>. QED BY <2>2, <2>3 DEF Indexed, Live
<1>3. Live(r) = Stored(f) BY <1>1, <1>2
<1>4. Sound(f) BY DEF Indexed
<1>. QED BY <1>3, <1>4, SoundIs, Finite

\* An index stands while the entries it names do.
Same(f, g) == \A i \in Ids : Value(g, i) = Value(f, i)
Stands(g, r) == \A i \in Live(r) : r.index[i] \in Entries(g)

LEMMA Keep ==
  ASSUME NEW f, NEW g, NEW r, Indexed(f, r), Fewer(f, g), Stands(g, r)
  PROVE  Indexed(g, r) /\ Same(f, g)
<1>1. Sound(f) /\ Sound(g) /\ r \in Cursors BY FewerSound DEF Indexed
<1>2. \A p \in Entries(g) : At(g, p).seq <= r.seq BY DEF Fewer, Indexed
<1>3. \A i \in Ids : EntriesOf(g, i) \subseteq EntriesOf(f, i) BY DEF Fewer, EntriesOf
<1>4. ASSUME NEW i \in Ids
      PROVE  IF r.index[i] = Nothing THEN EntriesOf(g, i) = {} ELSE NewestAt(g, i, r.index[i])
  <2>1. CASE r.index[i] = Nothing BY <1>3, <2>1 DEF Indexed
  <2>2. CASE r.index[i] # Nothing
    <3>. DEFINE p == r.index[i]
    <3>1. NewestAt(f, i, p) BY <2>2 DEF Indexed
    <3>2. p \in Entries(g) BY <2>2 DEF Live, Stands
    <3>3. p \in EntriesOf(f, i) /\ \A q \in EntriesOf(f, i) : At(f, q).seq <= At(f, p).seq
      BY <3>1 DEF NewestAt
    <3>4. \A q \in Entries(g) : At(g, q) = At(f, q) BY DEF Fewer
    <3>. HIDE DEF p
    <3>5. p \in EntriesOf(g, i) BY <3>2, <3>3, <3>4 DEF EntriesOf
    <3>6. \A q \in EntriesOf(g, i) : At(g, q).seq <= At(g, p).seq
      <4>. TAKE q \in EntriesOf(g, i)
      <4>1. q \in Entries(g) /\ q \in EntriesOf(f, i) BY <1>3 DEF EntriesOf
      <4>. QED BY <3>2, <3>3, <3>4, <4>1
    <3>7. NewestAt(g, i, p) BY <3>5, <3>6 DEF NewestAt
    <3>. QED BY <2>2, <3>7 DEF p
  <2>. QED BY <2>1, <2>2
<1>5. Indexed(g, r) BY <1>1, <1>2, <1>4 DEF Indexed
<1>6. ASSUME NEW i \in Ids PROVE Value(g, i) = Value(f, i)
  <2>1. CASE r.index[i] = Nothing BY <1>5, <2>1, ValueFacts
  <2>2. CASE r.index[i] # Nothing
    <3>1. r.index[i] \in Entries(g) BY <1>5, <2>2, ValueFacts
    <3>2. At(g, r.index[i]) = At(f, r.index[i]) BY <3>1 DEF Fewer
    <3>. QED BY <1>5, <2>2, <3>2, ValueFacts
  <2>. QED BY <2>1, <2>2
<1>. QED BY <1>5, <1>6 DEF Same

LEMMA SameIndex ==
  ASSUME NEW f, NEW r, NEW s \in Cursors, Indexed(f, r), s.index = r.index, s.seq = r.seq
  PROVE  Indexed(f, s)
BY DEF Indexed

-----------------------------------------------------------------------------
\* What a program and an erase do to the entries.
Outside(f, g, r) ==
  /\ g \in Flashes
  /\ \A h \in Half, c \in 1 .. HalfCells : h # r.active \/ c <= r.used => g[h][c] = f[h][c]
  /\ \A c \in 1 .. HalfCells : c > r.used + 1 => ~HeaderAt(g, r.active, c)

LEMMA Behind ==
  ASSUME NEW f, NEW g, NEW r \in Cursors, Sound(f), Clear(f, r), Outside(f, g, r)
  PROVE  /\ \A h \in Half, c \in 1 .. HalfCells :
              h = r.active /\ c > r.used => ~HeaderAt(f, h, c)
         /\ \A h \in Half, c \in 1 .. HalfCells : ~(h = r.active /\ c > r.used) =>
              /\ HeaderAt(g, h, c) <=> HeaderAt(f, h, c)
              /\ Whole(g, h, c) <=> Whole(f, h, c)
              /\ g[h][c] = f[h][c]
         /\ Nested(g)
<1>1. r.used \in Nat /\ r.active \in Half /\ r.used <= HalfCells /\ HalfCells \in Nat
  BY Sizes DEF Cursors
<1>2. f \in Flashes /\ Nested(f) BY SoundIs
<1>3. \A c \in 1 .. HalfCells : c > r.used => ~HeaderAt(f, r.active, c)
  BY DEF Clear, HeaderAt
<1>4. ASSUME NEW h \in Half, NEW c \in 1 .. HalfCells, ~(h = r.active /\ c > r.used)
      PROVE  /\ HeaderAt(g, h, c) <=> HeaderAt(f, h, c)
             /\ Whole(g, h, c) <=> Whole(f, h, c)
             /\ g[h][c] = f[h][c]
  <2>1. h # r.active \/ c <= r.used BY <1>1, <1>4
  <2>2. g[h][c] = f[h][c] BY <2>1 DEF Outside
  <2>3. HeaderAt(g, h, c) <=> HeaderAt(f, h, c) BY <2>2 DEF HeaderAt
  <2>. DEFINE n == Cells[f[h][c].val]
  <2>4. ASSUME HeaderAt(f, h, c)
        PROVE  \A d \in c .. c + n - 1 : g[h][d] = f[h][d]
    <3>1. n \in Nat /\ c + n - 1 <= HalfCells BY <1>2, <2>4, HeaderFacts, Sizes
    <3>2. h = r.active => c + n - 1 <= r.used BY <2>4 DEF Clear
    <3>. HIDE DEF n
    <3>3. \A d \in c .. c + n - 1 : d \in 1 .. HalfCells /\ (h # r.active \/ d <= r.used)
      BY <1>1, <3>1, <3>2
    <3>. QED BY <3>3 DEF Outside
  <2>5. ASSUME Whole(f, h, c) PROVE Whole(g, h, c)
    <3>1. HeaderAt(f, h, c) BY <2>5 DEF Whole
    <3>. QED BY <1>2, <2>4, <2>5, <3>1, WholeAgrees
  <2>6. ASSUME Whole(g, h, c) PROVE Whole(f, h, c)
    <3>1. HeaderAt(f, h, c) BY <2>3, <2>6 DEF Whole
    <3>2. \A d \in c .. c + Cells[g[h][c].val] - 1 : f[h][d] = g[h][d] BY <2>2, <2>4, <3>1
    <3>3. g \in Flashes BY DEF Outside
    <3>. QED BY <2>6, <3>2, <3>3, WholeAgrees
  <2>. QED BY <2>2, <2>3, <2>5, <2>6
<1>5. Nested(g)
  <2>. SUFFICES ASSUME NEW h \in Half, NEW c \in 1 .. HalfCells, NEW d \in 1 .. HalfCells,
                       HeaderAt(g, h, c), c < d, d < c + Cells[g[h][c].val], HeaderAt(g, h, d)
                PROVE  FALSE
    BY DEF Nested
  <2>1. CASE h = r.active /\ c > r.used
    <3>1. d > r.used + 1 BY <1>1, <2>1
    <3>. QED BY <2>1, <3>1 DEF Outside
  <2>2. CASE ~(h = r.active /\ c > r.used)
    <3>1. HeaderAt(f, h, c) /\ g[h][c] = f[h][c] BY <1>4, <2>2
    <3>. DEFINE n == Cells[f[h][c].val]
    <3>2. n \in Nat BY <1>2, <3>1, HeaderFacts, Sizes
    <3>3. d < c + n BY <3>1
    <3>4. h = r.active => c + n - 1 <= r.used BY <3>1 DEF Clear
    <3>5. ~(h = r.active /\ d > r.used)
      <4>. HIDE DEF n
      <4>. QED BY <1>1, <3>2, <3>3, <3>4
    <3>6. HeaderAt(f, h, d) BY <1>4, <3>5
    <3>. QED BY <1>2, <3>1, <3>3, <3>6 DEF Nested
  <2>. QED BY <2>1, <2>2
<1>. QED BY <1>3, <1>4, <1>5

\* A program that is not finished, or that is written over, adds no entry.
LEMMA PartKeeps ==
  ASSUME NEW f, NEW g, NEW r \in Cursors, Sound(f), Clear(f, r), Outside(f, g, r),
         r.used + 1 <= HalfCells => ~Whole(g, r.active, r.used + 1)
  PROVE  Fewer(f, g) /\ Entries(g) = Entries(f)
<1>1. r.used \in Nat /\ r.active \in Half /\ HalfCells \in Nat BY Sizes DEF Cursors
<1>2. g \in Flashes /\ f \in Flashes BY SoundIs DEF Outside
<1>3. ASSUME NEW p \in Entries(g) PROVE p \in Entries(f) /\ At(g, p) = At(f, p)
  <2>1. p \in Place /\ p[1] \in Half /\ p[2] \in 1 .. HalfCells /\ Whole(g, p[1], p[2])
    BY <1>2, EntryFacts
  <2>2. HeaderAt(g, p[1], p[2]) BY <2>1 DEF Whole
  <2>3. ~(p[1] = r.active /\ p[2] > r.used)
    <3>1. CASE p[1] = r.active /\ p[2] = r.used + 1 BY <2>1, <3>1
    <3>2. CASE p[1] = r.active /\ p[2] > r.used + 1 BY <2>1, <2>2, <3>2 DEF Outside
    <3>. QED BY <1>1, <2>1, <3>1, <3>2
  <2>4. Whole(f, p[1], p[2]) /\ g[p[1]][p[2]] = f[p[1]][p[2]] BY <2>1, <2>3, Behind
  <2>. QED BY <2>1, <2>4 DEF Entries, At
<1>4. ASSUME NEW p \in Entries(f) PROVE p \in Entries(g)
  <2>1. p \in Place /\ p[1] \in Half /\ p[2] \in 1 .. HalfCells /\ Whole(f, p[1], p[2])
        /\ HeaderAt(f, p[1], p[2])
    BY <1>2, EntryFacts
  <2>2. ~(p[1] = r.active /\ p[2] > r.used) BY <2>1, Behind
  <2>3. Whole(g, p[1], p[2]) BY <2>1, <2>2, Behind
  <2>. QED BY <2>1, <2>3 DEF Entries
<1>. QED BY <1>2, <1>3, <1>4, Behind DEF Fewer

LEMMA ErasedFewer ==
  ASSUME NEW f, Sound(f), NEW h \in Half, NEW p \in Nat, NEW as \in {Blank, Torn}
  PROVE  /\ Fewer(f, Erased(f, h, p, as))
         /\ \A q \in Entries(f) : q[1] # h => q \in Entries(Erased(f, h, p, as))
<1>. DEFINE g == Erased(f, h, p, as)
<1>1. f \in Flashes /\ Nested(f) BY SoundIs
<1>2. as \in Cell BY DEF Cell
<1>3. g \in Flashes
  <2>1. f[h] \in [1 .. HalfCells -> Cell] BY <1>1 DEF Flashes
  <2>2. [c \in 1 .. HalfCells |-> IF c \in PageOf(p) THEN as ELSE f[h][c]]
          \in [1 .. HalfCells -> Cell]
    BY <1>2, <2>1
  <2>. QED BY <1>1, <2>2 DEF Erased, Flashes
<1>4. \A k \in Half, c \in 1 .. HalfCells : g[k][c] = f[k][c] \/ g[k][c] = as
  BY <1>1 DEF Erased, Flashes
<1>5. \A k \in Half : k # h => g[k] = f[k] BY <1>1 DEF Erased, Flashes
<1>. HIDE DEF g
<1>6. \A k \in Half, c \in 1 .. HalfCells :
        HeaderAt(g, k, c) => HeaderAt(f, k, c) /\ g[k][c] = f[k][c]
  BY <1>4 DEF HeaderAt
<1>7. Nested(g) BY <1>1, <1>6 DEF Nested
<1>8. ASSUME NEW k \in Half, NEW c \in 1 .. HalfCells, Whole(g, k, c)
      PROVE  Whole(f, k, c) /\ g[k][c] = f[k][c]
  <2>1. HeaderAt(g, k, c) BY <1>8 DEF Whole
  <2>2. HeaderAt(f, k, c) /\ g[k][c] = f[k][c] BY <1>6, <2>1
  <2>. DEFINE n == Cells[f[k][c].val]
  <2>3. n \in Nat /\ n >= 1 /\ c + n - 1 <= HalfCells BY <1>1, <2>2, HeaderFacts, Sizes
  <2>4. \A j \in 2 .. n : g[k][c + j - 1] = [g[k][c] EXCEPT !.part = j]
    BY <1>8, <2>2 DEF Whole
  <2>5. \A j \in 2 .. n : f[k][c + j - 1] = [f[k][c] EXCEPT !.part = j]
    <3>. TAKE j \in 2 .. n
    <3>1. c + j - 1 \in 1 .. HalfCells
      <4>. HIDE DEF n
      <4>. QED BY <2>3, Sizes
    <3>2. j \in 1 .. MaxEntryCells
      <4>1. n \in 1 .. MaxEntryCells BY <1>1, <2>2, HeaderFacts
      <4>. HIDE DEF n
      <4>. QED BY <4>1, Sizes
    <3>3. [f[k][c] EXCEPT !.part = j] \in Laid
      <4>1. f[k][c] \in Laid BY <1>1, <2>2, HeaderFacts
      <4>. QED BY <3>2, <4>1 DEF Laid
    <3>4. g[k][c + j - 1] # as BY <2>2, <2>4, <3>3, MarksAssumption
    <3>. QED BY <1>4, <2>2, <2>4, <3>1, <3>4
  <2>6. Whole(f, k, c) BY <2>2, <2>5 DEF Whole
  <2>. QED BY <2>2, <2>6
<1>9. \A q \in Entries(g) : q \in Entries(f) /\ At(g, q) = At(f, q)
  <2>. TAKE q \in Entries(g)
  <2>1. q \in Place /\ q[1] \in Half /\ q[2] \in 1 .. HalfCells /\ Whole(g, q[1], q[2])
    BY <1>3, EntryFacts
  <2>2. Whole(f, q[1], q[2]) /\ g[q[1]][q[2]] = f[q[1]][q[2]] BY <1>8, <2>1
  <2>. QED BY <2>1, <2>2 DEF Entries, At
<1>10. ASSUME NEW q \in Entries(f), q[1] # h PROVE q \in Entries(g)
  <2>1. q \in Place /\ q[1] \in Half /\ q[2] \in 1 .. HalfCells /\ Whole(f, q[1], q[2])
    BY <1>1, EntryFacts
  <2>2. g[q[1]] = f[q[1]] BY <1>5, <1>10, <2>1
  <2>3. Whole(g, q[1], q[2]) BY <1>1, <2>1, <2>2, WholeAgrees
  <2>. QED BY <2>1, <2>3 DEF Entries
<1>. QED BY <1>3, <1>7, <1>9, <1>10 DEF Fewer, g

\* Cell c of an entry, where the cells before it are r.used.
CellOf(r, i, v, c) == [id |-> i, val |-> v, seq |-> r.seq + 1, part |-> c - r.used]

LEMMA CellFacts ==
  ASSUME NEW r \in Cursors, NEW i \in Ids, NEW v \in Vals, NEW c \in Nat,
         r.used < c, c <= r.used + Cells[v]
  PROVE  /\ CellOf(r, i, v, c) \in Laid /\ CellOf(r, i, v, c) \in Cell
         /\ CellOf(r, i, v, c) # Blank /\ CellOf(r, i, v, c) # Torn
         /\ CellOf(r, i, v, c).part = 1 <=> c = r.used + 1
<1>1. r.used \in Nat /\ r.seq \in Nat BY Sizes DEF Cursors
<1>2. Cells[v] \in 1 .. MaxEntryCells BY Sizes
<1>3. c - r.used \in 1 .. MaxEntryCells BY <1>1, <1>2, Sizes
<1>4. r.seq + 1 \in Nat \ {0} BY <1>1
<1>5. CellOf(r, i, v, c) \in Laid BY <1>3, <1>4 DEF CellOf, Laid
<1>6. CellOf(r, i, v, c).part = c - r.used BY DEF CellOf
<1>7. CellOf(r, i, v, c).part = 1 <=> c = r.used + 1 BY <1>1, <1>6
<1>. QED BY <1>5, <1>7, MarksAssumption DEF Cell

LEMMA ProgramIs ==
  ASSUME NEW f \in Flashes, NEW r \in Cursors, Clear(f, r), NEW i \in Ids, NEW v \in Vals,
         NEW k \in 0 .. Cells[v]
  PROVE  /\ Outside(f, Programmed(f, r, i, v, k), r)
         /\ \A c \in 1 .. HalfCells :
              Programmed(f, r, i, v, k)[r.active][c] =
                IF c \in r.used + 1 .. r.used + k THEN CellOf(r, i, v, c) ELSE f[r.active][c]
<1>. DEFINE g == Programmed(f, r, i, v, k)
            n == Cells[v]
<1>1. r.used \in Nat /\ r.active \in Half /\ HalfCells \in Nat /\ n \in Nat /\ k \in Nat /\ k <= n
  BY Sizes DEF Cursors
<1>2. g[r.active] = [c \in 1 .. HalfCells |->
        IF c \notin r.used + 1 .. r.used + k THEN f[r.active][c]
        ELSE IF f[r.active][c] # Blank THEN Torn
        ELSE [id |-> i, val |-> v, seq |-> r.seq + 1, part |-> c - r.used]]
  BY <1>1 DEF Programmed, Flashes
<1>3. ASSUME NEW c \in 1 .. HalfCells
      PROVE  g[r.active][c] =
               IF c \in r.used + 1 .. r.used + k THEN CellOf(r, i, v, c) ELSE f[r.active][c]
  <2>1. CASE c \in r.used + 1 .. r.used + k
    <3>1. c > r.used BY <1>1, <2>1
    <3>2. f[r.active][c] = Blank BY <3>1 DEF Clear
    <3>. QED BY <1>2, <2>1, <3>2 DEF CellOf
  <2>2. CASE c \notin r.used + 1 .. r.used + k BY <1>2, <2>2
  <2>. QED BY <2>1, <2>2
<1>4. \A h \in Half : h # r.active => g[h] = f[h] BY DEF Programmed, Flashes
<1>5. g \in Flashes
  <2>1. g \in [Half -> [1 .. HalfCells -> Cell]] <=>
          /\ g = [h \in Half |-> g[h]]
          /\ \A h \in Half : g[h] \in [1 .. HalfCells -> Cell]
    OBVIOUS
  <2>2. g = [h \in Half |-> g[h]] BY DEF Programmed, Flashes
  <2>3. ASSUME NEW h \in Half PROVE g[h] \in [1 .. HalfCells -> Cell]
    <3>1. CASE h # r.active BY <1>4, <3>1 DEF Flashes
    <3>2. CASE h = r.active
      <4>1. \A c \in 1 .. HalfCells : g[r.active][c] \in Cell
        <5>. TAKE c \in 1 .. HalfCells
        <5>1. CASE c \in r.used + 1 .. r.used + k
          <6>1. r.used < c /\ c <= r.used + n /\ c \in Nat BY <1>1, <5>1
          <6>. QED BY <1>3, <5>1, <6>1, CellFacts
        <5>2. CASE c \notin r.used + 1 .. r.used + k
          <6>1. f[r.active][c] \in Cell BY <1>1 DEF Flashes
          <6>. QED BY <1>3, <5>2, <6>1
        <5>. QED BY <5>1, <5>2
      <4>2. g[r.active] = [c \in 1 .. HalfCells |-> g[r.active][c]] BY <1>2
      <4>. HIDE DEF g
      <4>. QED BY <3>2, <4>1, <4>2
    <3>. QED BY <3>1, <3>2
  <2>. HIDE DEF g
  <2>. QED BY <2>1, <2>2, <2>3 DEF Flashes
<1>. HIDE DEF g
<1>6. \A h \in Half, c \in 1 .. HalfCells : h # r.active \/ c <= r.used => g[h][c] = f[h][c]
  <2>. TAKE h \in Half, c \in 1 .. HalfCells
  <2>1. CASE h # r.active BY <1>4, <2>1
  <2>2. CASE h = r.active /\ c <= r.used
    <3>1. c \notin r.used + 1 .. r.used + k BY <1>1, <2>2
    <3>. QED BY <1>3, <2>2, <3>1
  <2>. QED BY <2>1, <2>2
<1>7. ASSUME NEW c \in 1 .. HalfCells, c > r.used + 1 PROVE ~HeaderAt(g, r.active, c)
  <2>1. CASE c \in r.used + 1 .. r.used + k
    <3>1. r.used < c /\ c <= r.used + n /\ c \in Nat /\ c # r.used + 1 BY <1>1, <1>7, <2>1
    <3>2. CellOf(r, i, v, c).part # 1 BY <3>1, CellFacts
    <3>. QED BY <1>3, <2>1, <3>2 DEF HeaderAt
  <2>2. CASE c \notin r.used + 1 .. r.used + k
    <3>1. c > r.used BY <1>1, <1>7
    <3>2. g[r.active][c] = Blank BY <1>3, <2>2, <3>1 DEF Clear
    <3>. QED BY <3>2 DEF HeaderAt
  <2>. QED BY <2>1, <2>2
<1>. QED BY <1>3, <1>5, <1>6, <1>7 DEF Outside, g

LEMMA ProgramPart ==
  ASSUME NEW f, Sound(f), NEW r \in Cursors, Clear(f, r), NEW i \in Ids, NEW v \in Vals,
         Fits(r, v), NEW k \in 0 .. Cells[v], k # Cells[v]
  PROVE  /\ Fewer(f, Programmed(f, r, i, v, k))
         /\ Entries(Programmed(f, r, i, v, k)) = Entries(f)
<1>. DEFINE g == Programmed(f, r, i, v, k)
            n == Cells[v]
<1>1. r.used \in Nat /\ r.active \in Half /\ HalfCells \in Nat /\ n \in Nat /\ k \in Nat /\ k < n
      /\ r.used + n <= HalfCells
  BY Sizes DEF Cursors, Fits
<1>2. f \in Flashes BY SoundIs
<1>3. Outside(f, g, r) /\ \A c \in 1 .. HalfCells : g[r.active][c] =
        IF c \in r.used + 1 .. r.used + k THEN CellOf(r, i, v, c) ELSE f[r.active][c]
  BY <1>2, ProgramIs
<1>. HIDE DEF g
<1>4. ASSUME r.used + 1 <= HalfCells, Whole(g, r.active, r.used + 1) PROVE FALSE
  <2>0. r.used + 1 \in 1 .. HalfCells /\ r.used + k + 1 \in 1 .. HalfCells
        /\ r.used + k + 1 \notin r.used + 1 .. r.used + k /\ r.used + k + 1 > r.used
    BY <1>1
  <2>1. g[r.active][r.used + k + 1] = f[r.active][r.used + k + 1]
    BY <1>3, <2>0
  <2>2. g[r.active][r.used + k + 1] = Blank BY <2>0, <2>1 DEF Clear
  <2>3. HeaderAt(g, r.active, r.used + 1) BY <1>4 DEF Whole
  <2>4. k # 0
    <3>. SUFFICES ASSUME k = 0 PROVE FALSE OBVIOUS
    <3>1. g[r.active][r.used + 1] = Blank BY <1>1, <2>2
    <3>. QED BY <2>3, <3>1 DEF HeaderAt
  <2>5. r.used + 1 \in r.used + 1 .. r.used + k BY <1>1, <2>4
  <2>6. g[r.active][r.used + 1] = CellOf(r, i, v, r.used + 1) BY <1>3, <2>0, <2>5
  <2>7. g[r.active][r.used + 1].val = v BY <2>6 DEF CellOf
  <2>8. k + 1 \in 2 .. n /\ (r.used + 1) + (k + 1) - 1 = r.used + k + 1 BY <1>1, <2>4
  <2>9. g[r.active][(r.used + 1) + (k + 1) - 1] = [g[r.active][r.used + 1] EXCEPT !.part = k + 1]
    BY <1>4, <2>7, <2>8 DEF Whole
  <2>10. [g[r.active][r.used + 1] EXCEPT !.part = k + 1] = CellOf(r, i, v, r.used + k + 1)
    <3>1. (r.used + k + 1) - r.used = k + 1 BY <1>1
    <3>. QED BY <2>6, <3>1 DEF CellOf
  <2>11. CellOf(r, i, v, r.used + k + 1) # Blank
    <3>1. r.used + k + 1 \in Nat /\ r.used < r.used + k + 1 /\ r.used + k + 1 <= r.used + n
      BY <1>1
    <3>. QED BY <3>1, CellFacts
  <2>. QED BY <2>2, <2>8, <2>9, <2>10, <2>11
<1>. QED BY <1>3, <1>4, PartKeeps DEF g

\* The whole of it adds an entry, where the cursor was.
New(r) == <<r.active, r.used + 1>>

LEMMA ProgramAdds ==
  ASSUME NEW f, Sound(f), NEW r \in Cursors, Clear(f, r), NEW i \in Ids, NEW v \in Vals,
         Fits(r, v), NEW g, g = Programmed(f, r, i, v, Cells[v])
  PROVE  /\ g \in Flashes /\ Nested(g) /\ Outside(f, g, r)
         /\ New(r) \in Place /\ New(r) \notin Entries(f)
         /\ Entries(g) = Entries(f) \cup {New(r)}
         /\ \A p \in Entries(f) : At(g, p) = At(f, p)
         /\ At(g, New(r)).id = i /\ At(g, New(r)).val = v /\ At(g, New(r)).seq = r.seq + 1
         /\ \A c \in 1 .. HalfCells : c > r.used + Cells[v] => g[r.active][c] = Blank
<1>. DEFINE n == Cells[v]
            e == r.used + 1
<1>1. r.used \in Nat /\ r.active \in Half /\ HalfCells \in Nat /\ n \in Nat /\ n >= 1
      /\ r.used + n <= HalfCells /\ n \in 0 .. Cells[v]
  BY Sizes DEF Cursors, Fits
<1>2. f \in Flashes BY SoundIs
<1>3. Outside(f, g, r) /\ \A c \in 1 .. HalfCells : g[r.active][c] =
        IF c \in r.used + 1 .. r.used + n THEN CellOf(r, i, v, c) ELSE f[r.active][c]
  BY <1>1, <1>2, ProgramIs
<1>4. e \in 1 .. HalfCells /\ e \in r.used + 1 .. r.used + n /\ e > r.used BY <1>1
<1>5. g[r.active][e] = CellOf(r, i, v, e) BY <1>3, <1>4
<1>6. e \in Nat /\ r.used < e /\ e <= r.used + Cells[v] BY <1>1
<1>7. /\ CellOf(r, i, v, e) # Blank /\ CellOf(r, i, v, e) # Torn
      /\ CellOf(r, i, v, e).part = 1
  BY <1>6, CellFacts
<1>8. CellOf(r, i, v, e).id = i /\ CellOf(r, i, v, e).val = v /\ CellOf(r, i, v, e).seq = r.seq + 1
  BY DEF CellOf
<1>9. Whole(g, r.active, e)
  <2>1. e + n - 1 <= HalfCells BY <1>1
  <2>2. HeaderAt(g, r.active, e) BY <1>5, <1>7, <1>8, <2>1 DEF HeaderAt
  <2>3. \A k \in 2 .. n : g[r.active][e + k - 1] = [g[r.active][e] EXCEPT !.part = k]
    <3>. TAKE k \in 2 .. n
    <3>1. e + k - 1 \in 1 .. HalfCells /\ e + k - 1 \in r.used + 1 .. r.used + n
          /\ (e + k - 1) - r.used = k
      BY <1>1
    <3>2. g[r.active][e + k - 1] = CellOf(r, i, v, e + k - 1) BY <1>3, <3>1
    <3>3. CellOf(r, i, v, e + k - 1) = [CellOf(r, i, v, e) EXCEPT !.part = k]
      BY <3>1 DEF CellOf
    <3>. QED BY <1>5, <3>2, <3>3
  <2>. QED BY <1>5, <1>8, <2>2, <2>3 DEF Whole
<1>10. New(r) \in Place BY <1>1, <1>4 DEF New, Place
<1>11. New(r)[1] = r.active /\ New(r)[2] = e BY DEF New
<1>12. New(r) \notin Entries(f)
  <2>1. ~HeaderAt(f, r.active, e) BY <1>1, <1>3, <1>4, Behind
  <2>. QED BY <1>11, <2>1 DEF Entries, Whole
<1>13. At(g, New(r)) = CellOf(r, i, v, e) BY <1>5, <1>11 DEF At
<1>14. ASSUME NEW p \in Place, p # New(r)
       PROVE  /\ p \in Entries(g) <=> p \in Entries(f)
              /\ p \in Entries(f) => At(g, p) = At(f, p)
  <2>1. p[1] \in Half /\ p[2] \in 1 .. HalfCells /\ p = <<p[1], p[2]>> BY DEF Place
  <2>2. CASE p[1] = r.active /\ p[2] > r.used
    <3>1. p[2] # r.used + 1 BY <1>14, <2>1, <2>2 DEF New
    <3>2. p[2] > r.used + 1 BY <1>1, <2>1, <2>2, <3>1
    <3>3. ~HeaderAt(g, p[1], p[2]) BY <1>3, <2>1, <2>2, <3>2 DEF Outside
    <3>4. ~HeaderAt(f, p[1], p[2]) BY <1>3, <2>1, <2>2, Behind
    <3>. QED BY <3>3, <3>4 DEF Entries, Whole
  <2>3. CASE ~(p[1] = r.active /\ p[2] > r.used)
    <3>1. (Whole(g, p[1], p[2]) <=> Whole(f, p[1], p[2])) /\ g[p[1]][p[2]] = f[p[1]][p[2]]
      BY <1>3, <2>1, <2>3, Behind
    <3>. QED BY <3>1 DEF Entries, At
  <2>. QED BY <2>2, <2>3
<1>15. New(r) \in Entries(g) BY <1>9, <1>10, <1>11 DEF Entries
<1>16. Entries(f) \subseteq Place /\ Entries(g) \subseteq Place BY DEF Entries
<1>17. Entries(g) = Entries(f) \cup {New(r)} BY <1>14, <1>15, <1>16
<1>18. \A p \in Entries(f) : At(g, p) = At(f, p) BY <1>12, <1>14, <1>16
<1>19. \A c \in 1 .. HalfCells : c > r.used + n => g[r.active][c] = Blank
  <2>. TAKE c \in 1 .. HalfCells
  <2>. HAVE c > r.used + n
  <2>1. c \notin r.used + 1 .. r.used + n /\ c > r.used BY <1>1
  <2>2. g[r.active][c] = f[r.active][c] BY <1>3, <2>1
  <2>. QED BY <2>1, <2>2 DEF Clear
<1>20. g \in Flashes /\ Nested(g) BY <1>3, Behind DEF Outside
<1>. QED BY <1>3, <1>8, <1>10, <1>12, <1>13, <1>17, <1>18, <1>19, <1>20

\* append() with remember_new(): the value is the current one, and no other moves.
LEMMA AppendKeeps ==
  ASSUME NEW f, NEW r, Indexed(f, r), Clear(f, r), NEW i \in Ids, NEW v \in Vals,
         Fits(r, v), ~TooMany(r, i),
         NEW g, g = Programmed(f, r, i, v, Cells[v]),
         NEW s, s = Remembered(r, i, v)
  PROVE  /\ Indexed(g, s) /\ Clear(g, s)
         /\ s.index[i] = New(r) /\ \A j \in Ids \ {i} : s.index[j] = r.index[j]
         /\ s.active = r.active /\ s.used = r.used + Cells[v] /\ s.pending = r.pending
         /\ Entries(g) = Entries(f) \cup {New(r)} /\ New(r) \in Place
         /\ \A h \in Half : h # r.active => g[h] = f[h]
         /\ Value(g, i) = v /\ \A j \in Ids \ {i} : Value(g, j) = Value(f, j)
<1>. DEFINE n == Cells[v]
            e == r.used + 1
<1>1. r \in Cursors /\ Sound(f) BY DEF Indexed
<1>2. r.used \in Nat /\ r.active \in Half /\ HalfCells \in Nat /\ n \in Nat /\ n >= 1
      /\ r.used + n <= HalfCells /\ r.seq \in Nat
  BY <1>1, Sizes DEF Cursors, Fits
<1>3. /\ g \in Flashes /\ Nested(g) /\ Outside(f, g, r)
      /\ New(r) \in Place /\ New(r) \notin Entries(f)
      /\ Entries(g) = Entries(f) \cup {New(r)}
      /\ \A p \in Entries(f) : At(g, p) = At(f, p)
      /\ At(g, New(r)).id = i /\ At(g, New(r)).val = v /\ At(g, New(r)).seq = r.seq + 1
      /\ \A c \in 1 .. HalfCells : c > r.used + Cells[v] => g[r.active][c] = Blank
  BY <1>1, ProgramAdds
<1>4. /\ s.index = [r.index EXCEPT ![i] = New(r)] /\ s.seq = r.seq + 1
      /\ s.used = r.used + n /\ s.active = r.active /\ s.pending = r.pending
      /\ s = [index |-> s.index, seq |-> s.seq, used |-> s.used, active |-> s.active,
              pending |-> s.pending]
  BY <1>1 DEF Remembered, RememberedAt, Cursors, New
<1>5. r.index \in [Ids -> Place \cup {Nothing}] /\ r.pending \in BOOLEAN BY <1>1 DEF Cursors
<1>6. s.index[i] = New(r) /\ \A j \in Ids \ {i} : s.index[j] = r.index[j] BY <1>4, <1>5
<1>7. s \in Cursors
  <2>1. s.index \in [Ids -> Place \cup {Nothing}] BY <1>3, <1>4, <1>5
  <2>2. s.seq \in Nat /\ s.used \in 0 .. HalfCells BY <1>2, <1>4
  <2>. QED BY <1>2, <1>4, <1>5, <2>1, <2>2 DEF Cursors
<1>8. \A p \in Entries(f) : At(f, p).seq \in Nat /\ At(f, p).seq <= r.seq
  BY <1>1, SoundIs, EntryFacts DEF Indexed
<1>9. \A p \in Entries(g) : At(g, p).seq <= s.seq
  <2>. TAKE p \in Entries(g)
  <2>1. CASE p = New(r) BY <1>2, <1>3, <1>4, <2>1
  <2>2. CASE p # New(r) BY <1>2, <1>3, <1>4, <1>8, <2>2
  <2>. QED BY <2>1, <2>2
<1>10. Distinct(g)
  <2>. SUFFICES ASSUME NEW p \in Entries(g), NEW q \in Entries(g), At(g, p).seq = At(g, q).seq
                PROVE  p = q
    BY DEF Distinct
  <2>1. \A x \in Entries(f) : At(g, x).seq = At(f, x).seq /\ At(g, x).seq # r.seq + 1
    BY <1>2, <1>3, <1>8
  <2>2. CASE p \in Entries(f) /\ q \in Entries(f) BY <1>1, <2>1, <2>2, SoundIs DEF Distinct
  <2>3. CASE p = New(r) \/ q = New(r) BY <1>3, <2>1, <2>3
  <2>. QED BY <1>3, <2>2, <2>3
<1>11. Stored(g) = Stored(f) \cup {i}
  <2>1. \A p \in Entries(f) : At(g, p).id = At(f, p).id BY <1>3
  <2>. QED BY <1>3, <2>1 DEF Stored
<1>12. Cardinality(Stored(g)) <= MaxIds
  <2>1. Live(r) = Stored(f) /\ Cardinality(Live(r)) <= MaxIds /\ IsFiniteSet(Live(r))
        /\ Cardinality(Live(r)) \in Nat
    BY LiveIsStored
  <2>2. CASE i \in Live(r)
    <3>1. Stored(g) = Live(r) BY <1>11, <2>1, <2>2
    <3>. QED BY <2>1, <3>1
  <2>3. CASE i \notin Live(r)
    <3>1. Cardinality(Live(r)) < MaxIds BY <2>1, <2>3, BoundsAssumption DEF TooMany
    <3>2. Cardinality(Live(r) \cup {i}) = Cardinality(Live(r)) + 1
      BY <2>1, <2>3, FS_AddElement
    <3>3. Cardinality(Stored(g)) = Cardinality(Live(r)) + 1 BY <1>11, <2>1, <3>2
    <3>. QED BY <2>1, <3>1, <3>3, BoundsAssumption
  <2>. QED BY <2>2, <2>3
<1>13. Sound(g) BY <1>3, <1>10, <1>12, SoundIs
<1>14. NewestAt(g, i, New(r))
  <2>1. New(r) \in EntriesOf(g, i) BY <1>3 DEF EntriesOf
  <2>2. \A q \in EntriesOf(g, i) : At(g, q).seq <= At(g, New(r)).seq
    BY <1>3, <1>4, <1>9 DEF EntriesOf
  <2>. QED BY <2>1, <2>2 DEF NewestAt
<1>15. \A j \in Ids \ {i} : EntriesOf(g, j) = EntriesOf(f, j)
  <2>1. \A p \in Entries(f) : At(g, p).id = At(f, p).id BY <1>3
  <2>. QED BY <1>3, <2>1 DEF EntriesOf
<1>16. ASSUME NEW j \in Ids \ {i}, r.index[j] # Nothing PROVE NewestAt(g, j, r.index[j])
  <2>1. NewestAt(f, j, r.index[j]) BY <1>16 DEF Indexed
  <2>2. \A q \in EntriesOf(f, j) : At(g, q) = At(f, q) BY <1>3 DEF EntriesOf
  <2>. QED BY <1>15, <2>1, <2>2 DEF NewestAt
<1>17. New(r) # Nothing BY <1>3, MarksAssumption
<1>18. \A j \in Ids : IF s.index[j] = Nothing THEN EntriesOf(g, j) = {}
                      ELSE NewestAt(g, j, s.index[j])
  <2>. TAKE j \in Ids
  <2>1. CASE j = i BY <1>6, <1>14, <1>17, <2>1
  <2>2. CASE j # i
    <3>1. j \in Ids \ {i} /\ s.index[j] = r.index[j] BY <1>6, <2>2
    <3>2. CASE r.index[j] = Nothing
      <4>1. EntriesOf(f, j) = {} BY <3>2 DEF Indexed
      <4>. QED BY <1>15, <3>1, <3>2, <4>1
    <3>3. CASE r.index[j] # Nothing BY <1>16, <3>1, <3>3
    <3>. QED BY <3>2, <3>3
  <2>. QED BY <2>1, <2>2
<1>19. Indexed(g, s) BY <1>7, <1>9, <1>13, <1>18 DEF Indexed
<1>20. Value(g, i) = v BY <1>3, <1>13, <1>14, NewestIs
<1>21. ASSUME NEW j \in Ids \ {i} PROVE Value(g, j) = Value(f, j)
  <2>1. CASE r.index[j] = Nothing BY <1>6, <1>19, <2>1, ValueFacts
  <2>2. CASE r.index[j] # Nothing
    <3>1. r.index[j] \in Entries(f) /\ Value(f, j) = At(f, r.index[j]).val BY <2>2, ValueFacts
    <3>2. Value(g, j) = At(g, r.index[j]).val BY <1>6, <1>19, <2>2, ValueFacts
    <3>. QED BY <1>3, <3>1, <3>2
  <2>. QED BY <2>1, <2>2
<1>22. Clear(g, s)
  <2>1. \A c \in 1 .. HalfCells : c > s.used => g[s.active][c] = Blank BY <1>3, <1>4
  <2>2. ASSUME NEW c \in 1 .. HalfCells, HeaderAt(g, s.active, c)
        PROVE  c + Cells[g[s.active][c].val] - 1 <= s.used
    <3>1. CASE c <= r.used
      <4>1. ~(r.active = r.active /\ c > r.used) BY <1>2, <3>1
      <4>2. HeaderAt(f, r.active, c) /\ g[r.active][c] = f[r.active][c]
        BY <1>1, <1>2, <1>3, <1>4, <2>2, <4>1, Behind
      <4>3. c + Cells[f[r.active][c].val] - 1 <= r.used BY <4>2 DEF Clear
      <4>4. Cells[f[r.active][c].val] \in Nat BY <1>1, <1>2, <4>2, SoundIs, HeaderFacts, Sizes
      <4>. QED BY <1>2, <1>4, <4>2, <4>3, <4>4
    <3>2. CASE c = e
      <4>1. g[s.active][c].val = v BY <1>3, <1>4, <3>2 DEF At, New
      <4>. QED BY <1>2, <1>4, <3>2, <4>1
    <3>3. CASE c > e BY <1>3, <1>4, <2>2, <3>3 DEF Outside
    <3>. QED BY <1>2, <3>1, <3>2, <3>3
  <2>. QED BY <2>1, <2>2 DEF Clear
<1>23. \A h \in Half : h # r.active => g[h] = f[h]
  BY <1>1, SoundIs DEF Programmed, Flashes
<1>. QED BY <1>3, <1>4, <1>6, <1>19, <1>20, <1>21, <1>22, <1>23

\* A program over one that had begun spoils both.
LEMMA Overwritten ==
  ASSUME NEW f, Sound(f), NEW r \in Cursors, Clear(f, r), NEW i \in Ids, NEW v \in Vals,
         NEW k \in 1 .. Cells[v], NEW j \in Ids, NEW w \in Vals, Fits(r, v), Fits(r, w),
         NEW g, g = Programmed(Programmed(f, r, i, v, k), r, j, w, Cells[w])
  PROVE  /\ Fewer(f, g) /\ Entries(g) = Entries(f) /\ Outside(f, g, r)
         /\ \A c \in 1 .. HalfCells : c > r.used + MaxEntryCells => g[r.active][c] = Blank
<1>. DEFINE d == Programmed(f, r, i, v, k)
            n == Cells[w]
<1>1. r.used \in Nat /\ r.active \in Half /\ HalfCells \in Nat /\ n \in Nat /\ n >= 1
      /\ k \in 0 .. Cells[v] /\ k \in Nat /\ k >= 1 /\ Cells[v] \in Nat
      /\ r.used + n <= HalfCells
  BY Sizes DEF Cursors, Fits
<1>2. f \in Flashes BY SoundIs
<1>3. Outside(f, d, r) /\ \A c \in 1 .. HalfCells : d[r.active][c] =
        IF c \in r.used + 1 .. r.used + k THEN CellOf(r, i, v, c) ELSE f[r.active][c]
  BY <1>1, <1>2, ProgramIs
<1>. HIDE DEF d
<1>4. d \in Flashes BY <1>3 DEF Outside
<1>5. g[r.active] = [c \in 1 .. HalfCells |->
        IF c \notin r.used + 1 .. r.used + n THEN d[r.active][c]
        ELSE IF d[r.active][c] # Blank THEN Torn
        ELSE [id |-> j, val |-> w, seq |-> r.seq + 1, part |-> c - r.used]]
      /\ g = [h \in Half |-> g[h]]
      /\ \A h \in Half : h # r.active => g[h] = d[h]
  BY <1>1, <1>4 DEF Programmed, Flashes, d
<1>6. \A c \in 1 .. HalfCells : g[r.active][c] =
        IF c \notin r.used + 1 .. r.used + n THEN d[r.active][c]
        ELSE IF d[r.active][c] # Blank THEN Torn
        ELSE CellOf(r, j, w, c)
  BY <1>5 DEF CellOf
<1>7. g \in Flashes
  <2>1. ASSUME NEW c \in 1 .. HalfCells PROVE g[r.active][c] \in Cell
    <3>1. d[r.active][c] \in Cell BY <1>1, <1>4 DEF Flashes
    <3>2. c \in r.used + 1 .. r.used + n => CellOf(r, j, w, c) \in Cell
      <4>1. c \in r.used + 1 .. r.used + n => c \in Nat /\ r.used < c /\ c <= r.used + Cells[w]
        BY <1>1
      <4>. QED BY <4>1, CellFacts
    <3>. QED BY <1>6, <3>1, <3>2 DEF Cell
  <2>2. g[r.active] = [c \in 1 .. HalfCells |-> g[r.active][c]] BY <1>5
  <2>3. g[r.active] \in [1 .. HalfCells -> Cell] BY <2>1, <2>2
  <2>4. \A h \in Half : g[h] \in [1 .. HalfCells -> Cell] BY <1>4, <1>5, <2>3 DEF Flashes
  <2>. QED BY <1>5, <2>4 DEF Flashes
<1>8. \A h \in Half, c \in 1 .. HalfCells : h # r.active \/ c <= r.used => g[h][c] = f[h][c]
  <2>. TAKE h \in Half, c \in 1 .. HalfCells
  <2>. HAVE h # r.active \/ c <= r.used
  <2>1. d[h][c] = f[h][c] BY <1>3 DEF Outside
  <2>2. CASE h # r.active BY <1>5, <2>1, <2>2
  <2>3. CASE h = r.active
    <3>1. c \notin r.used + 1 .. r.used + n BY <1>1, <2>3
    <3>. QED BY <1>6, <2>1, <2>3, <3>1
  <2>. QED BY <2>2, <2>3
<1>9. ASSUME NEW c \in 1 .. HalfCells, c > r.used + 1 PROVE ~HeaderAt(g, r.active, c)
  <2>. SUFFICES ASSUME HeaderAt(g, r.active, c) PROVE FALSE OBVIOUS
  <2>1. CASE c \notin r.used + 1 .. r.used + n
    <3>1. g[r.active][c] = d[r.active][c] BY <1>6, <2>1
    <3>2. HeaderAt(d, r.active, c) BY <3>1 DEF HeaderAt
    <3>. QED BY <1>3, <1>9, <3>2 DEF Outside
  <2>2. CASE c \in r.used + 1 .. r.used + n
    <3>1. c \in Nat /\ r.used < c /\ c <= r.used + Cells[w] /\ c # r.used + 1 BY <1>1, <1>9, <2>2
    <3>2. CellOf(r, j, w, c).part # 1 BY <3>1, CellFacts
    <3>3. g[r.active][c] = Torn \/ g[r.active][c] = CellOf(r, j, w, c) BY <1>6, <2>2
    <3>. QED BY <3>2, <3>3 DEF HeaderAt
  <2>. QED BY <2>1, <2>2
<1>10. ASSUME r.used + 1 <= HalfCells PROVE ~Whole(g, r.active, r.used + 1)
  <2>0. r.used + 1 \in 1 .. HalfCells /\ r.used + 1 \in r.used + 1 .. r.used + k
        /\ r.used + 1 \in r.used + 1 .. r.used + n /\ r.used < r.used + 1
        /\ r.used + 1 \in Nat /\ r.used + 1 <= r.used + Cells[v]
    BY <1>1, <1>10
  <2>1. d[r.active][r.used + 1] # Blank BY <1>3, <2>0, CellFacts
  <2>2. g[r.active][r.used + 1] = Torn BY <1>6, <2>0, <2>1
  <2>. QED BY <2>2 DEF Whole, HeaderAt
<1>11. Outside(f, g, r) BY <1>7, <1>8, <1>9 DEF Outside
<1>12. ASSUME NEW c \in 1 .. HalfCells, c > r.used + MaxEntryCells PROVE g[r.active][c] = Blank
  <2>1. n <= MaxEntryCells /\ Cells[v] <= MaxEntryCells /\ MaxEntryCells \in Nat BY Sizes
  <2>2. /\ c \notin r.used + 1 .. r.used + n /\ c \notin r.used + 1 .. r.used + k /\ c > r.used
    BY <1>1, <1>12, <2>1
  <2>3. g[r.active][c] = f[r.active][c] BY <1>3, <1>6, <2>2
  <2>. QED BY <2>2, <2>3 DEF Clear
<1>. QED BY <1>10, <1>11, <1>12, PartKeeps

-----------------------------------------------------------------------------
\* What mount() finds.
LEMMA Zero ==
  ASSUME NEW S \in SUBSET Nat, IsFiniteSet(S)
  PROVE  /\ Max({0} \cup S) \in {0} \cup S /\ Max({0} \cup S) \in Nat
         /\ \A x \in S : x <= Max({0} \cup S)
<1>1. IsFiniteSet({0}) BY FS_Singleton
<1>2. IsFiniteSet({0} \cup S) BY <1>1, FS_Union
<1>. DEFINE T == {0} \cup S
<1>3. T \in SUBSET Nat /\ T # {} /\ IsFiniteSet(T) BY <1>2
<1>. HIDE DEF T
<1>4. Max(T) \in T /\ \A x \in T : x <= Max(T) BY <1>3, MaxFacts
<1>. QED BY <1>3, <1>4 DEF T

LEMMA ImageOfCells ==
  ASSUME NEW D \in SUBSET (1 .. HalfCells), NEW f, DOMAIN f = D, f = [x \in D |-> f[x]]
  PROVE  IsFiniteSet(D) /\ IsFiniteSet({f[x] : x \in D})
<1>1. IsFiniteSet(1 .. HalfCells) BY Sizes, FS_Interval
<1>2. IsFiniteSet(D) BY <1>1, FS_Subset
<1>. QED BY <1>2, FiniteImage

LEMMA HighWaterIs ==
  ASSUME NEW f \in Flashes, Nested(f), NEW h \in Half
  PROVE  /\ HighWater(f, h) \in 0 .. HalfCells
         /\ \A c \in 1 .. HalfCells : c > HighWater(f, h) => f[h][c] = Blank
         /\ \A c \in 1 .. HalfCells :
              HeaderAt(f, h, c) => c + Cells[f[h][c].val] - 1 <= HighWater(f, h)
         /\ \/ HighWater(f, h) = 0
            \/ HighWater(f, h) \in 1 .. HalfCells /\ f[h][HighWater(f, h)] # Blank
            \/ \E c \in 1 .. HalfCells :
                 HeaderAt(f, h, c) /\ HighWater(f, h) = c + Cells[f[h][c].val] - 1
<1>. DEFINE D == {c \in 1 .. HalfCells : HeaderAt(f, h, c)}
            g == [c \in D |-> c + Cells[f[h][c].val] - 1]
            B == {c \in 1 .. HalfCells : f[h][c] # Blank}
            A == {g[c] : c \in D}
<1>0. HalfCells \in Nat BY Sizes
<1>1. Headers(f, h) = D BY HeadersAre
<1>2. HighWater(f, h) = Max({0} \cup {c + Cells[f[h][c].val] - 1 : c \in D} \cup B)
  BY <1>1 DEF HighWater
<1>3. A = {c + Cells[f[h][c].val] - 1 : c \in D} OBVIOUS
<1>4. \A c \in D : g[c] \in 1 .. HalfCells
  <2>. TAKE c \in D
  <2>1. c \in 1 .. HalfCells /\ HeaderAt(f, h, c) OBVIOUS
  <2>2. Cells[f[h][c].val] \in 1 .. MaxEntryCells /\ c + Cells[f[h][c].val] - 1 <= HalfCells
    BY <2>1, HeaderFacts
  <2>. QED BY <1>0, <2>1, <2>2, Sizes
<1>5. IsFiniteSet(A)
  <2>1. D \in SUBSET (1 .. HalfCells) /\ DOMAIN g = D /\ g = [c \in D |-> g[c]] OBVIOUS
  <2>. HIDE DEF D, g
  <2>. QED BY <2>1, ImageOfCells
<1>6. IsFiniteSet(B)
  <2>1. IsFiniteSet(1 .. HalfCells) BY Sizes, FS_Interval
  <2>. QED BY <2>1, FS_Subset
<1>. DEFINE S == A \cup B
<1>7. S \in SUBSET (1 .. HalfCells) /\ S \in SUBSET Nat
  <2>1. A \in SUBSET (1 .. HalfCells) BY <1>4
  <2>2. B \in SUBSET (1 .. HalfCells) OBVIOUS
  <2>3. 1 .. HalfCells \subseteq Nat OBVIOUS
  <2>. QED BY <2>1, <2>2, <2>3
<1>8. IsFiniteSet(S) BY <1>5, <1>6, FS_Union
<1>9. HighWater(f, h) = Max({0} \cup S)
  <2>1. {0} \cup {c + Cells[f[h][c].val] - 1 : c \in D} \cup B = {0} \cup S BY <1>3
  <2>. QED BY <1>2, <2>1
<1>10. /\ Max({0} \cup S) \in {0} \cup S /\ Max({0} \cup S) \in Nat
       /\ \A x \in S : x <= Max({0} \cup S)
  <2>. HIDE DEF S
  <2>. QED BY <1>7, <1>8, Zero
<1>11. HighWater(f, h) \in 0 .. HalfCells
  <2>. HIDE DEF S
  <2>. QED BY <1>0, <1>7, <1>9, <1>10
<1>12. ASSUME NEW c \in 1 .. HalfCells, c > HighWater(f, h) PROVE f[h][c] = Blank
  <2>1. c \notin S
    <3>1. HighWater(f, h) \in Nat /\ c \in Nat BY <1>9, <1>10
    <3>. HIDE DEF S
    <3>. QED BY <1>9, <1>10, <1>12, <3>1
  <2>. QED BY <2>1
<1>13. ASSUME NEW c \in 1 .. HalfCells, HeaderAt(f, h, c)
       PROVE  c + Cells[f[h][c].val] - 1 <= HighWater(f, h)
  <2>1. c \in D BY <1>13
  <2>2. g[c] \in S BY <2>1
  <2>3. g[c] = c + Cells[f[h][c].val] - 1 BY <2>1
  <2>. HIDE DEF S, g
  <2>. QED BY <1>9, <1>10, <2>2, <2>3
<1>14. CASE HighWater(f, h) \in A
  <2>1. PICK c \in D : HighWater(f, h) = g[c] BY <1>14
  <2>2. g[c] = c + Cells[f[h][c].val] - 1 /\ c \in 1 .. HalfCells /\ HeaderAt(f, h, c) OBVIOUS
  <2>3. HighWater(f, h) = c + Cells[f[h][c].val] - 1 BY <2>1, <2>2
  <2>. HIDE DEF g, D, S, A, B
  <2>. QED BY <1>11, <1>12, <1>13, <2>2, <2>3
<1>15. CASE HighWater(f, h) \in B
  <2>1. HighWater(f, h) \in 1 .. HalfCells /\ f[h][HighWater(f, h)] # Blank BY <1>15
  <2>. HIDE DEF g, D, S, A, B
  <2>. QED BY <1>11, <1>12, <1>13, <2>1
<1>16. HighWater(f, h) = 0 \/ HighWater(f, h) \in A \/ HighWater(f, h) \in B
  BY <1>9, <1>10
<1>. HIDE DEF g, D, S, A, B
<1>. QED BY <1>11, <1>12, <1>13, <1>14, <1>15, <1>16

LEMMA FoundIs ==
  ASSUME NEW f \in Flashes, Nested(f)
  PROVE  /\ \A p \in Place : p[2] \in Found(f, p[1]) <=> p \in Entries(f)
         /\ \A h \in Half : Found(f, h) = {c \in 1 .. HalfCells : <<h, c>> \in Entries(f)}
<1>1. ASSUME NEW h \in Half PROVE Found(f, h) = {c \in 1 .. HalfCells : Whole(f, h, c)}
  <2>1. Headers(f, h) = {c \in 1 .. HalfCells : HeaderAt(f, h, c)} BY HeadersAre
  <2>. QED BY <2>1 DEF Found, Whole
<1>2. \A p \in Place : p[1] \in Half /\ p[2] \in 1 .. HalfCells BY DEF Place
<1>3. ASSUME NEW h \in Half, NEW c \in 1 .. HalfCells
      PROVE  <<h, c>> \in Entries(f) <=> Whole(f, h, c)
  BY DEF Entries, Place
<1>. QED BY <1>1, <1>2, <1>3 DEF Entries

\* The highest number of a half.
Top(f, h) == Max({0} \cup {f[h][c].seq : c \in Found(f, h)})

LEMMA TopIs ==
  ASSUME NEW f \in Flashes, Nested(f), NEW h \in Half, NEW t, t = Top(f, h)
  PROVE  /\ t \in Nat
         /\ \A p \in Entries(f) : p[1] = h => At(f, p).seq <= t
         /\ t # 0 => \E p \in Entries(f) : p[1] = h /\ At(f, p).seq = t
<1>. DEFINE D == Found(f, h)
            g == [c \in D |-> f[h][c].seq]
            S == {g[c] : c \in D}
<1>1. D = {c \in 1 .. HalfCells : <<h, c>> \in Entries(f)} BY FoundIs
<1>. HIDE DEF D
<1>2. \A c \in D : g[c] \in Nat /\ <<h, c>> \in Entries(f) /\ g[c] = At(f, <<h, c>>).seq
  <2>. TAKE c \in D
  <2>1. <<h, c>> \in Entries(f) BY <1>1
  <2>2. At(f, <<h, c>>) = f[h][c] BY DEF At
  <2>. QED BY <2>1, <2>2, EntryFacts
<1>3. S \in SUBSET Nat BY <1>2
<1>4. IsFiniteSet(S)
  <2>1. D \in SUBSET (1 .. HalfCells) /\ DOMAIN g = D /\ g = [c \in D |-> g[c]] BY <1>1
  <2>. HIDE DEF g
  <2>. QED BY <2>1, ImageOfCells
<1>5. t = Max({0} \cup S)
  <2>1. S = {f[h][c].seq : c \in D} OBVIOUS
  <2>. HIDE DEF S
  <2>. QED BY <2>1 DEF D, Top
<1>6. t \in {0} \cup S /\ t \in Nat /\ \A x \in S : x <= t
  <2>. HIDE DEF S
  <2>. QED BY <1>3, <1>4, <1>5, Zero
<1>7. ASSUME NEW p \in Entries(f), p[1] = h PROVE At(f, p).seq <= t
  <2>1. p = <<h, p[2]>> /\ p[2] \in 1 .. HalfCells BY <1>7, EntryFacts
  <2>2. p[2] \in D BY <1>1, <2>1
  <2>3. g[p[2]] \in S /\ g[p[2]] = At(f, <<h, p[2]>>).seq BY <1>2, <2>2
  <2>. HIDE DEF S, g
  <2>. QED BY <1>6, <2>1, <2>3
<1>8. ASSUME t # 0 PROVE \E p \in Entries(f) : p[1] = h /\ At(f, p).seq = t
  <2>1. PICK c \in D : t = g[c] BY <1>6, <1>8
  <2>2. <<h, c>> \in Entries(f) /\ g[c] = At(f, <<h, c>>).seq /\ <<h, c>>[1] = h BY <1>2
  <2>. HIDE DEF g
  <2>. QED BY <2>1, <2>2
<1>. QED BY <1>6, <1>7, <1>8

LEMMA NewestExists ==
  ASSUME NEW f, Sound(f), NEW i, EntriesOf(f, i) # {}
  PROVE  \E p \in Entries(f) : NewestAt(f, i, p)
<1>. DEFINE E == EntriesOf(f, i)
            g == [p \in E |-> At(f, p).seq]
            S == {g[p] : p \in E}
<1>1. E \subseteq Entries(f) /\ IsFiniteSet(Entries(f)) BY Finite DEF EntriesOf
<1>2. IsFiniteSet(E) BY <1>1, FS_Subset
<1>3. \A p \in E : At(f, p).seq \in Nat BY <1>1, SoundIs, EntryFacts
<1>. HIDE DEF E
<1>4. S \in SUBSET Nat /\ S # {} BY <1>3 DEF E
<1>5. IsFiniteSet(S)
  <2>1. DOMAIN g = E /\ g = [p \in E |-> g[p]] OBVIOUS
  <2>. HIDE DEF g
  <2>. QED BY <1>2, <2>1, FiniteImage
<1>6. Max(S) \in S /\ \A x \in S : x <= Max(S)
  <2>. HIDE DEF S
  <2>. QED BY <1>4, <1>5, MaxFacts
<1>7. PICK p \in E : Max(S) = g[p] BY <1>6
<1>8. \A q \in E : At(f, q).seq <= At(f, p).seq
  <2>. TAKE q \in E
  <2>1. g[q] \in S /\ g[q] = At(f, q).seq /\ g[p] = At(f, p).seq OBVIOUS
  <2>. HIDE DEF S, g
  <2>. QED BY <1>6, <1>7, <2>1
<1>. QED BY <1>1, <1>8 DEF NewestAt, E

LEMMA MountIs ==
  ASSUME NEW f, Sound(f), NEW r, r = Scanned(f)
  PROVE  /\ Indexed(f, r) /\ Clear(f, r)
         /\ ~r.pending => \A p \in Entries(f) : p[1] = r.active
         /\ r.pending => \A h \in Half : \E p \in Entries(f) : p[1] = h
         /\ \A p \in Entries(f) :
              \E q \in Entries(f) : q[1] = r.active /\ At(f, p).seq <= At(f, q).seq
<1>. DEFINE top0 == Top(f, 0)
            top1 == Top(f, 1)
            act == IF Found(f, 0) \cup Found(f, 1) # {}
                   THEN IF top1 > top0 THEN 1 ELSE 0
                   ELSE IF HighWater(f, 1) < HighWater(f, 0) THEN 1 ELSE 0
<1>1. f \in Flashes /\ Nested(f) BY SoundIs
<1>2. \A i \in Ids : {p \in Place : p[2] \in Found(f, p[1]) /\ f[p[1]][p[2]].id = i} = EntriesOf(f, i)
  <2>1. \A p \in Place : p[2] \in Found(f, p[1]) <=> p \in Entries(f) BY <1>1, FoundIs
  <2>2. Entries(f) \subseteq Place BY DEF Entries
  <2>. QED BY <2>1, <2>2 DEF EntriesOf, At
<1>3. r = [index |-> [i \in Ids |-> IF EntriesOf(f, i) = {} THEN Nothing ELSE Newest(f, EntriesOf(f, i))],
           seq |-> Max({top0, top1}), used |-> HighWater(f, act), active |-> act,
           pending |-> Found(f, 0) # {} /\ Found(f, 1) # {}]
  BY <1>2 DEF Scanned, Top
<1>4. 0 \in Half /\ 1 \in Half /\ Half = {0, 1} /\ act \in Half BY DEF Half
<1>5. /\ top0 \in Nat
      /\ \A p \in Entries(f) : p[1] = 0 => At(f, p).seq <= top0
      /\ top0 # 0 => \E p \in Entries(f) : p[1] = 0 /\ At(f, p).seq = top0
  BY <1>1, <1>4, TopIs
<1>6. /\ top1 \in Nat
      /\ \A p \in Entries(f) : p[1] = 1 => At(f, p).seq <= top1
      /\ top1 # 0 => \E p \in Entries(f) : p[1] = 1 /\ At(f, p).seq = top1
  BY <1>1, <1>4, TopIs
<1>. HIDE DEF top0, top1, act
<1>7. /\ r.index = [i \in Ids |-> IF EntriesOf(f, i) = {} THEN Nothing
                                  ELSE Newest(f, EntriesOf(f, i))]
      /\ r.seq = Max({top0, top1}) /\ r.used = HighWater(f, act) /\ r.active = act
      /\ r.pending = (Found(f, 0) # {} /\ Found(f, 1) # {})
  BY <1>3
<1>8. Max({top0, top1}) \in Nat /\ top0 <= Max({top0, top1}) /\ top1 <= Max({top0, top1})
  <2>1. IsFiniteSet({top0} \cup {top1}) BY FS_Singleton, FS_Union
  <2>2. {top0} \cup {top1} = {top0, top1} OBVIOUS
  <2>3. {top0, top1} \in SUBSET Nat /\ {top0, top1} # {} /\ IsFiniteSet({top0, top1})
    BY <1>5, <1>6, <2>1, <2>2
  <2>4. Max({top0, top1}) \in {top0, top1} /\ \A x \in {top0, top1} : x <= Max({top0, top1})
    BY <2>3, MaxFacts
  <2>. QED BY <1>5, <1>6, <2>4
<1>9. ASSUME NEW i \in Ids
      PROVE  /\ r.index[i] = Nothing => EntriesOf(f, i) = {}
             /\ r.index[i] # Nothing => NewestAt(f, i, r.index[i])
             /\ r.index[i] \in Place \cup {Nothing}
  <2>1. CASE EntriesOf(f, i) = {} BY <1>7, <2>1
  <2>2. CASE EntriesOf(f, i) # {}
    <3>1. PICK p \in Entries(f) : NewestAt(f, i, p) BY <2>2, NewestExists
    <3>2. Newest(f, EntriesOf(f, i)) = p BY <3>1, NewestIs
    <3>3. r.index[i] = p BY <1>7, <2>2, <3>2
    <3>4. p \in Place BY <1>1, EntryFacts
    <3>5. p # Nothing BY <3>4, MarksAssumption
    <3>. QED BY <3>1, <3>3, <3>4, <3>5
  <2>. QED BY <2>1, <2>2
<1>10. /\ HighWater(f, act) \in 0 .. HalfCells
       /\ \A c \in 1 .. HalfCells : c > HighWater(f, act) => f[act][c] = Blank
       /\ \A c \in 1 .. HalfCells :
            HeaderAt(f, act, c) => c + Cells[f[act][c].val] - 1 <= HighWater(f, act)
  BY <1>1, <1>4, HighWaterIs
<1>11. r \in Cursors
  <2>1. r.index \in [Ids -> Place \cup {Nothing}]
    <3>1. r.index = [i \in Ids |-> r.index[i]] BY <1>7
    <3>. QED BY <1>9, <3>1
  <2>2. (Found(f, 0) # {} /\ Found(f, 1) # {}) \in BOOLEAN OBVIOUS
  <2>. QED BY <1>3, <1>4, <1>7, <1>8, <1>10, <2>1, <2>2 DEF Cursors
<1>12. \A p \in Entries(f) : At(f, p).seq <= r.seq
  <2>. TAKE p \in Entries(f)
  <2>1. p[1] \in {0, 1} /\ At(f, p).seq \in Nat BY <1>1, <1>4, EntryFacts
  <2>2. At(f, p).seq <= top0 \/ At(f, p).seq <= top1 BY <1>5, <1>6, <2>1
  <2>3. r.seq = Max({top0, top1}) BY <1>7
  <2>. DEFINE m == Max({top0, top1})
  <2>. HIDE DEF m
  <2>4. m \in Nat /\ top0 <= m /\ top1 <= m BY <1>8 DEF m
  <2>5. At(f, p).seq <= m BY <1>5, <1>6, <2>1, <2>2, <2>4
  <2>. QED BY <2>3, <2>5 DEF m
<1>13. Indexed(f, r) BY <1>9, <1>11, <1>12 DEF Indexed
<1>14. Clear(f, r) BY <1>7, <1>10 DEF Clear
<1>15. ASSUME ~r.pending, NEW p \in Entries(f) PROVE p[1] = r.active
  <2>1. p[1] \in {0, 1} /\ p[2] \in 1 .. HalfCells /\ p = <<p[1], p[2]>> /\ At(f, p).seq \in Nat \ {0}
    BY <1>1, <1>4, EntryFacts
  <2>2. /\ Found(f, 0) = {c \in 1 .. HalfCells : <<0, c>> \in Entries(f)}
        /\ Found(f, 1) = {c \in 1 .. HalfCells : <<1, c>> \in Entries(f)}
    BY <1>1, <1>4, FoundIs
  <2>3. Found(f, 0) = {} \/ Found(f, 1) = {} BY <1>7, <1>15
  <2>4. p[1] = 0 => Found(f, 0) # {} BY <2>1, <2>2
  <2>5. p[1] = 1 => Found(f, 1) # {} BY <2>1, <2>2
  <2>6. CASE p[1] = 0
    <3>1. Found(f, 1) = {} /\ Found(f, 0) # {} BY <2>3, <2>4, <2>6
    <3>2. \A q \in Entries(f) : q[1] # 1
      <4>. TAKE q \in Entries(f)
      <4>1. q[2] \in 1 .. HalfCells /\ q = <<q[1], q[2]>> BY <1>1, EntryFacts
      <4>. QED BY <2>2, <3>1, <4>1
    <3>3. top1 = 0 BY <1>6, <3>2
    <3>4. act = 0
      <4>1. ~(top1 > top0) BY <1>5, <3>3
      <4>. QED BY <3>1, <4>1 DEF act
    <3>. QED BY <1>7, <2>6, <3>4
  <2>7. CASE p[1] = 1
    <3>1. Found(f, 0) = {} /\ Found(f, 1) # {} BY <2>3, <2>5, <2>7
    <3>2. \A q \in Entries(f) : q[1] # 0
      <4>. TAKE q \in Entries(f)
      <4>1. q[2] \in 1 .. HalfCells /\ q = <<q[1], q[2]>> BY <1>1, EntryFacts
      <4>. QED BY <2>2, <3>1, <4>1
    <3>3. top0 = 0 BY <1>5, <3>2
    <3>4. At(f, p).seq <= top1 BY <1>6, <2>7
    <3>5. top1 > top0 BY <1>6, <2>1, <3>3, <3>4
    <3>6. act = 1 BY <3>1, <3>5 DEF act
    <3>. QED BY <1>7, <2>7, <3>6
  <2>. QED BY <2>1, <2>6, <2>7
<1>16. ASSUME r.pending, NEW h \in Half PROVE \E p \in Entries(f) : p[1] = h
  <2>1. Found(f, h) # {} BY <1>4, <1>7, <1>16
  <2>2. PICK c \in 1 .. HalfCells : <<h, c>> \in Entries(f) BY <1>1, <2>1, FoundIs
  <2>3. <<h, c>>[1] = h OBVIOUS
  <2>. QED BY <2>2, <2>3
<1>17. ASSUME NEW p \in Entries(f)
       PROVE  \E q \in Entries(f) : q[1] = r.active /\ At(f, p).seq <= At(f, q).seq
  <2>1. p[1] \in {0, 1} /\ p[2] \in 1 .. HalfCells /\ p = <<p[1], p[2]>>
        /\ At(f, p).seq \in Nat \ {0}
    BY <1>1, <1>4, EntryFacts
  <2>2. At(f, p).seq <= top0 \/ At(f, p).seq <= top1 BY <1>5, <1>6, <2>1
  <2>3. Found(f, 0) \cup Found(f, 1) # {}
    <3>1. p[2] \in Found(f, p[1]) BY <1>1, FoundIs, EntryFacts
    <3>. QED BY <2>1, <3>1
  <2>4. CASE top1 > top0
    <3>1. act = 1 BY <2>3, <2>4 DEF act
    <3>2. top1 # 0 /\ At(f, p).seq <= top1 BY <1>5, <1>6, <2>1, <2>2, <2>4
    <3>3. PICK q \in Entries(f) : q[1] = 1 /\ At(f, q).seq = top1 BY <1>6, <3>2
    <3>. QED BY <1>7, <3>1, <3>2, <3>3
  <2>5. CASE ~(top1 > top0)
    <3>1. act = 0 BY <2>3, <2>5 DEF act
    <3>2. top0 # 0 /\ At(f, p).seq <= top0 BY <1>5, <1>6, <2>1, <2>2, <2>5
    <3>3. PICK q \in Entries(f) : q[1] = 0 /\ At(f, q).seq = top0 BY <1>5, <3>2
    <3>. QED BY <1>7, <3>1, <3>2, <3>3
  <2>. QED BY <2>4, <2>5
<1>. QED BY <1>13, <1>14, <1>15, <1>16, <1>17

-----------------------------------------------------------------------------
\* An erase of the idle half, with nothing in it that the index names.
Given(f, g, s) == Value(g, s.id) = s.val /\ \A i \in Ids \ {s.id} : Value(g, i) = Value(f, i)
Settled(r) == \A i \in Live(r) : r.index[i][1] = r.active

LEMMA EraseKeeps ==
  ASSUME NEW f, NEW r, Indexed(f, r), Clear(f, r), Settled(r),
         NEW p \in Nat, NEW as \in {Blank, Torn},
         NEW g, g = Erased(f, 1 - r.active, p, as)
  PROVE  /\ Indexed(g, r) /\ Clear(g, r) /\ Same(f, g) /\ Fewer(f, g)
         /\ g[r.active] = f[r.active]
<1>. DEFINE h == 1 - r.active
<1>1. r.active \in {0, 1} /\ r.active \in Half BY DEF Indexed, Cursors, Half
<1>2. r.active # h BY <1>1
<1>3. Sound(f) /\ f \in Flashes BY SoundIs DEF Indexed
<1>4. /\ Fewer(f, g)
      /\ \A q \in Entries(f) : q[1] # h => q \in Entries(g)
  <2>1. h \in Half BY <1>1 DEF Half
  <2>. HIDE DEF h
  <2>2. g = Erased(f, h, p, as) BY DEF h
  <2>. QED BY <1>3, <2>1, <2>2, ErasedFewer
<1>5. Stands(g, r)
  <2>. SUFFICES \A i \in Live(r) : r.index[i] \in Entries(g) BY DEF Stands
  <2>. TAKE i \in Live(r)
  <2>1. i \in Ids /\ r.index[i] # Nothing BY DEF Live
  <2>2. r.index[i] \in Entries(f) BY <2>1, ValueFacts
  <2>3. r.index[i][1] = r.active BY DEF Settled
  <2>. QED BY <1>2, <1>4, <2>2, <2>3
<1>6. Indexed(g, r) /\ Same(f, g)
  <2>1. Fewer(f, g) BY <1>4
  <2>. QED BY <1>5, <2>1, Keep
<1>7. g[r.active] = f[r.active] BY <1>1, <1>2, <1>3 DEF Erased, Flashes
<1>8. Clear(g, r) BY <1>7 DEF Clear, HeaderAt
<1>. QED BY <1>4, <1>6, <1>7, <1>8

\* The pages an erase has passed.
LEMMA PagePasses ==
  ASSUME NEW f \in Flashes, NEW h \in Half, NEW p \in 1 .. HalfPages,
         \A c \in 1 .. HalfCells : c <= (p - 1) * PageCells => f[h][c] = Blank,
         NEW g, g = Erased(f, h, p, Blank)
  PROVE  /\ \A c \in 1 .. HalfCells : c <= p * PageCells => g[h][c] = Blank
         /\ p = HalfPages => \A c \in 1 .. HalfCells : g[h][c] = Blank
<1>. DEFINE a == (p - 1) * PageCells
            b == p * PageCells
<1>1. a \in Nat /\ b \in Nat
  <2>1. \A x, y \in Nat : x * y \in Nat OBVIOUS
  <2>2. p - 1 \in Nat /\ p \in Nat /\ PageCells \in Nat BY BoundsAssumption
  <2>. QED BY <2>1, <2>2
<1>2. g[h] = [c \in 1 .. HalfCells |-> IF c \in PageOf(p) THEN Blank ELSE f[h][c]]
  BY DEF Erased, Flashes
<1>3. PageOf(p) = a + 1 .. b BY DEF PageOf
<1>. HIDE DEF a, b
<1>4. ASSUME NEW c \in 1 .. HalfCells, c <= b PROVE g[h][c] = Blank
  <2>1. CASE c <= a BY <1>2, <2>1 DEF a
  <2>2. CASE c > a
    <3>1. c \in a + 1 .. b BY <1>1, <1>4, <2>2
    <3>. QED BY <1>2, <1>3, <3>1
  <2>. QED BY <1>1, <2>1, <2>2
<1>5. p = HalfPages => \A c \in 1 .. HalfCells : c <= b BY DEF b, HalfCells
<1>. QED BY <1>4, <1>5 DEF b

LEMMA BlankHalf ==
  ASSUME NEW f \in Flashes, NEW h \in Half, \A c \in 1 .. HalfCells : f[h][c] = Blank,
         NEW p \in Entries(f)
  PROVE  p[1] # h
<1>1. HeaderAt(f, p[1], p[2]) /\ p[2] \in 1 .. HalfCells BY EntryFacts
<1>. QED BY <1>1 DEF HeaderAt

\* collect() opens a half that is blank.
LEMMA OpenedIs ==
  ASSUME NEW f, NEW r, Indexed(f, r), \A c \in 1 .. HalfCells : f[1 - r.active][c] = Blank
  PROVE  /\ Indexed(f, Opened(r)) /\ Clear(f, Opened(r))
         /\ Opened(r).used = 0 /\ Opened(r).active = 1 - r.active
         /\ Opened(r).pending = r.pending /\ Opened(r).index = r.index
<1>1. r \in Cursors BY DEF Indexed
<1>2. /\ Opened(r).used = 0 /\ Opened(r).active = 1 - r.active
      /\ Opened(r).pending = r.pending /\ Opened(r).index = r.index /\ Opened(r).seq = r.seq
      /\ Opened(r) \in Cursors
  <2>1. 0 \in 0 .. HalfCells BY Sizes
  <2>2. r.active \in {0, 1} BY <1>1 DEF Cursors, Half
  <2>3. 1 - r.active \in {0, 1} BY <2>2
  <2>. DEFINE a == 1 - r.active
  <2>. HIDE DEF a
  <2>4. a \in Half BY <2>3 DEF a, Half
  <2>5. Opened(r) = [r EXCEPT !.active = a, !.used = 0] BY DEF Opened, a
  <2>6. /\ Opened(r).used = 0 /\ Opened(r).active = a
        /\ Opened(r).pending = r.pending /\ Opened(r).index = r.index /\ Opened(r).seq = r.seq
        /\ Opened(r) \in Cursors
    BY <1>1, <2>1, <2>4, <2>5 DEF Cursors
  <2>. QED BY <2>6 DEF a
<1>3. Indexed(f, Opened(r)) BY <1>2, SameIndex
<1>4. Clear(f, Opened(r)) BY <1>2 DEF Clear, HeaderAt
<1>. QED BY <1>2, <1>3, <1>4

LEMMA SameCursors ==
  ASSUME NEW f, NEW r, Indexed(f, r), Clear(f, r), NEW s \in Cursors,
         s.index = r.index, s.seq = r.seq, s.used = r.used, s.active = r.active
  PROVE  Indexed(f, s) /\ Clear(f, s)
<1>1. Indexed(f, s) BY SameIndex
<1>2. Clear(f, s) BY DEF Clear, HeaderAt
<1>. QED BY <1>1, <1>2

\* A program of which nothing is down.
LEMMA ProgramNone ==
  ASSUME NEW f, Sound(f), NEW r \in Cursors, Clear(f, r), NEW i \in Ids, NEW v \in Vals
  PROVE  Programmed(f, r, i, v, 0) = f
<1>. DEFINE g == Programmed(f, r, i, v, 0)
<1>1. f \in Flashes BY SoundIs
<1>2. 0 \in 0 .. Cells[v] BY Sizes
<1>3. /\ Outside(f, g, r)
      /\ \A c \in 1 .. HalfCells : g[r.active][c] =
           IF c \in r.used + 1 .. r.used + 0 THEN CellOf(r, i, v, c) ELSE f[r.active][c]
  BY <1>1, <1>2, ProgramIs
<1>4. r.used \in Nat BY Sizes DEF Cursors
<1>. HIDE DEF g
<1>5. \A h \in Half, c \in 1 .. HalfCells : g[h][c] = f[h][c]
  <2>1. \A c \in 1 .. HalfCells : c \notin r.used + 1 .. r.used + 0 BY <1>4
  <2>. QED BY <1>3, <2>1 DEF Outside
<1>6. g \in Flashes BY <1>3 DEF Outside
<1>7. ASSUME NEW h \in Half PROVE g[h] = f[h]
  <2>1. f[h] \in [1 .. HalfCells -> Cell] /\ g[h] \in [1 .. HalfCells -> Cell]
    BY <1>1, <1>6 DEF Flashes
  <2>2. f[h] = [c \in 1 .. HalfCells |-> f[h][c]] /\ g[h] = [c \in 1 .. HalfCells |-> g[h][c]]
    BY <2>1
  <2>. QED BY <1>5, <2>2
<1>. QED BY <1>1, <1>6, <1>7 DEF Flashes, g

-----------------------------------------------------------------------------
\* The room.
LEMMA CopyRoom ==
  ASSUME NEW f, NEW r, Indexed(f, r), Packed(r)
  PROVE  r.used + 2 * MaxEntryCells <= HalfCells
<1>1. r.used \in Nat /\ MaxIds \in Nat /\ HalfCells \in Nat /\ MaxEntryCells \in Nat
  BY Sizes, BoundsAssumption DEF Indexed, Cursors
<1>2. Cardinality(Copied(r)) \in Nat /\ Cardinality(Copied(r)) <= MaxIds
  <2>1. Copied(r) \subseteq Live(r) BY DEF Copied
  <2>2. IsFiniteSet(Live(r)) /\ Cardinality(Live(r)) \in Nat /\ Cardinality(Live(r)) <= MaxIds
    BY LiveIsStored
  <2>3. IsFiniteSet(Copied(r)) /\ Cardinality(Copied(r)) <= Cardinality(Live(r))
    BY <2>1, <2>2, FS_Subset
  <2>4. Cardinality(Copied(r)) \in Nat BY <2>3, FS_CardinalityType
  <2>. QED BY <1>1, <2>2, <2>3, <2>4
<1>. DEFINE n == Cardinality(Copied(r))
<1>3. r.used <= MaxEntryCells * n BY DEF Packed
<1>. HIDE DEF n
<1>4. \A m, k, x \in Nat : k <= x => m * k <= m * x OBVIOUS
<1>5. MaxEntryCells * n <= MaxEntryCells * MaxIds BY <1>1, <1>2, <1>4 DEF n
<1>6. (MaxIds + 2) * MaxEntryCells = MaxEntryCells * MaxIds + 2 * MaxEntryCells BY <1>1
<1>. DEFINE a == MaxEntryCells * n
            b == MaxEntryCells * MaxIds
<1>7. a \in Nat /\ b \in Nat
  <2>1. \A x, y \in Nat : x * y \in Nat OBVIOUS
  <2>. QED BY <1>1, <1>2, <2>1 DEF n
<1>8. r.used <= a /\ a <= b /\ b + 2 * MaxEntryCells <= HalfCells
  BY <1>3, <1>5, <1>6, Sizes
<1>. HIDE DEF a, b
<1>. QED BY <1>1, <1>7, <1>8

LEMMA CopyPacks ==
  ASSUME NEW f, NEW r, Indexed(f, r), Packed(r), NEW i \in Live(r), r.index[i][1] # r.active,
         NEW v \in Vals, NEW s, s.used = r.used + Cells[v], s.active = r.active,
         s.index[i] = New(r), New(r) # Nothing, \A j \in Ids \ {i} : s.index[j] = r.index[j]
  PROVE  Packed(s)
<1>1. i \in Ids BY DEF Live
<1>2. Live(s) = Live(r) BY <1>1 DEF Live
<1>3. New(r)[1] = r.active BY DEF New
<1>4. Copied(s) = Copied(r) \cup {i} /\ i \notin Copied(r)
  BY <1>1, <1>2, <1>3 DEF Copied, Live
<1>5. IsFiniteSet(Copied(r)) /\ Cardinality(Copied(r)) \in Nat
  <2>1. Copied(r) \subseteq Live(r) BY DEF Copied
  <2>2. IsFiniteSet(Live(r)) BY LiveIsStored
  <2>. QED BY <2>1, <2>2, FS_Subset, FS_CardinalityType
<1>6. Cardinality(Copied(r) \cup {i}) = Cardinality(Copied(r)) + 1
  BY <1>4, <1>5, FS_AddElement
<1>7. Cardinality(Copied(s)) = Cardinality(Copied(r)) + 1 BY <1>4, <1>6
<1>. DEFINE n == Cardinality(Copied(r))
<1>8. n \in Nat /\ r.used <= MaxEntryCells * n BY <1>5 DEF Packed
<1>. HIDE DEF n
<1>9. r.used \in Nat /\ MaxEntryCells \in Nat /\ Cells[v] \in Nat /\ Cells[v] <= MaxEntryCells
  BY Sizes DEF Indexed, Cursors
<1>10. MaxEntryCells * (n + 1) = MaxEntryCells * n + MaxEntryCells BY <1>8, <1>9
<1>. DEFINE a == MaxEntryCells * n
<1>11. a \in Nat
  <2>1. \A x, y \in Nat : x * y \in Nat OBVIOUS
  <2>. QED BY <1>8, <1>9, <2>1
<1>12. r.used <= a BY <1>8
<1>. HIDE DEF a
<1>13. r.used + Cells[v] <= a + MaxEntryCells BY <1>9, <1>11, <1>12
<1>. QED BY <1>7, <1>10, <1>13 DEF Packed, a, n

-----------------------------------------------------------------------------
\* What a loss of power, or a panic, leaves.
LEMMA ProgramsAre ==
  ASSUME IInv, pc # "off", NEW p \in Programs
  PROVE  /\ p[1] \in Ids /\ p[2] \in Vals /\ ~TooMany(ram, p[1])
         /\ pc \in {"append", "copy"}
         /\ pc = "append" => req # Nothing /\ p[1] = req.id /\ p[2] = req.val
         /\ pc = "copy" => p[1] \in Uncopied /\ p[2] = Value(flash, p[1])
<1>1. Indexed(flash, ram) /\ TypeInv /\ CallInv /\ PlaceInv BY DEF IInv
<1>2. CASE pc = "append"
  <2>1. p = <<req.id, req.val>> BY <1>2 DEF Programs
  <2>2. req # Nothing /\ req \in [id : Ids, val : Vals] /\ ~ram.pending
    BY <1>1, <1>2 DEF CallInv, TypeInv, PlaceInv
  <2>3. ~TooMany(ram, req.id) BY <1>1, <2>2 DEF PlaceInv
  <2>. QED BY <1>2, <2>1, <2>2, <2>3
<1>3. CASE pc = "copy"
  <2>1. PICK i \in Uncopied : p = <<i, Read(flash, ram, i)>> BY <1>3 DEF Programs
  <2>2. i \in Live(ram) /\ i \in Ids /\ ram.index[i] # Nothing BY DEF Uncopied, Live
  <2>3. Read(flash, ram, i) = Value(flash, i) /\ Value(flash, i) \in Vals
    BY <1>1, <2>2, ValueFacts
  <2>4. ~TooMany(ram, i) BY <2>2 DEF TooMany
  <2>. QED BY <1>3, <2>1, <2>2, <2>3, <2>4
<1>4. pc \in {"append", "copy"} BY DEF Programs
<1>. QED BY <1>2, <1>3, <1>4

LEMMA CutInProgram ==
  ASSUME IInv, pc # "off", NEW g \in Programming
  PROVE  Sound(g) /\ (Same(flash, g) \/ (pc = "append" /\ Given(flash, g, req)))
<1>1. PICK p \in Programs : /\ Fits(ram, p[2])
                            /\ \E k \in 1 .. Cells[p[2]] : g = Partly(p, k)
  BY DEF Programming
<1>2. PICK k \in 1 .. Cells[p[2]] : g = Programmed(flash, ram, p[1], p[2], k)
  BY <1>1 DEF Partly
<1>3. /\ p[1] \in Ids /\ p[2] \in Vals /\ ~TooMany(ram, p[1])
      /\ pc \in {"append", "copy"}
      /\ pc = "append" => req # Nothing /\ p[1] = req.id /\ p[2] = req.val
      /\ pc = "copy" => p[1] \in Uncopied /\ p[2] = Value(flash, p[1])
  BY ProgramsAre
<1>4. Indexed(flash, ram) /\ Clear(flash, ram) /\ Sound(flash) /\ ram \in Cursors
  BY DEF IInv, TypeInv
<1>5. CASE k # Cells[p[2]]
  <2>1. k \in 0 .. Cells[p[2]] BY <1>3, Sizes
  <2>2. Fewer(flash, g) /\ Entries(g) = Entries(flash)
    BY <1>1, <1>2, <1>3, <1>4, <1>5, <2>1, ProgramPart
  <2>3. Stands(g, ram) BY <1>4, <2>2, ValueFacts DEF Stands, Live
  <2>4. Indexed(g, ram) /\ Same(flash, g) BY <1>4, <2>2, <2>3, Keep
  <2>. QED BY <2>4 DEF Indexed
<1>6. CASE k = Cells[p[2]]
  <2>. DEFINE s == Remembered(ram, p[1], p[2])
  <2>1. /\ Indexed(g, s) /\ Value(g, p[1]) = p[2]
        /\ \A j \in Ids \ {p[1]} : Value(g, j) = Value(flash, j)
    BY <1>1, <1>2, <1>3, <1>4, <1>6, AppendKeeps
  <2>2. Sound(g) BY <2>1 DEF Indexed
  <2>3. CASE pc = "append" BY <1>3, <2>1, <2>2, <2>3 DEF Given
  <2>4. CASE pc = "copy" BY <1>3, <2>1, <2>2, <2>4 DEF Same
  <2>. QED BY <1>3, <2>3, <2>4
<1>. QED BY <1>5, <1>6

LEMMA SettledIs ==
  ASSUME IInv, pc = "wipe" \/ Swept
  PROVE  Settled(ram) /\ pc # "off"
<1>1. pc # "off" BY DEF Swept
<1>2. Indexed(flash, ram) /\ PlaceInv BY <1>1 DEF IInv
<1>3. CASE pc = "wipe"
  <2>1. \A p \in Entries(flash) : p[1] = ram.active BY <1>2, <1>3 DEF PlaceInv
  <2>2. \A i \in Live(ram) : ram.index[i] \in Entries(flash) BY <1>2, ValueFacts DEF Live
  <2>. QED BY <1>1, <2>1, <2>2 DEF Settled
<1>4. CASE Swept BY <1>1, <1>4 DEF Settled, Swept, Uncopied
<1>. QED BY <1>3, <1>4

LEMMA CutInErase ==
  ASSUME IInv, pc # "off", NEW as \in {Blank, Torn}, NEW g \in Erasing(as)
  PROVE  Indexed(g, ram) /\ Clear(g, ram) /\ Same(flash, g)
<1>1. pc = "wipe" \/ Swept BY DEF Erasing
<1>2. g = Erased(flash, 1 - ram.active, page, as) BY <1>1 DEF Erasing
<1>3. Settled(ram) BY <1>1, SettledIs
<1>4. Indexed(flash, ram) /\ Clear(flash, ram) /\ page \in Nat BY DEF IInv, TypeInv
<1>. QED BY <1>2, <1>3, <1>4, EraseKeeps

Record == [id |-> PanicId, val |-> PanicVal]

LEMMA ReservedIs ==
  ASSUME NEW f, Indexed(f, ram), Clear(f, ram)
  PROVE  /\ Sound(Reserved(f))
         /\ Same(f, Reserved(f)) \/ Given(f, Reserved(f), Record)
         /\ ~TooMany(ram, PanicId) /\ Fits(ram, PanicVal) => Value(Reserved(f), PanicId) = PanicVal
<1>. DEFINE g == Reserved(f)
            s == Remembered(ram, PanicId, PanicVal)
<1>1. CASE TooMany(ram, PanicId) \/ ~Fits(ram, PanicVal)
  <2>1. g = f BY <1>1 DEF Reserved
  <2>. QED BY <1>1, <2>1 DEF Same, Indexed
<1>2. CASE ~(TooMany(ram, PanicId) \/ ~Fits(ram, PanicVal))
  <2>1. g = Programmed(f, ram, PanicId, PanicVal, Cells[PanicVal]) BY <1>2 DEF Reserved
  <2>. HIDE DEF g
  <2>2. /\ Indexed(g, s) /\ Value(g, PanicId) = PanicVal
        /\ \A j \in Ids \ {PanicId} : Value(g, j) = Value(f, j)
    BY <1>2, <2>1, PanicAssumption, AppendKeeps
  <2>3. Record.id = PanicId /\ Record.val = PanicVal BY DEF Record
  <2>4. Given(f, g, Record) BY <2>2, <2>3 DEF Given
  <2>. QED BY <2>2, <2>4 DEF Indexed, g
<1>. QED BY <1>1, <1>2

LEMMA ReservedOver ==
  ASSUME IInv, pc # "off", NEW f \in Programming
  PROVE  /\ Sound(Reserved(f))
         /\ Same(flash, Reserved(f)) \/ (pc = "append" /\ Given(flash, Reserved(f), req))
<1>. DEFINE g == Reserved(f)
<1>1. CASE TooMany(ram, PanicId) \/ ~Fits(ram, PanicVal)
  <2>1. g = f BY <1>1 DEF Reserved
  <2>. QED BY <2>1, CutInProgram
<1>2. CASE ~(TooMany(ram, PanicId) \/ ~Fits(ram, PanicVal))
  <2>1. PICK p \in Programs : /\ Fits(ram, p[2])
                              /\ \E k \in 1 .. Cells[p[2]] : f = Partly(p, k)
    BY DEF Programming
  <2>2. PICK k \in 1 .. Cells[p[2]] : f = Programmed(flash, ram, p[1], p[2], k)
    BY <2>1 DEF Partly
  <2>3. p[1] \in Ids /\ p[2] \in Vals BY ProgramsAre
  <2>4. Indexed(flash, ram) /\ Clear(flash, ram) /\ Sound(flash) /\ ram \in Cursors
    BY DEF IInv, TypeInv
  <2>5. g = Programmed(Programmed(flash, ram, p[1], p[2], k), ram, PanicId, PanicVal,
                       Cells[PanicVal])
    BY <1>2, <2>2 DEF Reserved
  <2>. HIDE DEF g
  <2>6. Fewer(flash, g) /\ Entries(g) = Entries(flash)
    BY <1>2, <2>1, <2>3, <2>4, <2>5, PanicAssumption, Overwritten
  <2>7. Stands(g, ram) BY <2>4, <2>6, ValueFacts DEF Stands, Live
  <2>8. Indexed(g, ram) /\ Same(flash, g) BY <2>4, <2>6, <2>7, Keep
  <2>. QED BY <2>8 DEF Indexed, g
<1>. QED BY <1>1, <1>2

-----------------------------------------------------------------------------
\* Every action keeps the invariant.
LEMMA MountStep ==
  ASSUME IInv, Mount
  PROVE  IInv'
<1>1. /\ pc = "off" /\ pc' = "idle" /\ ram' = Scanned(flash) /\ saved' = FALSE
      /\ flash' = flash /\ page' = page /\ req' = req /\ answer' = answer
  BY DEF Mount, Mounted
<1>2. TypeInv /\ CallInv /\ Sound(flash) BY DEF IInv, TypeInv
<1>3. /\ Indexed(flash, ram') /\ Clear(flash, ram')
      /\ ~ram'.pending => \A p \in Entries(flash) : p[1] = ram'.active
  BY <1>1, <1>2, MountIs
<1>4. req = Nothing /\ answer # "taken" BY <1>1, <1>2 DEF CallInv
<1>5. TypeInv' BY <1>1, <1>2, <1>3 DEF TypeInv, Indexed
<1>6. CallInv' BY <1>1, <1>4 DEF CallInv
<1>7. PlaceInv' BY <1>1, <1>3, <1>4 DEF PlaceInv
<1>8. RoomInv' BY <1>1 DEF RoomInv
<1>. QED BY <1>1, <1>3, <1>5, <1>6, <1>7, <1>8 DEF IInv

LEMMA SaveStep ==
  ASSUME IInv, NEW i \in Ids, NEW v \in Vals, Save(i, v)
  PROVE  IInv'
<1>. DEFINE s == [id |-> i, val |-> v]
<1>1. /\ pc = "idle" /\ page' = 1 /\ flash' = flash /\ ram' = ram
      /\ s \in [id : Ids, val : Vals] /\ s # Nothing /\ s.id = i /\ s.val = v
  BY MarksAssumption DEF Save
<1>2. TypeInv /\ CallInv /\ PlaceInv /\ RoomInv /\ Indexed(flash, ram) /\ Clear(flash, ram)
  BY <1>1 DEF IInv
<1>. HIDE DEF s
<1>3. \/ ram.pending /\ pc' = "copy" /\ req' = s /\ answer' = "none" /\ saved' = saved
      \/ ~ram.pending /\ Proceed(ram, s)
  BY DEF Save, s
<1>4. 1 \in 1 .. HalfPages BY BoundsAssumption
<1>5. saved \in BOOLEAN BY <1>2 DEF TypeInv
<1>6. CASE ram.pending /\ pc' = "copy" /\ req' = s /\ answer' = "none" /\ saved' = saved
  <2>1. TypeInv' BY <1>1, <1>2, <1>4, <1>6 DEF TypeInv
  <2>2. CallInv' BY <1>1, <1>2, <1>6 DEF CallInv
  <2>3. PlaceInv'
    <3>1. (page' - 1) * PageCells = 0 BY <1>1, BoundsAssumption
    <3>2. \A c \in 1 .. HalfCells : ~(c <= (page' - 1) * PageCells) BY <3>1
    <3>. QED BY <1>1, <1>6, <3>2 DEF PlaceInv
  <2>4. RoomInv' BY <1>1, <1>2, <1>6 DEF RoomInv
  <2>. QED BY <1>1, <1>2, <2>1, <2>2, <2>3, <2>4 DEF IInv
<1>7. CASE ~ram.pending /\ Proceed(ram, s)
  <2>1. CASE TooMany(ram, s.id)
    <3>1. /\ pc' = "idle" /\ req' = Nothing /\ answer' = "too_many_ids"
          /\ saved' = saved
      BY <1>5, <1>7, <2>1 DEF Proceed, Return
    <3>2. TypeInv' BY <1>1, <1>2, <1>4, <3>1 DEF TypeInv
    <3>3. CallInv' BY <3>1 DEF CallInv
    <3>4. PlaceInv' BY <1>1, <1>2, <3>1 DEF PlaceInv
    <3>5. RoomInv' BY <1>1, <1>2, <3>1 DEF RoomInv
    <3>. QED BY <1>1, <1>2, <3>2, <3>3, <3>4, <3>5 DEF IInv
  <2>2. CASE ~TooMany(ram, s.id)
    <3>1. /\ pc' = IF NeedsRoom(ram, s.val) THEN "wipe" ELSE "append"
          /\ req' = s /\ answer' = "none" /\ saved' = saved
      BY <1>7, <2>2 DEF Proceed
    <3>2. TypeInv' BY <1>1, <1>2, <1>4, <3>1 DEF TypeInv
    <3>3. CallInv' BY <1>1, <1>2, <3>1 DEF CallInv
    <3>4. PlaceInv'
      <4>1. (page' - 1) * PageCells = 0 BY <1>1, BoundsAssumption
      <4>2. \A c \in 1 .. HalfCells : ~(c <= (page' - 1) * PageCells) BY <4>1
      <4>3. \A p \in Entries(flash) : p[1] = ram.active BY <1>1, <1>2, <1>7 DEF PlaceInv
      <4>. QED BY <1>1, <1>7, <2>2, <3>1, <4>2, <4>3 DEF PlaceInv
    <3>5. RoomInv'
      <4>1. pc' = "append" => ram.used + Cells[s.val] + Reserve <= HalfCells
        <5>. HAVE pc' = "append"
        <5>1. ~(ram.used + Cells[s.val] + Reserve > HalfCells) BY <3>1 DEF NeedsRoom
        <5>2. ram.used \in Nat /\ Cells[s.val] \in Nat /\ Reserve \in Nat /\ HalfCells \in Nat
          BY <1>1, <1>2, Sizes DEF TypeInv, Cursors
        <5>. QED BY <5>1, <5>2
      <4>. QED BY <1>1, <1>2, <1>7, <3>1, <4>1 DEF RoomInv
    <3>. QED BY <1>1, <1>2, <3>2, <3>3, <3>4, <3>5 DEF IInv
  <2>. QED BY <2>1, <2>2
<1>. QED BY <1>3, <1>6, <1>7

LEMMA CollectStep ==
  ASSUME IInv, Collect
  PROVE  IInv'
<1>1. /\ pc = "idle" /\ page' = 1 /\ pc' = IF ram.pending THEN "copy" ELSE "wipe"
      /\ flash' = flash /\ ram' = ram /\ req' = req /\ answer' = answer /\ saved' = saved
  BY DEF Collect
<1>2. TypeInv /\ CallInv /\ PlaceInv /\ RoomInv /\ Indexed(flash, ram) /\ Clear(flash, ram)
  BY <1>1 DEF IInv
<1>3. 1 \in 1 .. HalfPages BY BoundsAssumption
<1>4. TypeInv' BY <1>1, <1>2, <1>3 DEF TypeInv
<1>5. CallInv' BY <1>1, <1>2 DEF CallInv
<1>6. PlaceInv'
  <2>1. (page' - 1) * PageCells = 0 BY <1>1, BoundsAssumption
  <2>2. \A c \in 1 .. HalfCells : ~(c <= (page' - 1) * PageCells) BY <2>1
  <2>3. ~ram.pending => \A p \in Entries(flash) : p[1] = ram.active BY <1>1, <1>2 DEF PlaceInv
  <2>4. req = Nothing BY <1>1, <1>2 DEF CallInv
  <2>. QED BY <1>1, <2>2, <2>3, <2>4 DEF PlaceInv
<1>7. RoomInv' BY <1>1, <1>2 DEF RoomInv
<1>. QED BY <1>1, <1>2, <1>4, <1>5, <1>6, <1>7 DEF IInv

LEMMA WipeStep ==
  ASSUME IInv, Wipe
  PROVE  IInv'
<1>1. /\ pc = "wipe" /\ flash' = Erased(flash, 1 - ram.active, page, Blank)
      /\ req' = req /\ answer' = answer /\ saved' = saved
  BY DEF Wipe
<1>2. TypeInv /\ CallInv /\ PlaceInv /\ RoomInv /\ Indexed(flash, ram) /\ Clear(flash, ram)
  BY <1>1 DEF IInv
<1>3. ~ram.pending /\ \A p \in Entries(flash) : p[1] = ram.active BY <1>1, <1>2 DEF PlaceInv
<1>4. Settled(ram) /\ page \in Nat /\ page \in 1 .. HalfPages BY <1>1, <1>2, SettledIs DEF TypeInv
<1>5. /\ Indexed(flash', ram) /\ Clear(flash', ram) /\ Fewer(flash, flash')
      /\ flash'[ram.active] = flash[ram.active]
  BY <1>1, <1>2, <1>4, EraseKeeps
<1>6. 1 - ram.active \in Half /\ flash \in Flashes
  <2>1. ram.active \in {0, 1} BY <1>2 DEF TypeInv, Cursors, Half
  <2>2. 1 - ram.active \in {0, 1} BY <2>1
  <2>. QED BY <1>2, <2>2, SoundIs DEF TypeInv, Half
<1>7. \A c \in 1 .. HalfCells : c <= (page - 1) * PageCells => flash[1 - ram.active][c] = Blank
  BY <1>1, <1>2 DEF PlaceInv
<1>. DEFINE h == 1 - ram.active
<1>8. /\ \A c \in 1 .. HalfCells : c <= page * PageCells => flash'[h][c] = Blank
      /\ page = HalfPages => \A c \in 1 .. HalfCells : flash'[h][c] = Blank
  <2>1. h \in Half /\ flash' = Erased(flash, h, page, Blank)
        /\ \A c \in 1 .. HalfCells : c <= (page - 1) * PageCells => flash[h][c] = Blank
    BY <1>1, <1>6, <1>7
  <2>. HIDE DEF h
  <2>. QED BY <1>4, <1>6, <2>1, PagePasses
<1>9. Sound(flash') BY <1>5 DEF Indexed
<1>10. CASE page < HalfPages
  <2>1. page' = page + 1 /\ ram' = ram /\ pc' = pc BY <1>10 DEF Wipe
  <2>2. TypeInv'
    <3>1. page + 1 \in 1 .. HalfPages BY <1>4, <1>10, BoundsAssumption
    <3>. QED BY <1>1, <1>2, <1>9, <2>1, <3>1 DEF TypeInv
  <2>3. CallInv' BY <1>1, <1>2, <2>1 DEF CallInv
  <2>4. PlaceInv'
    <3>1. page' - 1 = page BY <1>4, <2>1
    <3>2. \A p \in Entries(flash') : p[1] = ram.active BY <1>3, <1>5 DEF Fewer
    <3>3. \A c \in 1 .. HalfCells : c <= (page' - 1) * PageCells => flash'[1 - ram'.active][c] = Blank
      BY <1>8, <2>1, <3>1
    <3>4. req # Nothing => ~TooMany(ram, req.id) BY <1>2, <1>3 DEF PlaceInv
    <3>. QED BY <1>1, <1>3, <2>1, <3>2, <3>3, <3>4 DEF PlaceInv
  <2>5. RoomInv' BY <1>1, <1>2, <2>1 DEF RoomInv
  <2>. QED BY <1>1, <1>5, <2>1, <2>2, <2>3, <2>4, <2>5 DEF IInv
<1>11. CASE ~(page < HalfPages)
  <2>1. page' = 1 /\ ram' = Opened(ram) /\ pc' = "copy" BY <1>11 DEF Wipe
  <2>2. page = HalfPages BY <1>4, <1>11, BoundsAssumption
  <2>3. \A c \in 1 .. HalfCells : flash'[1 - ram.active][c] = Blank BY <1>8, <2>2
  <2>4. /\ Indexed(flash', ram') /\ Clear(flash', ram')
        /\ ram'.used = 0 /\ ram'.active = 1 - ram.active
        /\ ram'.pending = ram.pending /\ ram'.index = ram.index
    BY <1>5, <2>1, <2>3, OpenedIs
  <2>5. 1 \in 1 .. HalfPages BY BoundsAssumption
  <2>6. TypeInv'
    <3>1. ram' \in Cursors BY <2>4 DEF Indexed
    <3>. QED BY <1>1, <1>2, <1>9, <2>1, <2>5, <3>1 DEF TypeInv
  <2>7. CallInv' BY <1>1, <1>2, <2>1 DEF CallInv
  <2>8. PlaceInv'
    <3>1. (page' - 1) * PageCells = 0 BY <2>1, BoundsAssumption
    <3>2. \A c \in 1 .. HalfCells : ~(c <= (page' - 1) * PageCells) BY <3>1
    <3>3. req # Nothing => ~TooMany(ram, req.id) BY <1>2, <1>3 DEF PlaceInv
    <3>4. Live(ram') = Live(ram) BY <2>4 DEF Live
    <3>5. req # Nothing => ~TooMany(ram', req.id) BY <3>3, <3>4 DEF TooMany
    <3>. QED BY <1>1, <2>1, <3>2, <3>5 DEF PlaceInv
  <2>9. RoomInv'
    <3>1. Cardinality(Copied(ram')) \in Nat
      <4>1. Copied(ram') \subseteq Live(ram') BY DEF Copied
      <4>2. IsFiniteSet(Live(ram')) BY <2>4, LiveIsStored
      <4>. QED BY <4>1, <4>2, FS_Subset, FS_CardinalityType
    <3>2. Packed(ram')
      <4>1. \A x, y \in Nat : 0 <= x * y OBVIOUS
      <4>. QED BY <2>4, <3>1, <4>1, Sizes DEF Packed
    <3>3. ram'.used + 2 * MaxEntryCells <= HalfCells BY <2>4, <3>2, CopyRoom
    <3>4. ram'.used + Reserve <= HalfCells BY <2>4, <3>3, Sizes
    <3>. QED BY <2>1, <3>2, <3>4 DEF RoomInv
  <2>. QED BY <2>4, <2>6, <2>7, <2>8, <2>9 DEF IInv
<1>. QED BY <1>10, <1>11

\* A verb that fails leaves nothing under way.
LEMMA FailIs ==
  ASSUME TypeInv, CallInv, NEW why \in {"no_room", "media", "gc_failed"}, Fail(why)
  PROVE  /\ pc' = "idle" /\ req' = Nothing /\ saved' = saved
         /\ answer' = IF req = Nothing THEN answer ELSE why
         /\ answer' \in {"none", "taken", "too_many_ids", "no_room", "media", "gc_failed"}
         /\ CallInv'
<1>. DEFINE a == IF req = Nothing THEN answer ELSE why
<1>1. pc' = "idle" /\ req' = Nothing /\ answer' = a /\ saved' = (saved \/ a = "taken")
  BY DEF Fail, Return
<1>2. a = "taken" => saved BY DEF CallInv
<1>3. saved' = saved
  <2>1. saved \in BOOLEAN BY DEF TypeInv
  <2>. HIDE DEF a
  <2>. QED BY <1>1, <1>2, <2>1
<1>4. a \in {"none", "taken", "too_many_ids", "no_room", "media", "gc_failed"} BY DEF TypeInv
<1>. HIDE DEF a
<1>5. CallInv' BY <1>1, <1>2, <1>3 DEF CallInv
<1>. QED BY <1>1, <1>3, <1>4, <1>5 DEF a

LEMMA CopyStep ==
  ASSUME IInv, Copy
  PROVE  IInv'
<1>1. pc = "copy" /\ page' = page BY DEF Copy
<1>2. TypeInv /\ CallInv /\ PlaceInv /\ RoomInv /\ Indexed(flash, ram) /\ Clear(flash, ram)
      /\ Sound(flash) /\ ram \in Cursors
  BY <1>1 DEF IInv, TypeInv
<1>3. PICK i \in Uncopied :
        LET v == Read(flash, ram, i)
        IN IF Fits(ram, v)
           THEN /\ flash' = Programmed(flash, ram, i, v, Cells[v])
                /\ ram' = Remembered(ram, i, v)
                /\ UNCHANGED <<pc, req, answer, saved>>
           ELSE /\ ram' = [ram EXCEPT !.pending = TRUE]
                /\ Fail("no_room")
                /\ UNCHANGED flash
  BY DEF Copy
<1>. DEFINE v == Read(flash, ram, i)
<1>4. i \in Live(ram) /\ i \in Ids /\ ram.index[i] # Nothing /\ ram.index[i][1] # ram.active
  BY DEF Uncopied, Live
<1>5. v \in Vals BY <1>2, <1>4, ValueFacts
<1>. HIDE DEF v
<1>6. ~TooMany(ram, i) BY <1>4 DEF TooMany
<1>7. ~(page > 1) BY <1>1, <1>2 DEF PlaceInv
<1>8. CASE Fits(ram, v)
  <2>1. /\ flash' = Programmed(flash, ram, i, v, Cells[v]) /\ ram' = Remembered(ram, i, v)
        /\ pc' = pc /\ req' = req /\ answer' = answer /\ saved' = saved
    BY <1>3, <1>8 DEF v
  <2>2. /\ Indexed(flash', ram') /\ Clear(flash', ram')
        /\ ram'.index[i] = New(ram) /\ \A j \in Ids \ {i} : ram'.index[j] = ram.index[j]
        /\ ram'.active = ram.active /\ ram'.used = ram.used + Cells[v]
        /\ ram'.pending = ram.pending /\ New(ram) \in Place
        /\ \A h \in Half : h # ram.active => flash'[h] = flash[h]
    BY <1>2, <1>4, <1>5, <1>6, <1>8, <2>1, AppendKeeps
  <2>3. New(ram) # Nothing BY <2>2, MarksAssumption
  <2>4. Live(ram') = Live(ram) BY <1>4, <2>2, <2>3 DEF Live
  <2>5. TypeInv' BY <1>1, <1>2, <2>1, <2>2 DEF TypeInv, Indexed
  <2>6. CallInv' BY <1>1, <1>2, <2>1 DEF CallInv
  <2>7. PlaceInv'
    <3>1. 1 - ram.active \in Half /\ 1 - ram.active # ram.active
      <4>1. ram.active \in {0, 1} BY <1>2 DEF Cursors, Half
      <4>2. 1 - ram.active \in {0, 1} /\ 1 - ram.active # ram.active BY <4>1
      <4>. QED BY <4>2 DEF Half
    <3>2. flash'[1 - ram.active] = flash[1 - ram.active] BY <2>2, <3>1
    <3>3. \A c \in 1 .. HalfCells : c <= (page' - 1) * PageCells => flash'[1 - ram'.active][c] = Blank
      BY <1>1, <1>2, <2>2, <3>2 DEF PlaceInv
    <3>4. req' # Nothing /\ ~ram'.pending => ~TooMany(ram', req'.id)
      BY <1>2, <2>1, <2>2, <2>4 DEF PlaceInv, TooMany
    <3>. QED BY <1>1, <1>7, <2>1, <3>3, <3>4 DEF PlaceInv
  <2>8. Packed(ram) => Packed(ram')
    BY <1>2, <1>4, <1>5, <2>2, <2>3, CopyPacks
  <2>9. RoomInv'
    <3>1. saved \/ ~ram.pending => Packed(ram') BY <1>1, <1>2, <2>8 DEF RoomInv
    <3>2. saved => ram'.used + Reserve <= HalfCells
      <4>. HAVE saved
      <4>1. ram'.used + 2 * MaxEntryCells <= HalfCells BY <2>2, <3>1, CopyRoom
      <4>2. ram'.used \in Nat BY <2>2, Sizes DEF Indexed, Cursors
      <4>. QED BY <4>1, <4>2, Sizes
    <3>. QED BY <1>1, <2>1, <2>2, <3>1, <3>2 DEF RoomInv
  <2>. QED BY <2>2, <2>5, <2>6, <2>7, <2>9 DEF IInv
<1>9. CASE ~Fits(ram, v)
  <2>1. ram' = [ram EXCEPT !.pending = TRUE] /\ Fail("no_room") /\ flash' = flash
    BY <1>3, <1>9 DEF v
  <2>2. /\ pc' = "idle" /\ req' = Nothing /\ saved' = saved
        /\ answer' \in {"none", "taken", "too_many_ids", "no_room", "media", "gc_failed"}
        /\ CallInv'
    BY <1>2, <2>1, FailIs
  <2>3. /\ Indexed(flash', ram') /\ Clear(flash', ram')
        /\ ram'.used = ram.used /\ ram'.active = ram.active /\ ram'.pending = TRUE
        /\ ram'.index = ram.index /\ ram' \in Cursors
    <3>1. /\ ram'.used = ram.used /\ ram'.active = ram.active /\ ram'.pending = TRUE
          /\ ram'.index = ram.index /\ ram'.seq = ram.seq /\ ram' \in Cursors
      BY <1>2, <2>1 DEF Cursors
    <3>. QED BY <1>2, <2>1, <3>1, SameCursors
  <2>4. TypeInv' BY <1>1, <1>2, <2>1, <2>2, <2>3 DEF TypeInv
  <2>5. PlaceInv' BY <2>2, <2>3 DEF PlaceInv
  <2>6. RoomInv'
    <3>1. saved => Packed(ram) BY <1>1, <1>2 DEF RoomInv
    <3>2. Live(ram') = Live(ram) BY <2>3 DEF Live
    <3>3. Packed(ram) => Packed(ram') BY <2>3, <3>2 DEF Packed, Copied
    <3>. QED BY <1>2, <2>2, <2>3, <3>1, <3>3 DEF RoomInv
  <2>. QED BY <2>2, <2>3, <2>4, <2>5, <2>6 DEF IInv
<1>. QED BY <1>8, <1>9

LEMMA SweepStep ==
  ASSUME IInv, Sweep
  PROVE  IInv'
<1>1. /\ Swept /\ pc = "copy" /\ Uncopied = {}
      /\ flash' = Erased(flash, 1 - ram.active, page, Blank)
  BY DEF Sweep, Swept
<1>2. TypeInv /\ CallInv /\ PlaceInv /\ RoomInv /\ Indexed(flash, ram) /\ Clear(flash, ram)
      /\ ram \in Cursors /\ saved \in BOOLEAN
  BY <1>1 DEF IInv, TypeInv
<1>4. Settled(ram) /\ page \in Nat /\ page \in 1 .. HalfPages BY <1>1, <1>2, SettledIs DEF TypeInv
<1>5. /\ Indexed(flash', ram) /\ Clear(flash', ram) /\ Fewer(flash, flash')
  BY <1>1, <1>2, <1>4, EraseKeeps
<1>6. 1 - ram.active \in Half /\ flash \in Flashes
  <2>1. ram.active \in {0, 1} BY <1>2 DEF TypeInv, Cursors, Half
  <2>2. 1 - ram.active \in {0, 1} BY <2>1
  <2>. QED BY <1>2, <2>2, SoundIs DEF TypeInv, Half
<1>7. \A c \in 1 .. HalfCells : c <= (page - 1) * PageCells => flash[1 - ram.active][c] = Blank
  BY <1>1, <1>2 DEF PlaceInv
<1>. DEFINE h == 1 - ram.active
<1>8. /\ \A c \in 1 .. HalfCells : c <= page * PageCells => flash'[h][c] = Blank
      /\ page = HalfPages => \A c \in 1 .. HalfCells : flash'[h][c] = Blank
  <2>1. h \in Half /\ flash' = Erased(flash, h, page, Blank)
        /\ \A c \in 1 .. HalfCells : c <= (page - 1) * PageCells => flash[h][c] = Blank
    BY <1>1, <1>6, <1>7
  <2>. HIDE DEF h
  <2>. QED BY <1>4, <1>6, <2>1, PagePasses
<1>9. Sound(flash') /\ flash' \in Flashes BY <1>5, SoundIs DEF Indexed
<1>10. CASE page < HalfPages
  <2>1. /\ page' = page + 1 /\ ram' = ram /\ pc' = pc
        /\ req' = req /\ answer' = answer /\ saved' = saved
    BY <1>10 DEF Sweep
  <2>2. TypeInv'
    <3>1. page + 1 \in 1 .. HalfPages BY <1>4, <1>10, BoundsAssumption
    <3>. QED BY <1>1, <1>2, <1>9, <2>1, <3>1 DEF TypeInv
  <2>3. CallInv' BY <1>1, <1>2, <2>1 DEF CallInv
  <2>4. PlaceInv'
    <3>1. page' - 1 = page BY <1>4, <2>1
    <3>3. \A c \in 1 .. HalfCells : c <= (page' - 1) * PageCells => flash'[1 - ram'.active][c] = Blank
      BY <1>8, <2>1, <3>1
    <3>4. req # Nothing /\ ~ram.pending => ~TooMany(ram, req.id) BY <1>2 DEF PlaceInv
    <3>5. Uncopied' = {} BY <1>1, <2>1 DEF Uncopied
    <3>. QED BY <1>1, <2>1, <3>3, <3>4, <3>5 DEF PlaceInv
  <2>5. RoomInv' BY <1>1, <1>2, <2>1 DEF RoomInv
  <2>. QED BY <1>1, <1>5, <2>1, <2>2, <2>3, <2>4, <2>5 DEF IInv
<1>11. CASE ~(page < HalfPages)
  <2>1. /\ page' = 1 /\ ram' = [ram EXCEPT !.pending = FALSE]
        /\ \/ req = Nothing /\ Return(answer)
           \/ req # Nothing /\ ram.pending /\ Proceed(ram, req)
           \/ /\ req # Nothing /\ ~ram.pending /\ pc' = "append"
              /\ req' = req /\ answer' = answer /\ saved' = saved
    BY <1>11 DEF Sweep
  <2>2. page = HalfPages BY <1>4, <1>11, BoundsAssumption
  <2>3. \A p \in Entries(flash') : p[1] = ram.active
    <3>. TAKE p \in Entries(flash')
    <3>1. p[1] # h
      <4>1. h \in Half /\ \A c \in 1 .. HalfCells : flash'[h][c] = Blank BY <1>6, <1>8, <2>2
      <4>. HIDE DEF h
      <4>. QED BY <1>9, <4>1, BlankHalf
    <3>2. p[1] \in {0, 1} /\ ram.active \in {0, 1} BY <1>2, <1>9, EntryFacts DEF Cursors, Half
    <3>. QED BY <3>1, <3>2
  <2>4. /\ Indexed(flash', ram') /\ Clear(flash', ram')
        /\ ram'.used = ram.used /\ ram'.active = ram.active /\ ram'.pending = FALSE
        /\ ram'.index = ram.index /\ ram' \in Cursors
    <3>1. /\ ram'.used = ram.used /\ ram'.active = ram.active /\ ram'.pending = FALSE
          /\ ram'.index = ram.index /\ ram'.seq = ram.seq /\ ram' \in Cursors
      BY <1>2, <2>1 DEF Cursors
    <3>. QED BY <1>5, <2>1, <3>1, SameCursors
  <2>5. 1 \in 1 .. HalfPages BY BoundsAssumption
  <2>6. Live(ram') = Live(ram) BY <2>4 DEF Live
  <2>7. (page' - 1) * PageCells = 0 BY <2>1, BoundsAssumption
  <2>8. \A c \in 1 .. HalfCells : ~(c <= (page' - 1) * PageCells) BY <2>7
  <2>9. saved => ram'.used + Reserve <= HalfCells BY <1>2, <2>4 DEF RoomInv
  <2>10. CASE req = Nothing /\ Return(answer)
    <3>1. pc' = "idle" /\ req' = Nothing /\ answer' = answer /\ saved' = saved
      <4>1. saved' = (saved \/ answer = "taken") BY <2>10 DEF Return
      <4>2. answer = "taken" => saved BY <1>2 DEF CallInv
      <4>. QED BY <1>2, <2>10, <4>1, <4>2 DEF Return
    <3>2. TypeInv' BY <1>2, <1>9, <2>1, <2>4, <2>5, <3>1 DEF TypeInv
    <3>3. CallInv' BY <1>2, <3>1 DEF CallInv
    <3>4. PlaceInv' BY <2>3, <2>4, <3>1 DEF PlaceInv
    <3>5. RoomInv' BY <2>4, <2>9, <3>1 DEF RoomInv
    <3>. QED BY <2>4, <3>2, <3>3, <3>4, <3>5 DEF IInv
  <2>11. CASE req # Nothing /\ ram.pending /\ Proceed(ram, req)
    <3>0. req \in [id : Ids, val : Vals] /\ req.val \in Vals BY <1>2, <2>11 DEF TypeInv
    <3>1. CASE TooMany(ram, req.id)
      <4>1. pc' = "idle" /\ req' = Nothing /\ answer' = "too_many_ids" /\ saved' = saved
        BY <1>2, <2>11, <3>1 DEF Proceed, Return
      <4>2. TypeInv' BY <1>2, <1>9, <2>1, <2>4, <2>5, <4>1 DEF TypeInv
      <4>3. CallInv' BY <4>1 DEF CallInv
      <4>4. PlaceInv' BY <2>3, <2>4, <4>1 DEF PlaceInv
      <4>5. RoomInv' BY <2>4, <2>9, <4>1 DEF RoomInv
      <4>. QED BY <2>4, <4>2, <4>3, <4>4, <4>5 DEF IInv
    <3>2. CASE ~TooMany(ram, req.id)
      <4>1. /\ pc' = IF NeedsRoom(ram, req.val) THEN "wipe" ELSE "append"
            /\ req' = req /\ answer' = "none" /\ saved' = saved
        BY <2>11, <3>2 DEF Proceed
      <4>2. TypeInv' BY <1>2, <1>9, <2>1, <2>4, <2>5, <4>1 DEF TypeInv
      <4>3. CallInv' BY <2>11, <4>1 DEF CallInv
      <4>4. ~TooMany(ram', req'.id) BY <2>6, <3>2, <4>1 DEF TooMany
      <4>5. PlaceInv' BY <2>3, <2>4, <2>8, <4>1, <4>4 DEF PlaceInv
      <4>6. RoomInv'
        <5>1. pc' = "append" => ram.used + Cells[req.val] + Reserve <= HalfCells
          <6>. HAVE pc' = "append"
          <6>1. ~(ram.used + Cells[req.val] + Reserve > HalfCells) BY <4>1 DEF NeedsRoom
          <6>2. ram.used \in Nat /\ Cells[req.val] \in Nat /\ Reserve \in Nat /\ HalfCells \in Nat
            BY <1>2, <3>0, Sizes DEF Cursors
          <6>. QED BY <6>1, <6>2
        <5>. QED BY <2>4, <2>9, <4>1, <5>1 DEF RoomInv
      <4>. QED BY <2>4, <4>2, <4>3, <4>5, <4>6 DEF IInv
    <3>. QED BY <3>1, <3>2
  <2>12. CASE /\ req # Nothing /\ ~ram.pending /\ pc' = "append"
              /\ req' = req /\ answer' = answer /\ saved' = saved
    <3>0. req \in [id : Ids, val : Vals] /\ req.val \in Vals BY <1>2, <2>12 DEF TypeInv
    <3>1. TypeInv' BY <1>2, <1>9, <2>1, <2>4, <2>5, <2>12 DEF TypeInv
    <3>2. CallInv' BY <1>1, <1>2, <2>12 DEF CallInv
    <3>3. ~TooMany(ram', req'.id) BY <1>2, <2>6, <2>12 DEF TooMany, PlaceInv
    <3>4. PlaceInv' BY <2>3, <2>4, <2>12, <3>3 DEF PlaceInv
    <3>5. ram.used + Cells[req.val] + Reserve <= HalfCells
      <4>1. Packed(ram) BY <1>1, <1>2, <2>12 DEF RoomInv
      <4>2. ram.used + 2 * MaxEntryCells <= HalfCells BY <1>2, <4>1, CopyRoom
      <4>3. ram.used \in Nat /\ Cells[req.val] \in 1 .. MaxEntryCells
        BY <1>2, <3>0, Sizes DEF Cursors
      <4>. QED BY <4>2, <4>3, Sizes
    <3>6. RoomInv' BY <2>4, <2>9, <2>12, <3>5 DEF RoomInv
    <3>. QED BY <2>4, <3>1, <3>2, <3>4, <3>6 DEF IInv
  <2>. QED BY <2>1, <2>10, <2>11, <2>12
<1>. QED BY <1>10, <1>11

LEMMA AppendEntryStep ==
  ASSUME IInv, AppendEntry
  PROVE  IInv'
<1>1. pc = "append" /\ page' = page BY DEF AppendEntry
<1>2. TypeInv /\ CallInv /\ PlaceInv /\ RoomInv /\ Indexed(flash, ram) /\ Clear(flash, ram)
      /\ ram \in Cursors
  BY <1>1 DEF IInv, TypeInv
<1>3. /\ req \in [id : Ids, val : Vals] /\ req.id \in Ids /\ req.val \in Vals
      /\ ~ram.pending /\ ~TooMany(ram, req.id)
      /\ \A p \in Entries(flash) : p[1] = ram.active
      /\ ram.used + Cells[req.val] + Reserve <= HalfCells
  BY <1>1, <1>2 DEF TypeInv, CallInv, PlaceInv, RoomInv
<1>4. CASE Fits(ram, req.val)
  <2>1. /\ flash' = Programmed(flash, ram, req.id, req.val, Cells[req.val])
        /\ ram' = Remembered(ram, req.id, req.val)
        /\ pc' = "idle" /\ req' = Nothing /\ answer' = "taken" /\ saved' = TRUE
    BY <1>4 DEF AppendEntry, Return
  <2>2. /\ Indexed(flash', ram') /\ Clear(flash', ram')
        /\ ram'.active = ram.active /\ ram'.used = ram.used + Cells[req.val]
        /\ ram'.pending = ram.pending
        /\ Entries(flash') = Entries(flash) \cup {New(ram)}
    BY <1>2, <1>3, <1>4, <2>1, AppendKeeps
  <2>3. TypeInv' BY <1>1, <1>2, <2>1, <2>2 DEF TypeInv, Indexed
  <2>4. CallInv' BY <2>1 DEF CallInv
  <2>5. \A p \in Entries(flash') : p[1] = ram'.active BY <1>3, <2>2 DEF New
  <2>6. PlaceInv' BY <2>1, <2>5 DEF PlaceInv
  <2>7. RoomInv' BY <1>3, <2>1, <2>2 DEF RoomInv
  <2>. QED BY <2>2, <2>3, <2>4, <2>6, <2>7 DEF IInv
<1>5. CASE ~Fits(ram, req.val)
  <2>1. /\ flash' = flash /\ ram' = ram
        /\ pc' = "idle" /\ req' = Nothing /\ answer' = "no_room" /\ saved' = (saved \/ FALSE)
    BY <1>5 DEF AppendEntry, Return
  <2>2. saved' = saved BY <1>2, <2>1 DEF TypeInv
  <2>3. TypeInv' BY <1>1, <1>2, <2>1, <2>2 DEF TypeInv
  <2>4. CallInv' BY <2>1 DEF CallInv
  <2>5. PlaceInv' BY <1>3, <2>1 DEF PlaceInv
  <2>6. RoomInv' BY <1>2, <1>3, <2>1, <2>2 DEF RoomInv
  <2>. QED BY <1>2, <2>1, <2>3, <2>4, <2>5, <2>6 DEF IInv
<1>. QED BY <1>4, <1>5

\* A verb the media fails: the flash is as it was, and a collection that had
\* come to the copying is left to be finished.
LEMMA RefusedStep ==
  ASSUME IInv, pc \in {"wipe", "copy", "append"}, NEW why \in {"media", "gc_failed"}, Fail(why),
         flash' = flash, ram' = [ram EXCEPT !.pending = @ \/ pc = "copy"], page' = page
  PROVE  IInv'
<1>1. TypeInv /\ CallInv /\ PlaceInv /\ RoomInv /\ Indexed(flash, ram) /\ Clear(flash, ram)
      /\ ram \in Cursors
  BY DEF IInv, TypeInv
<1>2. /\ pc' = "idle" /\ req' = Nothing /\ saved' = saved
      /\ answer' \in {"none", "taken", "too_many_ids", "no_room", "media", "gc_failed"}
      /\ CallInv'
  BY <1>1, FailIs
<1>. DEFINE b == ram.pending \/ pc = "copy"
<1>3. b \in BOOLEAN OBVIOUS
<1>4. /\ ram'.used = ram.used /\ ram'.active = ram.active /\ ram'.pending = b
      /\ ram'.index = ram.index /\ ram'.seq = ram.seq /\ ram' \in Cursors
  <2>1. ram' = [ram EXCEPT !.pending = b] OBVIOUS
  <2>. HIDE DEF b
  <2>. QED BY <1>1, <1>3, <2>1 DEF Cursors
<1>5. Indexed(flash, ram') /\ Clear(flash, ram') BY <1>1, <1>4, SameCursors
<1>6. TypeInv' BY <1>1, <1>2, <1>4 DEF TypeInv
<1>7. ~b => pc \in {"wipe", "append"} /\ ~ram.pending OBVIOUS
<1>8. ~b => \A p \in Entries(flash) : p[1] = ram.active BY <1>1, <1>7 DEF PlaceInv
<1>9. b /\ saved => Packed(ram) BY <1>1 DEF RoomInv, PlaceInv
<1>. HIDE DEF b
<1>10. PlaceInv' BY <1>2, <1>4, <1>8 DEF PlaceInv
<1>11. RoomInv'
  <2>1. Live(ram') = Live(ram) BY <1>4 DEF Live
  <2>2. Packed(ram) => Packed(ram') BY <1>4, <2>1 DEF Packed, Copied
  <2>. QED BY <1>1, <1>2, <1>4, <1>9, <2>2 DEF RoomInv
<1>. QED BY <1>2, <1>5, <1>6, <1>10, <1>11 DEF IInv

LEMMA RefuseProgramIs ==
  ASSUME IInv, ~PartialRefusal, RefuseProgram
  PROVE  flash' = flash /\ pc \in {"copy", "append"}
<1>1. PICK p \in Programs : flash' = Partly(p, 0) BY DEF RefuseProgram
<1>2. pc \in {"append", "copy"} BY DEF Programs
<1>3. p[1] \in Ids /\ p[2] \in Vals BY <1>2, ProgramsAre
<1>4. Sound(flash) /\ ram \in Cursors /\ Clear(flash, ram) BY <1>2 DEF IInv, TypeInv
<1>. QED BY <1>1, <1>2, <1>3, <1>4, ProgramNone DEF Partly

LEMMA RefuseStep ==
  ASSUME IInv, ~PartialRefusal, RefuseProgram \/ RefuseErase
  PROVE  IInv'
<1>1. CASE RefuseProgram
  <2>1. flash' = flash /\ pc \in {"copy", "append"} BY <1>1, RefuseProgramIs
  <2>2. /\ Fail("media") /\ page' = page /\ ram' = [ram EXCEPT !.pending = @ \/ pc = "copy"]
    BY <1>1 DEF RefuseProgram
  <2>. QED BY <2>1, <2>2, RefusedStep
<1>2. CASE RefuseErase
  <2>1. /\ Fail("gc_failed") /\ flash' = flash /\ page' = page
        /\ ram' = [ram EXCEPT !.pending = @ \/ pc = "copy"] /\ pc \in {"wipe", "copy"}
    BY <1>2 DEF RefuseErase, Swept
  <2>. QED BY <2>1, RefusedStep
<1>. QED BY <1>1, <1>2

LEMMA ResetKeeps ==
  ASSUME IInv, Reset, Sound(flash')
  PROVE  IInv'
<1>1. /\ pc' = "off" /\ ram' = NoRam /\ req' = Nothing /\ page' = 1
      /\ answer' = "none" /\ saved' = FALSE
  BY DEF Reset
<1>2. NoRam \in Cursors
  <2>1. [i \in Ids |-> Nothing] \in [Ids -> Place \cup {Nothing}] OBVIOUS
  <2>2. 0 \in 0 .. HalfCells /\ 0 \in Half BY Sizes DEF Half
  <2>. QED BY <2>1, <2>2 DEF NoRam, Cursors
<1>3. 1 \in 1 .. HalfPages BY BoundsAssumption
<1>4. TypeInv' BY <1>1, <1>2, <1>3 DEF TypeInv
<1>5. CallInv' BY <1>1 DEF CallInv
<1>. QED BY <1>1, <1>4, <1>5 DEF IInv

LEMMA ResetStep ==
  ASSUME IInv, PowerCut \/ Panic \/ PanicInProgram
  PROVE  IInv'
<1>1. Reset /\ pc # "off" BY DEF PowerCut, Panic, PanicInProgram, Reset
<1>2. Sound(flash) /\ Indexed(flash, ram) /\ Clear(flash, ram) BY <1>1 DEF IInv, TypeInv
<1>3. CASE PowerCut
  <2>1. flash' \in {flash} \cup Programming \cup Erasing(Blank) \cup Erasing(Torn)
    BY <1>3 DEF PowerCut
  <2>2. \A g \in Programming : Sound(g) BY <1>1, CutInProgram
  <2>3. \A g \in Erasing(Blank) : Sound(g) BY <1>1, CutInErase DEF Indexed
  <2>4. \A g \in Erasing(Torn) : Sound(g) BY <1>1, CutInErase DEF Indexed
  <2>5. Sound(flash') BY <1>2, <2>1, <2>2, <2>3, <2>4
  <2>. QED BY <1>1, <2>5, ResetKeeps
<1>4. CASE Panic
  <2>1. PICK f \in {flash} \cup Erasing(Blank) : flash' = Reserved(f) BY <1>4 DEF Panic
  <2>2. Indexed(f, ram) /\ Clear(f, ram) BY <1>1, <1>2, CutInErase
  <2>3. Sound(flash') BY <2>1, <2>2, ReservedIs
  <2>. QED BY <1>1, <2>3, ResetKeeps
<1>5. CASE PanicInProgram
  <2>1. PICK f \in Programming : flash' = Reserved(f) BY <1>5 DEF PanicInProgram
  <2>2. Sound(flash') BY <1>1, <2>1, ReservedOver
  <2>. QED BY <1>1, <2>2, ResetKeeps
<1>. QED BY <1>3, <1>4, <1>5

LEMMA InitHolds == Init => IInv
<1>. SUFFICES ASSUME Init PROVE IInv OBVIOUS
<1>1. /\ Sound(flash) /\ ram = NoRam /\ pc = "off" /\ page = 1 /\ req = Nothing
      /\ answer = "none" /\ saved = FALSE
  BY FormerAssumption DEF Init
<1>2. NoRam \in Cursors
  <2>1. [i \in Ids |-> Nothing] \in [Ids -> Place \cup {Nothing}] OBVIOUS
  <2>2. 0 \in 0 .. HalfCells /\ 0 \in Half BY Sizes DEF Half
  <2>. QED BY <2>1, <2>2 DEF NoRam, Cursors
<1>3. 1 \in 1 .. HalfPages BY BoundsAssumption
<1>. QED BY <1>1, <1>2, <1>3 DEF IInv, TypeInv, CallInv

LEMMA NextKeeps ==
  ASSUME IInv, ~PartialRefusal, [Next]_vars
  PROVE  IInv'
<1>1. CASE Next
  <2>1. CASE Mount BY <2>1, MountStep
  <2>2. ASSUME NEW i \in Ids, NEW v \in Vals, Save(i, v) PROVE IInv' BY <2>2, SaveStep
  <2>3. CASE Collect BY <2>3, CollectStep
  <2>4. CASE Wipe BY <2>4, WipeStep
  <2>5. CASE Copy BY <2>5, CopyStep
  <2>6. CASE Sweep BY <2>6, SweepStep
  <2>7. CASE AppendEntry BY <2>7, AppendEntryStep
  <2>8. CASE RefuseProgram \/ RefuseErase BY <2>8, RefuseStep
  <2>9. CASE PowerCut \/ Panic \/ PanicInProgram BY <2>9, ResetStep
  <2>. QED BY <1>1, <2>1, <2>2, <2>3, <2>4, <2>5, <2>6, <2>7, <2>8, <2>9 DEF Next
<1>2. CASE UNCHANGED vars
  <2>1. /\ flash' = flash /\ ram' = ram /\ pc' = pc /\ page' = page /\ req' = req
        /\ answer' = answer /\ saved' = saved
    BY <1>2 DEF vars
  <2>2. TypeInv' <=> TypeInv BY <2>1 DEF TypeInv
  <2>3. CallInv' <=> CallInv BY <2>1 DEF CallInv
  <2>4. Uncopied' = Uncopied BY <2>1 DEF Uncopied
  <2>5. PlaceInv' <=> PlaceInv BY <2>1, <2>4 DEF PlaceInv
  <2>6. RoomInv' <=> RoomInv BY <2>1 DEF RoomInv
  <2>. QED BY <2>1, <2>2, <2>3, <2>5, <2>6 DEF IInv
<1>. QED BY <1>1, <1>2

\* The strengthening of the properties below holds from boot on, through any
\* number of losses of power, panics, refused erases and refused programs,
\* where a refused program has put nothing down.
THEOREM IInvariant ==
  ASSUME ~PartialRefusal
  PROVE  Spec => []IInv
<1>1. IInv /\ [Next]_vars => IInv' BY NextKeeps
<1>. QED BY <1>1, InitHolds, PTL DEF Spec

\* load() answers at every step what a boot at that moment would: the index
\* in RAM never parts from the flash, through saves, collections and resumed
\* collections (nv_journal.hpp:73-83).
THEOREM IndexIsAlwaysTheFlash ==
  ASSUME ~PartialRefusal
  PROVE  Spec => []IndexIsTheFlash
<1>1. IInv => IndexIsTheFlash
  <2>. SUFFICES ASSUME IInv PROVE IndexIsTheFlash OBVIOUS
  <2>1. TypeOK BY DEF IInv, TypeInv, Sound, TypeOK, Cursors
  <2>2. pc # "off" => \A i \in Ids : Read(flash, ram, i) = Value(flash, i)
    BY ValueFacts DEF IInv
  <2>. QED BY <2>1, <2>2 DEF IndexIsTheFlash
<1>. QED BY <1>1, IInvariant, PTL

\* Once a save has been taken the panic's reserve is there at every step, in
\* a collection too (nv_journal.hpp:360-363, 108-116).
THEOREM ReserveAlwaysKept ==
  ASSUME ~PartialRefusal
  PROVE  Spec => []ReserveKept
<1>1. IInv => ReserveKept BY DEF IInv, RoomInv, CallInv, ReserveKept
<1>. QED BY <1>1, IInvariant, PTL

\* A panic that does not fall within a program leaves its record to the next
\* boot, wherever the save or the collection it interrupts had come to: the
\* reserve is there, and the cells it takes are blank (nv_journal.hpp:108-116).
THEOREM PanicsAreRecorded ==
  ASSUME ~PartialRefusal
  PROVE  Spec => PanicRecorded
<1>1. ASSUME IInv, Panic, saved, ~TooMany(ram, PanicId)
      PROVE  Value(flash', PanicId) = PanicVal
  <2>1. pc # "off" BY <1>1 DEF Panic, Reset
  <2>2. Indexed(flash, ram) /\ Clear(flash, ram) /\ ram \in Cursors /\ RoomInv
    BY <1>1, <2>1 DEF IInv, TypeInv
  <2>3. PICK f \in {flash} \cup Erasing(Blank) : flash' = Reserved(f) BY <1>1 DEF Panic
  <2>4. Indexed(f, ram) /\ Clear(f, ram) BY <1>1, <2>1, <2>2, CutInErase
  <2>5. Fits(ram, PanicVal)
    <3>1. ram.used + Reserve <= HalfCells BY <1>1, <2>2 DEF RoomInv
    <3>2. Cells[PanicVal] \in 1 .. MaxEntryCells BY PanicAssumption, Sizes
    <3>3. ram.used \in Nat BY <2>2, Sizes DEF Cursors
    <3>. QED BY <3>1, <3>2, <3>3, Sizes DEF Fits
  <2>. QED BY <1>1, <2>3, <2>4, <2>5, ReservedIs
<1>2. IInv /\ [Next]_vars =>
        [Panic /\ saved /\ ~TooMany(ram, PanicId) => Value(flash', PanicId) = PanicVal]_vars
  BY <1>1
<1>. QED BY <1>2, IInvariant, PTL DEF Spec, PanicRecorded

-----------------------------------------------------------------------------
\* The journal does what ValueStore promises.
Current == [i \in Ids |-> Value(flash, i)]
Said == IF answer \in {"none", "taken"} THEN answer ELSE "refused"

LEMMA ValueType ==
  ASSUME NEW f, Sound(f), NEW i \in Ids
  PROVE  Value(f, i) \in Vals \cup {Nothing}
<1>1. Indexed(f, Scanned(f)) BY MountIs
<1>. QED BY <1>1, ValueFacts

LEMMA SameCurrent ==
  ASSUME Same(flash, flash')
  PROVE  Current' = Current
BY DEF Same, Current

LEMMA GivenCurrent ==
  ASSUME NEW s \in [id : Ids, val : Vals], Given(flash, flash', s)
  PROVE  Current' = [Current EXCEPT ![s.id] = s.val]
<1>1. s.id \in Ids OBVIOUS
<1>2. Value(flash', s.id) = s.val /\ \A i \in Ids \ {s.id} : Value(flash', i) = Value(flash, i)
  BY DEF Given
<1>. QED BY <1>1, <1>2 DEF Current

\* Its steps, in the journal's terms.
StoreNext ==
  \/ \E i \in Ids, v \in Vals :
       req = Nothing /\ req' = [id |-> i, val |-> v] /\ Said' = "none" /\ Current' = Current
  \/ req = Nothing /\ Said' = "refused" /\ Current' = Current /\ req' = req
  \/ /\ req # Nothing /\ Current' = [Current EXCEPT ![req.id] = req.val]
     /\ req' = Nothing /\ Said' = "taken"
  \/ req # Nothing /\ req' = Nothing /\ Said' = "refused" /\ Current' = Current
  \/ /\ \/ Current' = Current
        \/ req # Nothing /\ Current' = [Current EXCEPT ![req.id] = req.val]
     /\ req' = Nothing /\ Said' = "none"
  \/ /\ \/ Current' = Current
        \/ Current' = [Current EXCEPT ![PanicId] = PanicVal]
     /\ req' = Nothing /\ Said' = "none"
StoreSame == Current' = Current /\ req' = req /\ Said' = Said

LEMMA StoreIs ==
  /\ StoreNext => Store!Next
  /\ StoreSame => UNCHANGED Store!vars
<1>1. StoreSame => UNCHANGED Store!vars BY DEF StoreSame, Store!vars, Current, Said
<1>2. CASE \E i \in Ids, v \in Vals :
             req = Nothing /\ req' = [id |-> i, val |-> v] /\ Said' = "none" /\ Current' = Current
  <2>1. PICK i \in Ids, v \in Vals :
          req = Nothing /\ req' = [id |-> i, val |-> v] /\ Said' = "none" /\ Current' = Current
    BY <1>2
  <2>2. Store!Ask(i, v) BY <2>1 DEF Store!Ask, Current, Said
  <2>. QED BY <1>1, <2>2 DEF Store!Next
<1>3. CASE req = Nothing /\ Said' = "refused" /\ Current' = Current /\ req' = req
  <2>1. Store!RefuseAtOnce BY <1>3 DEF Store!RefuseAtOnce, Current, Said
  <2>. QED BY <1>1, <2>1 DEF Store!Next
<1>4. CASE /\ req # Nothing /\ Current' = [Current EXCEPT ![req.id] = req.val]
           /\ req' = Nothing /\ Said' = "taken"
  <2>1. Store!Take BY <1>4 DEF Store!Take, Store!Holding, Current, Said
  <2>. QED BY <1>1, <2>1 DEF Store!Next
<1>5. CASE req # Nothing /\ req' = Nothing /\ Said' = "refused" /\ Current' = Current
  <2>1. Store!Refuse BY <1>5 DEF Store!Refuse, Current, Said
  <2>. QED BY <1>1, <2>1 DEF Store!Next
<1>6. CASE /\ \/ Current' = Current
              \/ req # Nothing /\ Current' = [Current EXCEPT ![req.id] = req.val]
           /\ req' = Nothing /\ Said' = "none"
  <2>1. Store!Holding(req) = [Current EXCEPT ![req.id] = req.val] BY DEF Store!Holding, Current
  <2>2. req # Nothing => Store!Holding(req) \in {Store!Holding(s) : s \in {req} \ {Nothing}}
    OBVIOUS
  <2>3. Current' \in {Current} \cup {Store!Holding(s) : s \in {req} \ {Nothing}}
    BY <1>6, <2>1, <2>2
  <2>4. Store!Lose BY <1>6, <2>3 DEF Store!Lose, Current, Said
  <2>. QED BY <1>1, <2>4 DEF Store!Next
<1>7. CASE /\ \/ Current' = Current
              \/ Current' = [Current EXCEPT ![PanicId] = PanicVal]
           /\ req' = Nothing /\ Said' = "none"
  <2>1. Store!Holding([id |-> PanicId, val |-> PanicVal]) = [Current EXCEPT ![PanicId] = PanicVal]
    BY DEF Store!Holding, Current
  <2>2. Current' \in {Current, Store!Holding([id |-> PanicId, val |-> PanicVal])} BY <1>7, <2>1
  <2>3. Store!Panic BY <1>7, <2>2 DEF Store!Panic, Current, Said
  <2>. QED BY <1>1, <2>3 DEF Store!Next
<1>. QED BY <1>1, <1>2, <1>3, <1>4, <1>5, <1>6, <1>7 DEF StoreNext

LEMMA FailStores ==
  ASSUME TypeInv, CallInv, NEW why \in {"no_room", "media", "gc_failed"}, Fail(why),
         Current' = Current
  PROVE  StoreNext \/ StoreSame
<1>1. req' = Nothing /\ answer' = IF req = Nothing THEN answer ELSE why BY FailIs
<1>2. CASE req = Nothing BY <1>1, <1>2 DEF StoreSame, Said
<1>3. CASE req # Nothing BY <1>1, <1>3 DEF StoreNext, Said
<1>. QED BY <1>2, <1>3

LEMMA ProceedStores ==
  ASSUME NEW s, Proceed(ram, s)
  PROVE  \/ req' = Nothing /\ Said' = "refused"
         \/ req' = s /\ Said' = "none" /\ answer' = "none"
<1>1. CASE TooMany(ram, s.id)
  <2>1. req' = Nothing /\ answer' = "too_many_ids" BY <1>1 DEF Proceed, Return
  <2>. QED BY <2>1 DEF Said
<1>2. CASE ~TooMany(ram, s.id)
  <2>1. req' = s /\ answer' = "none" BY <1>2 DEF Proceed
  <2>. QED BY <2>1 DEF Said
<1>. QED BY <1>1, <1>2

LEMMA EraseStores ==
  ASSUME IInv, pc = "wipe" \/ Swept, flash' = Erased(flash, 1 - ram.active, page, Blank)
  PROVE  Current' = Current
<1>1. pc # "off" /\ flash' \in Erasing(Blank) BY DEF Erasing, Swept
<1>2. Same(flash, flash') BY <1>1, CutInErase
<1>. QED BY <1>2, SameCurrent

LEMMA CopyStores ==
  ASSUME IInv, Copy
  PROVE  StoreNext \/ StoreSame
<1>1. pc = "copy" BY DEF Copy
<1>2. TypeInv /\ CallInv /\ Indexed(flash, ram) /\ Clear(flash, ram)
  BY <1>1 DEF IInv
<1>3. PICK i \in Uncopied :
        LET v == Read(flash, ram, i)
        IN IF Fits(ram, v)
           THEN /\ flash' = Programmed(flash, ram, i, v, Cells[v])
                /\ ram' = Remembered(ram, i, v)
                /\ UNCHANGED <<pc, req, answer, saved>>
           ELSE /\ ram' = [ram EXCEPT !.pending = TRUE]
                /\ Fail("no_room")
                /\ UNCHANGED flash
  BY DEF Copy
<1>. DEFINE v == Read(flash, ram, i)
<1>4. i \in Live(ram) /\ i \in Ids /\ ram.index[i] # Nothing BY DEF Uncopied, Live
<1>5. v \in Vals /\ v = Value(flash, i) BY <1>2, <1>4, ValueFacts
<1>. HIDE DEF v
<1>6. ~TooMany(ram, i) BY <1>4 DEF TooMany
<1>7. CASE Fits(ram, v)
  <2>1. /\ flash' = Programmed(flash, ram, i, v, Cells[v]) /\ ram' = Remembered(ram, i, v)
        /\ req' = req /\ answer' = answer
    BY <1>3, <1>7 DEF v
  <2>2. Value(flash', i) = v /\ \A j \in Ids \ {i} : Value(flash', j) = Value(flash, j)
    BY <1>2, <1>4, <1>5, <1>6, <1>7, <2>1, AppendKeeps
  <2>3. Same(flash, flash') BY <1>5, <2>2 DEF Same
  <2>4. Current' = Current BY <2>3, SameCurrent
  <2>. QED BY <2>1, <2>4 DEF StoreSame, Said
<1>8. CASE ~Fits(ram, v)
  <2>1. Fail("no_room") /\ flash' = flash BY <1>3, <1>8 DEF v
  <2>2. Current' = Current BY <2>1 DEF Current
  <2>. QED BY <1>2, <2>1, <2>2, FailStores
<1>. QED BY <1>7, <1>8

LEMMA SweepStores ==
  ASSUME IInv, Sweep
  PROVE  StoreNext \/ StoreSame
<1>1. Swept /\ pc = "copy" /\ flash' = Erased(flash, 1 - ram.active, page, Blank)
  BY DEF Sweep, Swept
<1>2. Current' = Current BY <1>1, EraseStores
<1>3. CallInv BY DEF IInv
<1>4. CASE page < HalfPages
  <2>1. req' = req /\ answer' = answer BY <1>4 DEF Sweep
  <2>. QED BY <1>2, <2>1 DEF StoreSame, Said
<1>5. CASE ~(page < HalfPages)
  <2>1. \/ req = Nothing /\ Return(answer)
        \/ req # Nothing /\ Proceed(ram, req)
        \/ req' = req /\ answer' = answer
    BY <1>5 DEF Sweep
  <2>2. CASE req = Nothing /\ Return(answer)
    BY <1>2, <2>2 DEF StoreSame, Said, Return
  <2>3. CASE req # Nothing /\ Proceed(ram, req)
    <3>1. answer = "none" BY <1>3, <2>3 DEF CallInv
    <3>2. CASE req' = Nothing /\ Said' = "refused" BY <1>2, <2>3, <3>2 DEF StoreNext
    <3>3. CASE req' = req /\ Said' = "none" /\ answer' = "none"
      BY <1>2, <3>1, <3>3 DEF StoreSame, Said
    <3>. QED BY <2>3, <3>2, <3>3, ProceedStores
  <2>4. CASE req' = req /\ answer' = answer BY <1>2, <2>4 DEF StoreSame, Said
  <2>. QED BY <2>1, <2>2, <2>3, <2>4
<1>. QED BY <1>4, <1>5

LEMMA AppendStores ==
  ASSUME IInv, AppendEntry
  PROVE  StoreNext \/ StoreSame
<1>1. pc = "append" BY DEF AppendEntry
<1>2. TypeInv /\ CallInv /\ PlaceInv /\ Indexed(flash, ram) /\ Clear(flash, ram)
  BY <1>1 DEF IInv
<1>3. /\ req # Nothing /\ req \in [id : Ids, val : Vals] /\ req.id \in Ids /\ req.val \in Vals
      /\ ~TooMany(ram, req.id)
  BY <1>1, <1>2 DEF TypeInv, CallInv, PlaceInv
<1>4. CASE Fits(ram, req.val)
  <2>1. /\ flash' = Programmed(flash, ram, req.id, req.val, Cells[req.val])
        /\ ram' = Remembered(ram, req.id, req.val) /\ req' = Nothing /\ answer' = "taken"
    BY <1>4 DEF AppendEntry, Return
  <2>2. /\ Value(flash', req.id) = req.val
        /\ \A j \in Ids \ {req.id} : Value(flash', j) = Value(flash, j)
    BY <1>2, <1>3, <1>4, <2>1, AppendKeeps
  <2>3. Given(flash, flash', req) BY <2>2 DEF Given
  <2>4. Current' = [Current EXCEPT ![req.id] = req.val] BY <1>3, <2>3, GivenCurrent
  <2>. QED BY <1>3, <2>1, <2>4 DEF StoreNext, Said
<1>5. CASE ~Fits(ram, req.val)
  <2>1. flash' = flash /\ req' = Nothing /\ answer' = "no_room"
    BY <1>5 DEF AppendEntry, Return
  <2>2. Current' = Current BY <2>1 DEF Current
  <2>. QED BY <1>3, <2>1, <2>2 DEF StoreNext, Said
<1>. QED BY <1>4, <1>5

LEMMA LoseStores ==
  ASSUME IInv, Reset,
         Same(flash, flash') \/ (pc = "append" /\ Given(flash, flash', req))
  PROVE  StoreNext
<1>1. req' = Nothing /\ answer' = "none" BY DEF Reset
<1>2. Said' = "none" BY <1>1 DEF Said
<1>3. CASE Same(flash, flash')
  <2>1. Current' = Current BY <1>3, SameCurrent
  <2>. QED BY <1>1, <1>2, <2>1 DEF StoreNext
<1>4. CASE pc = "append" /\ Given(flash, flash', req)
  <2>1. req # Nothing /\ req \in [id : Ids, val : Vals]
    BY <1>4 DEF IInv, TypeInv, CallInv
  <2>2. Current' = [Current EXCEPT ![req.id] = req.val] BY <1>4, <2>1, GivenCurrent
  <2>. QED BY <1>1, <1>2, <2>1, <2>2 DEF StoreNext
<1>. QED BY <1>3, <1>4

LEMMA ResetStores ==
  ASSUME IInv, PowerCut \/ Panic \/ PanicInProgram
  PROVE  StoreNext
<1>1. Reset /\ pc # "off" BY DEF PowerCut, Panic, PanicInProgram, Reset
<1>2. Indexed(flash, ram) /\ Clear(flash, ram) BY <1>1 DEF IInv
<1>3. Same(flash, flash) BY DEF Same
<1>4. CASE PowerCut
  <2>1. flash' \in {flash} \cup Programming \cup Erasing(Blank) \cup Erasing(Torn)
    BY <1>4 DEF PowerCut
  <2>2. \A g \in Programming : Same(flash, g) \/ (pc = "append" /\ Given(flash, g, req))
    BY <1>1, CutInProgram
  <2>3. \A g \in Erasing(Blank) : Same(flash, g) BY <1>1, CutInErase
  <2>4. \A g \in Erasing(Torn) : Same(flash, g) BY <1>1, CutInErase
  <2>5. Same(flash, flash') \/ (pc = "append" /\ Given(flash, flash', req))
    BY <1>3, <2>1, <2>2, <2>3, <2>4
  <2>. QED BY <1>1, <2>5, LoseStores
<1>5. CASE Panic
  <2>1. PICK f \in {flash} \cup Erasing(Blank) : flash' = Reserved(f) BY <1>5 DEF Panic
  <2>2. Indexed(f, ram) /\ Clear(f, ram) /\ Same(flash, f) BY <1>1, <1>2, <1>3, CutInErase
  <2>3. Same(f, flash') \/ Given(f, flash', Record) BY <2>1, <2>2, ReservedIs
  <2>4. CASE Same(f, flash')
    <3>1. Same(flash, flash') BY <2>2, <2>4 DEF Same
    <3>. QED BY <1>1, <3>1, LoseStores
  <2>5. CASE Given(f, flash', Record)
    <3>1. Record \in [id : Ids, val : Vals] /\ Record.id = PanicId /\ Record.val = PanicVal
      BY PanicAssumption DEF Record
    <3>2. Given(flash, flash', Record) BY <2>2, <2>5 DEF Given, Same
    <3>3. Current' = [Current EXCEPT ![Record.id] = Record.val] BY <3>1, <3>2, GivenCurrent
    <3>4. Current' = [Current EXCEPT ![PanicId] = PanicVal] BY <3>1, <3>3
    <3>5. req' = Nothing /\ Said' = "none" BY <1>1 DEF Reset, Said
    <3>. QED BY <3>4, <3>5 DEF StoreNext
  <2>. QED BY <2>3, <2>4, <2>5
<1>6. CASE PanicInProgram
  <2>1. PICK f \in Programming : flash' = Reserved(f) BY <1>6 DEF PanicInProgram
  <2>2. Same(flash, flash') \/ (pc = "append" /\ Given(flash, flash', req))
    BY <1>1, <2>1, ReservedOver
  <2>. QED BY <1>1, <2>2, LoseStores
<1>. QED BY <1>4, <1>5, <1>6

LEMMA SaveStores ==
  ASSUME IInv, NEW i \in Ids, NEW v \in Vals, Save(i, v)
  PROVE  StoreNext
<1>. DEFINE s == [id |-> i, val |-> v]
<1>1. pc = "idle" /\ flash' = flash BY DEF Save
<1>2. req = Nothing BY <1>1 DEF IInv, CallInv
<1>3. Current' = Current BY <1>1 DEF Current
<1>4. CASE req' = s /\ Said' = "none" BY <1>2, <1>3, <1>4 DEF StoreNext
<1>5. CASE req' = Nothing /\ Said' = "refused" BY <1>2, <1>3, <1>5 DEF StoreNext
<1>6. \/ req' = s /\ answer' = "none"
      \/ Proceed(ram, s)
  BY DEF Save
<1>7. CASE req' = s /\ answer' = "none"
  <2>1. Said' = "none" BY <1>7 DEF Said
  <2>. QED BY <1>4, <1>7, <2>1
<1>8. CASE Proceed(ram, s)
  <2>1. \/ req' = Nothing /\ Said' = "refused"
        \/ req' = s /\ Said' = "none" /\ answer' = "none"
    <3>. HIDE DEF s
    <3>. QED BY <1>8, ProceedStores
  <2>. QED BY <1>4, <1>5, <2>1
<1>. QED BY <1>6, <1>7, <1>8

LEMMA NextStores ==
  ASSUME IInv, ~PartialRefusal, [Next]_vars
  PROVE  StoreNext \/ StoreSame
<1>1. TypeInv /\ CallInv BY DEF IInv
<1>2. CASE Mount BY <1>2 DEF Mount, StoreSame, Current, Said
<1>3. ASSUME NEW i \in Ids, NEW v \in Vals, Save(i, v) PROVE StoreNext
  BY <1>3, SaveStores
<1>4. CASE Collect BY <1>4 DEF Collect, StoreSame, Current, Said
<1>5. CASE Wipe
  <2>1. Current' = Current BY <1>5, EraseStores DEF Wipe
  <2>. QED BY <1>5, <2>1 DEF Wipe, StoreSame, Said
<1>6. CASE Copy BY <1>6, CopyStores
<1>7. CASE Sweep BY <1>7, SweepStores
<1>8. CASE AppendEntry BY <1>8, AppendStores
<1>9. CASE RefuseProgram
  <2>1. flash' = flash BY <1>9, RefuseProgramIs
  <2>2. Current' = Current BY <2>1 DEF Current
  <2>3. Fail("media") BY <1>9 DEF RefuseProgram
  <2>. QED BY <1>1, <2>2, <2>3, FailStores
<1>10. CASE RefuseErase
  <2>1. flash' = flash /\ Fail("gc_failed") BY <1>10 DEF RefuseErase
  <2>2. Current' = Current BY <2>1 DEF Current
  <2>. QED BY <1>1, <2>1, <2>2, FailStores
<1>11. CASE PowerCut \/ Panic \/ PanicInProgram BY <1>11, ResetStores
<1>12. CASE UNCHANGED vars BY <1>12 DEF vars, StoreSame, Current, Said
<1>. QED BY <1>2, <1>3, <1>4, <1>5, <1>6, <1>7, <1>8, <1>9, <1>10, <1>11, <1>12 DEF Next

\* A save is atomic over any loss of power, a collection changes no value,
\* and nothing that happens in one costs any other (nv_journal.hpp:62-83):
\* each step of the journal is one of ValueStore's, or changes nothing there.
THEOREM StoreIsImplemented ==
  ASSUME ~PartialRefusal
  PROVE  Spec => ImplementsStore
<1>1. Init => Store!Init
  <2>. SUFFICES ASSUME Init PROVE Store!Init OBVIOUS
  <2>1. Sound(flash) /\ req = Nothing /\ answer = "none" BY FormerAssumption DEF Init
  <2>2. \A i \in Ids : Value(flash, i) \in Vals \cup {Nothing} BY <2>1, ValueType
  <2>. QED BY <2>1, <2>2 DEF Store!Init
<1>2. IInv /\ [Next]_vars => [Store!Next]_(Store!vars)
  <2>. SUFFICES ASSUME IInv, [Next]_vars PROVE Store!Next \/ UNCHANGED Store!vars OBVIOUS
  <2>1. StoreNext \/ StoreSame BY NextStores
  <2>. QED BY <2>1, StoreIs
<1>. QED BY <1>1, <1>2, IInvariant, PTL DEF Spec, ImplementsStore, Store!Spec

-----------------------------------------------------------------------------
\* The room.  The entries of the half a collection fills are one copy of each
\* id and what n programs that were cut have left.
Account(r, n) == r.used <= MaxEntryCells * (Cardinality(Copied(r)) + n)

\* The half a collection fills is the newer one, whichever the next boot sees.
Older(f, h) == \A p, q \in Entries(f) : p[1] # h /\ q[1] = h => At(f, p).seq < At(f, q).seq

\* Where one half has no entry a boot finds no collection to finish.
OneHalf(f, h) == \A p \in Entries(f) : p[1] = h
Kept(f, r, n) == Older(f, r.active) /\ (Account(r, n) \/ OneHalf(f, r.active))

\* The cursors in RAM, or those of the boot to come.
FullInv ==
  /\ faults \in 0 .. MaxFaults /\ answer # "no_room"
  /\ LET r == IF pc = "off" THEN Scanned(flash) ELSE ram
     IN Older(flash, r.active) /\ (r.pending \/ pc = "copy" => Account(r, faults))

LEMMA HighWaterLow ==
  ASSUME NEW f \in Flashes, Nested(f), NEW h \in Half, NEW u \in Nat,
         \A c \in 1 .. HalfCells : c > u => f[h][c] = Blank,
         \A c \in 1 .. HalfCells : HeaderAt(f, h, c) => c + Cells[f[h][c].val] - 1 <= u
  PROVE  HighWater(f, h) <= u
<1>. DEFINE w == HighWater(f, h)
<1>1. /\ w \in 0 .. HalfCells
      /\ \/ w = 0
         \/ w \in 1 .. HalfCells /\ f[h][w] # Blank
         \/ \E c \in 1 .. HalfCells : HeaderAt(f, h, c) /\ w = c + Cells[f[h][c].val] - 1
  BY HighWaterIs
<1>. SUFFICES w <= u OBVIOUS
<1>. HIDE DEF w
<1>2. CASE w = 0 BY <1>2
<1>3. CASE w \in 1 .. HalfCells /\ f[h][w] # Blank
  <2>1. w \in Nat /\ ~(w > u) BY <1>3
  <2>. QED BY <2>1
<1>4. CASE \E c \in 1 .. HalfCells : HeaderAt(f, h, c) /\ w = c + Cells[f[h][c].val] - 1
  BY <1>4
<1>. QED BY <1>1, <1>2, <1>3, <1>4

LEMMA OneIndex ==
  ASSUME NEW f, NEW r, NEW s, Indexed(f, r), Indexed(f, s)
  PROVE  r.index = s.index
<1>1. Sound(f) /\ r \in Cursors /\ s \in Cursors BY DEF Indexed
<1>2. ASSUME NEW i \in Ids PROVE r.index[i] = s.index[i]
  <2>1. CASE EntriesOf(f, i) = {}
    <3>1. r.index[i] = Nothing BY <2>1 DEF Indexed, NewestAt
    <3>2. s.index[i] = Nothing BY <2>1 DEF Indexed, NewestAt
    <3>. QED BY <3>1, <3>2
  <2>2. CASE EntriesOf(f, i) # {}
    <3>1. NewestAt(f, i, r.index[i]) BY <2>2 DEF Indexed
    <3>2. NewestAt(f, i, s.index[i]) BY <2>2 DEF Indexed
    <3>3. Newest(f, EntriesOf(f, i)) = r.index[i] BY <1>1, <3>1, NewestIs
    <3>4. Newest(f, EntriesOf(f, i)) = s.index[i] BY <1>1, <3>2, NewestIs
    <3>. QED BY <3>3, <3>4
  <2>. QED BY <2>1, <2>2
<1>3. r.index = [i \in Ids |-> r.index[i]] /\ s.index = [i \in Ids |-> s.index[i]]
  BY <1>1 DEF Cursors
<1>. QED BY <1>2, <1>3

LEMMA CopiedSize ==
  ASSUME NEW f, NEW r, Indexed(f, r)
  PROVE  /\ IsFiniteSet(Copied(r)) /\ Cardinality(Copied(r)) \in Nat
         /\ Cardinality(Copied(r)) <= Cardinality(Live(r))
<1>1. Copied(r) \subseteq Live(r) BY DEF Copied
<1>2. IsFiniteSet(Live(r)) BY LiveIsStored
<1>. QED BY <1>1, <1>2, FS_Subset, FS_CardinalityType

\* The account is kept when the cursor moves by an entry and one more copy or cut counts.
LEMMA AccountStep ==
  ASSUME NEW u \in Nat, NEW w \in Nat, NEW x \in Nat, NEW y \in Nat,
         u <= MaxEntryCells * x, w <= u + MaxEntryCells, x + 1 <= y
  PROVE  w <= MaxEntryCells * y
<1>1. MaxEntryCells \in Nat BY Sizes
<1>2. \A m, k, z \in Nat : k <= z => m * k <= m * z OBVIOUS
<1>3. MaxEntryCells * (x + 1) <= MaxEntryCells * y BY <1>1, <1>2
<1>4. MaxEntryCells * (x + 1) = MaxEntryCells * x + MaxEntryCells BY <1>1
<1>. DEFINE a == MaxEntryCells * x
            b == MaxEntryCells * y
<1>5. a \in Nat /\ b \in Nat
  <2>1. \A m, k \in Nat : m * k \in Nat OBVIOUS
  <2>. QED BY <1>1, <2>1
<1>6. u <= a /\ a + MaxEntryCells <= b BY <1>3, <1>4
<1>. HIDE DEF a, b
<1>7. w <= b BY <1>1, <1>5, <1>6
<1>. QED BY <1>7 DEF b

LEMMA AccountGrows ==
  ASSUME NEW f, NEW r, Indexed(f, r), NEW g, NEW s, Indexed(g, s), NEW n \in Nat,
         s.used <= r.used + MaxEntryCells, Copied(r) \subseteq Copied(s), Account(r, n)
  PROVE  Account(s, n + 1)
<1>1. r.used \in Nat /\ s.used \in Nat BY Sizes DEF Indexed, Cursors
<1>2. IsFiniteSet(Copied(s)) /\ Cardinality(Copied(s)) \in Nat BY CopiedSize
<1>3. Cardinality(Copied(r)) \in Nat BY CopiedSize
<1>4. Cardinality(Copied(r)) <= Cardinality(Copied(s)) BY <1>2, FS_Subset
<1>. DEFINE x == Cardinality(Copied(r)) + n
            y == Cardinality(Copied(s)) + (n + 1)
<1>5. x \in Nat /\ y \in Nat /\ x + 1 <= y BY <1>2, <1>3, <1>4
<1>6. r.used <= MaxEntryCells * x BY DEF Account
<1>. HIDE DEF x, y
<1>7. s.used <= MaxEntryCells * y BY <1>1, <1>5, <1>6, AccountStep
<1>. QED BY <1>7 DEF Account, y

LEMMA AccountCopies ==
  ASSUME NEW f, NEW r, Indexed(f, r), NEW n \in Nat, Account(r, n),
         NEW i \in Live(r), r.index[i][1] # r.active,
         NEW v \in Vals, NEW s, s.used = r.used + Cells[v], s.active = r.active,
         s.index[i] = New(r), New(r) # Nothing, \A j \in Ids \ {i} : s.index[j] = r.index[j]
  PROVE  Account(s, n)
<1>1. i \in Ids BY DEF Live
<1>2. Live(s) = Live(r) BY <1>1 DEF Live
<1>3. New(r)[1] = r.active BY DEF New
<1>4. Copied(s) = Copied(r) \cup {i} /\ i \notin Copied(r)
  BY <1>1, <1>2, <1>3 DEF Copied, Live
<1>5. IsFiniteSet(Copied(r)) /\ Cardinality(Copied(r)) \in Nat BY CopiedSize
<1>6. Cardinality(Copied(r) \cup {i}) = Cardinality(Copied(r)) + 1
  BY <1>4, <1>5, FS_AddElement
<1>7. Cardinality(Copied(s)) = Cardinality(Copied(r)) + 1 BY <1>4, <1>6
<1>8. r.used \in Nat /\ Cells[v] \in Nat /\ Cells[v] <= MaxEntryCells /\ MaxEntryCells \in Nat
  BY Sizes DEF Indexed, Cursors
<1>. DEFINE x == Cardinality(Copied(r)) + n
            y == Cardinality(Copied(s)) + n
<1>9. x \in Nat /\ y \in Nat /\ x + 1 <= y BY <1>5, <1>7
<1>10. r.used <= MaxEntryCells * x BY DEF Account
<1>11. s.used \in Nat /\ s.used <= r.used + MaxEntryCells BY <1>8
<1>. HIDE DEF x, y
<1>12. s.used <= MaxEntryCells * y BY <1>8, <1>9, <1>10, <1>11, AccountStep
<1>. QED BY <1>12 DEF Account, y

\* With two programs cut there is room for the rest of the copies.
LEMMA RoomForCopies ==
  ASSUME NEW f, NEW r, Indexed(f, r), NEW n \in Nat, n <= 2, Account(r, n),
         NEW i \in Live(r), r.index[i][1] # r.active, NEW v \in Vals
  PROVE  Fits(r, v)
<1>1. IsFiniteSet(Copied(r)) /\ Cardinality(Copied(r)) \in Nat BY CopiedSize
<1>2. /\ IsFiniteSet(Live(r)) /\ Cardinality(Live(r)) \in Nat /\ Cardinality(Live(r)) <= MaxIds
  BY LiveIsStored
<1>3. i \notin Copied(r) /\ Copied(r) \cup {i} \subseteq Live(r) BY DEF Copied
<1>4. Cardinality(Copied(r) \cup {i}) = Cardinality(Copied(r)) + 1 BY <1>1, <1>3, FS_AddElement
<1>5. Cardinality(Copied(r) \cup {i}) <= Cardinality(Live(r)) BY <1>2, <1>3, FS_Subset
<1>. DEFINE x == Cardinality(Copied(r)) + n
<1>6. MaxIds \in Nat /\ x \in Nat /\ x + 1 <= MaxIds + 2
  BY <1>1, <1>2, <1>4, <1>5, BoundsAssumption
<1>7. r.used \in Nat /\ Cells[v] \in Nat /\ Cells[v] <= MaxEntryCells /\ MaxEntryCells \in Nat
      /\ HalfCells \in Nat
  BY Sizes DEF Indexed, Cursors
<1>8. r.used <= MaxEntryCells * x BY DEF Account
<1>. HIDE DEF x
<1>. DEFINE w == r.used + Cells[v]
<1>9. w \in Nat /\ w <= r.used + MaxEntryCells /\ MaxIds + 2 \in Nat BY <1>6, <1>7
<1>10. w <= MaxEntryCells * (MaxIds + 2)
  <2>. HIDE DEF w
  <2>. QED BY <1>6, <1>7, <1>8, <1>9, AccountStep
<1>11. MaxEntryCells * (MaxIds + 2) = (MaxIds + 2) * MaxEntryCells BY <1>6, <1>7
<1>12. MaxEntryCells * (MaxIds + 2) <= HalfCells BY <1>11, Sizes
<1>. DEFINE b == MaxEntryCells * (MaxIds + 2)
<1>13. b \in Nat
  <2>1. \A m, k \in Nat : m * k \in Nat OBVIOUS
  <2>. QED BY <1>7, <1>9, <2>1
<1>. HIDE DEF b
<1>14. w <= HalfCells
  <2>1. w <= b /\ b <= HalfCells BY <1>10, <1>12 DEF b
  <2>. HIDE DEF w
  <2>. QED BY <1>7, <1>9, <1>13, <2>1
<1>. QED BY <1>14 DEF Fits

\* What a cut leaves to the next boot: a cursor the flash could be used with.
Left(g, n) == \E s \in Cursors : Indexed(g, s) /\ Clear(g, s) /\ Kept(g, s, n)

LEMMA MountRoom ==
  ASSUME NEW g, NEW n \in Nat, Left(g, n), NEW r, r = Scanned(g)
  PROVE  Older(g, r.active) /\ (r.pending => Account(r, n))
<1>1. PICK s \in Cursors : Indexed(g, s) /\ Clear(g, s) /\ Kept(g, s, n) BY DEF Left
<1>2. Sound(g) BY <1>1 DEF Indexed
<1>3. /\ Indexed(g, r) /\ Clear(g, r)
      /\ ~r.pending => \A p \in Entries(g) : p[1] = r.active
      /\ r.pending => \A h \in Half : \E p \in Entries(g) : p[1] = h
      /\ \A p \in Entries(g) :
           \E q \in Entries(g) : q[1] = r.active /\ At(g, p).seq <= At(g, q).seq
  BY <1>2, MountIs
<1>4. CASE ~r.pending
  <2>1. \A p \in Entries(g) : p[1] = r.active BY <1>3, <1>4
  <2>. QED BY <1>4, <2>1 DEF Older
<1>5. CASE r.pending
  <2>1. s.active \in Half /\ r.active \in Half /\ s.active \in {0, 1} /\ r.active \in {0, 1}
    BY <1>3 DEF Indexed, Cursors, Half
  <2>2. s.active = r.active
    <3>. SUFFICES ASSUME s.active # r.active PROVE FALSE OBVIOUS
    <3>1. PICK p \in Entries(g) : p[1] = s.active BY <1>3, <1>5, <2>1
    <3>2. PICK q \in Entries(g) : q[1] = r.active /\ At(g, p).seq <= At(g, q).seq BY <1>3
    <3>3. At(g, q).seq < At(g, p).seq BY <1>1, <3>1, <3>2 DEF Kept, Older
    <3>4. At(g, q).seq \in Nat /\ At(g, p).seq \in Nat BY <1>2, SoundIs, EntryFacts
    <3>. QED BY <3>2, <3>3, <3>4
  <2>3. ~OneHalf(g, s.active)
    <3>1. \E h \in Half : h # s.active
      <4>1. 0 \in Half /\ 1 \in Half BY DEF Half
      <4>2. 0 # s.active \/ 1 # s.active OBVIOUS
      <4>. QED BY <4>1, <4>2
    <3>2. PICK h \in Half : h # s.active BY <3>1
    <3>3. PICK p \in Entries(g) : p[1] = h BY <1>3, <1>5
    <3>. QED BY <3>2, <3>3 DEF OneHalf
  <2>4. Account(s, n) BY <1>1, <2>3 DEF Kept
  <2>5. r.index = s.index BY <1>1, <1>3, OneIndex
  <2>6. Copied(r) = Copied(s) BY <2>2, <2>5 DEF Copied, Live
  <2>7. g \in Flashes /\ Nested(g) BY <1>2, SoundIs
  <2>8. s.used \in Nat BY Sizes DEF Cursors
  <2>9. HighWater(g, s.active) <= s.used BY <1>1, <2>1, <2>7, <2>8, HighWaterLow DEF Clear
  <2>10. r.used = HighWater(g, r.active) BY DEF Scanned
  <2>11. r.used <= s.used BY <2>2, <2>9, <2>10
  <2>12. Cardinality(Copied(r)) \in Nat BY <1>3, CopiedSize
  <2>13. Account(r, n)
    <3>. DEFINE a == MaxEntryCells * (Cardinality(Copied(r)) + n)
    <3>1. s.used <= a BY <2>4, <2>6 DEF Account
    <3>2. a \in Nat
      <4>1. \A m, k \in Nat : m * k \in Nat OBVIOUS
      <4>2. Cardinality(Copied(r)) + n \in Nat BY <2>12
      <4>. QED BY <4>1, <4>2, Sizes
    <3>3. r.used \in Nat BY <1>3, Sizes DEF Indexed, Cursors
    <3>. HIDE DEF a
    <3>4. r.used <= a BY <2>8, <2>11, <3>1, <3>2, <3>3
    <3>. QED BY <3>4 DEF Account, a
  <2>. QED BY <1>1, <2>2, <2>13 DEF Kept
<1>. QED BY <1>4, <1>5

\* What is left by an erase, by a whole program, and by one that was cut or
\* went over another.
LEMMA LeftErased ==
  ASSUME NEW f, NEW r, Indexed(f, r), NEW n \in Nat, Kept(f, r, n),
         NEW g, Indexed(g, r), Clear(g, r), Fewer(f, g)
  PROVE  Kept(g, r, n) /\ Left(g, n + 1)
<1>1. r \in Cursors BY DEF Indexed
<1>2. /\ Entries(g) \subseteq Entries(f)
      /\ \A p \in Entries(g) : At(g, p) = At(f, p)
  BY DEF Fewer
<1>3. Older(g, r.active) BY <1>2 DEF Kept, Older
<1>4. Account(r, n) => Account(r, n + 1)
  <2>. HAVE Account(r, n)
  <2>1. r.used <= r.used + MaxEntryCells BY <1>1, Sizes DEF Cursors
  <2>. QED BY <2>1, AccountGrows
<1>5. OneHalf(f, r.active) => OneHalf(g, r.active) BY <1>2 DEF OneHalf
<1>6. Kept(g, r, n) /\ Kept(g, r, n + 1) BY <1>3, <1>4, <1>5 DEF Kept
<1>. QED BY <1>1, <1>6 DEF Left

LEMMA KeptAppend ==
  ASSUME NEW f, NEW r, Indexed(f, r), Clear(f, r), NEW n \in Nat, Kept(f, r, n),
         NEW i \in Ids, NEW v \in Vals, Fits(r, v), ~TooMany(r, i),
         NEW g, g = Programmed(f, r, i, v, Cells[v]),
         NEW s, s = Remembered(r, i, v)
  PROVE  Older(g, s.active) /\ Kept(g, s, n + 1) /\ (OneHalf(f, r.active) => OneHalf(g, s.active))
<1>1. r \in Cursors /\ Sound(f) BY DEF Indexed
<1>2. /\ Indexed(g, s) /\ s.index[i] = New(r) /\ \A j \in Ids \ {i} : s.index[j] = r.index[j]
      /\ s.active = r.active /\ s.used = r.used + Cells[v]
      /\ Entries(g) = Entries(f) \cup {New(r)} /\ New(r) \in Place
  BY AppendKeeps
<1>3. /\ \A p \in Entries(f) : At(g, p) = At(f, p)
      /\ At(g, New(r)).seq = r.seq + 1
  BY <1>1, ProgramAdds
<1>4. New(r)[1] = r.active BY DEF New
<1>5. \A p \in Entries(f) : At(f, p).seq \in Nat /\ At(f, p).seq <= r.seq
  BY <1>1, SoundIs, EntryFacts DEF Indexed
<1>6. r.seq \in Nat BY <1>1 DEF Cursors
<1>7. Older(g, s.active)
  <2>. SUFFICES ASSUME NEW p \in Entries(g), NEW q \in Entries(g), p[1] # r.active, q[1] = r.active
                PROVE  At(g, p).seq < At(g, q).seq
    BY <1>2 DEF Older
  <2>1. p \in Entries(f) BY <1>2, <1>4
  <2>2. CASE q \in Entries(f)
    <3>1. At(f, p).seq < At(f, q).seq BY <2>1, <2>2 DEF Kept, Older
    <3>. QED BY <1>3, <2>1, <2>2, <3>1
  <2>3. CASE q = New(r) BY <1>3, <1>5, <1>6, <2>1, <2>3
  <2>. QED BY <1>2, <2>2, <2>3
<1>8. ASSUME OneHalf(f, r.active) PROVE OneHalf(g, s.active)
  BY <1>2, <1>4, <1>8 DEF OneHalf
<1>9. ASSUME Account(r, n) PROVE Account(s, n + 1)
  <2>1. New(r) # Nothing BY <1>2, MarksAssumption
  <2>2. Copied(r) \subseteq Copied(s)
    <3>. SUFFICES ASSUME NEW j \in Copied(r) PROVE j \in Copied(s) OBVIOUS
    <3>1. j \in Ids /\ r.index[j] # Nothing /\ r.index[j][1] = r.active BY DEF Copied, Live
    <3>2. CASE j = i BY <1>2, <1>4, <2>1, <3>2 DEF Copied, Live
    <3>3. CASE j # i
      <4>1. s.index[j] = r.index[j] BY <1>2, <3>1, <3>3
      <4>. QED BY <1>2, <3>1, <4>1 DEF Copied, Live
    <3>. QED BY <3>2, <3>3
  <2>3. s.used <= r.used + MaxEntryCells BY <1>1, <1>2, Sizes DEF Cursors
  <2>. QED BY <1>2, <1>9, <2>2, <2>3, AccountGrows
<1>10. Kept(g, s, n + 1) BY <1>7, <1>8, <1>9 DEF Kept
<1>. QED BY <1>7, <1>8, <1>10

LEMMA LeftAppended ==
  ASSUME NEW f, NEW r, Indexed(f, r), Clear(f, r), NEW n \in Nat, Kept(f, r, n),
         NEW i \in Ids, NEW v \in Vals, Fits(r, v), ~TooMany(r, i),
         NEW g, g = Programmed(f, r, i, v, Cells[v])
  PROVE  Left(g, n + 1)
<1>. DEFINE s == Remembered(r, i, v)
<1>1. Indexed(g, s) /\ Clear(g, s) BY AppendKeeps
<1>2. Kept(g, s, n + 1) BY KeptAppend
<1>3. s \in Cursors BY <1>1 DEF Indexed
<1>. HIDE DEF s
<1>. QED BY <1>1, <1>2, <1>3 DEF Left

LEMMA LeftTorn ==
  ASSUME NEW f, NEW r, Indexed(f, r), Clear(f, r), NEW n \in Nat, Kept(f, r, n),
         NEW g, Fewer(f, g), Entries(g) = Entries(f), Outside(f, g, r),
         \A c \in 1 .. HalfCells : c > r.used + MaxEntryCells => g[r.active][c] = Blank
  PROVE  Left(g, n + 1)
<1>1. r \in Cursors /\ Sound(f) BY DEF Indexed
<1>2. r.used \in Nat /\ r.used <= HalfCells /\ HalfCells \in Nat /\ MaxEntryCells \in Nat \ {0}
      /\ r.active \in Half
  BY <1>1, Sizes DEF Cursors
<1>3. PICK u \in 0 .. HalfCells :
        /\ r.used <= u /\ u <= r.used + MaxEntryCells
        /\ u = HalfCells \/ u = r.used + MaxEntryCells
  <2>1. CASE r.used + MaxEntryCells <= HalfCells
    <3>1. r.used + MaxEntryCells \in 0 .. HalfCells BY <1>2, <2>1
    <3>. QED BY <1>2, <3>1
  <2>2. CASE r.used + MaxEntryCells > HalfCells
    <3>1. HalfCells \in 0 .. HalfCells BY <1>2
    <3>. QED BY <1>2, <2>2, <3>1
  <2>. QED BY <1>2, <2>1, <2>2
<1>. DEFINE s == [r EXCEPT !.used = u]
<1>4. /\ s \in Cursors /\ s.index = r.index /\ s.seq = r.seq /\ s.active = r.active
      /\ s.used = u
  BY <1>1 DEF Cursors
<1>. HIDE DEF s
<1>5. Stands(g, r) BY ValueFacts DEF Stands, Live
<1>6. Indexed(g, r) BY <1>5, Keep
<1>7. Indexed(g, s) BY <1>4, <1>6, SameIndex
<1>8. Clear(g, s)
  <2>1. ASSUME NEW c \in 1 .. HalfCells, c > u PROVE g[r.active][c] = Blank
    <3>1. c > r.used + MaxEntryCells BY <1>2, <1>3, <2>1
    <3>. QED BY <3>1
  <2>2. ASSUME NEW c \in 1 .. HalfCells, HeaderAt(g, r.active, c)
        PROVE  c + Cells[g[r.active][c].val] - 1 <= u
    <3>1. CASE c <= r.used
      <4>1. ~(r.active = r.active /\ c > r.used) BY <1>2, <3>1
      <4>2. HeaderAt(f, r.active, c) /\ g[r.active][c] = f[r.active][c]
        BY <1>1, <1>2, <2>2, <4>1, Behind
      <4>3. c + Cells[f[r.active][c].val] - 1 <= r.used BY <4>2 DEF Clear
      <4>4. Cells[f[r.active][c].val] \in Nat BY <1>1, <1>2, <4>2, SoundIs, HeaderFacts, Sizes
      <4>. QED BY <1>2, <1>3, <4>2, <4>3, <4>4
    <3>2. CASE c = r.used + 1
      <4>1. g \in Flashes BY DEF Fewer
      <4>2. /\ Cells[g[r.active][c].val] \in 1 .. MaxEntryCells
            /\ c + Cells[g[r.active][c].val] - 1 <= HalfCells
        BY <1>2, <2>2, <4>1, HeaderFacts
      <4>. DEFINE m == Cells[g[r.active][c].val]
      <4>. HIDE DEF m
      <4>3. m \in 1 .. MaxEntryCells /\ c + m - 1 <= HalfCells BY <4>2 DEF m
      <4>4. c + m - 1 <= u BY <1>2, <1>3, <3>2, <4>3
      <4>. QED BY <4>4 DEF m
    <3>3. CASE c > r.used + 1 BY <2>2, <3>3 DEF Outside
    <3>. QED BY <1>2, <3>1, <3>2, <3>3
  <2>. QED BY <1>4, <2>1, <2>2 DEF Clear
<1>9. Kept(g, s, n + 1)
  <2>1. \A p \in Entries(f) : At(g, p) = At(f, p) BY DEF Fewer
  <2>2. Older(g, s.active) BY <1>4, <2>1 DEF Kept, Older
  <2>3. OneHalf(f, r.active) => OneHalf(g, s.active) BY <1>4 DEF OneHalf
  <2>4. Copied(s) = Copied(r) BY <1>4 DEF Copied, Live
  <2>5. Account(r, n) => Account(s, n + 1) BY <1>3, <1>4, <1>7, <2>4, AccountGrows
  <2>. QED BY <2>2, <2>3, <2>5 DEF Kept
<1>. QED BY <1>4, <1>7, <1>8, <1>9 DEF Left

-----------------------------------------------------------------------------
LEMMA KeptIs ==
  ASSUME IInv, FullInv, pc # "off"
  PROVE  /\ Indexed(flash, ram) /\ Clear(flash, ram) /\ ram \in Cursors
         /\ faults \in Nat /\ Kept(flash, ram, faults)
<1>1. Indexed(flash, ram) /\ Clear(flash, ram) /\ PlaceInv /\ TypeInv BY DEF IInv
<1>2. /\ faults \in Nat /\ Older(flash, ram.active)
      /\ ram.pending \/ pc = "copy" => Account(ram, faults)
  BY BoundsAssumption DEF FullInv
<1>3. ~(ram.pending \/ pc = "copy") => OneHalf(flash, ram.active)
  BY <1>1 DEF TypeInv, PlaceInv, OneHalf
<1>. QED BY <1>1, <1>2, <1>3 DEF Kept, TypeInv

LEMMA LeftInProgram ==
  ASSUME IInv, FullInv, pc # "off", NEW g \in Programming
  PROVE  Left(g, faults + 1)
<1>1. PICK p \in Programs : /\ Fits(ram, p[2])
                            /\ \E k \in 1 .. Cells[p[2]] : g = Partly(p, k)
  BY DEF Programming
<1>2. PICK k \in 1 .. Cells[p[2]] : g = Programmed(flash, ram, p[1], p[2], k)
  BY <1>1 DEF Partly
<1>3. p[1] \in Ids /\ p[2] \in Vals /\ ~TooMany(ram, p[1]) BY ProgramsAre
<1>4. /\ Indexed(flash, ram) /\ Clear(flash, ram) /\ ram \in Cursors
      /\ faults \in Nat /\ Kept(flash, ram, faults)
  BY KeptIs
<1>5. Sound(flash) /\ flash \in Flashes BY <1>4, SoundIs DEF Indexed
<1>6. Cells[p[2]] \in 1 .. MaxEntryCells /\ k \in 0 .. Cells[p[2]] /\ MaxEntryCells \in Nat
  BY <1>3, Sizes
<1>7. CASE k # Cells[p[2]]
  <2>1. Fewer(flash, g) /\ Entries(g) = Entries(flash)
    BY <1>1, <1>2, <1>3, <1>4, <1>5, <1>6, <1>7, ProgramPart
  <2>2. /\ Outside(flash, g, ram)
        /\ \A c \in 1 .. HalfCells : g[ram.active][c] =
             IF c \in ram.used + 1 .. ram.used + k THEN CellOf(ram, p[1], p[2], c)
             ELSE flash[ram.active][c]
    BY <1>2, <1>3, <1>4, <1>5, <1>6, ProgramIs
  <2>3. ASSUME NEW c \in 1 .. HalfCells, c > ram.used + MaxEntryCells
        PROVE  g[ram.active][c] = Blank
    <3>1. ram.used \in Nat BY <1>4, Sizes DEF Cursors
    <3>2. c \notin ram.used + 1 .. ram.used + k /\ c > ram.used BY <1>6, <2>3, <3>1
    <3>3. g[ram.active][c] = flash[ram.active][c] BY <2>2, <3>2
    <3>. QED BY <1>4, <3>2, <3>3 DEF Clear
  <2>. QED BY <1>4, <2>1, <2>2, <2>3, LeftTorn
<1>8. CASE k = Cells[p[2]]
  BY <1>1, <1>2, <1>3, <1>4, <1>8, LeftAppended
<1>. QED BY <1>7, <1>8

LEMMA FewerItself ==
  ASSUME NEW f, Sound(f)
  PROVE  Fewer(f, f)
BY SoundIs DEF Fewer

LEMMA LeftInErase ==
  ASSUME IInv, FullInv, pc # "off", NEW as \in {Blank, Torn}, NEW g \in {flash} \cup Erasing(as)
  PROVE  /\ Indexed(g, ram) /\ Clear(g, ram) /\ Kept(g, ram, faults)
         /\ Left(g, faults + 1)
<1>1. /\ Indexed(flash, ram) /\ Clear(flash, ram) /\ ram \in Cursors
      /\ faults \in Nat /\ Kept(flash, ram, faults)
  BY KeptIs
<1>2. Sound(flash) BY <1>1 DEF Indexed
<1>3. Indexed(g, ram) /\ Clear(g, ram) /\ Fewer(flash, g)
  <2>1. CASE g = flash BY <1>1, <1>2, <2>1, FewerItself
  <2>2. CASE g \in Erasing(as)
    <3>1. pc = "wipe" \/ Swept BY <2>2 DEF Erasing
    <3>2. g = Erased(flash, 1 - ram.active, page, as) BY <2>2, <3>1 DEF Erasing
    <3>3. Settled(ram) BY <3>1, SettledIs
    <3>4. page \in Nat BY DEF IInv, TypeInv
    <3>. QED BY <1>1, <3>2, <3>3, <3>4, EraseKeeps
  <2>. QED BY <2>1, <2>2
<1>. QED BY <1>1, <1>3, LeftErased

LEMMA LeftReserved ==
  ASSUME IInv, FullInv, pc # "off", NEW f \in {flash} \cup Erasing(Blank)
  PROVE  Left(Reserved(f), faults + 1)
<1>1. /\ Indexed(f, ram) /\ Clear(f, ram) /\ Kept(f, ram, faults)
      /\ Left(f, faults + 1)
  BY LeftInErase
<1>2. faults \in Nat BY KeptIs
<1>3. CASE TooMany(ram, PanicId) \/ ~Fits(ram, PanicVal)
  <2>1. Reserved(f) = f BY <1>3 DEF Reserved
  <2>. QED BY <1>1, <2>1
<1>4. CASE ~(TooMany(ram, PanicId) \/ ~Fits(ram, PanicVal))
  <2>1. Reserved(f) = Programmed(f, ram, PanicId, PanicVal, Cells[PanicVal])
    BY <1>4 DEF Reserved
  <2>. QED BY <1>1, <1>2, <1>4, <2>1, PanicAssumption, LeftAppended
<1>. QED BY <1>3, <1>4

LEMMA LeftReservedOver ==
  ASSUME IInv, FullInv, pc # "off", NEW f \in Programming
  PROVE  Left(Reserved(f), faults + 1)
<1>. DEFINE g == Reserved(f)
<1>1. CASE TooMany(ram, PanicId) \/ ~Fits(ram, PanicVal)
  <2>1. g = f BY <1>1 DEF Reserved
  <2>. QED BY <2>1, LeftInProgram
<1>2. CASE ~(TooMany(ram, PanicId) \/ ~Fits(ram, PanicVal))
  <2>1. PICK p \in Programs : /\ Fits(ram, p[2])
                              /\ \E k \in 1 .. Cells[p[2]] : f = Partly(p, k)
    BY DEF Programming
  <2>2. PICK k \in 1 .. Cells[p[2]] : f = Programmed(flash, ram, p[1], p[2], k)
    BY <2>1 DEF Partly
  <2>3. p[1] \in Ids /\ p[2] \in Vals BY ProgramsAre
  <2>4. /\ Indexed(flash, ram) /\ Clear(flash, ram) /\ ram \in Cursors
        /\ faults \in Nat /\ Kept(flash, ram, faults)
    BY KeptIs
  <2>5. g = Programmed(Programmed(flash, ram, p[1], p[2], k), ram, PanicId, PanicVal,
                       Cells[PanicVal])
    BY <1>2, <2>2 DEF Reserved
  <2>6. Sound(flash) BY <2>4 DEF Indexed
  <2>. HIDE DEF g
  <2>7. /\ Fewer(flash, g) /\ Entries(g) = Entries(flash) /\ Outside(flash, g, ram)
        /\ \A c \in 1 .. HalfCells : c > ram.used + MaxEntryCells => g[ram.active][c] = Blank
    BY <1>2, <2>1, <2>3, <2>4, <2>5, <2>6, PanicAssumption, Overwritten
  <2>8. Left(g, faults + 1) BY <2>4, <2>7, LeftTorn
  <2>. QED BY <2>8 DEF g
<1>. QED BY <1>1, <1>2

-----------------------------------------------------------------------------
LEMMA ResetFull ==
  ASSUME IInv, FullInv, PowerCut \/ Panic \/ PanicInProgram
  PROVE  FullInv'
<1>1. /\ pc # "off" /\ faults < MaxFaults /\ faults' = faults + 1
      /\ pc' = "off" /\ answer' = "none"
  BY DEF PowerCut, Panic, PanicInProgram, Reset
<1>2. Left(flash', faults + 1)
  <2>1. CASE PowerCut
    <3>1. flash' \in {flash} \cup Programming \cup Erasing(Blank) \cup Erasing(Torn)
      BY <2>1 DEF PowerCut
    <3>2. CASE flash' \in Programming BY <1>1, <3>2, LeftInProgram
    <3>3. CASE flash' \in {flash} \cup Erasing(Blank) BY <1>1, <3>3, LeftInErase
    <3>4. CASE flash' \in {flash} \cup Erasing(Torn) BY <1>1, <3>4, LeftInErase
    <3>. QED BY <3>1, <3>2, <3>3, <3>4
  <2>2. CASE Panic
    <3>1. PICK f \in {flash} \cup Erasing(Blank) : flash' = Reserved(f) BY <2>2 DEF Panic
    <3>. QED BY <1>1, <3>1, LeftReserved
  <2>3. CASE PanicInProgram
    <3>1. PICK f \in Programming : flash' = Reserved(f) BY <2>3 DEF PanicInProgram
    <3>. QED BY <1>1, <3>1, LeftReservedOver
  <2>. QED BY <2>1, <2>2, <2>3
<1>3. faults \in 0 .. MaxFaults /\ MaxFaults \in Nat BY BoundsAssumption DEF FullInv
<1>4. faults + 1 \in 0 .. MaxFaults /\ faults + 1 \in Nat BY <1>1, <1>3
<1>. DEFINE r == Scanned(flash')
<1>5. Older(flash', r.active) /\ (r.pending => Account(r, faults + 1)) BY <1>2, <1>4, MountRoom
<1>. QED BY <1>1, <1>4, <1>5 DEF FullInv

LEMMA MountFull ==
  ASSUME FullInv, Mount
  PROVE  FullInv'
<1>1. /\ pc = "off" /\ pc' = "idle" /\ ram' = Scanned(flash)
      /\ flash' = flash /\ answer' = answer /\ faults' = faults
  BY DEF Mount, Mounted
<1>. QED BY <1>1 DEF FullInv

\* The flash and the cursors are as they were, and no collection has begun.
LEMMA SameFull ==
  ASSUME FullInv, pc # "off", pc' # "off", flash' = flash, ram' = ram, faults' = faults,
         answer' # "no_room", pc' = "copy" => ram.pending \/ pc = "copy"
  PROVE  FullInv'
BY DEF FullInv

LEMMA SaveFull ==
  ASSUME FullInv, NEW i \in Ids, NEW v \in Vals, Save(i, v)
  PROVE  FullInv'
<1>1. pc = "idle" /\ flash' = flash /\ ram' = ram /\ faults' = faults BY DEF Save
<1>2. CASE ram.pending
  <2>1. pc' = "copy" /\ answer' = "none" BY <1>2 DEF Save
  <2>. QED BY <1>1, <1>2, <2>1, SameFull
<1>3. CASE ~ram.pending
  <2>1. pc' \in {"idle", "wipe", "append"} /\ answer' \in {"none", "too_many_ids"}
    BY <1>3 DEF Save, Proceed, Return
  <2>. QED BY <1>1, <2>1, SameFull
<1>. QED BY <1>2, <1>3

LEMMA CollectFull ==
  ASSUME FullInv, Collect
  PROVE  FullInv'
<1>1. /\ pc = "idle" /\ flash' = flash /\ ram' = ram /\ faults' = faults /\ answer' = answer
      /\ pc' = IF ram.pending THEN "copy" ELSE "wipe"
  BY DEF Collect
<1>2. answer # "no_room" BY DEF FullInv
<1>. QED BY <1>1, <1>2, SameFull

LEMMA OlderFewer ==
  ASSUME NEW f, NEW g, Fewer(f, g), NEW h, Older(f, h)
  PROVE  Older(g, h)
BY DEF Fewer, Older

LEMMA WipeFull ==
  ASSUME IInv, IInv', FullInv, Wipe
  PROVE  FullInv'
<1>1. /\ pc = "wipe" /\ flash' = Erased(flash, 1 - ram.active, page, Blank)
      /\ answer' = answer /\ faults' = faults
  BY DEF Wipe
<1>2. PlaceInv /\ Indexed(flash, ram) /\ Clear(flash, ram) /\ TypeInv BY <1>1 DEF IInv
<1>3. Settled(ram) /\ page \in Nat BY <1>1, <1>2, SettledIs DEF TypeInv
<1>4. Fewer(flash, flash') BY <1>1, <1>2, <1>3, EraseKeeps
<1>5. faults \in 0 .. MaxFaults /\ answer # "no_room" /\ ~ram.pending /\ Older(flash, ram.active)
  BY <1>1, <1>2 DEF FullInv, PlaceInv
<1>6. CASE page < HalfPages
  <2>1. ram' = ram /\ pc' = pc BY <1>6 DEF Wipe
  <2>2. Older(flash', ram.active) BY <1>4, <1>5, OlderFewer
  <2>. QED BY <1>1, <1>5, <2>1, <2>2 DEF FullInv
<1>7. CASE ~(page < HalfPages)
  <2>1. ram' = Opened(ram) /\ pc' = "copy" BY <1>7 DEF Wipe
  <2>2. Indexed(flash', ram') /\ Clear(flash', ram') BY <2>1 DEF IInv
  <2>3. ram \in Cursors BY <1>2 DEF TypeInv
  <2>4. ram'.used = 0 BY <2>1, <2>3 DEF Opened, Cursors
  <2>5. Sound(flash') /\ flash' \in Flashes BY <2>2, SoundIs DEF Indexed
  <2>6. Older(flash', ram'.active)
    <3>1. \A q \in Entries(flash') : q[1] # ram'.active
      <4>. SUFFICES ASSUME NEW q \in Entries(flash'), q[1] = ram'.active PROVE FALSE OBVIOUS
      <4>1. q[2] \in 1 .. HalfCells /\ HeaderAt(flash', q[1], q[2]) BY <2>5, EntryFacts
      <4>2. q[2] > 0 BY <4>1
      <4>3. flash'[ram'.active][q[2]] = Blank BY <2>2, <2>4, <4>1, <4>2 DEF Clear
      <4>. QED BY <4>1, <4>3 DEF HeaderAt
    <3>. QED BY <3>1 DEF Older
  <2>7. Account(ram', faults)
    <3>1. Cardinality(Copied(ram')) \in Nat BY <2>2, CopiedSize
    <3>2. \A x, y \in Nat : 0 <= x * y OBVIOUS
    <3>3. Cardinality(Copied(ram')) + faults \in Nat BY <1>5, <3>1, BoundsAssumption
    <3>. QED BY <2>4, <3>2, <3>3, Sizes DEF Account
  <2>. QED BY <1>1, <1>5, <2>1, <2>6, <2>7 DEF FullInv
<1>. QED BY <1>6, <1>7

LEMMA CopyFull ==
  ASSUME MaxFaults <= 2, IInv, FullInv, Copy
  PROVE  FullInv'
<1>1. pc = "copy" /\ faults' = faults BY DEF Copy
<1>2. /\ Indexed(flash, ram) /\ Clear(flash, ram) /\ ram \in Cursors
      /\ faults \in Nat /\ Kept(flash, ram, faults)
  BY <1>1, KeptIs
<1>3. faults \in 0 .. MaxFaults /\ faults <= 2 /\ answer # "no_room" /\ Account(ram, faults)
  BY <1>1, <1>2, BoundsAssumption DEF FullInv
<1>4. PICK i \in Uncopied :
        LET v == Read(flash, ram, i)
        IN IF Fits(ram, v)
           THEN /\ flash' = Programmed(flash, ram, i, v, Cells[v])
                /\ ram' = Remembered(ram, i, v)
                /\ UNCHANGED <<pc, req, answer, saved>>
           ELSE /\ ram' = [ram EXCEPT !.pending = TRUE]
                /\ Fail("no_room")
                /\ UNCHANGED flash
  BY DEF Copy
<1>. DEFINE v == Read(flash, ram, i)
<1>5. i \in Live(ram) /\ i \in Ids /\ ram.index[i] # Nothing /\ ram.index[i][1] # ram.active
  BY DEF Uncopied, Live
<1>6. v \in Vals BY <1>2, <1>5, ValueFacts
<1>. HIDE DEF v
<1>7. ~TooMany(ram, i) BY <1>5 DEF TooMany
<1>8. Fits(ram, v) BY <1>2, <1>3, <1>5, <1>6, RoomForCopies
<1>9. /\ flash' = Programmed(flash, ram, i, v, Cells[v]) /\ ram' = Remembered(ram, i, v)
      /\ pc' = pc /\ answer' = answer
  BY <1>4, <1>8 DEF v
<1>10. /\ Indexed(flash', ram')
       /\ ram'.index[i] = New(ram) /\ \A j \in Ids \ {i} : ram'.index[j] = ram.index[j]
       /\ ram'.active = ram.active /\ ram'.used = ram.used + Cells[v] /\ New(ram) \in Place
  BY <1>2, <1>5, <1>6, <1>7, <1>8, <1>9, AppendKeeps
<1>11. New(ram) # Nothing BY <1>10, MarksAssumption
<1>12. Older(flash', ram'.active) BY <1>2, <1>5, <1>6, <1>7, <1>8, <1>9, KeptAppend
<1>13. Account(ram', faults) BY <1>2, <1>3, <1>5, <1>6, <1>10, <1>11, AccountCopies
<1>. QED BY <1>1, <1>3, <1>9, <1>12, <1>13 DEF FullInv

LEMMA SweepFull ==
  ASSUME IInv, FullInv, Sweep
  PROVE  FullInv'
<1>1. /\ Swept /\ pc = "copy" /\ faults' = faults
      /\ flash' = Erased(flash, 1 - ram.active, page, Blank)
  BY DEF Sweep, Swept
<1>2. Indexed(flash, ram) /\ Clear(flash, ram) /\ page \in Nat /\ ram \in Cursors
  BY <1>1 DEF IInv, TypeInv
<1>3. Settled(ram) BY <1>1, SettledIs
<1>4. Fewer(flash, flash') BY <1>1, <1>2, <1>3, EraseKeeps
<1>5. faults \in 0 .. MaxFaults /\ answer # "no_room" /\ Older(flash, ram.active)
      /\ Account(ram, faults)
  BY <1>1 DEF FullInv
<1>6. Older(flash', ram.active) BY <1>4, <1>5, OlderFewer
<1>7. CASE page < HalfPages
  <2>1. ram' = ram /\ pc' = pc /\ answer' = answer BY <1>7 DEF Sweep
  <2>. QED BY <1>1, <1>5, <1>6, <2>1 DEF FullInv
<1>8. CASE ~(page < HalfPages)
  <2>1. /\ ram' = [ram EXCEPT !.pending = FALSE]
        /\ \/ req = Nothing /\ Return(answer)
           \/ req # Nothing /\ ram.pending /\ Proceed(ram, req)
           \/ req # Nothing /\ ~ram.pending /\ pc' = "append" /\ answer' = answer
    BY <1>8 DEF Sweep
  <2>2. ram'.active = ram.active /\ ~ram'.pending BY <1>2, <2>1 DEF Cursors
  <2>3. pc' \in {"idle", "wipe", "append"} /\ answer' # "no_room"
    BY <1>5, <2>1 DEF Proceed, Return
  <2>. QED BY <1>1, <1>5, <1>6, <2>2, <2>3 DEF FullInv
<1>. QED BY <1>7, <1>8

LEMMA AppendFull ==
  ASSUME IInv, FullInv, AppendEntry
  PROVE  FullInv'
<1>1. pc = "append" /\ faults' = faults BY DEF AppendEntry
<1>2. /\ Indexed(flash, ram) /\ Clear(flash, ram) /\ ram \in Cursors
      /\ faults \in Nat /\ Kept(flash, ram, faults)
  BY <1>1, KeptIs
<1>3. /\ req \in [id : Ids, val : Vals] /\ req.id \in Ids /\ req.val \in Vals
      /\ ~ram.pending /\ ~TooMany(ram, req.id)
      /\ ram.used + Cells[req.val] + Reserve <= HalfCells
  BY <1>1 DEF IInv, TypeInv, CallInv, PlaceInv, RoomInv
<1>4. Fits(ram, req.val)
  <2>1. ram.used \in Nat /\ Cells[req.val] \in Nat /\ Reserve \in Nat /\ HalfCells \in Nat
    BY <1>2, <1>3, Sizes DEF Cursors
  <2>. QED BY <1>3, <2>1 DEF Fits
<1>5. /\ flash' = Programmed(flash, ram, req.id, req.val, Cells[req.val])
      /\ ram' = Remembered(ram, req.id, req.val) /\ pc' = "idle" /\ answer' = "taken"
  BY <1>4 DEF AppendEntry, Return
<1>6. ram'.pending = ram.pending BY <1>2, <1>3, <1>4, <1>5, AppendKeeps
<1>7. Older(flash', ram'.active) BY <1>2, <1>3, <1>4, <1>5, KeptAppend
<1>8. faults \in 0 .. MaxFaults BY DEF FullInv
<1>. QED BY <1>1, <1>3, <1>5, <1>6, <1>7, <1>8 DEF FullInv

LEMMA RefuseFull ==
  ASSUME ~PartialRefusal, IInv, FullInv, RefuseProgram \/ RefuseErase
  PROVE  FullInv'
<1>1. /\ pc \in {"wipe", "copy", "append"} /\ flash' = flash
      /\ faults < MaxFaults /\ faults' = faults + 1
      /\ ram' = [ram EXCEPT !.pending = @ \/ pc = "copy"]
      /\ \E why \in {"media", "gc_failed"} : Fail(why)
  <2>1. CASE RefuseProgram BY <2>1, RefuseProgramIs DEF RefuseProgram
  <2>2. CASE RefuseErase BY <2>2 DEF RefuseErase, Swept
  <2>. QED BY <2>1, <2>2
<1>2. /\ Indexed(flash, ram) /\ Clear(flash, ram) /\ ram \in Cursors /\ faults \in Nat
  BY <1>1, KeptIs
<1>3. /\ faults \in 0 .. MaxFaults /\ answer # "no_room" /\ Older(flash, ram.active)
      /\ ram.pending \/ pc = "copy" => Account(ram, faults)
  BY <1>1 DEF FullInv
<1>4. pc' = "idle" /\ answer' # "no_room" BY <1>1, <1>3 DEF Fail, Return
<1>. DEFINE b == ram.pending \/ pc = "copy"
<1>5. b \in BOOLEAN OBVIOUS
<1>6. /\ ram'.used = ram.used /\ ram'.active = ram.active /\ ram'.pending = b
      /\ ram'.index = ram.index /\ ram'.seq = ram.seq /\ ram' \in Cursors
  <2>1. ram' = [ram EXCEPT !.pending = b] BY <1>1
  <2>. HIDE DEF b
  <2>. QED BY <1>2, <1>5, <2>1 DEF Cursors
<1>7. Indexed(flash, ram') BY <1>2, <1>6, SameCursors
<1>8. ASSUME b PROVE Account(ram', faults + 1)
  <2>1. Account(ram, faults) BY <1>3, <1>8
  <2>2. Copied(ram) \subseteq Copied(ram') BY <1>6 DEF Copied, Live
  <2>3. ram'.used <= ram.used + MaxEntryCells BY <1>2, <1>6, Sizes DEF Cursors
  <2>. QED BY <1>2, <1>7, <2>1, <2>2, <2>3, AccountGrows
<1>9. faults + 1 \in 0 .. MaxFaults BY <1>1, <1>3, BoundsAssumption
<1>. HIDE DEF b
<1>. QED BY <1>1, <1>3, <1>4, <1>6, <1>8, <1>9 DEF FullInv

\* No save is refused for want of room as long as no more than two times the
\* power goes, a handler panics or the media refuses, and the journal was left
\* with no collection to be finished: a half has room for one entry of each
\* id, for the one to be saved, and for one more.  A third cut may use that up
\* (run nv_journal_cuts).
THEOREM AlwaysRoom ==
  ASSUME ~PartialRefusal, MaxFaults <= 2, \A f \in Former : ~Scanned(f).pending
  PROVE  Spec => []NeverFull
<1>1. ASSUME Init PROVE FullInv
  <2>1. /\ flash \in Former /\ pc = "off" /\ faults = 0 /\ answer = "none" BY <1>1 DEF Init
  <2>2. ~Scanned(flash).pending /\ Sound(flash) BY <2>1, FormerAssumption
  <2>3. \A p \in Entries(flash) : p[1] = Scanned(flash).active BY <2>2, MountIs
  <2>4. Older(flash, Scanned(flash).active) BY <2>3 DEF Older
  <2>5. 0 \in 0 .. MaxFaults BY BoundsAssumption
  <2>. QED BY <2>1, <2>2, <2>4, <2>5 DEF FullInv
<1>2. ASSUME IInv, IInv', FullInv, [Next]_vars PROVE FullInv'
  <2>1. CASE Next
    <3>1. CASE Mount BY <1>2, <3>1, MountFull
    <3>2. ASSUME NEW i \in Ids, NEW v \in Vals, Save(i, v) PROVE FullInv'
      BY <1>2, <3>2, SaveFull
    <3>3. CASE Collect BY <1>2, <3>3, CollectFull
    <3>4. CASE Wipe BY <1>2, <3>4, WipeFull
    <3>5. CASE Copy BY <1>2, <3>5, CopyFull
    <3>6. CASE Sweep BY <1>2, <3>6, SweepFull
    <3>7. CASE AppendEntry BY <1>2, <3>7, AppendFull
    <3>8. CASE RefuseProgram \/ RefuseErase BY <1>2, <3>8, RefuseFull
    <3>9. CASE PowerCut \/ Panic \/ PanicInProgram BY <1>2, <3>9, ResetFull
    <3>. QED BY <2>1, <3>1, <3>2, <3>3, <3>4, <3>5, <3>6, <3>7, <3>8, <3>9 DEF Next
  <2>2. CASE UNCHANGED vars BY <1>2, <2>2 DEF vars, FullInv
  <2>. QED BY <1>2, <2>1, <2>2
<1>3. FullInv => NeverFull BY DEF FullInv, NeverFull
<1>. QED BY <1>1, <1>2, <1>3, IInvariant, PTL DEF Spec
=============================================================================
