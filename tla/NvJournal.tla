------------------------------ MODULE NvJournal ------------------------------
(***************************************************************************)
(* util/nv_journal.hpp: a value per id in two halves of a flash that is    *)
(* erased a page at a time and programmed once a cell.  A step is one call *)
(* of the media with the code around it; the power can go, or a handler    *)
(* can panic, before, within and after each of them.                       *)
(*                                                                         *)
(* A program that is interrupted has put down the first cells of its       *)
(* entry; an erase that is interrupted has erased its page, or left it as  *)
(* it was, or left nothing in it that can be read.                         *)
(***************************************************************************)
EXTENDS Naturals, FiniteSets, FiniteSetsExt

CONSTANTS
  Ids,         \* the names of the values
  Vals,        \* what is saved
  Cells,       \* the cells an entry of a value takes (cells_for)
  MaxIds,      \* max_ids
  PageCells,   \* the cells of an erase unit
  HalfPages,   \* half_pages
  PanicId, PanicVal,   \* the record of JournalPanic
  Nothing, Blank, Torn,
  PartialRefusal,      \* a program the media refuses may have put part of itself down
  Former,              \* the flashes an earlier run may have left
  MaxCalls, MaxFaults  \* bounds: saves and collections; losses of power, panics and refusals

HalfCells == HalfPages * PageCells
MaxEntryCells == Max({Cells[v] : v \in Vals})
Reserve == MaxEntryCells

ASSUME CellsAssumption == Cells \in [Vals -> Nat \ {0}] /\ IsFiniteSet(Vals) /\ Vals # {}
\* The static_assert on the geometry.
ASSUME GeometryAssumption == (MaxIds + 2) * MaxEntryCells <= HalfCells
ASSUME PanicAssumption == PanicId \in Ids /\ PanicVal \in Vals

ASSUME BoundsAssumption ==
  /\ MaxIds \in Nat /\ PageCells \in Nat \ {0} /\ HalfPages \in Nat \ {0}
  /\ MaxCalls \in Nat /\ MaxFaults \in Nat /\ PartialRefusal \in BOOLEAN

VARIABLES
  flash,    \* half -> its cells
  ram,      \* the index and the cursors, rebuilt by mount()
  pc,       \* off, idle, wipe (erasing the idle half), copy (and erasing the old one), append
  page,     \* the page an erase has come to
  req,      \* what save() was called with, Nothing in collect()
  answer,   \* what the last save() said
  saved,    \* a save has been taken since the boot
  calls, faults

vars == <<flash, ram, pc, page, req, answer, saved, calls, faults>>

Half == {0, 1}
Place == Half \X (1 .. HalfCells)
Laid == [id : Ids, val : Vals, seq : Nat \ {0}, part : 1 .. MaxEntryCells]
Cell == {Blank, Torn} \cup Laid
Blanks == [c \in 1 .. HalfCells |-> Blank]
NoRam == [index |-> [i \in Ids |-> Nothing], seq |-> 0, used |-> 0, active |-> 0, pending |-> FALSE]

Init ==
  /\ flash \in Former
  /\ ram = NoRam /\ pc = "off" /\ page = 1 /\ req = Nothing
  /\ answer = "none" /\ saved = FALSE
  /\ calls = 0 /\ faults = 0

-----------------------------------------------------------------------------
\* What can be read in a flash f.  An entry is whole when all its cells are
\* there: its checksum covers them.
HeaderAt(f, h, c) ==
  /\ f[h][c] \notin {Blank, Torn} /\ f[h][c].part = 1
  /\ c + Cells[f[h][c].val] - 1 <= HalfCells

Whole(f, h, c) ==
  /\ HeaderAt(f, h, c)
  /\ \A k \in 2 .. Cells[f[h][c].val] : f[h][c + k - 1] = [f[h][c] EXCEPT !.part = k]

Entries(f) == {p \in Place : Whole(f, p[1], p[2])}

\* A flash that a journal may have left: no header within the cells of an
\* entry, no two entries of one number, no more ids than max_ids.
Sound(f) ==
  /\ f \in [Half -> [1 .. HalfCells -> Cell]]
  /\ \A h \in Half, c, d \in 1 .. HalfCells :
       HeaderAt(f, h, c) /\ c < d /\ d < c + Cells[f[h][c].val] => ~HeaderAt(f, h, d)
  /\ \A p, q \in Entries(f) : f[p[1]][p[2]].seq = f[q[1]][q[2]].seq => p = q
  /\ Cardinality({f[p[1]][p[2]].id : p \in Entries(f)}) <= MaxIds

ASSUME FormerAssumption == \A f \in Former : Sound(f)
ASSUME MarksAssumption ==
  /\ Blank # Torn /\ Blank \notin Laid /\ Torn \notin Laid
  /\ Nothing \notin Place \cup [id : Ids, val : Vals]

\* scan_half(): the cells where its walk finds a header.
Headers(f, h) ==
  LET from[c \in 1 .. HalfCells + 1] ==
        IF c > HalfCells THEN {}
        ELSE IF HeaderAt(f, h, c) THEN {c} \cup from[c + Cells[f[h][c].val]]
        ELSE from[c + 1]
  IN from[1]

Found(f, h) == {c \in Headers(f, h) : Whole(f, h, c)}

\* The first cell that may be programmed is the one after these.
HighWater(f, h) ==
  Max({0} \cup {c + Cells[f[h][c].val] - 1 : c \in Headers(f, h)}
          \cup {c \in 1 .. HalfCells : f[h][c] # Blank})

Newest(f, places) == CHOOSE p \in places : \A q \in places : f[p[1]][p[2]].seq >= f[q[1]][q[2]].seq

\* mount(): the index, and the half that holds the newest entry.
Scanned(f) ==
  LET at(i) == {p \in Place : p[2] \in Found(f, p[1]) /\ f[p[1]][p[2]].id = i}
      top(h) == Max({0} \cup {f[h][c].seq : c \in Found(f, h)})
      act == IF Found(f, 0) \cup Found(f, 1) # {}
             THEN IF top(1) > top(0) THEN 1 ELSE 0
             ELSE IF HighWater(f, 1) < HighWater(f, 0) THEN 1 ELSE 0
  IN [index |-> [i \in Ids |-> IF at(i) = {} THEN Nothing ELSE Newest(f, at(i))],
      seq |-> Max({top(0), top(1)}),
      used |-> HighWater(f, act),
      active |-> act,
      pending |-> Found(f, 0) # {} /\ Found(f, 1) # {}]

\* Mutant: an unfinished collection is not noted.
MountedForgets(f) == [Scanned(f) EXCEPT !.pending = FALSE]
Mounted(f) == Scanned(f)

Mount ==
  /\ pc = "off"
  /\ pc' = "idle" /\ ram' = Mounted(flash) /\ saved' = FALSE
  /\ UNCHANGED <<flash, page, req, answer, calls, faults>>

-----------------------------------------------------------------------------
\* Programming.  A cell that was not blank holds neither entry afterwards.
Programmed(f, r, i, v, k) ==
  [f EXCEPT ![r.active] =
     [c \in 1 .. HalfCells |->
        IF c \notin r.used + 1 .. r.used + k THEN f[r.active][c]
        ELSE IF f[r.active][c] # Blank THEN Torn
        ELSE [id |-> i, val |-> v, seq |-> r.seq + 1, part |-> c - r.used]]]

\* The rest of append(), with remember_new(): the place, the cells, the
\* number.  Mutants: the place an id already had is kept; the number is
\* not moved on.
RememberedAt(r, i, place, cells, seq) ==
  [r EXCEPT !.seq = seq, !.used = @ + cells, !.index[i] = place]

RememberedOldPlace(r, i, v) ==
  RememberedAt(r, i, IF r.index[i] = Nothing THEN <<r.active, r.used + 1>> ELSE r.index[i],
               Cells[v], r.seq + 1)
RememberedSameSeq(r, i, v) == RememberedAt(r, i, <<r.active, r.used + 1>>, Cells[v], r.seq)
Remembered(r, i, v) == RememberedAt(r, i, <<r.active, r.used + 1>>, Cells[v], r.seq + 1)

Fits(r, v) == r.used + Cells[v] <= HalfCells

Live(r) == {i \in Ids : r.index[i] # Nothing}
TooMany(r, i) == i \notin Live(r) /\ Cardinality(Live(r)) >= MaxIds

\* What load() and collect() read where the index points.
Read(f, r, i) ==
  LET p == r.index[i]
  IN IF p = Nothing THEN Nothing
     ELSE IF Whole(f, p[1], p[2]) /\ f[p[1]][p[2]].id = i THEN f[p[1]][p[2]].val ELSE Torn

Return(a) == pc' = "idle" /\ req' = Nothing /\ answer' = a /\ saved' = (saved \/ a = "taken")

\* A verb that fails in collect() called by the program leaves save()'s answer.
Fail(why) == Return(IF req = Nothing THEN answer ELSE why)

-----------------------------------------------------------------------------
\* save(), once no collection is pending.  Mutant: the reserve forgotten.
NeedsRoomUnreserved(r, v) == r.used + Cells[v] > HalfCells
NeedsRoom(r, v) == r.used + Cells[v] + Reserve > HalfCells

Proceed(r, s) ==
  \/ TooMany(r, s.id) /\ Return("too_many_ids")
  \/ /\ ~TooMany(r, s.id)
     /\ pc' = IF NeedsRoom(r, s.val) THEN "wipe" ELSE "append"
     /\ req' = s /\ answer' = "none"
     /\ UNCHANGED saved

Save(i, v) ==
  /\ pc = "idle" /\ calls < MaxCalls
  /\ calls' = calls + 1 /\ page' = 1
  /\ LET s == [id |-> i, val |-> v]
     IN IF ram.pending
        THEN pc' = "copy" /\ req' = s /\ answer' = "none" /\ UNCHANGED saved
        ELSE Proceed(ram, s)
  /\ UNCHANGED <<flash, ram, faults>>

Collect ==
  /\ pc = "idle" /\ calls < MaxCalls
  /\ calls' = calls + 1 /\ page' = 1
  /\ pc' = IF ram.pending THEN "copy" ELSE "wipe"
  /\ UNCHANGED <<flash, ram, req, answer, saved, faults>>

PageOf(p) == (p - 1) * PageCells + 1 .. p * PageCells
Erased(f, h, p, as) == [f EXCEPT ![h] = [c \in 1 .. HalfCells |-> IF c \in PageOf(p) THEN as ELSE f[h][c]]]

\* collect(): the idle half is erased first.  Mutant of Opened: used_ kept.
OpenedFull(r) == [r EXCEPT !.active = 1 - @]
Opened(r) == [r EXCEPT !.active = 1 - @, !.used = 0]

Wipe ==
  /\ pc = "wipe"
  /\ flash' = Erased(flash, 1 - ram.active, page, Blank)
  /\ IF page < HalfPages
     THEN page' = page + 1 /\ UNCHANGED <<ram, pc>>
     ELSE page' = 1 /\ ram' = Opened(ram) /\ pc' = "copy"
  /\ UNCHANGED <<req, answer, saved, calls, faults>>

\* The live values that are not in the destination yet, copied one by one.
Uncopied == {i \in Live(ram) : ram.index[i][1] # ram.active}

Copy ==
  /\ pc = "copy"
  /\ \E i \in Uncopied :
       LET v == Read(flash, ram, i)
       IN IF Fits(ram, v)
          THEN /\ flash' = Programmed(flash, ram, i, v, Cells[v])
               /\ ram' = Remembered(ram, i, v)
               /\ UNCHANGED <<pc, req, answer, saved>>
          ELSE /\ ram' = [ram EXCEPT !.pending = TRUE]
               /\ Fail("no_room")
               /\ UNCHANGED flash
  /\ UNCHANGED <<page, calls, faults>>

\* Then the old half is erased, and save() goes on where it called collect().
Swept == pc = "copy" /\ Uncopied = {}
Sweep ==
  /\ Swept
  /\ flash' = Erased(flash, 1 - ram.active, page, Blank)
  /\ IF page < HalfPages
     THEN page' = page + 1 /\ UNCHANGED <<ram, pc, req, answer, saved>>
     ELSE /\ page' = 1
          /\ ram' = [ram EXCEPT !.pending = FALSE]
          /\ \/ req = Nothing /\ Return(answer)
             \/ req # Nothing /\ ram.pending /\ Proceed(ram, req)
             \/ req # Nothing /\ ~ram.pending /\ pc' = "append" /\ UNCHANGED <<req, answer, saved>>
  /\ UNCHANGED <<calls, faults>>

AppendEntry ==
  /\ pc = "append"
  /\ IF Fits(ram, req.val)
     THEN /\ flash' = Programmed(flash, ram, req.id, req.val, Cells[req.val])
          /\ ram' = Remembered(ram, req.id, req.val)
          /\ Return("taken")
     ELSE UNCHANGED <<flash, ram>> /\ Return("no_room")
  /\ UNCHANGED <<page, calls, faults>>

-----------------------------------------------------------------------------
\* The program under way, as <<id, value>>.
Programs ==
  CASE pc = "append" -> {<<req.id, req.val>>}
    [] pc = "copy" -> {<<i, Read(flash, ram, i)>> : i \in Uncopied}
    [] OTHER -> {}

\* The flash after the first k of its cells.
Partly(p, k) == Programmed(flash, ram, p[1], p[2], k)

\* The media refuses: a program, or an erase.
RefuseProgram ==
  /\ faults < MaxFaults
  /\ faults' = faults + 1
  /\ \E p \in {q \in Programs : Fits(ram, q[2])} :
       \E k \in IF PartialRefusal THEN 0 .. Cells[p[2]] - 1 ELSE {0} : flash' = Partly(p, k)
  /\ Fail("media")
  /\ ram' = [ram EXCEPT !.pending = @ \/ pc = "copy"]
  /\ UNCHANGED <<page, calls>>

RefuseErase ==
  /\ faults < MaxFaults
  /\ pc = "wipe" \/ Swept
  /\ faults' = faults + 1
  /\ Fail("gc_failed")
  /\ ram' = [ram EXCEPT !.pending = @ \/ pc = "copy"]
  /\ UNCHANGED <<flash, page, calls>>

\* The machine starts again: what was in RAM is gone.
Reset ==
  /\ pc # "off" /\ faults < MaxFaults
  /\ faults' = faults + 1
  /\ pc' = "off" /\ ram' = NoRam /\ req' = Nothing /\ page' = 1
  /\ answer' = "none" /\ saved' = FALSE
  /\ UNCHANGED calls

\* A flash an interrupted program, an interrupted erase leave.
Programming ==
  UNION {{Partly(p, k) : k \in 1 .. Cells[p[2]]} : p \in {q \in Programs : Fits(ram, q[2])}}
Erasing(as) == IF pc = "wipe" \/ Swept THEN {Erased(flash, 1 - ram.active, page, as)} ELSE {}

PowerCut ==
  /\ Reset
  /\ flash' \in {flash} \cup Programming \cup Erasing(Blank) \cup Erasing(Torn)

\* JournalPanic::report(): save_reserved() with the cursors as they are.
Reserved(f) ==
  IF TooMany(ram, PanicId) \/ ~Fits(ram, PanicVal) THEN f
  ELSE Programmed(f, ram, PanicId, PanicVal, Cells[PanicVal])

\* A panic between two programs, and one that finds a program under way.
Panic == Reset /\ flash' \in {Reserved(f) : f \in {flash} \cup Erasing(Blank)}
PanicInProgram == Reset /\ flash' \in {Reserved(f) : f \in Programming}

Next ==
  \/ Mount
  \/ \E i \in Ids, v \in Vals : Save(i, v)
  \/ Collect \/ Wipe \/ Copy \/ Sweep \/ AppendEntry
  \/ RefuseProgram \/ RefuseErase
  \/ PowerCut \/ Panic \/ PanicInProgram

Spec == Init /\ [][Next]_vars

-----------------------------------------------------------------------------
TypeOK ==
  /\ flash \in [Half -> [1 .. HalfCells -> Cell]]
  /\ ram.index \in [Ids -> Place \cup {Nothing}]
  /\ ram.seq \in Nat /\ ram.used \in 0 .. HalfCells
  /\ ram.active \in Half /\ ram.pending \in BOOLEAN
  /\ pc \in {"off", "idle", "wipe", "copy", "append"}
  /\ page \in 1 .. HalfPages
  /\ req \in {Nothing} \cup [id : Ids, val : Vals]
  /\ answer \in {"none", "taken", "too_many_ids", "no_room", "media", "gc_failed"}
  /\ saved \in BOOLEAN

\* The value of an id: the whole entry of the highest sequence number,
\* wherever it lies.
Value(f, i) ==
  LET at == {p \in Entries(f) : f[p[1]][p[2]].id = i}
  IN IF at = {} THEN Nothing
     ELSE LET p == Newest(f, at) IN f[p[1]][p[2]].val

\* At every step of a save, a collection and a resumed collection, load()
\* answers what a boot at that moment would (nv_journal.hpp:73-83).
IndexIsTheFlash == TypeOK /\ (pc # "off" => \A i \in Ids : Read(flash, ram, i) = Value(flash, i))

\* Once a save has been taken the reserve is there, within a collection too
\* (nv_journal.hpp:360-363, 108-116).
ReserveKept == saved => ram.used + Reserve <= HalfCells

\* A panic that does not fall within a program leaves its record to the next
\* boot, wherever the save or the collection it interrupts had come to.
PanicRecorded ==
  [][Panic /\ saved /\ ~TooMany(ram, PanicId) => Value(flash', PanicId) = PanicVal]_vars

\* No save is refused for want of room: whatever state the losses of power
\* left, the next save finishes the job (test_nv_journal/main.cpp:606).
NeverFull == answer # "no_room"

Store == INSTANCE ValueStore WITH
  value <- [i \in Ids |-> Value(flash, i)],
  want <- req,
  answer <- IF answer \in {"none", "taken"} THEN answer ELSE "refused"

\* A save is atomic, a collection changes no value, and nothing that happens
\* in one costs any other (nv_journal.hpp:62-83).
ImplementsStore == Store!Spec
=============================================================================
