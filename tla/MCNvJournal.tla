---------------------------- MODULE MCNvJournal ----------------------------
\* NvJournal for TLC: two values live at once out of three ids, a short
\* value and one of two cells, halves of two pages and as small as the
\* static_assert allows.  The flash is new, or
\* nearly full: of the panic's record and another, or of two others.
EXTENDS NvJournal, TLC
CONSTANTS crash, a, b, short, long

ThreeIds == {crash, a, b}
TwoVals == {short, long}
Swap == Permutations({a, b})
CellsOf == [v \in TwoVals |-> IF v = long THEN 2 ELSE 1]

Entry(i, v, s, part) == [id |-> i, val |-> v, seq |-> s, part |-> part]
Written(i, j) == [c \in 1 .. HalfCells |->
  CASE c \in 1 .. 2 -> Entry(i, long, 1, c)
    [] c \in 3 .. 4 -> Entry(j, long, 2, c - 2)
    [] c \in 5 .. 6 -> Entry(i, long, 3, c - 4)
    [] OTHER -> Blank]
New == [h \in Half |-> Blanks]
NewOrWritten == {New} \cup {[New EXCEPT ![0] = Written(i, crash)] : i \in {a, b}}
Full == {[New EXCEPT ![0] = Written(p[1], p[2])] : p \in {<<a, b>>, <<b, a>>}}
=============================================================================
