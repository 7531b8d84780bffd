------------------------------ MODULE RubatoProofs ------------------------------
(***************************************************************************)
(* Rubato for every number of objects, every depth of their queues, with   *)
(* the window and without it.  IInv is the inductive invariant of the      *)
(* stack; Settled adds what a scan knows of the queues, and needs that no  *)
(* choice sees the count of quiet posts come round (NoWrap).               *)
(***************************************************************************)
EXTENDS Rubato, FiniteSetTheorems, SequenceTheorems, TLAPS

\* The ceiling a run had when it last ran: its own, for the innermost, the
\* base of the run over it for another.  CeilingAt(0) is the loop's.
CeilingAt(k) ==
  IF k = Len(runs) \/ runs[k + 1].pc = "taken" THEN ceiling ELSE runs[k + 1].base

\* A scan stays below the run's base: the first up to it, the second up to
\* the object held, the third past that one.
ScanInv(r) ==
  /\ r.pc \in {"look", "found", "raised", "nothing"} =>
       \/ r.held = NoHold /\ r.above = r.base
       \/ r.held < r.base /\ r.above \in {r.held, r.held + 1}
  /\ r.pc = "look" => r.i <= r.above
  /\ r.pc \in {"found", "raised"} => r.i < r.above
  /\ r.pc = "nothing" => r.i >= r.above
  /\ r.pc \in {"serve", "dispatch"} => r.i < r.base

\* The ceiling is down while a run chooses, at the object held in the later
\* scans and at the object chosen from the raise on.
LevelInv(r, c) ==
  /\ r.pc \in {"call", "choose"} => c = 0
  /\ r.pc \in {"look", "found", "nothing"} => c = IF r.held = NoHold THEN 0 ELSE r.held
  /\ r.pc \in {"raised", "serve", "dispatch"} => c = r.i
  /\ r.pc = "gap" => c < r.base

\* One run of the stack.  A base of 0 is the spurious run of a request made
\* in the window: it stands over a run that has not chosen yet, and nothing
\* stands over it.
RunInv(k) ==
  IF runs[k].pc = "taken" THEN k = Len(runs)
  ELSE /\ ScanInv(runs[k]) /\ LevelInv(runs[k], CeilingAt(k))
       /\ runs[k].base > 0 => runs[k].base + k <= N + 1
       /\ runs[k].base = 0 => k = Len(runs) /\ k > 1 /\ runs[k - 1].pc = "call"
       /\ k < Len(runs) => runs[k].pc = "call" \/ CeilingAt(k) > 0

StackInv == \A k \in 1 .. Len(runs) : RunInv(k)

\* The bases go down the stack, and nobody's count is ahead.
BaseInv ==
  /\ \A k, l \in 1 .. Len(runs) :
       k <= l /\ runs[l].pc # "taken" => runs[l].base <= runs[k].base
  /\ \A k \in 1 .. Len(runs) : runs[k].count <= quiet

\* A request is there for something to do: a ceiling above 0, or a run that
\* has entered and not chosen.
PendingInv ==
  pending => ceiling > 0 \/ (runs # <<>> /\ Top.pc = "call" /\ Top.base > 0)

\* Where the loop is, and what the stack over it can be.
LoopInv ==
  /\ main = "run" => runs # <<>> /\ runs[1].pc \notin {"taken", "call"} /\ runs[1].base = Base
  /\ main \in {"walk", "idle", "asleep"} => runs = <<>>
  /\ main \in {"walk", "idle"} => ceiling = 0
  /\ main = "top" /\ runs # <<>> => CeilingAt(0) = Base
  /\ main = "top" /\ runs = <<>> => ceiling \in {0, Base}
  /\ main = "asleep" => /\ ~handler /\ ~pending /\ ceiling = Base
                        /\ \A i \in Objects : waiting[i] = 0

IInv ==
  /\ TypeOK
  /\ StackInv
  /\ BaseInv
  /\ PendingInv
  /\ LoopInv

-----------------------------------------------------------------------------
\* What the innermost run knows of the queues: an object its scan has passed,
\* or that stands above the object it serves, waits only if the count has
\* moved or a request is there.
Settled(r, queues, count, asked) ==
  /\ r.pc \in {"look", "found", "nothing"} /\ r.held = NoHold =>
       \A j \in Objects : j < r.i /\ queues[j] > 0 => count > r.count
  /\ r.pc = "raised" /\ r.held = NoHold =>
       \A j \in Objects : j < r.i /\ queues[j] > 0 => asked \/ count > r.count
  /\ r.pc \in {"look", "found", "nothing"} /\ r.held # NoHold =>
       \A j \in Objects :
         j < r.held /\ (j < r.i \/ r.above > r.held) /\ queues[j] > 0 => asked
  /\ (r.pc = "raised" /\ r.held # NoHold) \/ r.pc = "serve" =>
       \A j \in Objects : j < r.i /\ queues[j] > 0 => asked
  /\ r.pc = "dispatch" =>
       \A j \in Objects : j < r.i /\ j # r.post /\ queues[j] > 0 => asked

TopSettled == runs # <<>> => Settled(Top, waiting, quiet, pending)

-----------------------------------------------------------------------------
\* A stack that is not empty has an innermost run, and every run is one.
LEMMA RunsType ==
  ASSUME TypeOK, runs # <<>>
  PROVE  /\ Len(runs) \in Nat /\ Len(runs) >= 1
         /\ Top \in Run /\ \A k \in 1 .. Len(runs) : runs[k] \in Run
<1>1. runs \in Seq(Run) BY DEF TypeOK
<1>2. Len(runs) \in Nat /\ Len(runs) >= 1 BY <1>1
<1>. QED BY <1>1, <1>2 DEF Top

\* A run with one local changed is still one.
LEMMA RunExcept ==
  ASSUME NEW r \in Run
  PROVE  /\ \A q \in Pcs : [r EXCEPT !.pc = q] \in Run
         /\ \A c \in Nat : [r EXCEPT !.count = c] \in Run
         /\ \A b \in 0 .. N : [r EXCEPT !.above = b] \in Run
         /\ \A h \in 0 .. N : [r EXCEPT !.held = h] \in Run
         /\ [r EXCEPT !.i = 0] \in Run
         /\ \A p \in 0 .. N : [r EXCEPT !.post = p] \in Run
<1>1. \A q \in Pcs : [r EXCEPT !.pc = q] \in Run BY DEF Run
<1>2. \A c \in Nat : [r EXCEPT !.count = c] \in Run BY DEF Run
<1>3. \A b \in 0 .. N : [r EXCEPT !.above = b] \in Run BY DEF Run
<1>4. \A h \in 0 .. N : [r EXCEPT !.held = h] \in Run BY DEF Run
<1>5. [r EXCEPT !.i = 0] \in Run BY NAssumption DEF Run
<1>6. \A p \in 0 .. N : [r EXCEPT !.post = p] \in Run BY DEF Run
<1>. QED BY <1>1, <1>2, <1>3, <1>4, <1>5, <1>6

\* Changing the innermost run changes no other and no length.
LEMMA SetTopRuns ==
  ASSUME TypeOK, runs # <<>>, NEW r \in Run, SetTop(r)
  PROVE  /\ runs' \in Seq(Run) /\ runs' # <<>> /\ Len(runs') = Len(runs) /\ Top' = r
         /\ runs'[Len(runs)] = r
         /\ \A k \in 1 .. Len(runs) - 1 : runs'[k] = runs[k]
<1>1. runs \in Seq(Run) /\ Len(runs) \in Nat /\ Len(runs) >= 1 BY RunsType DEF TypeOK
<1>2. runs' = [runs EXCEPT ![Len(runs)] = r] BY DEF SetTop
<1>3. runs' \in Seq(Run) /\ Len(runs') = Len(runs) BY <1>1, <1>2
<1>4. runs' # <<>> BY <1>1, <1>3
<1>5. /\ runs'[Len(runs)] = r
      /\ \A k \in 1 .. Len(runs) - 1 : runs'[k] = runs[k]
  BY <1>1, <1>2
<1>. QED BY <1>3, <1>4, <1>5 DEF Top

\* A run's ceiling stays below its base, but for a run that has raised none.
LEMMA LevelBelow ==
  ASSUME NEW r \in Run, NEW c \in 0 .. N, r.pc # "taken", ScanInv(r), LevelInv(r, c), c > 0
  PROVE  c < r.base
BY NAssumption DEF Run, Pcs, ScanInv, LevelInv, NoHold

\* A step of the innermost run, the requests being taken.
LEMMA TopIInv ==
  ASSUME IInv, runs # <<>>, Top.pc # "taken",
         NEW r \in Run, SetTop(r), r.pc \notin {"taken", "call"}, r.base = Top.base,
         ScanInv(r), LevelInv(r, ceiling'), r.count <= quiet', quiet <= quiet',
         TypeOK', main' = main, pending' => ceiling' > 0
  PROVE  IInv'
<1>. USE DEF IInv
<1>1. /\ Len(runs) \in Nat /\ Len(runs) >= 1
      /\ Top \in Run /\ \A k \in 1 .. Len(runs) : runs[k] \in Run
  BY RunsType
<1>2. /\ runs' # <<>> /\ Len(runs') = Len(runs) /\ Top' = r
      /\ runs'[Len(runs)] = r
      /\ \A k \in 1 .. Len(runs) - 1 : runs'[k] = runs[k]
  BY SetTopRuns
<1>3. \A k \in 1 .. Len(runs) : runs[k].pc # "taken"
  BY <1>1 DEF StackInv, RunInv, Top
<1>4. \A k \in 1 .. Len(runs) : runs'[k].base = runs[k].base /\ runs'[k].pc # "taken"
  BY <1>1, <1>2, <1>3 DEF Top
<1>5. \A k \in 0 .. Len(runs) - 1 : CeilingAt(k)' = CeilingAt(k)
  BY <1>1, <1>2, <1>3, <1>4 DEF CeilingAt
<1>6. StackInv'
  <2>. SUFFICES ASSUME NEW k \in 1 .. Len(runs) PROVE RunInv(k)'
    BY <1>2 DEF StackInv
  <2>1. RunInv(k) BY DEF StackInv
  <2>2. CASE k = Len(runs)
    <3>1. CeilingAt(k)' = ceiling' BY <1>2, <2>2 DEF CeilingAt
    <3>2. runs'[k] = r /\ runs[k] = Top BY <1>2, <2>2 DEF Top
    <3>3. k > 1 => runs'[k - 1] = runs[k - 1] BY <1>1, <1>2, <2>2
    <3>. QED BY <1>2, <1>3, <2>1, <2>2, <3>1, <3>2, <3>3 DEF RunInv
  <2>3. CASE k < Len(runs)
    <3>1. runs'[k] = runs[k] /\ CeilingAt(k)' = CeilingAt(k) BY <1>1, <1>2, <1>5, <2>3
    <3>. QED BY <1>2, <2>1, <2>3, <3>1 DEF RunInv
  <2>. QED BY <1>1, <2>2, <2>3
<1>7. BaseInv'
  <2>1. \A k \in 1 .. Len(runs) : runs'[k].count <= quiet'
    <3>. SUFFICES ASSUME NEW k \in 1 .. Len(runs) PROVE runs'[k].count <= quiet' OBVIOUS
    <3>1. CASE k = Len(runs) BY <1>2, <3>1
    <3>2. CASE k < Len(runs)
      <4>1. runs'[k] = runs[k] /\ runs[k].count <= quiet BY <1>1, <1>2, <3>2 DEF BaseInv
      <4>2. runs[k].count \in Nat /\ quiet \in Nat /\ quiet' \in Nat
        BY <1>1 DEF Run, TypeOK
      <4>. QED BY <4>1, <4>2
    <3>. QED BY <1>1, <3>1, <3>2
  <2>. QED BY <1>2, <1>3, <1>4, <2>1 DEF BaseInv
<1>8. PendingInv' BY DEF PendingInv
<1>9. LoopInv'
  <2>1. main \in {"run", "top"} BY DEF LoopInv, TypeOK
  <2>2. CASE main = "run"
    <3>1. runs[1].pc \notin {"taken", "call"} /\ runs[1].base = Base BY <2>2 DEF LoopInv
    <3>2. runs'[1].pc \notin {"taken", "call"} /\ runs'[1].base = Base
      BY <1>1, <1>2, <1>4, <3>1
    <3>. QED BY <1>2, <2>2, <3>2 DEF LoopInv, Base
  <2>3. CASE main = "top" BY <1>1, <1>2, <1>5, <2>3 DEF LoopInv, Base
  <2>. QED BY <2>1, <2>2, <2>3
<1>. QED BY <1>6, <1>7, <1>8, <1>9
\* The type after a step of the innermost run.
LEMMA TopType ==
  ASSUME TypeOK, runs # <<>>, NEW r \in Run, SetTop(r), ceiling' \in 0 .. N,
         waiting' \in [Objects -> 0 .. Slots], quiet' \in Nat, pending' \in BOOLEAN,
         posts' \in 0 .. MaxPosts, UNCHANGED <<handler, main>>
  PROVE  TypeOK'
BY SetTopRuns DEF TypeOK

\* The queues stay within their slots when a post is pushed.
LEMMA PushType ==
  ASSUME TypeOK, NEW i \in Objects, Push(i)
  PROVE  /\ waiting' \in [Objects -> 0 .. Slots] /\ posts' \in 0 .. MaxPosts
         /\ \A j \in Objects : j # i => waiting'[j] = waiting[j]
         /\ waiting'[i] >= waiting[i]
BY SlotsAssumption, MaxPostsAssumption DEF Push, TypeOK

\* A post either asks, below a ceiling that is above it, or is counted.
LEMMA AskType ==
  ASSUME TypeOK, NEW i \in Nat, Ask(i)
  PROVE  /\ quiet' \in Nat /\ quiet <= quiet' /\ pending' \in BOOLEAN
         /\ pending' => pending \/ ceiling > 0
<1>1. CASE i < ceiling
  <2>1. pending' = TRUE /\ quiet' = quiet BY <1>1 DEF Ask
  <2>2. ceiling > 0 BY <1>1 DEF TypeOK
  <2>3. quiet' \in Nat /\ quiet <= quiet' BY <2>1 DEF TypeOK
  <2>. QED BY <2>1, <2>2, <2>3
<1>2. CASE ~(i < ceiling)
  <2>1. quiet' = quiet + 1 /\ pending' = pending BY <1>2 DEF Ask
  <2>2. quiet' \in Nat /\ quiet <= quiet' BY <2>1 DEF TypeOK
  <2>. QED BY <2>1, <2>2 DEF TypeOK
<1>. QED BY <1>1, <1>2

\* A run enters, chooses and looks.
LEMMA ChooseIInv == ASSUME IInv, Call \/ Choose \/ Look PROVE IInv'
<1>. USE DEF IInv
<1>1. /\ runs # <<>> /\ Top.pc \in {"call", "choose", "look"} /\ ~pending
      /\ UNCHANGED <<waiting, ceiling, quiet, pending, handler, main, posts>>
  BY DEF Call, Choose, Look, Running, Thread
<1>2. Top \in Run /\ quiet \in Nat /\ ceiling \in 0 .. N BY <1>1, RunsType DEF TypeOK
<1>3. ScanInv(Top) /\ LevelInv(Top, ceiling) /\ Top.count <= quiet
  BY <1>1, RunsType DEF StackInv, RunInv, CeilingAt, Top, BaseInv
<1>4. ASSUME NEW r \in Run, SetTop(r), r.pc \notin {"taken", "call"}, r.base = Top.base,
             ScanInv(r), LevelInv(r, ceiling), r.count <= quiet
      PROVE  IInv'
  <2>1. TypeOK' BY <1>1, <1>2, <1>4, TopType DEF TypeOK
  <2>. QED BY <1>1, <1>2, <1>4, <2>1, TopIInv
<1>5. CASE Call
  <2>. DEFINE r == [Top EXCEPT !.pc = "choose"]
  <2>1. SetTop(r) BY <1>5 DEF Call
  <2>2. Top.pc = "call" BY <1>5 DEF Call, Running
  <2>3. r \in Run /\ r.pc = "choose" /\ r.base = Top.base /\ r.count = Top.count
    BY <1>2 DEF Run, Pcs
  <2>4. ScanInv(r) /\ LevelInv(r, ceiling) BY <1>3, <2>2, <2>3 DEF ScanInv, LevelInv
  <2>. QED BY <1>3, <1>4, <2>1, <2>3, <2>4
<1>6. CASE Choose
  <2>. DEFINE r == [Top EXCEPT !.pc = "look", !.count = quiet, !.above = Top.base,
                               !.held = NoHold, !.i = 0]
  <2>1. SetTop(r) BY <1>6 DEF Choose
  <2>2. Top.pc = "choose" BY <1>6 DEF Choose, Running
  <2>3. /\ r.pc = "look" /\ r.base = Top.base /\ r.count = quiet
        /\ r.above = r.base /\ r.held = NoHold /\ r.i = 0 /\ r.base \in 0 .. N
    BY <1>2 DEF Run
  <2>4. r \in Run
    <3>1. Top.base \in 0 .. N /\ NoHold \in 0 .. N /\ "look" \in Pcs
      BY <1>2, NAssumption DEF Run, Pcs, NoHold
    <3>. QED BY <1>2, <3>1, RunExcept
  <2>5. ceiling = 0 BY <1>3, <2>2 DEF LevelInv
  <2>6. ScanInv(r) /\ LevelInv(r, ceiling)
    <3>. HIDE DEF r
    <3>. QED BY <2>3, <2>5 DEF ScanInv, LevelInv
  <2>. QED
    <3>. HIDE DEF r
    <3>. QED BY <1>2, <1>4, <2>1, <2>3, <2>4, <2>6
<1>7. CASE Look
  <2>1. Top.pc = "look" BY <1>7 DEF Look, Running
  <2>2. /\ Top.i \in 0 .. N /\ Top.above \in 0 .. N /\ Top.base \in 0 .. N
        /\ Top.held \in 0 .. N
    BY <1>2 DEF Run
  <2>3. ASSUME NEW q \in {"nothing", "found"},
               q = "nothing" <=> Top.i >= Top.above, SetTop([Top EXCEPT !.pc = q])
        PROVE  IInv'
    <3>. DEFINE r == [Top EXCEPT !.pc = q]
    <3>1. /\ r \in Run /\ r.pc = q /\ r.base = Top.base /\ r.count = Top.count
          /\ r.above = Top.above /\ r.held = Top.held /\ r.i = Top.i
      BY <1>2 DEF Run, Pcs
    <3>2. ScanInv(r) /\ LevelInv(r, ceiling)
      BY <1>3, <2>1, <2>2, <2>3, <3>1 DEF ScanInv, LevelInv
    <3>. QED BY <1>3, <1>4, <2>3, <3>1, <3>2
  <2>4. CASE Top.i < Top.above /\ SetTop([Top EXCEPT !.i = @ + 1])
    <3>. DEFINE r == [Top EXCEPT !.i = @ + 1]
    <3>1. /\ r \in Run /\ r.pc = "look" /\ r.base = Top.base /\ r.count = Top.count
          /\ r.above = Top.above /\ r.held = Top.held /\ r.i = Top.i + 1
      BY <1>2, <2>1, <2>2, <2>4, NAssumption DEF Run, Pcs
    <3>2. ScanInv(r) /\ LevelInv(r, ceiling)
      BY <1>3, <2>1, <2>2, <2>4, <3>1 DEF ScanInv, LevelInv
    <3>. QED BY <1>3, <1>4, <2>4, <3>1, <3>2
  <2>. QED BY <1>7, <2>2, <2>3, <2>4 DEF Look
<1>. QED BY <1>5, <1>6, <1>7

\* The raise and what follows it, to the end of the service.
LEMMA ServeIInv ==
  ASSUME IInv, Raise \/ Recheck \/ Serve \/ DispatchEnd \/ Gap \/ ScanAgain PROVE IInv'
<1>. USE DEF IInv
<1>1. /\ runs # <<>> /\ ~pending
      /\ Top.pc \in {"found", "raised", "serve", "dispatch", "gap", "nothing"}
      /\ UNCHANGED <<quiet, pending, handler, main, posts>>
  BY DEF Raise, Recheck, Serve, DispatchEnd, Gap, ScanAgain, Running, Thread
<1>2. Top \in Run /\ quiet \in Nat /\ ceiling \in 0 .. N BY <1>1, RunsType DEF TypeOK
<1>3. ScanInv(Top) /\ LevelInv(Top, ceiling) /\ Top.count <= quiet
  BY <1>1, RunsType DEF StackInv, RunInv, CeilingAt, Top, BaseInv
<1>4. ASSUME NEW r \in Run, SetTop(r), r.pc \notin {"taken", "call"}, r.base = Top.base,
             ScanInv(r), LevelInv(r, ceiling'), r.count = Top.count,
             waiting' \in [Objects -> 0 .. Slots], ceiling' \in 0 .. N
      PROVE  IInv'
  <2>1. TypeOK' BY <1>1, <1>2, <1>4, TopType DEF TypeOK
  <2>. QED BY <1>1, <1>2, <1>3, <1>4, <2>1, TopIInv
<1>5. /\ Top.i \in 0 .. N /\ Top.above \in 0 .. N /\ Top.base \in 0 .. N
      /\ Top.held \in 0 .. N
  BY <1>2 DEF Run
<1>6. ASSUME NEW q \in {"raised", "serve", "gap", "choose"}, SetTop([Top EXCEPT !.pc = q]),
             ScanInv([Top EXCEPT !.pc = q]), LevelInv([Top EXCEPT !.pc = q], ceiling'),
             UNCHANGED waiting, ceiling' \in 0 .. N
      PROVE  IInv'
  <2>1. /\ [Top EXCEPT !.pc = q] \in Run /\ [Top EXCEPT !.pc = q].pc = q
        /\ [Top EXCEPT !.pc = q].base = Top.base /\ [Top EXCEPT !.pc = q].count = Top.count
    BY <1>2 DEF Run, Pcs
  <2>. QED BY <1>4, <1>6, <2>1 DEF TypeOK
<1>7. ASSUME NEW q \in Pcs
      PROVE  /\ [Top EXCEPT !.pc = q].pc = q /\ [Top EXCEPT !.pc = q].base = Top.base
             /\ [Top EXCEPT !.pc = q].above = Top.above /\ [Top EXCEPT !.pc = q].held = Top.held
             /\ [Top EXCEPT !.pc = q].i = Top.i
  BY <1>2 DEF Run
<1>8. CASE Raise
  <2>1. Top.pc = "found" /\ ceiling' = Top.i /\ SetTop([Top EXCEPT !.pc = "raised"])
        /\ UNCHANGED waiting
    BY <1>8 DEF Raise, Running
  <2>2. ScanInv([Top EXCEPT !.pc = "raised"]) /\ LevelInv([Top EXCEPT !.pc = "raised"], ceiling')
    BY <1>3, <1>7, <2>1 DEF ScanInv, LevelInv, Pcs
  <2>. QED BY <1>5, <1>6, <2>1, <2>2
<1>9. CASE Recheck
  <2>1. Top.pc = "raised" /\ UNCHANGED <<waiting, ceiling>> BY <1>9 DEF Recheck, Running
  <2>2. CASE Top.held = NoHold /\ Byte(quiet) # Byte(Top.count)
    <3>. DEFINE r == [Top EXCEPT !.pc = "look", !.held = Top.i, !.above = Top.i, !.i = 0]
    <3>1. SetTop(r) BY <1>9, <2>2 DEF Recheck
    <3>2. /\ r.pc = "look" /\ r.base = Top.base /\ r.count = Top.count
          /\ r.above = Top.i /\ r.held = Top.i /\ r.i = 0
      BY <1>2 DEF Run
    <3>4. r \in Run BY <1>2, <1>5, RunExcept DEF Pcs
    <3>3. ScanInv(r) /\ LevelInv(r, ceiling)
      BY <1>3, <1>5, <2>1, <2>2, <3>2, NAssumption DEF ScanInv, LevelInv, NoHold
    <3>. QED BY <1>2, <1>4, <2>1, <3>1, <3>2, <3>3, <3>4 DEF TypeOK
  <2>3. CASE ~(Top.held = NoHold /\ Byte(quiet) # Byte(Top.count))
    <3>1. SetTop([Top EXCEPT !.pc = "serve"]) BY <1>9, <2>3 DEF Recheck
    <3>2. ScanInv([Top EXCEPT !.pc = "serve"]) /\ LevelInv([Top EXCEPT !.pc = "serve"], ceiling')
      BY <1>3, <1>5, <1>7, <2>1 DEF ScanInv, LevelInv, Pcs
    <3>. QED BY <1>2, <1>6, <2>1, <3>1, <3>2
  <2>. QED BY <2>2, <2>3
<1>10. CASE Serve
  <2>1. Top.pc = "serve" /\ UNCHANGED ceiling BY <1>10 DEF Serve, Running
  <2>2. Top.i \in Objects BY <1>3, <1>5, <2>1, NAssumption DEF ScanInv, Objects
  <2>3. CASE waiting[Top.i] > 0
    <3>. DEFINE r == [Top EXCEPT !.pc = "dispatch", !.served = TRUE]
    <3>1. SetTop(r) /\ waiting' = [waiting EXCEPT ![Top.i] = @ - 1]
      BY <1>10, <2>3 DEF Serve
    <3>2. waiting' \in [Objects -> 0 .. Slots]
      BY <2>2, <2>3, <3>1, SlotsAssumption DEF TypeOK
    <3>3. /\ r \in Run /\ r.pc = "dispatch" /\ r.base = Top.base /\ r.count = Top.count
          /\ r.i = Top.i
      BY <1>2 DEF Run, Pcs
    <3>4. ScanInv(r) /\ LevelInv(r, ceiling) BY <1>3, <2>1, <3>3 DEF ScanInv, LevelInv
    <3>. QED BY <1>2, <1>4, <2>1, <3>1, <3>2, <3>3, <3>4
  <2>4. CASE ~(waiting[Top.i] > 0)
    <3>1. SetTop([Top EXCEPT !.pc = "gap"]) /\ UNCHANGED waiting BY <1>10, <2>4 DEF Serve
    <3>2. ScanInv([Top EXCEPT !.pc = "gap"]) /\ LevelInv([Top EXCEPT !.pc = "gap"], ceiling')
      BY <1>3, <1>5, <1>7, <2>1 DEF ScanInv, LevelInv, Pcs
    <3>. QED BY <1>2, <1>6, <2>1, <3>1, <3>2
  <2>. QED BY <2>3, <2>4
<1>11. CASE DispatchEnd
  <2>1. Top.pc = "dispatch" /\ UNCHANGED <<waiting, ceiling>> /\ SetTop([Top EXCEPT !.pc = "gap"])
    BY <1>11 DEF DispatchEnd, Running
  <2>2. ScanInv([Top EXCEPT !.pc = "gap"]) /\ LevelInv([Top EXCEPT !.pc = "gap"], ceiling')
    BY <1>3, <1>5, <1>7, <2>1 DEF ScanInv, LevelInv, Pcs
  <2>. QED BY <1>2, <1>6, <2>1, <2>2
<1>12. CASE Gap
  <2>1. Top.pc = "gap" /\ UNCHANGED waiting /\ ceiling' = 0 /\ SetTop([Top EXCEPT !.pc = "choose"])
    BY <1>12 DEF Gap, Running
  <2>2. ScanInv([Top EXCEPT !.pc = "choose"]) /\ LevelInv([Top EXCEPT !.pc = "choose"], ceiling')
    BY <1>7, <2>1 DEF ScanInv, LevelInv, Pcs
  <2>. QED BY <1>6, <2>1, <2>2, NAssumption
<1>13. CASE ScanAgain
  <2>1. Top.pc = "nothing" /\ Top.held # NoHold /\ UNCHANGED <<waiting, ceiling>>
    BY <1>13 DEF ScanAgain, Running
  <2>2. Top.held < Top.base /\ Top.above \in {Top.held, Top.held + 1} /\ ceiling = Top.held
    BY <1>3, <2>1 DEF ScanInv, LevelInv
  <2>3. CASE Top.above > Top.held
    <3>1. SetTop([Top EXCEPT !.pc = "gap"]) BY <1>13, <2>3 DEF ScanAgain
    <3>2. ScanInv([Top EXCEPT !.pc = "gap"]) /\ LevelInv([Top EXCEPT !.pc = "gap"], ceiling')
      BY <1>7, <2>1, <2>2 DEF ScanInv, LevelInv, Pcs
    <3>. QED BY <1>2, <1>6, <2>1, <3>1, <3>2
  <2>4. CASE ~(Top.above > Top.held)
    <3>. DEFINE r == [Top EXCEPT !.pc = "look", !.above = Top.held + 1, !.i = 0]
    <3>1. SetTop(r) BY <1>13, <2>4 DEF ScanAgain
    <3>2. /\ r.pc = "look" /\ r.base = Top.base /\ r.count = Top.count
          /\ r.above = Top.held + 1 /\ r.held = Top.held /\ r.i = 0
      BY <1>2 DEF Run
    <3>4. r \in Run
      <4>1. Top.held + 1 \in 0 .. N BY <1>5, <2>2, NAssumption
      <4>. QED BY <1>2, <4>1, RunExcept DEF Pcs
    <3>3. ScanInv(r) /\ LevelInv(r, ceiling)
      BY <1>5, <2>1, <2>2, <3>2 DEF ScanInv, LevelInv
    <3>. QED BY <1>2, <1>4, <2>1, <3>1, <3>2, <3>3, <3>4 DEF TypeOK
  <2>. QED BY <2>3, <2>4
<1>. QED BY <1>8, <1>9, <1>10, <1>11, <1>12, <1>13

\* A step that leaves the stack and the ceiling where they are.
LEMMA SameStack ==
  ASSUME IInv, UNCHANGED <<runs, ceiling>>, quiet' \in Nat, quiet <= quiet'
  PROVE  StackInv' /\ BaseInv' /\ \A k \in Nat : CeilingAt(k)' = CeilingAt(k)
<1>. USE DEF IInv
<1>1. \A k \in Nat : CeilingAt(k)' = CeilingAt(k) BY DEF CeilingAt
<1>2. StackInv'
  <2>1. \A k \in 1 .. Len(runs) : RunInv(k)' <=> RunInv(k) BY <1>1 DEF RunInv
  <2>. QED BY <2>1 DEF StackInv
<1>3. BaseInv'
  <2>1. ASSUME NEW k \in 1 .. Len(runs) PROVE runs[k].count \in Nat
    <3>1. runs \in Seq(Run) BY DEF TypeOK
    <3>2. runs[k] \in Run BY <3>1
    <3>. QED BY <3>2 DEF Run
  <2>2. \A k \in 1 .. Len(runs) : runs[k].count <= quiet' BY <2>1 DEF BaseInv, TypeOK
  <2>. QED BY <2>2 DEF BaseInv
<1>. QED BY <1>1, <1>2, <1>3

\* A post of a handler asks only below a ceiling, and wakes the core.
LEMMA HandlerPostIInv == ASSUME IInv, NEW i \in Objects, HandlerPost(i) PROVE IInv'
<1>. USE DEF IInv
<1>1. /\ UNCHANGED <<runs, ceiling>> /\ handler' = TRUE
      /\ main' = IF main = "asleep" THEN "top" ELSE main
      /\ Push(i) /\ Ask(i)
  BY DEF HandlerPost
<1>2. /\ quiet' \in Nat /\ quiet <= quiet' /\ pending' \in BOOLEAN
      /\ pending' => pending \/ ceiling > 0
  BY <1>1, NAssumption, AskType DEF Objects
<1>3. TypeOK' BY <1>1, <1>2, PushType DEF TypeOK
<1>4. StackInv' /\ BaseInv' /\ CeilingAt(0)' = CeilingAt(0) BY <1>1, <1>2, SameStack
<1>5. PendingInv' BY <1>1, <1>2 DEF PendingInv, Top
<1>6. LoopInv' BY <1>1, <1>4 DEF LoopInv
<1>. QED BY <1>3, <1>4, <1>5, <1>6

\* run() posts the matured time events with the ceiling down: none asks.
LEMMA WalkPostIInv == ASSUME IInv, NEW i \in Objects, WalkPost(i) PROVE IInv'
<1>. USE DEF IInv
<1>1. /\ UNCHANGED <<runs, ceiling, handler, main>> /\ main = "walk" /\ ~pending
      /\ ceiling = 0 /\ Push(i) /\ Ask(i)
  BY DEF WalkPost, Thread, LoopInv
<1>2. quiet' = quiet + 1 /\ quiet' \in Nat /\ UNCHANGED pending
  BY <1>1, NAssumption DEF Ask, TypeOK, Objects
<1>3. TypeOK' BY <1>1, <1>2, PushType DEF TypeOK
<1>4. StackInv' /\ BaseInv' /\ CeilingAt(0)' = CeilingAt(0)
  BY <1>1, <1>2, SameStack DEF TypeOK
<1>5. PendingInv' BY <1>1, <1>2 DEF PendingInv
<1>6. LoopInv' BY <1>1, <1>4 DEF LoopInv
<1>. QED BY <1>3, <1>4, <1>5, <1>6

\* The two halves of a post made in a dispatch.
LEMMA DispatchPostIInv ==
  ASSUME IInv, (\E j \in Objects : DispatchPush(j)) \/ DispatchAsk PROVE IInv'
<1>. USE DEF IInv
<1>1. /\ runs # <<>> /\ Top.pc = "dispatch" /\ ~pending
      /\ UNCHANGED <<ceiling, handler, main>>
  BY DEF DispatchPush, DispatchAsk, Running, Thread
<1>2. Top \in Run /\ quiet \in Nat /\ ceiling \in 0 .. N BY <1>1, RunsType DEF TypeOK
<1>3. ScanInv(Top) /\ LevelInv(Top, ceiling) /\ Top.count <= quiet
  BY <1>1, RunsType DEF StackInv, RunInv, CeilingAt, Top, BaseInv
<1>4. ASSUME NEW p \in 0 .. N, SetTop([Top EXCEPT !.post = p]),
             waiting' \in [Objects -> 0 .. Slots], posts' \in 0 .. MaxPosts,
             quiet' \in Nat, quiet <= quiet', pending' \in BOOLEAN, pending' => ceiling > 0
      PROVE  IInv'
  <2>. DEFINE r == [Top EXCEPT !.post = p]
  <2>1. r \in Run BY <1>2, <1>4, RunExcept
  <2>2. /\ r.pc = "dispatch" /\ r.base = Top.base /\ r.count = Top.count /\ r.i = Top.i
        /\ Top.count \in Nat
    BY <1>1, <1>2 DEF Run
  <2>3. ScanInv(r) /\ LevelInv(r, ceiling) BY <1>1, <1>3, <2>2 DEF ScanInv, LevelInv
  <2>4. TypeOK' BY <1>1, <1>2, <1>4, <2>1, TopType
  <2>. HIDE DEF r
  <2>5. SetTop(r) BY <1>4 DEF r
  <2>6. r.count <= quiet' BY <1>2, <1>3, <1>4, <2>2
  <2>. QED BY <1>1, <1>4, <2>1, <2>2, <2>3, <2>4, <2>5, <2>6, TopIInv
<1>5. ASSUME NEW j \in Objects, DispatchPush(j) PROVE IInv'
  <2>1. Push(j) /\ SetTop([Top EXCEPT !.post = j]) /\ UNCHANGED <<quiet, pending>>
    BY <1>5 DEF DispatchPush
  <2>2. j \in 0 .. N BY NAssumption DEF Objects
  <2>3. quiet' \in Nat /\ quiet <= quiet' BY <1>2, <2>1
  <2>4. pending' \in BOOLEAN /\ ~pending' BY <1>1, <2>1 DEF TypeOK
  <2>. QED BY <1>4, <2>1, <2>2, <2>3, <2>4, PushType
<1>6. CASE DispatchAsk
  <2>1. /\ Ask(Top.post) /\ SetTop([Top EXCEPT !.post = Nobody]) /\ UNCHANGED <<waiting, posts>>
        /\ Top.post \in 0 .. N /\ Nobody \in 0 .. N
    BY <1>2, <1>6, NAssumption DEF DispatchAsk, Run, Nobody
  <2>2. /\ quiet' \in Nat /\ quiet <= quiet' /\ pending' \in BOOLEAN
        /\ pending' => ceiling > 0
    BY <1>1, <2>1, AskType
  <2>. QED BY <1>4, <2>1, <2>2 DEF TypeOK
<1>. QED BY <1>5, <1>6

\* The loop's own steps, with nothing over it.
LEMMA LoopIInv == ASSUME IInv, LoopTop \/ LoopRun \/ Idle PROVE IInv'
<1>. USE DEF IInv
<1>1. /\ runs = <<>> /\ ~pending /\ ~handler
      /\ UNCHANGED <<waiting, quiet, pending, handler, posts>>
  BY DEF LoopTop, LoopRun, Idle, Thread, LoopInv
<1>2. CASE LoopTop \/ Idle
  <2>1. /\ runs' = <<>> /\ ceiling' \in {0, Base}
        /\ \/ main' = "walk" /\ ceiling' = 0
           \/ /\ main' \in {"top", "asleep"} /\ ceiling' = Base
              /\ main' = "asleep" => \A i \in Objects : waiting[i] = 0
    BY <1>1, <1>2 DEF LoopTop, Idle
  <2>2. TypeOK' BY <1>1, <2>1, NAssumption DEF TypeOK, Base
  <2>3. Len(runs') = 0 BY <2>1
  <2>4. StackInv' /\ BaseInv' BY <2>3 DEF StackInv, BaseInv
  <2>5. PendingInv' /\ LoopInv' BY <1>1, <2>1 DEF PendingInv, LoopInv
  <2>. QED BY <2>2, <2>4, <2>5
<1>3. CASE LoopRun
  <2>1. /\ runs' = <<NewRun(Base, "choose")>> /\ main' = "run" /\ ceiling' = 0 /\ ceiling = 0
    BY <1>3 DEF LoopRun, LoopInv
  <2>2. NewRun(Base, "choose") \in Run
    BY NAssumption DEF NewRun, Run, Pcs, Base, NoHold, Nobody
  <2>3. /\ runs' \in Seq(Run) /\ Len(runs') = 1 /\ runs' # <<>>
        /\ runs'[1] = NewRun(Base, "choose")
    BY <2>1, <2>2
  <2>4. TypeOK' BY <1>1, <2>1, <2>3 DEF TypeOK
  <2>5. runs'[1].pc = "choose" /\ runs'[1].base = N /\ runs'[1].count = 0
    BY <2>3 DEF NewRun, Base
  <2>6. CeilingAt(1)' = 0 BY <2>1, <2>3 DEF CeilingAt
  <2>7. RunInv(1)'
    BY <2>3, <2>5, <2>6, NAssumption DEF RunInv, ScanInv, LevelInv
  <2>8. StackInv' BY <2>3, <2>7 DEF StackInv
  <2>9. BaseInv'
    <3>1. \A k \in 1 .. Len(runs') : k = 1 BY <2>3
    <3>2. runs'[1].base <= runs'[1].base /\ runs'[1].count <= quiet'
      BY <1>1, <2>5, NAssumption DEF TypeOK
    <3>. QED BY <3>1, <3>2 DEF BaseInv
  <2>10. PendingInv' /\ LoopInv' BY <1>1, <2>1, <2>3, <2>5 DEF PendingInv, LoopInv, Base
  <2>. QED BY <2>4, <2>8, <2>9, <2>10
<1>. QED BY <1>2, <1>3

\* A request is taken over a run whose ceiling is up, or one that has not
\* chosen: the run it interrupts has a base to come back to.
LEMMA TakeRequestIInv == ASSUME IInv, TakeRequest PROVE IInv'
<1>. USE DEF IInv
<1>. DEFINE r == NewRun(Base, "taken")
<1>0. runs \in Seq(Run) /\ Len(runs) \in Nat BY DEF TypeOK
<1>n. PICK n \in Nat : n = Len(runs) BY <1>0
<1>1. /\ pending /\ ~handler /\ pending' = FALSE /\ runs' = Append(runs, r)
      /\ runs # <<>> => Top.pc # "taken"
      /\ UNCHANGED <<waiting, ceiling, quiet, handler, main, posts>>
  BY DEF TakeRequest, Running, TypeOK
<1>2. r \in Run /\ r.pc = "taken" /\ r.count = 0
  BY NAssumption DEF NewRun, Run, Pcs, Base, NoHold, Nobody
<1>. HIDE DEF r
<1>3. /\ runs' \in Seq(Run) /\ n \in Nat /\ Len(runs') = n + 1 /\ runs' # <<>>
      /\ runs'[n + 1] = r /\ \A k \in 1 .. n : runs'[k] = runs[k]
  BY <1>0, <1>n, <1>1, <1>2, AppendProperties
<1>4. TypeOK' BY <1>n, <1>1, <1>3 DEF TypeOK
<1>5. \A k \in 1 .. n : runs[k].pc # "taken"
  <2>. SUFFICES ASSUME NEW k \in 1 .. n, runs[k].pc = "taken" PROVE FALSE OBVIOUS
  <2>1. k = n BY <1>n DEF StackInv, RunInv
  <2>2. runs # <<>> BY <1>n, <1>3
  <2>. QED BY <1>n, <1>1, <2>1, <2>2 DEF Top
<1>6. \A k \in 0 .. n : CeilingAt(k)' = CeilingAt(k)
  <2>. SUFFICES ASSUME NEW k \in 0 .. n PROVE CeilingAt(k)' = CeilingAt(k) OBVIOUS
  <2>1. CASE k = n BY <1>n, <1>1, <1>2, <1>3, <2>1 DEF CeilingAt
  <2>2. CASE k < n
    <3>1. k + 1 \in 1 .. n /\ k + 1 # n + 1 /\ k # n + 1 BY <1>n, <1>3, <2>2
    <3>2. runs'[k + 1] = runs[k + 1] /\ runs[k + 1].pc # "taken" BY <1>n, <1>3, <1>5, <3>1
    <3>. QED BY <1>n, <1>3, <2>2, <3>1, <3>2 DEF CeilingAt
  <2>. QED BY <1>n, <1>3, <2>1, <2>2
<1>7. n > 0 => CeilingAt(n) = ceiling /\ ((Top.pc = "call" /\ Top.base > 0) \/ ceiling > 0)
  BY <1>n, <1>1, <1>3 DEF CeilingAt, PendingInv
<1>8. ASSUME NEW k \in 1 .. n PROVE RunInv(k)'
  <2>1. RunInv(k) /\ runs[k].pc # "taken" /\ runs'[k] = runs[k] /\ CeilingAt(k)' = CeilingAt(k)
    BY <1>n, <1>3, <1>5, <1>6 DEF StackInv
  <2>2. runs[k] \in Run /\ runs[k].base \in 0 .. N
    <3>1. runs[k] \in Run BY <1>0, <1>n, ElementOfSeq
    <3>. QED BY <3>1 DEF Run
  <2>3. ScanInv(runs[k]) /\ LevelInv(runs[k], CeilingAt(k)) BY <2>1 DEF RunInv
  <2>4. runs[k].pc = "call" \/ CeilingAt(k) > 0
    <3>1. CASE k = n BY <1>n, <1>7, <3>1 DEF Top
    <3>2. CASE k # n BY <1>n, <1>3, <2>1, <3>2 DEF RunInv
    <3>. QED BY <3>1, <3>2
  <2>5. runs[k].base > 0
    <3>1. CASE k = n
      <4>1. CASE ceiling > 0
        <5>1. CeilingAt(k) > 0 /\ CeilingAt(k) \in 0 .. N BY <1>7, <3>1, <4>1 DEF TypeOK
        <5>2. CeilingAt(k) < runs[k].base BY <2>1, <2>2, <2>3, <5>1, LevelBelow
        <5>. QED BY <2>2, <5>1, <5>2
      <4>2. CASE ~(ceiling > 0) BY <1>n, <1>7, <3>1, <4>2 DEF Top
      <4>. QED BY <4>1, <4>2
    <3>2. CASE k # n BY <1>n, <2>1, <2>2, <3>2 DEF RunInv
    <3>. QED BY <3>1, <3>2
  <2>6. runs'[k].base + k <= N + 1 BY <2>1, <2>5 DEF RunInv
  <2>. QED BY <1>n, <1>3, <2>1, <2>3, <2>4, <2>5, <2>6 DEF RunInv
<1>9. StackInv'
  <2>1. RunInv(n + 1)' BY <1>2, <1>3 DEF RunInv
  <2>2. \A k \in 1 .. n + 1 : k \in 1 .. n \/ k = n + 1 BY <1>n, <1>3
  <2>. QED BY <1>n, <1>3, <1>8, <2>1, <2>2 DEF StackInv
<1>10. BaseInv'
  <2>1. \A k \in 1 .. n + 1 : k \in 1 .. n \/ k = n + 1 BY <1>n, <1>3
  <2>2. \A k \in 1 .. n + 1 : runs'[k].count <= quiet'
    BY <1>n, <1>1, <1>2, <1>3, <2>1 DEF BaseInv, TypeOK
  <2>3. \A k, l \in 1 .. n + 1 :
          k <= l /\ runs'[l].pc # "taken" => runs'[l].base <= runs'[k].base
    <3>. SUFFICES ASSUME NEW k \in 1 .. n + 1, NEW l \in 1 .. n + 1, k <= l, runs'[l].pc # "taken"
                  PROVE  runs'[l].base <= runs'[k].base
      OBVIOUS
    <3>1. l \in 1 .. n BY <1>2, <1>3, <2>1
    <3>2. k \in 1 .. n BY <1>n, <1>3, <3>1
    <3>. QED BY <1>n, <1>3, <3>1, <3>2 DEF BaseInv
  <2>. QED BY <1>n, <1>3, <2>2, <2>3 DEF BaseInv
<1>11. PendingInv' BY <1>1 DEF PendingInv
<1>12. LoopInv'
  <2>1. main \in {"run", "top"}
    BY <1>n, <1>1, NAssumption DEF LoopInv, TypeOK, PendingInv
  <2>2. CASE main = "run"
    <3>1. n >= 1 /\ 1 \in 1 .. n BY <1>n, <1>3, <2>2 DEF LoopInv
    <3>2. runs'[1] = runs[1] BY <1>n, <1>3, <3>1
    <3>. QED BY <1>n, <1>1, <1>3, <2>2, <3>2 DEF LoopInv
  <2>3. CASE main = "top"
    <3>1. CeilingAt(0)' = CeilingAt(0) BY <1>n, <1>3, <1>6
    <3>2. CeilingAt(0) = Base
      <4>1. CASE runs = <<>>
        <5>1. ceiling > 0 BY <1>n, <1>1, <4>1 DEF PendingInv
        <5>2. ceiling = Base BY <2>3, <4>1, <5>1 DEF LoopInv
        <5>. QED BY <4>1, <5>2 DEF CeilingAt
      <4>2. CASE runs # <<>> BY <2>3, <4>2 DEF LoopInv
      <4>. QED BY <4>1, <4>2
    <3>. QED BY <1>n, <1>1, <1>3, <2>3, <3>1, <3>2 DEF LoopInv, Base
  <2>. QED BY <2>1, <2>2, <2>3
<1>. QED BY <1>4, <1>9, <1>10, <1>11, <1>12

\* The entry saves the ceiling as its base: below the base of the run it
\* interrupted, or 0 over one that has not chosen.
LEMMA EntryIInv == ASSUME IInv, Entry PROVE IInv'
<1>. USE DEF IInv
<1>. DEFINE r == NewRun(ceiling, "call")
<1>0. runs \in Seq(Run) /\ Len(runs) \in Nat BY DEF TypeOK
<1>n. PICK n \in Nat : n = Len(runs) BY <1>0
<1>1. /\ ~handler /\ runs # <<>> /\ Top.pc = "taken" /\ SetTop(r) /\ ceiling' = 0
      /\ ceiling \in 0 .. N
      /\ UNCHANGED <<waiting, quiet, pending, handler, main, posts>>
  BY DEF Entry, Running, SetTop, TypeOK
<1>2. r \in Run /\ r.pc = "call" /\ r.count = 0 /\ r.base = ceiling
  BY <1>1, NAssumption DEF NewRun, Run, Pcs, NoHold, Nobody
<1>. HIDE DEF r
<1>3. /\ n >= 1 /\ runs' \in Seq(Run) /\ Len(runs') = n /\ runs' # <<>> /\ Top' = r
      /\ runs'[n] = r /\ \A k \in 1 .. n - 1 : runs'[k] = runs[k]
  BY <1>n, <1>1, <1>2, RunsType, SetTopRuns
<1>4. TypeOK' BY <1>1, <1>2, NAssumption, TopType DEF TypeOK
<1>5. runs[n].pc = "taken" /\ \A k \in 1 .. n - 1 : runs[k].pc # "taken"
  BY <1>n, <1>1 DEF Top, StackInv, RunInv
<1>6. \A k \in 0 .. n - 1 : CeilingAt(k)' = CeilingAt(k)
  <2>. SUFFICES ASSUME NEW k \in 0 .. n - 1 PROVE CeilingAt(k)' = CeilingAt(k) OBVIOUS
  <2>1. CASE k = n - 1
    <3>1. CeilingAt(k) = ceiling BY <1>n, <1>5, <2>1 DEF CeilingAt
    <3>2. CeilingAt(k)' = ceiling BY <1>2, <1>3, <2>1 DEF CeilingAt
    <3>. QED BY <3>1, <3>2
  <2>2. CASE k < n - 1
    <3>1. k + 1 \in 1 .. n - 1 /\ k # n BY <2>2
    <3>2. runs'[k + 1] = runs[k + 1] BY <1>3, <3>1
    <3>. QED BY <1>n, <1>3, <1>5, <3>1, <3>2 DEF CeilingAt
  <2>. QED BY <1>3, <2>1, <2>2
<1>7. CeilingAt(n - 1) = ceiling BY <1>n, <1>3, <1>5 DEF CeilingAt
<1>8. /\ ceiling > 0 => ceiling + n <= N + 1
      /\ ceiling = 0 => n > 1 /\ runs[n - 1].pc = "call"
      /\ n > 1 => ceiling <= runs[n - 1].base
  <2>1. CASE n = 1
    <3>1. main = "top" BY <1>1, <1>5, <2>1 DEF LoopInv, TypeOK
    <3>2. CeilingAt(0) = ceiling BY <1>7, <2>1
    <3>3. ceiling = N BY <1>1, <3>1, <3>2 DEF LoopInv, Base
    <3>. QED BY <2>1, <3>3, NAssumption
  <2>2. CASE n > 1
    <3>1. n - 1 \in 1 .. n /\ n - 1 # n /\ n - 1 < n BY <2>2
    <3>2. RunInv(n - 1) /\ runs[n - 1].pc # "taken" BY <1>n, <1>5, <2>2, <3>1 DEF StackInv
    <3>3. runs[n - 1] \in Run BY <1>0, <1>n, <3>1, ElementOfSeq
    <3>4. runs[n - 1].base \in 0 .. N BY <3>3 DEF Run
    <3>5. ScanInv(runs[n - 1]) /\ LevelInv(runs[n - 1], ceiling) BY <1>7, <3>2 DEF RunInv
    <3>6. runs[n - 1].pc = "call" \/ ceiling > 0 BY <1>n, <1>7, <3>1, <3>2 DEF RunInv
    <3>7. CASE ceiling > 0
      <4>1. ceiling < runs[n - 1].base BY <1>1, <3>2, <3>3, <3>5, <3>7, LevelBelow
      <4>2. runs[n - 1].base + (n - 1) <= N + 1
        BY <1>1, <3>2, <3>4, <4>1 DEF RunInv
      <4>. QED BY <1>1, <3>4, <3>7, <4>1, <4>2, NAssumption
    <3>8. CASE ceiling = 0 BY <2>2, <3>4, <3>6, <3>8
    <3>. QED BY <1>1, <3>7, <3>8
  <2>. QED BY <1>3, <2>1, <2>2
<1>9. StackInv'
  <2>1. RunInv(n)'
    <3>1. CeilingAt(n)' = 0 BY <1>1, <1>3 DEF CeilingAt
    <3>2. ScanInv(r) /\ LevelInv(r, 0) BY <1>2 DEF ScanInv, LevelInv
    <3>3. n > 1 => runs'[n - 1] = runs[n - 1] BY <1>3
    <3>. QED BY <1>2, <1>3, <1>8, <3>1, <3>2, <3>3 DEF RunInv
  <2>2. ASSUME NEW k \in 1 .. n - 1 PROVE RunInv(k)'
    <3>1. RunInv(k) /\ runs[k].pc # "taken" BY <1>n, <1>5 DEF StackInv
    <3>2. runs'[k] = runs[k] /\ CeilingAt(k)' = CeilingAt(k) /\ k < n BY <1>3, <1>6
    <3>3. runs[k].base # 0 BY <1>n, <3>1, <3>2 DEF RunInv
    <3>. QED BY <1>n, <1>3, <3>1, <3>2, <3>3 DEF RunInv
  <2>3. \A k \in 1 .. n : k \in 1 .. n - 1 \/ k = n OBVIOUS
  <2>. QED BY <1>3, <2>1, <2>2, <2>3 DEF StackInv
<1>10. BaseInv'
  <2>1. \A k \in 1 .. n : k \in 1 .. n - 1 \/ k = n OBVIOUS
  <2>2. \A k \in 1 .. n : runs'[k].count <= quiet'
    BY <1>n, <1>1, <1>2, <1>3, <2>1 DEF BaseInv, TypeOK
  <2>3. ASSUME NEW k \in 1 .. n - 1, NEW l \in 1 .. n - 1, k <= l
        PROVE  runs'[l].base <= runs'[k].base
    <3>1. runs[l].base <= runs[k].base BY <1>n, <1>5, <2>3 DEF BaseInv
    <3>. QED BY <1>3, <3>1
  <2>4. ASSUME NEW k \in 1 .. n - 1 PROVE runs'[n].base <= runs'[k].base
    <3>1. n > 1 /\ n - 1 \in 1 .. n /\ k \in 1 .. n /\ k <= n - 1 BY <2>4
    <3>2. runs[n - 1].base <= runs[k].base BY <1>n, <1>5, <3>1 DEF BaseInv
    <3>3. runs[n - 1].base \in Nat /\ runs[k].base \in Nat
      <4>1. runs[n - 1] \in Run /\ runs[k] \in Run BY <1>0, <1>n, <3>1, ElementOfSeq
      <4>. QED BY <4>1, NAssumption DEF Run
    <3>. QED BY <1>1, <1>2, <1>3, <1>8, <3>1, <3>2, <3>3
  <2>5. runs'[n].base <= runs'[n].base BY <1>1, <1>2, <1>3
  <2>6. \A k, l \in 1 .. n : k <= l => runs'[l].base <= runs'[k].base
    <3>. SUFFICES ASSUME NEW k \in 1 .. n, NEW l \in 1 .. n, k <= l
                  PROVE  runs'[l].base <= runs'[k].base
      OBVIOUS
    <3>1. CASE l \in 1 .. n - 1
      <4>1. k \in 1 .. n - 1 BY <3>1
      <4>. QED BY <2>3, <3>1, <4>1
    <3>2. CASE l = n /\ k \in 1 .. n - 1 BY <2>4, <3>2
    <3>3. CASE l = n /\ k = n BY <2>5, <3>3
    <3>. QED BY <2>1, <3>1, <3>2, <3>3
  <2>. QED BY <1>3, <2>2, <2>6 DEF BaseInv
<1>11. PendingInv'
  <2>1. pending => ceiling > 0 BY <1>1 DEF PendingInv
  <2>. QED BY <1>1, <1>2, <1>3, <2>1 DEF PendingInv
<1>12. LoopInv'
  <2>1. CASE main = "run"
    <3>1. runs[1].pc # "taken" BY <2>1 DEF LoopInv
    <3>2. 1 \in 1 .. n - 1 BY <1>3, <1>5, <3>1
    <3>. QED BY <1>1, <1>3, <2>1, <3>2 DEF LoopInv
  <2>2. CASE main = "top"
    <3>1. CeilingAt(0)' = CeilingAt(0) BY <1>3, <1>6
    <3>. QED BY <1>1, <1>3, <2>2, <3>1 DEF LoopInv, Base
  <2>. QED BY <1>1, <2>1, <2>2 DEF LoopInv, TypeOK
<1>. QED BY <1>4, <1>9, <1>10, <1>11, <1>12

\* The stack without its innermost run.
LEMMA FrontRuns ==
  ASSUME TypeOK, runs # <<>>
  PROVE  /\ Front(runs) \in Seq(Run) /\ Len(Front(runs)) = Len(runs) - 1
         /\ \A k \in 1 .. Len(runs) - 1 : Front(runs)[k] = runs[k]
<1>1. runs \in Seq(Run) /\ Len(runs) \in Nat /\ Len(runs) >= 1 BY RunsType DEF TypeOK
<1>2. \A k \in 1 .. Len(runs) - 1 : runs[k] \in Run BY <1>1, ElementOfSeq
<1>3. /\ SubSeq(runs, 1, Len(runs) - 1) \in Seq(Run)
      /\ Len(SubSeq(runs, 1, Len(runs) - 1)) =
           IF 1 <= Len(runs) - 1 THEN Len(runs) - 1 - 1 + 1 ELSE 0
      /\ \A k \in 1 .. Len(runs) - 1 - 1 + 1 :
           SubSeq(runs, 1, Len(runs) - 1)[k] = runs[1 + k - 1]
  <2>1. 1 \in Int /\ Len(runs) - 1 \in Int BY <1>1
  <2>. QED BY <1>2, <2>1, SubSeqProperties
<1>4. Len(runs) - 1 - 1 + 1 = Len(runs) - 1 /\ \A k \in 1 .. Len(runs) - 1 : 1 + k - 1 = k BY <1>1
<1>. QED BY <1>1, <1>3, <1>4 DEF Front

\* The exit gives back the ceiling it found, and asks again only for a run
\* that has something under that ceiling to do, or has not chosen.
LEMMA ExitIInv == ASSUME IInv, Exit PROVE IInv'
<1>. USE DEF IInv
<1>0. runs \in Seq(Run) /\ Len(runs) \in Nat BY DEF TypeOK
<1>n. PICK n \in Nat : n = Len(runs) BY <1>0
<1>1. /\ runs # <<>> /\ Top.pc = "nothing" /\ Top.held = NoHold
      /\ n > 1 \/ main # "run"
      /\ ceiling' = Top.base /\ pending' \in BOOLEAN /\ runs' = Front(runs)
      /\ UNCHANGED <<waiting, quiet, handler, main, posts>>
  BY <1>n DEF Exit, Running, Thread
<1>2. /\ n >= 1 /\ runs' \in Seq(Run) /\ Len(runs') = n - 1
      /\ \A k \in 1 .. n - 1 : runs'[k] = runs[k]
  BY <1>n, <1>1, RunsType, FrontRuns
<1>3. Top = runs[n] /\ runs[n].base \in 0 .. N
  <2>1. Top \in Run BY <1>1, RunsType
  <2>. QED BY <1>n, <2>1 DEF Top, Run
<1>4. TypeOK' BY <1>1, <1>2, <1>3 DEF TypeOK
<1>5. \A k \in 1 .. n : runs[k].pc # "taken"
  BY <1>n, <1>1, <1>3 DEF StackInv, RunInv
<1>6. \A k \in 0 .. n - 1 : CeilingAt(k)' = CeilingAt(k)
  <2>. SUFFICES ASSUME NEW k \in 0 .. n - 1 PROVE CeilingAt(k)' = CeilingAt(k) OBVIOUS
  <2>1. CASE k = n - 1
    <3>1. CeilingAt(k) = Top.base BY <1>n, <1>2, <1>3, <1>5, <2>1 DEF CeilingAt
    <3>2. CeilingAt(k)' = Top.base BY <1>1, <1>2, <2>1 DEF CeilingAt
    <3>. QED BY <3>1, <3>2
  <2>2. CASE k < n - 1
    <3>1. k + 1 \in 1 .. n - 1 /\ k # n /\ k # n - 1 BY <2>2
    <3>2. runs'[k + 1] = runs[k + 1] /\ runs[k + 1].pc # "taken" BY <1>2, <1>5, <3>1
    <3>. QED BY <1>n, <1>2, <3>1, <3>2 DEF CeilingAt
  <2>. QED BY <1>2, <2>1, <2>2
<1>7. StackInv'
  <2>. SUFFICES ASSUME NEW k \in 1 .. n - 1 PROVE RunInv(k)' BY <1>2 DEF StackInv
  <2>1. RunInv(k) /\ runs[k].pc # "taken" /\ k < n BY <1>n, <1>5 DEF StackInv
  <2>2. runs'[k] = runs[k] /\ CeilingAt(k)' = CeilingAt(k) BY <1>2, <1>6
  <2>3. runs[k].base # 0 BY <1>n, <2>1 DEF RunInv
  <2>. QED BY <1>n, <1>2, <2>1, <2>2, <2>3 DEF RunInv
<1>8. BaseInv'
  <2>1. \A k \in 1 .. n - 1 : runs'[k].count <= quiet' BY <1>n, <1>1, <1>2 DEF BaseInv
  <2>2. \A k, l \in 1 .. n - 1 : k <= l => runs'[l].base <= runs'[k].base
    BY <1>n, <1>2, <1>5 DEF BaseInv
  <2>. QED BY <1>2, <2>1, <2>2 DEF BaseInv
<1>9. CASE n > 1
  <2>1. runs' # <<>> /\ Top' = runs[n - 1] BY <1>2, <1>9 DEF Top
  <2>2. n - 1 \in 1 .. n /\ n - 1 # n BY <1>9
  <2>3. RunInv(n) /\ RunInv(n - 1) BY <1>n, <1>9, <2>2 DEF StackInv
  <2>4. runs[n - 1].base \in 0 .. N
    <3>1. runs[n - 1] \in Run BY <1>0, <1>n, <2>2, ElementOfSeq
    <3>. QED BY <3>1 DEF Run
  <2>5. runs[n].base = 0 => runs[n - 1].pc = "call" BY <1>5, <1>9, <2>3 DEF RunInv
  <2>6. runs[n - 1].base > 0 BY <1>n, <1>5, <2>2, <2>3, <2>4 DEF RunInv
  <2>7. PendingInv' BY <1>1, <1>3, <2>1, <2>5, <2>6 DEF PendingInv
  <2>8. LoopInv'
    <3>1. CASE main = "run"
      <4>1. 1 \in 1 .. n - 1 BY <1>9
      <4>. QED BY <1>1, <1>2, <2>1, <3>1, <4>1 DEF LoopInv
    <3>2. CASE main = "top"
      <4>1. CeilingAt(0)' = CeilingAt(0) BY <1>6, <1>9
      <4>. QED BY <1>1, <2>1, <3>2, <4>1 DEF LoopInv, Base
    <3>. QED BY <1>1, <3>1, <3>2 DEF LoopInv, TypeOK
  <2>. QED BY <1>4, <1>7, <1>8, <2>7, <2>8
<1>10. CASE n = 1
  <2>1. runs' = <<>> BY <1>2, <1>10
  <2>2. main = "top" BY <1>1, <1>10 DEF LoopInv, TypeOK
  <2>3. CeilingAt(0) = ceiling' BY <1>n, <1>1, <1>3, <1>5, <1>10 DEF CeilingAt
  <2>4. ceiling' = Base /\ ceiling' > 0 BY <1>1, <2>2, <2>3, NAssumption DEF LoopInv, Base
  <2>5. PendingInv' /\ LoopInv' BY <1>1, <2>1, <2>2, <2>4 DEF PendingInv, LoopInv, Base
  <2>. QED BY <1>4, <1>7, <1>8, <2>5
<1>. QED BY <1>2, <1>9, <1>10

\* The loop's own run ends with the ceiling down.
LEMMA LoopReturnIInv == ASSUME IInv, LoopReturn PROVE IInv'
<1>. USE DEF IInv
<1>1. /\ runs # <<>> /\ Top.pc = "nothing" /\ Top.held = NoHold /\ ~pending /\ ~handler
      /\ Len(runs) = 1 /\ runs' = <<>> /\ main' \in {"top", "idle"}
      /\ UNCHANGED <<waiting, ceiling, quiet, pending, handler, posts>>
  BY DEF LoopReturn, Running, Thread
<1>2. ceiling = 0
  <2>1. Top = runs[1] /\ RunInv(1) BY <1>1 DEF Top, StackInv
  <2>2. CeilingAt(1) = ceiling BY <1>1 DEF CeilingAt
  <2>. QED BY <1>1, <2>1, <2>2 DEF RunInv, LevelInv
<1>3. TypeOK' BY <1>1 DEF TypeOK
<1>4. Len(runs') = 0 BY <1>1
<1>5. StackInv' /\ BaseInv' BY <1>4 DEF StackInv, BaseInv
<1>6. PendingInv' /\ LoopInv' BY <1>1, <1>2 DEF PendingInv, LoopInv
<1>. QED BY <1>3, <1>5, <1>6

-----------------------------------------------------------------------------
\* The kernel starts in the invariant.
LEMMA InitIInv == Init => IInv
<1>. SUFFICES ASSUME Init PROVE IInv OBVIOUS
<1>1. TypeOK
  <2>1. waiting \in [Objects -> 0 .. Slots] BY SlotsAssumption DEF Init
  <2>2. runs \in Seq(Run) BY EmptySeq DEF Init
  <2>3. ceiling \in 0 .. N /\ quiet \in Nat /\ posts \in 0 .. MaxPosts
    BY NAssumption, MaxPostsAssumption DEF Init, Base
  <2>. QED BY <2>1, <2>2, <2>3 DEF Init, TypeOK
<1>2. Len(runs) = 0 BY DEF Init
<1>3. StackInv /\ BaseInv BY <1>2 DEF StackInv, BaseInv
<1>4. PendingInv /\ LoopInv BY DEF Init, PendingInv, LoopInv
<1>. QED BY <1>1, <1>3, <1>4 DEF IInv

\* Every step keeps it.
LEMMA NextIInv == IInv /\ [Next]_vars => IInv'
<1>. SUFFICES ASSUME IInv, [Next]_vars PROVE IInv' OBVIOUS
<1>1. ASSUME NEW i \in Objects, HandlerPost(i) PROVE IInv' BY <1>1, HandlerPostIInv
<1>2. ASSUME NEW i \in Objects, WalkPost(i) PROVE IInv' BY <1>2, WalkPostIInv
<1>3. CASE (\E i \in Objects : DispatchPush(i)) \/ DispatchAsk BY <1>3, DispatchPostIInv
<1>4. CASE HandlerExit \/ UNCHANGED vars
  <2>. USE DEF IInv
  <2>1. /\ UNCHANGED <<waiting, ceiling, quiet, pending, main, runs, posts>>
        /\ handler' = FALSE \/ handler' = handler
    BY <1>4 DEF HandlerExit, vars
  <2>2. TypeOK' BY <2>1 DEF TypeOK
  <2>3. StackInv' /\ BaseInv' /\ CeilingAt(0)' = CeilingAt(0)
    BY <2>1, SameStack DEF TypeOK
  <2>4. PendingInv' BY <2>1 DEF PendingInv, Top
  <2>5. LoopInv' BY <2>1, <2>3 DEF LoopInv
  <2>. QED BY <2>2, <2>3, <2>4, <2>5
<1>5. CASE LoopTop \/ LoopRun \/ Idle BY <1>5, LoopIInv
<1>6. CASE TakeRequest BY <1>6, TakeRequestIInv
<1>7. CASE Entry BY <1>7, EntryIInv
<1>8. CASE Call \/ Choose \/ Look BY <1>8, ChooseIInv
<1>9. CASE Raise \/ Recheck \/ Serve \/ DispatchEnd \/ Gap \/ ScanAgain BY <1>9, ServeIInv
<1>10. CASE Exit BY <1>10, ExitIInv
<1>11. CASE LoopReturn BY <1>11, LoopReturnIInv
<1>. QED
  BY <1>1, <1>2, <1>3, <1>4, <1>5, <1>6, <1>7, <1>8, <1>9, <1>10, <1>11 DEF Next, Kernel

\* The inductive invariant of the stack holds in every behaviour.
THEOREM IInvariant == Spec => []IInv
BY InitIInv, NextIInv, PTL DEF Spec

\* "A pack of n objects holds at most n runs": the bases go down one by one
\* from N, and a run that nothing tells from its base has not chosen.
THEOREM RunsAlwaysWithinPack == Spec => []RunsWithinPack
<1>1. IInv => RunsWithinPack
  <2>. SUFFICES ASSUME IInv PROVE RunsWithinPack OBVIOUS
  <2>. USE DEF IInv
  <2>. DEFINE Choosing == {k \in DOMAIN runs : runs[k].pc \notin {"taken", "call"}}
  <2>0. runs \in Seq(Run) /\ Len(runs) \in Nat /\ DOMAIN runs = 1 .. Len(runs) BY DEF TypeOK
  <2>n. PICK n \in Nat : n = Len(runs) BY <2>0
  \* A suspended run is at most the N-th, and has not chosen if it is.
  <2>1. ASSUME NEW k \in 1 .. n, k < n
        PROVE  k <= N /\ (k = N => runs[k].pc = "call")
    <3>1. RunInv(k) /\ runs[k].pc # "taken" BY <2>n, <2>1 DEF StackInv, RunInv
    <3>2. runs[k] \in Run BY <2>0, <2>n, ElementOfSeq
    <3>3. runs[k].base \in 0 .. N BY <3>2 DEF Run
    <3>4. runs[k].base # 0 /\ runs[k].base + k <= N + 1
      BY <2>n, <2>1, <3>1, <3>3 DEF RunInv
    <3>5. CASE runs[k].pc = "call" BY <3>3, <3>4, <3>5, NAssumption
    <3>6. CASE runs[k].pc # "call"
      <4>1. CeilingAt(k) > 0 BY <2>n, <2>1, <3>1, <3>6 DEF RunInv
      <4>2. CeilingAt(k) \in 0 .. N
        <5>1. k + 1 \in 1 .. Len(runs) BY <2>n, <2>1
        <5>2. runs[k + 1] \in Run BY <2>0, <5>1, ElementOfSeq
        <5>. QED BY <5>2 DEF CeilingAt, TypeOK, Run
      <4>3. CeilingAt(k) < runs[k].base
        BY <3>1, <3>2, <4>1, <4>2, LevelBelow DEF RunInv
      <4>. QED BY <3>3, <3>4, <4>1, <4>2, <4>3, NAssumption
    <3>. QED BY <3>5, <3>6
  <2>2. n <= N + 1
    <3>1. CASE n > 1
      <4>1. n - 1 \in 1 .. n /\ n - 1 < n BY <3>1
      <4>2. n - 1 <= N BY <2>1, <4>1
      <4>. QED BY <4>2, NAssumption
    <3>. QED BY <3>1, NAssumption
  <2>3. Cardinality(Choosing) <= N
    <3>1. Choosing \subseteq 1 .. n BY <2>0, <2>n
    <3>2. CASE n <= N
      <4>1. IsFiniteSet(1 .. N) /\ Cardinality(1 .. N) = N BY NAssumption, FS_Interval
      <4>2. Choosing \subseteq 1 .. N BY <3>1, <3>2, NAssumption
      <4>. QED BY <4>1, <4>2, FS_Subset
    <3>3. CASE n = N + 1
      <4>1. N \in 1 .. n /\ N < n /\ N \notin Choosing BY <2>1, <3>3, NAssumption
      <4>2. IsFiniteSet(1 .. N + 1) /\ Cardinality(1 .. N + 1) = N + 1
        BY NAssumption, FS_Interval
      <4>3. N \in 1 .. N + 1 BY NAssumption
      <4>4. IsFiniteSet((1 .. N + 1) \ {N}) /\ Cardinality((1 .. N + 1) \ {N}) = (N + 1) - 1
        <5>. DEFINE S == 1 .. N + 1
        <5>1. IsFiniteSet(S) /\ Cardinality(S) = N + 1 /\ N \in S BY <4>2, <4>3
        <5>. HIDE DEF S
        <5>2. IsFiniteSet(S \ {N}) /\ Cardinality(S \ {N}) = Cardinality(S) - 1
          BY <5>1, FS_RemoveElement
        <5>. QED BY <5>1, <5>2 DEF S
      <4>5. Choosing \subseteq (1 .. N + 1) \ {N} BY <3>1, <3>3, <4>1
      <4>6. Cardinality(Choosing) <= (N + 1) - 1 BY <4>4, <4>5, FS_Subset
      <4>. QED BY <4>6, NAssumption
    <3>. QED BY <2>2, <3>2, <3>3, NAssumption
  <2>. QED BY <2>n, <2>2, <2>3 DEF RunsWithinPack
<1>. QED BY <1>1, IInvariant, PTL

\* A dispatch over another has a smaller index: its base is no higher than
\* the ceiling the other had raised.
THEOREM StackAlwaysDecreases == Spec => []StackDecreases
<1>1. IInv => StackDecreases
  <2>. SUFFICES ASSUME IInv, NEW k \in DOMAIN runs, NEW l \in DOMAIN runs, k < l,
                       runs[k].pc = "dispatch", runs[l].pc = "dispatch"
                PROVE  runs[l].i < runs[k].i
    BY DEF StackDecreases
  <2>. USE DEF IInv
  <2>0. runs \in Seq(Run) /\ Len(runs) \in Nat /\ DOMAIN runs = 1 .. Len(runs) BY DEF TypeOK
  <2>1. k + 1 \in 1 .. Len(runs) /\ k + 1 <= l /\ k # Len(runs) BY <2>0
  <2>2. RunInv(k) /\ RunInv(l) /\ RunInv(k + 1) BY <2>0, <2>1 DEF StackInv
  <2>3. runs[k + 1].pc # "taken" BY <2>0, <2>1, <2>2 DEF RunInv
  <2>4. CeilingAt(k) = runs[k + 1].base BY <2>1, <2>3 DEF CeilingAt
  <2>5. runs[k].i = runs[k + 1].base BY <2>2, <2>4 DEF RunInv, LevelInv
  <2>6. runs[l].base <= runs[k + 1].base BY <2>0, <2>1 DEF BaseInv
  <2>7. runs[l].i < runs[l].base BY <2>2 DEF RunInv, ScanInv
  <2>8. runs[l] \in Run /\ runs[k + 1] \in Run BY <2>0, <2>1, ElementOfSeq
  <2>9. runs[l].i \in 0 .. N /\ runs[l].base \in 0 .. N /\ runs[k + 1].base \in 0 .. N
    BY <2>8 DEF Run
  <2>. QED BY <2>5, <2>6, <2>7, <2>9
<1>. QED BY <1>1, IInvariant, PTL

\* The core sleeps only on empty queues.
THEOREM AlwaysSleepsEmpty == Spec => []SleepsEmpty
<1>1. IInv => SleepsEmpty BY DEF IInv, LoopInv, SleepsEmpty
<1>. QED BY <1>1, IInvariant, PTL

-----------------------------------------------------------------------------
\* The byte of the count comes round only after QuietMod posts.
LEMMA ByteMoves ==
  ASSUME NEW a \in Nat, NEW b \in Nat, a <= b, b - a < QuietMod, Byte(a) = Byte(b)
  PROVE  a = b
<1>1. PICK m \in Nat : m = QuietMod /\ m > 0 BY QuietModAssumption
<1>2. a = m * (a \div m) + (a % m) /\ a \div m \in Nat BY <1>1, Z3
<1>3. b = m * (b \div m) + (b % m) /\ b \div m \in Nat BY <1>1, Z3
<1>4. a % m = b % m /\ a % m \in Nat
  <2>1. a % m = b % m BY <1>1 DEF Byte
  <2>2. a % m \in Nat BY <1>1, Z3
  <2>. QED BY <2>1, <2>2
<1>5. PICK u \in Nat, v \in Nat, w \in Nat :
        u = a \div m /\ v = b \div m /\ w = a % m /\ a = m * u + w /\ b = m * v + w
  BY <1>2, <1>3, <1>4
<1>6. PICK k \in Int : k = v - u /\ b - a = m * k BY <1>1, <1>5, Z3
<1>7. k < 1
  <2>1. CASE k >= 1
    <3>1. m * k >= m BY <1>1, <2>1, Z3
    <3>. QED BY <1>1, <1>6, <3>1
  <2>. QED BY <2>1
<1>8. k > -1
  <2>1. CASE k <= -1
    <3>1. m * k <= -m BY <1>1, <2>1, Z3
    <3>. QED BY <1>1, <1>6, <3>1
  <2>. QED BY <2>1
<1>9. k = 0 BY <1>7, <1>8
<1>. QED BY <1>1, <1>6, <1>9

\* The innermost run knows as much after a step of its own that leaves what
\* Settled says of it true.
LEMMA SetTopSettled ==
  ASSUME IInv, runs # <<>>, NEW r \in Run, SetTop(r), Settled(r, waiting', quiet', pending')
  PROVE  TopSettled'
<1>1. Top' = r BY SetTopRuns DEF IInv
<1>. QED BY <1>1 DEF TopSettled

\* A post moves the count or asks: what a scan has passed cannot fill in
\* silence.
LEMMA HandlerPostSettled ==
  ASSUME IInv, TopSettled, NEW i \in Objects, HandlerPost(i) PROVE TopSettled'
<1>. USE DEF IInv
<1>. SUFFICES ASSUME runs # <<>> PROVE Settled(Top, waiting', quiet', pending')
  BY DEF HandlerPost, TopSettled, Top
<1>1. Push(i) /\ Ask(i) BY DEF HandlerPost
<1>2. \A j \in Objects : j # i => waiting'[j] = waiting[j] BY <1>1, PushType
<1>3. Top \in Run /\ quiet \in Nat /\ ceiling \in 0 .. N /\ pending \in BOOLEAN
  BY RunsType DEF TypeOK
<1>4. /\ Top.count \in Nat /\ Top.i \in 0 .. N /\ Top.held \in 0 .. N /\ Top.above \in 0 .. N
      /\ Top.count <= quiet
  BY <1>3, RunsType DEF Run, BaseInv, Top
<1>5. Settled(Top, waiting, quiet, pending) BY DEF TopSettled
<1>6. Top.pc # "taken" => LevelInv(Top, ceiling)
  BY RunsType DEF StackInv, RunInv, CeilingAt, Top
<1>7. CASE i < ceiling
  <2>1. pending' = TRUE BY <1>1, <1>7 DEF Ask
  <2>2. ceiling > 0 BY <1>3, <1>7, NAssumption DEF Objects
  <2>3. ~(Top.pc \in {"look", "found", "nothing"} /\ Top.held = NoHold)
    BY <1>6, <2>2 DEF LevelInv
  <2>. QED BY <2>1, <2>3 DEF Settled
<1>8. CASE ~(i < ceiling)
  <2>1. quiet' = quiet + 1 /\ pending' = pending BY <1>1, <1>8 DEF Ask
  <2>2. quiet' > Top.count BY <1>3, <1>4, <2>1
  <2>3. \A j \in Objects : j < ceiling => waiting'[j] = waiting[j]
    BY <1>2, <1>3, <1>8 DEF Objects
  <2>4. Top.pc \in {"look", "found", "nothing"} /\ Top.held # NoHold =>
          \A j \in Objects :
            j < Top.held /\ (j < Top.i \/ Top.above > Top.held) /\ waiting'[j] > 0 => pending'
    BY <1>5, <1>6, <2>1, <2>3 DEF LevelInv, Settled
  <2>5. (Top.pc = "raised" /\ Top.held # NoHold) \/ Top.pc = "serve" =>
          \A j \in Objects : j < Top.i /\ waiting'[j] > 0 => pending'
    BY <1>5, <1>6, <2>1, <2>3 DEF LevelInv, Settled
  <2>6. Top.pc = "dispatch" =>
          \A j \in Objects : j < Top.i /\ j # Top.post /\ waiting'[j] > 0 => pending'
    BY <1>5, <1>6, <2>1, <2>3 DEF LevelInv, Settled
  <2>. QED BY <2>2, <2>4, <2>5, <2>6 DEF Settled
<1>. QED BY <1>7, <1>8

\* A choice begins knowing nothing, and a look adds an object it saw empty.
LEMMA LookSettled == ASSUME IInv, TopSettled, Look PROVE TopSettled'
<1>. USE DEF IInv
<1>1. /\ runs # <<>> /\ Top.pc = "look" /\ Settled(Top, waiting, quiet, pending)
      /\ UNCHANGED <<waiting, quiet, pending>>
  BY DEF Look, Running, TopSettled
<1>2. Top \in Run BY <1>1, RunsType
<1>3. Top.i \in 0 .. N BY <1>2 DEF Run
<1>4. ASSUME NEW q \in {"nothing", "found"}, SetTop([Top EXCEPT !.pc = q]) PROVE TopSettled'
  <2>. DEFINE r == [Top EXCEPT !.pc = q]
  <2>1. /\ r.pc = q /\ r.count = Top.count /\ r.above = Top.above /\ r.held = Top.held
        /\ r.i = Top.i
    BY <1>2 DEF Run
  <2>2. r \in Run BY <1>2, RunExcept DEF Pcs
  <2>3. SetTop(r) BY <1>4
  <2>. HIDE DEF r
  <2>4. Settled(r, waiting', quiet', pending') BY <1>1, <2>1 DEF Settled
  <2>. QED BY <1>1, <2>2, <2>3, <2>4, SetTopSettled
<1>5. CASE waiting[Top.i] = 0 /\ Top.i < Top.above /\ SetTop([Top EXCEPT !.i = @ + 1])
  <2>. DEFINE r == [Top EXCEPT !.i = @ + 1]
  <2>1. /\ r.pc = "look" /\ r.count = Top.count /\ r.above = Top.above /\ r.held = Top.held
        /\ r.i = Top.i + 1
    BY <1>1, <1>2 DEF Run
  <2>2. r \in Run
    <3>1. Top.i + 1 \in 0 .. N BY <1>2, <1>5, NAssumption DEF Run
    <3>. QED BY <1>2, <3>1 DEF Run
  <2>3. SetTop(r) BY <1>5
  <2>. HIDE DEF r
  <2>4. \A j \in Objects : j < r.i /\ waiting[j] > 0 => j < Top.i
    <3>1. \A j \in Objects : j < r.i => j < Top.i \/ j = Top.i BY <1>3, <2>1 DEF Objects
    <3>2. ~(waiting[Top.i] > 0) BY <1>5
    <3>. QED BY <3>1, <3>2
  <2>5. Settled(r, waiting', quiet', pending') BY <1>1, <2>1, <2>4 DEF Settled
  <2>. QED BY <1>1, <2>2, <2>3, <2>5, SetTopSettled
<1>6. Top.above \in 0 .. N BY <1>2 DEF Run
<1>. QED BY <1>3, <1>4, <1>5, <1>6 DEF Look

\* The steps that need the count not to have come round: the count read again
\* after the raise, and the exit.
LEMMA RecheckSettled == ASSUME IInv, TopSettled, NoWrap, Recheck PROVE TopSettled'
<1>. USE DEF IInv
<1>1. /\ runs # <<>> /\ Top.pc = "raised" /\ Settled(Top, waiting, quiet, pending) /\ ~pending
      /\ UNCHANGED <<waiting, quiet, pending>>
  BY DEF Recheck, Running, TopSettled, Thread
<1>2. Top \in Run BY <1>1, RunsType
<1>3. Top.i \in 0 .. N /\ Top.count \in Nat /\ quiet \in Nat BY <1>2 DEF Run, TypeOK
<1>4. CASE Top.held = NoHold /\ Byte(quiet) # Byte(Top.count)
  <2>. DEFINE r == [Top EXCEPT !.pc = "look", !.held = Top.i, !.above = Top.i, !.i = 0]
  <2>1. SetTop(r) BY <1>4 DEF Recheck
  <2>2. r.pc = "look" /\ r.above = Top.i /\ r.held = Top.i /\ r.i = 0 BY <1>2 DEF Run
  <2>3. r \in Run BY <1>2, <1>3, RunExcept DEF Pcs
  <2>. HIDE DEF r
  <2>4. \A j \in Objects : ~(j < r.i) BY <2>2, NAssumption DEF Objects
  <2>5. ~(r.above > r.held) BY <1>3, <2>2
  <2>6. Settled(r, waiting', quiet', pending') BY <2>2, <2>4, <2>5 DEF Settled
  <2>. QED BY <1>1, <2>1, <2>3, <2>6, SetTopSettled
<1>5. CASE ~(Top.held = NoHold /\ Byte(quiet) # Byte(Top.count))
  <2>. DEFINE r == [Top EXCEPT !.pc = "serve"]
  <2>1. SetTop(r) BY <1>5 DEF Recheck
  <2>2. r.pc = "serve" /\ r.i = Top.i BY <1>2 DEF Run
  <2>3. r \in Run BY <1>2, RunExcept DEF Pcs
  <2>4. Top.held = NoHold => ~(quiet > Top.count)
    <3>. SUFFICES ASSUME Top.held = NoHold PROVE ~(quiet > Top.count) OBVIOUS
    <3>1. quiet - Top.count < QuietMod BY <1>1 DEF NoWrap
    <3>2. Byte(Top.count) = Byte(quiet) BY <1>5
    <3>3. Top.count <= quiet BY <1>1, RunsType DEF BaseInv, Top
    <3>4. Top.count = quiet BY <1>3, <3>1, <3>2, <3>3, ByteMoves
    <3>. QED BY <1>3, <3>4
  <2>. HIDE DEF r
  <2>5. Settled(r, waiting', quiet', pending') BY <1>1, <2>2, <2>4 DEF Settled
  <2>. QED BY <1>1, <2>1, <2>3, <2>5, SetTopSettled
<1>. QED BY <1>4, <1>5

\* At the exit everything under the ceiling given back is empty, or the
\* request is there again.
LEMMA ExitSettled == ASSUME IInv, TopSettled, NoWrap, Exit PROVE TopSettled'
<1>. USE DEF IInv
<1>0. runs \in Seq(Run) /\ Len(runs) \in Nat BY DEF TypeOK
<1>n. PICK n \in Nat : n = Len(runs) BY <1>0
<1>1. /\ runs # <<>> /\ Top.pc = "nothing" /\ Top.held = NoHold
      /\ pending' = (Byte(quiet) # Byte(Top.count)) /\ runs' = Front(runs)
      /\ UNCHANGED <<waiting, quiet>>
      /\ Settled(Top, waiting, quiet, pending)
  BY DEF Exit, Running, TopSettled
<1>2. Top \in Run /\ Top = runs[n] /\ n >= 1 BY <1>n, <1>1, RunsType DEF Top
<1>3. /\ Top.i \in 0 .. N /\ Top.base \in 0 .. N /\ Top.count \in Nat /\ quiet \in Nat
      /\ Top.held \in 0 .. N /\ Top.above \in 0 .. N
  BY <1>2 DEF Run, TypeOK
<1>4. RunInv(n) /\ ScanInv(Top) /\ Top.count <= quiet
  BY <1>n, <1>1, <1>2 DEF StackInv, RunInv, BaseInv
<1>5. Top.base <= Top.i
  <2>1. ~(Top.held < Top.base) BY <1>1, <1>3 DEF NoHold
  <2>. QED BY <1>1, <1>3, <1>4, <2>1 DEF ScanInv
<1>6. ASSUME NEW j \in Objects, j < Top.base, waiting[j] > 0 PROVE pending' = TRUE
  <2>1. j < Top.i BY <1>3, <1>5, <1>6 DEF Objects
  <2>2. quiet > Top.count BY <1>1, <1>6, <2>1 DEF Settled
  <2>3. quiet - Top.count < QuietMod BY <1>1 DEF NoWrap
  <2>4. Byte(quiet) # Byte(Top.count)
    <3>. SUFFICES ASSUME Byte(Top.count) = Byte(quiet) PROVE FALSE OBVIOUS
    <3>1. Top.count = quiet BY <1>3, <1>4, <2>3, ByteMoves
    <3>. QED BY <1>3, <2>2, <3>1
  <2>. QED BY <1>1, <2>4
<1>7. CASE n = 1
  <2>1. Len(runs') = 0 /\ runs' \in Seq(Run) BY <1>n, <1>1, <1>7, FrontRuns
  <2>2. runs' = <<>> BY <2>1
  <2>. QED BY <2>2 DEF TopSettled
<1>8. CASE n > 1
  <2>. DEFINE r == runs[n - 1]
  <2>0. n - 1 \in 1 .. n /\ n - 1 # n /\ n - 1 < n /\ n - 1 \in 1 .. n - 1 BY <1>8
  <2>1. Top' = r BY <1>n, <1>1, <1>8, <2>0, FrontRuns DEF Top
  <2>2. RunInv(n - 1) BY <1>n, <2>0 DEF StackInv
  <2>3. r.pc # "taken" BY <1>n, <2>0, <2>2 DEF RunInv
  <2>4. CeilingAt(n - 1) = Top.base BY <1>n, <1>1, <1>2, <2>0 DEF CeilingAt
  <2>5. LevelInv(r, Top.base) /\ (r.pc = "call" \/ Top.base > 0)
    BY <1>n, <2>0, <2>2, <2>3, <2>4 DEF RunInv
  <2>. HIDE DEF r
  <2>6. ~(r.pc \in {"look", "found", "nothing"} /\ r.held = NoHold)
    BY <1>3, <2>5 DEF LevelInv
  <2>7. r.pc \in {"look", "found", "nothing"} => Top.base = r.held
    BY <2>5, <2>6 DEF LevelInv
  <2>8. r.pc \in {"raised", "serve", "dispatch"} => Top.base = r.i BY <2>5 DEF LevelInv
  <2>9. Settled(r, waiting', quiet', pending')
    BY <1>1, <1>6, <2>6, <2>7, <2>8 DEF Settled
  <2>. QED BY <2>1, <2>9 DEF TopSettled
<1>. QED BY <1>2, <1>7, <1>8

\* From the raise to the dispatch, and from the second scan to the third,
\* what is known stays known.
LEMMA ServeSettled ==
  ASSUME IInv, TopSettled, Raise \/ Serve \/ ScanAgain PROVE TopSettled'
<1>. USE DEF IInv
<1>1. /\ runs # <<>> /\ Settled(Top, waiting, quiet, pending)
      /\ UNCHANGED <<quiet, pending>>
  BY DEF Raise, Serve, ScanAgain, Running, TopSettled
<1>2. Top \in Run BY <1>1, RunsType
<1>3. /\ Top.i \in 0 .. N /\ Top.held \in 0 .. N /\ Top.above \in 0 .. N
      /\ Top.base \in 0 .. N
  BY <1>2 DEF Run
<1>4. Top.pc # "taken" => ScanInv(Top)
  BY <1>1, RunsType DEF StackInv, RunInv, Top
<1>5. CASE Raise
  <2>. DEFINE r == [Top EXCEPT !.pc = "raised"]
  <2>1. SetTop(r) /\ Top.pc = "found" /\ UNCHANGED waiting BY <1>5 DEF Raise, Running
  <2>2. r.pc = "raised" /\ r.i = Top.i /\ r.held = Top.held /\ r.count = Top.count
    BY <1>2 DEF Run
  <2>3. r \in Run BY <1>2, RunExcept DEF Pcs
  <2>4. Top.held # NoHold => \A j \in Objects : j < Top.i => j < Top.held
    BY <1>3, <1>4, <2>1 DEF ScanInv, Objects
  <2>. HIDE DEF r
  <2>5. Settled(r, waiting', quiet', pending') BY <1>1, <2>1, <2>2, <2>4 DEF Settled
  <2>. QED BY <1>1, <2>1, <2>3, <2>5, SetTopSettled
<1>6. CASE Serve /\ waiting[Top.i] > 0
  <2>. DEFINE r == [Top EXCEPT !.pc = "dispatch", !.served = TRUE]
  <2>1. SetTop(r) /\ Top.pc = "serve" /\ waiting' = [waiting EXCEPT ![Top.i] = @ - 1]
    BY <1>6 DEF Serve, Running
  <2>2. r.pc = "dispatch" /\ r.i = Top.i BY <1>2 DEF Run
  <2>3. r \in Run BY <1>2 DEF Run, Pcs
  <2>4. \A j \in Objects : j < Top.i => waiting'[j] = waiting[j]
    BY <1>3, <2>1 DEF TypeOK, Objects
  <2>. HIDE DEF r
  <2>5. Settled(r, waiting', quiet', pending') BY <1>1, <2>1, <2>2, <2>4 DEF Settled
  <2>. QED BY <1>1, <2>1, <2>3, <2>5, SetTopSettled
<1>7. CASE SetTop([Top EXCEPT !.pc = "gap"])
  <2>. DEFINE r == [Top EXCEPT !.pc = "gap"]
  <2>1. SetTop(r) BY <1>7
  <2>2. r.pc = "gap" BY <1>2 DEF Run
  <2>3. r \in Run BY <1>2, RunExcept DEF Pcs
  <2>. HIDE DEF r
  <2>4. Settled(r, waiting', quiet', pending') BY <2>2 DEF Settled
  <2>. QED BY <1>1, <2>1, <2>3, <2>4, SetTopSettled
<1>8. CASE ScanAgain /\ ~(Top.above > Top.held)
  <2>. DEFINE r == [Top EXCEPT !.pc = "look", !.above = Top.held + 1, !.i = 0]
  <2>1. SetTop(r) /\ Top.pc = "nothing" /\ Top.held # NoHold /\ UNCHANGED waiting
    BY <1>8 DEF ScanAgain, Running
  <2>2. r.pc = "look" /\ r.held = Top.held BY <1>2 DEF Run
  <2>3. Top.held < Top.base /\ Top.above = Top.held /\ Top.i >= Top.above
    BY <1>3, <1>4, <1>8, <2>1 DEF ScanInv
  <2>4. r \in Run
    <3>1. Top.held + 1 \in 0 .. N BY <1>3, <2>3, NAssumption
    <3>. QED BY <1>2, <3>1, RunExcept DEF Pcs
  <2>5. \A j \in Objects : j < Top.held => j < Top.i BY <1>3, <2>3 DEF Objects
  <2>. HIDE DEF r
  <2>6. Settled(r, waiting', quiet', pending') BY <1>1, <2>1, <2>2, <2>5 DEF Settled
  <2>. QED BY <1>1, <2>1, <2>4, <2>6, SetTopSettled
<1>. QED BY <1>5, <1>6, <1>7, <1>8 DEF Serve, ScanAgain

\* A post of the dispatch itself: pushed, it is the one object above that may
\* wait unasked; then it asks.
LEMMA DispatchPostSettled ==
  ASSUME IInv, TopSettled, (\E j \in Objects : DispatchPush(j)) \/ DispatchAsk
  PROVE  TopSettled'
<1>. USE DEF IInv
<1>1. /\ runs # <<>> /\ Top.pc = "dispatch" /\ Settled(Top, waiting, quiet, pending)
  BY DEF DispatchPush, DispatchAsk, Running, TopSettled
<1>2. Top \in Run /\ Top.i \in 0 .. N /\ Top.post \in 0 .. N BY <1>1, RunsType DEF Run
<1>3. ceiling = Top.i BY <1>1, RunsType DEF StackInv, RunInv, CeilingAt, LevelInv, Top
<1>4. ASSUME NEW p \in 0 .. N, SetTop([Top EXCEPT !.post = p]),
             \A j \in Objects : j < Top.i /\ j # p /\ waiting'[j] > 0 => pending'
      PROVE  TopSettled'
  <2>. DEFINE r == [Top EXCEPT !.post = p]
  <2>1. SetTop(r) BY <1>4
  <2>2. r.pc = "dispatch" /\ r.i = Top.i /\ r.post = p BY <1>1, <1>2 DEF Run
  <2>3. r \in Run BY <1>2, RunExcept
  <2>. HIDE DEF r
  <2>4. Settled(r, waiting', quiet', pending') BY <1>4, <2>2 DEF Settled
  <2>. QED BY <1>1, <2>1, <2>3, <2>4, SetTopSettled
<1>5. ASSUME NEW p \in Objects, DispatchPush(p) PROVE TopSettled'
  <2>1. /\ Top.post = Nobody /\ Push(p) /\ SetTop([Top EXCEPT !.post = p])
        /\ UNCHANGED pending
    BY <1>5 DEF DispatchPush
  <2>2. p \in 0 .. N /\ \A j \in Objects : j # Nobody BY NAssumption DEF Objects, Nobody
  <2>3. \A j \in Objects : j # p => waiting'[j] = waiting[j] BY <2>1, PushType
  <2>4. \A j \in Objects : j < Top.i /\ j # p /\ waiting'[j] > 0 => pending'
    BY <1>1, <2>1, <2>2, <2>3 DEF Settled
  <2>. QED BY <1>4, <2>1, <2>2, <2>4
<1>6. CASE DispatchAsk
  <2>1. Ask(Top.post) /\ SetTop([Top EXCEPT !.post = Nobody]) /\ UNCHANGED waiting
    BY <1>6 DEF DispatchAsk
  <2>2. Nobody \in 0 .. N BY NAssumption DEF Nobody
  <2>3. \A j \in Objects : j < Top.i /\ j # Nobody /\ waiting'[j] > 0 => pending'
    <3>1. CASE Top.post < ceiling
      <4>1. pending' = TRUE BY <2>1, <3>1 DEF Ask
      <4>. QED BY <4>1
    <3>2. CASE ~(Top.post < ceiling)
      <4>1. pending' = pending BY <2>1, <3>2 DEF Ask
      <4>2. \A j \in Objects : j < Top.i => j # Top.post BY <1>2, <1>3, <3>2 DEF Objects
      <4>. QED BY <1>1, <2>1, <4>1, <4>2 DEF Settled
    <3>. QED BY <3>1, <3>2
  <2>. QED BY <1>4, <2>1, <2>2, <2>3
<1>. QED BY <1>5, <1>6

\* The run is new, or knows nothing yet: a choice not begun, or just begun.
LEMMA FreshSettled ==
  ASSUME IInv,
         TakeRequest \/ Entry \/ Call \/ Choose \/ Gap \/ DispatchEnd \/ LoopRun
  PROVE  TopSettled'
<1>. USE DEF IInv
<1>1. ASSUME runs' # <<>>, Top'.pc \in {"taken", "call", "choose", "gap"} PROVE TopSettled'
  BY <1>1 DEF TopSettled, Settled
<1>2. CASE TakeRequest
  <2>1. runs' = Append(runs, NewRun(Base, "taken")) BY <1>2 DEF TakeRequest
  <2>2. NewRun(Base, "taken") \in Run /\ NewRun(Base, "taken").pc = "taken"
    BY NAssumption DEF NewRun, Run, Pcs, Base, NoHold, Nobody
  <2>3. runs' # <<>> /\ Top' = NewRun(Base, "taken")
    BY <2>1, <2>2, AppendProperties DEF TypeOK, Top
  <2>. QED BY <1>1, <2>2, <2>3
<1>3. CASE Entry
  <2>1. SetTop(NewRun(ceiling, "call")) /\ runs # <<>> BY <1>3 DEF Entry, SetTop, Running
  <2>2. NewRun(ceiling, "call") \in Run /\ NewRun(ceiling, "call").pc = "call"
    BY NAssumption DEF NewRun, Run, Pcs, NoHold, Nobody, TypeOK
  <2>. QED BY <1>1, <2>1, <2>2, SetTopRuns
<1>4. ASSUME NEW q \in {"choose", "gap"}, runs # <<>>, SetTop([Top EXCEPT !.pc = q])
      PROVE  TopSettled'
  <2>1. Top \in Run BY <1>4, RunsType
  <2>2. [Top EXCEPT !.pc = q] \in Run /\ [Top EXCEPT !.pc = q].pc = q
    BY <2>1 DEF Run, Pcs
  <2>. QED BY <1>1, <1>4, <2>2, SetTopRuns
<1>5. CASE Call \/ Gap \/ DispatchEnd
  BY <1>4, <1>5 DEF Call, Gap, DispatchEnd, Running
<1>6. CASE Choose
  <2>. DEFINE r == [Top EXCEPT !.pc = "look", !.count = quiet, !.above = Top.base,
                               !.held = NoHold, !.i = 0]
  <2>1. SetTop(r) /\ runs # <<>> BY <1>6 DEF Choose, Running
  <2>2. Top \in Run BY <2>1, RunsType
  <2>3. r.pc = "look" /\ r.held = NoHold /\ r.i = 0 BY <2>2 DEF Run
  <2>4. Top.base \in 0 .. N /\ NoHold \in 0 .. N /\ quiet \in Nat
    BY <2>2, NAssumption DEF Run, NoHold, TypeOK
  <2>5. r \in Run BY <2>2, <2>4, RunExcept DEF Pcs
  <2>. HIDE DEF r
  <2>6. \A j \in Objects : ~(j < r.i) BY <2>3, NAssumption DEF Objects
  <2>7. Settled(r, waiting', quiet', pending') BY <2>3, <2>6 DEF Settled
  <2>. QED BY <2>1, <2>5, <2>7, SetTopSettled
<1>7. CASE LoopRun
  <2>1. runs' = <<NewRun(Base, "choose")>> BY <1>7 DEF LoopRun
  <2>2. runs' # <<>> /\ Top' = NewRun(Base, "choose") BY <2>1 DEF Top
  <2>3. NewRun(Base, "choose").pc = "choose" BY DEF NewRun
  <2>. QED BY <1>1, <2>2, <2>3
<1>. QED BY <1>2, <1>3, <1>5, <1>6, <1>7

\* Every step of a choice that does not see the count come round keeps what
\* the innermost run knows.
LEMMA NextSettled == IInv /\ TopSettled /\ NoWrap /\ [Next]_vars => TopSettled'
<1>. SUFFICES ASSUME IInv, TopSettled, NoWrap, [Next]_vars PROVE TopSettled' OBVIOUS
<1>1. ASSUME NEW i \in Objects, HandlerPost(i) PROVE TopSettled'
  BY <1>1, HandlerPostSettled
<1>2. CASE (\E i \in Objects : DispatchPush(i)) \/ DispatchAsk BY <1>2, DispatchPostSettled
<1>3. CASE Look BY <1>3, LookSettled
<1>4. CASE Recheck BY <1>4, RecheckSettled
<1>5. CASE Raise \/ Serve \/ ScanAgain BY <1>5, ServeSettled
<1>6. CASE Exit BY <1>6, ExitSettled
<1>7. CASE TakeRequest \/ Entry \/ Call \/ Choose \/ Gap \/ DispatchEnd \/ LoopRun
  BY <1>7, FreshSettled
<1>8. CASE LoopTop \/ Idle \/ LoopReturn \/ \E i \in Objects : WalkPost(i)
  <2>1. runs' = <<>>
    BY <1>8 DEF LoopTop, Idle, LoopReturn, WalkPost, IInv, LoopInv
  <2>. QED BY <2>1 DEF TopSettled
<1>9. CASE HandlerExit \/ UNCHANGED vars
  <2>1. UNCHANGED <<waiting, quiet, pending, runs>> BY <1>9 DEF HandlerExit, vars
  <2>. QED BY <2>1 DEF TopSettled, Top
<1>. QED BY <1>1, <1>2, <1>3, <1>4, <1>5, <1>6, <1>7, <1>8, <1>9 DEF Next, Kernel

\* While a dispatch goes on nothing of higher priority waits, in every
\* behaviour in which no choice sees the count of quiet posts come round: the
\* one condition the comment on quiet_posts makes.
THEOREM NeverInverts == Spec /\ []NoWrap => []NoInversion
<1>1. Init => TopSettled BY DEF Init, TopSettled
<1>2. IInv /\ TopSettled => NoInversion
  <2>. SUFFICES ASSUME IInv, TopSettled, Thread, runs # <<>>, Top.pc = "dispatch",
                       NEW j \in Objects, j < Top.i, Top.post # j
                PROVE  waiting[j] = 0
    BY DEF NoInversion, Running
  <2>1. ~(waiting[j] > 0) BY DEF TopSettled, Settled, Thread
  <2>. QED BY <2>1, SlotsAssumption DEF IInv, TypeOK
<1>. QED BY <1>1, <1>2, NextSettled, IInvariant, PTL DEF Spec

=============================================================================
