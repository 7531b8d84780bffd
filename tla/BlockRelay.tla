------------------------------ MODULE BlockRelay ------------------------------
(***************************************************************************)
(* util/block_stream.hpp over the two-buffer engine of stm32g0/dma.hpp.    *)
(* Each source fills one of its buffers while the other one is lent; the   *)
(* relay lends what is full, and gives it back in the dispatch after,      *)
(* which its post to itself brings about.  A step of the relay is one call *)
(* of a source with the posts that follow it; a subscriber's dispatch is   *)
(* one step, since what lands within it might have landed before it.       *)
(***************************************************************************)
EXTENDS Naturals, Sequences

CONSTANTS
  SourceCount,      \* the sources, 1 .. SourceCount in the relay's order
  Subscribers,      \* Subs, each before the relay in the pack
  SubscriberDepth,  \* the events a subscriber's queue holds
  MaxBlocks         \* bound: the blocks a source fills

ASSUME RelayAssumption ==
  SourceCount \in Nat \ {0} /\ SubscriberDepth \in Nat \ {0} /\ MaxBlocks \in Nat

VARIABLES
  relayPreempt,   \* the subscribers preempt the relay (Rubato), or follow it (Tenuto)
  fill, drain,    \* the engine's two indices
  unreleased,     \* pending_
  running, stalled,
  buffer,         \* the number of the block in each buffer, Filling while one is written
  laps,           \* blocks filled
  relay, turn,    \* where the relay is (rest, return, lend, end), and the source it is at
  lent,           \* lent_
  notes,          \* BlockDone in the relay's queue, the one in dispatch with them
  lentTo,         \* BlockReady in each subscriber's queue
  lastRead        \* the last block each subscriber read of each source, or Torn

engine == <<fill, drain, unreleased, running, stalled, buffer, laps>>
relayVars == <<relayPreempt, engine, relay, turn, lent, notes, lentTo, lastRead>>

Source == 1 .. SourceCount
RelayDepth == SourceCount + 2
Filling == MaxBlocks + 1
Torn == MaxBlocks + 2

RelayInit ==
  /\ relayPreempt \in BOOLEAN
  /\ fill = [s \in Source |-> 0] /\ drain = [s \in Source |-> 0]
  /\ unreleased = [s \in Source |-> 0] /\ laps = [s \in Source |-> 0]
  /\ running = [s \in Source |-> TRUE] /\ stalled = [s \in Source |-> FALSE]
  /\ buffer = [s \in Source |-> [b \in {0, 1} |-> Filling]]
  /\ relay = "rest" /\ turn = 1 /\ lent = {} /\ notes = 0
  /\ lentTo = [u \in Subscribers |-> <<>>]
  /\ lastRead = [u \in Subscribers |-> [s \in Source |-> 0]]

Noted(n) == IF n < RelayDepth THEN n + 1 ELSE n

-----------------------------------------------------------------------------
\* The engine's handler finds the other buffer not given back yet.
\* Mutant of Stalls: one too late.
StallsLate(s) == unreleased[s] + 1 > 2
Stalls(s) == unreleased[s] + 1 >= 2

\* complete(), and the program's post of BlockDone behind it.
Complete(s) ==
  LET next == 1 - fill[s] IN
  /\ running[s] /\ laps[s] < MaxBlocks
  /\ laps' = [laps EXCEPT ![s] = @ + 1]
  /\ unreleased' = [unreleased EXCEPT ![s] = @ + 1]
  /\ fill' = [fill EXCEPT ![s] = next]
  /\ IF Stalls(s)
     THEN /\ stalled' = [stalled EXCEPT ![s] = TRUE]
          /\ running' = [running EXCEPT ![s] = FALSE]
          /\ buffer' = [buffer EXCEPT ![s][fill[s]] = laps[s] + 1]
     ELSE /\ buffer' = [buffer EXCEPT ![s] = [b \in {0, 1} |-> IF b = next THEN Filling ELSE laps[s] + 1]]
          /\ UNCHANGED <<stalled, running>>
  /\ notes' = Noted(notes)
  /\ UNCHANGED <<relayPreempt, drain, relay, turn, lent, lentTo, lastRead>>

\* fail(): the stream ends with the block it was filling.
Fault(s) ==
  /\ running[s]
  /\ running' = [running EXCEPT ![s] = FALSE]
  /\ UNCHANGED <<relayPreempt, fill, drain, unreleased, stalled, buffer, laps,
                 relay, turn, lent, notes, lentTo, lastRead>>

-----------------------------------------------------------------------------
\* The subscribers come before the relay in the pack: under either kernel it
\* goes on only when none of them has an event, under Tenuto between its
\* dispatches and under Rubato at every step.
Waited == \E u \in Subscribers : lentTo[u] # <<>>
GoesOn(place) == relay = place /\ (relayPreempt => ~Waited)

RelayServe ==
  /\ relay = "rest" /\ notes > 0 /\ ~Waited
  /\ relay' = "return" /\ turn' = 1
  /\ UNCHANGED <<relayPreempt, engine, lent, notes, lentTo, lastRead>>

\* return_one(): release(), which restarts a stalled stream.
ReturnOne ==
  /\ GoesOn("return") /\ turn <= SourceCount
  /\ turn' = turn + 1
  /\ IF turn \in lent
     THEN /\ unreleased' = [unreleased EXCEPT ![turn] = @ - 1]
          /\ drain' = [drain EXCEPT ![turn] = 1 - @]
          /\ stalled' = [stalled EXCEPT ![turn] = FALSE]
          /\ running' = [running EXCEPT ![turn] = @ \/ stalled[turn]]
          /\ buffer' = IF stalled[turn] THEN [buffer EXCEPT ![turn][fill[turn]] = Filling] ELSE buffer
     ELSE UNCHANGED <<unreleased, drain, stalled, running, buffer>>
  /\ UNCHANGED <<relayPreempt, fill, laps, relay, lent, notes, lentTo, lastRead>>

AllReturned ==
  /\ GoesOn("return") /\ turn > SourceCount
  /\ relay' = "lend" /\ turn' = 1 /\ lent' = {}
  /\ UNCHANGED <<relayPreempt, engine, notes, lentTo, lastRead>>

\* lend_one(): ready(), and publish() of a loan of it.
LendOne ==
  /\ GoesOn("lend") /\ turn <= SourceCount
  /\ turn' = turn + 1
  /\ IF unreleased[turn] > 0
     THEN /\ lent' = lent \cup {turn}
          /\ lentTo' = [u \in Subscribers |->
                          IF Len(lentTo[u]) < SubscriberDepth
                          THEN Append(lentTo[u], <<turn, drain[turn]>>) ELSE lentTo[u]]
     ELSE UNCHANGED <<lent, lentTo>>
  /\ UNCHANGED <<relayPreempt, engine, relay, notes, lastRead>>

\* The post to itself.
SelfPost ==
  /\ GoesOn("lend") /\ turn > SourceCount
  /\ relay' = "end"
  /\ notes' = IF lent # {} THEN Noted(notes) ELSE notes
  /\ UNCHANGED <<relayPreempt, engine, turn, lent, lentTo, lastRead>>

\* The dispatch ends, and its event's slot is free.
RelayReturn ==
  /\ GoesOn("end")
  /\ relay' = "rest" /\ notes' = notes - 1
  /\ UNCHANGED <<relayPreempt, engine, turn, lent, lentTo, lastRead>>

\* A subscriber's dispatch: it reads the block where it lies.
Read(u) ==
  /\ lentTo[u] # <<>> /\ (relay = "rest" \/ relayPreempt)
  /\ LET s == Head(lentTo[u])[1]
         block == buffer[s][Head(lentTo[u])[2]]
     IN lastRead' = [lastRead EXCEPT ![u][s] = IF block = @ + 1 THEN block ELSE Torn]
  /\ lentTo' = [lentTo EXCEPT ![u] = Tail(@)]
  /\ UNCHANGED <<relayPreempt, engine, relay, turn, lent, notes>>

Relaying == RelayServe \/ ReturnOne \/ AllReturned \/ LendOne \/ SelfPost \/ RelayReturn
Reading == \E u \in Subscribers : Read(u)

RelayNext == Relaying \/ Reading \/ \E s \in Source : Complete(s) \/ Fault(s)

\* The kernel serves what waits; no source owes another block.
RelaySpec ==
  /\ RelayInit /\ [][RelayNext]_relayVars
  /\ WF_relayVars(Relaying) /\ WF_relayVars(Reading)

-----------------------------------------------------------------------------
\* "Every block must reach its consumer exactly once": whatever a source
\* fills, each subscriber reads, one after the other and whole, with no other
\* completion needed, and a stalled source is started again.
BlocksRead ==
  []<>(\A s \in Source : ~stalled[s] /\ \A u \in Subscribers : lastRead[u][s] = laps[s])
=============================================================================
