-------------------------- MODULE ChainRouter_proofs --------------------------
(***************************************************************************)
(* The safety of ChainRouter for any participants, any hop budget and any  *)
(* number of operator inputs.  Both properties rest on the count of the    *)
(* deliveries in flight being exact: nothing changes the last row of a run *)
(* that is quiet, and a noted drop is owed by a delivery that is counted.  *)
(***************************************************************************)
EXTENDS ChainRouter, FiniteSetTheorems, TLAPS

\* The deliveries not settled; a turn that runs is its agent's number 0.
Outstanding ==
  (UNION {{a} \X (1..queue[a]) : a \in Agents}) \cup (running \X {0})

Counted == IsFiniteSet(Outstanding) /\ inFlight = Cardinality(Outstanding)

\* Who can still consume a noted drop: a turn that has not been halted, a
\* delivery not begun, a banner not continued.
Busy(a) == a \in running \/ queue[a] > 0 \/ a \in banner
Owed == stall = "noted" => \E a \in Agents : Busy(a)

\* A turn that was halted has its banner up, or its replay queued behind it,
\* as long as the run is live.
HaltsAreOwed == Live => \A a \in dead : a \in banner \/ queue[a] > 0

\* The note of a drop does not outlive the run.
NotesAreLive == stall # "none" => Live

IInv ==
  /\ TypeOK
  /\ Counted
  /\ Owed
  /\ HaltsAreOwed
  /\ NotesAreLive
  /\ SilenceIsExplained

USE DEF Recipients

-----------------------------------------------------------------------------
(* Counting the deliveries. *)

\* What is outstanding, told by membership, before and after a step.
LEMMA OutstandingIs ==
  ASSUME NEW d
  PROVE  d \in Outstanding <=> \/ \E a \in Agents : \E i \in 1..queue[a] : d = <<a, i>>
                               \/ \E a \in running : d = <<a, 0>>
BY DEF Outstanding

LEMMA OutstandingNext ==
  ASSUME NEW d
  PROVE  d \in Outstanding' <=> \/ \E a \in Agents : \E i \in 1..queue'[a] : d = <<a, i>>
                                \/ \E a \in running' : d = <<a, 0>>
BY DEF Outstanding

\* A step that queues, starts and settles nothing.
LEMMA StableCounted ==
  ASSUME Counted, UNCHANGED <<queue, running, inFlight>>
  PROVE  Counted'
BY DEF Counted, Outstanding

\* A delivery queued is one outstanding more.
LEMMA DeliveryCounted ==
  ASSUME TypeOK, Counted, NEW a \in Agents, Deliver(a), running' = running
  PROVE  Counted' /\ inFlight' \in Nat /\ inFlight' > 0 /\ queue' \in [Agents -> Nat]
<1>1. queue \in [Agents -> Nat] /\ running \subseteq Agents /\ inFlight \in Nat
  BY DEF TypeOK
<1>2. queue' = [queue EXCEPT ![a] = @ + 1] /\ inFlight' = inFlight + 1
  BY DEF Deliver
<1>3. PICK d : d = <<a, queue[a] + 1>>
  OBVIOUS
<1>4. d \notin Outstanding
  BY <1>1, <1>3, OutstandingIs
<1>5. \A e : e \in Outstanding' <=> e \in Outstanding \cup {d}
  BY <1>1, <1>2, <1>3, OutstandingIs, OutstandingNext
<1>6. Outstanding' = Outstanding \cup {d}
  BY <1>5
<1>7. /\ IsFiniteSet(Outstanding \cup {d})
      /\ Cardinality(Outstanding \cup {d}) = Cardinality(Outstanding) + 1
  BY <1>4, FS_AddElement DEF Counted
<1>8. Counted'
  BY <1>2, <1>6, <1>7 DEF Counted
<1> QED
  BY <1>1, <1>2, <1>8

\* A delivery that becomes a turn stays outstanding under another number.
LEMMA StartCounted ==
  ASSUME TypeOK, Counted, NEW a \in Agents, StartTurn(a)
  PROVE  Counted'
<1>1. queue \in [Agents -> Nat] /\ running \subseteq Agents
  BY DEF TypeOK
<1>2. /\ queue[a] > 0 /\ a \notin running
      /\ queue' = [queue EXCEPT ![a] = @ - 1]
      /\ running' = running \cup {a}
      /\ inFlight' = inFlight
  BY DEF StartTurn
<1>3. PICK d, r : d = <<a, queue[a]>> /\ r = <<a, 0>>
  OBVIOUS
<1>4. d \in Outstanding /\ r \notin Outstanding
  BY <1>1, <1>2, <1>3, OutstandingIs
<1>5. \A e : e \in Outstanding' <=> e \in (Outstanding \ {d}) \cup {r}
  BY <1>1, <1>2, <1>3, OutstandingIs, OutstandingNext
<1>6. Outstanding' = (Outstanding \ {d}) \cup {r}
  BY <1>5
<1>7. /\ IsFiniteSet(Outstanding \ {d})
      /\ Cardinality(Outstanding \ {d}) = Cardinality(Outstanding) - 1
  BY <1>4, FS_RemoveElement DEF Counted
<1>8. /\ IsFiniteSet((Outstanding \ {d}) \cup {r})
      /\ Cardinality((Outstanding \ {d}) \cup {r}) = Cardinality(Outstanding \ {d}) + 1
  BY <1>4, <1>7, FS_AddElement
<1>9. Cardinality(Outstanding) \in Nat
  BY FS_CardinalityType DEF Counted
<1> QED
  BY <1>2, <1>6, <1>7, <1>8, <1>9 DEF Counted

\* A turn that settles is one less, and the counter is not at zero before.
LEMMA SettledCounted ==
  ASSUME TypeOK, Counted, NEW a \in running, NEW t, Settled(a, t)
  PROVE  Counted' /\ inFlight' \in Nat
<1>1. queue \in [Agents -> Nat] /\ running \subseteq Agents /\ inFlight \in Nat
  BY DEF TypeOK
<1>2. /\ queue' = queue /\ running' = running \ {a}
      /\ inFlight' = IF inFlight > 0 THEN inFlight - 1 ELSE 0
  BY DEF Settled
<1>3. PICK d : d = <<a, 0>>
  OBVIOUS
<1>4. d \in Outstanding
  BY <1>3, OutstandingIs
<1>5. \A e : e \in Outstanding' <=> e \in Outstanding \ {d}
  BY <1>1, <1>2, <1>3, OutstandingIs, OutstandingNext
<1>6. Outstanding' = Outstanding \ {d}
  BY <1>5
<1>7. /\ IsFiniteSet(Outstanding \ {d})
      /\ Cardinality(Outstanding \ {d}) = Cardinality(Outstanding) - 1
  BY <1>4, FS_RemoveElement DEF Counted
<1>8. Cardinality(Outstanding) \in Nat /\ Cardinality(Outstanding) # 0
  BY <1>4, FS_CardinalityType, FS_EmptySet DEF Counted
<1> QED
  BY <1>1, <1>2, <1>6, <1>7, <1>8 DEF Counted

\* While a turn runs or is queued the run is not quiet.
LEMMA BusyCounted ==
  ASSUME TypeOK, Counted, NEW a \in Agents, a \in running \/ queue[a] > 0
  PROVE  inFlight > 0
<1>1. queue \in [Agents -> Nat]
  BY DEF TypeOK
<1>2. \E d : d \in Outstanding
  <2>1. CASE a \in running
    BY <2>1, OutstandingIs
  <2>2. CASE queue[a] > 0
    <3>1. queue[a] \in 1..queue[a]
      BY <1>1, <2>2
    <3> QED
      BY <3>1, OutstandingIs
  <2> QED
    BY <2>1, <2>2
<1> QED
  BY <1>2, FS_CardinalityType, FS_EmptySet DEF Counted

-----------------------------------------------------------------------------
(* The parts of the handlers. *)

\* Clearing or taking a slot leaves a sequence of agents.
LEMMA SlotsTyped ==
  ASSUME slots \in Seq(Agents), NEW a \in Agents
  PROVE  SlotsWithout(a) \in Seq(Agents) /\ SlotsWith(a) \in Seq(Agents)
<1>1. SlotsWithout(a) \in Seq(Agents)
  <2>1. CASE \E i \in DOMAIN slots : slots[i] = a
    <3>1. PICK n : n = (CHOOSE i \in DOMAIN slots : slots[i] = a)
      OBVIOUS
    <3>2. n \in 1..Len(slots)
      BY <2>1, <3>1
    <3>3. /\ SubSeq(slots, 1, n - 1) \in Seq(Agents)
          /\ SubSeq(slots, n + 1, Len(slots)) \in Seq(Agents)
      BY <3>2
    <3>4. SlotsWithout(a) = SubSeq(slots, 1, n - 1) \o SubSeq(slots, n + 1, Len(slots))
      BY <2>1, <3>1 DEF SlotsWithout
    <3> QED
      BY <3>3, <3>4
  <2>2. CASE ~\E i \in DOMAIN slots : slots[i] = a
    BY <2>2 DEF SlotsWithout
  <2> QED
    BY <2>1, <2>2
<1> QED
  BY <1>1 DEF SlotsWith

\* Settling a turn leaves a row that awaits nobody who could move the run, or a
\* run that is not quiet.
LEMMA SettledExplained ==
  ASSUME TypeOK, NEW a \in Agents, NEW t \in [to : Recipients, kind : Kind],
         Settled(a, t)
  PROVE  SilenceIsExplained' /\ tail' \in [to : Recipients, kind : Kind]
<1>1. CASE Stranded(t)
  BY <1>1 DEF Settled, Row, Awaits, Kind, SilenceIsExplained
<1>2. CASE ~Stranded(t)
  BY <1>2 DEF Settled, Stranded, Live, Held, Quiet, SilenceIsExplained, gates
<1> QED
  BY <1>1, <1>2

\* In a live run a turn that ends by itself consumes the note of a drop.
LEMMA EndsConsume ==
  ASSUME NotesAreLive, NEW a \in Agents, Succeed(a) \/ Fail(a)
  PROVE  stall' = "none"
<1>1. CASE Live
  BY <1>1 DEF Succeed, Fail
<1>2. CASE ~Live
  BY <1>2 DEF Succeed, Fail, NotesAreLive
<1> QED
  BY <1>1, <1>2

-----------------------------------------------------------------------------
(* The invariant, action by action. *)

\* What keeps the invariant while a turn runs or is queued: then the run is not
\* quiet, whatever its last row says.
LEMMA BusyIsExplained ==
  ASSUME inFlight' > 0 \/ ~Live'
  PROVE  SilenceIsExplained'
BY DEF SilenceIsExplained, Quiet, Live

LEMMA SendInv ==
  ASSUME IInv, NEW a \in Agents, NEW t \in Messages, Send(a, t)
  PROVE  IInv'
<1>1. /\ TypeOK /\ Counted /\ a \in running /\ Live
      /\ UNCHANGED <<slots, running, dead, paused, gated, banner, verbs>>
  BY DEF IInv, Send, gates
<1>2. /\ t \in [to : Recipients, kind : Kind] /\ t.to \in Recipients
      /\ Hopped \in 0..HopBudget /\ hops \in 0..HopBudget
  BY <1>1, HopBudgetAssumption DEF Messages, Kind, Hopped, TypeOK
<1>3. inFlight > 0
  BY <1>1, BusyCounted
<1>4. PICK owing : owing = {b \in Agents : Busy(b)}
  OBVIOUS
<1>5. a \in running'
  BY <1>1
<1>6. CASE Drop /\ hops' \in 0..HopBudget /\ tail' \in [to : Recipients, kind : Kind]
  <2>1. /\ lastDrop' = TRUE /\ stall' \in {"noted", stall}
        /\ UNCHANGED <<ended, queue, inFlight, opened>>
    BY <1>6 DEF Drop
  <2>2. TypeOK'
    BY <1>1, <1>6, <2>1 DEF TypeOK
  <2>3. Counted'
    BY <1>1, <2>1, StableCounted
  <2>4. Owed' /\ HaltsAreOwed' /\ NotesAreLive'
    BY <1>1, <2>1 DEF IInv, Owed, Busy, HaltsAreOwed, NotesAreLive, Live
  <2>5. SilenceIsExplained'
    BY <1>3, <2>1, BusyIsExplained
  <2> QED
    BY <2>2, <2>3, <2>4, <2>5 DEF IInv
<1>7. CASE /\ UNCHANGED <<queue, inFlight, lastDrop, opened>>
           /\ ended' \in {"completed", "stopped"} /\ stall' = "none"
           /\ hops' \in 0..HopBudget /\ tail' \in [to : Recipients, kind : Kind]
  <2>1. TypeOK'
    BY <1>1, <1>7 DEF TypeOK
  <2>2. Counted'
    BY <1>1, <1>7, StableCounted
  <2>3. Owed' /\ HaltsAreOwed' /\ NotesAreLive' /\ ~Live'
    BY <1>7 DEF Owed, HaltsAreOwed, NotesAreLive, Live
  <2> QED
    BY <2>1, <2>2, <2>3, BusyIsExplained DEF IInv
<1>8. CASE t.to \in Agents /\ hops' = Hopped /\ Wake(t.to, t)
  <2>1. /\ Deliver(t.to) /\ tail' = t /\ ended' = ended
        /\ stall' \in {"none", "overtaken"}
    BY <1>8 DEF Wake
  <2>2. Counted' /\ inFlight' \in Nat /\ inFlight' > 0 /\ queue' \in [Agents -> Nat]
    BY <1>1, <1>8, <2>1, DeliveryCounted
  <2>3. lastDrop' = FALSE /\ opened' = FALSE
    BY <2>1 DEF Deliver
  <2>4. TypeOK'
    BY <1>1, <1>2, <1>8, <2>1, <2>2, <2>3 DEF TypeOK
  <2>5. \A b \in Agents : queue[b] > 0 => queue'[b] > 0
    BY <1>1, <1>8, <2>1 DEF Deliver, TypeOK
  <2>6. Owed' /\ HaltsAreOwed' /\ NotesAreLive'
    <3>1. dead' \subseteq Agents
      BY <2>4 DEF TypeOK
    <3> QED
      BY <1>1, <2>1, <2>5, <3>1 DEF IInv, Owed, HaltsAreOwed, NotesAreLive, Live
  <2> QED
    BY <2>2, <2>4, <2>6, BusyIsExplained DEF IInv
<1>9. CASE SendRefused(a, t.to)
  BY <1>1, <1>2, <1>6, <1>9 DEF SendRefused, TypeOK
<1>10. CASE SendPersisted(a, t)
  <2>1. hops' = Hopped
    BY <1>10 DEF SendPersisted
  <2>2. CASE t.to = Sink /\ tail' = t /\ SendToSink(a)
    BY <1>2, <1>6, <1>7, <2>1, <2>2 DEF SendToSink, Teardown
  <2>3. CASE t.to = Stranger /\ tail' = t /\ Drop
    BY <1>2, <1>6, <2>1, <2>3
  <2>4. CASE t.to \in Agents /\ Exhausted(Hopped) /\ StopAtBudget
    <3>1. tail' \in [to : Recipients, kind : Kind]
      BY <2>4 DEF StopAtBudget, Row, Kind
    <3> QED
      BY <1>2, <1>7, <2>1, <2>4, <3>1 DEF StopAtBudget, Teardown
  <2>5. CASE t.to \in Agents /\ ~Exhausted(Hopped) /\ Wake(t.to, t)
    BY <1>8, <2>1, <2>5
  <2> QED
    BY <1>10, <2>2, <2>3, <2>4, <2>5 DEF SendPersisted
<1> QED
  BY <1>9, <1>10 DEF Send

LEMMA StartTurnInv ==
  ASSUME IInv, NEW a \in Agents, StartTurn(a)
  PROVE  IInv'
<1>1. /\ TypeOK /\ Counted /\ queue \in [Agents -> Nat] /\ dead \subseteq running
  BY DEF IInv, TypeOK
<1>2. /\ queue[a] > 0 /\ a \notin running
      /\ queue' = [queue EXCEPT ![a] = @ - 1]
      /\ running' = running \cup {a}
      /\ UNCHANGED <<ended, hops, tail, stall, lastDrop, inFlight, slots, dead,
                     paused, gated, banner, verbs, opened>>
  BY DEF StartTurn, gates
<1>3. queue' \in [Agents -> Nat] /\ \A b \in Agents : b # a => queue'[b] = queue[b]
  BY <1>1, <1>2
<1>4. TypeOK'
  BY <1>1, <1>2, <1>3 DEF TypeOK
<1>5. Counted'
  BY <1>1, StartCounted
<1>6. Owed' /\ NotesAreLive'
  BY <1>2 DEF IInv, Owed, Busy, NotesAreLive, Live
<1>7. HaltsAreOwed'
  <2>1. \A b \in dead : b # a /\ b \in Agents
    BY <1>1, <1>2 DEF TypeOK
  <2> QED
    BY <1>2, <1>3, <2>1 DEF IInv, HaltsAreOwed, Live
<1>8. inFlight' > 0
  BY <1>1, <1>2, BusyCounted
<1> QED
  BY <1>4, <1>5, <1>6, <1>7, <1>8, BusyIsExplained DEF IInv

\* The frame of the three ways a turn can end.
LEMMA SettledFrame ==
  ASSUME IInv, NEW a \in running, NEW t \in [to : Recipients, kind : Kind],
         Settled(a, t), slots' \in Seq(Agents),
         stall' \in {"none", "noted", "overtaken"}
  PROVE  TypeOK' /\ Counted' /\ HaltsAreOwed' /\ SilenceIsExplained'
<1>1. TypeOK /\ Counted /\ a \in Agents
  BY DEF IInv, TypeOK
<1>2. Counted' /\ inFlight' \in Nat
  BY <1>1, SettledCounted
<1>3. SilenceIsExplained' /\ tail' \in [to : Recipients, kind : Kind]
  BY <1>1, SettledExplained
<1>4. /\ running' = running \ {a} /\ dead' = dead \ {a}
      /\ UNCHANGED <<ended, hops, lastDrop, queue, paused, gated, banner, verbs, opened>>
  BY DEF Settled, gates
<1>5. TypeOK'
  BY <1>1, <1>2, <1>3, <1>4 DEF TypeOK
<1>6. HaltsAreOwed'
  BY <1>4 DEF IInv, HaltsAreOwed, Live
<1> QED
  BY <1>2, <1>3, <1>5, <1>6

LEMMA EndsInv ==
  ASSUME IInv, NEW a \in Agents, Succeed(a) \/ Fail(a)
  PROVE  IInv'
<1>1. a \in running /\ slots \in Seq(Agents) /\ tail \in [to : Recipients, kind : Kind]
  BY DEF Succeed, Fail, IInv, TypeOK
<1>2. slots' \in Seq(Agents)
  BY <1>1, SlotsTyped DEF Succeed, Fail
<1>3. stall' = "none"
  BY EndsConsume DEF IInv
<1>4. \E t \in [to : Recipients, kind : Kind] : Settled(a, t)
  <2>1. Row(User, "error") \in [to : Recipients, kind : Kind]
    BY DEF Row, Kind
  <2>2. Settled(a, tail) \/ Settled(a, Row(User, "error"))
    BY DEF Succeed, Fail
  <2> QED
    BY <1>1, <2>1, <2>2
<1>5. TypeOK' /\ Counted' /\ HaltsAreOwed' /\ SilenceIsExplained'
  BY <1>1, <1>2, <1>3, <1>4, SettledFrame
<1>6. Owed' /\ NotesAreLive'
  BY <1>3 DEF Owed, NotesAreLive
<1> QED
  BY <1>5, <1>6 DEF IInv

LEMMA HaltInv ==
  ASSUME IInv, NEW a \in Agents, Halt(a)
  PROVE  IInv'
<1>1. TypeOK /\ Counted /\ a \in running
  BY DEF IInv, Halt
<1>2. /\ dead' = dead \cup {a} /\ gated' = gated \cup {a} /\ banner' = banner \cup {a}
      /\ UNCHANGED <<ended, hops, tail, stall, lastDrop, inFlight, slots, queue,
                     running, paused, verbs, opened>>
  BY DEF Halt
<1>3. TypeOK'
  BY <1>1, <1>2 DEF TypeOK
<1>4. Counted'
  BY <1>1, <1>2, StableCounted
<1>5. Owed' /\ HaltsAreOwed' /\ NotesAreLive'
  BY <1>1, <1>2 DEF IInv, Owed, Busy, HaltsAreOwed, NotesAreLive, Live
<1>6. inFlight' > 0
  BY <1>1, <1>2, BusyCounted
<1> QED
  BY <1>3, <1>4, <1>5, <1>6, BusyIsExplained DEF IInv

\* A halted turn consumes no note, and leaves its banner or its replay.
LEMMA EndHaltedInv ==
  ASSUME IInv, NEW a \in Agents, EndHalted(a)
  PROVE  IInv'
<1>1. /\ a \in dead /\ a \in running /\ Settled(a, tail) /\ stall' = stall /\ slots' = slots
      /\ stall \in {"none", "noted", "overtaken"}
      /\ slots \in Seq(Agents) /\ tail \in [to : Recipients, kind : Kind]
  BY DEF EndHalted, IInv, TypeOK
<1>2. TypeOK' /\ Counted' /\ HaltsAreOwed' /\ SilenceIsExplained'
  BY <1>1, SettledFrame
<1>3. UNCHANGED <<ended, queue, banner>>
  BY <1>1 DEF Settled, gates
<1>4. NotesAreLive'
  BY <1>1, <1>3 DEF IInv, NotesAreLive, Live
<1>5. Owed'
  <2>1. CASE stall = "noted"
    <3>1. a \in banner \/ queue[a] > 0
      BY <1>1, <2>1 DEF IInv, NotesAreLive, HaltsAreOwed
    <3> QED
      BY <1>3, <3>1 DEF Owed, Busy
  <2>2. CASE stall # "noted"
    BY <1>1, <2>2 DEF Owed
  <2> QED
    BY <2>1, <2>2
<1> QED
  BY <1>2, <1>4, <1>5 DEF IInv

\* A verb of an ended run: a row, and nothing moves.
LEMMA RefusedInv ==
  ASSUME IInv, Verb, Refused
  PROVE  IInv'
<1>1. /\ tail' = Row(User, "error") /\ ~Live /\ ~Live' /\ verbs' = verbs + 1
      /\ UNCHANGED <<ended, hops, stall, lastDrop, inFlight, slots, queue, running,
                     dead, paused, gated, banner, opened>>
  BY DEF Verb, Refused, Tell, Live
<1>2. TypeOK'
  BY <1>1 DEF IInv, TypeOK, Row, Kind
<1>3. Counted'
  BY <1>1, StableCounted DEF IInv
<1>4. Owed' /\ HaltsAreOwed' /\ NotesAreLive'
  BY <1>1 DEF IInv, Owed, HaltsAreOwed, NotesAreLive, Live
<1> QED
  BY <1>1, <1>2, <1>3, <1>4, BusyIsExplained DEF IInv

\* A verb at the cap: the run ends.
LEMMA CapInv ==
  ASSUME IInv, Verb, StopAtBudget, UNCHANGED <<slots, gated, banner>>
  PROVE  IInv'
<1>1. /\ tail' = Row(Sink, "error") /\ ended' = "stopped" /\ stall' = "none"
      /\ verbs' = verbs + 1
      /\ UNCHANGED <<hops, lastDrop, inFlight, slots, queue, running, dead, paused,
                     gated, banner, opened>>
  BY DEF Verb, StopAtBudget, Teardown
<1>2. TypeOK'
  BY <1>1 DEF IInv, TypeOK, Row, Kind
<1>3. Counted'
  BY <1>1, StableCounted DEF IInv
<1>4. Owed' /\ HaltsAreOwed' /\ NotesAreLive' /\ ~Live'
  BY <1>1 DEF Owed, HaltsAreOwed, NotesAreLive, Live
<1> QED
  BY <1>2, <1>3, <1>4, BusyIsExplained DEF IInv

\* A replay: the agent's banner may go, for its delivery takes its place.
LEMMA ReplayInv ==
  ASSUME IInv, NEW a \in Agents, Verb, Replay(a), slots' \in Seq(Agents),
         \/ UNCHANGED <<gated, banner>>
         \/ gated' = gated \ {a} /\ banner' = banner \ {a}
  PROVE  IInv'
<1>1. /\ TypeOK /\ Counted /\ Deliver(a) /\ verbs' = verbs + 1
      /\ UNCHANGED <<ended, hops, tail, stall, running, dead, paused>>
  BY DEF IInv, Verb, Replay
<1>2. Counted' /\ inFlight' \in Nat /\ inFlight' > 0 /\ queue' \in [Agents -> Nat]
  BY <1>1, DeliveryCounted
<1>3. lastDrop' = FALSE /\ opened' = FALSE
  BY <1>1 DEF Deliver
<1>4. TypeOK'
  <2>1. gated' \in SUBSET Agents /\ banner' \in SUBSET Agents
    BY <1>1 DEF TypeOK
  <2>2. verbs' \in Nat /\ dead' \in SUBSET running'
    BY <1>1 DEF TypeOK
  <2> QED
    BY <1>1, <1>2, <1>3, <2>1, <2>2 DEF TypeOK
<1>5. queue'[a] > 0 /\ \A b \in Agents : queue[b] > 0 => queue'[b] > 0
  BY <1>1 DEF Deliver, TypeOK
<1>6. \A b \in banner : b = a \/ b \in banner'
  OBVIOUS
<1>7. dead \subseteq Agents
  BY <1>1 DEF TypeOK
<1>8. Owed' /\ HaltsAreOwed' /\ NotesAreLive'
  BY <1>1, <1>5, <1>6, <1>7 DEF IInv, Owed, Busy, HaltsAreOwed, NotesAreLive, Live
<1> QED
  BY <1>2, <1>4, <1>8, BusyIsExplained DEF IInv

LEMMA RetryInv ==
  ASSUME IInv, Retry
  PROVE  IInv'
<1>1. Verb /\ slots # <<>> /\ slots \in Seq(Agents)
  BY DEF Retry, IInv, TypeOK
<1>2. CASE Refused
  BY <1>1, <1>2, RefusedInv
<1>3. CASE StopAtBudget /\ UNCHANGED <<slots, gated, banner>>
  BY <1>1, <1>3, CapInv
<1>4. CASE /\ Replay(Head(slots)) /\ slots' = SlotsWithout(Head(slots))
           /\ UNCHANGED <<gated, banner>>
  <2>1. Head(slots) \in Agents
    BY <1>1
  <2> QED
    BY <1>1, <1>4, <2>1, SlotsTyped, ReplayInv
<1> QED
  BY <1>2, <1>3, <1>4 DEF Retry

LEMMA ContinueInv ==
  ASSUME IInv, NEW a \in Agents, Continue(a)
  PROVE  IInv'
<1>1. Verb /\ slots \in Seq(Agents)
  BY DEF Continue, IInv, TypeOK
<1>2. CASE Refused
  BY <1>1, <1>2, RefusedInv
<1>3. CASE StopAtBudget /\ UNCHANGED <<slots, gated, banner>>
  BY <1>1, <1>3, CapInv
<1>4. CASE /\ Replay(a) /\ gated' = gated \ {a} /\ banner' = banner \ {a}
           /\ slots' = slots
  BY <1>1, <1>4, ReplayInv
<1> QED
  BY <1>2, <1>3, <1>4 DEF Continue

LEMMA PauseInv ==
  ASSUME IInv, NEW a \in Agents, Pause(a)
  PROVE  IInv'
<1>1. /\ paused' = paused \cup {a}
      /\ UNCHANGED <<ended, hops, tail, stall, lastDrop, inFlight, slots, queue,
                     running, dead, gated, banner, verbs, opened>>
  BY DEF Pause
<1>2. TypeOK'
  BY <1>1 DEF IInv, TypeOK
<1>3. Counted'
  BY <1>1, StableCounted DEF IInv
<1>4. Owed' /\ HaltsAreOwed' /\ NotesAreLive'
  BY <1>1 DEF IInv, Owed, Busy, HaltsAreOwed, NotesAreLive, Live
<1>5. SilenceIsExplained'
  BY <1>1 DEF IInv, SilenceIsExplained, Quiet, Live, Held
<1> QED
  BY <1>2, <1>3, <1>4, <1>5 DEF IInv

LEMMA ResumeInv ==
  ASSUME IInv, NEW a \in Agents, Resume(a)
  PROVE  IInv'
<1>1. /\ paused' = paused \ {a}
      /\ opened' = (opened \/ inFlight = 0)
      /\ UNCHANGED <<ended, hops, tail, stall, lastDrop, inFlight, slots, queue,
                     running, dead, gated, banner, verbs>>
  BY DEF Resume
<1>2. opened' \in BOOLEAN
  BY <1>1, Zenon
<1>3. TypeOK'
  BY <1>1, <1>2 DEF IInv, TypeOK
<1>4. Counted'
  BY <1>1, StableCounted DEF IInv
<1>5. Owed' /\ HaltsAreOwed' /\ NotesAreLive'
  BY <1>1 DEF IInv, Owed, Busy, HaltsAreOwed, NotesAreLive, Live
<1>6. SilenceIsExplained'
  BY <1>1 DEF SilenceIsExplained, Quiet, Live
<1> QED
  BY <1>3, <1>4, <1>5, <1>6 DEF IInv

LEMMA StopInv ==
  ASSUME IInv, Stop
  PROVE  IInv'
<1>1. /\ ended' = "stopped" /\ stall' = "none" /\ slots' = <<>> /\ banner' = {}
      /\ UNCHANGED <<hops, tail, lastDrop, inFlight, queue, running, dead, paused,
                     gated, verbs, opened>>
  BY DEF Stop, Teardown
<1>2. TypeOK'
  BY <1>1 DEF IInv, TypeOK
<1>3. Counted'
  BY <1>1, StableCounted DEF IInv
<1>4. Owed' /\ HaltsAreOwed' /\ NotesAreLive' /\ ~Live'
  BY <1>1 DEF Owed, HaltsAreOwed, NotesAreLive, Live
<1> QED
  BY <1>2, <1>3, <1>4, BusyIsExplained DEF IInv

LEMMA StutterInv ==
  ASSUME IInv, UNCHANGED vars
  PROVE  IInv'
<1>1. Counted'
  BY StableCounted DEF IInv, vars
<1>2. TypeOK' /\ Owed' /\ HaltsAreOwed' /\ NotesAreLive'
  BY DEF IInv, vars, TypeOK, Owed, Busy, HaltsAreOwed, NotesAreLive, Live
<1>3. SilenceIsExplained'
  BY DEF IInv, vars, SilenceIsExplained, Quiet, Live, Held
<1> QED
  BY <1>1, <1>2, <1>3 DEF IInv

LEMMA InitInv ==
  ASSUME Init
  PROVE  IInv
<1>1. First \in Agents
  BY ParticipantsAssumption
<1>2. TypeOK
  <2>1. tail \in [to : Recipients, kind : Kind] /\ hops \in 0..HopBudget
    BY <1>1, HopBudgetAssumption DEF Init, Kind
  <2>2. queue \in [Agents -> Nat] /\ slots \in Seq(Agents)
    BY DEF Init
  <2> QED
    BY <2>1, <2>2 DEF Init, TypeOK
<1>3. PICK d : d = <<First, 1>>
  OBVIOUS
<1>4. \A e : e \in Outstanding <=> e \in {d}
  BY <1>1, <1>3, OutstandingIs DEF Init
<1>5. Outstanding = {d}
  BY <1>4
<1>6. Counted
  BY <1>5, FS_Singleton DEF Counted, Init
<1>7. Owed /\ HaltsAreOwed /\ NotesAreLive
  BY DEF Init, Owed, HaltsAreOwed, NotesAreLive
<1>8. SilenceIsExplained
  BY DEF Init, SilenceIsExplained, Quiet
<1> QED
  BY <1>2, <1>6, <1>7, <1>8 DEF IInv

-----------------------------------------------------------------------------
(* The theorems. *)

\* The inductive invariant of the router.
THEOREM Invariance == Spec => []IInv
<1>1. Init => IInv
  BY InitInv
<1>2. IInv /\ [Next]_vars => IInv'
  <2> SUFFICES ASSUME IInv, [Next]_vars
               PROVE  IInv'
    OBVIOUS
  <2>1. ASSUME NEW a \in Agents, NEW t \in Messages, Send(a, t)
        PROVE  IInv'
    BY <2>1, SendInv
  <2>2. ASSUME NEW a \in Agents, StartTurn(a)
        PROVE  IInv'
    BY <2>2, StartTurnInv
  <2>3. ASSUME NEW a \in Agents, Succeed(a) \/ Fail(a)
        PROVE  IInv'
    BY <2>3, EndsInv
  <2>4. ASSUME NEW a \in Agents, Halt(a)
        PROVE  IInv'
    BY <2>4, HaltInv
  <2>5. ASSUME NEW a \in Agents, EndHalted(a)
        PROVE  IInv'
    BY <2>5, EndHaltedInv
  <2>6. ASSUME NEW a \in Agents, Continue(a)
        PROVE  IInv'
    BY <2>6, ContinueInv
  <2>7. ASSUME NEW a \in Agents, Pause(a)
        PROVE  IInv'
    BY <2>7, PauseInv
  <2>8. ASSUME NEW a \in Agents, Resume(a)
        PROVE  IInv'
    BY <2>8, ResumeInv
  <2>9. CASE Retry
    BY <2>9, RetryInv
  <2>10. CASE Stop
    BY <2>10, StopInv
  <2>11. CASE UNCHANGED vars
    BY <2>11, StutterInv
  <2> QED
    BY <2>1, <2>2, <2>3, <2>4, <2>5, <2>6, <2>7, <2>8, <2>9, <2>10, <2>11 DEF Next
<1> QED
  BY <1>1, <1>2, PTL DEF Spec

\* Type correctness of the chain router's state.
THEOREM Typing == Spec => []TypeOK
<1>1. IInv => TypeOK
  BY DEF IInv
<1> QED
  BY <1>1, Invariance, PTL

\* A live chain in which nothing is in flight awaits no agent silently
\* (decideStrandedRun).
THEOREM QuietRunsAreExplained == Spec => []SilenceIsExplained
<1>1. IInv => SilenceIsExplained
  BY DEF IInv
<1> QED
  BY <1>1, Invariance, PTL

\* The note of a drop is owed by a delivery in flight or by a banner
\* (noteStall, onTurnSucceeded).
THEOREM DropsAreOwed == Spec => []NotedDropsAreOwed
<1>1. IInv => NotedDropsAreOwed
  <2> SUFFICES ASSUME IInv, stall = "noted", banner = {}
               PROVE  inFlight > 0
    BY DEF NotedDropsAreOwed
  <2>1. PICK a \in Agents : a \in running \/ queue[a] > 0
    BY DEF IInv, Owed, Busy
  <2> QED
    BY <2>1, BusyCounted DEF IInv
<1> QED
  BY <1>1, Invariance, PTL

-----------------------------------------------------------------------------
(* What the turns of a run cost. *)

\* The turns that run are deliveries in flight.
RunningFits == Cardinality(running) \in Nat /\ Cardinality(running) <= inFlight

LEMMA RunningCounted ==
  ASSUME Counted
  PROVE  IsFiniteSet(running) /\ RunningFits
<1> DEFINE f == [a \in running |-> <<a, 0>>]
<1>1. f \in [running -> Outstanding]
  BY OutstandingIs
<1>2. \A a, b \in running : f[a] = f[b] => a = b
  OBVIOUS
<1>3. f \in Injection(running, Outstanding)
  BY <1>1, <1>2 DEF Injection, IsInjective
<1> HIDE DEF f
<1> QED
  BY <1>3, FS_Injection, FS_CardinalityType DEF Counted, RunningFits

\* The five things a step may do to the flow of deliveries: none is dropped here.
PaidByMessage ==
  hops' = hops + 1 /\ hops' < HopBudget /\ inFlight' = inFlight + 1
    /\ UNCHANGED <<verbs, running>>
PaidByInput ==
  verbs' = verbs + 1 /\ verbs < MaxVerbs /\ inFlight' \in {inFlight, inFlight + 1}
    /\ UNCHANGED <<hops, running>>
Idle ==
  hops' \in {hops, hops + 1} /\ hops' <= HopBudget /\ UNCHANGED <<verbs, inFlight, running>>
Begun ==
  (\E a : a \notin running /\ running' = running \cup {a})
    /\ UNCHANGED <<hops, verbs, inFlight>>
Over ==
  (\E a \in running : running' = running \ {a})
    /\ inFlight > 0 /\ inFlight' = inFlight - 1 /\ UNCHANGED <<hops, verbs>>

LEMMA StepFlow ==
  ASSUME IInv, [Next]_vars
  PROVE  PaidByMessage \/ PaidByInput \/ Idle \/ Begun \/ Over
<1>1. hops \in 0..HopBudget /\ HopBudget \in Nat /\ inFlight \in Nat /\ running \subseteq Agents
  BY HopBudgetAssumption DEF IInv, TypeOK
<1>2. ASSUME NEW a \in Agents, NEW t \in Messages, Send(a, t)
      PROVE  PaidByMessage \/ Idle
  <2>1. UNCHANGED <<verbs, running>>
    BY <1>2 DEF Send
  <2>2. CASE SendRefused(a, t.to)
    BY <1>1, <2>1, <2>2 DEF SendRefused, Drop, Idle
  <2>3. CASE SendPersisted(a, t)
    <3>1. hops' = Hopped /\ hops' \in {hops, hops + 1} /\ hops' <= HopBudget
      BY <1>1, <2>3 DEF SendPersisted, Hopped
    <3>2. \/ inFlight' = inFlight
          \/ ~Exhausted(Hopped) /\ inFlight' = inFlight + 1
      BY <2>3 DEF SendPersisted, SendToSink, Drop, StopAtBudget, Wake, Deliver
    <3>3. ~Exhausted(Hopped) => hops' = hops + 1 /\ hops' < HopBudget
      BY <1>1, <3>1 DEF Hopped, Exhausted
    <3> QED
      BY <2>1, <3>1, <3>2, <3>3 DEF PaidByMessage, Idle
  <2> QED
    BY <1>2, <2>2, <2>3 DEF Send
<1>3. ASSUME NEW a \in Agents, StartTurn(a)
      PROVE  Begun
  BY <1>3 DEF StartTurn, Begun
<1>4. ASSUME NEW a \in Agents, Succeed(a) \/ Fail(a) \/ EndHalted(a)
      PROVE  Over
  <2>1. a \in running /\ \E t : Settled(a, t)
    BY <1>4 DEF Succeed, Fail, EndHalted, IInv, TypeOK
  <2>2. inFlight > 0
    BY <2>1, BusyCounted DEF IInv
  <2> QED
    BY <2>1, <2>2 DEF Settled, Over
<1>5. CASE Retry \/ \E a \in Agents : Continue(a)
  <2>1. verbs < MaxVerbs /\ verbs' = verbs + 1 /\ UNCHANGED <<hops, running>>
    BY <1>5 DEF Retry, Continue, Verb
  <2>2. inFlight' \in {inFlight, inFlight + 1}
    BY <1>5 DEF Retry, Continue, Refused, StopAtBudget, Replay, Deliver
  <2> QED
    BY <2>1, <2>2 DEF PaidByInput
<1>6. CASE Stop \/ UNCHANGED vars \/ \E a \in Agents : Halt(a) \/ Pause(a) \/ Resume(a)
  <2>1. UNCHANGED <<hops, verbs, inFlight, running>>
    BY <1>6 DEF Stop, Halt, Pause, Resume, vars
  <2> QED
    BY <1>1, <2>1 DEF Idle
<1> QED
  BY <1>2, <1>3, <1>4, <1>5, <1>6 DEF Next

\* No chain has more deliveries in flight than its messages, retries and
\* Continues have paid for (bumpHops, checkBudgetExhausted).
THEOREM EveryDeliveryIsPaidFor == Spec => []DeliveriesArePaidFor
<1>1. Init => DeliveriesArePaidFor
  BY HopBudgetAssumption, BoundsAssumption DEF Init, DeliveriesArePaidFor, Below
<1>2. IInv /\ DeliveriesArePaidFor /\ [Next]_vars => DeliveriesArePaidFor'
  <2> SUFFICES ASSUME IInv, DeliveriesArePaidFor, [Next]_vars
               PROVE  DeliveriesArePaidFor'
    OBVIOUS
  <2>1. /\ hops \in Nat /\ hops <= HopBudget /\ HopBudget \in Nat \ {0}
        /\ inFlight \in Nat /\ verbs \in Nat /\ MaxVerbs \in Nat
    BY HopBudgetAssumption, BoundsAssumption DEF IInv, TypeOK
  <2> QED
    BY <2>1, StepFlow DEF PaidByMessage, PaidByInput, Idle, Begun, Over,
                          DeliveriesArePaidFor, Below
<1> QED
  BY <1>1, <1>2, Invariance, PTL DEF Spec

\* The budget bounds the turns of a chain, the late ones included: each one
\* started is one less that can be, and nothing puts any back.
THEOREM TurnsAreLimited == Spec => TurnsAreSpent
<1>1. ASSUME IInv, IInv', DeliveriesArePaidFor, DeliveriesArePaidFor', RunningFits',
             [Next]_vars
      PROVE  /\ TurnsLeft' <= TurnsLeft
             /\ running' \subseteq running \/ TurnsLeft' < TurnsLeft
             /\ TurnsLeft' >= 0
  <2>1. /\ hops \in Nat /\ hops' \in Nat /\ hops' <= HopBudget /\ HopBudget \in Nat
        /\ verbs \in Nat /\ verbs' \in Nat /\ verbs' <= MaxVerbs /\ MaxVerbs \in Nat
        /\ inFlight \in Nat /\ inFlight' \in Nat
    BY <1>1, HopBudgetAssumption, BoundsAssumption DEF IInv, TypeOK, DeliveriesArePaidFor
  <2>2. IsFiniteSet(running) /\ Cardinality(running) \in Nat
    BY <1>1, RunningCounted DEF IInv, RunningFits
  <2>3. Cardinality(running') \in Nat /\ Cardinality(running') <= inFlight'
    BY <1>1 DEF RunningFits
  <2>4. TurnsLeft' >= 0
    BY <2>1, <2>3 DEF TurnsLeft
  <2>5. CASE Begun
    <3>1. Cardinality(running') = Cardinality(running) + 1
      BY <2>2, <2>5, FS_AddElement DEF Begun
    <3>2. UNCHANGED <<hops, verbs, inFlight>>
      BY <2>5 DEF Begun
    <3> QED
      BY <2>1, <2>2, <2>4, <3>1, <3>2 DEF TurnsLeft
  <2>6. CASE Over
    <3>1. running' \subseteq running /\ Cardinality(running') = Cardinality(running) - 1
      BY <2>2, <2>6, FS_RemoveElement DEF Over
    <3>2. inFlight' = inFlight - 1 /\ UNCHANGED <<hops, verbs>>
      BY <2>6 DEF Over
    <3> QED
      BY <2>1, <2>2, <2>4, <3>1, <3>2 DEF TurnsLeft
  <2>7. CASE PaidByMessage \/ PaidByInput \/ Idle
    <3>1. running' = running
      BY <2>7 DEF PaidByMessage, PaidByInput, Idle
    <3>2. TurnsLeft' <= TurnsLeft
      BY <2>1, <2>2, <2>7, <3>1 DEF PaidByMessage, PaidByInput, Idle, TurnsLeft
    <3> QED
      BY <2>4, <3>1, <3>2
  <2> QED
    BY <1>1, <2>5, <2>6, <2>7, StepFlow
<1>2. IInv => RunningFits
  BY RunningCounted DEF IInv
<1> QED
  BY <1>1, <1>2, Invariance, EveryDeliveryIsPaidFor, PTL DEF Spec, TurnsAreSpent

-----------------------------------------------------------------------------
(* The chain implements BudgetedRun. *)

Blocked == paused \cup gated

\* The brake and the end are asked before a delivery is queued; what is dropped
\* at the door costs no hop and changes nothing of the run.
WokenOnce ==
  \/ UNCHANGED queue
  \/ \E a \in Agents : /\ Live' /\ hops' < HopBudget
                       /\ queue' = [queue EXCEPT ![a] = @ + 1]

LEMMA SendRefines ==
  ASSUME IInv, NEW a \in Agents, NEW t \in Messages, Send(a, t)
  PROVE  Run!Message \/ Run!Surroundings
<1>1. /\ a \in running /\ Live /\ UNCHANGED <<running, Blocked, verbs>>
      /\ hops \in 0..HopBudget /\ HopBudget \in Nat /\ Blocked \in SUBSET Agents
  BY HopBudgetAssumption DEF Send, gates, Blocked, IInv, TypeOK
<1>2. CASE SendRefused(a, t.to)
  BY <1>1, <1>2 DEF SendRefused, Drop, Live, Blocked, Run!Irrevocable, Run!Surroundings
<1>3. CASE SendPersisted(a, t)
  <2>1. hops' = Hopped /\ (~Exhausted(Hopped) => hops' < HopBudget)
    BY <1>1, <1>3 DEF SendPersisted, Hopped, Exhausted
  <2>2. WokenOnce
    BY <1>1, <1>3, <2>1
    DEF SendPersisted, SendToSink, Drop, StopAtBudget, Wake, Deliver, WokenOnce, Live
  <2> QED
    BY <1>1, <2>1, <2>2
    DEF WokenOnce, Hopped, Blocked, Run!Message, Run!WakeOneAtMost, Run!Wake, Run!Irrevocable
<1> QED
  BY <1>2, <1>3 DEF Send

LEMMA InputRefines ==
  ASSUME IInv, IInv', Retry \/ \E a \in Agents : Continue(a)
  PROVE  Run!Input
<1>1. /\ verbs < MaxVerbs /\ verbs' = verbs + 1
      /\ UNCHANGED <<running, hops>>
      /\ hops \in 0..HopBudget /\ HopBudget \in Nat
      /\ Blocked' \in SUBSET Agents
  BY HopBudgetAssumption DEF Retry, Continue, Verb, IInv, TypeOK, Blocked
<1>2. ~Exhausted(hops) => hops' < HopBudget
  BY <1>1 DEF Exhausted
<1>3. slots # <<>> => Head(slots) \in Agents
  BY DEF IInv, TypeOK
<1>4. WokenOnce /\ (~Live => ~Live')
  <2>1. CASE Refused
    BY <2>1 DEF Refused, WokenOnce, Live
  <2>2. CASE StopAtBudget
    BY <2>2 DEF StopAtBudget, Teardown, WokenOnce, Live
  <2>3. ASSUME NEW a \in Agents, Replay(a), Live, ~Exhausted(hops)
        PROVE  WokenOnce /\ (~Live => ~Live')
    BY <1>2, <2>3 DEF Replay, Deliver, WokenOnce, Live
  <2> QED
    BY <1>3, <2>1, <2>2, <2>3 DEF Retry, Continue
<1> QED
  BY <1>1, <1>4
  DEF WokenOnce, Blocked, Run!Input, Run!WakeOneAtMost, Run!Wake, Run!Irrevocable

\* Every step of the chain is one of BudgetedRun, or none at all.
LEMMA NextRefines ==
  ASSUME IInv, IInv', [Next]_vars
  PROVE  [Run!Next]_(Run!vars)
<1>1. Blocked' \in SUBSET Agents
  BY DEF IInv, TypeOK, Blocked
<1>2. ASSUME NEW a \in Agents, NEW t \in Messages, Send(a, t)
      PROVE  Run!Next
  BY <1>2, SendRefines DEF Run!Next
<1>3. ASSUME NEW a \in Agents, StartTurn(a)
      PROVE  Run!Next
  <2>1. Run!Begin(a)
    BY <1>3 DEF StartTurn, Held, Live, gates, Run!Begin
  <2> QED
    BY <2>1 DEF Run!Next
<1>4. ASSUME NEW a \in Agents, Succeed(a) \/ Fail(a) \/ EndHalted(a)
      PROVE  Run!Next
  <2>1. a \in running /\ \E t : Settled(a, t)
    BY <1>4 DEF Succeed, Fail, EndHalted, IInv, TypeOK
  <2>2. Run!Finish(a)
    BY <2>1 DEF Settled, Live, gates, Run!Finish
  <2> QED
    BY <2>2 DEF Run!Next
<1>5. CASE Retry \/ \E a \in Agents : Continue(a)
  BY <1>5, InputRefines DEF Run!Next
<1>6. CASE Stop \/ \E a \in Agents : Halt(a) \/ Pause(a) \/ Resume(a)
  <2>1. UNCHANGED <<queue, running, hops, verbs>> /\ (~Live => ~Live')
    BY <1>6 DEF Stop, Halt, Pause, Resume, Teardown, Live
  <2>2. Run!Surroundings
    BY <1>1, <2>1 DEF Blocked, Run!Surroundings, Run!Irrevocable
  <2> QED
    BY <2>2 DEF Run!Next
<1>7. CASE UNCHANGED vars
  BY <1>7 DEF vars, Live, Run!vars
<1> QED
  BY <1>2, <1>3, <1>4, <1>5, <1>6, <1>7 DEF Next

LEMMA InitRefines == Init => Run!Init
BY ParticipantsAssumption DEF Init, Live, Run!Init

\* The chain (createChainRouter) keeps what BudgetedRun promises, but bars
\* nobody: a delivery that was queued when the run ended is begun all the same.
THEOREM Refinement == Spec => ImplementsBudgetedRun
BY InitRefines, NextRefines, Invariance, PTL DEF Spec, ImplementsBudgetedRun, Run!Spec
=============================================================================
