------------------------------ MODULE ChainRouter ------------------------------
(***************************************************************************)
(* The router of a chain session (server/src/bus/chain.ts): participants   *)
(* in a row, the last of which ends the run by addressing the terminator.  *)
(* A message that reaches nobody leaves a note (stallPending) that the end *)
(* of a turn turns into a pending retry, the one way back into a chain.    *)
(*                                                                         *)
(* An agent may address any participant, and its turn goes on after it has *)
(* woken one: several turns are live at once.  There is no mute, no kick   *)
(* and no prompt of the operator here.  Nobody asks at dequeue whether the *)
(* run is over, so a delivery that queued behind a turn starts after it.   *)
(***************************************************************************)
EXTENDS Integers, Sequences, FiniteSets

CONSTANTS
  Agents,        \* the participants
  First, Last,   \* the one that gets the task, the one that may end the run
  User, Sink,    \* the two recipients that are not agents
  Stranger,      \* a recipient outside the roster
  HopBudget,     \* agent-to-agent messages of one run
  MaxVerbs,      \* bound: retries and Continues of the operator
  MaxInFlight    \* bound: deliveries outstanding (above what the budget allows)

ASSUME ParticipantsAssumption == First \in Agents /\ Last \in Agents
ASSUME RecipientsAssumption ==
  /\ {User, Sink, Stranger} \cap Agents = {}
  /\ User # Sink /\ User # Stranger /\ Sink # Stranger
ASSUME HopBudgetAssumption == HopBudget \in Nat \ {0}
ASSUME BoundsAssumption == MaxVerbs \in Nat /\ MaxInFlight \in Nat

Recipients == Agents \cup {User, Sink, Stranger}

VARIABLES
  ended,     \* how the run was torn down, or "no"
  hops,      \* hopsCount, which is only ever compared with the budget
  tail,      \* the last persisted row: its recipient and what kind it is
  stall,     \* stallPending: a drop, and whether a wake has overtaken it
  lastDrop,  \* whether a message was dropped since the last delivery
  inFlight,  \* turnsInFlight: deliveries begun and not settled
  slots,     \* agents with a pending retry, the front (oldest) first
  queue,     \* agent -> deliveries waiting for a turn
  running,   \* agents in a turn
  dead,      \* those whose turn the pause gate has halted already
  paused,    \* agents held by the operator
  gated,     \* agents held by the pause gate
  banner,    \* agents with a pending mutation the operator may continue
  verbs,     \* operator inputs so far
  opened     \* history: a gate was opened while nothing was in flight

gates == <<paused, gated, banner>>
vars == <<ended, hops, tail, stall, lastDrop, inFlight, slots, queue, running,
          dead, paused, gated, banner, verbs, opened>>

Kind == {"message", "error", "note"}

TypeOK ==
  /\ ended \in {"no", "completed", "stopped"}
  /\ hops \in 0..HopBudget
  /\ tail \in [to : Recipients, kind : Kind]
  /\ stall \in {"none", "noted", "overtaken"}
  /\ lastDrop \in BOOLEAN
  /\ inFlight \in Nat
  /\ slots \in Seq(Agents)
  /\ queue \in [Agents -> Nat]
  /\ running \in SUBSET Agents
  /\ dead \in SUBSET running
  /\ paused \in SUBSET Agents
  /\ gated \in SUBSET Agents
  /\ banner \in SUBSET Agents
  /\ verbs \in Nat
  /\ opened \in BOOLEAN

\* wireChainSession, fresh: the task is a row, and the first agent's delivery.
Init ==
  /\ ended = "no"
  /\ hops = 0
  /\ tail = [to |-> First, kind |-> "message"]
  /\ stall = "none"
  /\ lastDrop = FALSE
  /\ inFlight = 1
  /\ slots = <<>>
  /\ queue = [a \in Agents |-> IF a = First THEN 1 ELSE 0]
  /\ running = {}
  /\ dead = {}
  /\ paused = {}
  /\ gated = {}
  /\ banner = {}
  /\ verbs = 0
  /\ opened = FALSE

-----------------------------------------------------------------------------
(* Rows, deliveries, the brake and the end. *)

Live == ended = "no"

Row(to, kind) == [to |-> to, kind |-> kind]

\* emitOperatorError: Cebab explains itself to the operator; not a hop.
Tell == tail' = Row(User, "error")

\* tailAwaitsAgent: an agent was woken and has not answered yet.
Awaits(t) == t.kind = "message" /\ t.to \notin {User, Sink}

Held(a) == a \in paused \cup gated

\* deliver: the turn is counted from here, however long it queues.
Deliver(a) ==
  /\ inFlight < MaxInFlight
  /\ queue' = [queue EXCEPT ![a] = @ + 1]
  /\ inFlight' = inFlight + 1
  /\ lastDrop' = FALSE
  /\ opened' = FALSE

\* bumpHops; beyond the budget the count says nothing more.
Hopped == IF hops < HopBudget THEN hops + 1 ELSE hops

\* teardown: the note of a drop does not outlive the run.
Teardown(reason) == ended' = reason /\ stall' = "none"

\* checkBudgetExhausted: at the cap the run ends instead of waking anyone, and
\* a row to the terminator says so.
Exhausted(h) == h = HopBudget

StopAtBudget ==
  /\ tail' = Row(Sink, "error")
  /\ Teardown("stopped")
  /\ UNCHANGED <<queue, inFlight, lastDrop, opened>>

-----------------------------------------------------------------------------
(* handleEvent: one bus_send of an agent in a live turn. *)

\* dispatchRouterDrop and noteStall.  The notification of a drop may fail, and
\* then the throw goes past noteStall to the sender.
Drop ==
  /\ lastDrop' = TRUE
  /\ stall' \in {"noted", stall}
  /\ UNCHANGED <<ended, queue, inFlight, opened>>

\* Dropped at the door, before it is persisted: a chain ends at the terminator,
\* not at the operator, and nobody writes to itself.
SendRefused(a, to) ==
  /\ to = User \/ to = a
  /\ Drop
  /\ UNCHANGED <<hops, tail>>

\* Only the last participant may end the run.
SendToSink(a) ==
  IF a = Last
  THEN Teardown("completed") /\ UNCHANGED <<queue, inFlight, lastDrop, opened>>
  ELSE Drop

\* The router's one wake; a drop before it no longer matters.
Wake(to, t) ==
  /\ tail' = t
  /\ Deliver(to)
  /\ stall' = IF stall = "none" THEN "none" ELSE "overtaken"
  /\ UNCHANGED ended

\* What is persisted is a hop, wherever it goes; the brake is asked only about
\* what would wake someone.
SendPersisted(a, t) ==
  /\ t.to \notin {User, a}
  /\ hops' = Hopped
  /\ \/ t.to = Sink /\ tail' = t /\ SendToSink(a)
     \/ t.to = Stranger /\ tail' = t /\ Drop
     \/ t.to \in Agents /\ IF Exhausted(Hopped) THEN StopAtBudget ELSE Wake(t.to, t)

Send(a, t) ==
  /\ Live
  /\ a \in running \ dead
  /\ SendRefused(a, t.to) \/ SendPersisted(a, t)
  /\ UNCHANGED <<slots, running, dead, gates, verbs>>

-----------------------------------------------------------------------------
(* Turns. *)

\* deliverTurn: no canStartTurn here, the end of the run is not asked about.
StartTurn(a) ==
  /\ queue[a] > 0
  /\ a \notin running
  /\ ~Held(a)
  /\ queue' = [queue EXCEPT ![a] = @ - 1]
  /\ running' = running \cup {a}
  /\ UNCHANGED <<ended, hops, tail, stall, lastDrop, inFlight, slots, dead,
                 gates, verbs, opened>>

\* Mutant: any held queue explains the silence, whoever it belongs to.
StrandedUnlessAnyHeld(t) ==
  inFlight' = 0 /\ Live /\ Awaits(t) /\ paused \cup gated = {}

\* decideStrandedRun, asked when a turn has settled and left the row t last.
Stranded(t) == inFlight' = 0 /\ Live /\ Awaits(t) /\ ~Held(t.to)

\* Mutant: the mark of a halted turn outlives it.
SettledStillDead(a, t) ==
  /\ running' = running \ {a}
  /\ inFlight' = IF inFlight > 0 THEN inFlight - 1 ELSE 0
  /\ tail' = IF Stranded(t) THEN Row(User, "note") ELSE t
  /\ UNCHANGED <<ended, hops, lastDrop, queue, dead, gates, verbs, opened>>

\* onTurnSettled: t is the row the turn's own end left last.
Settled(a, t) ==
  /\ running' = running \ {a}
  /\ dead' = dead \ {a}
  /\ inFlight' = IF inFlight > 0 THEN inFlight - 1 ELSE 0
  /\ tail' = IF Stranded(t) THEN Row(User, "note") ELSE t
  /\ UNCHANGED <<ended, hops, lastDrop, queue, gates, verbs, opened>>

\* clearPendingRetry: an agent has one slot at most, on its participant row.
SlotsWithout(a) ==
  IF \E i \in DOMAIN slots : slots[i] = a
  THEN LET i == CHOOSE i \in DOMAIN slots : slots[i] = a
       IN  SubSeq(slots, 1, i - 1) \o SubSeq(slots, i + 1, Len(slots))
  ELSE slots

\* setPendingRetry: a fresh slot goes to the back.
SlotsWith(a) == Append(SlotsWithout(a), a)

\* Mutant: the run is parked only where a slot of the agent was cleared.
SucceedParksOwner(a) ==
  /\ a \in running \ dead
  /\ Settled(a, IF stall = "noted" /\ slots # SlotsWithout(a) THEN Row(User, "error") ELSE tail)
  /\ IF Live /\ slots # SlotsWithout(a)
     THEN /\ slots' = IF stall = "noted" THEN SlotsWith(a) ELSE SlotsWithout(a)
          /\ stall' = "none"
     ELSE UNCHANGED <<slots, stall>>

\* onTurnSucceeded: the agent's own slot is stale; then parkIfStalled, which
\* parks the agent whose turn this is, whoever's message was dropped.
Succeed(a) ==
  /\ a \in running \ dead
  /\ IF Live
     THEN /\ slots' = IF stall = "noted" THEN SlotsWith(a) ELSE SlotsWithout(a)
          /\ stall' = "none"
          /\ Settled(a, IF stall = "noted" THEN Row(User, "error") ELSE tail)
     ELSE Settled(a, tail) /\ UNCHANGED <<slots, stall>>

\* onWorkerFailed: a row to the operator, and the agent's slot.
Fail(a) ==
  /\ a \in running \ dead
  /\ IF Live
     THEN /\ slots' = SlotsWith(a)
          /\ stall' = "none"
          /\ Settled(a, Row(User, "error"))
     ELSE Settled(a, tail) /\ UNCHANGED <<slots, stall>>

\* The pause gate halts a turn: the queue is held, the banner is up.
Halt(a) ==
  /\ a \in running \ (dead \cup banner)
  /\ dead' = dead \cup {a}
  /\ gated' = gated \cup {a}
  /\ banner' = banner \cup {a}
  /\ UNCHANGED <<ended, hops, tail, stall, lastDrop, inFlight, slots, queue,
                 running, paused, verbs, opened>>

\* PausedForMutationError reaches deliver: not a failure, no row and no slot.
EndHalted(a) ==
  /\ a \in dead
  /\ Settled(a, tail)
  /\ UNCHANGED <<stall, slots>>

-----------------------------------------------------------------------------
(* The operator. *)

Verb ==
  /\ verbs < MaxVerbs
  /\ verbs' = verbs + 1
  /\ UNCHANGED <<hops, running, dead, paused>>

\* checkTurnRefused of a run that is over.
Refused ==
  /\ ~Live
  /\ Tell
  /\ UNCHANGED <<ended, stall, lastDrop, inFlight, slots, queue, gated, banner,
                 opened>>

\* A delivery that is no wake of the router: deliveries is not counted up.
Replay(a) == Deliver(a) /\ UNCHANGED <<ended, tail, stall>>

\* retry: at the cap the slot stays, otherwise it goes before the delivery.
Retry ==
  /\ Verb
  /\ slots # <<>>
  /\ \/ Refused
     \/ /\ Live
        /\ IF Exhausted(hops) THEN StopAtBudget /\ UNCHANGED slots
           ELSE Replay(Head(slots)) /\ slots' = SlotsWithout(Head(slots))
        /\ UNCHANGED <<gated, banner>>

\* continueThroughMutation: the queue is let go and the prompt replayed.
Continue(a) ==
  /\ Verb
  /\ a \in banner
  /\ \/ Refused
     \/ /\ Live
        /\ IF Exhausted(hops) THEN StopAtBudget /\ UNCHANGED <<gated, banner>>
           ELSE Replay(a) /\ gated' = gated \ {a} /\ banner' = banner \ {a}
        /\ UNCHANGED slots

\* pauseAgent and resumeAgent, through the registry of live sessions.
Pause(a) ==
  /\ Live
  /\ a \notin paused
  /\ paused' = paused \cup {a}
  /\ UNCHANGED <<ended, hops, tail, stall, lastDrop, inFlight, slots, queue,
                 running, dead, gated, banner, verbs, opened>>

\* A gate that opens while nothing is in flight is noticed by nobody.
Resume(a) ==
  /\ Live
  /\ a \in paused
  /\ paused' = paused \ {a}
  /\ opened' = (opened \/ inFlight = 0)
  /\ UNCHANGED <<ended, hops, tail, stall, lastDrop, inFlight, slots, queue,
                 running, dead, gated, banner, verbs>>

\* stop: the slots and the banners go first, then the run is torn down.
Stop ==
  /\ Live
  /\ Teardown("stopped")
  /\ slots' = <<>>
  /\ banner' = {}
  /\ UNCHANGED <<hops, tail, lastDrop, inFlight, queue, running, dead, paused,
                 gated, verbs, opened>>

-----------------------------------------------------------------------------
Messages == [to : Recipients, kind : {"message", "error"}]

Next ==
  \/ \E a \in Agents :
       \/ \E t \in Messages : Send(a, t)
       \/ StartTurn(a)
       \/ Succeed(a)
       \/ Fail(a)
       \/ Halt(a)
       \/ EndHalted(a)
       \/ Continue(a)
       \/ Pause(a)
       \/ Resume(a)
  \/ Retry
  \/ Stop

Spec == Init /\ [][Next]_vars

-----------------------------------------------------------------------------
(* Properties. *)

\* A live run in which nothing is in flight does not pretend to be working
\* (onTurnSettled, decideStrandedRun): the last row awaits no agent, unless that
\* agent is held and the operator can let it go, or has just done so.
Quiet == Live /\ inFlight = 0

SilenceIsExplained ==
  Quiet /\ Awaits(tail) => Held(tail.to) \/ opened

\* The note of a drop is never left over (noteStall waits for the end of a
\* turn): while it stands some delivery is outstanding whose end will consume
\* it, or an agent waits for the operator's Continue.
NotedDropsAreOwed ==
  stall = "noted" => inFlight > 0 \/ banner # {}

\* Every delivery is paid for, by a message below the cap or by a retry or a
\* Continue: MaxInFlight does not bind from HopBudget + MaxVerbs on.
Below(x, cap) == IF x < cap THEN x ELSE cap - 1

DeliveriesArePaidFor ==
  inFlight <= 1 + Below(hops, HopBudget) + verbs /\ verbs <= MaxVerbs

\* What is left to start: messages not sent, inputs not made, deliveries not
\* begun.  Nothing adds to it, and every turn that starts takes of it, those
\* that start after the end of the run too.
TurnsLeft ==
  (HopBudget - hops) + (MaxVerbs - verbs) + (inFlight - Cardinality(running))

TurnsAreSpent ==
  [][/\ TurnsLeft' <= TurnsLeft
     /\ running' \subseteq running \/ TurnsLeft' < TurnsLeft
     /\ TurnsLeft' >= 0]_vars

\* The chain implements BudgetedRun too, but for the bars: a chain kicks nobody,
\* and what was queued when it ended is still begun.
Run == INSTANCE BudgetedRun WITH
  waiting <- queue,
  active <- running,
  blocked <- paused \cup gated,
  barred <- {},
  over <- ~Live

ImplementsBudgetedRun == Run!Spec
=============================================================================
