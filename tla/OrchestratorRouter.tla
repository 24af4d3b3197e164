------------------------- MODULE OrchestratorRouter -------------------------
(***************************************************************************)
(* The hub router of an orchestrator session (server/src/bus/orchestrator. *)
(* ts): which message wakes whom, the hop budget that brakes a runaway     *)
(* run, mute and kick, the pending-retry slots, and the note that explains *)
(* a run in which nothing moves any more (bus/quiescence.ts).              *)
(*                                                                         *)
(* Every handler runs to its end in one step: the router awaits nothing.   *)
(* A turn is the actor between its start and its settling; deliveries      *)
(* queue behind it (TurnQueue says how, here only how many), and a turn    *)
(* the pause gate has halted is dead before it settles (MutationGate says  *)
(* why; here every halt leaves its banner).                                *)
(***************************************************************************)
EXTENDS Integers, Sequences, FiniteSets

CONSTANTS
  Workers,       \* the projects that are, or may become, worker participants
  Orchestrator,  \* the hub
  User, Sink,    \* the two recipients that are not agents
  Stranger,      \* a recipient outside the roster
  HopBudget,     \* agent-to-agent messages of one run
  MaxVerbs,      \* bound: prompts, additions, retries, Continues and mutes
  MaxInFlight    \* bound: deliveries outstanding (above what the budget allows)

ASSUME RecipientsAssumption ==
  /\ Orchestrator \notin Workers
  /\ {User, Sink, Stranger} \cap (Workers \cup {Orchestrator}) = {}
  /\ User # Sink /\ User # Stranger /\ Sink # Stranger
ASSUME HopBudgetAssumption == HopBudget \in Nat \ {0}
ASSUME MaxVerbsAssumption == MaxVerbs \in Nat
ASSUME MaxInFlightAssumption == MaxInFlight \in Nat

Agents == Workers \cup {Orchestrator}
Recipients == Agents \cup {User, Sink, Stranger}

VARIABLES
  ended,     \* the router's ended flag
  members,   \* workerSet: the workers of the session
  muted,     \* mutedSet
  kicked,    \* kickedSet
  hops,      \* hopsCount, which is only ever compared with the budget
  tail,      \* whom the last persisted row leaves awaited, or Nobody
  inFlight,  \* turnsInFlight: deliveries begun and not settled
  slots,     \* agents with a pending retry, the front (oldest) first
  queue,     \* agent -> deliveries waiting for a turn
  running,   \* agents in a turn
  dead,      \* those whose turn the pause gate has halted already
  paused,    \* agents held by the operator
  gated,     \* agents held by the pause gate
  banner,    \* agents with a pending mutation the operator may continue
  verbs,     \* operator inputs so far
  failed,    \* history: agents whose last settled turn failed
  opened     \* history: a gate was opened while nothing was in flight

gates == <<paused, gated, banner>>
control == <<members, muted, kicked>>
turns == <<queue, running, dead, failed>>
vars == <<ended, members, muted, kicked, hops, tail, inFlight, slots, queue,
          running, dead, paused, gated, banner, verbs, failed, opened>>

Nobody == User

TypeOK ==
  /\ ended \in BOOLEAN
  /\ members \in SUBSET Workers
  /\ muted \in SUBSET Workers
  /\ kicked \in SUBSET Workers
  /\ hops \in 0..HopBudget
  /\ tail \in Recipients
  /\ inFlight \in Nat
  /\ slots \in Seq(Agents)
  /\ queue \in [Agents -> Nat]
  /\ running \in SUBSET Agents
  /\ dead \in SUBSET running
  /\ paused \in SUBSET Workers
  /\ gated \in SUBSET Workers
  /\ banner \in SUBSET Workers
  /\ verbs \in Nat
  /\ failed \in SUBSET Agents
  /\ opened \in BOOLEAN

\* startOrchestratorSession: at least one worker; the roster and the task are
\* one prompt to the hub.
Init ==
  /\ ended = FALSE
  /\ members \in (SUBSET Workers) \ {{}}
  /\ muted = {}
  /\ kicked = {}
  /\ hops = 0
  /\ tail = Orchestrator
  /\ inFlight = 1
  /\ slots = <<>>
  /\ queue = [a \in Agents |-> IF a = Orchestrator THEN 1 ELSE 0]
  /\ running = {}
  /\ dead = {}
  /\ paused = {}
  /\ gated = {}
  /\ banner = {}
  /\ verbs = 0
  /\ failed = {}
  /\ opened = FALSE

-----------------------------------------------------------------------------
(* Rows, deliveries and the brake. *)

\* tailAwaitsAgent: a message to an agent leaves it awaited; one to the operator
\* or the terminator, and an error or a note, leave nobody.
Awaited(t) ==
  IF t.kind = "message" /\ t.to \notin {User, Sink} THEN t.to ELSE Nobody

\* emitOperatorError: Cebab explains itself to the operator; not a hop.
Tell == tail' = Nobody

Held(a) == a \in paused \cup gated

\* deliver: the turn is counted from here, however long it queues.
Deliver(a) ==
  /\ inFlight < MaxInFlight
  /\ queue' = [queue EXCEPT ![a] = @ + 1]
  /\ inFlight' = inFlight + 1
  /\ opened' = FALSE

NoDelivery == UNCHANGED <<queue, inFlight, opened>>

\* bumpHops; beyond the budget the count says nothing more.
Hopped == IF hops < HopBudget THEN hops + 1 ELSE hops

\* checkBudgetExhausted: at the cap the run ends instead of waking anyone, and
\* a row to the terminator says so.
Exhausted(h) == h = HopBudget

StopAtBudget ==
  /\ tail' = Nobody
  /\ ended' = TRUE
  /\ NoDelivery

\* Mutant: the brake is not asked before a message is delivered.
WakeUnbraked(a, t, h) ==
  /\ tail' = t
  /\ Deliver(a)
  /\ UNCHANGED ended

\* Wake the agent; the last row leaves t awaited.  Or stop at the cap.
Wake(a, t, h) ==
  IF Exhausted(h) THEN StopAtBudget
  ELSE tail' = t /\ Deliver(a) /\ UNCHANGED ended

-----------------------------------------------------------------------------
(* handleEvent: one bus_send of an agent in a live turn. *)

\* F2: workers do not address the operator or each other, nobody itself.
OffTopology(a, to) ==
  \/ to = User /\ a # Orchestrator
  \/ a \in members /\ to \in members
  \/ a = to

\* What is dropped before it is persisted.
Refused(a, to) ==
  OffTopology(a, to) \/ a \in kicked \/ to \in kicked \/ a \in muted

\* To the operator: persisted and counted, and nobody is woken.
SendToUser(t) ==
  /\ t.to = User
  /\ tail' = Nobody
  /\ NoDelivery
  /\ UNCHANGED ended

\* To the terminator, which means nothing here: dropped once it is counted.
SendToSink(t) ==
  /\ t.to = Sink
  /\ tail' = Nobody
  /\ NoDelivery
  /\ UNCHANGED ended

\* To nobody of this session: dropped too, but the brake is asked first.
SendToStranger(t) ==
  /\ t.to \in {Stranger} \cup (Workers \ members)
  /\ IF Exhausted(Hopped) THEN StopAtBudget
     ELSE tail' = Awaited(t) /\ NoDelivery /\ UNCHANGED ended

SendToAgent(t) ==
  /\ t.to \in members \cup {Orchestrator}
  /\ Wake(t.to, Awaited(t), Hopped)

\* handleEvent for a message that is persisted: it is a hop wherever it goes.
\* One dropped at the door changes nothing the run depends on.
Send(a, t) ==
  /\ ~ended
  /\ a \in running \ dead
  /\ ~Refused(a, t.to)
  /\ hops' = Hopped
  /\ SendToUser(t) \/ SendToSink(t) \/ SendToStranger(t) \/ SendToAgent(t)
  /\ UNCHANGED <<control, slots, running, dead, gates, verbs, failed>>

-----------------------------------------------------------------------------
(* Turns. *)

StartTurn(a) ==
  /\ queue[a] > 0
  /\ a \notin running
  /\ ~ended
  /\ a \notin kicked
  /\ ~Held(a)
  /\ queue' = [queue EXCEPT ![a] = @ - 1]
  /\ running' = running \cup {a}
  /\ UNCHANGED <<ended, control, hops, tail, inFlight, slots, dead,
                 gates, verbs, failed, opened>>

\* Mutant: any held queue explains the silence, whoever it belongs to.
StrandedUnlessAnyHeld(t) ==
  inFlight' = 0 /\ ~ended /\ t # Nobody /\ paused \cup gated = {}

\* decideStrandedRun, asked when a turn has settled and left t awaited.
Stranded(t) == inFlight' = 0 /\ ~ended /\ t # Nobody /\ ~Held(t)

\* onTurnSettled: t is whom the turn's own last row left awaited.
Settled(t) ==
  /\ inFlight' = IF inFlight > 0 THEN inFlight - 1 ELSE 0
  /\ tail' = IF Stranded(t) THEN Nobody ELSE t
  /\ UNCHANGED <<ended, control, hops, gates, verbs, opened>>

\* Mutant: the refusal leaves without the finally clause.
RefuseUnsettled(a) ==
  /\ queue[a] > 0
  /\ a \notin running
  /\ ended \/ a \in kicked
  /\ queue' = [queue EXCEPT ![a] = @ - 1]
  /\ tail' = IF ended THEN tail ELSE Nobody
  /\ UNCHANGED <<ended, control, hops, inFlight, slots, running, dead,
                 gates, verbs, failed, opened>>

\* A delivery dequeued too late.  The operator is told of a kick; the end of
\* the session needs no row.  (One that waited at a closed gate when the session
\* ended keeps waiting: no fairness is asked for it.)
Refuse(a) ==
  /\ queue[a] > 0
  /\ a \notin running
  /\ ended \/ a \in kicked
  /\ queue' = [queue EXCEPT ![a] = @ - 1]
  /\ Settled(IF ended THEN tail ELSE Nobody)
  /\ UNCHANGED <<slots, running, dead, failed>>

\* Mutant: the mark of a halted turn outlives it.
TurnOverStillDead(a) ==
  /\ running' = running \ {a}
  /\ UNCHANGED <<dead, queue>>

TurnOver(a) ==
  /\ running' = running \ {a}
  /\ dead' = dead \ {a}
  /\ UNCHANGED queue

\* Mutant: a recovered agent's slot is cleared only when it is at the front.
SlotsUnlessFront(a) ==
  IF slots # <<>> /\ Head(slots) = a THEN Tail(slots) ELSE slots

\* clearPendingRetry: an agent has one slot at most, on its participant row.
SlotsWithout(a) ==
  LET SlotOf == {i \in DOMAIN slots : slots[i] = a}
  IN  IF SlotOf = {} THEN slots
      ELSE LET i == CHOOSE i \in SlotOf : TRUE
           IN  SubSeq(slots, 1, i - 1) \o SubSeq(slots, i + 1, Len(slots))

\* onTurnSucceeded: the agent has recovered, its slot is stale.
Succeed(a) ==
  /\ a \in running \ dead
  /\ TurnOver(a)
  /\ failed' = failed \ {a}
  /\ slots' = IF ended THEN slots ELSE SlotsWithout(a)
  /\ Settled(tail)

\* onWorkerFailed: a row to the operator, and the agent's slot goes to the back.
Fail(a) ==
  /\ a \in running \ dead
  /\ TurnOver(a)
  /\ failed' = failed \cup {a}
  /\ slots' = IF ended THEN slots ELSE Append(SlotsWithout(a), a)
  /\ Settled(IF ended THEN tail ELSE Nobody)

\* The pause gate halts a worker's turn: its queue is held, its banner is up.
Halt(a) ==
  /\ a \in (Workers \cap running) \ (dead \cup banner)
  /\ dead' = dead \cup {a}
  /\ gated' = gated \cup {a}
  /\ banner' = banner \cup {a}
  /\ UNCHANGED <<ended, control, hops, tail, inFlight, slots, queue,
                 running, paused, verbs, failed, opened>>

\* PausedForMutationError reaches deliver: not a failure, no row and no slot.
EndHalted(a) ==
  /\ a \in dead
  /\ TurnOver(a)
  /\ Settled(tail)
  /\ UNCHANGED <<slots, failed>>

-----------------------------------------------------------------------------
(* The operator. *)

Verb ==
  /\ verbs < MaxVerbs
  /\ verbs' = verbs + 1
  /\ UNCHANGED <<muted, kicked, hops, running, dead, paused, failed>>

\* sendUserPrompt: the row, then the brake, then the hub's turn.
Prompt ==
  /\ Verb
  /\ ~ended
  /\ Wake(Orchestrator, Orchestrator, hops)
  /\ UNCHANGED <<members, slots, gated, banner>>

\* addWorker: the worker is registered, its row and all, before the roster
\* update goes the way of a prompt; the trust prompts awaited before it can
\* outlast the run, and then nobody is told.
AddWorker(w) ==
  /\ Verb
  /\ w \in Workers \ members
  /\ members' = members \cup {w}
  /\ IF ended THEN NoDelivery /\ UNCHANGED <<ended, tail>>
     ELSE Wake(Orchestrator, Orchestrator, hops)
  /\ UNCHANGED <<slots, gated, banner>>

\* Mutant: a replay does not ask whether its agent is still in the session.
RefusedAtEnd(a) == ended

\* checkTurnRefused, for the two verbs that start a turn without a message.
RefusedFor(a) == a \in kicked \/ ended

\* retry, refused: a kicked agent's slot goes, an ended session's stays.
RetryRefused ==
  /\ Verb
  /\ slots # <<>>
  /\ RefusedFor(Head(slots))
  /\ Tell
  /\ slots' = IF Head(slots) \in kicked THEN Tail(slots) ELSE slots
  /\ NoDelivery
  /\ UNCHANGED <<members, ended, gated, banner>>

\* retry: at the cap the slot stays, otherwise it goes before the delivery.
Retry ==
  /\ Verb
  /\ slots # <<>>
  /\ ~RefusedFor(Head(slots))
  /\ Wake(Head(slots), tail, hops)
  /\ slots' = IF Exhausted(hops) THEN slots ELSE Tail(slots)
  /\ UNCHANGED <<members, gated, banner>>

\* A gate that opens while nothing is in flight is noticed by nobody.
Opens == opened' = (opened \/ inFlight = 0)

\* continueThroughMutation, refused: a kicked agent's banner is resolved.
ContinueRefused(a) ==
  /\ Verb
  /\ a \in banner
  /\ RefusedFor(a)
  /\ Tell
  /\ IF a \in kicked
     THEN banner' = banner \ {a} /\ gated' = gated \ {a} /\ Opens
     ELSE UNCHANGED <<banner, gated, opened>>
  /\ UNCHANGED <<members, ended, slots, queue, inFlight>>

\* continueThroughMutation: the queue is let go and the prompt replayed.
Continue(a) ==
  /\ Verb
  /\ a \in banner
  /\ ~RefusedFor(a)
  /\ Wake(a, tail, hops)
  /\ IF Exhausted(hops) THEN UNCHANGED <<banner, gated>>
     ELSE banner' = banner \ {a} /\ gated' = gated \ {a}
  /\ UNCHANGED <<members, slots>>

\* The verbs on a participant reach the router through the registry of live
\* sessions, which an ended session has left.
Mute(a) ==
  /\ verbs < MaxVerbs
  /\ verbs' = verbs + 1
  /\ ~ended
  /\ a \in members \ muted
  /\ muted' = muted \cup {a}
  /\ UNCHANGED <<ended, members, kicked, hops, tail, inFlight, slots,
                 turns, gates, opened>>

Unmute(a) ==
  /\ ~ended
  /\ a \in muted
  /\ muted' = muted \ {a}
  /\ UNCHANGED <<ended, members, kicked, hops, tail, inFlight, slots,
                 turns, gates, verbs, opened>>

Pause(a) ==
  /\ ~ended
  /\ a \in members \ paused
  /\ paused' = paused \cup {a}
  /\ UNCHANGED <<ended, control, hops, tail, inFlight, slots, turns,
                 gated, banner, verbs, opened>>

Resume(a) ==
  /\ ~ended
  /\ a \in paused
  /\ paused' = paused \ {a}
  /\ Opens
  /\ UNCHANGED <<ended, control, hops, tail, inFlight, slots, turns,
                 gated, banner, verbs>>

\* kickAgent: the agent is out, and every hold on its queue is let go.
Kick(a) ==
  /\ ~ended
  /\ a \in members \ kicked
  /\ kicked' = kicked \cup {a}
  /\ paused' = paused \ {a}
  /\ gated' = gated \ {a}
  /\ Opens
  /\ UNCHANGED <<ended, members, muted, hops, tail, inFlight, slots,
                 turns, banner, verbs>>

\* stop: the slots and the banners go first, then the run is torn down; no
\* running turn is cut short and no queue is drained.
Stop ==
  /\ ~ended
  /\ ended' = TRUE
  /\ slots' = <<>>
  /\ banner' = {}
  /\ UNCHANGED <<control, hops, tail, inFlight, turns, paused, gated,
                 verbs, opened>>

-----------------------------------------------------------------------------
Messages == [to : Recipients, kind : {"message", "error"}]

TurnEnds(a) == Succeed(a) \/ Fail(a) \/ EndHalted(a)

Next ==
  \/ \E a \in Agents :
       \/ \E t \in Messages : Send(a, t)
       \/ StartTurn(a)
       \/ Refuse(a)
       \/ TurnEnds(a)
  \/ \E a \in Workers :
       \/ AddWorker(a)
       \/ Halt(a)
       \/ Continue(a)
       \/ ContinueRefused(a)
       \/ Mute(a) \/ Unmute(a)
       \/ Pause(a) \/ Resume(a)
       \/ Kick(a)
  \/ Prompt
  \/ Retry
  \/ RetryRefused
  \/ Stop

Spec == Init /\ [][Next]_vars

\* A turn ends by itself or by the stall watchdog, and a free queue moves.
Fairness ==
  \A a \in Agents : WF_vars(TurnEnds(a)) /\ WF_vars(StartTurn(a))

FairSpec == Spec /\ Fairness

-----------------------------------------------------------------------------
(* Properties. *)

\* The deliveries not settled; a turn that runs is its agent's number 0.
Outstanding ==
  (UNION {{a} \X (1..queue[a]) : a \in Agents}) \cup (running \X {0})

\* Every delivery is settled exactly once, whichever way it leaves: the number
\* the stranded-run detector reads is the deliveries queued and the turns run.
InFlightIsExact == inFlight = Cardinality(Outstanding)

\* Nothing is woken at the cap, after the end or for a kicked agent, by any of
\* the ways a turn comes about: a message, a prompt, a retry or a Continue.
OnlyLiveAgentsWoken ==
  [][\A a \in Agents :
       queue'[a] > queue[a] => hops' < HopBudget /\ ~ended' /\ a \notin kicked]_vars

\* Retry offers only turns that are still owed: an agent with a slot has one
\* slot, and has not completed a turn since the one that failed.  And nothing
\* that failed is forgotten: until the agent completes a turn it has its slot, a
\* turn running or on its way, or a banner, unless it was kicked.
HasSlot(a) == \E i \in DOMAIN slots : slots[i] = a
Pending(a) == a \in banner \cup kicked \/ queue[a] > 0

SlotsAreOwed ==
  ~ended => /\ \A i \in DOMAIN slots : slots[i] \in failed
            /\ \A i, j \in DOMAIN slots : slots[i] = slots[j] => i = j
            /\ \A a \in failed : HasSlot(a) \/ a \in running \/ Pending(a)

\* A live run in which nothing is in flight does not pretend to be working: the
\* last row awaits no agent, unless that agent is held and the operator can let
\* it go, or has just done so.
Quiet == ~ended /\ inFlight = 0

QuietIsExplained ==
  Quiet /\ tail # Nobody => Held(tail) \/ opened

\* Every delivery is paid for, by a message below the cap or by an input of the
\* operator: so many are never exceeded, and MaxInFlight does not bind from
\* HopBudget + MaxVerbs on.
Below(x, cap) == IF x < cap THEN x ELSE cap - 1

DeliveriesArePaidFor ==
  inFlight <= 1 + Below(hops, HopBudget) + verbs /\ verbs <= MaxVerbs

\* What is left to start: messages not sent, inputs not made, deliveries not
\* begun.  Nothing the agents or the operator do adds to it, and every turn that
\* starts takes of it: the budget is a bound on the turns of a run.
TurnsLeft ==
  (HopBudget - hops) + (MaxVerbs - verbs) + (inFlight - Cardinality(running))

TurnsAreSpent ==
  [][/\ TurnsLeft' <= TurnsLeft
     /\ running' \subseteq running \/ TurnsLeft' < TurnsLeft
     /\ TurnsLeft' >= 0]_vars

\* The router implements BudgetedRun: an agent is barred once it is kicked or
\* the session has ended.
Run == INSTANCE BudgetedRun WITH
  waiting <- queue,
  active <- running,
  blocked <- paused \cup gated,
  barred <- IF ended THEN Agents ELSE kicked,
  over <- ended

ImplementsBudgetedRun == Run!Spec

\* However the agents keep answering one another, the run falls silent: the
\* budget bounds the turns between two inputs of the operator.
BudgetBrakes == <>[](running = {})
=============================================================================
