------------------------------ MODULE TurnQueue ------------------------------
(***************************************************************************)
(* The turn queue of AgentRunner (server/src/bus/runner.ts) with the       *)
(* control state the orchestrator's router lends it (canStartTurn).        *)
(*                                                                         *)
(* Deliveries to one agent are chained on that agent's promise tail        *)
(* (turnTails); the delivery at the head runs a loop that first asks       *)
(* whether a turn may start at all and then waits on the agent's pause     *)
(* gate, re-reading both after every wait.  Between two awaits the event   *)
(* loop runs one callback to its end, so one pass of that loop is one      *)
(* step here; every await is a place where another actor may come between. *)
(*                                                                         *)
(* A gate exists exactly while it has holders, so it is not a variable of  *)
(* its own: a delivery that waits is "parked" until the promise of the     *)
(* gate it read is resolved ("woken"), even if a new gate stands by then.  *)
(***************************************************************************)
EXTENDS Naturals, Sequences

CONSTANTS
  Agents,        \* the agents registered with the runner
  Orchestrator,  \* the agent no operator verb can pause or kick
  MaxDeliveries  \* bound: deliveries of one behaviour

ASSUME AgentsAssumption == Orchestrator \in Agents
ASSUME MaxDeliveriesAssumption == MaxDeliveries \in Nat

VARIABLES
  queue,    \* agent -> identities of the deliveries queued and not started
  stage,    \* agent -> where the delivery at the head of its tail stands
  holders,  \* agent -> who holds its gate
  pending,  \* agent -> the pendingDeliveries counter
  kicked,   \* the router's kickedSet
  ended,    \* the router's ended flag
  made,     \* deliveries made so far: the next identity is made + 1
  lastOut   \* history: agent -> the last delivery that left its queue

vars == <<queue, stage, holders, pending, kicked, ended, made, lastOut>>

Workers == Agents \ {Orchestrator}
Holder == {"operator", "mutation"}

\* "free": no turn of the agent runs and its head (if any) is about to make
\* its first pass of the loop; "parked": the head awaits a gate; "woken": that
\* gate was released and the head is about to pass again; "running": a turn.
Stage == {"free", "parked", "woken", "running"}

TypeOK ==
  /\ queue \in [Agents -> Seq(Nat)]
  /\ stage \in [Agents -> Stage]
  /\ holders \in [Agents -> SUBSET Holder]
  /\ pending \in [Agents -> Nat]
  /\ kicked \in SUBSET Workers
  /\ ended \in BOOLEAN
  /\ made \in Nat
  /\ lastOut \in [Agents -> Nat]

\* A router is built with an empty queue; a mutation hold may stand from the
\* start, re-installed from the rows an earlier process left pending.
Init ==
  /\ queue = [a \in Agents |-> <<>>]
  /\ stage = [a \in Agents |-> "free"]
  /\ holders \in [Agents -> SUBSET {"mutation"}]
  /\ pending = [a \in Agents |-> 0]
  /\ kicked = {}
  /\ ended = FALSE
  /\ made = 0
  /\ lastOut = [a \in Agents |-> 0]

-----------------------------------------------------------------------------
(* Gates. *)

\* Resolving a gate's promise sends the delivery that awaits it round its loop.
Wake(a) ==
  stage' = [stage EXCEPT ![a] = IF @ = "parked" THEN "woken" ELSE @]

\* acquireHold: join the gate of the agent, or install one.
AcquireHold(a, h) ==
  /\ h \notin holders[a]
  /\ holders' = [holders EXCEPT ![a] = @ \cup {h}]

\* Mutant: the map entry goes and the promise is never resolved.
ReleaseHoldSilently(a, h) ==
  /\ h \in holders[a]
  /\ holders' = [holders EXCEPT ![a] = @ \ {h}]
  /\ UNCHANGED stage

\* releaseHold: drop one holder's claim; the last one out opens the gate.
ReleaseHold(a, h) ==
  /\ h \in holders[a]
  /\ holders' = [holders EXCEPT ![a] = @ \ {h}]
  /\ IF holders[a] = {h} THEN Wake(a) ELSE UNCHANGED stage

\* Mutant: the claims are cleared without resolving the promise.
ClearAllHolds(a) ==
  /\ holders' = [holders EXCEPT ![a] = {}]
  /\ UNCHANGED stage

\* releaseAllHolds: every claim at once, whoever made it.
ReleaseAllHolds(a) ==
  /\ holders' = [holders EXCEPT ![a] = {}]
  /\ IF holders[a] = {} THEN UNCHANGED stage ELSE Wake(a)

\* The operator pauses or resumes a worker.
Pause(a) ==
  /\ AcquireHold(a, "operator")
  /\ UNCHANGED <<queue, stage, pending, kicked, ended, made, lastOut>>

Resume(a) ==
  /\ ReleaseHold(a, "operator")
  /\ UNCHANGED <<queue, pending, kicked, ended, made, lastOut>>

\* The pause-on-dangerous gate halts the running turn: it holds the queue
\* first, the turn then ends by the error the gate throws.
HoldForMutation(a) ==
  /\ stage[a] = "running"
  /\ AcquireHold(a, "mutation")
  /\ UNCHANGED <<queue, stage, pending, kicked, ended, made, lastOut>>

-----------------------------------------------------------------------------
(* Deliveries. *)

\* deliverTurn: count the call and chain it behind the agent's tail.
Enqueue(a) ==
  /\ made < MaxDeliveries
  /\ made' = made + 1
  /\ queue' = [queue EXCEPT ![a] = Append(@, made + 1)]
  /\ pending' = [pending EXCEPT ![a] = @ + 1]

\* The router delivers: it has just found the session live and the agent in it.
Deliver(a) ==
  /\ ~ended
  /\ a \notin kicked
  /\ Enqueue(a)
  /\ UNCHANGED <<stage, holders, kicked, ended, lastOut>>

\* The router has delivered nothing to the agent, so it has no prompt captured.
NothingCaptured(a) == queue[a] = <<>> /\ lastOut[a] = 0

\* The operator continues through a held mutation: the hold is released and
\* the halted prompt is delivered again, behind whatever is queued already.
Continue(a) ==
  /\ ~ended
  /\ a \notin kicked
  /\ ~NothingCaptured(a)
  /\ ReleaseHold(a, "mutation")
  /\ Enqueue(a)
  /\ UNCHANGED <<kicked, ended, lastOut>>

\* Continue on an agent kicked meanwhile, or after a restart that reinstalled
\* the hold and not the prompt: only the hold goes.
ContinueWithoutReplay(a) ==
  /\ a \in kicked \/ (~ended /\ NothingCaptured(a))
  /\ ReleaseHold(a, "mutation")
  /\ UNCHANGED <<queue, pending, kicked, ended, made, lastOut>>

\* Mutant: only a kick is asked about when the delivery is dequeued.
CanStartUnlessKicked(a) == a \notin kicked

CanStartTurn(a) == ~ended /\ a \notin kicked

AtHead(a) == stage[a] \in {"free", "woken"} /\ queue[a] # <<>>

\* Mutant: counted down at dequeue and once more in the finally clause.
CountDownTwice(n) == n - 2

CountDown(n) == IF n > 0 THEN n - 1 ELSE 0

\* The delivery at the head leaves the queue, started or refused; the counter
\* goes down in the finally clause, which both exits of the loop run.
LeaveQueue(a) ==
  /\ queue' = [queue EXCEPT ![a] = Tail(@)]
  /\ pending' = [pending EXCEPT ![a] = CountDown(@)]
  /\ lastOut' = [lastOut EXCEPT ![a] = Head(queue[a])]

\* One pass of the loop of deliverTurn, in its order: refusal, gate, start.
Refuse(a) ==
  /\ AtHead(a)
  /\ ~CanStartTurn(a)
  /\ LeaveQueue(a)
  /\ stage' = [stage EXCEPT ![a] = "free"]
  /\ UNCHANGED <<holders, kicked, ended, made>>

Park(a) ==
  /\ AtHead(a)
  /\ CanStartTurn(a)
  /\ holders[a] # {}
  /\ stage' = [stage EXCEPT ![a] = "parked"]
  /\ UNCHANGED <<queue, holders, pending, kicked, ended, made, lastOut>>

StartTurn(a) ==
  /\ AtHead(a)
  /\ CanStartTurn(a)
  /\ holders[a] = {}
  /\ LeaveQueue(a)
  /\ stage' = [stage EXCEPT ![a] = "running"]
  /\ UNCHANGED <<holders, kicked, ended, made>>

\* The turn settles, one way or another; the tail advances either way.
SettleTurn(a) ==
  /\ stage[a] = "running"
  /\ stage' = [stage EXCEPT ![a] = "free"]
  /\ UNCHANGED <<queue, holders, pending, kicked, ended, made, lastOut>>

-----------------------------------------------------------------------------
(* Control verbs of the session. *)

\* Mutant: the kick leaves the agent's gate standing.
KickHeld(a) ==
  /\ a \notin kicked
  /\ kicked' = kicked \cup {a}
  /\ UNCHANGED <<queue, stage, holders, pending, ended, made, lastOut>>

\* A kick is final, so it lets go of everything the agent's queue waits for.
Kick(a) ==
  /\ a \notin kicked
  /\ kicked' = kicked \cup {a}
  /\ ReleaseAllHolds(a)
  /\ UNCHANGED <<queue, pending, ended, made, lastOut>>

\* teardown sets the flag and nothing else of the queue: gates keep standing.
EndSession ==
  /\ ~ended
  /\ ended' = TRUE
  /\ UNCHANGED <<queue, stage, holders, pending, kicked, made, lastOut>>

-----------------------------------------------------------------------------
\* One pass of the delivery at the head.
Pass(a) == Refuse(a) \/ Park(a) \/ StartTurn(a)

Operator(a) == Pause(a) \/ Resume(a) \/ Kick(a)

Next ==
  \/ \E a \in Agents :
       \/ Deliver(a)
       \/ Continue(a)
       \/ ContinueWithoutReplay(a)
       \/ Pass(a)
       \/ HoldForMutation(a)
       \/ SettleTurn(a)
  \/ \E a \in Workers : Operator(a)
  \/ EndSession

Spec == Init /\ [][Next]_vars

\* The event loop runs every callback that is ready, and a turn always settles:
\* the stall watchdog closes one that neither ends nor waits for the operator.
Fairness == \A a \in Agents : WF_vars(Pass(a)) /\ WF_vars(SettleTurn(a))

FairSpec == Spec /\ Fairness

-----------------------------------------------------------------------------
(* Properties. *)

\* A delivery waits on a gate only while somebody holds it and the agent is
\* still in the run: releasing the last hold, and a kick, always wake it.
ParkedIsHeld ==
  \A a \in Agents : stage[a] = "parked" => holders[a] # {} /\ a \notin kicked

\* The number the operator reads as "stuck behind this agent" is the length of
\* the queue, through refusals, waits, repeated pauses and kicks.
PendingIsQueueLength ==
  \A a \in Agents : pending[a] = Len(queue[a])

\* Nothing overtakes: what is still queued is newer than all that left, and is
\* queued in the order it came.
Fifo ==
  \A a \in Agents :
    /\ \A i \in 1..Len(queue[a]) : lastOut[a] < queue[a][i]
    /\ \A i, j \in 1..Len(queue[a]) : i < j => queue[a][i] < queue[a][j]

\* No turn starts for an agent that is held, kicked or in an ended session at
\* the moment it starts, however long ago it was routed.
NoTurnStartsHeld ==
  [][\A a \in Agents :
       stage[a] # "running" /\ stage'[a] = "running"
         => holders[a] = {} /\ a \notin kicked /\ ~ended]_vars

\* Each holder's claim is its own: resuming a worker does not approve the command
\* it was halted at, and continuing through that command does not lift the
\* operator's pause.  The mutation hold goes only as the halted prompt is
\* delivered again (or there is none, after a restart), and only a kick takes
\* both claims at once.
HoldersIndependent ==
  [][\A a \in Agents \ kicked' :
       /\ "mutation" \in holders[a] \ holders'[a]
            => /\ NothingCaptured(a) \/ Len(queue'[a]) = Len(queue[a]) + 1
               /\ holders'[a] = holders[a] \ {"mutation"}
       /\ "operator" \in holders[a] \ holders'[a]
            => /\ queue'[a] = queue[a]
               /\ holders'[a] = holders[a] \ {"operator"}]_vars

\* What was queued for a kicked agent is refused, not stranded on its gate.
KickDrains ==
  \A a \in Workers : a \in kicked ~> queue[a] = <<>>

\* Once nobody holds an agent any more its queue empties, however often it was
\* paused and resumed before.
ReleasedDrains ==
  \A a \in Agents : <>[](holders[a] = {}) => []<>(queue[a] = <<>>)

\* The runner implements SerialTurns: an agent is blocked while its gate has a
\* holder and barred once it is kicked or its session has ended.
Promise == INSTANCE SerialTurns WITH
  Deliveries <- 1..MaxDeliveries,
  waiting <- queue,
  active <- {a \in Agents : stage[a] = "running"},
  blocked <- {a \in Agents : holders[a] # {}},
  barred <- IF ended THEN Agents ELSE kicked

ImplementsSerialTurns == Promise!Spec
=============================================================================
