# Cebab's turns and agents in TLA+

Cebab wraps the `claude` CLI. Besides one-to-one chats it runs *sessions of
several agents*: an orchestrator (hub) and workers, or a chain of participants.
The agents exchange messages through an in-process tool, `bus_send`; the server
decides who is woken by what, and the operator may mute, pause, resume or kick a
worker, approve a dangerous command, answer a question, retry a failed turn, and
stop, resume or reopen the run. That control logic (`server/src/bus`,
`server/src/ws`, `server/src/repo`) is the program's own core, it is what these
modules are about, and it is hard to test because its bugs live between two
awaits.

Paths below are relative to the repository; `PROJECT.json` maps every definition
to the lines it translates.

## The system

The server is one Node process. Everything runs on its event loop: a callback
runs to its end, and other callbacks run only at an `await`. State is kept in
memory, by one object per live session and one per browser window, and in SQLite
(synchronous calls), which is what a restart leaves.

| Part | State | Operations | What makes it correct |
| --- | --- | --- | --- |
| Turn queue (`bus/runner.ts`, `AgentRunner.deliverTurn`) | promise tail per agent, pause gate with its holders, queued counter | deliver, pause, resume, hold, release, release all | one turn at a time, in order; never while held, kicked or ended; nothing left waiting for nobody |
| Attempt loop and watchdog (`bus/runner.ts`, `runOneTurn`, `runOneAttempt`; `bus/pending_questions.ts`) | routed sends, timers, count and registry of parked questions | attempt, back off, retry, stall, abort, ask, answer | a retry repeats nothing that has an effect; a wedged turn ends, a waiting one does not |
| Pause-on-dangerous gate (`bus/pause_gate.ts`, the tap in `bus/runner.ts`) | a row per tool call (none, pending, approved, consumed), the audit chain | tap, Continue, Stop | nothing dangerous runs unapproved; one approval, one run; a halted agent is halted |
| Orchestrator router (`bus/orchestrator.ts`, `bus/quiescence.ts`) | members, muted and kicked, hops, `ended`, turns in flight, captured prompts, retry slots | message, prompt, add, retry, Continue, mute, kick, stop, settle | every wake passes the budget, the end and the kicks; the count of turns is exact; a silent run is explained |
| Chain router (`bus/chain.ts`) | hops, the parked drop, retry slots, turns in flight | message, retry, Continue, pause, stop, settle | a run at rest is over, is held, or says why; a parked drop is owed a turn |
| Participant control (`ws/control_verbs.ts`, `ws/pause_expiry.ts`, `repo/per_agent_control.ts`) | control columns, audit chain, expiry timers | mute, pause, resume, kick, expiry | the row, the router and the gate agree; a stale timer does nothing; a pause ends |
| Session registry (`bus/session_registry.ts`) | live sessions, start claims, the sink each session reports to | claim, register, attach, detach, end | one live session; a window that leaves silences nobody else |
| Recovery (`bus/reconstruct.ts`, `bus/resume.ts`, `ws/server.ts`) | `awaiting_continue`, rows marked running | sweep, resume, reopen, recovery Continue | rows tell the truth; a rebuilt run is as controlled as the one that died; one nudge |
| Single-agent turns (`runOneTurn` of `ws/server.ts`, `runner/lifecycle.ts`) | `conn.inFlight`, the process registry, cards and questions, captured prompts | send, retry, decide, answer, Stop, close | one turn per session; Stop finds it and it ends; cards end with it; a held prompt is kept |
| Safety audit (`notifications/safety_audit.ts`, `audit_tip.ts`) | hash-linked rows, the tip file | append, verify | an alteration or a truncation is noticed |
| Spawn trust gate (`repo/mcp_trust_gate.ts`) | parked decisions | ask, answer, abandon | no process starts on an unanswered question |

How they interact: a client frame reaches a handler of `ws/server.ts`, which
checks and calls a verb; the verb writes the row and the audit chain and calls
the session's handle, which changes the router and the runner. A turn's
`bus_send` calls the router back synchronously (`handleEvent`), which persists a
row and calls `deliver`, which queues a turn with the runner. When a turn ends,
its promise comes back to `deliver`'s `then`, `catch` and `finally`
(`onTurnSucceeded`, `onWorkerFailed`, `onTurnSettled`). A single-agent turn has
no router: the handler runs it and keeps its traces in the window's own object.

The hard behaviours: what was checked before an await is stale after it; two
independent holders share a gate; the gate halts a turn in three writes, each of
which may fail; an approval is a one-shot grant that a later turn spends; a
retried attempt runs the same prompt again; a window may close while its request
waits; a restart keeps the rows and loses the rest; and silence has to be told
from work. `PROJECT.json` lists them as hazards, at their lines.

## Modules

```
SerialTurns          what the bus promises about turns (abstract)
   ^ implemented by
TurnQueue            the queue, the gate, what the router lends it

ApprovalLedger       what pause-on-dangerous promises the operator (abstract)
   ^ implemented by
MutationGate         tap, gate, rows, Continue, Stop, kick, restart

BudgetedRun          what a router promises of a run (abstract)
   ^ implemented by
OrchestratorRouter   messages, members, budget, verbs, retries, stranded note
ChainRouter          the same for a chain, with its parked drops

AttemptLoop          one agent's turns from the inside
ParticipantControl   verbs against rows, audit chain, gates and timers
SessionLifecycle     registry, claims, windows, sinks, restart, resume, reopen
ChatTurn             the turns of a single-agent session
```

Each but the three abstract ones has an `MC_` module, which gives the constants
their values, and a `_proofs` module. Each takes one mechanism in full and the others by their
interface. `TurnQueue` knows that a turn runs, not what it does; `AttemptLoop`
is what it does. `MutationGate` takes the queue's promise as one step,
`StartTurn`, guarded by what `OnlyFreeTurnsStart` proves of it. The two routers
keep of the queue how many deliveries wait and who is held, and of the gate that
it halts a turn and leaves a banner. `ParticipantControl` keeps of the router
two sets and of the runner who is held. `SessionLifecycle` keeps of a router
that it is live and where it reports.

A step is always what runs between two awaits that leave the microtask queue.

### SerialTurns and TurnQueue

`SerialTurns` has four variables: what waits, who is active, who is blocked, who
is barred. `TurnQueue` implements it: an agent is blocked while its gate has a
holder, barred once it is kicked or the session has ended.

The code of `deliverTurn` appears as `Enqueue` (synchronous) and then passes of
its loop: `Refuse`, `Park` and `StartTurn` are the three ways a pass ends, in
the loop's order (refusal, gate, start). `stage` says where the head of the tail
stands. A gate exists while it has holders, so it needs no variable; what does
need one is that a delivery awaits the promise of the gate it *read* (`parked`),
which may be resolved (`woken`) with a new gate standing by the time it looks
again. `HoldForMutation` comes from the pause gate, `Continue` and
`ContinueWithoutReplay` from the router. `Init` allows mutation holds, which a
rebuild reinstalls. Between the settling of a turn and the pass of the next
delivery the code has some microtasks; `free` is that place.

### AttemptLoop

The stream is the environment: it speaks, sends, asks, falls silent, ends or
fails. So is the router: it takes a message, drops it, or throws while it drops
it (`dispatchRouterDrop` audits a drop, and then nothing guards the write of its
notification). `prior` and `routed` are the two ledgers of the replay guard. The
wrapper enters a message before it asks the router, so a throw leaves an entry
without a verdict (`undefined`), and that is what a later attempt answers from:
`Worded` is `busSendResultText`, to which a missing verdict is a delivery. Of
what is said of a message, `verdict` is the router's word and `told` the
model's. An error has a class and a text that may read like an overload, and
`Transient` looks at both, as `isTransientOverload` does. Of the idle clock only its thresholds are kept: 0 is just
heard, then the three limits the timers compare with. `parked` is the runner's
count of parked questions and `registry` the questions themselves; they are
changed at different places of the code, and only the count suspends the
watchdog. `closing` is the time between the watchdog's abort and the end of the
stream, `halting` that between a throw of the mutation tap and the end of the
stream it closes, when a Continue may come between and the tap of the calls left
over may hold the agent once more. `Init` allows a hold, as in a rebuilt session.
One runner is followed to the session's end.

### ApprovalLedger and MutationGate

`ApprovalLedger` counts, for each agent and command, the approvals on record, the
grants that stand and the calls that ran: a call runs by spending a grant, and a
grant comes only with a recorded approval of exactly that call. `MutationGate`
implements it: the audit chain holds the approvals, the rows in state
`approved` are the grants. Nothing of a grant is lost to the abstraction by a
crash: the rows survive it, and so does what they grant.

In `MutationGate` itself there is a row per recorded tool call, with the agent, the command (tool and summary are
one value: they are only compared) and the pause state. `Message` is an
assistant message with up to `MaxBatch` dangerous calls; `Tap` handles one. Its
disjuncts are the outcomes of the tap: no row could be written, a grant is
spent, the spending fails, the agent is halted already, and the pause with or
without its mark. A live turn's message is tapped without any await that leaves
the microtask queue, hence `NoTapRunning` in the guards of everything else; a
dead turn's left-over calls are tapped after its stream is closed, when anything
may have come between. `Rebuild` is a crash and the operator's Resume (or the
sweep at start-up): the rows, the audit chain and the kicks stay, holds come
back from the pending rows, the rest is gone. The toggle is on throughout;
commands that are not dangerous pass unseen and are left out.
`ContinueUngranted` is the write that fails after the approval is audited:
`releasePauseForMutation` returns null and the banner stays.

### BudgetedRun and OrchestratorRouter

`BudgetedRun` has no messages, rows, slots or banners, only their effect: who
has how many deliveries waiting, who is in a turn, held or barred, how many hops
and operator inputs have been used, and whether the run is over. A step wakes
one agent at most, and only by a message of an agent in a turn or an input of
the operator, below the budget, while the run is open, and never a barred agent;
bars and the end are final. `OrchestratorRouter` implements it with a kicked
agent barred, and every agent once the session has ended.

In the router, `Send` is `handleEvent`, split by outcome: `OffTopology` and `Refused` are what
is dropped at the door (a message between workers, or of a worker to the
operator; a kicked source or destination; a muted source), the others what is persisted and
counted, one per kind of recipient. Every wake goes through the budget check and
the delivery of one operator. `tail` is the last persisted row, reduced to what
`tailAwaitsAgent` reads. A turn ends as `Succeed`, `Fail` or `EndHalted`, each
with the settling that `finally` runs, where the stranded-run note is decided.
`AddWorker` is `addWorker` after its awaits. A prompt, a retry and a Continue
are the operator's ways of waking an agent; `verbs` counts them. `failed` and
`opened` are history variables: whose last turn failed, and that a gate was
opened while nothing was in flight. The verbs on a participant reach the router
through the registry of live sessions, hence `~ended` in their guards; retry and
Continue come through the window's handle, which outlives the run.

A halted turn always leaves its banner here (`MutationGate` has the case in
which it does not), and write failures of the router's own rows are left out.

### ChainRouter

The same split for `chain.ts`, whose rules differ: any participant may address
any other, only the last ends the run, there is no mute, kick or prompt, and
nobody asks at dequeue whether the run is over. A message that reaches nobody
leaves a note (`stall` = "noted"), which a wake overtakes and the end of a turn
turns into a slot of the retry list. `slots` is that list, front first. The chain
implements `BudgetedRun` as well, with nobody barred: nobody can be kicked, and
what was queued when the run ended is still begun.

### ParticipantControl

A verb runs without an await, so nothing happens in the middle of one, except
that a write may throw or the process may die. It is therefore `Begin`,
`WriteRow`, `WriteKick` and `Apply`, each a step, with `WriteThrows` and `Crash`
between any two; everything else waits for `Idle`. `Fire` is the expiry of a
timer, a verb of its own. Deadlines are the numbers of the pauses: when a timer
fires is left open, and which pause it was armed for is what matters. `Rebuild`
puts back from the rows what `reconstructOrchestratorSession` puts back.
`lost` and `cut` are the history of two failures the code does not recover from
(see below).

### SessionLifecycle

A window (`Conns`) has a socket, a binding (`conn.multiAgent`), at most one
start claim and at most one request in progress (`op`), which waits for the
spawn gates or for the `git status` of a reopen. A binding is `current` while
its router is the registered one, and `owns` the sink while its epoch is the
router's. `Connect` runs the sweep; `Crash` is the end of the process. Recovery
Continues are `clicks` of their own, because several may wait at a gate. A name
of a window is used again only when nothing refers to it. `nudged`, `orphaned`
and `crowded` are history. Whether a row can be rebuilt at all is left open.

### ChatTurn

A turn is named by its window, its session and a slot. `phase` follows
`runOneTurn`: at the spawn gates, writing the prompt, streaming, writing the
error that ended the stream. `inFlight` is keyed by window and session, as in
the code, so that two turns may overwrite one another. A permission card is
`unparked` while it is written to the transcript and `parked` when it is in
`conn.pendingPermissions`; a question is in its registry before it is sent.
`stop` follows `executeInterrupt` and its watchdog. `overlapped` is the history
of sessions that have had two turns at a time.

## Runs

| Run | Instance | Shows |
| --- | --- | --- |
| `turn_queue` | hub and one worker, 4 deliveries | no lost wake-up (`ParkedIsHeld`), the refinement of `SerialTurns`, and that queues drain after a kick and after the last release |
| `attempt_loop` | 1 message, 3 attempts, 2 turns, 2 questions | no message is routed by two attempts, the model is told the truth (with one exception), the count of questions is exact, a held agent is not retried, one that asks is not aborted, and a silence is broken |
| `mutation_gate` | 2 workers, 2 commands, 3 rows, one approval of each | a banner halts its agent and no other, and the gate implements `ApprovalLedger`: what ran spent an approval of that agent and command |
| `router` | hub and 1 or 2 workers, budget 3, 1 operator input | the count is exact, silence is explained, retries are owed and no failure is forgotten, the router implements `BudgetedRun`, the run falls silent |
| `chain_router` | 3 participants, budget 3, 2 operator inputs | silence is explained, and a parked drop is owed |
| `participant_control` | 2 workers, 2 pauses | what the rows say is in force, gates can be lifted, timers belong to their pause, pauses end |
| `session_lifecycle` | 2 windows, 2 sessions, 2 Continues parked | one live session, true rows, the sink of the newest window, one nudge |
| `chat_turn` | 2 windows on one session, 2 turns at a time | Stop finds the turn and the turn ends, held prompts are kept, cards end with their turn, no second turn once one is past the gates |
| `mutation_replay` | 1 worker, 2 approvals | **violated**: Continue replays another prompt |
| `attempt_wedged` | 1 message, 2 attempts, 1 question | **violated**: a dead attempt's question suspends the watchdog |
| `session_two_live` | 2 windows, 3 sessions | **violated**: a second live session |
| `chat_two_turns` | as `chat_turn` | **violated**: two turns of one session |

Deadlock is not checked: a session that has ended, or that waits for the
operator, stops.

Why the bounds are enough. `MaxDeliveries` = 4 gives one delivery running, one
at the head and two behind it, or all of them with one agent; agents do not
interact in `TurnQueue` except through `ended`. Three attempts are a first, a
retry and a retry of the retry, which is where the two ledgers differ; one
message is enough, because the ledgers treat each message by itself; a second
turn is where what the first one left behind shows. Three rows are a halt and
its replay with a call of another agent, or a second call of the same message.
A budget of 3 lets the hub ask, a worker answer and one more message meet the
cap; three participants are a first, a last and one in the middle. `MaxInFlight`
never binds: the routers have at most 1 + (`HopBudget` - 1) + `MaxVerbs`
deliveries in flight (`DeliveriesArePaidFor`, proved for both), and it is there
so that a router without its brake is still finite. Two pauses are a stale timer and a newer pause. Two windows are
one that acts and one that acts meanwhile; two sessions are the one that runs
and the one that ran. `MaxNudges` bounds what only a mutant reaches. With two
turns at a time (`MaxBusy`) one may leave a card behind while the other runs.
Symmetry is used where a run checks safety only.

### Fairness

`TurnQueue`: weak fairness of a pass of the loop (the event loop runs every
callback that is ready) and of `SettleTurn`. `OrchestratorRouter`: the same, of
`StartTurn` and of a turn's end. A turn settles because it ends by itself or
because the stall watchdog closes its stream; a turn parked on a question is
left alone by the watchdog, so these properties assume that the operator
answers. In `OrchestratorRouter` a refusal is not fair: a delivery that waits at
a closed gate when the session ends is never woken, as in the code.
`AttemptLoop`: time passes, a due timer fires, a stream that was closed or aborted ends,
and a back-off ends. `ParticipantControl`: a verb runs to its end (weak), and
the event loop comes round to a due timer even when verbs keep interrupting it
(strong, `Fire`). `ChatTurn`: the watchdog of a Stop fires, an aborted stream
ends, and a transcript write is over within its timeout. Nothing is assumed
anywhere of the operator's verbs or of what the model does.

## Proofs

`tlapm` checks every theorem for all values of the constants, assuming only the
named assumptions of the modules (the hub is an agent; the bounds are naturals;
the recipients are distinct; the budget is positive). Nothing is assumed about
the number of agents, windows or commands. Every safety invariant and every
action property of a passing run is stated by a theorem, and so are the three
refinements. Where a run checks a liveness property, the theorems state what of
it is safety: that what would make it happen stands.

**TurnQueue_proofs.** `IInv` adds to the properties only that every identity in
a queue was issued (`Issued`); without it `Fifo` is not inductive, because a new
delivery must be newer than all that is queued or gone. Two lemmas say what
joining and leaving a queue do, a third that a step that touches no queue keeps
what is said of queues; the rest is a case per action. The refinement maps
`StartTurn` to `Begin`, `Refuse` to `Drop`, `SettleTurn` to `Finish`, everything
else to `Surroundings` or a stutter.

**AttemptLoop_proofs.** `StageInv` says that something only happens in a turn
and that a back-off has an attempt left. `LedgersKnow` says what the two ledgers
know of a message: what they do not name was not routed in this turn, what they
name has the router's last word as its verdict, or none if that was a throw, and
what the prior ledger names was not routed by this attempt. `AsksAreNew`, that a
new question is not in the registry already, is what the exact count needs.
`ToldTheTruth` and `VerdictsStand` follow from the ledgers: whatever the router
would say by then, a later attempt does not ask it again and hears the same, but
for the message at which it threw. `HeldIsLeftAlone` is inductive by itself: a
hold is set by a tap, the attempt of a tap ends with a control signal, and a
control signal is not retried whatever its text.

**MutationGate_proofs.** The interesting dependency: `PendingHaltsAgent` is
inductive only with `OnePending` (Continue lifts an agent's hold when *one*
banner is answered), and `RunsAreApproved` needs both: the tap lets a call of an
already halted agent through without a grant, which is right only because such a
turn is dead. Lemmas say what one write to the rows does to the banners and to
the grants, and counting is by the library's theorems on finite sets. In the
refinement only three kinds of step move the ledger: a Continue is `Approve`, a
tap that spends a grant is `Run`, and Stop, which drops what was not spent, is
`Lapse`; `OneEntryMoves` says that a step on one row moves one
entry of the count, and everything else stutters. `UndisturbedReplay` is the
other half of the finding `ContinueReplaysHalted` below: Continue replays the
halted prompt as long as nothing is queued behind the halted turn. It needs
`ReplayInv`: the captured prompt is the last of the queue or, when the queue is
empty, the one of the turn (`LastIsLast`), and a killed turn is still there to
have one.

**OrchestratorRouter_proofs.** `IInv` is the type invariant, the exact count
(`Counted`: the set of outstanding deliveries is finite and `inFlight` is its
cardinality), `SlotsAreOwed`, `HaltsAreOwed` and `QuietIsExplained`. That a silent run is
explained rests on the count: a running turn is always counted, so after the
last settling nothing can change the row the note was decided on, except the
operator. `SlotsAreOwed` says in both directions that the retry list is right:
only failed agents are on it, and one that failed is on it, runs, is about to,
or has a banner, unless it was kicked; that needs `HaltsAreOwed`, the same of a
turn that was halted and has not ended yet. `OnlyLiveAgentsWoken` is proved from the type
invariant. `DeliveriesArePaidFor` bounds what is in flight, and the refinement
maps each outcome of `Send` to `Message`, each operator verb that is counted to
`Input`, `StartTurn` to `Begin`, a refusal at dequeue to `Drop`, the three ends
of a turn to `Finish` and the rest to `Surroundings`. `TurnsAreSpent` is what
`BudgetBrakes` rests on: the turns a run has left are a natural number that no
step raises and every start lowers; what TLC adds is that under fairness the
turns that are running end.

**ChainRouter_proofs.** The same count, and what the parked drop needs: that it
is owed the end of some turn, or a Continue (`Owed`), that a halted turn has its banner
up or its replay queued behind it (`HaltsAreOwed`), and that a note stands only
in a live run (`NotesAreLive`). The bound, the measure and the refinement of
`BudgetedRun` are as for the orchestrator.

**ParticipantControl_proofs.** The invariant says what each stage of a verb in
progress has done already (`Promised`), that a pause in progress has its number
(`PauseNumbered`), and what memory (`MemoryInv`) and timers
(`TimerInv`) owe to the rows; between two verbs these become the properties.
`PausesEndAsAgreed` adds `ExpiryAgreed`: an expiry that is running is the one
that was chosen for the pause, since its timer was armed for it.
`PausesAreTimed` adds `TimedInv`, which names for each stage of each verb who
still owes the worker its timer; it is what is safe in `PausesEnd`, and what
remains of that is that a due timer fires.

**SessionLifecycle_proofs.** `LiveIsSingle` needs to know where a second session
could come from: at most one window holds a claim, and holds it exactly while
its request is in progress (`Holders`); nothing is live while a start or a
resume is under way (`Quiet`). Rows, bindings and sinks follow (`RowsMatchRegistry`,
`SinkOwned`, `CurrentIsLive`); `OneNudge` says that a flag still set is a nudge
not yet delivered, unless the run is `crowded`. `ClaimsHaveOwners` states the
first part for itself: the one lock of the process is never left behind.

**ChatTurn_proofs.** `Alone` is the invariant behind the rest: in a session that
never had two turns at once at most one is past the gates, and the map has its
slot. `EntriesAreLive`, `PromptsAtHand` and `GatesAskNothing` say what the map,
the captured prompts and the cards owe to the phases. `StopsStand` is what is
safe in `StoppedTurnsEnd`: a Stop is taken back by nobody before the turn is
over.

Proved and not run (each was checked with TLC on the instance of its module's
run before it was proved, and is no question of its own):

| Module | Properties |
| --- | --- |
| `TurnQueue` | `PendingIsQueueLength`, `Fifo`, `NoTurnStartsHeld`, `HoldersIndependent` |
| `AttemptLoop` | `VerdictsStand` |
| `MutationGate` | `OnePending`, `NoGrantForKicked`, `RunsAreApproved`, `UndisturbedReplay` |
| `OrchestratorRouter` | `OnlyLiveAgentsWoken`, `DeliveriesArePaidFor`, `TurnsAreSpent` |
| `ChainRouter` | `DeliveriesArePaidFor`, `TurnsAreSpent`, `ImplementsBudgetedRun` |
| `ParticipantControl` | `KicksAreOnRecord`, `PausesEndAsAgreed`, `PausesAreTimed` |
| `SessionLifecycle` | `ClaimsHaveOwners` |
| `ChatTurn` | `EntriesAreLive`, `StopsStand` |

Only model-checked: the liveness properties (`KickDrains`, `ReleasedDrains`,
`BudgetBrakes`, `PausesEnd`, `SilenceIsBroken`, `StoppedTurnsEnd`), which rest
on fairness and `ENABLED`, out of reach of the prover. No module declares a
RECURSIVE operator or claims anything by induction over data.

## Where the code and its comments part

Four runs are expected to fail; each checks what a comment says.

* `ContinueReplaysHalted`. `deliver` captures the prompt when it *queues* a
  delivery, so a message that waits behind a halted turn becomes what Continue
  replays. The halted prompt is not delivered again.
* `OneLiveSession`. A window that closes releases its claim while its reopen
  still waits for the diff; the reopen goes on, beside a session that another
  window has started. `LiveIsSingle` is the same with that exception.
* `WedgedTurnsEnd`. The watchdog asks for the *count* of the agent's parked
  questions; one that a dead attempt left behind suspends it for the next
  attempt too. `SilenceIsBroken` is the same with that exception.
* `OneTurnPerSession`. The guards on a second turn are asked before the spawn
  gates and a turn is registered after them, so two sends both pass.
  `NoSecondTurnPastTheGates` is what does hold.

### Seen while modelling

Observations of the code that a property makes an exception for, or that no
property is about.

Single-agent turns. A permission card is sent, and its transcript write awaited,
before it is entered in `pendingPermissions`: a decision, a Stop or the end of
the turn that comes between misses it, and an entry of a finished turn is left
(`stray`). The question next to it is parked first, and the comment there says
why. A window that closes between `registerQuery` and `conn.inFlight.set` leaves
a turn that nobody aborts and a session that refuses turns meanwhile. With two
turns of one session the first to end deletes the other's map entry and captured
prompt and rejects its question (`overlapped`).

Attempts. A comment in `runOneTurn` says that a suppressed replay is answered
with the verdict the router gave the first time, "not with delivered". If the
router threw in the middle of a drop, there is no verdict: the model saw its call
fail, and a later attempt that repeats the message is told it was delivered. That
is the exception of `ToldTheTruth` and `VerdictsStand`. An answer to a question
does not reset the idle clock. A back-off is slept out whatever happens to the
agent or the session meanwhile.

Mutation gate. The tap looks for a grant before it asks whether the turn is
dead, so a dead turn's left-over call may spend the approval of an identical
command.

Orchestrator. `turnsInFlight` counts queued deliveries, so one parked behind an
unrelated hold keeps the stranded-run note silent; the last drop is forgotten
when a delivery is queued, not when its turn starts. Opening a gate asks nobody
whether anything is in flight, and if nothing is, no settling follows that would
emit the note (`opened`). An `addWorker` whose trust prompts outlive the run is
registered and acknowledged all the same, and its check for a duplicate precedes
the await.

Chain. A drop is parked for whichever agent's turn succeeds next, and success of
that agent clears the slot, so a chain can come to rest with a note and nothing
to retry; the note says the run cannot go on by itself while another turn may
still be running. A drop whose notification fails is not noted at all, because the
throw passes `noteStall` by; if the message was for the terminator, the last row
awaits no agent and the chain comes to rest without a word. A delivery queued behind a turn starts after the run has
completed. Rows of unknown recipients may take the hops past the budget.

Participant control. Timers survive an end that is reported to `NOOP_SINK`. A
throw between the two writes of an expiring auto-kick leaves a gate the operator
cannot lift (`cut`); an expiry that fails leaves its worker paused with no timer
(`lost`). A rebuilt chain reseeds no pauses.

Sessions. A start is refused on a window whose stale binding names a session
that is over. A reopen whose session ends during the await relabels it as
crashed. A Continue that is parked when its router ends clears the rebuilt
session's flag, and its nudge is swallowed. Two Continues parked at a gate
together both deliver the nudge (`crowded`). Of several parked questions only
the first is shown again after a resume.

## Not modelled

* Web client (`src/web`) and protocol types (`src/shared`): a view of the
  server's messages and their declarations. They are some two thirds of the
  repository and have none of its concurrency, and together with tests and
  forwarding code they are why the map covers a small share of its lines.
* Session rows, notifications, managed files, settings: plain SQL and
  file-system helpers; the rows that matter are variables of the modules that
  read and write them.
* Safety audit: an append is one synchronous transaction; the modules that rely
  on it let it fail. The hash links and the tip file are data.
* Spawn trust gate: its inside. The modules see it answered, refused or
  abandoned.
* Text: prompts, briefings, notices, the fence around a peer's message.
* Of single-agent turns: permission modes and what they allow without a card,
  the help assistant, and the SDK and CLI themselves.
* Of a rebuilt chain: the seeds it starts from.

## What could come next

An abstract specification of the registry and of the control verbs, as there is
one of the queue, the gate and the routers: a session that is live for one owner
at a time, and a restraint that is recorded, in force, or owed. The composition
of a router with `TurnQueue` in place of its counters, so that the parked
delivery of an ended session is one model's matter; the seeds of a rebuilt
chain; and the audit tip against a crash between the append and the write of the
file.
