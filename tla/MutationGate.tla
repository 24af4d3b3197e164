---------------------------- MODULE MutationGate ----------------------------
(***************************************************************************)
(* Pause-on-dangerous: the gate between a worker's dangerous tool calls    *)
(* and the operator (server/src/bus/pause_gate.ts), the mutation tap that  *)
(* feeds it (bus/runner.ts), the rows it keeps                             *)
(* (repo/multi_agent.ts), and the handlers of bus/orchestrator.ts that     *)
(* answer it: Continue, Stop, kick, teardown and the rebuild after a       *)
(* restart.  The session's toggle is on; calls that are not dangerous pass *)
(* the gate unseen and are left out.                                       *)
(*                                                                         *)
(* The tap handles one tool call of an assistant message per step.  The    *)
(* hooks a live turn awaits never leave the microtask queue, so nothing    *)
(* else happens while its message is half tapped.  Once the tap has thrown *)
(* the turn is dead: its stream is closed first, which takes as long as it *)
(* takes, and the calls left over are tapped after that.                   *)
(***************************************************************************)
EXTENDS Naturals, Sequences, FiniteSets

CONSTANTS
  Agents,      \* the workers
  Commands,    \* what a row's tool name and summary tell apart
  MaxPrompts,  \* bound: prompts composed in one behaviour
  MaxRows,     \* bound: mutation rows in one behaviour
  MaxBatch,    \* bound: dangerous calls in one assistant message
  MaxApprovals \* bound: approvals the audit chain records of one call

ASSUME MaxPromptsAssumption == MaxPrompts \in Nat
ASSUME MaxRowsAssumption == MaxRows \in Nat
ASSUME MaxApprovalsAssumption == MaxApprovals \in Nat
ASSUME MaxBatchAssumption == MaxBatch \in Nat \ {0}

VARIABLES
  rows,        \* multi_agent_mutations, by id: [agent, cmd, state]
  audit,       \* audit chain: (agent, cmd) -> Continues recorded
  ended,       \* the session is over
  kicked,      \* kicked agents; kept on the participant rows
  queue,       \* agent -> prompts delivered and not started
  lastPrompt,  \* agent -> the router's captured prompt, 0 when there is none
  held,        \* the agents whose queue the gate holds
  turn,        \* agent -> the prompt of its running turn, 0 when idle
  dead,        \* the agents whose running turn the tap has ended by throwing
  batch,       \* agent -> calls of its current message still to be tapped
  made,        \* prompts composed so far
  passed       \* history: (agent, cmd) -> calls let through to the SDK

stored == <<rows, audit, kicked>>
vars == <<rows, audit, ended, kicked, queue, lastPrompt, held, turn, dead,
          batch, made, passed>>

PauseState == {"none", "pending", "approved", "consumed"}
Row == [agent : Agents, cmd : Commands, state : PauseState]
Call == Agents \X Commands

TypeOK ==
  /\ rows \in Seq(Row)
  /\ audit \in [Call -> Nat]
  /\ ended \in BOOLEAN
  /\ kicked \in SUBSET Agents
  /\ queue \in [Agents -> Seq(Nat)]
  /\ lastPrompt \in [Agents -> Nat]
  /\ held \in SUBSET Agents
  /\ turn \in [Agents -> Nat]
  /\ dead \in SUBSET Agents
  /\ batch \in [Agents -> Seq(Commands)]
  /\ made \in Nat
  /\ passed \in [Call -> Nat]

Init ==
  /\ rows = <<>>
  /\ audit = [c \in Call |-> 0]
  /\ ended = FALSE
  /\ kicked = {}
  /\ queue = [a \in Agents |-> <<>>]
  /\ lastPrompt = [a \in Agents |-> 0]
  /\ held = {}
  /\ turn = [a \in Agents |-> 0]
  /\ dead = {}
  /\ batch = [a \in Agents |-> <<>>]
  /\ made = 0
  /\ passed = [c \in Call |-> 0]

-----------------------------------------------------------------------------
(* The rows. *)

Ids == DOMAIN rows

PendingOf(a) == {i \in Ids : rows[i].agent = a /\ rows[i].state = "pending"}

Grants(a, c) ==
  {i \in Ids : rows[i].agent = a /\ rows[i].cmd = c /\ rows[i].state = "approved"}

\* findUnconsumedApproval: the oldest grant for this exact call.
IsOldestGrant(i, a, c) ==
  i \in Grants(a, c) /\ \A j \in Grants(a, c) : i <= j

\* No live turn is in the middle of a message.
NoTapRunning == \A a \in Agents \ dead : batch[a] = <<>>

-----------------------------------------------------------------------------
(* Turns. *)

\* The router's deliver: capture the prompt, queue it behind the agent's tail.
Enqueue(a, p) ==
  /\ lastPrompt' = [lastPrompt EXCEPT ![a] = p]
  /\ queue' = [queue EXCEPT ![a] = Append(@, p)]

\* A peer's message, the operator's prompt or a retry reaches the agent.
Deliver(a) ==
  /\ NoTapRunning
  /\ ~ended
  /\ a \notin kicked
  /\ made < MaxPrompts
  /\ made' = made + 1
  /\ Enqueue(a, made + 1)
  /\ UNCHANGED <<rows, audit, ended, kicked, held, turn, dead, batch, passed>>

\* What the queue lets through is TurnQueue's subject; here one step.
StartTurn(a) ==
  /\ NoTapRunning
  /\ turn[a] = 0
  /\ queue[a] # <<>>
  /\ ~ended
  /\ a \notin kicked \cup held
  /\ turn' = [turn EXCEPT ![a] = Head(queue[a])]
  /\ queue' = [queue EXCEPT ![a] = Tail(@)]
  /\ UNCHANGED <<rows, audit, ended, kicked, lastPrompt, held, dead, batch,
                 made, passed>>

Refuse(a) ==
  /\ NoTapRunning
  /\ turn[a] = 0
  /\ queue[a] # <<>>
  /\ ended \/ a \in kicked
  /\ queue' = [queue EXCEPT ![a] = Tail(@)]
  /\ UNCHANGED <<rows, audit, ended, kicked, lastPrompt, held, turn, dead,
                 batch, made, passed>>

\* An assistant message with dangerous calls arrives on the turn's stream.
Message(a, calls) ==
  /\ NoTapRunning
  /\ turn[a] # 0
  /\ a \notin dead
  /\ batch' = [batch EXCEPT ![a] = calls]
  /\ UNCHANGED <<rows, audit, ended, kicked, queue, lastPrompt, held, turn,
                 dead, made, passed>>

\* The turn settles: it finished, or the error of its tap reached the router.
EndTurn(a) ==
  /\ turn[a] # 0
  /\ batch[a] = <<>>
  /\ turn' = [turn EXCEPT ![a] = 0]
  /\ dead' = dead \ {a}
  /\ UNCHANGED <<rows, audit, ended, kicked, queue, lastPrompt, held, batch,
                 made, passed>>

-----------------------------------------------------------------------------
(* The tap. *)

\* A throw from the tap ends a live turn; from a dead one it is dropped.
Throw(a) == dead' = dead \cup {a}

\* The SDK dispatches what a live turn's tap returns from.
LetThrough(a, c) ==
  passed' = IF a \in dead THEN passed ELSE [passed EXCEPT ![<<a, c>>] = @ + 1]

\* One call of the message goes through the tap; what it leaves to the rows,
\* to the queue and to the turn is the verdict's.
Tapped(a, c) ==
  /\ batch[a] # <<>>
  /\ c = Head(batch[a])
  /\ a \notin dead => \A b \in Agents \ (dead \cup {a}) : batch[b] = <<>>
  /\ batch' = [batch EXCEPT ![a] = Tail(@)]
  /\ UNCHANGED <<audit, ended, kicked, queue, lastPrompt, turn, made>>

\* appendMultiAgentMutation: the call gets a row of its own.
NewRow(a, c, s) == [agent |-> a, cmd |-> c, state |-> s]

\* The INSERT fails: halt without a row, a banner or a hold.
TapUnrecorded(a, c) ==
  /\ Tapped(a, c)
  /\ Throw(a)
  /\ UNCHANGED <<rows, held, passed>>

\* Mutant: the grant that let the call through is left standing.
TapApprovedKeepsGrant(a, c) ==
  /\ Tapped(a, c)
  /\ Len(rows) < MaxRows
  /\ \E i \in Ids :
       /\ IsOldestGrant(i, a, c)
       /\ rows' = Append(rows, NewRow(a, c, "none"))
  /\ LetThrough(a, c)
  /\ UNCHANGED <<held, dead>>

\* The operator approved this exact call: burn the oldest grant, run the call.
TapApproved(a, c) ==
  /\ Tapped(a, c)
  /\ Len(rows) < MaxRows
  /\ \E i \in Ids :
       /\ IsOldestGrant(i, a, c)
       /\ rows' = Append([rows EXCEPT ![i].state = "consumed"],
                         NewRow(a, c, "none"))
  /\ LetThrough(a, c)
  /\ UNCHANGED <<held, dead>>

\* The write that burns the grant fails, and that error is not swallowed.
TapGrantUnburnt(a, c) ==
  /\ Tapped(a, c)
  /\ Len(rows) < MaxRows
  /\ Grants(a, c) # {}
  /\ rows' = Append(rows, NewRow(a, c, "none"))
  /\ Throw(a)
  /\ UNCHANGED <<held, passed>>

\* The agent is halted already: the call is recorded and nothing else.
TapHalted(a, c) ==
  /\ Tapped(a, c)
  /\ Len(rows) < MaxRows
  /\ Grants(a, c) = {}
  /\ PendingOf(a) # {}
  /\ rows' = Append(rows, NewRow(a, c, "none"))
  /\ LetThrough(a, c)
  /\ UNCHANGED <<held, dead>>

\* Mutant: the turn is killed and the queue behind it is not held.
PauseTurnOnly(a, c, s) ==
  /\ Tapped(a, c)
  /\ Len(rows) < MaxRows
  /\ Grants(a, c) = {}
  /\ PendingOf(a) = {}
  /\ rows' = Append(rows, NewRow(a, c, s))
  /\ Throw(a)
  /\ UNCHANGED <<held, passed>>

\* Halt: hold the queue first, then mark the row, then throw.  The mark may
\* fail; the row then stays "none" and the turn is halted all the same.
TapPause(a, c, s) ==
  /\ Tapped(a, c)
  /\ Len(rows) < MaxRows
  /\ Grants(a, c) = {}
  /\ PendingOf(a) = {}
  /\ held' = held \cup {a}
  /\ rows' = Append(rows, NewRow(a, c, s))
  /\ Throw(a)
  /\ UNCHANGED passed

Tap(a, c) ==
  \/ TapUnrecorded(a, c)
  \/ TapApproved(a, c)
  \/ TapGrantUnburnt(a, c)
  \/ TapHalted(a, c)
  \/ TapPause(a, c, "pending")
  \/ TapPause(a, c, "none")

-----------------------------------------------------------------------------
(* The operator answers. *)

SetState(i, s) == rows' = [rows EXCEPT ![i].state = s]

\* continueThroughMutation on a pending row.
ContinueFor(i) ==
  /\ NoTapRunning
  /\ rows[i].state = "pending"
  /\ UNCHANGED <<ended, kicked, turn, dead, batch, made, passed>>

\* The agent is gone: the row is resolved without a grant.
ContinueKicked(i) ==
  /\ ContinueFor(i)
  /\ rows[i].agent \in kicked
  /\ SetState(i, "consumed")
  /\ held' = held \ {rows[i].agent}
  /\ UNCHANGED <<audit, queue, lastPrompt>>

Record(i) == audit' = [audit EXCEPT ![<<rows[i].agent, rows[i].cmd>>] = @ + 1]

\* The approval is in the audit chain and the grant cannot be written: the
\* banner stays up and the operator may click again.
ContinueUngranted(i) ==
  /\ ContinueFor(i)
  /\ ~ended
  /\ rows[i].agent \notin kicked
  /\ \A c \in Call : audit[c] < MaxApprovals
  /\ Record(i)
  /\ UNCHANGED <<rows, held, queue, lastPrompt>>

\* Audited, granted, released, and the captured prompt delivered again.
Continue(i) ==
  LET a == rows[i].agent IN
  /\ ContinueFor(i)
  /\ ~ended
  /\ a \notin kicked
  /\ \A c \in Call : audit[c] < MaxApprovals
  /\ Record(i)
  /\ SetState(i, "approved")
  /\ held' = held \ {a}
  /\ IF lastPrompt[a] = 0
     THEN UNCHANGED <<queue, lastPrompt>>
     ELSE Enqueue(a, lastPrompt[a])

\* Kick: no turn starts any more, and nothing is held for one.
Kick(a) ==
  /\ NoTapRunning
  /\ a \notin kicked
  /\ kicked' = kicked \cup {a}
  /\ held' = held \ {a}
  /\ UNCHANGED <<rows, audit, ended, queue, lastPrompt, turn, dead, batch,
                 made, passed>>

\* teardown for any reason but the operator's Stop: the budget is spent, the
\* run completed or crashed.  The rows stay as they are.
EndRun ==
  /\ NoTapRunning
  /\ ~ended
  /\ ended' = TRUE
  /\ UNCHANGED <<rows, audit, kicked, queue, lastPrompt, held, turn, dead,
                 batch, made, passed>>

\* Mutant: Stop writes a state no reader of the rows knows.
StopInvents ==
  /\ NoTapRunning
  /\ ~ended
  /\ ended' = TRUE
  /\ rows' = [i \in Ids |->
               IF rows[i].state \in {"pending", "approved"}
               THEN [rows[i] EXCEPT !.state = "cleared"] ELSE rows[i]]
  /\ UNCHANGED <<audit, kicked, queue, lastPrompt, held, turn, dead, batch,
                 made, passed>>

\* Stop: clearPendingMutations drops live pauses and unspent grants, then the
\* router is torn down.
Stop ==
  /\ NoTapRunning
  /\ ~ended
  /\ ended' = TRUE
  /\ rows' = [i \in Ids |->
               IF rows[i].state \in {"pending", "approved"}
               THEN [rows[i] EXCEPT !.state = "none"] ELSE rows[i]]
  /\ UNCHANGED <<audit, kicked, queue, lastPrompt, held, turn, dead, batch,
                 made, passed>>

-----------------------------------------------------------------------------
(* Restart. *)

\* The agents whose hold the rebuild reinstalls from the pending rows.
Reseeded == {a \in Agents : PendingOf(a) # {}}

\* Everything in memory goes with the process (or with the ended run, whose
\* turns have drained); the operator's Resume and the sweep at start-up build
\* the run anew from the rows.
Rebuild ==
  /\ ended => \A a \in Agents : turn[a] = 0
  /\ ended' = FALSE
  /\ queue' = [a \in Agents |-> <<>>]
  /\ lastPrompt' = [a \in Agents |-> 0]
  /\ held' = Reseeded
  /\ turn' = [a \in Agents |-> 0]
  /\ dead' = {}
  /\ batch' = [a \in Agents |-> <<>>]
  /\ UNCHANGED <<stored, made, passed>>

-----------------------------------------------------------------------------
Batches == UNION {[1..n -> Commands] : n \in 1..MaxBatch}

Next ==
  \/ \E a \in Agents :
       \/ Deliver(a)
       \/ StartTurn(a)
       \/ Refuse(a)
       \/ \E calls \in Batches : Message(a, calls)
       \/ \E c \in Commands : Tap(a, c)
       \/ EndTurn(a)
       \/ Kick(a)
  \/ \E i \in Ids : ContinueKicked(i) \/ ContinueUngranted(i) \/ Continue(i)
  \/ EndRun
  \/ Stop
  \/ Rebuild

Spec == Init /\ [][Next]_vars

-----------------------------------------------------------------------------
(* Properties. *)

\* What ran is covered by the audit chain: the calls let through and the
\* grants still standing never outnumber the approvals the chain recorded for
\* that agent and that command, across replays, kicks, restarts and failed
\* writes.
RunsAreApproved ==
  \A a \in Agents, c \in Commands :
    passed[<<a, c>>] + Cardinality(Grants(a, c)) <= audit[<<a, c>>]

\* While a banner is up its agent runs nothing: no live turn stands beside a
\* pending row, and the queue is held unless the agent can start no turn.
PendingHaltsAgent ==
  \A a \in Agents :
    PendingOf(a) # {}
      => /\ turn[a] = 0 \/ a \in dead
         /\ a \in held \cup kicked

\* One banner per agent, however many calls its dead turn left to be tapped.
OnePending ==
  \A a \in Agents : \A i, j \in PendingOf(a) : i = j

\* A kicked agent gets no new grant: kick does not clear its banner, so the
\* approval of it must not be what a rebuilt run honours.
NoGrantForKicked ==
  [][\A i \in Ids :
       rows[i].agent \in kicked /\ rows'[i].state = "approved"
         => rows[i].state = "approved"]_vars

\* What Continue delivers again is the prompt of the halted turn, as long as
\* nothing has been queued behind that turn (lastPrompt of deliver).  The run
\* mutation_replay shows what happens when something has.
UndisturbedReplay ==
  [][\A i \in Ids :
       LET a == rows[i].agent
       IN  rows[i].state = "pending" /\ rows'[i].state = "approved"
           /\ a \in dead /\ queue[a] = <<>>
             => queue'[a] = <<turn[a]>>]_vars

\* The grants that stand, by call.
Standing == [c \in Call |-> Cardinality(Grants(c[1], c[2]))]

\* The gate implements ApprovalLedger: the audit chain holds the approvals, the
\* approved rows are the grants.
Ledger == INSTANCE ApprovalLedger WITH
  approved <- audit, granted <- Standing, ran <- passed

ImplementsApprovalLedger == Ledger!Spec

-----------------------------------------------------------------------------
(* What comments of the code say, and the code does not do. *)

\* Continue re-delivers the prompt of the turn that was halted (pause_gate.ts,
\* orchestrator.ts at lastPrompt), here while that turn is still winding down.
ContinueReplaysHalted ==
  [][\A i \in Ids :
       LET a == rows[i].agent
           Replay == Len(queue[a]) + 1
       IN  rows[i].state = "pending" /\ rows'[i].state = "approved"
           /\ a \in dead /\ Replay \in DOMAIN queue'[a]
             => queue'[a][Replay] = turn[a]]_vars
=============================================================================
