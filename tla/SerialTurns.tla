----------------------------- MODULE SerialTurns -----------------------------
(***************************************************************************)
(* What the bus promises about the turns of its agents, with nothing of    *)
(* how the runner keeps the promise: deliveries to one agent are started   *)
(* one at a time, in the order they were submitted, never while the agent  *)
(* is blocked and never once it is barred; a delivery leaves without being *)
(* started only when its agent is barred, and a bar is never lifted.       *)
(***************************************************************************)
EXTENDS Sequences

CONSTANTS
  Agents,
  Deliveries  \* the deliveries anybody may submit

VARIABLES
  waiting,  \* agent -> the deliveries submitted and not started, oldest first
  active,   \* the agents with a turn in progress
  blocked,  \* the agents whose next turn somebody is holding back
  barred    \* the agents that will never start a turn again

vars == <<waiting, active, blocked, barred>>

Init ==
  /\ waiting = [a \in Agents |-> <<>>]
  /\ active = {}
  /\ blocked \in SUBSET Agents
  /\ barred = {}

\* A delivery may arrive, holds come and go, a bar may fall: one step of the
\* surroundings, which takes no turn and removes nothing from a queue.
Surroundings ==
  /\ \/ UNCHANGED waiting
     \/ \E a \in Agents, d \in Deliveries :
          waiting' = [waiting EXCEPT ![a] = Append(@, d)]
  /\ blocked' \in SUBSET Agents
  /\ barred' \in SUBSET Agents
  /\ barred \subseteq barred'
  /\ UNCHANGED active

Begin(a) ==
  /\ waiting[a] # <<>>
  /\ a \notin active \cup blocked \cup barred
  /\ waiting' = [waiting EXCEPT ![a] = Tail(@)]
  /\ active' = active \cup {a}
  /\ UNCHANGED <<blocked, barred>>

Drop(a) ==
  /\ waiting[a] # <<>>
  /\ a \in barred \ active
  /\ waiting' = [waiting EXCEPT ![a] = Tail(@)]
  /\ UNCHANGED <<active, blocked, barred>>

Finish(a) ==
  /\ a \in active
  /\ active' = active \ {a}
  /\ UNCHANGED <<waiting, blocked, barred>>

Next ==
  \/ Surroundings
  \/ \E a \in Agents : Begin(a) \/ Drop(a) \/ Finish(a)

Spec == Init /\ [][Next]_vars
=============================================================================
