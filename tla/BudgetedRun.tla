----------------------------- MODULE BudgetedRun -----------------------------
(***************************************************************************)
(* What a router promises of a run, with nothing of its messages, rows,    *)
(* slots and banners.  Every turn is paid for: an agent is woken by one    *)
(* message, which is a hop of the budget, or by one input of the operator, *)
(* never at the cap, once the run is over, or when the agent is barred; a  *)
(* turn is begun only for an agent that is neither busy, held nor barred;  *)
(* and neither the end of a run nor a bar is ever taken back.              *)
(***************************************************************************)
EXTENDS Naturals

CONSTANTS
  Agents,
  HopBudget,  \* agent-to-agent messages of one run
  MaxVerbs    \* inputs of the operator

VARIABLES
  waiting,  \* agent -> how many of its deliveries have not been begun
  active,   \* the agents with a turn in progress
  blocked,  \* the agents whose next turn somebody is holding back
  barred,   \* the agents that will never begin a turn again
  hops,     \* messages so far, up to the budget
  verbs,    \* inputs so far
  over      \* the run has ended

vars == <<waiting, active, blocked, barred, hops, verbs, over>>

\* A run starts with one delivery, which no message has paid for.
Init ==
  /\ \E a \in Agents : waiting = [b \in Agents |-> IF b = a THEN 1 ELSE 0]
  /\ active = {}
  /\ blocked = {}
  /\ barred = {}
  /\ hops = 0
  /\ verbs = 0
  /\ over = FALSE

Irrevocable == barred \subseteq barred' /\ (over => over')

Wake(a) ==
  /\ ~over'
  /\ a \notin barred
  /\ hops' < HopBudget
  /\ waiting' = [waiting EXCEPT ![a] = @ + 1]

WakeOneAtMost == UNCHANGED waiting \/ \E a \in Agents : Wake(a)

\* A message of an agent in a turn, whoever it is for.
Message ==
  /\ active # {}
  /\ ~over
  /\ hops' = IF hops < HopBudget THEN hops + 1 ELSE hops
  /\ WakeOneAtMost
  /\ Irrevocable
  /\ UNCHANGED <<active, blocked, verbs>>

\* An input of the operator, which may also lift or lay a hold.
Input ==
  /\ verbs < MaxVerbs
  /\ verbs' = verbs + 1
  /\ WakeOneAtMost
  /\ Irrevocable
  /\ blocked' \in SUBSET Agents
  /\ UNCHANGED <<active, hops>>

\* Holds come and go, bars fall and runs end at any time.
Surroundings ==
  /\ Irrevocable
  /\ blocked' \in SUBSET Agents
  /\ UNCHANGED <<waiting, active, hops, verbs>>

Begin(a) ==
  /\ waiting[a] > 0
  /\ a \notin active \cup blocked \cup barred
  /\ waiting' = [waiting EXCEPT ![a] = @ - 1]
  /\ active' = active \cup {a}
  /\ UNCHANGED <<blocked, barred, hops, verbs, over>>

Drop(a) ==
  /\ waiting[a] > 0
  /\ a \in barred \ active
  /\ waiting' = [waiting EXCEPT ![a] = @ - 1]
  /\ UNCHANGED <<active, blocked, barred, hops, verbs, over>>

Finish(a) ==
  /\ a \in active
  /\ active' = active \ {a}
  /\ UNCHANGED <<waiting, blocked, barred, hops, verbs, over>>

Next ==
  \/ Message
  \/ Input
  \/ Surroundings
  \/ \E a \in Agents : Begin(a) \/ Drop(a) \/ Finish(a)

Spec == Init /\ [][Next]_vars
=============================================================================
