--------------------------- MODULE TurnQueue_proofs ---------------------------
(***************************************************************************)
(* The safety of TurnQueue for any set of agents and any number of         *)
(* deliveries.  IInv is inductive: the queue is described by its counter,  *)
(* by the order and the age of its identities, and by who holds the gate   *)
(* its head waits on; what a single step may do then follows from IInv and *)
(* the step.                                                               *)
(***************************************************************************)
EXTENDS TurnQueue, TLAPS

\* Every identity a queue holds or has let go was given out already.
Issued ==
  \A a \in Agents :
    /\ lastOut[a] <= made
    /\ \A i \in 1..Len(queue[a]) : queue[a][i] <= made

IInv ==
  /\ TypeOK
  /\ ParkedIsHeld
  /\ PendingIsQueueLength
  /\ Fifo
  /\ Issued

\* What IInv says of the queues; the rest of it is about the gates.
QueueInv ==
  /\ queue \in [Agents -> Seq(Nat)]
  /\ pending \in [Agents -> Nat]
  /\ made \in Nat
  /\ lastOut \in [Agents -> Nat]
  /\ PendingIsQueueLength
  /\ Fifo
  /\ Issued

-----------------------------------------------------------------------------
(* The operators the actions are made of. *)

\* A delivery chained behind the tail is the newest of its queue and adds one
\* to the counter.
LEMMA EnqueueInv ==
  ASSUME QueueInv, NEW a \in Agents, Enqueue(a), UNCHANGED lastOut
  PROVE  QueueInv'
<1> USE DEF QueueInv, Enqueue
<1>1. /\ queue' \in [Agents -> Seq(Nat)]
      /\ pending' \in [Agents -> Nat]
      /\ made' \in Nat
      /\ lastOut' \in [Agents -> Nat]
  OBVIOUS
<1>2. PendingIsQueueLength'
  BY DEF PendingIsQueueLength
<1>3. Fifo'
  <2> SUFFICES ASSUME NEW b \in Agents
               PROVE  /\ \A i \in 1..Len(queue'[b]) : lastOut'[b] < queue'[b][i]
                      /\ \A i, j \in 1..Len(queue'[b]) :
                           i < j => queue'[b][i] < queue'[b][j]
    BY DEF Fifo
  <2>1. CASE b # a
    BY <2>1 DEF Fifo
  <2>2. CASE b = a
    <3>1. /\ queue[a] \in Seq(Nat)
          /\ queue'[a] = Append(queue[a], made + 1)
          /\ lastOut'[a] = lastOut[a]
      OBVIOUS
    <3>2. /\ Len(queue'[a]) = Len(queue[a]) + 1
          /\ queue'[a][Len(queue[a]) + 1] = made + 1
          /\ \A i \in 1..Len(queue[a]) : queue'[a][i] = queue[a][i]
      BY <3>1
    <3> HIDE DEF Enqueue
    <3> QED
      BY <2>2, <3>1, <3>2 DEF Fifo, Issued
  <2> QED
    BY <2>1, <2>2
<1>4. Issued'
  BY DEF Issued
<1> QED
  BY <1>1, <1>2, <1>3, <1>4

\* The delivery that leaves is the oldest, and the counter follows.
LEMMA LeaveQueueInv ==
  ASSUME QueueInv, NEW a \in Agents, queue[a] # <<>>, LeaveQueue(a), UNCHANGED made
  PROVE  QueueInv'
<1> USE DEF QueueInv, LeaveQueue
<1>1. /\ queue[a] \in Seq(Nat)
      /\ Len(queue[a]) \in Nat \ {0}
      /\ Len(Tail(queue[a])) = Len(queue[a]) - 1
      /\ \A i \in 1..Len(Tail(queue[a])) : Tail(queue[a])[i] = queue[a][i + 1]
      /\ Head(queue[a]) = queue[a][1]
      /\ Head(queue[a]) \in Nat
  OBVIOUS
<1>2. /\ queue' \in [Agents -> Seq(Nat)]
      /\ pending' \in [Agents -> Nat]
      /\ made' \in Nat
      /\ lastOut' \in [Agents -> Nat]
  BY <1>1 DEF CountDown
<1>3. PendingIsQueueLength'
  BY <1>1 DEF PendingIsQueueLength, CountDown
<1>4. Fifo'
  <2> SUFFICES ASSUME NEW b \in Agents
               PROVE  /\ \A i \in 1..Len(queue'[b]) : lastOut'[b] < queue'[b][i]
                      /\ \A i, j \in 1..Len(queue'[b]) :
                           i < j => queue'[b][i] < queue'[b][j]
    BY DEF Fifo
  <2>1. CASE b # a
    BY <2>1 DEF Fifo
  <2>2. CASE b = a
    <3>1. queue'[a] = Tail(queue[a]) /\ lastOut'[a] = queue[a][1]
      BY <1>1
    <3>2. /\ Len(queue'[a]) = Len(queue[a]) - 1
          /\ \A i \in 1..Len(queue'[a]) : queue'[a][i] = queue[a][i + 1]
      BY <1>1, <3>1
    <3>3. /\ Len(queue[a]) \in Nat \ {0}
          /\ \A i, j \in 1..Len(queue[a]) : i < j => queue[a][i] < queue[a][j]
      BY <1>1 DEF Fifo
    <3>4. \A i \in 1..Len(queue'[a]) : i + 1 \in 1..Len(queue[a])
      BY <3>2, <3>3
    <3> HIDE DEF LeaveQueue, QueueInv
    <3>5. \A i, j \in 1..Len(queue'[a]) : i < j => queue'[a][i] < queue'[a][j]
      BY <3>2, <3>3, <3>4
    <3>6. \A i \in 1..Len(queue'[a]) : lastOut'[a] < queue'[a][i]
      BY <3>1, <3>2, <3>3, <3>4
    <3> QED
      BY <2>2, <3>5, <3>6
  <2> QED
    BY <2>1, <2>2
<1>5. Issued'
  BY <1>1 DEF Issued
<1> QED
  BY <1>2, <1>3, <1>4, <1>5

\* A step that touches no queue keeps what is said of the queues.
LEMMA QueueInvStable ==
  ASSUME QueueInv, UNCHANGED <<queue, pending, made, lastOut>>
  PROVE  QueueInv'
BY DEF QueueInv, PendingIsQueueLength, Fifo, Issued

\* The part of IInv that is about gates and control state.
GateInv ==
  /\ stage \in [Agents -> Stage]
  /\ holders \in [Agents -> SUBSET Holder]
  /\ kicked \in SUBSET Workers
  /\ ended \in BOOLEAN
  /\ ParkedIsHeld

LEMMA Split == IInv <=> QueueInv /\ GateInv
BY DEF IInv, TypeOK, QueueInv, GateInv

LEMMA SplitNext == IInv' <=> QueueInv' /\ GateInv'
BY DEF IInv, TypeOK, QueueInv, GateInv

\* Opening a gate, for one holder or for all, parks nobody on an open gate.
LEMMA ReleaseHoldGate ==
  ASSUME GateInv, NEW a \in Agents, NEW h \in Holder, ReleaseHold(a, h),
         UNCHANGED <<kicked, ended>>
  PROVE  GateInv'
BY DEF GateInv, ParkedIsHeld, ReleaseHold, Wake, Stage, Holder

LEMMA AcquireHoldGate ==
  ASSUME GateInv, NEW a \in Agents, NEW h \in Holder, AcquireHold(a, h),
         UNCHANGED <<stage, kicked, ended>>
  PROVE  GateInv'
BY DEF GateInv, ParkedIsHeld, AcquireHold, Stage, Holder

LEMMA KickGate ==
  ASSUME GateInv, NEW a \in Workers, Kick(a)
  PROVE  GateInv'
BY DEF GateInv, ParkedIsHeld, Kick, ReleaseAllHolds, Wake, Stage, Holder, Workers

-----------------------------------------------------------------------------
LEMMA InitInv == Init => IInv
<1> SUFFICES ASSUME Init
             PROVE  IInv
  OBVIOUS
<1> USE DEF Init
<1>1. TypeOK
  <2>1. holders \in [Agents -> SUBSET Holder]
    BY DEF Holder
  <2>2. queue \in [Agents -> Seq(Nat)]
    OBVIOUS
  <2>3. /\ stage \in [Agents -> Stage]
        /\ pending \in [Agents -> Nat]
        /\ lastOut \in [Agents -> Nat]
    BY DEF Stage
  <2> QED
    BY <2>1, <2>2, <2>3 DEF TypeOK
<1>2. ParkedIsHeld
  BY DEF ParkedIsHeld
<1>3. \A a \in Agents : Len(queue[a]) = 0
  OBVIOUS
<1>4. PendingIsQueueLength /\ Fifo /\ Issued
  BY <1>3 DEF PendingIsQueueLength, Fifo, Issued
<1> QED
  BY <1>1, <1>2, <1>4 DEF IInv

LEMMA NextInv == IInv /\ [Next]_vars => IInv'
<1> SUFFICES ASSUME QueueInv, GateInv, [Next]_vars
             PROVE  QueueInv' /\ GateInv'
  BY Split, SplitNext
<1>1. ASSUME NEW a \in Agents, Deliver(a) PROVE QueueInv' /\ GateInv'
  <2>1. QueueInv'
    BY <1>1, EnqueueInv DEF Deliver
  <2>2. GateInv'
    BY <1>1 DEF GateInv, ParkedIsHeld, Deliver
  <2> QED BY <2>1, <2>2
<1>2. ASSUME NEW a \in Agents, Continue(a) PROVE QueueInv' /\ GateInv'
  <2>1. QueueInv'
    BY <1>2, EnqueueInv DEF Continue
  <2>2. GateInv'
    BY <1>2, ReleaseHoldGate DEF Continue, Holder
  <2> QED BY <2>1, <2>2
<1>3. ASSUME NEW a \in Agents, ContinueWithoutReplay(a) PROVE QueueInv' /\ GateInv'
  BY <1>3, QueueInvStable, ReleaseHoldGate DEF ContinueWithoutReplay, Holder
<1>4. ASSUME NEW a \in Agents, Refuse(a) PROVE QueueInv' /\ GateInv'
  <2>1. QueueInv'
    BY <1>4, LeaveQueueInv DEF Refuse, AtHead
  <2>2. GateInv'
    BY <1>4 DEF GateInv, ParkedIsHeld, Refuse, Stage
  <2> QED BY <2>1, <2>2
<1>5. ASSUME NEW a \in Agents, Park(a) PROVE QueueInv' /\ GateInv'
  <2>1. QueueInv'
    BY <1>5, QueueInvStable DEF Park
  <2>2. GateInv'
    BY <1>5 DEF GateInv, ParkedIsHeld, Park, CanStartTurn, Stage
  <2> QED BY <2>1, <2>2
<1>6. ASSUME NEW a \in Agents, StartTurn(a) PROVE QueueInv' /\ GateInv'
  <2>1. QueueInv'
    BY <1>6, LeaveQueueInv DEF StartTurn, AtHead
  <2>2. GateInv'
    BY <1>6 DEF GateInv, ParkedIsHeld, StartTurn, Stage
  <2> QED BY <2>1, <2>2
<1>7. ASSUME NEW a \in Agents, HoldForMutation(a) PROVE QueueInv' /\ GateInv'
  BY <1>7, QueueInvStable, AcquireHoldGate DEF HoldForMutation, Holder
<1>8. ASSUME NEW a \in Agents, SettleTurn(a) PROVE QueueInv' /\ GateInv'
  <2>1. QueueInv'
    BY <1>8, QueueInvStable DEF SettleTurn
  <2>2. GateInv'
    BY <1>8 DEF GateInv, ParkedIsHeld, SettleTurn, Stage
  <2> QED BY <2>1, <2>2
<1>9. ASSUME NEW a \in Workers, Operator(a) PROVE QueueInv' /\ GateInv'
  <2> a \in Agents
    BY DEF Workers
  <2>1. CASE Pause(a)
    BY <2>1, QueueInvStable, AcquireHoldGate DEF Pause, Holder
  <2>2. CASE Resume(a)
    BY <2>2, QueueInvStable, ReleaseHoldGate DEF Resume, Holder
  <2>3. CASE Kick(a)
    BY <2>3, QueueInvStable, KickGate DEF Kick
  <2> QED
    BY <1>9, <2>1, <2>2, <2>3 DEF Operator
<1>10. ASSUME EndSession PROVE QueueInv' /\ GateInv'
  <2>1. QueueInv'
    BY <1>10, QueueInvStable DEF EndSession
  <2>2. GateInv'
    BY <1>10 DEF GateInv, ParkedIsHeld, EndSession
  <2> QED BY <2>1, <2>2
<1>11. ASSUME UNCHANGED vars PROVE QueueInv' /\ GateInv'
  BY <1>11, QueueInvStable DEF vars, GateInv, ParkedIsHeld
<1> QED
  BY <1>1, <1>2, <1>3, <1>4, <1>5, <1>6, <1>7, <1>8, <1>9, <1>10, <1>11
     DEF Next, Pass

\* The invariant everything below rests on holds in every reachable state.
THEOREM Invariance == Spec => []IInv
BY InitInv, NextInv, PTL DEF Spec

\* The state of the runner's queues keeps its type for every instance.
THEOREM Typing == Spec => []TypeOK
<1>1. IInv => TypeOK
  BY DEF IInv
<1> QED
  BY <1>1, Invariance, PTL

\* Nothing waits on a gate nobody holds (deliverTurn, releaseHold,
\* releaseAllHolds): no wake-up is lost, for any number of agents.
THEOREM NoLostWakeup == Spec => []ParkedIsHeld
<1>1. IInv => ParkedIsHeld
  BY DEF IInv
<1> QED
  BY <1>1, Invariance, PTL

\* The queuedDeliveries figure is exact in every reachable state.
THEOREM CounterIsExact == Spec => []PendingIsQueueLength
<1>1. IInv => PendingIsQueueLength
  BY DEF IInv
<1> QED
  BY <1>1, Invariance, PTL

\* Deliveries leave an agent's queue in the order they entered it.
THEOREM NothingOvertakes == Spec => []Fifo
<1>1. IInv => Fifo
  BY DEF IInv
<1> QED
  BY <1>1, Invariance, PTL

-----------------------------------------------------------------------------
(* What a step may never do. *)

\* Whatever waited, for however long, only a turn nothing stands against starts.
THEOREM OnlyFreeTurnsStart == Spec => NoTurnStartsHeld
<1>1. ASSUME TypeOK, [Next]_vars
      PROVE  [\A a \in Agents :
                stage[a] # "running" /\ stage'[a] = "running"
                  => holders[a] = {} /\ a \notin kicked /\ ~ended]_vars
  <2> SUFFICES ASSUME Next, NEW b \in Agents,
                      stage[b] # "running", stage'[b] = "running"
               PROVE  holders[b] = {} /\ b \notin kicked /\ ~ended
    BY <1>1
  <2> USE <1>1 DEF TypeOK, Stage
  <2>1. ASSUME NEW a \in Agents, Deliver(a) \/ Continue(a) \/ ContinueWithoutReplay(a)
        PROVE  FALSE
    BY <2>1 DEF Deliver, Continue, ContinueWithoutReplay, ReleaseHold, Wake
  <2>2. ASSUME NEW a \in Agents, Refuse(a) \/ Park(a) \/ HoldForMutation(a) \/ SettleTurn(a)
        PROVE  FALSE
    BY <2>2 DEF Refuse, Park, HoldForMutation, SettleTurn
  <2>3. ASSUME NEW a \in Agents, StartTurn(a)
        PROVE  holders[b] = {} /\ b \notin kicked /\ ~ended
    <3>1. a = b
      BY <2>3 DEF StartTurn
    <3> QED
      BY <2>3, <3>1 DEF StartTurn, CanStartTurn
  <2>4. ASSUME NEW a \in Workers, Operator(a)
        PROVE  FALSE
    BY <2>4 DEF Operator, Pause, Resume, Kick, ReleaseHold, ReleaseAllHolds, Wake, Workers
  <2>5. ~EndSession
    BY DEF EndSession
  <2> QED
    BY <2>1, <2>2, <2>3, <2>4, <2>5 DEF Next, Pass
<1>2. IInv => TypeOK
  BY DEF IInv
<1> QED
  BY <1>1, <1>2, Invariance, PTL DEF Spec, NoTurnStartsHeld

\* Each verb takes back its own claim on a gate and nobody else's.
THEOREM EachVerbItsOwnHold == Spec => HoldersIndependent
<1> DEFINE Own(a) ==
      /\ "mutation" \in holders[a] \ holders'[a]
           => /\ NothingCaptured(a) \/ Len(queue'[a]) = Len(queue[a]) + 1
              /\ holders'[a] = holders[a] \ {"mutation"}
      /\ "operator" \in holders[a] \ holders'[a]
           => /\ queue'[a] = queue[a]
              /\ holders'[a] = holders[a] \ {"operator"}
<1>1. ASSUME TypeOK, [Next]_vars
      PROVE  [\A a \in Agents \ kicked' : Own(a)]_vars
  <2> SUFFICES ASSUME Next, NEW b \in Agents, b \notin kicked'
               PROVE  Own(b)
    BY <1>1
  <2> USE <1>1 DEF TypeOK
  <2>1. ASSUME UNCHANGED holders
        PROVE  Own(b)
    BY <2>1
  <2>2. ASSUME NEW a \in Agents, Continue(a)
        PROVE  Own(b)
    <3>1. holders'[b] = IF b = a THEN holders[b] \ {"mutation"} ELSE holders[b]
      BY <2>2 DEF Continue, ReleaseHold
    <3>2. queue'[a] = Append(queue[a], made + 1)
      BY <2>2 DEF Continue, Enqueue
    <3>3. Len(queue'[a]) = Len(queue[a]) + 1
      BY <3>2
    <3> QED
      BY <3>1, <3>3
  <2>3. ASSUME NEW a \in Agents, ContinueWithoutReplay(a)
        PROVE  Own(b)
    BY <2>3 DEF ContinueWithoutReplay, ReleaseHold
  <2>4. ASSUME NEW a \in Agents, HoldForMutation(a)
        PROVE  Own(b)
    BY <2>4 DEF HoldForMutation, AcquireHold
  <2>5. ASSUME NEW a \in Workers, Operator(a)
        PROVE  Own(b)
    <3> a \in Agents
      BY DEF Workers
    <3>1. CASE Pause(a)
      BY <3>1 DEF Pause, AcquireHold
    <3>2. CASE Resume(a)
      BY <3>2 DEF Resume, ReleaseHold
    <3>3. CASE Kick(a)
      BY <3>3 DEF Kick, ReleaseAllHolds
    <3> QED
      BY <2>5, <3>1, <3>2, <3>3 DEF Operator
  <2> QED
    BY <2>1, <2>2, <2>3, <2>4, <2>5
       DEF Next, Pass, Deliver, Refuse, Park, StartTurn, SettleTurn, EndSession
<1>2. IInv => TypeOK
  BY DEF IInv
<1> QED
  BY <1>1, <1>2, Invariance, PTL DEF Spec, HoldersIndependent

-----------------------------------------------------------------------------
(* The runner keeps the promise of SerialTurns. *)

LEMMA InitRefines == Init => Promise!Init
BY DEF Init, Promise!Init

\* Each action of the runner is one action of the promise: leaving the queue is
\* Drop or Begin, settling is Finish, and whatever touches gates, control state
\* and new deliveries is a step of the surroundings.
LEMMA NextRefines == TypeOK /\ TypeOK' /\ [Next]_vars => [Promise!Next]_(Promise!vars)
<1> DEFINE Active == {a \in Agents : stage[a] = "running"}
           Blocked == {a \in Agents : holders[a] # {}}
           Barred == IF ended THEN Agents ELSE kicked
<1> SUFFICES ASSUME TypeOK, TypeOK', [Next]_vars
             PROVE  Promise!Next \/ UNCHANGED <<queue, Active, Blocked, Barred>>
  BY DEF Promise!vars
<1> USE DEF TypeOK
<1>0. /\ Blocked' \in SUBSET Agents
      /\ Barred \in SUBSET Agents
      /\ Barred' \in SUBSET Agents
  BY DEF Workers
<1>1. ASSUME UNCHANGED Active, Barred \subseteq Barred',
             \/ UNCHANGED queue
             \/ \E a \in Agents : Enqueue(a)
      PROVE  Promise!Next
  <2>1. \/ UNCHANGED queue
        \/ \E a \in Agents, d \in 1..MaxDeliveries :
             queue' = [queue EXCEPT ![a] = Append(@, d)]
    <3>1. ASSUME NEW a \in Agents, Enqueue(a)
          PROVE  made + 1 \in 1..MaxDeliveries /\ queue' = [queue EXCEPT ![a] = Append(@, made + 1)]
      BY <3>1, MaxDeliveriesAssumption DEF Enqueue
    <3> QED
      BY <1>1, <3>1
  <2> QED
    BY <1>0, <1>1, <2>1 DEF Promise!Next, Promise!Surroundings
<1>2. ASSUME NEW a \in Agents, Deliver(a) \/ Continue(a)
      PROVE  Promise!Next
  <2>1. UNCHANGED Active
    BY <1>2 DEF Deliver, Continue, ReleaseHold, Wake
  <2>2. UNCHANGED Barred /\ Enqueue(a)
    BY <1>2 DEF Deliver, Continue
  <2> QED
    BY <1>1, <2>1, <2>2
<1>3. ASSUME NEW a \in Agents, ContinueWithoutReplay(a) \/ Park(a) \/ HoldForMutation(a)
      PROVE  Promise!Next
  <2>1. UNCHANGED Active
    BY <1>3 DEF ContinueWithoutReplay, Park, HoldForMutation, AtHead, ReleaseHold, Wake
  <2>2. UNCHANGED <<queue, Barred>>
    BY <1>3 DEF ContinueWithoutReplay, Park, HoldForMutation
  <2> QED
    BY <1>1, <2>1, <2>2
<1>4. ASSUME NEW a \in Workers, Operator(a)
      PROVE  Promise!Next
  <2>1. UNCHANGED Active
    BY <1>4 DEF Operator, Pause, Resume, Kick, ReleaseHold, ReleaseAllHolds, Wake
  <2>2. UNCHANGED queue /\ Barred \subseteq Barred'
    BY <1>4 DEF Operator, Pause, Resume, Kick
  <2> QED
    BY <1>1, <2>1, <2>2
<1>5. ASSUME EndSession
      PROVE  Promise!Next
  <2>1. UNCHANGED <<queue, Active>> /\ Barred \subseteq Barred'
    BY <1>5 DEF EndSession, Workers
  <2> QED
    BY <1>1, <2>1
<1>6. ASSUME NEW a \in Agents, Refuse(a)
      PROVE  Promise!Next
  <2>1. a \in Barred \ Active
    BY <1>6 DEF Refuse, AtHead, CanStartTurn
  <2>2. UNCHANGED <<Active, Blocked, Barred>>
    BY <1>6 DEF Refuse, AtHead
  <2>3. queue[a] # <<>> /\ queue' = [queue EXCEPT ![a] = Tail(@)]
    BY <1>6 DEF Refuse, AtHead, LeaveQueue
  <2> QED
    BY <2>1, <2>2, <2>3 DEF Promise!Next, Promise!Drop
<1>7. ASSUME NEW a \in Agents, StartTurn(a)
      PROVE  Promise!Next
  <2>1. a \notin Active \cup Blocked \cup Barred
    BY <1>7 DEF StartTurn, AtHead, CanStartTurn
  <2>2. Active' = Active \cup {a} /\ UNCHANGED <<Blocked, Barred>>
    BY <1>7 DEF StartTurn
  <2>3. queue[a] # <<>> /\ queue' = [queue EXCEPT ![a] = Tail(@)]
    BY <1>7 DEF StartTurn, AtHead, LeaveQueue
  <2> QED
    BY <2>1, <2>2, <2>3 DEF Promise!Next, Promise!Begin
<1>8. ASSUME NEW a \in Agents, SettleTurn(a)
      PROVE  Promise!Next
  <2>1. a \in Active /\ Active' = Active \ {a}
    BY <1>8 DEF SettleTurn
  <2>2. UNCHANGED <<queue, Blocked, Barred>>
    BY <1>8 DEF SettleTurn
  <2> QED
    BY <2>1, <2>2 DEF Promise!Next, Promise!Finish
<1>9. ASSUME UNCHANGED vars
      PROVE  UNCHANGED <<queue, Active, Blocked, Barred>>
  BY <1>9 DEF vars
<1> QED
  BY <1>2, <1>3, <1>4, <1>5, <1>6, <1>7, <1>8, <1>9 DEF Next, Pass

\* For any set of agents the queue, the gates, the refusals and the kicks of the
\* runner together keep to SerialTurns: one turn at a time per agent, in order,
\* none for a blocked or barred agent, and no delivery lost otherwise.
THEOREM Refinement == Spec => ImplementsSerialTurns
<1>1. IInv => TypeOK
  BY DEF IInv
<1>2. Spec => []TypeOK
  BY <1>1, Invariance, PTL
<1> QED
  BY <1>2, InitRefines, NextRefines, PTL DEF Spec, ImplementsSerialTurns, Promise!Spec
=============================================================================
