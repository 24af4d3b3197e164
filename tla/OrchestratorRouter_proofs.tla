----------------------- MODULE OrchestratorRouter_proofs -----------------------
(***************************************************************************)
(* The safety of OrchestratorRouter for any set of workers, any hop budget *)
(* and any number of operator inputs.  That a quiet run is explained       *)
(* depends on the count of deliveries in flight being exact: only because  *)
(* a running turn is always counted does nothing change the last row of a  *)
(* run after its last turn has settled.                                    *)
(***************************************************************************)
EXTENDS OrchestratorRouter, FiniteSetTheorems, TLAPS

Counted == IsFiniteSet(Outstanding) /\ InFlightIsExact

\* What follows on a turn that the pause gate has halted: its replay is queued,
\* the operator may still ask for one, or its agent is out.
HaltsAreOwed == ~ended => \A a \in dead : Pending(a)

IInv ==
  /\ TypeOK
  /\ Counted
  /\ SlotsAreOwed
  /\ HaltsAreOwed
  /\ QuietIsExplained

-----------------------------------------------------------------------------
(* The operators the actions are made of. *)

USE DEF Agents, Recipients

\* What is outstanding, told by membership.
LEMMA OutstandingIs ==
  ASSUME NEW d
  PROVE  d \in Outstanding <=> \/ \E a \in Agents : \E i \in 1..queue[a] : d = <<a, i>>
                               \/ \E a \in running : d = <<a, 0>>
BY DEF Outstanding

LEMMA OutstandingNext ==
  ASSUME NEW d
  PROVE  d \in Outstanding' <=> \/ \E a \in Agents : \E i \in 1..queue'[a] : d = <<a, i>>
                                \/ \E a \in running' : d = <<a, 0>>
BY DEF Outstanding

\* One delivery more in an agent's queue is one more outstanding.
LEMMA DeliveryCounted ==
  ASSUME TypeOK, Counted, NEW a \in Agents,
         queue' = [queue EXCEPT ![a] = @ + 1],
         running' = running, inFlight' = inFlight + 1
  PROVE  Counted'
<1>1. queue \in [Agents -> Nat] /\ running \subseteq Agents
  BY DEF TypeOK
<1> DEFINE d == <<a, queue[a] + 1>>
<1>2. /\ d \notin Outstanding
      /\ Outstanding' = Outstanding \cup {d}
  <2>1. d \notin Outstanding
    BY <1>1, OutstandingIs
  <2>2. \A e : e \in Outstanding' <=> e \in Outstanding \cup {d}
    BY <1>1, OutstandingIs, OutstandingNext
  <2> QED
    BY <2>1, <2>2
<1> HIDE DEF d
<1>3. /\ IsFiniteSet(Outstanding \cup {d})
      /\ Cardinality(Outstanding \cup {d}) = Cardinality(Outstanding) + 1
  BY <1>2, FS_AddElement DEF Counted
<1> QED
  BY <1>2, <1>3 DEF Counted, InFlightIsExact

\* A delivery that leaves, refused in the queue or with its turn over, is one
\* less; the counter is not at zero when it does.
LEMMA LeavingCounted ==
  ASSUME TypeOK, Counted, NEW d \in Outstanding, Outstanding' = Outstanding \ {d},
         inFlight' = IF inFlight > 0 THEN inFlight - 1 ELSE 0
  PROVE  Counted'
<1>1. /\ IsFiniteSet(Outstanding \ {d})
      /\ Cardinality(Outstanding \ {d}) = Cardinality(Outstanding) - 1
  BY FS_RemoveElement DEF Counted
<1>2. Cardinality(Outstanding) \in Nat /\ Cardinality(Outstanding) # 0
  BY FS_CardinalityType, FS_EmptySet DEF Counted
<1> QED
  BY <1>1, <1>2 DEF Counted, InFlightIsExact

LEMMA RefusalCounted ==
  ASSUME TypeOK, Counted, NEW a \in Agents, queue[a] > 0,
         queue' = [queue EXCEPT ![a] = @ - 1], running' = running,
         inFlight' = IF inFlight > 0 THEN inFlight - 1 ELSE 0
  PROVE  Counted'
<1>1. queue \in [Agents -> Nat] /\ running \subseteq Agents
  BY DEF TypeOK
<1>2. PICK d : d = <<a, queue[a]>>
  OBVIOUS
<1>3. d \in Outstanding
  BY <1>1, <1>2, OutstandingIs
<1>4. \A e : e \in Outstanding' <=> e \in Outstanding \ {d}
  BY <1>1, <1>2, OutstandingIs, OutstandingNext
<1>5. Outstanding' = Outstanding \ {d}
  BY <1>4
<1> QED
  BY <1>3, <1>5, LeavingCounted

LEMMA TurnOverCounted ==
  ASSUME TypeOK, Counted, NEW a \in running, queue' = queue, running' = running \ {a},
         inFlight' = IF inFlight > 0 THEN inFlight - 1 ELSE 0
  PROVE  Counted'
<1>1. queue \in [Agents -> Nat] /\ running \subseteq Agents
  BY DEF TypeOK
<1>2. PICK d : d = <<a, 0>>
  OBVIOUS
<1>3. d \in Outstanding
  BY <1>1, <1>2, OutstandingIs
<1>4. \A e : e \in Outstanding' <=> e \in Outstanding \ {d}
  BY <1>1, <1>2, OutstandingIs, OutstandingNext
<1>5. Outstanding' = Outstanding \ {d}
  BY <1>4
<1> QED
  BY <1>3, <1>5, LeavingCounted

\* A delivery that becomes a turn stays outstanding under another number.
LEMMA StartCounted ==
  ASSUME TypeOK, Counted, NEW a \in Agents, StartTurn(a)
  PROVE  Counted'
<1> USE DEF StartTurn
<1>1. queue \in [Agents -> Nat] /\ running \subseteq Agents
  BY DEF TypeOK
<1>2. PICK d, r : d = <<a, queue[a]>> /\ r = <<a, 0>>
  OBVIOUS
<1>3. d \in Outstanding /\ r \notin Outstanding
  BY <1>1, <1>2, OutstandingIs
<1>4. \A e : e \in Outstanding' <=> e \in (Outstanding \ {d}) \cup {r}
  BY <1>1, <1>2, OutstandingIs, OutstandingNext
<1>5. Outstanding' = (Outstanding \ {d}) \cup {r}
  BY <1>4
<1>6. /\ IsFiniteSet(Outstanding \ {d})
      /\ Cardinality(Outstanding \ {d}) = Cardinality(Outstanding) - 1
  BY <1>3, FS_RemoveElement DEF Counted
<1>7. /\ IsFiniteSet((Outstanding \ {d}) \cup {r})
      /\ Cardinality((Outstanding \ {d}) \cup {r}) = Cardinality(Outstanding \ {d}) + 1
  BY <1>3, <1>6, FS_AddElement
<1>8. Cardinality(Outstanding) \in Nat
  BY FS_CardinalityType DEF Counted
<1> QED
  BY <1>5, <1>6, <1>7, <1>8 DEF Counted, InFlightIsExact

\* A step that starts, queues and settles nothing.
LEMMA StableCounted ==
  ASSUME Counted, UNCHANGED <<queue, running, inFlight>>
  PROVE  Counted'
BY DEF Counted, InFlightIsExact, Outstanding

\* While a turn runs or is queued the run is not quiet.
LEMMA BusyCounted ==
  ASSUME TypeOK, Counted, NEW a \in Agents, a \in running \/ queue[a] > 0
  PROVE  inFlight > 0
<1>1. queue \in [Agents -> Nat]
  BY DEF TypeOK
<1>2. CASE a \in running
  <2>1. PICK d : d = <<a, 0>>
    OBVIOUS
  <2>2. d \in Outstanding
    BY <1>2, <2>1, OutstandingIs
  <2> QED
    BY <2>2, FS_CardinalityType, FS_EmptySet DEF Counted, InFlightIsExact
<1>3. CASE queue[a] > 0
  <2>1. PICK d : d = <<a, queue[a]>>
    OBVIOUS
  <2>2. d \in Outstanding
    BY <1>1, <1>3, <2>1, OutstandingIs
  <2> QED
    BY <2>2, FS_CardinalityType, FS_EmptySet DEF Counted, InFlightIsExact
<1> QED
  BY <1>2, <1>3
-----------------------------------------------------------------------------
(* What the parts of the handlers do. *)

\* The variables a delivery, a stop at the cap or a drop may change.
FlowTypeOK ==
  /\ ended \in BOOLEAN
  /\ tail \in Recipients
  /\ inFlight \in Nat
  /\ queue \in [Agents -> Nat]
  /\ opened \in BOOLEAN

\* Waking an agent queues its delivery, unless the run ends instead.
LEMMA WakeInv ==
  ASSUME TypeOK, Counted, NEW a \in Agents, NEW t \in Recipients,
         NEW h, Wake(a, t, h), running' = running
  PROVE  FlowTypeOK' /\ Counted' /\ (ended' \/ inFlight' > 0)
<1>1. CASE Exhausted(h)
  <2>1. FlowTypeOK' /\ ended'
    BY <1>1 DEF Wake, StopAtBudget, NoDelivery, Nobody, FlowTypeOK, TypeOK
  <2>2. Counted'
    BY <1>1, StableCounted DEF Wake, StopAtBudget, NoDelivery
  <2> QED
    BY <2>1, <2>2
<1>2. CASE ~Exhausted(h)
  <2> USE <1>2 DEF Wake, Deliver
  <2>1. inFlight' \in Nat /\ inFlight' > 0 /\ queue' \in [Agents -> Nat]
    BY DEF TypeOK
  <2>2. ended' \in BOOLEAN /\ tail' = t /\ opened' \in BOOLEAN
    BY DEF TypeOK
  <2>4. Counted'
    BY DeliveryCounted
  <2> QED
    BY <2>1, <2>2, <2>4 DEF FlowTypeOK
<1> QED
  BY <1>1, <1>2

\* Settling a turn leaves a row that awaits nobody who could move the run, or a
\* run that is not quiet.
LEMMA SettledInv ==
  ASSUME TypeOK, NEW t \in Recipients, Settled(t)
  PROVE  /\ inFlight' \in Nat
         /\ tail' \in Recipients
         /\ QuietIsExplained'
<1>1. inFlight' \in Nat
  BY DEF Settled, TypeOK
<1>2. tail' \in Recipients
  BY DEF Settled, Nobody, TypeOK
<1>3. QuietIsExplained'
  <2>1. CASE Stranded(t)
    BY <2>1 DEF Settled, Nobody, QuietIsExplained
  <2>2. CASE ~Stranded(t)
    BY <2>2 DEF Settled, Stranded, Held, Quiet, QuietIsExplained, gates
  <2> QED
    BY <2>1, <2>2
<1> QED
  BY <1>1, <1>2, <1>3

\* Clearing an agent's slot leaves the other slots, each still once.
LEMMA SlotsWithoutIs ==
  ASSUME slots \in Seq(Agents), NEW a \in Agents,
         \A i, j \in DOMAIN slots : slots[i] = slots[j] => i = j
  PROVE  LET S == SlotsWithout(a) IN
         /\ S \in Seq(Agents)
         /\ \A i \in DOMAIN S : S[i] # a /\ \E j \in DOMAIN slots : S[i] = slots[j]
         /\ \A i, j \in DOMAIN S : S[i] = S[j] => i = j
         /\ \A j \in DOMAIN slots : slots[j] # a => \E i \in DOMAIN S : S[i] = slots[j]
<1>1. CASE \A i \in DOMAIN slots : slots[i] # a
  <2>1. {i \in DOMAIN slots : slots[i] = a} = {}
    BY <1>1
  <2>2. SlotsWithout(a) = slots
    BY <2>1 DEF SlotsWithout
  <2> QED
    BY <1>1, <2>2
<1>2. CASE \E i \in DOMAIN slots : slots[i] = a
  <2>1. PICK n : n = (CHOOSE i \in {i \in DOMAIN slots : slots[i] = a} : TRUE)
    OBVIOUS
  <2>2. n \in 1..Len(slots) /\ slots[n] = a
    BY <1>2, <2>1
  <2>3. SlotsWithout(a) = SubSeq(slots, 1, n - 1) \o SubSeq(slots, n + 1, Len(slots))
    BY <1>2, <2>1 DEF SlotsWithout
  <2>4. PICK f, g : f = SubSeq(slots, 1, n - 1) /\ g = SubSeq(slots, n + 1, Len(slots))
    OBVIOUS
  <2>5. /\ f \in Seq(Agents)
        /\ Len(f) = n - 1
        /\ \A i \in 1..n - 1 : f[i] = slots[i]
    BY <2>2, <2>4
  <2>6. /\ g \in Seq(Agents)
        /\ Len(g) = Len(slots) - n
        /\ \A i \in 1..Len(slots) - n : g[i] = slots[n + i]
    BY <2>2, <2>4
  <2>7. PICK S : S = f \o g
    OBVIOUS
  <2>8. SlotsWithout(a) = S
    BY <2>3, <2>4, <2>7
  <2>9. S \in Seq(Agents) /\ Len(S) = Len(slots) - 1
    BY <2>2, <2>5, <2>6, <2>7
  <2>10. \A i \in 1..Len(S) : S[i] = IF i < n THEN slots[i] ELSE slots[i + 1]
    <3> SUFFICES ASSUME NEW i \in 1..Len(S)
                 PROVE  S[i] = IF i < n THEN slots[i] ELSE slots[i + 1]
      OBVIOUS
    <3>1. CASE i < n
      BY <3>1, <2>2, <2>5, <2>6, <2>7, <2>9
    <3>2. CASE ~(i < n)
      <4>1. i - (n - 1) \in 1..Len(slots) - n
        BY <3>2, <2>2, <2>9
      <4>2. S[i] = g[i - (n - 1)]
        BY <3>2, <2>2, <2>5, <2>6, <2>7, <2>9
      <4>3. n + (i - (n - 1)) = i + 1
        BY <2>2, <2>9
      <4> QED
        BY <3>2, <4>1, <4>2, <4>3, <2>6
    <3> QED
      BY <3>1, <3>2
  <2>11. \A i \in 1..Len(S) :
          /\ i \in 1..Len(slots) /\ i + 1 \in 1..Len(slots)
          /\ i < n \/ i + 1 > n
    BY <2>2, <2>9
  <2>12. \A i \in 1..Len(S) : S[i] # a /\ \E j \in 1..Len(slots) : S[i] = slots[j]
    BY <2>2, <2>10, <2>11
  <2>13. ASSUME NEW i \in 1..Len(S), NEW j \in 1..Len(S), S[i] = S[j]
         PROVE  i = j
    <3>1. PICK k, l \in 1..Len(slots) :
            /\ S[i] = slots[k] /\ k = IF i < n THEN i ELSE i + 1
            /\ S[j] = slots[l] /\ l = IF j < n THEN j ELSE j + 1
      BY <2>10, <2>11
    <3>2. DOMAIN slots = 1..Len(slots)
      OBVIOUS
    <3>3. slots[k] = slots[l]
      BY <2>13, <3>1
    <3>4. k = l
      BY <3>2, <3>3
    <3> QED
      BY <2>2, <2>9, <3>1, <3>4
  <2>14. ASSUME NEW j \in 1..Len(slots), slots[j] # a
         PROVE  \E i \in 1..Len(S) : S[i] = slots[j]
    <3>1. j # n
      BY <2>2, <2>14
    <3>2. CASE j < n
      BY <2>2, <2>9, <2>10, <3>2
    <3>3. CASE j > n
      <4>1. j - 1 \in 1..Len(S) /\ ~(j - 1 < n) /\ (j - 1) + 1 = j
        BY <2>2, <2>9, <3>3
      <4> QED
        BY <2>10, <4>1
    <3> QED
      BY <2>2, <3>1, <3>2, <3>3
  <2>15. DOMAIN S = 1..Len(S) /\ DOMAIN slots = 1..Len(slots)
    BY <2>9
  <2>16. \A j \in DOMAIN slots : slots[j] # a => \E i \in DOMAIN S : S[i] = slots[j]
    BY <2>14, <2>15
  <2>17. \A i \in DOMAIN S : S[i] # a /\ \E j \in DOMAIN slots : S[i] = slots[j]
    BY <2>12, <2>15
  <2>18. \A i, j \in DOMAIN S : S[i] = S[j] => i = j
    BY <2>13, <2>15
  <2> QED
    BY <2>8, <2>9, <2>16, <2>17, <2>18, Zenon
<1> QED
  BY <1>1, <1>2
\* The front of a queue of slots.
LEMMA FrontIs ==
  ASSUME NEW S \in Seq(Agents), S # <<>>
  PROVE  Head(S) = S[1] /\ Head(S) \in Agents /\ Tail(S) # S
<1>1. PICK n : n = Len(S)
  OBVIOUS
<1>2. n \in Nat /\ n # 0 /\ Len(Tail(S)) = n - 1
  BY <1>1
<1>3. Tail(S) # S
  BY <1>1, <1>2
<1>4. Head(S) = S[1] /\ Head(S) \in Agents
  OBVIOUS
<1> QED
  BY <1>3, <1>4

-----------------------------------------------------------------------------
(* Every action preserves the invariant. *)

\* A busy run is explained by being busy, and so is one that ends.
LEMMA BusyIsExplained ==
  ASSUME ended' \/ inFlight' > 0
  PROVE  QuietIsExplained'
BY DEF QuietIsExplained, Quiet

\* What a step leaves pending it still owes.
LEMMA OwedStable ==
  ASSUME SlotsAreOwed, HaltsAreOwed, ended => ended',
         UNCHANGED <<slots, failed, dead>>, running \subseteq running',
         failed \subseteq Agents, dead \subseteq Agents,
         \A a \in Agents : Pending(a) => Pending(a)'
  PROVE  SlotsAreOwed' /\ HaltsAreOwed'
<1> HIDE DEF Agents
<1>1. CASE ended'
  BY <1>1 DEF SlotsAreOwed, HaltsAreOwed
<1>2. CASE ~ended'
  <2>1. \A a \in failed' : (HasSlot(a) \/ a \in running \/ Pending(a))'
    BY <1>2 DEF SlotsAreOwed, HasSlot
  <2>2. \A a \in dead' : Pending(a)'
    BY <1>2 DEF HaltsAreOwed
  <2> QED
    BY <1>2, <2>1, <2>2 DEF SlotsAreOwed, HaltsAreOwed
<1> QED
  BY <1>1, <1>2

\* A delivery takes nothing out of a queue.
LEMMA WakeKeepsPending ==
  ASSUME TypeOK, NEW b \in Agents, NEW t, NEW h, Wake(b, t, h),
         UNCHANGED <<banner, kicked>>, NEW a \in Agents, Pending(a)
  PROVE  Pending(a)'
BY DEF Wake, StopAtBudget, NoDelivery, Deliver, Pending, TypeOK

LEMMA SendInv ==
  ASSUME IInv, NEW a \in Agents, NEW t \in Messages, Send(a, t)
  PROVE  IInv'
<1> USE DEF IInv, Send
<1>1. /\ UNCHANGED <<members, muted, kicked, slots, running, dead, paused, gated,
                     banner, verbs, failed>>
      /\ a \in running
      /\ ~ended
      /\ Awaited(t) \in Recipients
      /\ hops' \in 0..HopBudget
  <2>1. UNCHANGED <<members, muted, kicked, slots, running, dead, paused, gated,
                    banner, verbs, failed>>
    BY DEF control, gates
  <2>2. Awaited(t) \in Recipients
    BY DEF Messages, Awaited, Nobody
  <2>3. hops' \in 0..HopBudget
    BY HopBudgetAssumption DEF Hopped, TypeOK
  <2> QED
    BY <2>1, <2>2, <2>3
<1>2. inFlight > 0
  BY <1>1, BusyCounted DEF TypeOK
<1>3. SUFFICES /\ FlowTypeOK' /\ Counted' /\ (ended' \/ inFlight' > 0)
               /\ \A b \in Agents : Pending(b) => Pending(b)'
  <2>1. failed \subseteq Agents /\ dead \subseteq Agents
    BY DEF TypeOK
  <2>2. TypeOK'
    BY <1>1, <1>3 DEF FlowTypeOK, TypeOK
  <2>3. SlotsAreOwed' /\ HaltsAreOwed'
    BY <1>1, <1>3, <2>1, OwedStable
  <2> QED
    BY <1>3, <2>2, <2>3, BusyIsExplained
<1>4. CASE SendToAgent(t)
  <2>1. PICK b \in Agents : Wake(b, Awaited(t), Hopped)
    BY <1>4 DEF SendToAgent, TypeOK
  <2> QED
    BY <1>1, <2>1, WakeInv, WakeKeepsPending
<1>5. CASE NoDelivery /\ ended' \in BOOLEAN /\ tail' \in Recipients
  BY <1>1, <1>2, <1>5, StableCounted DEF NoDelivery, TypeOK, FlowTypeOK, Pending
<1>6. CASE SendToUser(t) \/ SendToSink(t)
  BY <1>1, <1>5, <1>6 DEF SendToUser, SendToSink, Nobody, TypeOK
<1>7. CASE SendToStranger(t)
  BY <1>1, <1>5, <1>7 DEF SendToStranger, StopAtBudget, Nobody, TypeOK
<1> QED
  BY <1>4, <1>6, <1>7

LEMMA StartTurnInv ==
  ASSUME IInv, NEW a \in Agents, StartTurn(a)
  PROVE  IInv'
<1> USE DEF IInv, StartTurn
<1>1. TypeOK'
  BY DEF TypeOK, control, gates
<1>2. Counted'
  BY StartCounted
<1>3. SlotsAreOwed' /\ HaltsAreOwed'
  <2>1. /\ UNCHANGED <<ended, slots, failed, banner, kicked, dead>>
        /\ failed \subseteq Agents /\ dead \subseteq running /\ running \subseteq Agents
    BY DEF TypeOK, control, gates
  <2>2. \A b \in Agents : Pending(b) => b = a \/ Pending(b)'
    BY <2>1 DEF Pending, TypeOK
  <2>3. ~ended => \A b \in failed : (HasSlot(b) \/ b \in running \/ Pending(b))'
    BY <2>1, <2>2 DEF SlotsAreOwed, HasSlot
  <2>4. ~ended => \A b \in dead : Pending(b)'
    BY <2>1, <2>2 DEF HaltsAreOwed
  <2> QED
    BY <2>1, <2>3, <2>4 DEF SlotsAreOwed, HaltsAreOwed
<1>4. QuietIsExplained'
  BY BusyCounted, BusyIsExplained DEF TypeOK
<1> QED
  BY <1>1, <1>2, <1>3, <1>4

LEMMA RefuseInv ==
  ASSUME IInv, NEW a \in Agents, Refuse(a)
  PROVE  IInv'
<1> USE DEF IInv, Refuse
<1>1. PICK t \in Recipients : Settled(t)
  BY DEF Nobody, TypeOK
<1>2. inFlight' = IF inFlight > 0 THEN inFlight - 1 ELSE 0
  BY DEF Settled
<1>3. TypeOK'
  BY <1>1, SettledInv DEF Settled, TypeOK, control, gates
<1>4. Counted'
  BY <1>2, RefusalCounted
<1>5. SlotsAreOwed' /\ HaltsAreOwed'
  <2>1. /\ UNCHANGED <<ended, slots, failed, banner, kicked, dead, running>>
        /\ failed \subseteq Agents /\ dead \subseteq Agents
    BY <1>1 DEF Settled, TypeOK, control, gates
  <2>2. CASE ended
    BY <2>1, <2>2 DEF SlotsAreOwed, HaltsAreOwed
  <2>3. CASE ~ended
    <3>1. \A b \in Agents : Pending(b) => Pending(b)'
      BY <2>1, <2>3 DEF Pending, TypeOK
    <3> QED
      BY <2>1, <3>1, OwedStable
  <2> QED
    BY <2>2, <2>3
<1> QED
  BY <1>1, <1>3, <1>4, <1>5, SettledInv

\* However a turn ends, its last row, its slot and its failed agree.
LEMMA TurnEndsInv ==
  ASSUME IInv, NEW a \in Agents, TurnEnds(a)
  PROVE  IInv'
<1> USE DEF IInv
<1>1. a \in running
  BY DEF TurnEnds, Succeed, Fail, EndHalted, TypeOK
<1>2. PICK t \in Recipients : Settled(t)
  BY DEF TurnEnds, Succeed, Fail, EndHalted, Nobody, TypeOK
<1>3. TurnOver(a)
  BY DEF TurnEnds, Succeed, Fail, EndHalted
<1>4. UNCHANGED <<ended, members, muted, kicked, hops, paused, gated, banner,
                  verbs, opened>>
  BY <1>2 DEF Settled, control, gates
<1>5. Counted'
  BY <1>1, <1>2, <1>3, TurnOverCounted DEF Settled, TurnOver
<1>8. \A b \in Agents : /\ Pending(b) => Pending(b)'
                        /\ b \in running => b = a \/ b \in running'
  BY <1>3, <1>4 DEF Pending, TurnOver
<1>10. failed \subseteq Agents /\ dead \subseteq Agents
  BY DEF TypeOK
<1>9. HaltsAreOwed'
  <2> HIDE DEF Agents
  <2>1. dead' \subseteq dead
    BY <1>3 DEF TurnOver
  <2> QED
    BY <1>4, <1>8, <1>10, <2>1 DEF HaltsAreOwed
<1>6. /\ slots' \in Seq(Agents)
      /\ failed' \in SUBSET Agents
      /\ SlotsAreOwed'
  <2>1. CASE ended
    BY <2>1, <1>4 DEF TurnEnds, Succeed, Fail, EndHalted, SlotsAreOwed, TypeOK
  <2>2. CASE ~ended
    <3>7. \A b \in failed : HasSlot(b) \/ b \in running \/ Pending(b)
      BY <2>2 DEF SlotsAreOwed
    <3>1. PICK S : S = SlotsWithout(a)
      OBVIOUS
    <3>2. /\ S \in Seq(Agents)
          /\ \A i \in DOMAIN S : S[i] # a /\ \E j \in DOMAIN slots : S[i] = slots[j]
          /\ \A i, j \in DOMAIN S : S[i] = S[j] => i = j
          /\ \A j \in DOMAIN slots : slots[j] # a => \E i \in DOMAIN S : S[i] = slots[j]
      BY <2>2, <3>1, SlotsWithoutIs DEF SlotsAreOwed, TypeOK
    <3>3. \A i \in DOMAIN S : S[i] \in Agents /\ S[i] \in failed
      BY <2>2, <3>2 DEF SlotsAreOwed, TypeOK
    <3>4. CASE Succeed(a)
      <4>1. slots' = S /\ failed' = failed \ {a}
        BY <2>2, <3>1, <3>4 DEF Succeed
      <4>2. \A b \in failed' : (HasSlot(b) \/ b \in running \/ Pending(b))'
        <5> HIDE DEF Agents
        <5>1. \A b \in Agents : b # a /\ HasSlot(b) => HasSlot(b)'
          BY <3>2, <4>1 DEF HasSlot
        <5> QED
          BY <1>8, <1>10, <3>7, <4>1, <5>1
      <4> QED
        BY <3>2, <3>3, <4>1, <4>2 DEF SlotsAreOwed, TypeOK
    <3>5. CASE Fail(a)
      <4>1. slots' = Append(S, a) /\ failed' = failed \cup {a}
        BY <2>2, <3>1, <3>5 DEF Fail
      <4>2. /\ slots' \in Seq(Agents)
            /\ DOMAIN slots' = 1..Len(S) + 1
            /\ DOMAIN S = 1..Len(S)
            /\ Len(S) \in Nat
            /\ slots'[Len(S) + 1] = a
            /\ \A i \in 1..Len(S) : slots'[i] = S[i]
        BY <3>2, <4>1
      <4>3. failed' \in SUBSET Agents
        BY <4>1 DEF TypeOK
      <4>4. \A i \in DOMAIN slots' : slots'[i] \in failed'
        BY <3>2, <3>3, <4>1, <4>2 DEF TypeOK
      <4>5. \A i, j \in DOMAIN slots' : slots'[i] = slots'[j] => i = j
        BY <3>2, <4>2
      <4>6. \A b \in failed' : (HasSlot(b) \/ b \in running \/ Pending(b))'
        <5> HIDE DEF Agents
        <5>1. HasSlot(a)'
          BY <3>2, <4>2 DEF HasSlot
        <5>2. \A b \in Agents : b # a /\ HasSlot(b) => HasSlot(b)'
          BY <3>2, <4>2 DEF HasSlot
        <5> QED
          BY <1>8, <1>10, <3>7, <4>1, <5>1, <5>2
      <4> QED
        BY <4>2, <4>3, <4>4, <4>5, <4>6 DEF SlotsAreOwed
    <3>6. CASE EndHalted(a)
      <4>1. Pending(a) /\ UNCHANGED <<slots, failed>>
        BY <2>2, <3>6 DEF EndHalted, HaltsAreOwed
      <4>2. \A b \in failed' : (HasSlot(b) \/ b \in running \/ Pending(b))'
        <5> HIDE DEF Agents
        <5>1. \A b \in Agents : HasSlot(b) => HasSlot(b)'
          BY <4>1 DEF HasSlot
        <5> QED
          BY <1>8, <1>10, <3>7, <4>1, <5>1
      <4> QED
        BY <1>4, <4>1, <4>2 DEF SlotsAreOwed, TypeOK
    <3> QED
      BY <3>4, <3>5, <3>6 DEF TurnEnds
  <2> QED
    BY <2>1, <2>2
<1>7. TypeOK'
  BY <1>2, <1>3, <1>4, <1>6, SettledInv DEF TurnOver, TypeOK
<1> QED
  BY <1>2, <1>5, <1>6, <1>7, <1>9, SettledInv

\* A prompt and an addition wake the hub, a retry and a Continue the agent they
\* are for.
LEMMA WakingVerbInv ==
  ASSUME IInv, \/ Prompt
               \/ Retry
               \/ \E a \in Workers : Continue(a)
               \/ \E a \in Workers : AddWorker(a) /\ ~ended
  PROVE  IInv'
<1> USE DEF IInv
<1>1. UNCHANGED <<muted, kicked, hops, running, dead, paused, failed>>
  BY DEF Prompt, AddWorker, Retry, Continue, Verb
<1>2. verbs' \in Nat /\ members' \in SUBSET Workers
  BY DEF Prompt, AddWorker, Retry, Continue, Verb, TypeOK
<1>3. \E a \in Agents, t \in Recipients, h \in Nat : Wake(a, t, h)
  <2>1. hops \in Nat /\ tail \in Recipients
    BY HopBudgetAssumption DEF TypeOK
  <2>2. CASE Prompt
    BY <2>1, <2>2 DEF Prompt
  <2>3. CASE Retry
    <3>1. Head(slots) \in Agents
      BY <2>3 DEF Retry, TypeOK
    <3> QED
      BY <2>1, <2>3, <3>1 DEF Retry
  <2>4. CASE \E a \in Workers : Continue(a)
    BY <2>1, <2>4 DEF Continue
  <2>5. CASE \E a \in Workers : AddWorker(a) /\ ~ended
    BY <2>1, <2>5 DEF AddWorker
  <2> QED
    BY <2>2, <2>3, <2>4, <2>5
<1>4. FlowTypeOK' /\ Counted' /\ (ended' \/ inFlight' > 0)
  BY <1>1, <1>3, WakeInv
<1>5. gated' \in SUBSET Workers /\ banner' \in SUBSET Workers
  BY DEF Prompt, AddWorker, Retry, Continue, TypeOK
<1>7. \A b \in Agents : Pending(b) => Pending(b)'
  <2>1. CASE Prompt \/ Retry \/ \E a \in Workers : AddWorker(a) /\ ~ended
    BY <1>1, <1>3, <2>1, WakeKeepsPending DEF Prompt, Retry, AddWorker
  <2>2. ASSUME NEW a \in Workers, Continue(a), NEW b \in Agents, Pending(b)
        PROVE  Pending(b)'
    <3>1. Wake(a, tail, hops) /\ kicked' = kicked
      BY <1>1, <2>2 DEF Continue
    <3>2. CASE Exhausted(hops)
      BY <2>2, <3>1, <3>2 DEF Continue, Wake, StopAtBudget, NoDelivery, Pending
    <3>3. CASE ~Exhausted(hops)
      BY <2>2, <3>1, <3>3 DEF Continue, Wake, Deliver, Pending, TypeOK
    <3> QED
      BY <3>2, <3>3
  <2> QED
    BY <2>1, <2>2
<1>8. ended => ended'
  BY <1>3 DEF Wake, StopAtBudget
<1>9. HaltsAreOwed'
  BY <1>1, <1>7, <1>8 DEF HaltsAreOwed, TypeOK
<1>6. slots' \in Seq(Agents) /\ SlotsAreOwed'
  <2>1. ended => ended'
    BY <1>8
  <2>2. CASE slots' = slots
    <3>1. failed \subseteq Agents /\ dead \subseteq Agents
      BY DEF TypeOK
    <3> QED
      BY <1>1, <1>7, <2>1, <2>2, <3>1, OwedStable DEF TypeOK
  <2>3. CASE slots # <<>> /\ slots' = Tail(slots)
    <3>1. /\ slots' \in Seq(Agents)
          /\ DOMAIN slots = 1..Len(slots)
          /\ DOMAIN slots' = 1..Len(slots) - 1
          /\ Len(slots) \in Nat
          /\ \A i \in 1..Len(slots) - 1 : slots'[i] = slots[i + 1]
      BY <2>3 DEF TypeOK
    <3>2. \A i \in DOMAIN slots' : i + 1 \in DOMAIN slots
      BY <3>1
    <3>3. \A i, j \in DOMAIN slots' : i + 1 = j + 1 => i = j
      BY <3>1
    <3>7. PICK s \in Agents : s = slots[1]
      BY <2>3 DEF TypeOK
    <3>4. ~ended' => Pending(s)'
      <4>1. CASE Retry
        <5>1. Head(slots) = s /\ slots # slots'
          BY <2>3, <3>7, FrontIs DEF TypeOK
        <5>2. ~Exhausted(hops) /\ Wake(Head(slots), tail, hops)
          BY <4>1, <5>1 DEF Retry
        <5>3. queue' = [queue EXCEPT ![s] = @ + 1] /\ queue \in [Agents -> Nat]
          BY <5>1, <5>2 DEF Wake, Deliver, TypeOK
        <5>4. queue'[s] > 0
          BY <5>3
        <5> QED
          BY <5>4 DEF Pending
      <4>2. CASE ~Retry
        <5>1. UNCHANGED slots
          BY <4>2 DEF Prompt, AddWorker, Continue
        <5> QED
          BY <2>3, <3>1, <5>1 DEF TypeOK
      <4> QED
        BY <4>1, <4>2
    <3>5. ASSUME NEW b \in Agents, HasSlot(b)
          PROVE  b = s \/ HasSlot(b)'
      <4>1. PICK i \in 1..Len(slots) : slots[i] = b
        BY <3>1, <3>5 DEF HasSlot
      <4>2. CASE i = 1
        BY <3>7, <4>1, <4>2
      <4>3. CASE i > 1
        <5>1. i - 1 \in DOMAIN slots' /\ slots'[i - 1] = b
          BY <3>1, <4>1, <4>3
        <5> QED
          BY <5>1 DEF HasSlot
      <4> QED
        BY <3>1, <4>2, <4>3
    <3>6. ~ended' => \A b \in failed' : (HasSlot(b) \/ b \in running \/ Pending(b))'
      <4> HIDE DEF Agents
      <4>1. failed \subseteq Agents
        BY DEF TypeOK
      <4> QED
        BY <1>1, <1>7, <2>1, <3>4, <3>5, <4>1 DEF SlotsAreOwed
    <3> QED
      BY <1>1, <2>1, <3>1, <3>2, <3>3, <3>6 DEF SlotsAreOwed
  <2> QED
    BY <2>2, <2>3 DEF Prompt, AddWorker, Retry, Continue
<1> QED
  BY <1>1, <1>2, <1>4, <1>5, <1>6, <1>9, BusyIsExplained DEF FlowTypeOK, TypeOK

\* A worker added when the run is over joins the roster and wakes nobody.
LEMMA LateAddInv ==
  ASSUME IInv, NEW a \in Workers, AddWorker(a), ended
  PROVE  IInv'
<1> USE DEF IInv, AddWorker, Verb, NoDelivery
<1>1. TypeOK'
  BY DEF TypeOK
<1>2. Counted'
  BY StableCounted
<1> QED
  BY <1>1, <1>2, BusyIsExplained DEF SlotsAreOwed, HaltsAreOwed

\* A verb that is refused says so, and drops the slot or the banner of a kicked
\* agent.
LEMMA RefusedVerbInv ==
  ASSUME IInv, RetryRefused \/ (\E a \in Workers : ContinueRefused(a))
  PROVE  IInv'
<1> USE DEF IInv
<1>1. UNCHANGED <<ended, members, muted, kicked, hops, inFlight, queue, running,
                  dead, paused, failed>>
  BY DEF RetryRefused, ContinueRefused, Verb, NoDelivery
<1>2. tail' = Nobody
  BY DEF RetryRefused, ContinueRefused, Tell
<1>3. /\ gated' \in SUBSET Workers /\ banner' \in SUBSET Workers
      /\ verbs' \in Nat
      /\ opened' \in BOOLEAN
  <2>1. CASE RetryRefused
    BY <2>1 DEF RetryRefused, Verb, NoDelivery, TypeOK
  <2>2. ASSUME NEW a \in Workers, ContinueRefused(a)
        PROVE  /\ gated' \in SUBSET Workers /\ banner' \in SUBSET Workers
               /\ verbs' \in Nat
               /\ opened' \in BOOLEAN
    <3>1. verbs' \in Nat
      BY <2>2 DEF ContinueRefused, Verb, TypeOK
    <3>2. CASE a \in kicked
      BY <2>2, <3>1, <3>2 DEF ContinueRefused, Opens, TypeOK
    <3>3. CASE a \notin kicked
      BY <2>2, <3>1, <3>3 DEF ContinueRefused, TypeOK
    <3> QED
      BY <3>2, <3>3
  <2> QED
    BY <2>1, <2>2
<1>8. \A b \in Agents : Pending(b) => Pending(b)'
  BY <1>1 DEF RetryRefused, ContinueRefused, Pending
<1>9. HaltsAreOwed'
  BY <1>1, <1>8 DEF HaltsAreOwed, TypeOK
<1>4. slots' \in Seq(Agents) /\ SlotsAreOwed'
  <2>1. CASE slots' = slots
    <3>1. failed \subseteq Agents /\ dead \subseteq Agents
      BY DEF TypeOK
    <3> QED
      BY <1>1, <1>8, <2>1, <3>1, OwedStable DEF TypeOK
  <2>2. CASE slots # <<>> /\ slots' = Tail(slots)
    <3>1. /\ slots' \in Seq(Agents)
          /\ DOMAIN slots = 1..Len(slots)
          /\ DOMAIN slots' = 1..Len(slots) - 1
          /\ Len(slots) \in Nat
          /\ \A i \in 1..Len(slots) - 1 : slots'[i] = slots[i + 1]
      BY <2>2 DEF TypeOK
    <3>2. \A i \in DOMAIN slots' : i + 1 \in DOMAIN slots
      BY <3>1
    <3>3. \A i, j \in DOMAIN slots' : i + 1 = j + 1 => i = j
      BY <3>1
    <3>7. PICK s \in Agents : s = slots[1]
      BY <2>2 DEF TypeOK
    <3>4. s \in kicked
      <4>1. CASE RetryRefused
        <5>1. Head(slots) = s /\ slots' # slots
          BY <2>2, <3>7, FrontIs DEF TypeOK
        <5> QED
          BY <4>1, <5>1 DEF RetryRefused
      <4>2. CASE ~RetryRefused
        <5>1. UNCHANGED slots
          BY <4>2 DEF ContinueRefused
        <5> QED
          BY <2>2, <3>1, <5>1 DEF TypeOK
      <4> QED
        BY <4>1, <4>2
    <3>5. ASSUME NEW b \in Agents, HasSlot(b)
          PROVE  b = s \/ HasSlot(b)'
      <4>1. PICK i \in 1..Len(slots) : slots[i] = b
        BY <3>1, <3>5 DEF HasSlot
      <4>2. CASE i = 1
        BY <3>7, <4>1, <4>2
      <4>3. CASE i > 1
        <5>1. i - 1 \in DOMAIN slots' /\ slots'[i - 1] = b
          BY <3>1, <4>1, <4>3
        <5> QED
          BY <5>1 DEF HasSlot
      <4> QED
        BY <3>1, <4>2, <4>3
    <3>6. ~ended' => \A b \in failed' : (HasSlot(b) \/ b \in running \/ Pending(b))'
      <4> HIDE DEF Agents
      <4>1. failed \subseteq Agents
        BY DEF TypeOK
      <4> QED
        BY <1>1, <1>8, <3>4, <3>5, <4>1 DEF SlotsAreOwed, Pending
    <3> QED
      BY <1>1, <3>1, <3>2, <3>3, <3>6 DEF SlotsAreOwed
  <2> QED
    BY <2>1, <2>2 DEF RetryRefused, ContinueRefused
<1>5. Counted'
  BY <1>1, StableCounted
<1>6. QuietIsExplained'
  BY <1>2 DEF QuietIsExplained, Nobody
<1>7. tail' \in Recipients
  BY <1>2 DEF Nobody
<1> QED
  BY <1>1, <1>3, <1>4, <1>5, <1>6, <1>7, <1>9 DEF TypeOK

\* The pause gate and the verbs on a participant deliver nothing; what they
\* open in a quiet run is remembered, and what they close explains it.
LEMMA ControlInv ==
  ASSUME IInv, NEW a \in Workers,
         Halt(a) \/ Mute(a) \/ Unmute(a) \/ Pause(a) \/ Resume(a) \/ Kick(a)
  PROVE  IInv'
<1> USE DEF IInv
<1>1. UNCHANGED <<ended, members, hops, tail, inFlight, slots, queue, running, failed>>
  BY DEF Halt, Mute, Unmute, Pause, Resume, Kick, control, turns
<1>2. Counted'
  BY <1>1, StableCounted
<1>5. SlotsAreOwed' /\ HaltsAreOwed'
  <2>1. \A b \in Agents : Pending(b) => Pending(b)'
    BY <1>1
    DEF Halt, Mute, Unmute, Pause, Resume, Kick, control, gates, Pending
  <2>2. failed \subseteq Agents /\ dead \subseteq Agents
    BY DEF TypeOK
  <2>3. CASE dead' = dead
    BY <1>1, <2>1, <2>2, <2>3, OwedStable DEF TypeOK
  <2>4. CASE Halt(a)
    <3>1. dead' = dead \cup {a} /\ banner' = banner \cup {a}
      BY <2>4 DEF Halt
    <3>2. HaltsAreOwed'
      BY <1>1, <2>1, <2>2, <3>1 DEF HaltsAreOwed, Pending
    <3>3. ~ended' => \A b \in failed' : (HasSlot(b) \/ b \in running \/ Pending(b))'
      BY <1>1, <2>1, <2>2 DEF SlotsAreOwed, HasSlot
    <3> QED
      BY <1>1, <3>2, <3>3 DEF SlotsAreOwed
  <2> QED
    BY <2>3, <2>4 DEF Mute, Unmute, Pause, Resume, Kick, turns
<1>3. TypeOK'
  <2>1. CASE Halt(a)
    BY <1>1, <2>1 DEF Halt, TypeOK, control
  <2>2. CASE Mute(a) \/ Unmute(a)
    BY <1>1, <2>2 DEF Mute, Unmute, TypeOK, gates, turns
  <2>3. CASE Pause(a)
    BY <1>1, <2>3 DEF Pause, TypeOK, control, turns
  <2>4. CASE Resume(a) \/ Kick(a)
    BY <1>1, <2>4 DEF Resume, Kick, Opens, TypeOK, control, turns
  <2> QED
    BY <2>1, <2>2, <2>3, <2>4
<1>4. QuietIsExplained'
  <2>1. CASE Halt(a) \/ Pause(a) \/ Mute(a) \/ Unmute(a)
    BY <1>1, <2>1
    DEF Halt, Pause, Mute, Unmute, QuietIsExplained, Quiet, Held, control, gates
  <2>2. CASE Resume(a) \/ Kick(a)
    BY <1>1, <2>2 DEF Resume, Kick, Opens, QuietIsExplained, Quiet, TypeOK
  <2> QED
    BY <2>1, <2>2
<1> QED
  BY <1>2, <1>3, <1>4, <1>5

LEMMA StopInv ==
  ASSUME IInv, Stop
  PROVE  IInv'
<1> USE DEF IInv, Stop
<1>1. TypeOK'
  BY DEF TypeOK, control, turns
<1>2. Counted'
  BY StableCounted DEF turns
<1> QED
  BY <1>1, <1>2, BusyIsExplained DEF SlotsAreOwed, HaltsAreOwed

LEMMA StutterInv ==
  ASSUME IInv, UNCHANGED vars
  PROVE  IInv'
<1> USE DEF IInv, vars
<1>1. TypeOK'
  BY DEF TypeOK
<1>2. Counted'
  BY StableCounted
<1> QED
  BY <1>1, <1>2
  DEF SlotsAreOwed, HaltsAreOwed, HasSlot, Pending, QuietIsExplained, Quiet, Held

LEMMA InitInv ==
  ASSUME Init
  PROVE  IInv
<1> USE DEF Init
<1>1. TypeOK
  <2>1. hops \in 0..HopBudget /\ inFlight \in Nat /\ verbs \in Nat
    BY HopBudgetAssumption
  <2>2. tail \in Recipients
    OBVIOUS
  <2>3. /\ queue \in [Agents -> Nat]
        /\ failed \in SUBSET Agents
        /\ slots \in Seq(Agents)
    OBVIOUS
  <2> QED
    BY <2>1, <2>2, <2>3 DEF TypeOK
<1>2. PICK d : d = <<Orchestrator, 1>>
  OBVIOUS
<1>3. \A e : e \in Outstanding <=> e \in {d}
  <2>1. \A a \in Agents : \A i \in 1..queue[a] : a = Orchestrator /\ i = 1
    OBVIOUS
  <2>2. 1 \in 1..queue[Orchestrator]
    OBVIOUS
  <2> QED
    BY <1>2, <2>1, <2>2, OutstandingIs
<1>4. Outstanding = {d}
  BY <1>3
<1>5. Counted
  BY <1>4, FS_Singleton DEF Counted, InFlightIsExact
<1>6. SlotsAreOwed /\ HaltsAreOwed /\ QuietIsExplained
  BY DEF SlotsAreOwed, HaltsAreOwed, QuietIsExplained, Quiet
<1> QED
  BY <1>1, <1>5, <1>6 DEF IInv

-----------------------------------------------------------------------------
(* The theorems. *)

\* IInv holds throughout, for any workers, budget and operator.
THEOREM Invariance == Spec => []IInv
<1>1. Init => IInv
  BY InitInv
<1>2. IInv /\ [Next]_vars => IInv'
  <2> SUFFICES ASSUME IInv, [Next]_vars
               PROVE  IInv'
    OBVIOUS
  <2>1. CASE UNCHANGED vars
    BY <2>1, StutterInv
  <2>2. ASSUME NEW a \in Agents, NEW t \in Messages, Send(a, t)
        PROVE  IInv'
    BY <2>2, SendInv
  <2>3. ASSUME NEW a \in Agents, StartTurn(a)
        PROVE  IInv'
    BY <2>3, StartTurnInv
  <2>4. ASSUME NEW a \in Agents, Refuse(a)
        PROVE  IInv'
    BY <2>4, RefuseInv
  <2>5. ASSUME NEW a \in Agents, TurnEnds(a)
        PROVE  IInv'
    BY <2>5, TurnEndsInv
  <2>6. CASE \/ Prompt
             \/ Retry
             \/ \E a \in Workers : Continue(a)
             \/ \E a \in Workers : AddWorker(a) /\ ~ended
    BY <2>6, WakingVerbInv
  <2>7. CASE RetryRefused \/ (\E a \in Workers : ContinueRefused(a))
    BY <2>7, RefusedVerbInv
  <2>8. ASSUME NEW a \in Workers,
               Halt(a) \/ Mute(a) \/ Unmute(a) \/ Pause(a) \/ Resume(a) \/ Kick(a)
        PROVE  IInv'
    BY <2>8, ControlInv
  <2>9. CASE Stop
    BY <2>9, StopInv
  <2>10. ASSUME NEW a \in Workers, AddWorker(a), ended
         PROVE  IInv'
    BY <2>10, LateAddInv
  <2> HIDE DEF Agents, Recipients
  <2> QED
    BY <2>1, <2>2, <2>3, <2>4, <2>5, <2>6, <2>7, <2>8, <2>9, <2>10 DEF Next
<1> QED
  BY <1>1, <1>2, PTL DEF Spec

\* The router's variables keep their types.
THEOREM Typing == Spec => []TypeOK
<1>1. IInv => TypeOK
  BY DEF IInv
<1> QED
  BY <1>1, Invariance, PTL

\* turnsInFlight (onTurnSettled's finally) counts every delivery once.
THEOREM CounterIsExact == Spec => []InFlightIsExact
<1>1. IInv => InFlightIsExact
  BY DEF IInv, Counted
<1> QED
  BY <1>1, Invariance, PTL

\* The pending-retry slots are those of agents whose last turn failed.
THEOREM RetriesAreOwed == Spec => []SlotsAreOwed
<1>1. IInv => SlotsAreOwed
  BY DEF IInv
<1> QED
  BY <1>1, Invariance, PTL

\* A run in which nothing moves is explained by a note, a hold or its opening.
THEOREM SilenceIsExplained == Spec => []QuietIsExplained
<1>1. IInv => QuietIsExplained
  BY DEF IInv
<1> QED
  BY <1>1, Invariance, PTL

\* Neither a message nor a prompt, an addition, a retry or a Continue gets past the budget,
\* the end of the session or a kick.
THEOREM WakesAreAllowed == Spec => OnlyLiveAgentsWoken
<1> DEFINE Woken(a) == queue'[a] > queue[a]
<1>1. ASSUME IInv, Next, NEW a \in Agents, Woken(a)
      PROVE  hops' < HopBudget /\ ~ended' /\ a \notin kicked
  <2> USE DEF IInv
  <2>1. queue \in [Agents -> Nat] /\ hops \in 0..HopBudget /\ HopBudget \in Nat
    BY <1>1, HopBudgetAssumption DEF TypeOK
  <2>2. ASSUME NEW b \in Agents, NEW t, NEW h, Wake(b, t, h)
        PROVE  b = a /\ ~Exhausted(h) /\ UNCHANGED ended
    BY <1>1, <2>1, <2>2 DEF Wake, StopAtBudget, NoDelivery, Deliver
  <2>3. ASSUME NEW b \in Agents, NEW t \in Messages, Send(b, t)
        PROVE  hops' < HopBudget /\ ~ended' /\ a \notin kicked
    <3>1. SendToAgent(t)
      BY <1>1, <2>1, <2>3
      DEF Send, SendToUser, SendToSink, SendToStranger, StopAtBudget, NoDelivery
    <3>2. t.to = a /\ ~Exhausted(Hopped) /\ UNCHANGED ended
      BY <1>1, <2>2, <3>1 DEF SendToAgent, TypeOK
    <3> QED
      BY <2>1, <2>3, <3>2 DEF Send, Refused, Hopped, Exhausted
  <2>4. ASSUME NEW b \in Agents, StartTurn(b) \/ Refuse(b) \/ TurnEnds(b)
        PROVE  FALSE
    BY <1>1, <2>1, <2>4 DEF StartTurn, Refuse, TurnEnds, Succeed, Fail, EndHalted, TurnOver
  <2>5. CASE Prompt
    <3>1. Orchestrator = a /\ ~Exhausted(hops) /\ UNCHANGED ended
      BY <2>2, <2>5 DEF Prompt
    <3> QED
      BY <1>1, <2>1, <2>5, <3>1, RecipientsAssumption DEF Prompt, Verb, Exhausted, TypeOK
  <2>9. ASSUME NEW b \in Workers, AddWorker(b)
        PROVE  hops' < HopBudget /\ ~ended' /\ a \notin kicked
    <3>1. ~ended
      BY <1>1, <2>1, <2>9 DEF AddWorker, NoDelivery
    <3>2. Orchestrator = a /\ ~Exhausted(hops) /\ UNCHANGED ended
      BY <2>2, <2>9, <3>1 DEF AddWorker
    <3> QED
      BY <1>1, <2>1, <2>9, <3>1, <3>2, RecipientsAssumption
      DEF AddWorker, Verb, Exhausted, TypeOK
  <2>6. CASE Retry
    <3>1. Head(slots) \in Agents
      BY <1>1, <2>6 DEF Retry, TypeOK
    <3>2. Head(slots) = a /\ ~Exhausted(hops) /\ UNCHANGED ended
      BY <2>2, <2>6, <3>1 DEF Retry
    <3> QED
      BY <2>1, <2>6, <3>2 DEF Retry, Verb, Exhausted, RefusedFor
  <2>7. ASSUME NEW b \in Workers, Continue(b)
        PROVE  hops' < HopBudget /\ ~ended' /\ a \notin kicked
    <3>1. b = a /\ ~Exhausted(hops) /\ UNCHANGED ended
      BY <2>2, <2>7 DEF Continue
    <3> QED
      BY <2>1, <2>7, <3>1 DEF Continue, Verb, Exhausted, RefusedFor
  <2>8. ASSUME RetryRefused \/ Stop
               \/ \E b \in Workers : ContinueRefused(b) \/ Halt(b) \/ Mute(b)
                                     \/ Unmute(b) \/ Pause(b) \/ Resume(b) \/ Kick(b)
        PROVE  FALSE
    <3>1. UNCHANGED queue
      BY <2>8 DEF RetryRefused, NoDelivery, Stop, ContinueRefused, Halt, Mute, Unmute,
                  Pause, Resume, Kick, turns
    <3> QED
      BY <1>1, <2>1, <3>1
  <2> HIDE DEF Agents, Recipients, Woken
  <2> QED
    BY <1>1, <2>3, <2>4, <2>5, <2>6, <2>7, <2>8, <2>9 DEF Next
<1>2. IInv /\ [Next]_vars
        => [\A a \in Agents :
              queue'[a] > queue[a] => hops' < HopBudget /\ ~ended' /\ a \notin kicked]_vars
  BY <1>1
<1> QED
  BY <1>2, Invariance, PTL DEF Spec, OnlyLiveAgentsWoken

-----------------------------------------------------------------------------
(* What the turns of a run cost. *)

\* The turns that run are deliveries in flight.
RunningFits == Cardinality(running) \in Nat /\ Cardinality(running) <= inFlight

LEMMA RunningCounted ==
  ASSUME Counted
  PROVE  IsFiniteSet(running) /\ RunningFits
<1> DEFINE f == [a \in running |-> <<a, 0>>]
<1>1. f \in [running -> Outstanding]
  BY OutstandingIs
<1>2. \A a, b \in running : f[a] = f[b] => a = b
  OBVIOUS
<1>3. f \in Injection(running, Outstanding)
  BY <1>1, <1>2 DEF Injection, IsInjective
<1> HIDE DEF f
<1> QED
  BY <1>3, FS_Injection, FS_CardinalityType DEF Counted, InFlightIsExact, RunningFits

\* The six things a step may do to the flow of deliveries.
PaidByMessage ==
  hops' = hops + 1 /\ hops' < HopBudget /\ inFlight' = inFlight + 1
    /\ UNCHANGED <<verbs, running>>
PaidByInput ==
  verbs' = verbs + 1 /\ verbs < MaxVerbs /\ inFlight' \in {inFlight, inFlight + 1}
    /\ UNCHANGED <<hops, running>>
Idle ==
  hops' \in {hops, hops + 1} /\ hops' <= HopBudget /\ UNCHANGED <<verbs, inFlight, running>>
Begun ==
  (\E a : a \notin running /\ running' = running \cup {a})
    /\ UNCHANGED <<hops, verbs, inFlight>>
Dropped ==
  inFlight > 0 /\ inFlight' = inFlight - 1 /\ UNCHANGED <<hops, verbs, running>>
Over ==
  (\E a \in running : running' = running \ {a})
    /\ inFlight > 0 /\ inFlight' = inFlight - 1 /\ UNCHANGED <<hops, verbs>>

\* A wake counts one delivery, a stop at the cap none.
LEMMA WakeFlow ==
  ASSUME NEW a, NEW t, NEW h, Wake(a, t, h)
  PROVE  \/ h # HopBudget /\ inFlight' = inFlight + 1
         \/ inFlight' = inFlight
BY DEF Wake, StopAtBudget, NoDelivery, Deliver, Exhausted

LEMMA StepFlow ==
  ASSUME IInv, [Next]_vars
  PROVE  PaidByMessage \/ PaidByInput \/ Idle \/ Begun \/ Dropped \/ Over
<1>1. hops \in 0..HopBudget /\ HopBudget \in Nat /\ inFlight \in Nat /\ running \subseteq Agents
  BY HopBudgetAssumption DEF IInv, TypeOK
<1>2. ASSUME NEW a \in Agents, NEW t \in Messages, Send(a, t)
      PROVE  PaidByMessage \/ Idle
  <2>1. hops' = Hopped /\ UNCHANGED <<verbs, running>>
    BY <1>2 DEF Send
  <2>2. hops' \in {hops, hops + 1} /\ hops' <= HopBudget
    BY <1>1, <2>1 DEF Hopped
  <2>3. CASE SendToAgent(t)
    <3>1. \/ Hopped # HopBudget /\ inFlight' = inFlight + 1
          \/ inFlight' = inFlight
      BY <2>3, WakeFlow DEF SendToAgent
    <3>2. Hopped # HopBudget => hops' = hops + 1 /\ hops' < HopBudget
      BY <1>1, <2>1 DEF Hopped
    <3> QED
      BY <2>1, <2>2, <3>1, <3>2 DEF PaidByMessage, Idle
  <2>4. CASE SendToUser(t) \/ SendToSink(t) \/ SendToStranger(t)
    <3>1. inFlight' = inFlight
      BY <2>4 DEF SendToUser, SendToSink, SendToStranger, NoDelivery, StopAtBudget
    <3> QED
      BY <2>1, <2>2, <3>1 DEF Idle
  <2> QED
    BY <1>2, <2>3, <2>4 DEF Send
<1>3. ASSUME NEW a \in Agents, StartTurn(a)
      PROVE  Begun
  BY <1>3 DEF StartTurn, Begun
<1>4. ASSUME NEW a \in Agents, Refuse(a)
      PROVE  Dropped
  <2>1. inFlight > 0
    BY <1>4, BusyCounted DEF Refuse, IInv
  <2> QED
    BY <1>4, <2>1 DEF Refuse, Settled, Dropped
<1>5. ASSUME NEW a \in Agents, TurnEnds(a)
      PROVE  Over
  <2>1. a \in running
    BY <1>5 DEF TurnEnds, Succeed, Fail, EndHalted, IInv, TypeOK
  <2>2. inFlight > 0
    BY <2>1, BusyCounted DEF IInv
  <2>3. running' = running \ {a}
    BY <1>5 DEF TurnEnds, Succeed, Fail, EndHalted, TurnOver
  <2>4. inFlight' = inFlight - 1 /\ UNCHANGED <<hops, verbs>>
    BY <1>5, <2>2 DEF TurnEnds, Succeed, Fail, EndHalted, Settled
  <2> QED
    BY <2>1, <2>2, <2>3, <2>4 DEF Over
<1>6. CASE \/ Prompt \/ Retry \/ RetryRefused
           \/ \E a \in Workers : AddWorker(a) \/ Continue(a) \/ ContinueRefused(a) \/ Mute(a)
  <2>1. verbs < MaxVerbs /\ verbs' = verbs + 1 /\ UNCHANGED <<hops, running>>
    BY <1>6 DEF Prompt, Retry, RetryRefused, AddWorker, Continue, ContinueRefused, Mute,
                Verb, turns
  <2>2. inFlight' \in {inFlight, inFlight + 1}
    BY <1>6, WakeFlow DEF Prompt, Retry, RetryRefused, AddWorker, Continue, ContinueRefused,
                          Mute, NoDelivery
  <2> QED
    BY <2>1, <2>2 DEF PaidByInput
<1>7. CASE \/ Stop \/ UNCHANGED vars
           \/ \E a \in Workers : Halt(a) \/ Unmute(a) \/ Pause(a) \/ Resume(a) \/ Kick(a)
  <2>1. UNCHANGED <<hops, verbs, inFlight, running>>
    BY <1>7 DEF Stop, Halt, Unmute, Pause, Resume, Kick, turns, vars
  <2> QED
    BY <1>1, <2>1 DEF Idle
<1> HIDE DEF Agents, Recipients
<1> QED
  BY <1>2, <1>3, <1>4, <1>5, <1>6, <1>7 DEF Next

\* No run has more deliveries in flight than its messages and the inputs of its
\* operator have paid for (bumpHops, checkBudgetExhausted).
THEOREM EveryDeliveryIsPaidFor == Spec => []DeliveriesArePaidFor
<1>1. Init => DeliveriesArePaidFor
  BY HopBudgetAssumption, MaxVerbsAssumption DEF Init, DeliveriesArePaidFor, Below
<1>2. IInv /\ DeliveriesArePaidFor /\ [Next]_vars => DeliveriesArePaidFor'
  <2> SUFFICES ASSUME IInv, DeliveriesArePaidFor, [Next]_vars
               PROVE  DeliveriesArePaidFor'
    OBVIOUS
  <2>1. /\ hops \in Nat /\ hops <= HopBudget /\ HopBudget \in Nat \ {0}
        /\ inFlight \in Nat /\ verbs \in Nat /\ MaxVerbs \in Nat
    BY HopBudgetAssumption, MaxVerbsAssumption DEF IInv, TypeOK
  <2> QED
    BY <2>1, StepFlow DEF PaidByMessage, PaidByInput, Idle, Begun, Dropped, Over,
                          DeliveriesArePaidFor, Below
<1> QED
  BY <1>1, <1>2, Invariance, PTL DEF Spec

\* The budget bounds the turns of a run: each one started is one less that can
\* be, and nothing puts any back.
THEOREM TurnsAreLimited == Spec => TurnsAreSpent
<1>1. ASSUME IInv, IInv', DeliveriesArePaidFor, DeliveriesArePaidFor', RunningFits',
             [Next]_vars
      PROVE  /\ TurnsLeft' <= TurnsLeft
             /\ running' \subseteq running \/ TurnsLeft' < TurnsLeft
             /\ TurnsLeft' >= 0
  <2>1. /\ hops \in Nat /\ hops' \in Nat /\ hops' <= HopBudget /\ HopBudget \in Nat
        /\ verbs \in Nat /\ verbs' \in Nat /\ verbs' <= MaxVerbs /\ MaxVerbs \in Nat
        /\ inFlight \in Nat /\ inFlight' \in Nat
    BY <1>1, HopBudgetAssumption, MaxVerbsAssumption DEF IInv, TypeOK, DeliveriesArePaidFor
  <2>2. IsFiniteSet(running) /\ Cardinality(running) \in Nat
    BY <1>1, RunningCounted DEF IInv, RunningFits
  <2>3. Cardinality(running') \in Nat /\ Cardinality(running') <= inFlight'
    BY <1>1 DEF RunningFits
  <2>4. TurnsLeft' >= 0
    BY <2>1, <2>3 DEF TurnsLeft
  <2>5. CASE Begun
    <3>1. Cardinality(running') = Cardinality(running) + 1
      BY <2>2, <2>5, FS_AddElement DEF Begun
    <3>2. UNCHANGED <<hops, verbs, inFlight>>
      BY <2>5 DEF Begun
    <3> QED
      BY <2>1, <2>2, <2>4, <3>1, <3>2 DEF TurnsLeft
  <2>6. CASE Over
    <3>1. running' \subseteq running /\ Cardinality(running') = Cardinality(running) - 1
      BY <2>2, <2>6, FS_RemoveElement DEF Over
    <3>2. inFlight' = inFlight - 1 /\ UNCHANGED <<hops, verbs>>
      BY <2>6 DEF Over
    <3> QED
      BY <2>1, <2>2, <2>4, <3>1, <3>2 DEF TurnsLeft
  <2>7. CASE PaidByMessage \/ PaidByInput \/ Idle \/ Dropped
    <3>1. running' = running
      BY <2>7 DEF PaidByMessage, PaidByInput, Idle, Dropped
    <3>2. TurnsLeft' <= TurnsLeft
      BY <2>1, <2>2, <2>7, <3>1 DEF PaidByMessage, PaidByInput, Idle, Dropped, TurnsLeft
    <3> QED
      BY <2>4, <3>1, <3>2
  <2> QED
    BY <1>1, <2>5, <2>6, <2>7, StepFlow
<1>2. IInv => RunningFits
  BY RunningCounted DEF IInv, RunningFits
<1> QED
  BY <1>1, <1>2, Invariance, EveryDeliveryIsPaidFor, PTL DEF Spec, TurnsAreSpent

-----------------------------------------------------------------------------
(* The router implements BudgetedRun. *)

Blocked == paused \cup gated
Barred == IF ended THEN Agents ELSE kicked

\* No step ends the end of a run, or takes a kick back.
LEMMA NothingRevoked ==
  ASSUME TypeOK, [Next]_vars
  PROVE  (ended => ended') /\ kicked \subseteq kicked'
<1>1. ASSUME NEW b, NEW t, NEW h, Wake(b, t, h)
      PROVE  ended => ended'
  BY <1>1 DEF Wake, StopAtBudget
<1>2. ASSUME NEW a \in Agents, NEW t \in Messages, Send(a, t)
      PROVE  ~ended /\ UNCHANGED kicked
  BY <1>2 DEF Send, control
<1>3. ASSUME NEW a \in Agents, StartTurn(a) \/ Refuse(a) \/ TurnEnds(a)
      PROVE  UNCHANGED <<ended, kicked>>
  BY <1>3 DEF StartTurn, Refuse, TurnEnds, Succeed, Fail, EndHalted, Settled, control
<1>4. CASE Prompt \/ Retry \/ \E a \in Workers : Continue(a) \/ AddWorker(a)
  BY <1>1, <1>4 DEF Prompt, Retry, Continue, AddWorker, Verb
<1>5. CASE \/ RetryRefused \/ Stop \/ UNCHANGED vars
           \/ \E a \in Workers : \/ ContinueRefused(a) \/ Halt(a) \/ Mute(a) \/ Unmute(a)
                                 \/ Pause(a) \/ Resume(a) \/ Kick(a)
  BY <1>5 DEF RetryRefused, Stop, ContinueRefused, Halt, Mute, Unmute, Pause, Resume, Kick,
              Verb, control, vars
<1> HIDE DEF Agents, Recipients
<1> QED
  BY <1>2, <1>3, <1>4, <1>5 DEF Next

LEMMA BarsStand ==
  ASSUME TypeOK, [Next]_vars
  PROVE  Barred \subseteq Barred' /\ (ended => ended')
<1>1. kicked \subseteq Agents
  BY DEF TypeOK
<1>2. (ended => ended') /\ kicked \subseteq kicked'
  BY NothingRevoked
<1> QED
  BY <1>1, <1>2 DEF Barred

\* The brake and the end are asked before a delivery is queued.
WokenOnce ==
  \/ UNCHANGED queue
  \/ \E a \in Agents : /\ ~ended' /\ a \notin Barred /\ hops' < HopBudget
                       /\ queue' = [queue EXCEPT ![a] = @ + 1]

LEMMA WakeIsOne ==
  ASSUME NEW b \in Agents, NEW t, NEW h, Wake(b, t, h), ~ended, b \notin kicked,
         h # HopBudget => hops' < HopBudget
  PROVE  WokenOnce
BY DEF Wake, StopAtBudget, NoDelivery, Deliver, Exhausted, Barred, WokenOnce

LEMMA SendRefines ==
  ASSUME IInv, [Next]_vars, NEW a \in Agents, NEW t \in Messages, Send(a, t)
  PROVE  Run!Message
<1>1. /\ a \in running /\ ~ended /\ hops' = Hopped
      /\ UNCHANGED <<running, Blocked, verbs>>
      /\ hops \in 0..HopBudget /\ HopBudget \in Nat
  BY HopBudgetAssumption DEF Send, gates, Blocked, IInv, TypeOK
<1>2. Hopped # HopBudget => hops' < HopBudget
  BY <1>1 DEF Hopped
<1>3. WokenOnce
  <2>1. CASE SendToAgent(t)
    <3>1. t.to \in Agents /\ t.to \notin kicked
      BY <2>1 DEF Send, SendToAgent, Refused, IInv, TypeOK
    <3> QED
      BY <1>1, <1>2, <2>1, <3>1, WakeIsOne DEF SendToAgent
  <2>2. CASE SendToUser(t) \/ SendToSink(t) \/ SendToStranger(t)
    BY <2>2 DEF SendToUser, SendToSink, SendToStranger, NoDelivery, StopAtBudget, WokenOnce
  <2> QED
    BY <2>1, <2>2 DEF Send
<1> HIDE DEF Agents
<1> QED
  BY <1>1, <1>3, BarsStand
  DEF IInv, Run!Message, Run!WakeOneAtMost, Run!Wake, Run!Irrevocable, Hopped, Blocked, Barred,
      WokenOnce

LEMMA InputRefines ==
  ASSUME IInv, IInv', [Next]_vars,
         \/ Prompt \/ Retry \/ RetryRefused
         \/ \E a \in Workers : AddWorker(a) \/ Continue(a) \/ ContinueRefused(a) \/ Mute(a)
  PROVE  Run!Input
<1>1. /\ verbs < MaxVerbs /\ verbs' = verbs + 1
      /\ UNCHANGED <<running, hops>>
      /\ hops \in 0..HopBudget /\ HopBudget \in Nat
      /\ Blocked' \in SUBSET Agents
  BY HopBudgetAssumption
  DEF Prompt, Retry, RetryRefused, AddWorker, Continue, ContinueRefused, Mute, Verb, turns,
      IInv, TypeOK, Blocked
<1>2. hops # HopBudget => hops' < HopBudget
  BY <1>1
<1>3. WokenOnce
  <2>1. Orchestrator \notin kicked
    BY RecipientsAssumption DEF IInv, TypeOK
  <2>2. CASE Prompt
    BY <1>2, <2>1, <2>2, WakeIsOne DEF Prompt
  <2>3. ASSUME NEW a \in Workers, AddWorker(a)
        PROVE  WokenOnce
    <3>1. CASE ended
      BY <2>3, <3>1 DEF AddWorker, NoDelivery, WokenOnce
    <3>2. CASE ~ended
      BY <1>2, <2>1, <2>3, <3>2, WakeIsOne DEF AddWorker
    <3> QED
      BY <3>1, <3>2
  <2>4. CASE Retry
    <3>1. Head(slots) \in Agents /\ ~ended /\ Head(slots) \notin kicked
      BY <2>4, FrontIs DEF Retry, RefusedFor, IInv, TypeOK
    <3> QED
      BY <1>2, <2>4, <3>1, WakeIsOne DEF Retry
  <2>5. ASSUME NEW a \in Workers, Continue(a)
        PROVE  WokenOnce
    <3>1. ~ended /\ a \notin kicked /\ a \in Agents
      BY <2>5 DEF Continue, RefusedFor
    <3> QED
      BY <1>2, <2>5, <3>1, WakeIsOne DEF Continue
  <2>6. CASE RetryRefused \/ \E a \in Workers : ContinueRefused(a) \/ Mute(a)
    BY <2>6 DEF RetryRefused, ContinueRefused, Mute, NoDelivery, turns, WokenOnce
  <2> HIDE DEF Agents
  <2> QED
    BY <2>2, <2>3, <2>4, <2>5, <2>6
<1> HIDE DEF Agents
<1> QED
  BY <1>1, <1>3, BarsStand
  DEF IInv, Run!Input, Run!WakeOneAtMost, Run!Wake, Run!Irrevocable, Blocked, Barred,
      WokenOnce

\* Every step of the router is one of BudgetedRun, or none at all.
LEMMA NextRefines ==
  ASSUME IInv, IInv', [Next]_vars
  PROVE  [Run!Next]_(Run!vars)
<1>1. /\ Barred \subseteq Barred' /\ (ended => ended')
      /\ Blocked' \in SUBSET Agents
  BY BarsStand DEF IInv, TypeOK, Blocked
<1>2. ASSUME NEW a \in Agents, NEW t \in Messages, Send(a, t)
      PROVE  Run!Next
  BY <1>2, SendRefines DEF Run!Next
<1>3. ASSUME NEW a \in Agents, StartTurn(a)
      PROVE  Run!Next
  <2>1. /\ a \notin running \cup Blocked \cup Barred
        /\ UNCHANGED <<Blocked, Barred>>
    BY <1>3 DEF StartTurn, Held, Blocked, Barred, gates, control
  <2>2. Run!Begin(a)
    BY <1>3, <2>1 DEF StartTurn, Run!Begin, Blocked, Barred
  <2> QED
    BY <2>2 DEF Run!Next
<1>4. ASSUME NEW a \in Agents, Refuse(a)
      PROVE  Run!Next
  <2>1. a \in Barred \ running /\ UNCHANGED <<Blocked, Barred, ended, hops, verbs>>
    BY <1>4 DEF Refuse, Settled, Blocked, Barred, gates, control
  <2>2. Run!Drop(a)
    BY <1>4, <2>1 DEF Refuse, Run!Drop, Blocked, Barred
  <2> QED
    BY <2>2 DEF Run!Next
<1>5. ASSUME NEW a \in Agents, TurnEnds(a)
      PROVE  Run!Next
  <2>1. a \in running /\ TurnOver(a)
    BY <1>5 DEF TurnEnds, Succeed, Fail, EndHalted, IInv, TypeOK
  <2>2. UNCHANGED <<Blocked, Barred, ended, hops, verbs>>
    BY <1>5 DEF TurnEnds, Succeed, Fail, EndHalted, Settled, Blocked, Barred, gates, control
  <2>3. Run!Finish(a)
    BY <2>1, <2>2 DEF TurnOver, Run!Finish, Blocked, Barred
  <2> QED
    BY <2>3 DEF Run!Next
<1>6. CASE \/ Prompt \/ Retry \/ RetryRefused
           \/ \E a \in Workers : AddWorker(a) \/ Continue(a) \/ ContinueRefused(a) \/ Mute(a)
  BY <1>6, InputRefines DEF Run!Next
<1>7. CASE \/ Stop
           \/ \E a \in Workers : Halt(a) \/ Unmute(a) \/ Pause(a) \/ Resume(a) \/ Kick(a)
  <2>1. UNCHANGED <<queue, running, hops, verbs>>
    BY <1>7 DEF Stop, Halt, Unmute, Pause, Resume, Kick, turns
  <2>2. Run!Surroundings
    BY <1>1, <2>1 DEF Run!Surroundings, Run!Irrevocable, Blocked, Barred
  <2> QED
    BY <2>2 DEF Run!Next
<1>8. CASE UNCHANGED vars
  BY <1>8 DEF vars, Run!vars
<1> HIDE DEF Agents, Recipients
<1> QED
  BY <1>2, <1>3, <1>4, <1>5, <1>6, <1>7, <1>8 DEF Next

LEMMA InitRefines == Init => Run!Init
BY DEF Init, Run!Init

\* The hub router (createOrchestratorRouter) keeps what BudgetedRun promises:
\* every turn is paid for, by a hop below the cap or an input of the operator.
THEOREM Refinement == Spec => ImplementsBudgetedRun
BY InitRefines, NextRefines, Invariance, PTL DEF Spec, ImplementsBudgetedRun, Run!Spec
=============================================================================
