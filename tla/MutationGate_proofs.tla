------------------------- MODULE MutationGate_proofs -------------------------
(***************************************************************************)
(* Proofs about MutationGate, for any agents, commands and bounds.         *)
(*                                                                         *)
(* PendingHaltsAgent is inductive only together with OnePending: Continue  *)
(* releases the hold of an agent when ONE of its banners is answered, which *)
(* is right because there is no second one.  RunsAreApproved rests on both: *)
(* the tap lets a call of a halted agent pass without a grant, which is    *)
(* right because such a turn is dead.                                      *)
(***************************************************************************)
EXTENDS MutationGate, FiniteSetTheorems, SequenceTheorems, TLAPS

\* Only a turn has messages.
BatchHasTurn == \A a \in Agents : batch[a] # <<>> => turn[a] # 0

HaltInv ==
  /\ TypeOK
  /\ OnePending
  /\ PendingHaltsAgent
  /\ BatchHasTurn

IInv == HaltInv /\ RunsAreApproved

-----------------------------------------------------------------------------
(* What one write to the table does to the banners and to the grants. *)

\* A fresh row touches no other row.
LEMMA AppendEffect ==
  ASSUME rows \in Seq(Row), NEW r \in Row, rows' = Append(rows, r)
  PROVE  /\ rows' \in Seq(Row)
         /\ \A a \in Agents :
              PendingOf(a)' = PendingOf(a) \cup
                (IF r.agent = a /\ r.state = "pending"
                 THEN {Len(rows) + 1} ELSE {})
         /\ \A a \in Agents, c \in Commands :
              Grants(a, c)' = Grants(a, c) \cup
                (IF r.agent = a /\ r.cmd = c /\ r.state = "approved"
                 THEN {Len(rows) + 1} ELSE {})
<1>1. /\ rows' \in Seq(Row)
      /\ DOMAIN rows' = DOMAIN rows \cup {Len(rows) + 1}
      /\ \A i \in DOMAIN rows : rows'[i] = rows[i]
      /\ rows'[Len(rows) + 1] = r
      /\ Len(rows) + 1 \notin DOMAIN rows
  OBVIOUS
<1> QED
  BY <1>1 DEF PendingOf, Grants, Ids

\* Moving a row to another state moves that row only.
LEMMA SetStateEffect ==
  ASSUME rows \in Seq(Row), NEW i \in Ids, NEW s \in PauseState, SetState(i, s)
  PROVE  /\ rows' \in Seq(Row)
         /\ \A a \in Agents :
              PendingOf(a)' = (PendingOf(a) \ {i}) \cup
                (IF rows[i].agent = a /\ s = "pending" THEN {i} ELSE {})
         /\ \A a \in Agents, c \in Commands :
              Grants(a, c)' = (Grants(a, c) \ {i}) \cup
                (IF rows[i].agent = a /\ rows[i].cmd = c /\ s = "approved"
                 THEN {i} ELSE {})
<1>1. rows[i] \in Row
  BY DEF Ids
<1>2. [rows[i] EXCEPT !.state = s] \in Row
  BY <1>1 DEF Row
<1>3. /\ rows' \in Seq(Row)
      /\ DOMAIN rows' = DOMAIN rows
      /\ \A j \in DOMAIN rows \ {i} : rows'[j] = rows[j]
      /\ rows'[i] = [rows[i] EXCEPT !.state = s]
  BY <1>2 DEF SetState, Ids
<1>4. /\ rows'[i].agent = rows[i].agent
      /\ rows'[i].cmd = rows[i].cmd
      /\ rows'[i].state = s
  BY <1>1, <1>3 DEF Row
<1>5. Ids' = Ids /\ i \in Ids
  BY <1>3 DEF Ids
<1>6. \A j \in Ids \ {i} : rows'[j] = rows[j]
  BY <1>3 DEF Ids
<1>7. ASSUME NEW a \in Agents
      PROVE  PendingOf(a)' = (PendingOf(a) \ {i}) \cup
               (IF rows[i].agent = a /\ s = "pending" THEN {i} ELSE {})
  BY <1>4, <1>5, <1>6 DEF PendingOf
<1>8. ASSUME NEW a \in Agents, NEW c \in Commands
      PROVE  Grants(a, c)' = (Grants(a, c) \ {i}) \cup
               (IF rows[i].agent = a /\ rows[i].cmd = c /\ s = "approved"
                THEN {i} ELSE {})
  BY <1>4, <1>5, <1>6 DEF Grants
<1> QED
  BY <1>3, <1>7, <1>8

\* Burning a grant for a fresh call takes that grant and nothing else.
LEMMA BurnEffect ==
  ASSUME rows \in Seq(Row), NEW a \in Agents, NEW c \in Commands,
         NEW i \in Grants(a, c),
         rows' = Append([rows EXCEPT ![i].state = "consumed"],
                        NewRow(a, c, "none"))
  PROVE  /\ rows' \in Seq(Row)
         /\ \A b \in Agents : PendingOf(b)' = PendingOf(b)
         /\ \A b \in Agents, d \in Commands : Grants(b, d)' = Grants(b, d) \ {i}
<1> DEFINE burnt == [rows EXCEPT ![i].state = "consumed"]
<1>1. i \in DOMAIN rows /\ rows[i] \in Row /\ rows[i].state = "approved"
  BY DEF Grants, Ids
<1>2. [rows[i] EXCEPT !.state = "consumed"] \in Row
  BY <1>1 DEF Row, PauseState
<1>3. /\ burnt \in Seq(Row)
      /\ Len(burnt) = Len(rows)
      /\ DOMAIN burnt = DOMAIN rows
      /\ \A j \in DOMAIN rows \ {i} : burnt[j] = rows[j]
      /\ burnt[i] = [rows[i] EXCEPT !.state = "consumed"]
  BY <1>1, <1>2
<1>4. burnt[i].state = "consumed"
  BY <1>1, <1>3 DEF Row
<1>5. NewRow(a, c, "none") \in Row /\ NewRow(a, c, "none").state = "none"
  BY DEF NewRow, Row, PauseState
<1> HIDE DEF burnt
<1>6. /\ rows' \in Seq(Row)
      /\ DOMAIN rows' = DOMAIN burnt \cup {Len(burnt) + 1}
      /\ \A j \in DOMAIN burnt : rows'[j] = burnt[j]
      /\ rows'[Len(burnt) + 1] = NewRow(a, c, "none")
  BY <1>3, <1>5 DEF burnt
<1> QED
  BY <1>1, <1>3, <1>4, <1>5, <1>6 DEF PendingOf, Grants, Ids

-----------------------------------------------------------------------------
(* Types. *)

\* Counting one call more keeps a ledger a ledger.
LEMMA CountType ==
  ASSUME NEW f \in [Call -> Nat], NEW k \in Call
  PROVE  [f EXCEPT ![k] = @ + 1] \in [Call -> Nat]
OBVIOUS

LEMMA InitTypeOK == Init => TypeOK
<1>1. <<>> \in Seq(Row) /\ <<>> \in Seq(Nat) /\ <<>> \in Seq(Commands)
  OBVIOUS
<1>2. \A S : [x \in S |-> 0] \in [S -> Nat]
  OBVIOUS
<1> SUFFICES ASSUME Init PROVE TypeOK
  OBVIOUS
<1>3. rows \in Seq(Row) /\ queue \in [Agents -> Seq(Nat)]
        /\ batch \in [Agents -> Seq(Commands)]
  BY <1>1 DEF Init
<1>4. /\ audit \in [Call -> Nat] /\ passed \in [Call -> Nat]
      /\ lastPrompt \in [Agents -> Nat] /\ turn \in [Agents -> Nat]
  BY <1>2, Zenon DEF Init
<1> QED
  BY <1>3, <1>4 DEF Init, TypeOK

LEMMA NewRowType ==
  ASSUME NEW a \in Agents, NEW c \in Commands, NEW s \in PauseState
  PROVE  /\ NewRow(a, c, s) \in Row
         /\ NewRow(a, c, s).agent = a
         /\ NewRow(a, c, s).cmd = c
         /\ NewRow(a, c, s).state = s
BY DEF NewRow, Row

\* The tap writes rows of the table's type, whatever its verdict.
LEMMA TapTypeOK ==
  ASSUME TypeOK, NEW a \in Agents, NEW c \in Commands, Tap(a, c)
  PROVE  TypeOK'
<1> USE DEF TypeOK, PauseState
<1>1. batch' \in [Agents -> Seq(Commands)]
  <2>1. batch[a] # <<>> /\ batch[a] \in Seq(Commands)
    BY DEF Tap, Tapped, TapUnrecorded, TapApproved, TapGrantUnburnt, TapHalted,
           TapPause
  <2>2. Tail(batch[a]) \in Seq(Commands)
    BY <2>1
  <2>3. batch' = [batch EXCEPT ![a] = Tail(@)]
    BY DEF Tap, Tapped, TapUnrecorded, TapApproved, TapGrantUnburnt, TapHalted,
           TapPause
  <2> QED
    BY <2>2, <2>3
<1>2. UNCHANGED <<audit, ended, kicked, queue, lastPrompt, turn, made>>
  BY DEF Tap, Tapped, TapUnrecorded, TapApproved, TapGrantUnburnt, TapHalted,
         TapPause
<1>3. rows' \in Seq(Row)
  <2>1. CASE TapUnrecorded(a, c)
    BY <2>1 DEF TapUnrecorded
  <2>2. CASE TapApproved(a, c)
    BY <2>2, BurnEffect DEF TapApproved, IsOldestGrant
  <2>3. ASSUME NEW s \in PauseState, rows' = Append(rows, NewRow(a, c, s))
        PROVE  rows' \in Seq(Row)
    BY <2>3, NewRowType, AppendEffect
  <2> QED
    BY <2>1, <2>2, <2>3 DEF Tap, TapGrantUnburnt, TapHalted, TapPause
<1>4. dead' \in SUBSET Agents
  BY DEF Tap, Throw, TapUnrecorded, TapApproved, TapGrantUnburnt, TapHalted,
         TapPause
<1>5. passed' \in [Call -> Nat]
  <2>1. <<a, c>> \in Call
    BY DEF Call
  <2>2. [passed EXCEPT ![<<a, c>>] = @ + 1] \in [Call -> Nat]
    BY <2>1, CountType
  <2>3. \/ passed' = passed
        \/ passed' = [passed EXCEPT ![<<a, c>>] = @ + 1]
    BY DEF Tap, LetThrough, TapUnrecorded, TapApproved, TapGrantUnburnt,
           TapHalted, TapPause
  <2> QED
    BY <2>2, <2>3
<1>6. held' \in SUBSET Agents
  BY DEF Tap, TapUnrecorded, TapApproved, TapGrantUnburnt, TapHalted, TapPause
<1> QED
  BY <1>1, <1>2, <1>3, <1>4, <1>5, <1>6

LEMMA ContinueTypeOK ==
  ASSUME TypeOK, NEW i \in Ids,
         ContinueKicked(i) \/ ContinueUngranted(i) \/ Continue(i)
  PROVE  TypeOK'
<1> USE DEF TypeOK
<1>1. rows[i].agent \in Agents /\ rows[i].cmd \in Commands
  <2>1. rows[i] \in Row
    BY DEF Ids
  <2> QED
    BY <2>1 DEF Row
<1>2. UNCHANGED <<ended, kicked, turn, dead, batch, made, passed>>
  BY DEF ContinueKicked, ContinueUngranted, Continue, ContinueFor
<1>3. rows' \in Seq(Row)
  <2>1. SetState(i, "consumed") \/ SetState(i, "approved") \/ UNCHANGED rows
    BY DEF ContinueKicked, ContinueUngranted, Continue
  <2> QED
    BY <2>1, SetStateEffect DEF PauseState
<1>4. audit' \in [Call -> Nat]
  <2>1. <<rows[i].agent, rows[i].cmd>> \in Call
    BY <1>1 DEF Call
  <2>2. [audit EXCEPT ![<<rows[i].agent, rows[i].cmd>>] = @ + 1] \in [Call -> Nat]
    BY <2>1, CountType
  <2>3. Record(i) \/ audit' = audit
    BY DEF ContinueKicked, ContinueUngranted, Continue
  <2> QED
    BY <2>2, <2>3 DEF Record
<1>5. held' \in SUBSET Agents
  BY DEF ContinueKicked, ContinueUngranted, Continue
<1>6. lastPrompt' \in [Agents -> Nat] /\ queue' \in [Agents -> Seq(Nat)]
  <2>1. ASSUME NEW p \in Nat, Enqueue(rows[i].agent, p)
        PROVE  lastPrompt' \in [Agents -> Nat] /\ queue' \in [Agents -> Seq(Nat)]
    <3>1. Append(queue[rows[i].agent], p) \in Seq(Nat)
      BY <1>1, <2>1
    <3> QED
      BY <1>1, <2>1, <3>1 DEF Enqueue
  <2>2. lastPrompt[rows[i].agent] \in Nat
    BY <1>1
  <2>3. Enqueue(rows[i].agent, lastPrompt[rows[i].agent])
          \/ UNCHANGED <<queue, lastPrompt>>
    BY DEF ContinueKicked, ContinueUngranted, Continue
  <2> QED
    BY <2>1, <2>2, <2>3
<1> QED
  BY <1>2, <1>3, <1>4, <1>5, <1>6

LEMMA NextTypeOK == TypeOK /\ [Next]_vars => TypeOK'
<1> SUFFICES ASSUME TypeOK, [Next]_vars PROVE TypeOK'
  OBVIOUS
<1>1. ASSUME UNCHANGED vars PROVE TypeOK'
  BY <1>1 DEF TypeOK, vars
<1>2. ASSUME NEW a \in Agents, Deliver(a) PROVE TypeOK'
  <2>1. Append(queue[a], made + 1) \in Seq(Nat)
    BY DEF TypeOK
  <2> QED
    BY <1>2, <2>1 DEF TypeOK, Deliver, Enqueue
<1>3. ASSUME NEW a \in Agents, StartTurn(a) \/ Refuse(a) PROVE TypeOK'
  <2>1. queue[a] # <<>> /\ queue[a] \in Seq(Nat)
    BY <1>3 DEF TypeOK, StartTurn, Refuse
  <2>2. Head(queue[a]) \in Nat /\ Tail(queue[a]) \in Seq(Nat)
    BY <2>1
  <2> QED
    BY <1>3, <2>2 DEF TypeOK, StartTurn, Refuse
<1>4. ASSUME NEW a \in Agents, NEW calls \in Batches, Message(a, calls)
      PROVE  TypeOK'
  <2>1. calls \in Seq(Commands)
    BY DEF Batches
  <2> QED
    BY <1>4, <2>1 DEF TypeOK, Message
<1>5. ASSUME NEW a \in Agents, EndTurn(a) \/ Kick(a) PROVE TypeOK'
  <2>1. CASE EndTurn(a)
    BY <2>1 DEF TypeOK, EndTurn
  <2>2. CASE Kick(a)
    BY <2>2 DEF TypeOK, Kick
  <2> QED
    BY <1>5, <2>1, <2>2
<1>6. ASSUME EndRun PROVE TypeOK'
  BY <1>6 DEF TypeOK, EndRun
<1>7. ASSUME Stop PROVE TypeOK'
  <2>1. ASSUME NEW i \in Ids PROVE rows'[i] \in Row
    <3>1. rows[i] \in Row
      BY DEF TypeOK, Ids
    <3>2. [rows[i] EXCEPT !.state = "none"] \in Row
      BY <3>1 DEF Row, PauseState
    <3> QED
      BY <1>7, <3>1, <3>2 DEF Stop
  <2>2. DOMAIN rows' = 1..Len(rows) /\ Ids = 1..Len(rows) /\ Len(rows) \in Nat
    BY <1>7 DEF TypeOK, Stop, Ids
  <2>3. rows' = [i \in 1..Len(rows) |-> rows'[i]]
    BY <1>7, <2>2 DEF Stop
  <2>4. rows' \in Seq(Row)
    BY <2>1, <2>2, <2>3
  <2> QED
    BY <1>7, <2>4 DEF TypeOK, Stop
<1>8. ASSUME Rebuild PROVE TypeOK'
  <2>1. <<>> \in Seq(Nat) /\ <<>> \in Seq(Commands)
    OBVIOUS
  <2> QED
    BY <1>8, <2>1 DEF TypeOK, Rebuild, stored, Reseeded
<1> QED
  BY <1>1, <1>2, <1>3, <1>4, <1>5, <1>6, <1>7, <1>8, TapTypeOK, ContinueTypeOK
     DEF Next

-----------------------------------------------------------------------------
(* A pending row halts its agent. *)

LEMMA InitHalt == Init => OnePending /\ PendingHaltsAgent /\ BatchHasTurn
BY DEF Init, OnePending, PendingHaltsAgent, BatchHasTurn, PendingOf, Ids

\* Whatever the verdict, the tap only shortens its agent's message.
LEMMA TapKeepsRest ==
  ASSUME NEW a \in Agents, NEW c \in Commands, Tap(a, c)
  PROVE  /\ Tapped(a, c)
         /\ UNCHANGED <<kicked, turn>>
         /\ held \subseteq held' /\ dead \subseteq dead'
BY DEF Tap, Tapped, TapUnrecorded, TapApproved, TapGrantUnburnt, TapHalted,
       TapPause, Throw

\* Of all verdicts only a pause opens a banner, for an agent that had none.
LEMMA TapBanners ==
  ASSUME TypeOK, NEW a \in Agents, NEW c \in Commands, Tap(a, c)
  PROVE  \/ \A b \in Agents : PendingOf(b)' = PendingOf(b)
         \/ /\ PendingOf(a) = {}
            /\ a \in held' /\ a \in dead'
            /\ \E i : PendingOf(a)' = {i}
            /\ \A b \in Agents \ {a} : PendingOf(b)' = PendingOf(b)
<1> USE DEF TypeOK
<1>1. CASE TapUnrecorded(a, c)
  BY <1>1 DEF TapUnrecorded, PendingOf, Ids
<1>2. CASE TapApproved(a, c)
  <2>1. PICK i \in Grants(a, c) :
          rows' = Append([rows EXCEPT ![i].state = "consumed"],
                         NewRow(a, c, "none"))
    BY <1>2 DEF TapApproved, IsOldestGrant
  <2> QED
    BY <2>1, BurnEffect
<1>3. ASSUME rows' = Append(rows, NewRow(a, c, "none"))
      PROVE  \A b \in Agents : PendingOf(b)' = PendingOf(b)
  <2>1. NewRow(a, c, "none") \in Row /\ NewRow(a, c, "none").state # "pending"
    BY NewRowType DEF PauseState
  <2> QED
    BY <1>3, <2>1, AppendEffect
<1>4. CASE TapPause(a, c, "pending")
  <2>1. rows' = Append(rows, NewRow(a, c, "pending"))
    BY <1>4 DEF TapPause
  <2>2. \A b \in Agents :
          PendingOf(b)' = PendingOf(b) \cup (IF b = a THEN {Len(rows) + 1} ELSE {})
    <3>1. /\ NewRow(a, c, "pending") \in Row
          /\ NewRow(a, c, "pending").agent = a
          /\ NewRow(a, c, "pending").state = "pending"
      BY NewRowType DEF PauseState
    <3> QED
      BY <2>1, <3>1, AppendEffect
  <2> QED
    BY <1>4, <2>2 DEF TapPause, Throw
<1> QED
  BY <1>1, <1>2, <1>3, <1>4
     DEF Tap, TapGrantUnburnt, TapHalted, TapPause

LEMMA TapHalt ==
  ASSUME HaltInv, NEW a \in Agents, NEW c \in Commands, Tap(a, c)
  PROVE  OnePending' /\ PendingHaltsAgent' /\ BatchHasTurn'
<1> USE DEF HaltInv
<1>1. UNCHANGED <<kicked, turn>> /\ held \subseteq held' /\ dead \subseteq dead'
  BY TapKeepsRest
<1>2. BatchHasTurn'
  <2>1. batch[a] # <<>> /\ \A b \in Agents \ {a} : batch'[b] = batch[b]
    BY TapKeepsRest DEF Tapped, TypeOK
  <2> QED
    BY <1>1, <2>1 DEF BatchHasTurn
<1>3. CASE \A b \in Agents : PendingOf(b)' = PendingOf(b)
  BY <1>1, <1>2, <1>3 DEF OnePending, PendingHaltsAgent
<1>4. CASE /\ PendingOf(a) = {}
           /\ a \in held' /\ a \in dead'
           /\ \E i : PendingOf(a)' = {i}
           /\ \A b \in Agents \ {a} : PendingOf(b)' = PendingOf(b)
  BY <1>1, <1>2, <1>4 DEF OnePending, PendingHaltsAgent
<1> QED
  BY <1>3, <1>4, TapBanners

\* Answering a banner takes it away, and its agent has no other one.
LEMMA ContinueHalt ==
  ASSUME HaltInv, NEW i \in Ids,
         ContinueKicked(i) \/ ContinueUngranted(i) \/ Continue(i)
  PROVE  OnePending' /\ PendingHaltsAgent' /\ BatchHasTurn'
<1> USE DEF HaltInv
<1>a. rows[i].agent \in Agents
  <2>1. rows[i] \in Row
    BY DEF TypeOK, Ids
  <2> QED
    BY <2>1 DEF Row
<1> PICK a \in Agents : a = rows[i].agent
  BY <1>a
<1>1. i \in PendingOf(a)
  BY DEF PendingOf, ContinueKicked, ContinueUngranted, Continue, ContinueFor
<1>2. UNCHANGED <<kicked, turn, dead, batch>>
  BY DEF ContinueKicked, ContinueUngranted, Continue, ContinueFor
<1>3. BatchHasTurn'
  BY <1>2 DEF BatchHasTurn
<1>4. CASE ContinueUngranted(i)
  <2>1. \A b \in Agents : PendingOf(b)' = PendingOf(b)
    BY <1>4 DEF ContinueUngranted, PendingOf, Ids
  <2> QED
    BY <1>2, <1>3, <1>4, <2>1
       DEF ContinueUngranted, OnePending, PendingHaltsAgent
<1>5. CASE ContinueKicked(i) \/ Continue(i)
  <2>1. \A b \in Agents : PendingOf(b)' = PendingOf(b) \ {i}
    <3>1. SetState(i, "consumed") \/ SetState(i, "approved")
      BY <1>5 DEF ContinueKicked, Continue
    <3> QED
      BY <3>1, SetStateEffect DEF PauseState, TypeOK
  <2>2. PendingOf(a)' = {}
    BY <1>1, <2>1 DEF OnePending
  <2>3. held' = held \ {a}
    BY <1>5 DEF ContinueKicked, Continue
  <2>4. OnePending'
    BY <2>1 DEF OnePending
  <2>5. PendingHaltsAgent'
    BY <1>2, <2>1, <2>2, <2>3 DEF PendingHaltsAgent
  <2> QED
    BY <1>3, <2>4, <2>5
<1> QED
  BY <1>4, <1>5

LEMMA NextHalt == HaltInv /\ [Next]_vars => HaltInv'
<1> SUFFICES ASSUME HaltInv, [Next]_vars
             PROVE  OnePending' /\ PendingHaltsAgent' /\ BatchHasTurn'
  BY NextTypeOK DEF HaltInv
<1> USE DEF HaltInv
<1>1. ASSUME UNCHANGED rows
      PROVE  \A a \in Agents : PendingOf(a)' = PendingOf(a)
  BY <1>1 DEF PendingOf, Ids
<1>2. ASSUME UNCHANGED <<rows, held, kicked, turn, dead, batch>>
      PROVE  OnePending' /\ PendingHaltsAgent' /\ BatchHasTurn'
  BY <1>1, <1>2 DEF OnePending, PendingHaltsAgent, BatchHasTurn
<1>3. ASSUME NEW a \in Agents, StartTurn(a)
      PROVE  OnePending' /\ PendingHaltsAgent' /\ BatchHasTurn'
  <2>1. PendingOf(a) = {}
    BY <1>3 DEF StartTurn, PendingHaltsAgent
  <2>2. \A b \in Agents \ {a} : turn'[b] = turn[b]
    BY <1>3 DEF StartTurn, TypeOK
  <2>3. batch[a] = <<>>
    BY <1>3 DEF StartTurn, BatchHasTurn
  <2> QED
    BY <1>1, <1>3, <2>1, <2>2, <2>3
       DEF StartTurn, OnePending, PendingHaltsAgent, BatchHasTurn
<1>4. ASSUME NEW a \in Agents, NEW calls \in Batches, Message(a, calls)
      PROVE  OnePending' /\ PendingHaltsAgent' /\ BatchHasTurn'
  <2>1. \A b \in Agents \ {a} : batch'[b] = batch[b]
    BY <1>4 DEF Message, TypeOK
  <2> QED
    BY <1>1, <1>4, <2>1
       DEF Message, OnePending, PendingHaltsAgent, BatchHasTurn
<1>5. ASSUME NEW a \in Agents, EndTurn(a)
      PROVE  OnePending' /\ PendingHaltsAgent' /\ BatchHasTurn'
  <2>1. turn'[a] = 0 /\ \A b \in Agents \ {a} : turn'[b] = turn[b]
    BY <1>5 DEF EndTurn, TypeOK
  <2> QED
    BY <1>1, <1>5, <2>1
       DEF EndTurn, OnePending, PendingHaltsAgent, BatchHasTurn
<1>6. ASSUME NEW a \in Agents, Kick(a)
      PROVE  OnePending' /\ PendingHaltsAgent' /\ BatchHasTurn'
  BY <1>1, <1>6 DEF Kick, OnePending, PendingHaltsAgent, BatchHasTurn
<1>7. ASSUME Stop
      PROVE  OnePending' /\ PendingHaltsAgent' /\ BatchHasTurn'
  <2>1. \A i \in Ids' : rows'[i].state # "pending"
    <3> SUFFICES ASSUME NEW i \in Ids PROVE rows'[i].state # "pending"
      BY <1>7 DEF Stop, Ids
    <3>1. rows[i] \in Row
      BY DEF TypeOK, Ids
    <3>2. [rows[i] EXCEPT !.state = "none"].state = "none"
      BY <3>1 DEF Row
    <3> QED
      BY <1>7, <3>2 DEF Stop
  <2>2. \A a \in Agents : PendingOf(a)' = {}
    BY <2>1 DEF PendingOf
  <2> QED
    BY <1>7, <2>2 DEF Stop, OnePending, PendingHaltsAgent, BatchHasTurn
<1>8. ASSUME Rebuild
      PROVE  OnePending' /\ PendingHaltsAgent' /\ BatchHasTurn'
  <2>1. UNCHANGED rows /\ held' = Reseeded
    BY <1>8 DEF Rebuild, stored
  <2> QED
    BY <1>1, <1>8, <2>1
       DEF Rebuild, Reseeded, OnePending, PendingHaltsAgent, BatchHasTurn
<1> QED
  BY <1>2, <1>3, <1>4, <1>5, <1>6, <1>7, <1>8, TapHalt, ContinueHalt
     DEF Next, Deliver, Refuse, EndRun, vars

-----------------------------------------------------------------------------
(* What ran was approved. *)

LEMMA GrantsFinite ==
  ASSUME TypeOK, NEW a, NEW c
  PROVE  IsFiniteSet(Grants(a, c)) /\ Cardinality(Grants(a, c)) \in Nat
<1>1. Grants(a, c) \subseteq 1..Len(rows)
  BY DEF Grants, Ids, TypeOK
<1>2. IsFiniteSet(1..Len(rows))
  BY FS_Interval DEF TypeOK
<1> QED
  BY <1>1, <1>2, FS_Subset, FS_CardinalityType

LEMMA InitApproved == Init => RunsAreApproved
<1> SUFFICES ASSUME Init, NEW a \in Agents, NEW c \in Commands
             PROVE  passed[<<a, c>>] + Cardinality(Grants(a, c)) <= audit[<<a, c>>]
  BY DEF RunsAreApproved
<1>1. Grants(a, c) = {}
  BY DEF Init, Grants, Ids
<1>2. <<a, c>> \in Call
  BY DEF Call
<1>3. passed[<<a, c>>] = 0 /\ audit[<<a, c>>] = 0
  BY <1>2 DEF Init
<1> QED
  BY <1>1, <1>3, FS_EmptySet

\* The ledgers of one call do not move and its grants do not grow.
LEMMA NoMoreGrants ==
  ASSUME TypeOK, RunsAreApproved, NEW a \in Agents, NEW c \in Commands,
         passed'[<<a, c>>] = passed[<<a, c>>],
         audit'[<<a, c>>] = audit[<<a, c>>] \/ audit'[<<a, c>>] = audit[<<a, c>>] + 1,
         Grants(a, c)' \subseteq Grants(a, c)
  PROVE  passed'[<<a, c>>] + Cardinality(Grants(a, c)') <= audit'[<<a, c>>]
<1>1. <<a, c>> \in Call
  BY DEF Call
<1>2. passed[<<a, c>>] \in Nat /\ audit[<<a, c>>] \in Nat
  BY <1>1 DEF TypeOK
<1>3. /\ Cardinality(Grants(a, c)') <= Cardinality(Grants(a, c))
      /\ Cardinality(Grants(a, c)) \in Nat /\ Cardinality(Grants(a, c)') \in Nat
  BY GrantsFinite, FS_Subset, FS_CardinalityType
<1>4. passed[<<a, c>>] + Cardinality(Grants(a, c)) <= audit[<<a, c>>]
  BY DEF RunsAreApproved
<1> QED
  BY <1>2, <1>3, <1>4

LEMMA TapRunsApproved ==
  ASSUME IInv, NEW a \in Agents, NEW c \in Commands, Tap(a, c)
  PROVE  RunsAreApproved'
<1> USE DEF IInv, HaltInv
<1>1. UNCHANGED audit
  BY TapKeepsRest DEF Tapped
<1>2. ASSUME UNCHANGED passed,
             UNCHANGED rows \/ rows' = Append(rows, NewRow(a, c, "none"))
               \/ rows' = Append(rows, NewRow(a, c, "pending"))
      PROVE  RunsAreApproved'
  <2>1. ASSUME NEW r \in Row, r.state # "approved", rows' = Append(rows, r)
        PROVE  \A b \in Agents, d \in Commands : Grants(b, d)' = Grants(b, d)
    <3>1. rows \in Seq(Row)
      BY DEF TypeOK
    <3> SUFFICES ASSUME NEW b \in Agents, NEW d \in Commands
                 PROVE  Grants(b, d)' = Grants(b, d)
      OBVIOUS
    <3>2. Grants(b, d)' = Grants(b, d) \cup
            (IF r.agent = b /\ r.cmd = d /\ r.state = "approved"
             THEN {Len(rows) + 1} ELSE {})
      BY <2>1, <3>1, AppendEffect
    <3> QED
      BY <2>1, <3>2
  <2>2. \A s \in {"none", "pending"} :
          NewRow(a, c, s) \in Row /\ NewRow(a, c, s).state # "approved"
    BY NewRowType DEF PauseState
  <2>3. \A b \in Agents, d \in Commands : Grants(b, d)' = Grants(b, d)
    BY <1>2, <2>1, <2>2 DEF Grants, Ids
  <2> QED
    BY <1>1, <1>2, <2>3 DEF RunsAreApproved
<1>3. CASE TapApproved(a, c)
  <2>1. PICK i \in Grants(a, c) :
          rows' = Append([rows EXCEPT ![i].state = "consumed"],
                         NewRow(a, c, "none"))
    BY <1>3 DEF TapApproved, IsOldestGrant
  <2>2. \A b \in Agents, d \in Commands : Grants(b, d)' = Grants(b, d) \ {i}
    BY <2>1, BurnEffect DEF TypeOK
  <2>3. <<a, c>> \in Call
    BY DEF Call
  <2>4. \/ passed' = passed
        \/ passed' = [passed EXCEPT ![<<a, c>>] = @ + 1]
    BY <1>3 DEF TapApproved, LetThrough
  <2>5. Cardinality(Grants(a, c)') = Cardinality(Grants(a, c)) - 1
    BY <2>2, GrantsFinite, FS_RemoveElement
  <2>6. passed'[<<a, c>>] + Cardinality(Grants(a, c)') <= audit'[<<a, c>>]
    <3>1. /\ passed[<<a, c>>] \in Nat /\ audit[<<a, c>>] \in Nat
          /\ Cardinality(Grants(a, c)) \in Nat
      BY <2>3, GrantsFinite DEF TypeOK
    <3>2. passed[<<a, c>>] + Cardinality(Grants(a, c)) <= audit[<<a, c>>]
      BY DEF RunsAreApproved
    <3>3. passed'[<<a, c>>] \in {passed[<<a, c>>], passed[<<a, c>>] + 1}
      BY <2>3, <2>4 DEF TypeOK
    <3> QED
      BY <1>1, <2>5, <3>1, <3>2, <3>3
  <2>7. ASSUME NEW b \in Agents, NEW d \in Commands, <<b, d>> # <<a, c>>
        PROVE  passed'[<<b, d>>] + Cardinality(Grants(b, d)') <= audit'[<<b, d>>]
    <3>1. <<b, d>> \in Call
      BY DEF Call
    <3>2. passed'[<<b, d>>] = passed[<<b, d>>]
      BY <2>4, <2>7, <3>1 DEF TypeOK
    <3> QED
      BY <1>1, <2>2, <3>2, NoMoreGrants
  <2> QED
    BY <2>6, <2>7 DEF RunsAreApproved
<1>4. CASE TapHalted(a, c)
  \* A halted agent has no live turn, so nothing is let through.
  <2>1. a \in dead
    BY <1>4 DEF TapHalted, Tapped, BatchHasTurn, PendingHaltsAgent
  <2> QED
    BY <1>2, <1>4, <2>1 DEF TapHalted, LetThrough
<1> QED
  BY <1>2, <1>3, <1>4 DEF Tap, TapUnrecorded, TapGrantUnburnt, TapPause

LEMMA ContinueRunsApproved ==
  ASSUME IInv, NEW i \in Ids,
         ContinueKicked(i) \/ ContinueUngranted(i) \/ Continue(i)
  PROVE  RunsAreApproved'
<1> USE DEF IInv, HaltInv
<1>1. rows[i].agent \in Agents /\ rows[i].cmd \in Commands
  <2>1. rows[i] \in Row
    BY DEF TypeOK, Ids
  <2> QED
    BY <2>1 DEF Row
<1> PICK a \in Agents, c \in Commands : a = rows[i].agent /\ c = rows[i].cmd
  BY <1>1
<1>2. UNCHANGED passed /\ \A b \in Agents, d \in Commands : i \notin Grants(b, d)
  BY DEF ContinueKicked, ContinueUngranted, Continue, ContinueFor, Grants
<1>3. CASE ContinueKicked(i)
  <2>1. SetState(i, "consumed") /\ UNCHANGED audit
    BY <1>3 DEF ContinueKicked
  <2>2. \A b \in Agents, d \in Commands : Grants(b, d)' \subseteq Grants(b, d)
    BY <2>1, SetStateEffect DEF PauseState, TypeOK
  <2>3. ASSUME NEW b \in Agents, NEW d \in Commands
        PROVE  passed'[<<b, d>>] + Cardinality(Grants(b, d)') <= audit'[<<b, d>>]
    BY <1>2, <2>1, <2>2, NoMoreGrants
  <2> QED
    BY <2>3 DEF RunsAreApproved
<1>4. ASSUME Record(i), NEW b \in Agents, NEW d \in Commands
      PROVE  /\ audit'[<<a, c>>] = audit[<<a, c>>] + 1
             /\ <<b, d>> # <<a, c>> => audit'[<<b, d>>] = audit[<<b, d>>]
  <2>1. <<a, c>> \in Call /\ <<b, d>> \in Call
    BY DEF Call
  <2> QED
    BY <1>4, <2>1 DEF Record, TypeOK
<1>5. CASE ContinueUngranted(i)
  <2>1. Record(i) /\ UNCHANGED rows
    BY <1>5 DEF ContinueUngranted
  <2>2. ASSUME NEW b \in Agents, NEW d \in Commands
        PROVE  passed'[<<b, d>>] + Cardinality(Grants(b, d)') <= audit'[<<b, d>>]
    <3>1. \/ audit'[<<b, d>>] = audit[<<b, d>>]
          \/ audit'[<<b, d>>] = audit[<<b, d>>] + 1
      <4>1. CASE <<b, d>> = <<a, c>>
        BY <1>4, <2>1, <4>1
      <4>2. CASE <<b, d>> # <<a, c>>
        BY <1>4, <2>1, <4>2
      <4> QED
        BY <4>1, <4>2
    <3>2. Grants(b, d)' \subseteq Grants(b, d)
      BY <2>1 DEF Grants, Ids
    <3> QED
      BY <1>2, <3>1, <3>2, NoMoreGrants
  <2> QED
    BY <2>2 DEF RunsAreApproved
<1>6. CASE Continue(i)
  <2>1. Record(i) /\ SetState(i, "approved")
    BY <1>6 DEF Continue
  <2>2. \A b \in Agents, d \in Commands :
          Grants(b, d)' = (Grants(b, d) \ {i}) \cup
            (IF a = b /\ c = d THEN {i} ELSE {})
    BY <2>1, SetStateEffect DEF PauseState, TypeOK
  <2>3. passed'[<<a, c>>] + Cardinality(Grants(a, c)') <= audit'[<<a, c>>]
    <3>1. Grants(a, c)' = Grants(a, c) \cup {i}
      BY <1>2, <2>2
    <3>2. Cardinality(Grants(a, c)') = Cardinality(Grants(a, c)) + 1
      BY <1>2, <3>1, GrantsFinite, FS_AddElement
    <3>3. <<a, c>> \in Call
      BY DEF Call
    <3>4. /\ passed[<<a, c>>] \in Nat /\ audit[<<a, c>>] \in Nat
          /\ Cardinality(Grants(a, c)) \in Nat
      BY <3>3, GrantsFinite DEF TypeOK
    <3>5. passed[<<a, c>>] + Cardinality(Grants(a, c)) <= audit[<<a, c>>]
      BY DEF RunsAreApproved
    <3> QED
      BY <1>2, <1>4, <2>1, <3>2, <3>4, <3>5
  <2>4. ASSUME NEW b \in Agents, NEW d \in Commands, <<b, d>> # <<a, c>>
        PROVE  passed'[<<b, d>>] + Cardinality(Grants(b, d)') <= audit'[<<b, d>>]
    <3>1. audit'[<<b, d>>] = audit[<<b, d>>]
      BY <1>4, <2>1, <2>4
    <3>2. Grants(b, d)' \subseteq Grants(b, d)
      BY <2>2, <2>4
    <3> QED
      BY <1>2, <3>1, <3>2, NoMoreGrants
  <2> QED
    BY <2>3, <2>4 DEF RunsAreApproved
<1> QED
  BY <1>3, <1>5, <1>6

LEMMA NextApproved == IInv /\ [Next]_vars => RunsAreApproved'
<1> SUFFICES ASSUME IInv, [Next]_vars PROVE RunsAreApproved'
  OBVIOUS
<1> USE DEF IInv, HaltInv
<1>1. ASSUME UNCHANGED <<rows, audit, passed>> PROVE RunsAreApproved'
  <2>1. \A a \in Agents, c \in Commands : Grants(a, c)' = Grants(a, c)
    BY <1>1 DEF Grants, Ids
  <2> QED
    BY <1>1, <2>1 DEF RunsAreApproved
<1>2. ASSUME Stop PROVE RunsAreApproved'
  <2>1. ASSUME NEW a \in Agents, NEW c \in Commands
        PROVE  Grants(a, c)' \subseteq Grants(a, c)
    <3> SUFFICES ASSUME NEW i \in Ids', rows'[i].state = "approved" PROVE FALSE
      BY DEF Grants
    <3>1. i \in Ids
      BY <1>2 DEF Stop, Ids
    <3>2. rows[i] \in Row
      BY <3>1 DEF TypeOK, Ids
    <3>3. [rows[i] EXCEPT !.state = "none"].state = "none"
      BY <3>2 DEF Row
    <3> QED
      BY <1>2, <3>1, <3>3 DEF Stop
  <2>2. UNCHANGED <<audit, passed>>
    BY <1>2 DEF Stop
  <2>3. ASSUME NEW a \in Agents, NEW c \in Commands
        PROVE  passed'[<<a, c>>] + Cardinality(Grants(a, c)') <= audit'[<<a, c>>]
    BY <2>1, <2>2, NoMoreGrants
  <2> QED
    BY <2>3 DEF RunsAreApproved
<1> QED
  BY <1>1, <1>2, TapRunsApproved, ContinueRunsApproved
     DEF Next, Deliver, StartTurn, Refuse, Message, EndTurn, Kick, EndRun,
         Rebuild, stored, vars

-----------------------------------------------------------------------------
(* The theorems. *)

LEMMA InitInv == Init => IInv
BY InitTypeOK, InitHalt, InitApproved DEF IInv, HaltInv

LEMMA NextInv == IInv /\ [Next]_vars => IInv'
BY NextHalt, NextApproved DEF IInv

\* The inductive invariant of the gate.
THEOREM Invariance == Spec => []IInv
BY InitInv, NextInv, PTL DEF Spec

\* Every variable keeps its type.
THEOREM Typing == Spec => []TypeOK
<1>1. IInv => TypeOK
  BY DEF IInv, HaltInv
<1> QED
  BY <1>1, Invariance, PTL

\* No dangerous call ran, and no grant stands, that the audit chain does not
\* account for with an approval of its own.
THEOREM EveryRunWasApproved == Spec => []RunsAreApproved
<1>1. IInv => RunsAreApproved
  BY DEF IInv
<1> QED
  BY <1>1, Invariance, PTL

\* An agent with a banner up runs nothing and is not let run anything.
THEOREM BannerHaltsAgent == Spec => []PendingHaltsAgent
<1>1. IInv => PendingHaltsAgent
  BY DEF IInv, HaltInv
<1> QED
  BY <1>1, Invariance, PTL

\* An agent never has two banners.
THEOREM OneBannerPerAgent == Spec => []OnePending
<1>1. IInv => OnePending
  BY DEF IInv, HaltInv
<1> QED
  BY <1>1, Invariance, PTL

\* Of all the steps that write to the table only Continue grants, and it grants
\* the row it was called for.
LEMMA GrantedByContinue ==
  ASSUME TypeOK, Next, NEW i \in Ids, rows'[i].state = "approved"
  PROVE  rows[i].state = "approved" \/ Continue(i)
<1>1. rows \in Seq(Row) /\ rows[i] \in Row
  BY DEF TypeOK, Ids
<1>2. CASE rows'[i] = rows[i]
  BY <1>2
<1>3. ASSUME NEW a \in Agents, NEW c \in Commands, Tap(a, c)
      PROVE  rows'[i] = rows[i] \/ rows'[i].state # "approved"
  <2>1. ASSUME NEW r, rows' = Append(rows, r)
        PROVE  rows'[i] = rows[i]
    BY <1>1, <2>1 DEF Ids
  <2>2. CASE TapApproved(a, c)
    <3>1. PICK j \in Ids :
            \E r : rows' = Append([rows EXCEPT ![j].state = "consumed"], r)
      BY <2>2 DEF TapApproved
    <3>2. PICK r : rows' = Append([rows EXCEPT ![j].state = "consumed"], r)
      BY <3>1
    <3>3. rows'[i] = [rows EXCEPT ![j].state = "consumed"][i]
      BY <1>1, <3>2 DEF Ids
    <3> QED
      BY <1>1, <3>3 DEF Row, Ids
  <2>3. CASE TapUnrecorded(a, c)
    BY <2>3 DEF TapUnrecorded
  <2> QED
    BY <1>3, <2>1, <2>2, <2>3 DEF Tap, TapGrantUnburnt, TapHalted, TapPause
<1>4. ASSUME NEW j \in Ids, ContinueKicked(j) \/ ContinueUngranted(j)
      PROVE  rows'[i] = rows[i] \/ rows'[i].state # "approved"
  BY <1>1, <1>4 DEF ContinueKicked, ContinueUngranted, SetState, Row, Ids
<1>5. ASSUME NEW j \in Ids, Continue(j)
      PROVE  rows'[i] = rows[i] \/ Continue(i)
  BY <1>1, <1>5 DEF Continue, SetState, Ids
<1>6. CASE Stop
  <2>1. rows'[i] = IF rows[i].state \in {"pending", "approved"}
                   THEN [rows[i] EXCEPT !.state = "none"] ELSE rows[i]
    BY <1>6 DEF Stop, Ids
  <2> QED
    BY <1>1, <2>1 DEF Row
<1> QED
  BY <1>2, <1>3, <1>4, <1>5, <1>6
  DEF Next, Deliver, StartTurn, Refuse, Message, EndTurn, Kick, EndRun, Rebuild, stored

\* A kicked agent's rows get no approval: what the tap burns and Stop clears is
\* on its way out, and Continue approves only what is not kicked.
THEOREM KickedGetsNoGrant == Spec => NoGrantForKicked
<1>1. ASSUME TypeOK, Next, NEW i \in Ids, rows[i].agent \in kicked,
             rows'[i].state = "approved"
      PROVE  rows[i].state = "approved"
  BY <1>1, GrantedByContinue DEF Continue
<1>2. TypeOK /\ [Next]_vars
        => [\A i \in Ids : rows[i].agent \in kicked /\ rows'[i].state = "approved"
                             => rows[i].state = "approved"]_vars
  BY <1>1
<1> QED
  BY <1>2, Typing, PTL DEF Spec, NoGrantForKicked

-----------------------------------------------------------------------------
(* What Continue delivers again. *)

LastOf(q) == q[Len(q)]

\* The router's captured prompt is the one it delivered last: the last of the
\* queue, or the one that runs when nothing is queued behind it.
LastIsLast ==
  \A a \in Agents :
    /\ queue[a] # <<>> => lastPrompt[a] = LastOf(queue[a])
    /\ queue[a] = <<>> /\ turn[a] # 0 => lastPrompt[a] = turn[a]

\* Only a turn can be killed.
DeadHasTurn == \A a \in dead : turn[a] # 0

ReplayInv == HaltInv /\ LastIsLast /\ DeadHasTurn

LEMMA EmptyIsZero == ASSUME NEW q \in Seq(Nat) PROVE q = <<>> <=> Len(q) = 0
OBVIOUS

\* Taking the first element off a sequence leaves the last one last.
LEMMA TailKeepsLast ==
  ASSUME NEW q \in Seq(Nat), q # <<>>
  PROVE  IF Tail(q) = <<>> THEN LastOf(q) = Head(q)
                           ELSE LastOf(Tail(q)) = LastOf(q)
<1>1. PICK t \in Seq(Nat) :
        /\ t = Tail(q)
        /\ Len(t) = Len(q) - 1
        /\ \A i \in 1..Len(t) : t[i] = q[i + 1]
  BY HeadTailProperties
<1>2. Len(q) \in Nat \ {0} /\ Head(q) = q[1]
  OBVIOUS
<1>3. t = <<>> <=> Len(q) = 1
  <2>1. Len(t) = 0 <=> Len(q) = 1
    BY <1>1, <1>2
  <2> QED
    BY <2>1, EmptyIsZero
<1>4. ASSUME Len(q) # 1 PROVE t[Len(t)] = q[Len(q)]
  <2>1. Len(t) \in 1..Len(t) /\ Len(t) + 1 = Len(q)
    BY <1>1, <1>2, <1>4
  <2> QED
    BY <1>1, <2>1
<1> QED
  BY <1>1, <1>2, <1>3, <1>4 DEF LastOf

LEMMA AppendIsLast ==
  ASSUME NEW q \in Seq(Nat), NEW p \in Nat
  PROVE  Append(q, p) # <<>> /\ LastOf(Append(q, p)) = p
BY DEF LastOf

\* A delivery captures what it queues.
LEMMA EnqueueLast ==
  ASSUME TypeOK, LastIsLast, NEW a \in Agents, NEW p \in Nat, Enqueue(a, p),
         UNCHANGED turn
  PROVE  LastIsLast'
<1>1. /\ queue'[a] = Append(queue[a], p) /\ lastPrompt'[a] = p
      /\ queue[a] \in Seq(Nat)
      /\ \A b \in Agents \ {a} :
           queue'[b] = queue[b] /\ lastPrompt'[b] = lastPrompt[b]
  BY DEF Enqueue, TypeOK
<1>2. queue'[a] # <<>> /\ LastOf(queue'[a]) = p
  BY <1>1, AppendIsLast
<1> QED
  BY <1>1, <1>2 DEF LastIsLast

\* The prompt that leaves the queue was the captured one if it was the last.
LEMMA DequeueLast ==
  ASSUME TypeOK, LastIsLast, NEW a \in Agents, StartTurn(a) \/ Refuse(a)
  PROVE  LastIsLast'
<1>1. /\ queue[a] # <<>> /\ queue[a] \in Seq(Nat) /\ queue'[a] = Tail(queue[a])
      /\ turn'[a] \in {0, Head(queue[a])}
      /\ UNCHANGED lastPrompt
      /\ \A b \in Agents \ {a} : queue'[b] = queue[b] /\ turn'[b] = turn[b]
  BY DEF StartTurn, Refuse, TypeOK
<1>2. lastPrompt[a] = LastOf(queue[a])
  BY <1>1 DEF LastIsLast
<1>3. IF queue'[a] = <<>> THEN LastOf(queue[a]) = Head(queue[a])
                          ELSE LastOf(queue'[a]) = LastOf(queue[a])
  BY <1>1, TailKeepsLast
<1> QED
  BY <1>1, <1>2, <1>3 DEF LastIsLast

LEMMA InitReplay == Init => LastIsLast /\ DeadHasTurn
BY DEF Init, LastIsLast, DeadHasTurn

LEMMA NextReplay == ReplayInv /\ [Next]_vars => LastIsLast' /\ DeadHasTurn'
<1> SUFFICES ASSUME ReplayInv, [Next]_vars PROVE LastIsLast' /\ DeadHasTurn'
  OBVIOUS
<1> USE DEF ReplayInv, HaltInv
<1>1. ASSUME UNCHANGED <<queue, lastPrompt, turn>> PROVE LastIsLast'
  BY <1>1 DEF LastIsLast
<1>2. ASSUME UNCHANGED turn, dead' \subseteq dead PROVE DeadHasTurn'
  BY <1>2 DEF DeadHasTurn
<1>3. ASSUME NEW a \in Agents, Deliver(a) PROVE LastIsLast' /\ DeadHasTurn'
  <2>1. made + 1 \in Nat
    BY DEF TypeOK
  <2> QED
    BY <1>2, <1>3, <2>1, EnqueueLast DEF Deliver
<1>4. ASSUME NEW a \in Agents, StartTurn(a) \/ Refuse(a)
      PROVE  LastIsLast' /\ DeadHasTurn'
  <2>1. dead' = dead /\ \A b \in dead : turn'[b] = turn[b]
    BY <1>4 DEF StartTurn, Refuse, DeadHasTurn, TypeOK
  <2> QED
    BY <1>4, <2>1, DequeueLast DEF DeadHasTurn
<1>5. ASSUME NEW a \in Agents, EndTurn(a) PROVE LastIsLast' /\ DeadHasTurn'
  <2>1. /\ turn'[a] = 0 /\ dead' = dead \ {a} /\ UNCHANGED <<queue, lastPrompt>>
        /\ \A b \in Agents \ {a} : turn'[b] = turn[b]
    BY <1>5 DEF EndTurn, TypeOK
  <2> QED
    BY <2>1 DEF LastIsLast, DeadHasTurn, TypeOK
<1>6. ASSUME NEW a \in Agents, NEW c \in Commands, Tap(a, c)
      PROVE  LastIsLast' /\ DeadHasTurn'
  <2>1. Tapped(a, c) /\ turn' = turn /\ UNCHANGED <<queue, lastPrompt>>
    BY <1>6, TapKeepsRest DEF Tapped
  <2>2. turn[a] # 0
    BY <2>1 DEF Tapped, BatchHasTurn
  <2>3. dead' \subseteq dead \cup {a}
    BY <1>6 DEF Tap, Throw, TapUnrecorded, TapApproved, TapGrantUnburnt,
       TapHalted, TapPause
  <2> QED
    BY <1>1, <2>1, <2>2, <2>3 DEF DeadHasTurn
<1>7. ASSUME NEW i \in Ids,
             ContinueKicked(i) \/ ContinueUngranted(i) \/ Continue(i)
      PROVE  LastIsLast' /\ DeadHasTurn'
  <2>1. UNCHANGED <<turn, dead>>
    BY <1>7 DEF ContinueKicked, ContinueUngranted, Continue, ContinueFor
  <2>2. rows[i].agent \in Agents
    <3>1. rows[i] \in Row
      BY DEF TypeOK, Ids
    <3> QED
      BY <3>1 DEF Row
  <2>3. \/ UNCHANGED <<queue, lastPrompt>>
        \/ Enqueue(rows[i].agent, lastPrompt[rows[i].agent])
    BY <1>7 DEF ContinueKicked, ContinueUngranted, Continue
  <2>4. lastPrompt[rows[i].agent] \in Nat
    BY <2>2 DEF TypeOK
  <2> QED
    BY <1>1, <1>2, <2>1, <2>2, <2>3, <2>4, EnqueueLast
<1>8. ASSUME Rebuild PROVE LastIsLast' /\ DeadHasTurn'
  BY <1>8 DEF Rebuild, LastIsLast, DeadHasTurn
<1> QED
  BY <1>1, <1>2, <1>3, <1>4, <1>5, <1>6, <1>7, <1>8
  DEF Next, Message, Kick, EndRun, Stop, vars

\* The captured prompt is the last one delivered, in every reachable state.
LEMMA ReplayInvariance == Spec => []ReplayInv
<1>1. Init => ReplayInv
  BY InitTypeOK, InitHalt, InitReplay DEF ReplayInv, HaltInv
<1>2. ReplayInv /\ [Next]_vars => ReplayInv'
  BY NextHalt, NextReplay DEF ReplayInv
<1> QED
  BY <1>1, <1>2, PTL DEF Spec

\* As long as nothing is queued behind a halted turn, the prompt that Continue
\* delivers again is that turn's own.
THEOREM ReplaysTheHaltedTurn == Spec => UndisturbedReplay
<1>1. ASSUME ReplayInv, Next, NEW i \in Ids, NEW a \in Agents,
             a = rows[i].agent, rows[i].state = "pending",
             rows'[i].state = "approved", a \in dead, queue[a] = <<>>
      PROVE  queue'[a] = <<turn[a]>>
  <2>1. Continue(i)
    BY <1>1, GrantedByContinue DEF ReplayInv, HaltInv
  <2>2. lastPrompt[a] = turn[a] /\ turn[a] # 0
    BY <1>1 DEF ReplayInv, LastIsLast, DeadHasTurn
  <2>3. Enqueue(a, turn[a])
    BY <1>1, <2>1, <2>2 DEF Continue
  <2> QED
    BY <1>1, <2>3 DEF Enqueue, ReplayInv, HaltInv, TypeOK
<1>2. ASSUME ReplayInv, Next, NEW i \in Ids
      PROVE  rows[i].agent \in Agents
  <2>1. rows[i] \in Row
    BY <1>2 DEF ReplayInv, HaltInv, TypeOK, Ids
  <2> QED
    BY <2>1 DEF Row
<1>3. ReplayInv /\ [Next]_vars
        => [\A i \in Ids :
              LET a == rows[i].agent
              IN  rows[i].state = "pending" /\ rows'[i].state = "approved"
                  /\ a \in dead /\ queue[a] = <<>>
                    => queue'[a] = <<turn[a]>>]_vars
  BY <1>1, <1>2
<1> QED
  BY <1>3, ReplayInvariance, PTL DEF Spec, UndisturbedReplay

-----------------------------------------------------------------------------
(* The gate implements ApprovalLedger. *)

LEMMA StandingAt ==
  ASSUME NEW a \in Agents, NEW c \in Commands
  PROVE  /\ <<a, c>> \in Call
         /\ Standing[<<a, c>>] = Cardinality(Grants(a, c))
         /\ Standing'[<<a, c>>] = Cardinality(Grants(a, c)')
<1>1. <<a, c>> \in Call
  BY DEF Call
<1> QED
  BY <1>1 DEF Standing

\* Grants that only go away lapse, as the ledger lets them.
LEMMA GrantsLapse ==
  ASSUME TypeOK, UNCHANGED <<audit, passed>>,
         \A a \in Agents, c \in Commands : Grants(a, c)' \subseteq Grants(a, c)
  PROVE  Ledger!Lapse
<1>1. ASSUME NEW k \in Call
      PROVE  /\ Standing'[k] \in Nat
             /\ Standing'[k] <= Standing[k]
  <2> PICK a \in Agents, c \in Commands : k = <<a, c>>
    BY DEF Call
  <2>1. /\ Cardinality(Grants(a, c)') <= Cardinality(Grants(a, c))
        /\ Cardinality(Grants(a, c)') \in Nat
    BY GrantsFinite, FS_Subset, FS_CardinalityType
  <2> QED
    BY <2>1, StandingAt
<1>2. Standing' = [k \in Call |-> Standing'[k]]
  BY DEF Standing
<1>3. Standing' \in [Call -> Nat]
  BY <1>1, <1>2
<1> QED
  BY <1>1, <1>3 DEF Ledger!Lapse

\* A write that moves the grants of one call only moves one entry.
LEMMA OneEntryMoves ==
  ASSUME NEW a \in Agents, NEW c \in Commands, NEW n,
         Cardinality(Grants(a, c)') = n,
         \A b \in Agents, d \in Commands :
           <<b, d>> # <<a, c>> => Grants(b, d)' = Grants(b, d)
  PROVE  Standing' = [Standing EXCEPT ![<<a, c>>] = n]
<1>1. <<a, c>> \in Call /\ Standing'[<<a, c>>] = n
  BY StandingAt
<1>2. ASSUME NEW k \in Call, k # <<a, c>>
      PROVE  Standing'[k] = Standing[k]
  <2> PICK b \in Agents, d \in Commands : k = <<b, d>>
    BY DEF Call
  <2>1. Grants(b, d)' = Grants(b, d)
    BY <1>2
  <2> QED
    BY <2>1, StandingAt
<1>3. /\ Standing = [k \in Call |-> Standing[k]]
      /\ Standing' = [k \in Call |-> Standing'[k]]
  BY DEF Standing
<1> QED
  BY <1>1, <1>2, <1>3

\* The tap spends a grant for the call it lets through, and lets none through
\* without one.
LEMMA TapRefines ==
  ASSUME IInv, NEW a \in Agents, NEW c \in Commands, Tap(a, c)
  PROVE  Ledger!Lapse \/ Ledger!Run(<<a, c>>)
<1> USE DEF IInv, HaltInv
<1>1. UNCHANGED audit
  BY TapKeepsRest DEF Tapped
<1>2. ASSUME UNCHANGED passed,
             UNCHANGED rows \/ rows' = Append(rows, NewRow(a, c, "none"))
               \/ rows' = Append(rows, NewRow(a, c, "pending"))
      PROVE  Ledger!Lapse
  <2>1. ASSUME NEW r \in Row, r.state # "approved", rows' = Append(rows, r)
        PROVE  \A b \in Agents, d \in Commands : Grants(b, d)' = Grants(b, d)
    <3> SUFFICES ASSUME NEW b \in Agents, NEW d \in Commands
                 PROVE  Grants(b, d)' = Grants(b, d)
      OBVIOUS
    <3>1. Grants(b, d)' = Grants(b, d) \cup
            (IF r.agent = b /\ r.cmd = d /\ r.state = "approved"
             THEN {Len(rows) + 1} ELSE {})
      BY <2>1, AppendEffect DEF TypeOK
    <3> QED
      BY <2>1, <3>1
  <2>2. \A s \in {"none", "pending"} :
          NewRow(a, c, s) \in Row /\ NewRow(a, c, s).state # "approved"
    BY NewRowType DEF PauseState
  <2>3. \A b \in Agents, d \in Commands : Grants(b, d)' = Grants(b, d)
    BY <1>2, <2>1, <2>2 DEF Grants, Ids
  <2> QED
    BY <1>1, <1>2, <2>3, GrantsLapse
<1>3. CASE TapApproved(a, c)
  <2>1. PICK i \in Grants(a, c) :
          rows' = Append([rows EXCEPT ![i].state = "consumed"],
                         NewRow(a, c, "none"))
    BY <1>3 DEF TapApproved, IsOldestGrant
  <2>2. \A b \in Agents, d \in Commands : Grants(b, d)' = Grants(b, d) \ {i}
    BY <2>1, BurnEffect DEF TypeOK
  <2>3. CASE a \in dead
    BY <1>1, <1>3, <2>2, <2>3, GrantsLapse DEF TapApproved, LetThrough
  <2>4. CASE a \notin dead
    <3>1. \A b \in Agents, d \in Commands :
            <<b, d>> # <<a, c>> => Grants(b, d)' = Grants(b, d)
      <4>1. \A b \in Agents, d \in Commands :
              <<b, d>> # <<a, c>> => i \notin Grants(b, d)
        BY DEF Grants
      <4>2. ASSUME NEW b \in Agents, NEW d \in Commands, <<b, d>> # <<a, c>>
            PROVE  Grants(b, d)' = Grants(b, d)
        <5>1. i \notin Grants(b, d) /\ Grants(b, d)' = Grants(b, d) \ {i}
          BY <2>2, <4>1, <4>2
        <5> QED
          BY <5>1
      <4> QED
        BY <4>2
    <3>2. /\ Cardinality(Grants(a, c)') = Cardinality(Grants(a, c)) - 1
          /\ Cardinality(Grants(a, c)) > 0
      <4>1. Cardinality(Grants(a, c)) # 0
        BY GrantsFinite, FS_EmptySet
      <4> QED
        BY <2>2, <4>1, GrantsFinite, FS_RemoveElement
    <3>3. Standing' = [Standing EXCEPT ![<<a, c>>] = Cardinality(Grants(a, c)) - 1]
      BY <3>1, <3>2, OneEntryMoves
    <3>4. /\ Standing[<<a, c>>] > 0
          /\ Standing' = [Standing EXCEPT ![<<a, c>>] = @ - 1]
      BY <3>2, <3>3, StandingAt
    <3>5. passed' = [passed EXCEPT ![<<a, c>>] = @ + 1]
      BY <1>3, <2>4 DEF TapApproved, LetThrough
    <3> QED
      BY <1>1, <3>4, <3>5 DEF Ledger!Run
  <2> QED
    BY <2>3, <2>4
<1>4. CASE TapHalted(a, c)
  <2>1. a \in dead
    BY <1>4 DEF TapHalted, Tapped, BatchHasTurn, PendingHaltsAgent
  <2> QED
    BY <1>2, <1>4, <2>1 DEF TapHalted, LetThrough
<1> QED
  BY <1>2, <1>3, <1>4 DEF Tap, TapUnrecorded, TapGrantUnburnt, TapPause

\* Continue approves on record; of a kicked agent it only clears the banner.
LEMMA ContinueRefines ==
  ASSUME IInv, NEW i \in Ids,
         ContinueKicked(i) \/ ContinueUngranted(i) \/ Continue(i)
  PROVE  Ledger!Next
<1> USE DEF IInv, HaltInv
<1>1. rows[i].agent \in Agents /\ rows[i].cmd \in Commands
  <2>1. rows[i] \in Row
    BY DEF TypeOK, Ids
  <2> QED
    BY <2>1 DEF Row
<1> PICK a \in Agents, c \in Commands : a = rows[i].agent /\ c = rows[i].cmd
  BY <1>1
<1>2. UNCHANGED passed /\ \A b \in Agents, d \in Commands : i \notin Grants(b, d)
  BY DEF ContinueKicked, ContinueUngranted, Continue, ContinueFor, Grants
<1>3. CASE ContinueKicked(i)
  <2>1. SetState(i, "consumed") /\ UNCHANGED audit
    BY <1>3 DEF ContinueKicked
  <2>2. \A b \in Agents, d \in Commands : Grants(b, d)' \subseteq Grants(b, d)
    BY <2>1, SetStateEffect DEF PauseState, TypeOK
  <2> QED
    BY <1>2, <2>1, <2>2, GrantsLapse DEF Ledger!Next
<1>4. CASE ContinueUngranted(i)
  <2>1. audit' = [audit EXCEPT ![<<a, c>>] = @ + 1] /\ UNCHANGED rows
    BY <1>4 DEF ContinueUngranted, Record
  <2>2. Standing' = Standing
    BY <2>1 DEF Standing, Grants, Ids
  <2>3. Ledger!Approve(<<a, c>>)
    BY <1>2, <2>1, <2>2 DEF Ledger!Approve
  <2> QED
    BY <2>3, StandingAt DEF Ledger!Next
<1>5. CASE Continue(i)
  <2>1. audit' = [audit EXCEPT ![<<a, c>>] = @ + 1] /\ SetState(i, "approved")
    BY <1>5 DEF Continue, Record
  <2>2. \A b \in Agents, d \in Commands :
          Grants(b, d)' = (Grants(b, d) \ {i}) \cup
            (IF a = b /\ c = d THEN {i} ELSE {})
    BY <2>1, SetStateEffect DEF PauseState, TypeOK
  <2>3. Cardinality(Grants(a, c)') = Cardinality(Grants(a, c)) + 1
    <3>1. Grants(a, c)' = Grants(a, c) \cup {i}
      BY <1>2, <2>2
    <3> QED
      BY <1>2, <3>1, GrantsFinite, FS_AddElement
  <2>4. \A b \in Agents, d \in Commands :
          <<b, d>> # <<a, c>> => Grants(b, d)' = Grants(b, d)
    BY <1>2, <2>2
  <2>5. Standing' = [Standing EXCEPT ![<<a, c>>] = @ + 1]
    BY <2>3, <2>4, OneEntryMoves, StandingAt
  <2>6. Ledger!Approve(<<a, c>>)
    BY <1>2, <2>1, <2>5 DEF Ledger!Approve
  <2> QED
    BY <2>6, StandingAt DEF Ledger!Next
<1> QED
  BY <1>3, <1>4, <1>5

LEMMA NextRefines == IInv /\ [Next]_vars => [Ledger!Next]_Ledger!vars
<1> SUFFICES ASSUME IInv, [Next]_vars PROVE [Ledger!Next]_Ledger!vars
  OBVIOUS
<1> USE DEF IInv, HaltInv
<1>1. ASSUME UNCHANGED <<rows, audit, passed>> PROVE UNCHANGED Ledger!vars
  BY <1>1 DEF Ledger!vars, Standing, Grants, Ids
<1>2. ASSUME NEW a \in Agents, NEW c \in Commands, Tap(a, c) PROVE Ledger!Next
  BY <1>2, TapRefines, StandingAt DEF Ledger!Next
<1>3. ASSUME Stop PROVE Ledger!Next
  <2>1. ASSUME NEW a \in Agents, NEW c \in Commands
        PROVE  Grants(a, c)' \subseteq Grants(a, c)
    <3> SUFFICES ASSUME NEW i \in Ids', rows'[i].state = "approved" PROVE FALSE
      BY DEF Grants
    <3>1. i \in Ids
      BY <1>3 DEF Stop, Ids
    <3>2. rows[i] \in Row
      BY <3>1 DEF TypeOK, Ids
    <3>3. [rows[i] EXCEPT !.state = "none"].state = "none"
      BY <3>2 DEF Row
    <3> QED
      BY <1>3, <3>1, <3>3 DEF Stop
  <2> QED
    BY <1>3, <2>1, GrantsLapse DEF Stop, Ledger!Next
<1> QED
  BY <1>1, <1>2, <1>3, ContinueRefines
  DEF Next, Deliver, StartTurn, Refuse, Message, EndTurn, Kick, EndRun,
      Rebuild, stored, vars

LEMMA InitRefines == Init => Ledger!Init
<1> SUFFICES ASSUME Init PROVE Ledger!Init
  OBVIOUS
<1>1. ASSUME NEW k \in Call PROVE Standing[k] = 0
  <2> PICK a \in Agents, c \in Commands : k = <<a, c>>
    BY DEF Call
  <2>1. Grants(a, c) = {}
    BY DEF Init, Grants, Ids
  <2> QED
    BY <2>1, StandingAt, FS_EmptySet
<1>2. Standing = [k \in Call |-> Standing[k]]
  BY DEF Standing
<1>3. Standing = [k \in Call |-> 0]
  BY <1>1, <1>2
<1> QED
  BY <1>3 DEF Init, Ledger!Init

\* A dangerous call runs only by spending a grant, one run to a grant, and a
\* grant comes only of an approval that is on record first: whatever the taps,
\* the operator, kicks, restarts and failed writes do to the rows, each step is
\* a step of ApprovalLedger or leaves it alone.
THEOREM Refinement == Spec => ImplementsApprovalLedger
<1>1. IInv /\ [Next]_vars => [Ledger!Next]_Ledger!vars
  BY NextRefines
<1> QED
  BY <1>1, InitRefines, Invariance, PTL DEF Spec, Ledger!Spec, ImplementsApprovalLedger
=============================================================================
