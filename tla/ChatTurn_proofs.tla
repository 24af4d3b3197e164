--------------------------- MODULE ChatTurn_proofs ---------------------------
(***************************************************************************)
(* Proofs about ChatTurn, for any windows, sessions and bounds.            *)
(*                                                                         *)
(* What Stop and the retry rely on is kept by the session, not by the turn:*)
(* the map entry and the captured prompt.  A turn's own are safe because,  *)
(* as long as a session has not had two turns at a time, its turn past the *)
(* gates is the only one (Alone), and nobody else undoes what it set up.   *)
(***************************************************************************)
EXTENDS ChatTurn, TLAPS

Alone ==
  \A t, u \in Turns :
    /\ phase[t] \in PastGate /\ phase[u] \in PastGate
    /\ Chat(t) = Chat(u) /\ Chat(t) \notin overlapped
    => t = u

\* A turn past the gates has its prompt at hand in case it is held.
PromptsAtHand ==
  \A t \in Turns :
    phase[t] \in PastGate /\ Win(t) \in open /\ Chat(t) \notin overlapped
      => At(t) \in captured

\* A turn at the gates has asked nothing yet.
GatesAskNothing == \A t \in Turns : phase[t] = "gate" => ask[t] = "none"

IInv ==
  /\ TypeOK
  /\ Alone /\ EntriesAreLive /\ StopFindsTheTurn
  /\ PromptsAtHand /\ HeldPromptIsKept
  /\ GatesAskNothing /\ CardsEndWithTheirTurn

LEMMA TurnParts ==
  /\ \A t \in Turns : /\ Win(t) \in Conns /\ Chat(t) \in Sessions
                      /\ Slot(t) \in 1..Slots /\ At(t) \in Conns \X Sessions
                      /\ At(t) = <<Win(t), Chat(t)>>
  /\ \A t, u \in Turns : At(t) = At(u) => Win(t) = Win(u) /\ Chat(t) = Chat(u)
  /\ \A t, u \in Turns : At(t) = At(u) /\ Slot(t) = Slot(u) => t = u
<1>1. \A t \in Turns : t = <<t[1], t[2], t[3]>> /\ t[1] \in Conns
                       /\ t[2] \in Sessions /\ t[3] \in 1..Slots
  BY DEF Turns
<1> QED
  BY <1>1 DEF Win, Chat, Slot, At

\* Draining takes a card away or leaves it alone.
LEMMA Draining ==
  ASSUME NEW P, NEW S, TypeOK
  PROVE  /\ Drained(P, S) \in [Turns -> Asks]
         /\ \A t \in Turns : Drained(P, S)[t] \in {"none", ask[t]}
         /\ \A t \in Turns : At(t) \in P /\ Chat(t) \in S =>
              Drained(P, S)[t] \notin {"parked", "question"}
BY DEF Drained, TypeOK, Asks, Pending

LEMMA InitIInv == Init => IInv
<1> SUFFICES ASSUME Init PROVE IInv
  OBVIOUS
<1>1. inFlight \in [Conns \X Sessions -> 0..Slots]
  BY SlotsAssumption DEF Init
<1>2. phase \in [Turns -> Phases] /\ stop \in [Turns -> {"no", "asked", "answered", "aborted"}]
      /\ ask \in [Turns -> Asks]
  BY DEF Init, Phases, Asks
<1>3. TypeOK
  BY <1>1, <1>2 DEF Init, TypeOK, PastGate, Streaming
<1>4. EntriesAreLive
  BY TurnParts DEF Init, EntriesAreLive
<1>5. Alone /\ StopFindsTheTurn /\ PromptsAtHand
  BY DEF Init, Alone, StopFindsTheTurn, PromptsAtHand, PastGate, Streaming
<1>6. HeldPromptIsKept /\ GatesAskNothing /\ CardsEndWithTheirTurn
  BY DEF Init, HeldPromptIsKept, GatesAskNothing, CardsEndWithTheirTurn
<1> QED
  BY <1>3, <1>4, <1>5, <1>6 DEF IInv

-----------------------------------------------------------------------------
(* Types, and what the registry and the stops have to do with the phase.    *)

LEMMA TypeInv == IInv /\ [Next]_vars => TypeOK'
<1> SUFFICES ASSUME IInv, [Next]_vars PROVE TypeOK'
  OBVIOUS
<1>0. TypeOK /\ EntriesAreLive
  BY DEF IInv
<1> USE DEF Phases, PastGate, Streaming
<1>1. ASSUME NEW t \in Turns, RunOneTurn(t) PROVE TypeOK'
  BY <1>0, <1>1 DEF RunOneTurn, Busy, TypeOK, dialogue, prompts
<1>2. ASSUME NEW t \in Turns, GateDeclined(t) PROVE TypeOK'
  BY <1>0, <1>2 DEF GateDeclined, TypeOK, dialogue
<1>3. ASSUME NEW t \in Turns, GateClears(t) PROVE TypeOK'
  <2>1. Chat(t) \in Sessions /\ At(t) \in Conns \X Sessions
    BY TurnParts
  <2>2. overlapped' \subseteq Sessions
    BY <1>0, <1>3, <2>1 DEF GateClears, TypeOK
  <2> QED
    BY <1>0, <1>3, <2>1, <2>2 DEF GateClears, TypeOK, dialogue
<1>4. ASSUME NEW t \in Turns, PromptWritten(t) PROVE TypeOK'
  <2>1. At(t) \in Conns \X Sessions /\ Slot(t) \in 0..Slots
    BY TurnParts, SlotsAssumption
  <2> QED
    BY <1>0, <1>4, <2>1 DEF PromptWritten, TypeOK
<1>5. ASSUME UNCHANGED <<open, rows, phase, inFlight, registered, stop, prompts, overlapped>>,
             ask' \in [Turns -> Asks]
      PROVE  TypeOK'
  BY <1>0, <1>5 DEF TypeOK, prompts
<1>6. ASSUME NEW t \in Turns,
             AskOperator(t) \/ CardParked(t) \/ PermissionDecision(t)
      PROVE  TypeOK'
  <2>1. ask' \in [Turns -> Asks]
    BY <1>0, <1>6 DEF AskOperator, CardParked, PermissionDecision, TypeOK, Asks, Pending
  <2> QED
    BY <1>5, <1>6, <2>1 DEF AskOperator, CardParked, PermissionDecision
<1>7. ASSUME NEW c \in Conns, NEW t \in Turns, AskUserAnswer(c, t) PROVE TypeOK'
  <2>1. ask' \in [Turns -> Asks]
    BY <1>0, <1>7 DEF AskUserAnswer, TypeOK, Asks
  <2> QED
    BY <1>5, <1>7, <2>1 DEF AskUserAnswer
<1>8. ASSUME NEW c \in Conns, NEW s \in Sessions, Interrupt(c, s) PROVE TypeOK'
  <2>1. ask' \in [Turns -> Asks]
    BY <1>0, <1>8, Draining DEF Interrupt
  <2>2. stop' \in [Turns -> {"no", "asked", "answered", "aborted"}]
    BY <1>0, <1>8 DEF Interrupt, TypeOK
  <2>3. ASSUME NEW t \in Turns, phase'[t] \notin Streaming PROVE stop'[t] = "no"
    BY <1>0, <1>8, <2>3 DEF Interrupt, TypeOK, EntriesAreLive
  <2> QED
    BY <1>0, <1>8, <2>1, <2>2, <2>3 DEF Interrupt, TypeOK, prompts
<1>9. ASSUME NEW t \in Turns, InterruptAnswered(t) \/ WatchdogFires(t) PROVE TypeOK'
  BY <1>0, <1>9 DEF InterruptAnswered, WatchdogFires, TypeOK, prompts
<1>10. ASSUME NEW c \in Conns, Close(c) PROVE TypeOK'
  <2>1. ask' \in [Turns -> Asks]
    BY <1>0, <1>10, Draining DEF Close
  <2>2. stop' \in [Turns -> {"no", "asked", "answered", "aborted"}]
    BY <1>0, <1>10 DEF Close, TypeOK
  <2>3. inFlight' \in [Conns \X Sessions -> 0..Slots]
    BY <1>0, <1>10, SlotsAssumption DEF Close, TypeOK
  <2>4. phase' \in [Turns -> Phases] /\ \A t \in Turns : phase'[t] \in PastGate <=> phase[t] \in PastGate
    BY <1>0, <1>10 DEF Close, TypeOK
  <2>5. ASSUME NEW t \in Turns, phase'[t] \notin Streaming PROVE stop'[t] = "no"
    BY <1>0, <1>10, <2>5 DEF Close, TypeOK, EntriesAreLive
  <2> QED
    BY <1>0, <1>10, <2>1, <2>2, <2>3, <2>4, <2>5 DEF Close, TypeOK
<1>11. ASSUME NEW t \in Turns, NEW l \in BOOLEAN, Over(t, l) PROVE TypeOK'
  <2>1. At(t) \in Conns \X Sessions /\ 0 \in 0..Slots
    BY TurnParts, SlotsAssumption
  <2>2. ask' \in [Turns -> Asks]
    BY <1>0, <1>11, Draining DEF Over
  <2>3. inFlight' \in [Conns \X Sessions -> 0..Slots]
    BY <1>0, <1>11, <2>1 DEF Over, TypeOK
  <2>4. captured' \subseteq Conns \X Sessions /\ banner' \subseteq Conns \X Sessions
    BY <1>0, <1>11, <2>1 DEF Over, TypeOK
  <2>5. phase' \in [Turns -> Phases] /\ registered' = {u \in Turns : phase'[u] \in PastGate}
    BY <1>0, <1>11 DEF Over, TypeOK
  <2>6. stop' \in [Turns -> {"no", "asked", "answered", "aborted"}]
        /\ \A u \in Turns : phase'[u] \notin Streaming => stop'[u] = "no"
    BY <1>0, <1>11 DEF Over, TypeOK
  <2> QED
    BY <1>0, <1>11, <2>2, <2>3, <2>4, <2>5, <2>6 DEF Over, TypeOK
<1>12. ASSUME NEW t \in Turns, StreamEnds(t) \/ ErrorWritten(t) PROVE TypeOK'
  BY <1>11, <1>12 DEF StreamEnds, ErrorWritten
<1>13. ASSUME NEW t \in Turns, StreamFails(t) PROVE TypeOK'
  BY <1>0, <1>13 DEF StreamFails, TypeOK, dialogue, prompts
<1>14. CASE UNCHANGED vars
  BY <1>0, <1>14 DEF vars, TypeOK
<1> QED
  BY <1>1, <1>2, <1>3, <1>4, <1>6, <1>7, <1>8, <1>9, <1>10, <1>12, <1>13, <1>14
  DEF Next, SendMessage, RetryRateLimited

-----------------------------------------------------------------------------
(* One turn past the gates, and the map that Stop looks it up in.           *)

\* A step that opens or closes no stream and no gate leaves both alone.
LEMMA EntriesUnchanged ==
  ASSUME Alone, EntriesAreLive, StopFindsTheTurn,
         phase' = phase, inFlight' = inFlight, open' = open, overlapped' = overlapped
  PROVE  Alone' /\ EntriesAreLive' /\ StopFindsTheTurn'
BY DEF Alone, EntriesAreLive, StopFindsTheTurn

LEMMA EntriesInv == IInv /\ [Next]_vars => Alone' /\ EntriesAreLive' /\ StopFindsTheTurn'
<1> SUFFICES ASSUME IInv, [Next]_vars
             PROVE  Alone' /\ EntriesAreLive' /\ StopFindsTheTurn'
  OBVIOUS
<1>0. TypeOK /\ Alone /\ EntriesAreLive /\ StopFindsTheTurn
  BY DEF IInv
<1> USE DEF Phases, PastGate, Streaming
<1>1. ASSUME NEW t \in Turns, RunOneTurn(t) \/ GateDeclined(t)
      PROVE  Alone' /\ EntriesAreLive' /\ StopFindsTheTurn'
  <2>1. UNCHANGED <<open, inFlight, overlapped>>
    BY <1>1 DEF RunOneTurn, GateDeclined, dialogue
  <2>2. \A u \in Turns : /\ phase'[u] \in PastGate <=> phase[u] \in PastGate
                         /\ phase'[u] \in Streaming <=> phase[u] \in Streaming
    BY <1>0, <1>1 DEF RunOneTurn, GateDeclined, Busy, TypeOK
  <2> QED
    BY <1>0, <2>1, <2>2 DEF Alone, EntriesAreLive, StopFindsTheTurn
<1>2. ASSUME NEW t \in Turns, GateClears(t)
      PROVE  Alone' /\ EntriesAreLive' /\ StopFindsTheTurn'
  <2>1. \A u \in Turns : phase'[u] \in Streaming <=> phase[u] \in Streaming
    BY <1>0, <1>2 DEF GateClears, TypeOK
  <2>2. UNCHANGED <<open, inFlight>> /\ overlapped \subseteq overlapped'
    BY <1>0, <1>2 DEF GateClears, dialogue
  <2>3. EntriesAreLive' /\ StopFindsTheTurn'
    BY <1>0, <2>1, <2>2 DEF EntriesAreLive, StopFindsTheTurn
  <2>4. \A u \in Turns : u # t => phase'[u] = phase[u]
    BY <1>0, <1>2 DEF GateClears, TypeOK
  <2>5. \A u \in Turns : Chat(u) = Chat(t) /\ phase[u] \in PastGate => Chat(t) \in overlapped'
    BY <1>0, <1>2 DEF GateClears
  <2> QED
    BY <1>0, <2>2, <2>3, <2>4, <2>5 DEF Alone
<1>3. ASSUME NEW t \in Turns, PromptWritten(t)
      PROVE  Alone' /\ EntriesAreLive' /\ StopFindsTheTurn'
  <2>1. \A u \in Turns : u # t => phase'[u] = phase[u]
    BY <1>0, <1>3 DEF PromptWritten, TypeOK
  <2>2. phase[t] \in PastGate /\ phase'[t] \in Streaming
    BY <1>0, <1>3 DEF PromptWritten, TypeOK
  <2>3. \A u \in Turns : inFlight'[At(u)] = IF At(u) = At(t) THEN Slot(t) ELSE inFlight[At(u)]
    BY <1>0, <1>3, TurnParts DEF PromptWritten, TypeOK
  <2>4. UNCHANGED <<open, overlapped>>
    BY <1>3 DEF PromptWritten
  <2>5. Alone'
    BY <1>0, <2>1, <2>2, <2>4 DEF Alone
  <2>6. EntriesAreLive'
    BY <1>0, <2>1, <2>2, <2>3, TurnParts DEF EntriesAreLive
  <2>7. ASSUME NEW u \in Turns, phase'[u] \in Streaming, Win(u) \in open, Chat(u) \notin overlapped
        PROVE  inFlight'[At(u)] = Slot(u)
    <3>1. CASE u = t
      BY <3>1, <2>3
    <3>2. CASE u # t
      <4>1. At(u) # At(t)
        BY <1>0, <2>1, <2>2, <2>7, <3>2, TurnParts DEF Alone
      <4> QED
        BY <1>0, <2>1, <2>3, <2>7, <3>2, <4>1 DEF StopFindsTheTurn
    <3> QED
      BY <3>1, <3>2
  <2> QED
    BY <2>4, <2>5, <2>6, <2>7 DEF StopFindsTheTurn
<1>4. ASSUME NEW t \in Turns,
             \/ AskOperator(t) \/ CardParked(t) \/ PermissionDecision(t)
             \/ InterruptAnswered(t) \/ WatchdogFires(t)
      PROVE  Alone' /\ EntriesAreLive' /\ StopFindsTheTurn'
  BY <1>0, <1>4, EntriesUnchanged
  DEF AskOperator, CardParked, PermissionDecision, InterruptAnswered, WatchdogFires
<1>5. ASSUME NEW c \in Conns,
             \/ \E s \in Sessions : Interrupt(c, s)
             \/ \E t \in Turns : AskUserAnswer(c, t)
      PROVE  Alone' /\ EntriesAreLive' /\ StopFindsTheTurn'
  BY <1>0, <1>5, EntriesUnchanged DEF Interrupt, AskUserAnswer
<1>6. ASSUME NEW c \in Conns, Close(c)
      PROVE  Alone' /\ EntriesAreLive' /\ StopFindsTheTurn'
  <2>1. \A u \in Turns : /\ phase'[u] \in PastGate <=> phase[u] \in PastGate
                         /\ phase'[u] \in Streaming <=> phase[u] \in Streaming
    BY <1>0, <1>6 DEF Close, TypeOK
  <2>2. \A u \in Turns : inFlight'[At(u)] = IF Win(u) = c THEN 0 ELSE inFlight[At(u)]
    <3>1. \A u \in Turns : At(u) \in Conns \X Sessions /\ At(u)[1] = Win(u)
      BY TurnParts
    <3>2. inFlight' = [q \in Conns \X Sessions |-> IF q[1] = c THEN 0 ELSE inFlight[q]]
      BY <1>6 DEF Close
    <3> QED
      BY <3>1, <3>2
  <2>3. open' = open \ {c} /\ overlapped' = overlapped
    BY <1>6 DEF Close
  <2>4. \A u \in Turns : Slot(u) # 0
    BY TurnParts, SlotsAssumption
  <2> QED
    BY <1>0, <2>1, <2>2, <2>3, <2>4 DEF Alone, EntriesAreLive, StopFindsTheTurn
<1>7. ASSUME NEW t \in Turns, NEW l \in BOOLEAN, phase[t] \in Streaming, Over(t, l)
      PROVE  Alone' /\ EntriesAreLive' /\ StopFindsTheTurn'
  <2>1. phase'[t] = "idle" /\ \A u \in Turns : u # t => phase'[u] = phase[u]
    BY <1>0, <1>7 DEF Over, TypeOK
  <2>2. \A u \in Turns : inFlight'[At(u)] = IF At(u) = At(t) THEN 0 ELSE inFlight[At(u)]
    BY <1>0, <1>7, TurnParts DEF Over, TypeOK
  <2>3. UNCHANGED <<open, overlapped>>
    BY <1>7 DEF Over
  <2>4. \A u \in Turns : Slot(u) # 0
    BY TurnParts, SlotsAssumption
  <2>5. Alone'
    BY <1>0, <2>1, <2>3 DEF Alone
  <2>6. EntriesAreLive'
    BY <1>0, <2>1, <2>2, <2>4 DEF EntriesAreLive
  <2>7. ASSUME NEW u \in Turns, phase'[u] \in Streaming, Win(u) \in open, Chat(u) \notin overlapped
        PROVE  inFlight'[At(u)] = Slot(u)
    <3>1. u # t /\ phase[u] \in Streaming
      BY <2>1, <2>7
    <3>2. At(u) # At(t)
      BY <1>0, <1>7, <2>7, <3>1, TurnParts DEF Alone
    <3> QED
      BY <1>0, <2>2, <2>7, <3>1, <3>2 DEF StopFindsTheTurn
  <2> QED
    BY <2>3, <2>5, <2>6, <2>7 DEF StopFindsTheTurn
<1>8. ASSUME NEW t \in Turns, StreamEnds(t) \/ ErrorWritten(t)
      PROVE  Alone' /\ EntriesAreLive' /\ StopFindsTheTurn'
  BY <1>7, <1>8 DEF StreamEnds, ErrorWritten
<1>9. ASSUME NEW t \in Turns, StreamFails(t)
      PROVE  Alone' /\ EntriesAreLive' /\ StopFindsTheTurn'
  <2>1. UNCHANGED <<open, inFlight, overlapped>>
    BY <1>9 DEF StreamFails, dialogue
  <2>2. \A u \in Turns : /\ phase'[u] \in PastGate <=> phase[u] \in PastGate
                         /\ phase'[u] \in Streaming <=> phase[u] \in Streaming
    BY <1>0, <1>9 DEF StreamFails, TypeOK
  <2> QED
    BY <1>0, <2>1, <2>2 DEF Alone, EntriesAreLive, StopFindsTheTurn
<1>10. CASE UNCHANGED vars
  BY <1>0, <1>10, EntriesUnchanged DEF vars
<1> QED
  BY <1>1, <1>2, <1>3, <1>4, <1>5, <1>6, <1>8, <1>9, <1>10
  DEF Next, SendMessage, RetryRateLimited

-----------------------------------------------------------------------------
(* The captured prompts.                                                    *)

LEMMA PromptsInv == IInv /\ [Next]_vars => PromptsAtHand' /\ HeldPromptIsKept'
<1> SUFFICES ASSUME IInv, [Next]_vars PROVE PromptsAtHand' /\ HeldPromptIsKept'
  OBVIOUS
<1>0. TypeOK /\ Alone /\ PromptsAtHand /\ HeldPromptIsKept
  BY DEF IInv
<1> USE DEF Phases, PastGate, Streaming
\* A step that takes no prompt, shows no banner and starts no turn.
<1>1. ASSUME captured' = captured, banner' \subseteq banner,
             open' = open, overlapped' = overlapped,
             \A u \in Turns : phase'[u] \in PastGate => phase[u] \in PastGate
      PROVE  PromptsAtHand' /\ HeldPromptIsKept'
  <2>1. \A p \in banner' : p \in banner
    BY <1>1
  <2> QED
    BY <1>0, <1>1, <2>1 DEF PromptsAtHand, HeldPromptIsKept
<1>2. ASSUME NEW t \in Turns, RunOneTurn(t) \/ GateDeclined(t) \/ PromptWritten(t) \/ StreamFails(t)
      PROVE  PromptsAtHand' /\ HeldPromptIsKept'
  <2>1. \A u \in Turns : phase'[u] \in PastGate => phase[u] \in PastGate
    BY <1>0, <1>2 DEF RunOneTurn, GateDeclined, PromptWritten, StreamFails, TypeOK
  <2> QED
    BY <1>1, <1>2, <2>1 DEF RunOneTurn, GateDeclined, PromptWritten, StreamFails, prompts
<1>3. ASSUME NEW t \in Turns, GateClears(t) PROVE PromptsAtHand' /\ HeldPromptIsKept'
  <2>1. \A u \in Turns : u # t => phase'[u] = phase[u]
    BY <1>0, <1>3 DEF GateClears, TypeOK
  <2>2. captured' = captured \cup {At(t)} /\ overlapped \subseteq overlapped'
    BY <1>3 DEF GateClears
  <2>3. UNCHANGED <<open, banner>>
    BY <1>3 DEF GateClears
  <2> QED
    BY <1>0, <2>1, <2>2, <2>3 DEF PromptsAtHand, HeldPromptIsKept
<1>4. ASSUME NEW t \in Turns,
             \/ AskOperator(t) \/ CardParked(t) \/ PermissionDecision(t)
             \/ InterruptAnswered(t) \/ WatchdogFires(t)
      PROVE  PromptsAtHand' /\ HeldPromptIsKept'
  BY <1>1, <1>4
  DEF AskOperator, CardParked, PermissionDecision, InterruptAnswered, WatchdogFires, prompts
<1>5. ASSUME NEW c \in Conns,
             \/ \E s \in Sessions : Interrupt(c, s)
             \/ \E t \in Turns : AskUserAnswer(c, t)
      PROVE  PromptsAtHand' /\ HeldPromptIsKept'
  BY <1>1, <1>5 DEF Interrupt, AskUserAnswer, prompts
<1>6. ASSUME NEW c \in Conns, Close(c) PROVE PromptsAtHand' /\ HeldPromptIsKept'
  <2>1. \A u \in Turns : phase'[u] \in PastGate => phase[u] \in PastGate
    BY <1>0, <1>6 DEF Close, TypeOK
  <2>2. \A u \in Turns : At(u)[1] = Win(u)
    BY DEF At, Win
  <2>3. open' = open \ {c} /\ overlapped' = overlapped
        /\ captured' = {p \in captured : p[1] # c} /\ banner' = {p \in banner : p[1] # c}
    BY <1>6 DEF Close
  <2> QED
    BY <1>0, <2>1, <2>2, <2>3 DEF PromptsAtHand, HeldPromptIsKept
<1>7. ASSUME NEW t \in Turns, NEW l \in BOOLEAN, phase[t] \in Streaming, Over(t, l)
      PROVE  PromptsAtHand' /\ HeldPromptIsKept'
  <2>1. phase'[t] = "idle" /\ \A u \in Turns : u # t => phase'[u] = phase[u]
    BY <1>0, <1>7 DEF Over, TypeOK
  <2>2. UNCHANGED <<open, overlapped>> /\ captured \ {At(t)} \subseteq captured'
    BY <1>7 DEF Over
  <2>3. ASSUME NEW u \in Turns, phase'[u] \in PastGate, Win(u) \in open, Chat(u) \notin overlapped
        PROVE  At(u) \in captured'
    <3>1. u # t /\ phase[u] \in PastGate
      BY <2>1, <2>3
    <3>2. At(u) # At(t)
      BY <1>0, <1>7, <2>3, <3>1, TurnParts DEF Alone
    <3> QED
      BY <1>0, <2>2, <2>3, <3>1, <3>2 DEF PromptsAtHand
  <2>4. At(t)[2] = Chat(t)
    BY DEF At, Chat
  <2>5. ASSUME NEW p \in banner', p[2] \notin overlapped PROVE p \in captured'
    <3>1. CASE l
      <4>1. captured' = captured /\ (p \in banner \/ (p = At(t) /\ Win(t) \in open))
        BY <1>7, <2>5, <3>1 DEF Over
      <4>2. CASE p \in banner
        BY <1>0, <2>5, <4>1, <4>2 DEF HeldPromptIsKept
      <4>3. CASE p = At(t) /\ Win(t) \in open
        BY <1>0, <1>7, <2>4, <2>5, <4>1, <4>3 DEF PromptsAtHand
      <4> QED
        BY <4>1, <4>2, <4>3
    <3>2. CASE ~l
      <4>1. p \in banner /\ p # At(t) /\ captured' = captured \ {At(t)}
        BY <1>7, <2>5, <3>2 DEF Over
      <4> QED
        BY <1>0, <2>5, <4>1 DEF HeldPromptIsKept
    <3> QED
      BY <3>1, <3>2
  <2> QED
    BY <2>2, <2>3, <2>5 DEF PromptsAtHand, HeldPromptIsKept
<1>8. ASSUME NEW t \in Turns, StreamEnds(t) \/ ErrorWritten(t)
      PROVE  PromptsAtHand' /\ HeldPromptIsKept'
  BY <1>7, <1>8 DEF StreamEnds, ErrorWritten
<1>9. CASE UNCHANGED vars
  BY <1>1, <1>9 DEF vars
<1> QED
  BY <1>2, <1>3, <1>4, <1>5, <1>6, <1>8, <1>9 DEF Next, SendMessage, RetryRateLimited

-----------------------------------------------------------------------------
(* The cards.                                                               *)

LEMMA CardsInv == IInv /\ [Next]_vars => GatesAskNothing' /\ CardsEndWithTheirTurn'
<1> SUFFICES ASSUME IInv, [Next]_vars PROVE GatesAskNothing' /\ CardsEndWithTheirTurn'
  OBVIOUS
<1>0. TypeOK /\ GatesAskNothing /\ CardsEndWithTheirTurn
  BY DEF IInv
<1> USE DEF Phases, PastGate, Streaming
\* A step that only takes cards away, and sends no turn out of its stream.
<1>1. ASSUME \A u \in Turns : ask'[u] \in {"none", ask[u]},
             \A u \in Turns : phase'[u] = "gate" => phase[u] = "gate",
             \A u \in Turns : phase[u] \in PastGate => phase'[u] \in PastGate
      PROVE  GatesAskNothing' /\ CardsEndWithTheirTurn'
  BY <1>0, <1>1 DEF GatesAskNothing, CardsEndWithTheirTurn
<1>2. ASSUME NEW t \in Turns, RunOneTurn(t) PROVE GatesAskNothing' /\ CardsEndWithTheirTurn'
  <2>1. \A u \in Turns : u # t => phase'[u] = phase[u]
    BY <1>0, <1>2 DEF RunOneTurn, TypeOK
  <2>2. ask' = ask /\ ask[t] = "none"
    BY <1>2 DEF RunOneTurn, Busy, dialogue
  <2> QED
    BY <1>0, <2>1, <2>2 DEF GatesAskNothing, CardsEndWithTheirTurn
<1>3. ASSUME NEW t \in Turns, GateDeclined(t) \/ GateClears(t) \/ PromptWritten(t) \/ StreamFails(t)
      PROVE  GatesAskNothing' /\ CardsEndWithTheirTurn'
  <2>1. ask' = ask
    BY <1>3 DEF GateDeclined, GateClears, PromptWritten, StreamFails, dialogue
  <2>2. \A u \in Turns : phase'[u] = "gate" => phase[u] = "gate"
    BY <1>0, <1>3 DEF GateDeclined, GateClears, PromptWritten, StreamFails, TypeOK
  <2>3. \A u \in Turns : phase[u] \in PastGate => phase'[u] \in PastGate
    BY <1>0, <1>3 DEF GateDeclined, GateClears, PromptWritten, StreamFails, TypeOK
  <2> QED
    BY <1>1, <2>1, <2>2, <2>3
<1>4. ASSUME NEW t \in Turns, AskOperator(t) \/ CardParked(t)
      PROVE  GatesAskNothing' /\ CardsEndWithTheirTurn'
  <2>1. phase' = phase /\ \A u \in Turns : u # t => ask'[u] = ask[u]
    BY <1>0, <1>4 DEF AskOperator, CardParked, TypeOK
  <2>2. CASE AskOperator(t)
    BY <1>0, <2>1, <2>2 DEF AskOperator, GatesAskNothing, CardsEndWithTheirTurn
  <2>3. CASE CardParked(t)
    <3>1. phase[t] # "gate" /\ ask'[t] = (IF phase[t] = "idle" THEN "stray" ELSE "parked")
      BY <1>0, <2>3 DEF CardParked, GatesAskNothing, TypeOK
    <3>2. phase[t] \in Phases
      BY <1>0 DEF TypeOK
    <3> QED
      BY <1>0, <2>1, <3>1, <3>2 DEF GatesAskNothing, CardsEndWithTheirTurn
  <2> QED
    BY <1>4, <2>2, <2>3
<1>5. ASSUME NEW t \in Turns, PermissionDecision(t) \/ InterruptAnswered(t) \/ WatchdogFires(t)
      PROVE  GatesAskNothing' /\ CardsEndWithTheirTurn'
  <2>1. phase' = phase /\ \A u \in Turns : ask'[u] \in {"none", ask[u]}
    BY <1>0, <1>5 DEF PermissionDecision, InterruptAnswered, WatchdogFires, TypeOK
  <2> QED
    BY <1>1, <2>1
<1>6. ASSUME NEW c \in Conns, NEW t \in Turns, AskUserAnswer(c, t)
      PROVE  GatesAskNothing' /\ CardsEndWithTheirTurn'
  <2>1. phase' = phase /\ \A u \in Turns : ask'[u] \in {"none", ask[u]}
    BY <1>0, <1>6 DEF AskUserAnswer, TypeOK
  <2> QED
    BY <1>1, <2>1
<1>7. ASSUME NEW c \in Conns, NEW s \in Sessions, Interrupt(c, s)
      PROVE  GatesAskNothing' /\ CardsEndWithTheirTurn'
  <2>1. phase' = phase /\ \A u \in Turns : ask'[u] \in {"none", ask[u]}
    BY <1>0, <1>7, Draining DEF Interrupt
  <2> QED
    BY <1>1, <2>1
<1>8. ASSUME NEW c \in Conns, Close(c) PROVE GatesAskNothing' /\ CardsEndWithTheirTurn'
  <2>1. \A u \in Turns : ask'[u] \in {"none", ask[u]}
    BY <1>0, <1>8, Draining DEF Close
  <2>2. \A u \in Turns : /\ phase'[u] = "gate" => phase[u] = "gate"
                         /\ phase[u] \in PastGate => phase'[u] \in PastGate
    BY <1>0, <1>8 DEF Close, TypeOK
  <2> QED
    BY <1>1, <2>1, <2>2
<1>9. ASSUME NEW t \in Turns, NEW l \in BOOLEAN, Over(t, l)
      PROVE  GatesAskNothing' /\ CardsEndWithTheirTurn'
  <2>1. phase'[t] = "idle" /\ \A u \in Turns : u # t => phase'[u] = phase[u]
    BY <1>0, <1>9 DEF Over, TypeOK
  <2>2. \A u \in Turns : ask'[u] \in {"none", ask[u]}
    BY <1>0, <1>9, Draining DEF Over
  <2>3. ask'[t] \notin {"parked", "question"}
    BY <1>0, <1>9, Draining DEF Over
  <2> QED
    BY <1>0, <2>1, <2>2, <2>3 DEF GatesAskNothing, CardsEndWithTheirTurn
<1>10. ASSUME NEW t \in Turns, StreamEnds(t) \/ ErrorWritten(t)
       PROVE  GatesAskNothing' /\ CardsEndWithTheirTurn'
  BY <1>9, <1>10 DEF StreamEnds, ErrorWritten
<1>11. CASE UNCHANGED vars
  BY <1>1, <1>11 DEF vars
<1> QED
  BY <1>2, <1>3, <1>4, <1>5, <1>6, <1>7, <1>8, <1>10, <1>11
  DEF Next, SendMessage, RetryRateLimited

-----------------------------------------------------------------------------
LEMMA Inductive == Spec => []IInv
<1>1. IInv /\ [Next]_vars => IInv'
  BY TypeInv, EntriesInv, PromptsInv, CardsInv DEF IInv
<1> QED
  BY InitIInv, <1>1, PTL DEF Spec

(* Type correctness: window maps, registry, stops and cards of any number   *)
(* of windows and sessions.                                                 *)
THEOREM Typing == Spec => []TypeOK
<1>1. IInv => TypeOK
  BY DEF IInv
<1> QED
  BY Inductive, <1>1, PTL

(* Stop finds the running turn of a session that has had one at a time, in  *)
(* whatever order its windows send, stop and close.                         *)
THEOREM StopIsNotLost == Spec => []StopFindsTheTurn
<1>1. IInv => StopFindsTheTurn
  BY DEF IInv
<1> QED
  BY Inductive, <1>1, PTL

(* A banner that says a prompt is held has the prompt behind it.            *)
THEOREM HeldPromptsAreThere == Spec => []HeldPromptIsKept
<1>1. IInv => HeldPromptIsKept
  BY DEF IInv
<1> QED
  BY Inductive, <1>1, PTL

(* What is entered for the operator to answer is gone when its turn is.     *)
THEOREM NoCardIsLeft == Spec => []CardsEndWithTheirTurn
<1>1. IInv => CardsEndWithTheirTurn
  BY DEF IInv
<1> QED
  BY Inductive, <1>1, PTL

(* No turn is taken to the gates beside one that is past them: the registry *)
(* is exact, by TypeOK, and the start of a turn asks it.                    *)
THEOREM OneTurnPastTheGates == Spec => NoSecondTurnPastTheGates
<1> DEFINE Steps ==
      \A t, u \in Turns :
        Chat(t) = Chat(u) /\ phase[t] \in PastGate
          => ~(phase[u] = "idle" /\ phase'[u] = "gate")
<1>1. ASSUME IInv, [Next]_vars PROVE Steps
  <2> SUFFICES ASSUME NEW t \in Turns, NEW u \in Turns,
                      Chat(t) = Chat(u), phase[t] \in PastGate,
                      phase[u] = "idle", phase'[u] = "gate"
               PROVE  FALSE
    OBVIOUS
  <2>0. TypeOK
    BY <1>1 DEF IInv
  <2> USE DEF PastGate, Streaming
  <2>1. \A v \in Turns : ~(GateDeclined(v) \/ GateClears(v) \/ PromptWritten(v) \/ StreamFails(v))
    BY <2>0 DEF GateDeclined, GateClears, PromptWritten, StreamFails, TypeOK
  <2>2. \A v \in Turns : ~(StreamEnds(v) \/ ErrorWritten(v))
    BY <2>0 DEF StreamEnds, ErrorWritten, Over, TypeOK
  <2>3. \A c \in Conns : ~Close(c)
    BY <2>0 DEF Close, TypeOK
  <2>4. phase' # phase
    OBVIOUS
  <2>5. PICK v \in Turns : RunOneTurn(v)
    BY <1>1, <2>1, <2>2, <2>3, <2>4
    DEF Next, vars, SendMessage, RetryRateLimited, AskOperator, CardParked,
        PermissionDecision, InterruptAnswered, WatchdogFires, Interrupt, AskUserAnswer
  <2>6. v = u
    BY <2>0, <2>5 DEF RunOneTurn, TypeOK
  <2>7. t \in registered
    BY <2>0 DEF TypeOK
  <2> QED
    BY <2>5, <2>6, <2>7 DEF RunOneTurn, Refused
<1>2. IInv /\ [Next]_vars => [Steps]_vars
  BY <1>1
<1>3. [][Steps]_vars => NoSecondTurnPastTheGates
  BY DEF NoSecondTurnPastTheGates, Steps
<1> QED
  BY Inductive, <1>2, <1>3, PTL DEF Spec

(* A window's entry names a turn whose stream is open (runOneTurn).         *)
THEOREM EntriesNameLiveTurns == Spec => []EntriesAreLive
<1>1. IInv => EntriesAreLive
  BY DEF IInv
<1> QED
  BY <1>1, Inductive, PTL

(* What a turn was told by Stop or by its closing window stands until it is *)
(* over, and reaches it through its own window's entry (executeInterrupt).  *)
THEOREM StopsAreFinal == Spec => StopsStand
<1> DEFINE Stands(t) ==
      /\ stop[t] = "no" /\ stop'[t] # "no" => inFlight[At(t)] = Slot(t)
      /\ stop[t] # "no" => stop'[t] # "no" \/ phase'[t] = "idle"
      /\ stop[t] = "aborted" => stop'[t] = "aborted" \/ phase'[t] = "idle"
<1>1. ASSUME IInv, Next, NEW t \in Turns PROVE Stands(t)
  <2>0. TypeOK
    BY <1>1 DEF IInv
  <2>1. CASE stop'[t] = stop[t]
    BY <2>1
  <2>2. ASSUME NEW u \in Turns, NEW l, Over(u, l) PROVE Stands(t)
    BY <2>0, <2>2 DEF Over, TypeOK
  <2>3. ASSUME NEW u \in Turns, InterruptAnswered(u) \/ WatchdogFires(u)
        PROVE  Stands(t)
    <3>1. /\ stop[u] = "asked" /\ stop'[u] \in {"answered", "aborted"}
          /\ u # t => stop'[t] = stop[t]
      BY <2>0, <2>3 DEF InterruptAnswered, WatchdogFires, TypeOK
    <3> QED
      BY <3>1
  <2>4. ASSUME NEW c \in Conns, NEW s \in Sessions, Interrupt(c, s)
        PROVE  Stands(t)
    BY <2>4 DEF Interrupt
  <2>5. ASSUME NEW c \in Conns, Close(c) PROVE Stands(t)
    BY <2>5 DEF Close
  <2>6. UNCHANGED stop => stop'[t] = stop[t]
    OBVIOUS
  <2> QED
    BY <1>1, <2>1, <2>2, <2>3, <2>4, <2>5, <2>6
    DEF Next, SendMessage, RetryRateLimited, RunOneTurn, GateDeclined, GateClears,
        PromptWritten, AskOperator, CardParked, PermissionDecision, StreamEnds,
        StreamFails, ErrorWritten, AskUserAnswer, dialogue
<1>2. IInv /\ [Next]_vars => [\A t \in Turns : Stands(t)]_vars
  BY <1>1
<1>3. [][\A t \in Turns : Stands(t)]_vars => StopsStand
  BY DEF StopsStand, Stands
<1> QED
  BY <1>2, <1>3, Inductive, PTL DEF Spec
=============================================================================
