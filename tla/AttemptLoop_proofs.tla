-------------------------- MODULE AttemptLoop_proofs --------------------------
(***************************************************************************)
(* Proofs about AttemptLoop, for any messages and bounds.                  *)
(*                                                                         *)
(* RoutedByOneAttempt and ToldTheTruth speak of a whole turn; what the     *)
(* code has at hand is two maps of one attempt.  LedgersKnow says how the  *)
(* maps stand for the turn at every stage of it.                           *)
(***************************************************************************)
EXTENDS AttemptLoop, FiniteSetTheorems, TLAPS

\* What neither map knows of was not routed; what they know is what was said, in
\* this attempt or, if it is in the prior ledger, in an earlier one.
LedgersKnow ==
  \A m \in Messages :
    /\ senders[m] \subseteq 1..attempt
    /\ stage = "backoff" =>
         /\ prior[m] = "none" => senders[m] = {}
         /\ prior[m] # "none" => prior[m] = Entry(verdict[m])
    /\ Live =>
         /\ prior[m] = "none" => senders[m] \subseteq {attempt}
         /\ prior[m] = "none" /\ routed[m] = "none" => senders[m] = {}
         /\ prior[m] # "none" =>
              prior[m] = Entry(verdict[m]) /\ attempt \notin senders[m]
         /\ routed[m] # "none" => routed[m] = Entry(verdict[m])

\* A question is a new one each time, so the count and the registry move alike.
AsksAreNew ==
  /\ IsFiniteSet(registry)
  /\ \A q \in registry : q.id <= asked

\* Something only happens in a turn, and a turn that backs off has an attempt left.
StageInv ==
  /\ stage # "idle" => turn # 0
  /\ stage = "backoff" => AttemptsLeft

MailInv == RoutedByOneAttempt /\ ToldTheTruth /\ LedgersKnow
AskInv == ParkedIsRegistered /\ AsksAreNew
IInv == TypeOK /\ StageInv /\ MailInv /\ AskInv /\ HeldIsLeftAlone

LEMMA InitIInv == Init => IInv
<1> SUFFICES ASSUME Init PROVE IInv
  OBVIOUS
<1> USE DEF Init
<1>1. TypeOK
  <2>1. turn \in 0..MaxTurns /\ attempt \in 1..MaxAttempts /\ asked \in 0..MaxAsks
    BY MaxAttemptsAssumption, MaxTurnsAssumption, MaxAsksAssumption
  <2>2. senders \in [Messages -> SUBSET (1..MaxAttempts)]
    OBVIOUS
  <2>3. prior \in Ledger /\ routed \in Ledger /\ verdict \in Reply /\ told \in Reply
    BY DEF Ledger, Reply, Unsent
  <2>4. idle \in Thresholds /\ parked \in Nat /\ registry \subseteq Question
    BY DEF Thresholds
  <2> QED
    BY <2>1, <2>2, <2>3, <2>4 DEF TypeOK
<1>2. StageInv /\ HeldIsLeftAlone
  BY DEF StageInv, HeldIsLeftAlone
<1>3. MailInv
  BY DEF MailInv, RoutedByOneAttempt, ToldTheTruth, LedgersKnow, Live
<1>4. AskInv
  BY FS_EmptySet DEF AskInv, ParkedIsRegistered, AsksAreNew
<1> QED
  BY <1>1, <1>2, <1>3, <1>4 DEF IInv

-----------------------------------------------------------------------------
(* Types, and the stage a turn is in. *)

LEMMA FoldedType ==
  TypeOK => Folded \in Ledger
BY DEF TypeOK, Ledger, Folded

LEMMA TypeStep == TypeOK /\ StageInv /\ AskInv /\ [Next]_vars => TypeOK'
<1> SUFFICES ASSUME TypeOK, StageInv, AskInv, [Next]_vars PROVE TypeOK'
  OBVIOUS
<1> USE MaxAttemptsAssumption, MaxTurnsAssumption, MaxAsksAssumption
    DEF TypeOK, clock, questions, session, mail, history
<1>1. Unsent \in Ledger /\ Unsent \in Reply
  BY DEF Unsent, Ledger, Reply
<1>2. CASE StartTurn
  <2>1. turn' \in 0..MaxTurns /\ attempt' \in 1..MaxAttempts
    BY <1>2 DEF StartTurn
  <2>2. senders' \in [Messages -> SUBSET (1..MaxAttempts)]
    BY <1>2 DEF StartTurn
  <2>3. idle' \in Thresholds
    BY <1>2 DEF Thresholds, StartTurn, FreshAttempt
  <2> QED
    BY <1>1, <1>2, <2>1, <2>2, <2>3 DEF StartTurn, FreshAttempt
<1>3. CASE Retry
  <2>1. attempt' \in 1..MaxAttempts
    BY <1>3 DEF Retry, StageInv, AttemptsLeft
  <2>2. idle' \in Thresholds
    BY <1>3 DEF Thresholds, Retry, FreshAttempt
  <2> QED
    BY <1>1, <1>3, <2>1, <2>2 DEF Retry, FreshAttempt
<1>4. CASE Succeed
  <2>1. idle' \in Thresholds
    BY <1>4 DEF Thresholds, Succeed, FreshAttempt
  <2> QED
    BY <1>1, <1>4, <2>1 DEF Succeed, FreshAttempt
<1>5. CASE Fail
  <2>1. PICK err \in Error : AttemptOver(err)
    BY <1>5 DEF Fail
  <2>2. idle' \in Thresholds
    BY <2>1 DEF Thresholds, AttemptOver, FreshAttempt
  <2>3. prior' \in Ledger /\ stage' \in {"idle", "backoff"}
    BY <1>1, <2>1, FoldedType DEF AttemptOver
  <2>4. held' \in BOOLEAN
    BY <1>5 DEF Fail
  <2>5. routed' \in Ledger /\ tools' \in BOOLEAN /\ alerted' \in BOOLEAN
    BY <1>1, <2>1 DEF AttemptOver, FreshAttempt
  <2> QED
    BY <2>1, <2>2, <2>3, <2>4, <2>5 DEF AttemptOver
<1>6. CASE Halt
  BY <1>6 DEF Halt
<1>7. CASE Speak
  <2>1. idle' \in Thresholds
    BY <1>7 DEF Thresholds, Speak
  <2> QED
    BY <1>7, <2>1 DEF Speak
<1>8. CASE Ask
  <2>1. asked + 1 \in 1..MaxAsks /\ turn \in 1..MaxTurns
    BY <1>8 DEF Ask, Live, StageInv
  <2>2. [id |-> asked + 1, turn |-> turn, attempt |-> attempt] \in Question
    BY <2>1 DEF Question
  <2>3. asked' \in 0..MaxAsks /\ parked' \in Nat
    BY <1>8 DEF Ask
  <2> QED
    BY <1>8, <2>2, <2>3 DEF Ask
<1>9. ASSUME NEW m \in Messages, BusSend(m) PROVE TypeOK'
  <2>1. routed' \in Ledger /\ told' \in Reply /\ verdict' \in Reply
        /\ senders' \in [Messages -> SUBSET (1..MaxAttempts)]
    <3>1. CASE Replay(m)
      <4>1. Worded(prior[m]) \in Verdict \cup {"none", "threw"}
        BY DEF Worded, Ledger, Verdict
      <4> QED
        BY <3>1, <4>1 DEF Replay, Reply
    <3>2. CASE Route(m)
      <4>1. PICK said \in RouterSays :
              /\ routed' = [routed EXCEPT ![m] = Entry(said)]
              /\ told' = [told EXCEPT ![m] = said]
              /\ verdict' = [verdict EXCEPT ![m] = said]
        BY <3>2 DEF Route
      <4>2. said \in Verdict \cup {"threw"}
            /\ Entry(said) \in Verdict \cup {"undefined"}
        BY DEF RouterSays, Verdict, Entry
      <4>3. routed' \in Ledger
        BY <4>1, <4>2 DEF Ledger
      <4>4. told' \in Reply /\ verdict' \in Reply
        BY <4>1, <4>2 DEF Reply
      <4> QED
        BY <3>2, <4>3, <4>4 DEF Route
    <3> QED
      BY <1>9, <3>1, <3>2 DEF BusSend
  <2> QED
    BY <1>9, <2>1 DEF BusSend
<1>10. CASE Tick \/ SoftFires \/ HardFires
  <2>1. idle' \in Thresholds
    BY <1>10 DEF Thresholds, Tick, SoftFires, HardFires
  <2> QED
    BY <1>10, <2>1 DEF Tick, SoftFires, HardFires
<1>11. ASSUME NEW q \in registry, Answer(q) PROVE TypeOK'
  <2>1. parked - 1 \in Nat
    <3>1. IsFiniteSet(registry) /\ parked = Cardinality(registry)
      BY DEF AskInv, AsksAreNew, ParkedIsRegistered
    <3>2. Cardinality(registry \ {q}) \in Nat
          /\ Cardinality(registry \ {q}) = Cardinality(registry) - 1
      BY <3>1, FS_RemoveElement, FS_CardinalityType
    <3> QED
      BY <3>1, <3>2
  <2> QED
    BY <1>11, <2>1 DEF Answer
<1>12. CASE EndSession
  BY <1>12 DEF EndSession, Drained, AskInv, ParkedIsRegistered
<1>13. CASE SetMute \/ Continue
  BY <1>13 DEF SetMute, Continue
<1>14. CASE UNCHANGED vars
  BY <1>14 DEF vars
<1> QED
  BY <1>2, <1>3, <1>4, <1>5, <1>6, <1>7, <1>8, <1>9, <1>10, <1>11, <1>12, <1>13,
     <1>14 DEF Next

LEMMA StageStep ==
  TypeOK /\ StageInv /\ HeldIsLeftAlone /\ [Next]_vars
    => StageInv' /\ HeldIsLeftAlone'
<1> SUFFICES ASSUME TypeOK, StageInv, HeldIsLeftAlone, [Next]_vars
             PROVE  StageInv' /\ HeldIsLeftAlone'
  OBVIOUS
<1> USE DEF StageInv, HeldIsLeftAlone, AttemptsLeft, session, history
<1>1. CASE StartTurn \/ Retry
  BY <1>1 DEF StartTurn, Retry, FreshAttempt, TypeOK
<1>2. CASE Succeed \/ Halt
  BY <1>2 DEF Succeed, Halt
<1>3. CASE Fail
  <2>1. PICK err \in Error : err.class \in Thrown /\ AttemptOver(err)
    BY <1>3 DEF Fail
  <2>2. stage' = "backoff" => AttemptsLeft /\ err.class \notin ControlSignals
    BY <2>1 DEF AttemptOver, Transient
  <2>3. err.class \notin ControlSignals => stage = "attempt"
    BY <1>3, <2>1 DEF Fail, Live, Thrown, ControlSignals
  <2>4. stage = "attempt" => ~held'
    BY <1>3 DEF Fail, TypeOK
  <2> QED
    BY <1>3, <2>1, <2>2, <2>3, <2>4 DEF Fail, AttemptOver, Live
<1>4. CASE Speak \/ Ask \/ Tick \/ SoftFires \/ HardFires \/ EndSession
           \/ SetMute \/ Continue \/ \E q \in registry : Answer(q)
  BY <1>4 DEF Speak, Ask, Tick, SoftFires, HardFires, EndSession, SetMute,
     Continue, Answer
<1>5. CASE \E m \in Messages : BusSend(m)
  BY <1>5 DEF BusSend, Replay, Route
<1>6. CASE UNCHANGED vars
  BY <1>6 DEF vars
<1> QED
  BY <1>1, <1>2, <1>3, <1>4, <1>5, <1>6 DEF Next

-----------------------------------------------------------------------------
(* Messages. *)

\* Nothing but a turn, an attempt and a send touches the ledgers.
LEMMA MailKept ==
  ASSUME MailInv, UNCHANGED <<attempt, mail, senders, verdict, told>>,
         Live' => Live, stage' = "backoff" => stage = "backoff"
  PROVE  MailInv'
BY DEF MailInv, RoutedByOneAttempt, ToldTheTruth, LedgersKnow, mail, Live

LEMMA MailOver ==
  ASSUME TypeOK, MailInv, Live, NEW err, AttemptOver(err)
  PROVE  MailInv'
<1>1. UNCHANGED <<attempt, senders, verdict, told>>
  BY DEF AttemptOver, history
<1>2. \/ stage' = "idle"
      \/ stage' = "backoff" /\ prior' = Folded
  BY DEF AttemptOver
<1>3. CASE stage' = "idle"
  BY <1>1, <1>3 DEF MailInv, RoutedByOneAttempt, ToldTheTruth, LedgersKnow, Live
<1>4. CASE stage' = "backoff" /\ prior' = Folded
  <2>1. LedgersKnow'
    BY <1>1, <1>4 DEF MailInv, LedgersKnow, Live, Folded
  <2> QED
    BY <1>1, <2>1 DEF MailInv, RoutedByOneAttempt, ToldTheTruth
<1> QED
  BY <1>2, <1>3, <1>4

LEMMA MailSend ==
  ASSUME TypeOK, MailInv, NEW m \in Messages, BusSend(m)
  PROVE  MailInv'
<1>1. Live /\ Live' /\ stage' = stage /\ stage # "backoff"
      /\ attempt' = attempt /\ prior' = prior
  BY DEF BusSend, Live
<1>2. told \in Reply /\ verdict \in Reply /\ prior \in Ledger /\ routed \in Ledger
      /\ senders \in [Messages -> SUBSET (1..MaxAttempts)] /\ attempt \in 1..attempt
  BY MaxAttemptsAssumption DEF TypeOK
<1>3. CASE Replay(m)
  <2>1. prior[m] = Entry(verdict[m]) /\ attempt \notin senders[m]
    BY <1>1, <1>3 DEF Replay, MailInv, LedgersKnow
  <2>2. \/ told'[m] = verdict[m]
        \/ verdict[m] = "threw" /\ told'[m] = "delivered"
    BY <1>2, <1>3, <2>1 DEF Replay, Worded, Entry, Reply, Verdict
  <2>3. \A n \in Messages : n # m => told'[n] = told[n]
    BY <1>2, <1>3 DEF Replay, Reply
  <2>4. ToldTheTruth'
    BY <1>1, <1>3, <2>1, <2>2, <2>3 DEF Replay, MailInv, ToldTheTruth
  <2>5. LedgersKnow'
    BY <1>1, <1>3 DEF Replay, MailInv, LedgersKnow, Live
  <2> QED
    BY <1>3, <2>4, <2>5 DEF Replay, MailInv, RoutedByOneAttempt
<1>4. CASE Route(m)
  <2>1. PICK said \in RouterSays :
          /\ routed' = [routed EXCEPT ![m] = Entry(said)]
          /\ told' = [told EXCEPT ![m] = said]
          /\ verdict' = [verdict EXCEPT ![m] = said]
    BY <1>4 DEF Route
  <2>2. Entry(said) # "none"
    BY DEF RouterSays, Entry
  <2>3. ToldTheTruth'
    <3>1. told'[m] = verdict'[m]
      BY <1>2, <2>1 DEF Reply
    <3>2. \A n \in Messages : n # m =>
            told'[n] = told[n] /\ verdict'[n] = verdict[n] /\ senders'[n] = senders[n]
      BY <1>2, <1>4, <2>1 DEF Route, Reply
    <3> QED
      BY <1>1, <3>1, <3>2 DEF MailInv, ToldTheTruth
  <2>4. senders[m] \subseteq {attempt}
    BY <1>1, <1>4 DEF Route, MailInv, LedgersKnow
  <2>5. RoutedByOneAttempt'
    BY <1>2, <1>4, <2>4 DEF Route, MailInv, RoutedByOneAttempt
  <2>6. ASSUME NEW n \in Messages
        PROVE  /\ senders'[n] \subseteq 1..attempt'
               /\ prior'[n] = "none" => senders'[n] \subseteq {attempt'}
               /\ prior'[n] = "none" /\ routed'[n] = "none" => senders'[n] = {}
               /\ prior'[n] # "none" =>
                    prior'[n] = Entry(verdict'[n]) /\ attempt' \notin senders'[n]
               /\ routed'[n] # "none" => routed'[n] = Entry(verdict'[n])
    <3>1. CASE n = m
      <4>1. senders'[m] = {attempt} /\ routed'[m] = Entry(said) /\ verdict'[m] = said
        BY <1>2, <1>4, <2>1, <2>4 DEF Route, Ledger, Reply
      <4> QED
        BY <1>1, <1>2, <1>4, <2>2, <3>1, <4>1 DEF Route
    <3>2. CASE n # m
      <4>1. senders'[n] = senders[n] /\ routed'[n] = routed[n] /\ verdict'[n] = verdict[n]
        BY <1>2, <1>4, <2>1, <3>2 DEF Route, Ledger, Reply
      <4> QED
        BY <1>1, <4>1 DEF MailInv, LedgersKnow
    <3> QED
      BY <3>1, <3>2
  <2>7. LedgersKnow'
    BY <1>1, <2>6 DEF LedgersKnow, Live
  <2> QED
    BY <2>3, <2>5, <2>7 DEF MailInv
<1> QED
  BY <1>3, <1>4 DEF BusSend

LEMMA MailStep == TypeOK /\ MailInv /\ [Next]_vars => MailInv'
<1> SUFFICES ASSUME TypeOK, MailInv, [Next]_vars PROVE MailInv'
  OBVIOUS
<1>1. CASE StartTurn
  <2>1. senders' = [m \in Messages |-> {}] /\ told' = verdict' /\ prior' = Unsent
        /\ routed' = Unsent /\ stage' = "attempt"
    BY <1>1 DEF StartTurn, FreshAttempt
  <2> QED
    BY <2>1 DEF Unsent, MailInv, RoutedByOneAttempt, ToldTheTruth, LedgersKnow, Live
<1>2. CASE Retry
  <2>1. attempt' = attempt + 1 /\ routed' = Unsent /\ stage' = "attempt"
        /\ UNCHANGED <<prior, senders, verdict, told>> /\ attempt \in Nat
    BY <1>2, MaxAttemptsAssumption DEF Retry, FreshAttempt, history, TypeOK
  <2>2. \A m \in Messages :
          senders[m] \subseteq 1..attempt' /\ attempt' \notin senders[m]
    BY <2>1 DEF MailInv, LedgersKnow
  <2>3. ToldTheTruth' /\ RoutedByOneAttempt'
    BY <2>1, <2>2 DEF MailInv, ToldTheTruth, RoutedByOneAttempt
  <2>4. LedgersKnow'
    BY <1>2, <2>1, <2>2 DEF Retry, Unsent, MailInv, LedgersKnow, Live
  <2> QED
    BY <2>3, <2>4 DEF MailInv
<1>3. CASE Succeed \/ Fail \/ Halt
  <2>1. CASE Succeed
    BY <2>1 DEF Succeed, history, MailInv, RoutedByOneAttempt, ToldTheTruth,
       LedgersKnow, Live
  <2>2. CASE Fail
    BY <2>2, MailOver DEF Fail
  <2>3. CASE Halt
    BY <2>3, MailKept DEF Halt, history, Live
  <2> QED
    BY <1>3, <2>1, <2>2, <2>3
<1>4. CASE Speak \/ Ask \/ Tick \/ SoftFires \/ HardFires \/ EndSession
           \/ SetMute \/ Continue \/ \E q \in registry : Answer(q)
  <2>1. UNCHANGED <<attempt, mail, senders, verdict, told>>
        /\ (Live' => Live) /\ (stage' = "backoff" => stage = "backoff")
    BY <1>4 DEF Speak, Ask, Tick, SoftFires, HardFires, EndSession, SetMute,
       Continue, Answer, history, Live
  <2> QED
    BY <2>1, MailKept
<1>5. CASE \E m \in Messages : BusSend(m)
  BY <1>5, MailSend
<1>6. CASE UNCHANGED vars
  BY <1>6, MailKept DEF vars, mail, Live
<1> QED
  BY <1>1, <1>2, <1>3, <1>4, <1>5, <1>6 DEF Next

-----------------------------------------------------------------------------
(* Questions. *)

LEMMA AskStep == TypeOK /\ AskInv /\ [Next]_vars => AskInv'
<1> SUFFICES ASSUME TypeOK, AskInv, [Next]_vars PROVE AskInv'
  OBVIOUS
<1> USE DEF AskInv, ParkedIsRegistered, AsksAreNew
<1>1. CASE Ask
  <2> DEFINE q == [id |-> asked + 1, turn |-> turn, attempt |-> attempt]
  <2>1. asked \in Nat /\ registry \subseteq Question
    BY MaxAsksAssumption DEF TypeOK
  <2>2. q \notin registry
    BY <2>1
  <2>3. registry' = registry \cup {q} /\ parked' = parked + 1 /\ asked' = asked + 1
    BY <1>1 DEF Ask
  <2>4. IsFiniteSet(registry') /\ Cardinality(registry') = Cardinality(registry) + 1
    BY <2>2, <2>3, FS_AddElement
  <2>5. \A x \in registry' : x.id <= asked'
    <3>1. \A x \in registry : x.id <= asked + 1
      BY <2>1 DEF Question
    <3>2. q.id <= asked + 1
      BY <2>1
    <3> QED
      BY <2>3, <3>1, <3>2
  <2> QED
    BY <2>3, <2>4, <2>5
<1>2. CASE \E q \in registry : Answer(q)
  <2> PICK q \in registry : Answer(q)
    BY <1>2
  <2>1. IsFiniteSet(registry \ {q})
        /\ Cardinality(registry \ {q}) = Cardinality(registry) - 1
    BY FS_RemoveElement
  <2> QED
    BY <2>1 DEF Answer
<1>3. CASE EndSession
  <2>1. Cardinality(registry) - Cardinality(registry) = 0
    BY FS_CardinalityType
  <2> QED
    BY <1>3, <2>1, FS_EmptySet DEF EndSession, Drained
<1>4. CASE UNCHANGED questions
  BY <1>4 DEF questions
<1>5. CASE StartTurn \/ Retry \/ Succeed \/ Fail \/ Halt \/ Speak \/ Tick
           \/ SoftFires \/ HardFires \/ SetMute \/ Continue
           \/ \E m \in Messages : BusSend(m)
  BY <1>4, <1>5 DEF StartTurn, Retry, Succeed, Fail, Halt, AttemptOver, Speak,
     Tick, SoftFires, HardFires, SetMute, Continue, BusSend
<1>6. CASE UNCHANGED vars
  BY <1>4, <1>6 DEF vars, questions
<1> QED
  BY <1>1, <1>2, <1>3, <1>5, <1>6 DEF Next

-----------------------------------------------------------------------------
(* The theorems. *)

LEMMA NextIInv == IInv /\ [Next]_vars => IInv'
BY TypeStep, StageStep, MailStep, AskStep DEF IInv

LEMMA Inductive == Spec => []IInv
BY InitIInv, NextIInv, PTL DEF Spec

(* The state of the loop stays in its types, the attempt within the number  *)
(* of attempts included (AgentRunner.runOneTurn).                           *)
THEOREM Typing == Spec => []TypeOK
BY Inductive, PTL DEF IInv

(* No message reaches the router from two attempts of one turn, for any     *)
(* number of attempts (routedInPriorAttempts).                              *)
THEOREM NoReplayIsRouted == Spec => []RoutedByOneAttempt
BY Inductive, PTL DEF IInv, MailInv

(* What the model is told of a message is what the router said of it, but   *)
(* for the one exception that ToldTheTruth names: a repeated message at     *)
(* which the router threw (the onEvent wrapper of runOneTurn).              *)
THEOREM RepliesAreTrue == Spec => []ToldTheTruth
BY Inductive, PTL DEF IInv, MailInv

(* The count that suspends the watchdog is the number of questions parked   *)
(* (makeCanUseTool).                                                        *)
THEOREM CountIsExact == Spec => []ParkedIsRegistered
BY Inductive, PTL DEF IInv, AskInv

(* An agent that the pause gate holds is in no attempt and in no back-off,  *)
(* whatever its errors read like (isTransientOverload, deliverTurn).        *)
THEOREM HeldAgentsRest == Spec => []HeldIsLeftAlone
BY Inductive, PTL DEF IInv

(* The watchdog spares every attempt that waits for the operator (armHard). *)
THEOREM AskersAreSpared == Spec => AskingIsNotStalling
<1>1. IInv /\ [Next]_vars =>
        [stage' = "closing" /\ stage # "closing" =>
           \A q \in registry : <<q.turn, q.attempt>> # <<turn, attempt>>]_vars
  <2> SUFFICES ASSUME IInv, Next, stage' = "closing", stage # "closing"
               PROVE  registry = {}
    BY DEF vars
  <2>1. HardFires
    BY DEF Next, StartTurn, Retry, Succeed, Fail, Halt, AttemptOver, Live, Speak,
       Ask, BusSend, Tick, SoftFires, Answer, EndSession, SetMute,
       Continue
  <2>2. Cardinality(registry) = 0 /\ IsFiniteSet(registry)
    BY <2>1 DEF HardFires, IInv, AskInv, ParkedIsRegistered, AsksAreNew
  <2> QED
    BY <2>2, FS_EmptySet
<1> QED
  BY <1>1, Inductive, PTL DEF Spec, AskingIsNotStalling

(* No retry changes what the router said: a message that an earlier attempt *)
(* of the turn had routed is in the prior ledger, which the wrapper answers *)
(* from; only where the router threw has the ledger lost what it said       *)
(* (routedInPriorAttempts).                                                 *)
THEOREM RoutedOnceForAll == Spec => VerdictsStand
<1>1. ASSUME IInv, Next, turn' = turn, NEW m \in Messages,
             senders[m] \ {attempt} # {}
      PROVE  /\ verdict'[m] = verdict[m] /\ senders'[m] = senders[m]
             /\ \/ told'[m] = told[m]
                \/ verdict[m] = "threw" /\ told'[m] = "delivered"
  <2>0. TypeOK /\ ToldTheTruth /\ LedgersKnow
    BY <1>1 DEF IInv, MailInv
  <2>1. ~StartTurn
    BY <1>1, <2>0 DEF StartTurn, TypeOK
  <2>2. CASE UNCHANGED <<senders, verdict, told>>
    BY <2>2
  <2>3. ASSUME NEW n \in Messages, BusSend(n)
        PROVE  /\ verdict'[m] = verdict[m] /\ senders'[m] = senders[m]
               /\ \/ told'[m] = told[m]
                  \/ verdict[m] = "threw" /\ told'[m] = "delivered"
    <3>1. prior[m] # "none" /\ prior[m] = Entry(verdict[m])
      BY <1>1, <2>0, <2>3 DEF BusSend, LedgersKnow
    <3>2. CASE n = m
      <4>1. Replay(m)
        BY <2>3, <3>1, <3>2 DEF BusSend, Route
      <4>2. told'[m] = Worded(Entry(verdict[m]))
        BY <2>0, <3>1, <4>1 DEF Replay, TypeOK, Reply
      <4>3. verdict[m] # "threw" => told[m] = verdict[m]
        BY <2>0 DEF ToldTheTruth
      <4> QED
        BY <2>0, <4>1, <4>2, <4>3 DEF Replay, Worded, Entry, TypeOK, Reply, Verdict
    <3>3. CASE n # m
      BY <2>0, <2>3, <3>3 DEF BusSend, Replay, Route, TypeOK, Reply
    <3> QED
      BY <3>2, <3>3
  <2> QED
    BY <1>1, <2>1, <2>2, <2>3
    DEF Next, Retry, Succeed, Fail, Halt, AttemptOver, Speak, Ask, Tick,
        SoftFires, HardFires, Answer, EndSession, SetMute, Continue, history
<1>2. IInv /\ [Next]_vars
        => [turn' = turn =>
              \A m \in Messages :
                senders[m] \ {attempt} # {} =>
                  /\ verdict'[m] = verdict[m] /\ senders'[m] = senders[m]
                  /\ \/ told'[m] = told[m]
                     \/ verdict[m] = "threw" /\ told'[m] = "delivered"]_vars
  BY <1>1
<1> QED
  BY <1>2, Inductive, PTL DEF Spec, VerdictsStand
=============================================================================
