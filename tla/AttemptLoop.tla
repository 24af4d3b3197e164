----------------------------- MODULE AttemptLoop -----------------------------
(***************************************************************************)
(* One agent's turns from the inside (server/src/bus/runner.ts): the       *)
(* attempts of a turn with the back-off between them, the guard that keeps *)
(* a retried attempt from sending its messages again, the watchdog on a    *)
(* silent stream, and the questions parked for the operator                *)
(* (bus/pending_questions.ts).  TurnQueue has what happens before a turn   *)
(* starts and after it has settled.                                        *)
(* One AgentRunner is followed; a session resumed after its end gets a     *)
(* runner of its own.                                                      *)
(*                                                                         *)
(* The stream is the environment: it speaks, calls bus_send or             *)
(* AskUserQuestion, falls silent, ends or fails.  So is the router, which  *)
(* takes a message, drops it, or throws in the middle of dropping it.  Of  *)
(* the idle clock only its thresholds are kept.  A question that was asked *)
(* by an attempt which is over stays in the registry, and in the runner's  *)
(* count.                                                                  *)
(***************************************************************************)
EXTENDS Naturals, FiniteSets

CONSTANTS
  Messages,    \* identities of bus_send calls: destination, kind and text
  MaxAttempts, \* one more than the back-off delays there are
  MaxTurns,    \* bound: turns of the agent
  MaxAsks      \* bound: questions that reach the operator

ASSUME MaxAttemptsAssumption == MaxAttempts \in Nat \ {0}
ASSUME MaxTurnsAssumption == MaxTurns \in Nat
ASSUME MaxAsksAssumption == MaxAsks \in Nat

VARIABLES
  turn,     \* turns started so far
  stage,    \* of the turn: idle, attempt, closing (the watchdog closes the
            \* stream), halting (a throw of the tap does), backoff
  attempt,  \* number of the attempt
  prior,    \* routedInPriorAttempts: message -> verdict, while the turn lasts
  routed,   \* routedThisAttempt
  tools,    \* a tool_use has no tool_result yet
  idle,     \* since the last message of the stream, see Thresholds
  alerted,  \* softNotified
  parked,   \* the runner's count of parked questions
  registry, \* pending_questions: the questions parked for this agent
  asked,    \* questions asked so far
  muted,    \* the router's mute, read at every send and question
  held,     \* the pause-on-dangerous gate holds the agent
  ended,    \* why the session ended
  senders,  \* history: message -> attempts of this turn that had it routed
  verdict,  \* history: message -> what the router last said of it, this turn
  told      \* history: message -> what the model was last told of it

clock == <<tools, idle, alerted>>
questions == <<parked, registry, asked>>
session == <<muted, held, ended>>
mail == <<prior, routed>>
history == <<senders, verdict, told>>
vars == <<turn, stage, attempt, prior, routed, tools, idle, alerted, parked,
          registry, asked, muted, held, ended, senders, verdict, told>>

Verdict == {"delivered", "dropped"}
Unsent == [m \in Messages |-> "none"]

\* A ledger names a message before the router is asked about it, with no verdict
\* yet; if the router throws, that is how the entry stays.
Ledger == [Messages -> Verdict \cup {"none", "undefined"}]

\* What is said of a message, by the router and to the model.
Reply == [Messages -> Verdict \cup {"none", "threw"}]

\* What ends an attempt: one of Cebab's own control signals (those an attempt
\* throws), or any other error.  All of them may read like an overload, because
\* models and users word part of their texts.
ControlSignals == {"pause", "unrecorded", "stall", "cap"}
Error == [class : ControlSignals \cup {"remote"}, overload : BOOLEAN]

\* 0: less than stallNotifyMs; 1: that; 2: stallAbortMs; 3: stallToolCeilingMs.
Thresholds == 0..3
Question == [id : 1..MaxAsks, turn : 1..MaxTurns, attempt : 1..MaxAttempts]

TypeOK ==
  /\ turn \in 0..MaxTurns
  /\ stage \in {"idle", "attempt", "closing", "halting", "backoff"}
  /\ attempt \in 1..MaxAttempts
  /\ prior \in Ledger /\ routed \in Ledger
  /\ tools \in BOOLEAN /\ idle \in Thresholds /\ alerted \in BOOLEAN
  /\ parked \in Nat
  /\ registry \subseteq Question
  /\ asked \in 0..MaxAsks
  /\ muted \in BOOLEAN /\ held \in BOOLEAN
  /\ ended \in {"no", "stopped", "crashed", "completed"}
  /\ senders \in [Messages -> SUBSET (1..MaxAttempts)]
  /\ verdict \in Reply /\ told \in Reply

\* A session that was rebuilt starts with the holds of its pending pauses.
Init ==
  /\ turn = 0 /\ stage = "idle" /\ attempt = 1
  /\ prior = Unsent /\ routed = Unsent
  /\ tools = FALSE /\ idle = 0 /\ alerted = FALSE
  /\ parked = 0 /\ registry = {} /\ asked = 0
  /\ muted = FALSE /\ held \in BOOLEAN /\ ended = "no"
  /\ senders = [m \in Messages |-> {}]
  /\ verdict = Unsent /\ told = Unsent

Aborted == ended \in {"stopped", "crashed"}
Live == stage \in {"attempt", "closing", "halting"}

-----------------------------------------------------------------------------
(* A turn, and the attempts it is made of.                                  *)

\* The variables of runOneAttempt and of a pass of the loop: new for each attempt,
\* and gone with it.
FreshAttempt ==
  /\ routed' = Unsent
  /\ tools' = FALSE /\ idle' = 0 /\ alerted' = FALSE

\* Asked before a turn, and never again while it lasts.
StartTurn ==
  /\ stage = "idle" /\ turn < MaxTurns
  /\ ended = "no" /\ ~held
  /\ turn' = turn + 1
  /\ stage' = "attempt" /\ attempt' = 1
  /\ prior' = Unsent
  /\ FreshAttempt
  /\ senders' = [m \in Messages |-> {}]
  /\ verdict' = Unsent /\ told' = Unsent
  /\ UNCHANGED <<questions, session>>

\* The delay is slept out whatever has happened meanwhile.
Retry ==
  /\ stage = "backoff"
  /\ stage' = "attempt" /\ attempt' = attempt + 1
  /\ FreshAttempt
  /\ UNCHANGED <<turn, prior, questions, session, history>>

\* Mutant: what the failed attempt routed is not remembered.
FoldNothing == prior

Folded == [m \in Messages |-> IF routed[m] # "none" THEN routed[m] ELSE prior[m]]

\* Mutant: an error is judged by its text alone.
TransientByText(err) == err.overload

\* isTransientOverload: class first, text second.
Transient(err) == err.class \notin ControlSignals /\ err.overload

\* Mutant: one attempt more than there are delays.
OneAttemptMore == attempt <= MaxAttempts

AttemptsLeft == attempt < MaxAttempts

\* The stream comes to its end with a result, and the turn settles.  A stream
\* that was aborted may still do so.
Succeed ==
  /\ stage = "attempt"
  /\ stage' = "idle" /\ prior' = Unsent
  /\ FreshAttempt
  /\ UNCHANGED <<turn, attempt, questions, session, history>>

\* An attempt has thrown: what it routed is folded, and it is tried again or the
\* turn settles.
AttemptOver(err) ==
  /\ IF Transient(err) /\ ~Aborted /\ AttemptsLeft
     THEN stage' = "backoff" /\ prior' = Folded
     ELSE stage' = "idle" /\ prior' = Unsent
  /\ FreshAttempt
  /\ UNCHANGED <<turn, attempt, questions, muted, ended, history>>

\* What an attempt can throw, by the stage it is in.  The watchdog makes a stall
\* of whatever the stream does that it has closed, also when the stream was being
\* closed already.
Thrown ==
  CASE stage = "attempt" -> {"cap", "remote"}
    [] stage = "closing" -> {"stall"}
    [] stage = "halting" -> {"pause", "unrecorded", "stall"}

\* The calls that a dead turn has left untapped are tapped when its stream is
\* closed; a dangerous one among them may hold the agent, again or for the first
\* time.
Fail ==
  /\ Live
  /\ \E err \in Error : err.class \in Thrown /\ AttemptOver(err)
  /\ IF stage = "attempt" THEN UNCHANGED held ELSE held' \in {held, TRUE}

\* The mutation tap throws: at a dangerous call, with the gate closed behind it,
\* or because the call could not be recorded.  Nothing more is read of the stream.
Halt ==
  /\ stage \in {"attempt", "closing"}
  /\ stage' = IF stage = "closing" THEN "closing" ELSE "halting"
  /\ held' \in {held, TRUE}
  /\ UNCHANGED <<turn, attempt, mail, clock, questions, muted, ended, history>>

-----------------------------------------------------------------------------
(* What the model does while the stream is open; its tool calls are served  *)
(* even while the stream is being closed.                                   *)

Speak ==
  /\ stage = "attempt"
  /\ idle' = 0 /\ alerted' = FALSE
  /\ tools' \in BOOLEAN
  /\ UNCHANGED <<turn, stage, attempt, mail, questions, session, history>>

\* What handleEvent does with a message.  It drops for other reasons than a
\* mute, too: a recipient that was kicked, or that there is none of.  A drop
\* is audited, and then its notification is persisted, which may throw; after the
\* end of the session nothing is audited.
RouterSays ==
  IF ended # "no" THEN {"dropped"}
  ELSE IF muted THEN {"dropped", "threw"}
  ELSE {"delivered", "dropped", "threw"}

\* busSendResultText words a missing verdict as a delivery.
Worded(entry) == IF entry = "undefined" THEN "delivered" ELSE entry

\* Mutant: a replay is answered as if it had been delivered.
ReplayDelivered(m) ==
  /\ prior[m] # "none"
  /\ told' = [told EXCEPT ![m] = "delivered"]
  /\ UNCHANGED <<routed, senders, verdict>>

\* A send that an earlier attempt had routed is answered from the ledger.
Replay(m) ==
  /\ prior[m] # "none"
  /\ told' = [told EXCEPT ![m] = Worded(prior[m])]
  /\ UNCHANGED <<routed, senders, verdict>>

Entry(said) == IF said = "threw" THEN "undefined" ELSE said

\* What the router throws reaches the model as the error of its tool call.
Route(m) ==
  /\ prior[m] = "none"
  /\ \E said \in RouterSays :
       /\ routed' = [routed EXCEPT ![m] = Entry(said)]
       /\ told' = [told EXCEPT ![m] = said]
       /\ verdict' = [verdict EXCEPT ![m] = said]
  /\ senders' = [senders EXCEPT ![m] = @ \cup {attempt}]

BusSend(m) ==
  /\ Live
  /\ Replay(m) \/ Route(m)
  /\ UNCHANGED <<turn, stage, attempt, prior, clock, questions, session>>

\* A held or muted agent is denied at once; nobody is asked.  Nothing asks
\* whether the session is over.
Ask ==
  /\ Live
  /\ ~held /\ ~muted
  /\ asked < MaxAsks
  /\ asked' = asked + 1
  /\ parked' = parked + 1
  /\ registry' = registry \cup
       {[id |-> asked + 1, turn |-> turn, attempt |-> attempt]}
  /\ UNCHANGED <<turn, stage, attempt, mail, clock, session, history>>

-----------------------------------------------------------------------------
(* The watchdog.                                                            *)

Tick ==
  /\ stage = "attempt" /\ idle < 3
  /\ idle' = idle + 1
  /\ UNCHANGED <<turn, stage, attempt, mail, tools, alerted, questions,
                 session, history>>

SoftFires ==
  /\ stage = "attempt"
  /\ parked = 0 /\ ~tools
  /\ idle >= 1 /\ ~alerted
  /\ alerted' = TRUE
  /\ UNCHANGED <<turn, stage, attempt, mail, tools, idle, questions,
                 session, history>>

\* Mutant: a question does not suspend the watchdog.
HardFiresAnyway ==
  /\ stage = "attempt"
  /\ idle >= IF tools THEN 3 ELSE 2
  /\ stage' = "closing"
  /\ UNCHANGED <<turn, attempt, mail, clock, questions, session, history>>

\* Mutant: a tool in flight suspends the watchdog for good.
HardFiresToolless ==
  /\ stage = "attempt"
  /\ parked = 0 /\ ~tools
  /\ idle >= 2
  /\ stage' = "closing"
  /\ UNCHANGED <<turn, attempt, mail, clock, questions, session, history>>

HardFires ==
  /\ stage = "attempt"
  /\ parked = 0
  /\ idle >= IF tools THEN 3 ELSE 2
  /\ stage' = "closing"
  /\ UNCHANGED <<turn, attempt, mail, clock, questions, session, history>>

-----------------------------------------------------------------------------
(* The operator and the session.                                            *)

\* Which windows can still answer is a matter of SessionLifecycle.
Answer(q) ==
  /\ q \in registry
  /\ registry' = registry \ {q}
  /\ parked' = parked - 1
  /\ UNCHANGED <<turn, stage, attempt, mail, clock, asked, session, history>>

\* Mutant: a question that is rejected stays counted.
DrainedUncounted ==
  /\ registry' = {}
  /\ parked' = parked

Drained ==
  /\ registry' = {}
  /\ parked' = parked - Cardinality(registry)

\* Teardown rejects what is parked and, unless the run has completed, aborts.
EndSession ==
  /\ ended = "no"
  /\ ended' \in {"stopped", "crashed", "completed"}
  /\ Drained
  /\ UNCHANGED <<turn, stage, attempt, mail, clock, asked, muted, held, history>>

SetMute ==
  /\ ended = "no"
  /\ muted' = ~muted
  /\ UNCHANGED <<turn, stage, attempt, mail, clock, questions, held, ended, history>>

Continue ==
  /\ held /\ ended = "no"
  /\ held' = FALSE
  /\ UNCHANGED <<turn, stage, attempt, mail, clock, questions, muted, ended, history>>

-----------------------------------------------------------------------------
Next ==
  \/ StartTurn \/ Retry \/ Succeed \/ Fail \/ Halt
  \/ Speak \/ Ask
  \/ \E m \in Messages : BusSend(m)
  \/ Tick \/ SoftFires \/ HardFires
  \/ \E q \in registry : Answer(q)
  \/ EndSession \/ SetMute \/ Continue

(* Time passes, a timer that is due fires, and a stream that was closed or  *)
(* aborted ends.  Nothing is assumed of the model, nor of the operator.     *)
Fairness ==
  /\ WF_vars(Tick)
  /\ WF_vars(HardFires)
  /\ WF_vars((stage # "attempt" \/ Aborted) /\ (Succeed \/ Fail))
  /\ WF_vars(Retry)

Spec == Init /\ [][Next]_vars
FairSpec == Spec /\ Fairness

-----------------------------------------------------------------------------
(* A retried attempt re-delivers nothing: no message reaches the router     *)
(* from two attempts of one turn, though one attempt may send it twice      *)
(* (runOneTurn, routedInPriorAttempts).                                     *)
RoutedByOneAttempt == \A m \in Messages : \A i, j \in senders[m] : i = j

(* The model is told of a message what the router said of it, also when the *)
(* answer is repeated in a later attempt (the onEvent wrapper of            *)
(* runOneTurn).  There is one exception: a message at which the router      *)
(* threw is called delivered when a later attempt repeats it.               *)
ToldTheTruth ==
  \A m \in Messages :
    told[m] # verdict[m] =>
      /\ verdict[m] = "threw" /\ told[m] = "delivered"
      /\ attempt \notin senders[m]

(* What the router said of a message stands once the attempt that sent it   *)
(* is over: however the session's mute and end change, a later attempt of   *)
(* the turn neither asks the router again nor hears anything else, but for  *)
(* the exception of ToldTheTruth (routedInPriorAttempts).                   *)
VerdictsStand ==
  [][turn' = turn =>
       \A m \in Messages :
         senders[m] \ {attempt} # {} =>
           /\ verdict'[m] = verdict[m] /\ senders'[m] = senders[m]
           /\ \/ told'[m] = told[m]
              \/ verdict[m] = "threw" /\ told'[m] = "delivered"]_vars

(* The runner's count of parked questions, which suspends the watchdog, and *)
(* the registry, which the operator answers from, never part: not by an     *)
(* answer, a rejection, or the death of the attempt that asked              *)
(* (makeCanUseTool, rejectQuestionsForSession).                             *)
ParkedIsRegistered == parked = Cardinality(registry)

(* An agent that the pause gate holds is left alone: none of its attempts   *)
(* is at work and none is to come after a back-off, so a halted turn is not *)
(* tried again, whatever its error reads like.  At most the stream of the   *)
(* halted attempt is still being closed (isTransientOverload,               *)
(* isBusControlSignal, deliverTurn).                                        *)
HeldIsLeftAlone == held => stage \in {"idle", "closing", "halting"}

(* The watchdog never closes the stream of an attempt that waits for the    *)
(* operator's answer (armHard).                                             *)
AskingIsNotStalling ==
  [][stage' = "closing" /\ stage # "closing" =>
       \A q \in registry : <<q.turn, q.attempt>> # <<turn, attempt>>]_vars

(* A turn that falls silent does not stay so: it is heard again, or its     *)
(* attempt ends, unless a question of this agent is parked (the watchdog of *)
(* runOneAttempt).                                                          *)
SilenceIsBroken ==
  (Live /\ idle > 0) ~> (~Live \/ idle = 0 \/ registry # {})

(* What the comment on the watchdog says: a wedged turn cannot hang         *)
(* silently until the server restarts.  The only excuse left is a question  *)
(* that this very attempt asks and the operator can answer.  The code has   *)
(* another: see the README.                                                 *)
WedgedTurnsEnd ==
  (Live /\ idle > 0) ~>
    \/ ~Live
    \/ idle = 0
    \/ /\ ended = "no"
       /\ \E q \in registry : <<q.turn, q.attempt>> = <<turn, attempt>>
=============================================================================
