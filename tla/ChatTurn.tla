------------------------------ MODULE ChatTurn ------------------------------
(***************************************************************************)
(* A turn of a single-agent session (runOneTurn of server/src/ws/server.ts)*)
(* and the handlers of a window that touch one: send, retry after a rate   *)
(* limit, Stop, the answers to its cards, and the closing socket.  Frames  *)
(* are handled as they arrive and not one after the other, so every await  *)
(* of a turn is a place where other windows, and the same one, act.        *)
(*                                                                         *)
(* A step is what runs between two such awaits: the spawn gates, which may *)
(* ask the operator; a write to the transcript, which waits for the disk   *)
(* when more than the stream's buffer is written (a long prompt, the       *)
(* content of a file); the stream of the SDK; and Stop, which the SDK may  *)
(* never answer.  A turn is named by its window, its session and a slot,   *)
(* which it leaves to a later turn when it is over.  Tools that are        *)
(* allowed or refused without a card leave no trace here.                  *)
(***************************************************************************)
EXTENDS Naturals, FiniteSets

CONSTANTS
  Conns,      \* the windows, all connected at first
  Sessions,
  Slots,      \* bound: turns of one session that one window may have at a time
  MaxBusy     \* bound: turns under way, or leaving a card behind, at a time

ASSUME SlotsAssumption == Slots \in Nat
ASSUME MaxBusyAssumption == MaxBusy \in Nat

Turns == Conns \X Sessions \X (1..Slots)
Win(t) == t[1]
Chat(t) == t[2]
Slot(t) == t[3]
At(t) == <<t[1], t[2]>>

VARIABLES
  open,        \* openConns
  rows,        \* the sessions with a row
  phase,       \* turn -> where it is; "failing" and "limited" are the writing
               \* of the error that ended the stream
  inFlight,    \* conn.inFlight: window and session -> the slot, 0 for none
  registered,  \* the turns in the registry of the process (registerQuery)
  stop,        \* turn -> what Stop, or the closing window, has come to
  ask,         \* turn -> what its tool call waits for, see Asks
  captured,    \* conn.capturedPrompts: where a prompt is kept for a retry
  banner,      \* the windows told that a session's turn is held
  overlapped   \* history: sessions that have had two turns at the same time

dialogue == <<inFlight, stop, ask>>
prompts == <<captured, banner>>
vars == <<open, rows, phase, inFlight, registered, stop, ask, captured,
          banner, overlapped>>

Streaming == {"streaming", "failing", "limited"}
PastGate == {"writing"} \cup Streaming
Phases == {"idle", "gate"} \cup PastGate

\* A permission card is sent, written to the transcript and only then entered
\* in conn.pendingPermissions; "stray" is an entry whose turn was over by then.
\* A question is entered in the registry before its card is sent.
Pending == {"parked", "stray"}
Asks == {"none", "unparked", "question"} \cup Pending

TypeOK ==
  /\ open \subseteq Conns
  /\ rows \subseteq Sessions
  /\ phase \in [Turns -> Phases]
  /\ inFlight \in [Conns \X Sessions -> 0..Slots]
  /\ registered = {t \in Turns : phase[t] \in PastGate}
  /\ stop \in [Turns -> {"no", "asked", "answered", "aborted"}]
  /\ \A t \in Turns : phase[t] \notin Streaming => stop[t] = "no"
  /\ ask \in [Turns -> Asks]
  /\ captured \subseteq Conns \X Sessions
  /\ banner \subseteq Conns \X Sessions
  /\ overlapped \subseteq Sessions

Init ==
  /\ open = Conns
  /\ rows \in SUBSET Sessions
  /\ phase = [t \in Turns |-> "idle"]
  /\ inFlight = [p \in Conns \X Sessions |-> 0]
  /\ registered = {}
  /\ stop = [t \in Turns |-> "no"]
  /\ ask = [t \in Turns |-> "none"]
  /\ captured = {}
  /\ banner = {}
  /\ overlapped = {}

-----------------------------------------------------------------------------
(* A turn starts.                                                           *)

\* Mutant: only the turns of the window itself are looked at.
RefusedInWindow(t) == inFlight[At(t)] # 0

\* The window's own map, then the registry of the process.
Refused(t) == inFlight[At(t)] # 0 \/ \E u \in registered : Chat(u) = Chat(t)

\* A slot that a later turn cannot have yet.
Busy(t) == phase[t] # "idle" \/ ask[t] # "none"

\* A session without a row is a new one, with an id that nobody else has.
RunOneTurn(t) ==
  /\ Win(t) \in open
  /\ ~Busy(t) /\ \A u \in Turns : At(u) = At(t) /\ Slot(u) < Slot(t) => Busy(u)
  /\ Chat(t) \in rows \/ \A u \in Turns : Chat(u) = Chat(t) => phase[u] = "idle"
  /\ ~Refused(t)
  /\ Cardinality({u \in Turns : Busy(u)}) < MaxBusy
  /\ phase' = [phase EXCEPT ![t] = "gate"]
  /\ UNCHANGED <<open, rows, registered, dialogue, prompts, overlapped>>

SendMessage(t) == RunOneTurn(t)

\* What was typed is sent again, by the operator or by the client's timer.
RetryRateLimited(t) == At(t) \in captured /\ RunOneTurn(t)

GateDeclined(t) ==
  /\ phase[t] = "gate"
  /\ phase' = [phase EXCEPT ![t] = "idle"]
  /\ banner' = banner \ {At(t)}
  /\ UNCHANGED <<open, rows, registered, dialogue, captured, overlapped>>

\* The row, the captured prompt, the runner and its registration; whether the
\* session has a turn by now is not asked again.
GateClears(t) ==
  /\ phase[t] = "gate"
  /\ rows' = rows \cup {Chat(t)}
  /\ captured' = captured \cup {At(t)}
  /\ phase' = [phase EXCEPT ![t] = "writing"]
  /\ registered' = registered \cup {t}
  /\ overlapped' = IF \E u \in Turns : Chat(u) = Chat(t) /\ phase[u] \in PastGate
                     THEN overlapped \cup {Chat(t)} ELSE overlapped
  /\ UNCHANGED <<open, dialogue, banner>>

\* The prompt is on the transcript: the window has a turn it can stop.
PromptWritten(t) ==
  /\ phase[t] = "writing"
  /\ phase' = [phase EXCEPT ![t] = "streaming"]
  /\ inFlight' = [inFlight EXCEPT ![At(t)] = Slot(t)]
  /\ banner' = banner \ {At(t)}
  /\ UNCHANGED <<open, rows, registered, stop, ask, captured, overlapped>>

-----------------------------------------------------------------------------
(* Its tool calls (canUseTool).                                             *)

AskOperator(t) ==
  /\ phase[t] \in {"writing", "streaming"}
  /\ stop[t] \in {"no", "asked"}
  /\ ask[t] = "none"
  /\ \E what \in {"question", "unparked"} : ask' = [ask EXCEPT ![t] = what]
  /\ UNCHANGED <<open, rows, phase, inFlight, registered, stop, prompts, overlapped>>

CardParked(t) ==
  /\ ask[t] = "unparked"
  /\ ask' = [ask EXCEPT ![t] = IF phase[t] = "idle" THEN "stray" ELSE "parked"]
  /\ UNCHANGED <<open, rows, phase, inFlight, registered, stop, prompts, overlapped>>

\* Allow or Deny; for a card that is not in the map yet it is dropped.
PermissionDecision(t) ==
  /\ Win(t) \in open
  /\ ask[t] \in Pending
  /\ ask' = [ask EXCEPT ![t] = "none"]
  /\ UNCHANGED <<open, rows, phase, inFlight, registered, stop, prompts, overlapped>>

\* Any window with a turn of that session in flight may answer its questions.
AskUserAnswer(c, t) ==
  /\ c \in open
  /\ ask[t] = "question"
  /\ inFlight[<<c, Chat(t)>>] # 0
  /\ ask' = [ask EXCEPT ![t] = "none"]
  /\ UNCHANGED <<open, rows, phase, inFlight, registered, stop, prompts, overlapped>>

\* The drains: the permission cards at P, and the questions of the sessions S.
Drained(P, S) ==
  [u \in Turns |-> IF \/ At(u) \in P /\ ask[u] \in Pending
                      \/ Chat(u) \in S /\ ask[u] = "question"
                     THEN "none" ELSE ask[u]]

-----------------------------------------------------------------------------
(* It is stopped: by Stop, or by its window's closing.                      *)

\* Mutant: Stop takes the turn off the window's map.
InterruptForgets(c, s) ==
  /\ c \in open
  /\ ask' = Drained({<<c, s>>}, {s})
  /\ stop' = [t \in Turns |->
                IF At(t) = <<c, s>> /\ Slot(t) = inFlight[<<c, s>>] /\ stop[t] = "no"
                  THEN "asked" ELSE stop[t]]
  /\ inFlight' = [inFlight EXCEPT ![<<c, s>>] = 0]
  /\ UNCHANGED <<open, rows, phase, registered, prompts, overlapped>>

\* The cards are drained, and the turn the window has in flight is asked to
\* end, with a watchdog.  With none in flight nothing is asked.
Interrupt(c, s) ==
  /\ c \in open
  /\ ask' = Drained({<<c, s>>}, {s})
  /\ stop' = [t \in Turns |->
                IF At(t) = <<c, s>> /\ Slot(t) = inFlight[<<c, s>>] /\ stop[t] = "no"
                  THEN "asked" ELSE stop[t]]
  /\ UNCHANGED <<open, rows, phase, inFlight, registered, prompts, overlapped>>

\* The SDK takes the interrupt, or fails it, which aborts the turn.
InterruptAnswered(t) ==
  /\ stop[t] = "asked"
  /\ \E how \in {"answered", "aborted"} : stop' = [stop EXCEPT ![t] = how]
  /\ UNCHANGED <<open, rows, phase, inFlight, registered, ask, prompts, overlapped>>

\* Mutant: the watchdog of a turn that waits for the operator does not fire.
WatchdogSparesAsking(t) ==
  /\ stop[t] = "asked" /\ ask[t] = "none"
  /\ stop' = [stop EXCEPT ![t] = "aborted"]
  /\ UNCHANGED <<open, rows, phase, inFlight, registered, ask, prompts, overlapped>>

WatchdogFires(t) ==
  /\ stop[t] = "asked"
  /\ stop' = [stop EXCEPT ![t] = "aborted"]
  /\ UNCHANGED <<open, rows, phase, inFlight, registered, ask, prompts, overlapped>>

\* The turns of the closing window that are in flight are aborted, those at
\* a gate are abandoned there; one that writes its prompt is neither.  What
\* the connection kept is gone with it.
Close(c) ==
  /\ c \in open
  /\ open' = open \ {c}
  /\ ask' = Drained({c} \X Sessions, {s \in Sessions : inFlight[<<c, s>>] # 0})
  /\ stop' = [t \in Turns |->
                IF Win(t) = c /\ Slot(t) = inFlight[At(t)] THEN "aborted" ELSE stop[t]]
  /\ inFlight' = [p \in Conns \X Sessions |-> IF p[1] = c THEN 0 ELSE inFlight[p]]
  /\ phase' = [t \in Turns |->
                 IF Win(t) = c /\ phase[t] = "gate" THEN "idle" ELSE phase[t]]
  /\ captured' = {p \in captured : p[1] # c}
  /\ banner' = {p \in banner : p[1] # c}
  /\ UNCHANGED <<rows, registered, overlapped>>

-----------------------------------------------------------------------------
(* It ends: the stream does, an error is written down, and the finally      *)
(* clause undoes what the start has set up.                                 *)

\* Mutant: the prompt is dropped whatever the turn ended with.
OverDropsPrompt(t, limited) ==
  /\ phase' = [phase EXCEPT ![t] = "idle"]
  /\ registered' = registered \ {t}
  /\ inFlight' = [inFlight EXCEPT ![At(t)] = 0]
  /\ stop' = [stop EXCEPT ![t] = "no"]
  /\ ask' = Drained({At(t)}, {Chat(t)})
  /\ captured' = captured \ {At(t)}
  /\ banner' = IF limited /\ Win(t) \in open THEN banner \cup {At(t)} ELSE banner \ {At(t)}
  /\ UNCHANGED <<open, rows, overlapped>>

\* Mutant: the questions are left to Stop and to the closing window.
OverLeavesQuestions(t, limited) ==
  /\ phase' = [phase EXCEPT ![t] = "idle"]
  /\ registered' = registered \ {t}
  /\ inFlight' = [inFlight EXCEPT ![At(t)] = 0]
  /\ stop' = [stop EXCEPT ![t] = "no"]
  /\ ask' = Drained({At(t)}, {})
  /\ captured' = IF limited THEN captured ELSE captured \ {At(t)}
  /\ banner' = IF limited /\ Win(t) \in open THEN banner \cup {At(t)} ELSE banner \ {At(t)}
  /\ UNCHANGED <<open, rows, overlapped>>

\* Mutant: a turn whose window has closed is left on the registry.
OverLeavesRegistry(t, limited) ==
  /\ phase' = [phase EXCEPT ![t] = "idle"]
  /\ registered' = IF Win(t) \in open THEN registered \ {t} ELSE registered
  /\ inFlight' = [inFlight EXCEPT ![At(t)] = 0]
  /\ stop' = [stop EXCEPT ![t] = "no"]
  /\ ask' = Drained({At(t)}, {Chat(t)})
  /\ captured' = IF limited THEN captured ELSE captured \ {At(t)}
  /\ banner' = IF limited /\ Win(t) \in open THEN banner \cup {At(t)} ELSE banner \ {At(t)}
  /\ UNCHANGED <<open, rows, overlapped>>

\* The map entry goes by the session, whichever turn it is of.
Over(t, limited) ==
  /\ phase' = [phase EXCEPT ![t] = "idle"]
  /\ registered' = registered \ {t}
  /\ inFlight' = [inFlight EXCEPT ![At(t)] = 0]
  /\ stop' = [stop EXCEPT ![t] = "no"]
  /\ ask' = Drained({At(t)}, {Chat(t)})
  /\ captured' = IF limited THEN captured ELSE captured \ {At(t)}
  /\ banner' = IF limited /\ Win(t) \in open THEN banner \cup {At(t)} ELSE banner \ {At(t)}
  /\ UNCHANGED <<open, rows, overlapped>>

\* A turn does not finish before its tool call, unless it is stopped.
StreamEnds(t) ==
  /\ phase[t] = "streaming"
  /\ ask[t] = "none" \/ stop[t] # "no"
  /\ Over(t, FALSE)

\* What Cebab aborted is not taken for a rate limit (classifyError).
StreamFails(t) ==
  /\ phase[t] = "streaming"
  /\ \E how \in {"failing", "limited"} :
       /\ how = "limited" => stop[t] # "aborted"
       /\ phase' = [phase EXCEPT ![t] = how]
  /\ UNCHANGED <<open, rows, registered, dialogue, prompts, overlapped>>

ErrorWritten(t) ==
  /\ phase[t] \in {"failing", "limited"}
  /\ Over(t, phase[t] = "limited")

-----------------------------------------------------------------------------
Next ==
  \/ \E t \in Turns :
       \/ SendMessage(t) \/ RetryRateLimited(t)
       \/ GateDeclined(t) \/ GateClears(t) \/ PromptWritten(t)
       \/ AskOperator(t) \/ CardParked(t) \/ PermissionDecision(t)
       \/ InterruptAnswered(t) \/ WatchdogFires(t)
       \/ StreamEnds(t) \/ StreamFails(t) \/ ErrorWritten(t)
  \/ \E c \in Conns :
       \/ Close(c)
       \/ \E s \in Sessions : Interrupt(c, s)
       \/ \E t \in Turns : AskUserAnswer(c, t)

(* A write to the transcript is over within its timeout, the watchdog of a  *)
(* Stop fires, and a stream that was aborted, or whose interrupt the SDK    *)
(* has taken, ends.  Nothing is assumed of the operator, nor of the model.  *)
Ending(t) == stop[t] \in {"answered", "aborted"} /\ (StreamEnds(t) \/ StreamFails(t))

Fairness ==
  \A t \in Turns :
    /\ WF_vars(WatchdogFires(t))
    /\ WF_vars(Ending(t))
    /\ WF_vars(ErrorWritten(t))

Spec == Init /\ [][Next]_vars
FairSpec == Spec /\ Fairness

-----------------------------------------------------------------------------
(* A turn is not even taken to the gates while a turn of its session is     *)
(* past them, in whichever window: the registry names every turn from its   *)
(* start to the end, and no other (describeConcurrentSingleTurn).           *)
NoSecondTurnPastTheGates ==
  [][\A t, u \in Turns :
       Chat(t) = Chat(u) /\ phase[t] \in PastGate
         => ~(phase[u] = "idle" /\ phase'[u] = "gate")]_vars

(* Stop finds the turn that is running, from its first message until its    *)
(* last trace is gone, as long as its window is there - unless the session  *)
(* has had two turns at a time, of which one took the entry of the other.   *)
StopFindsTheTurn ==
  \A t \in Turns :
    phase[t] \in Streaming /\ Win(t) \in open /\ Chat(t) \notin overlapped
      => inFlight[At(t)] = Slot(t)

(* What a window's map names, and what Stop and the closing window end by   *)
(* it, is a turn whose stream is open: no entry outlives its turn, not even *)
(* when two turns of a session share one (runOneTurn's finally clause).     *)
EntriesAreLive ==
  \A t \in Turns : inFlight[At(t)] = Slot(t) => phase[t] \in Streaming

(* A turn is stopped through its own window's entry only, and what it was   *)
(* told stands until it is over: the answer of the SDK and the watchdog     *)
(* take nothing back, and an abort is not followed by anything milder       *)
(* (executeInterrupt, the close handler).                                   *)
StopsStand ==
  [][\A t \in Turns :
       /\ stop[t] = "no" /\ stop'[t] # "no" => inFlight[At(t)] = Slot(t)
       /\ stop[t] # "no" => stop'[t] # "no" \/ phase'[t] = "idle"
       /\ stop[t] = "aborted" => stop'[t] = "aborted" \/ phase'[t] = "idle"]_vars

(* A session that a window shows as held by a rate limit has its prompt     *)
(* kept there, so that the retry the banner offers has something to send -  *)
(* with the same exception (runOneTurn, resolveRetryRateLimited).           *)
HeldPromptIsKept ==
  \A p \in banner : p[2] \notin overlapped => p \in captured

(* No card outlives its turn: what the operator can still answer belongs to *)
(* a turn that waits for it.  The one exception is a permission card that   *)
(* was still on its way to the transcript as the turn ended                 *)
(* (drainPendingPermissionsForEndedTurn, drainParkedQuestionsForSessions).  *)
CardsEndWithTheirTurn ==
  \A t \in Turns :
    ask[t] \in {"parked", "question"} => phase[t] \in {"writing"} \cup Streaming

(* A turn that is stopped ends, whether the SDK answers or not              *)
(* (executeInterrupt and its watchdog).                                     *)
StoppedTurnsEnd == \A t \in Turns : stop[t] # "no" ~> phase[t] = "idle"

(* What the comments on the two guards say: a session never has two turns   *)
(* in parallel.  The code does not: see the README.                         *)
OneTurnPerSession ==
  \A t, u \in Turns :
    Chat(t) = Chat(u) /\ phase[t] \in PastGate /\ phase[u] \in PastGate => t = u
=============================================================================
