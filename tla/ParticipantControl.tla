------------------------- MODULE ParticipantControl -------------------------
(***************************************************************************)
(* Mute, pause and kick of one worker of an orchestrated session           *)
(* (server/src/ws/control_verbs.ts), the columns that keep them            *)
(* (repo/per_agent_control.ts), the timers that end a pause                *)
(* (ws/pause_expiry.ts), and what the session's end, a restart and a       *)
(* rebuild (bus/reconstruct.ts) do to the three.                           *)
(*                                                                         *)
(* A verb runs without an await: it appends to the audit chain, writes the *)
(* row, and changes the memory of the live session and the timers.  The    *)
(* steps are separate because the process may die between two of them and  *)
(* because a write may throw; nothing else happens meanwhile (Idle).  A    *)
(* verb whose append fails is refused with nothing changed, which is a     *)
(* stutter.  Deadlines are the numbers of the pauses: a timer may fire at  *)
(* any time, and what matters is which pause it was armed for.             *)
(***************************************************************************)
EXTENDS Naturals

CONSTANTS
  Workers,   \* the participants with a control row; the hub can be none
  MaxPauses  \* bound: pauses accepted in one behaviour

ASSUME MaxPausesAssumption == MaxPauses \in Nat

VARIABLES
  row,      \* multi_agent_participants: [muted, until, expiry, kicked]
  trail,    \* audit chain: who has a kick, or an expiring auto-kick, on it
  ended,    \* the session's row says it is over
  live,     \* the session has a handle in the registry
  attached, \* the live session reports to a connection, not to NOOP_SINK
  muted,    \* router: mutedSet
  kicked,   \* router: kickedSet
  gated,    \* runner: the agents whose gate the operator holds
  timer,    \* PauseExpiryRegistry: worker -> [until, expiry]
  verb,     \* the verb in progress: [op, who, stage, expiry]
  pauses,   \* pauses accepted so far; the newest deadline
  lost,     \* history: whose expiry failed, in the chain or the row, since its pause
  cut       \* history: whose auto-kick threw between its two writes

memory == <<muted, kicked, gated>>
session == <<ended, live, attached>>
history == <<lost, cut>>
vars == <<row, trail, ended, live, attached, muted, kicked, gated, timer,
          verb, pauses, lost, cut>>

Expiry == {"auto_resume", "auto_kick"}
Unpaused == [until |-> 0, expiry |-> "none"]
PauseEntry == [until : Nat \ {0}, expiry : Expiry] \cup {Unpaused}
ControlState ==
  {r \in [muted : BOOLEAN, until : Nat, expiry : Expiry \cup {"none"},
          kicked : BOOLEAN] :
     (r.until = 0) <=> (r.expiry = "none")}

Ops == {"mute", "unmute", "pause", "resume", "kick"} \cup Expiry
NoVerb == [op |-> "none", who |-> "none", stage |-> "none", expiry |-> "none"]
Verb == [op : Ops, who : Workers, stage : {"audited", "cleared", "written"},
         expiry : Expiry \cup {"none"}]

TypeOK ==
  /\ row \in [Workers -> ControlState]
  /\ trail \subseteq {"kick", "auto_kick"} \X Workers
  /\ ended \in BOOLEAN
  /\ live \in BOOLEAN
  /\ attached \in BOOLEAN
  /\ muted \subseteq Workers
  /\ kicked \subseteq Workers
  /\ gated \subseteq Workers
  /\ timer \in [Workers -> PauseEntry]
  /\ verb \in Verb \cup {NoVerb}
  /\ pauses \in Nat
  /\ lost \subseteq Workers
  /\ cut \subseteq Workers

Idle == verb = NoVerb
Paused(w) == row[w].until # 0

Init ==
  /\ row = [w \in Workers |-> [muted |-> FALSE, until |-> 0,
                               expiry |-> "none", kicked |-> FALSE]]
  /\ trail = {}
  /\ ended = FALSE /\ live = TRUE /\ attached = TRUE
  /\ muted = {} /\ kicked = {} /\ gated = {}
  /\ timer = [w \in Workers |-> Unpaused]
  /\ verb = NoVerb
  /\ pauses = 0
  /\ lost = {} /\ cut = {}

-----------------------------------------------------------------------------
(* A verb of the operator: accepted, audited.  A pause does not ask whether *)
(* the worker was kicked, and no verb asks whether the session is live.     *)

Accepts(op, w) ==
  CASE op = "mute"   -> ~row[w].muted
    [] op = "unmute" -> row[w].muted
    [] op = "pause"  -> ~Paused(w)
    [] op = "resume" -> Paused(w)
    [] op = "kick"   -> ~row[w].kicked
    [] OTHER         -> FALSE

Audited(op, w) ==
  IF op \in {"kick", "auto_kick"} THEN trail \cup {<<op, w>>} ELSE trail

Begin(op, w, e) ==
  /\ Idle
  /\ Accepts(op, w)
  /\ e \in IF op = "pause" THEN Expiry ELSE {"none"}
  /\ op = "pause" => pauses < MaxPauses
  /\ trail' = Audited(op, w)
  /\ verb' = [op |-> op, who |-> w, stage |-> "audited", expiry |-> e]
  /\ pauses' = IF op = "pause" THEN pauses + 1 ELSE pauses
  /\ UNCHANGED <<row, session, memory, timer, history>>

(* The timer of a pause fires.  Its entry is dropped first; then the row is *)
(* read again, and the firing audited whatever it says.  If the append      *)
(* fails the worker stays paused, with no timer.                            *)

Diverged(w) == row[w].kicked \/ ~Paused(w)

Fire(w) ==
  /\ Idle
  /\ timer[w] # Unpaused
  /\ timer' = [timer EXCEPT ![w] = Unpaused]
  /\ \/ /\ lost' = lost \cup {w}
        /\ UNCHANGED <<trail, verb>>
     \/ /\ trail' = Audited(timer[w].expiry, w)
        /\ verb' = IF Diverged(w) THEN NoVerb
                   ELSE [op |-> timer[w].expiry, who |-> w,
                         stage |-> "audited", expiry |-> timer[w].expiry]
        /\ UNCHANGED lost
  /\ UNCHANGED <<row, session, memory, pauses, cut>>

-----------------------------------------------------------------------------
(* The writes to the row.  An auto-kick needs two.                          *)

\* Mutant: only the deadline is cleared.
ClearedDeadline(r) == [r EXCEPT !.until = 0]

ClearedPause(r) == [r EXCEPT !.until = 0, !.expiry = "none"]

RowAfter(r) ==
  CASE verb.op = "mute"   -> [r EXCEPT !.muted = TRUE]
    [] verb.op = "unmute" -> [r EXCEPT !.muted = FALSE]
    [] verb.op = "pause"  -> [r EXCEPT !.until = pauses, !.expiry = verb.expiry]
    [] verb.op = "kick"   -> [r EXCEPT !.kicked = TRUE]
    [] OTHER              -> ClearedPause(r)

WriteRow ==
  /\ verb.stage = "audited"
  /\ row' = [row EXCEPT ![verb.who] = RowAfter(@)]
  /\ verb' = [verb EXCEPT !.stage =
                IF verb.op = "auto_kick" THEN "cleared" ELSE "written"]
  /\ lost' = IF verb.op = "pause" THEN lost \ {verb.who} ELSE lost
  /\ UNCHANGED <<trail, session, memory, timer, pauses, cut>>

WriteKick ==
  /\ verb.stage = "cleared"
  /\ row' = [row EXCEPT ![verb.who].kicked = TRUE]
  /\ verb' = [verb EXCEPT !.stage = "written"]
  /\ UNCHANGED <<trail, session, memory, timer, pauses, history>>

\* A write throws: the verb ends there, and nobody undoes what came before.
WriteThrows ==
  /\ verb.stage \in {"audited", "cleared"}
  /\ verb' = NoVerb
  /\ cut' = IF verb.stage = "cleared" THEN cut \cup {verb.who} ELSE cut
  /\ lost' = IF verb.op \in Expiry THEN lost \cup {verb.who} ELSE lost
  /\ UNCHANGED <<row, trail, session, memory, timer, pauses>>

-----------------------------------------------------------------------------
(* What a verb does in memory once its row is written: to the handle if the *)
(* session is live, and to the timers in any case.                          *)

Cancel(w) == timer' = [timer EXCEPT ![w] = Unpaused]

ApplyMute(w) ==
  /\ muted' = IF ~live THEN muted
              ELSE IF verb.op = "mute" THEN muted \cup {w} ELSE muted \ {w}
  /\ UNCHANGED <<row, trail, kicked, gated, timer, cut>>

\* The runner refuses to gate an agent whose gate the operator holds already:
\* the pause is taken back from the row and no timer is armed.
ApplyPause(w) ==
  /\ IF live /\ w \in gated
       THEN /\ row' = [row EXCEPT ![w] = ClearedPause(@)]
            /\ UNCHANGED <<gated, timer>>
       ELSE /\ gated' = IF live THEN gated \cup {w} ELSE gated
            /\ timer' = [timer EXCEPT ![w] = [until |-> row[w].until,
                                              expiry |-> row[w].expiry]]
            /\ UNCHANGED row
  /\ UNCHANGED <<trail, muted, kicked, cut>>

\* Mutant: the operator's resume leaves the timer armed.
ApplyResumeUncancelled(w) ==
  /\ gated' = IF live THEN gated \ {w} ELSE gated
  /\ UNCHANGED <<row, trail, muted, kicked, timer, cut>>

ApplyResume(w) ==
  /\ gated' = IF live THEN gated \ {w} ELSE gated
  /\ Cancel(w)
  /\ UNCHANGED <<row, trail, muted, kicked, cut>>

\* The kick of the router; the runner's gates are opened when it was news.
KickAgent(w) ==
  IF live /\ w \notin kicked
    THEN /\ kicked' = kicked \cup {w}
         /\ gated' = gated \ {w}
         /\ cut' = cut \ {w}
    ELSE UNCHANGED <<kicked, gated, cut>>

ApplyKick(w) ==
  /\ KickAgent(w)
  /\ Cancel(w)
  /\ UNCHANGED <<row, trail, muted>>

\* Mutant: the expiry clears the row and leaves the gate.
ApplyAutoResumeHeld(w) == UNCHANGED <<row, trail, memory, timer, cut>>

ApplyAutoResume(w) ==
  /\ gated' = IF live THEN gated \ {w} ELSE gated
  /\ UNCHANGED <<row, trail, muted, kicked, timer, cut>>

\* The kick is audited once more, after the fact; that append may fail.
ApplyAutoKick(w) ==
  /\ KickAgent(w)
  /\ trail' \in {trail, Audited("kick", w)}
  /\ UNCHANGED <<row, muted, timer>>

Apply ==
  /\ verb.stage = "written"
  /\ \/ verb.op \in {"mute", "unmute"} /\ ApplyMute(verb.who)
     \/ verb.op = "pause" /\ ApplyPause(verb.who)
     \/ verb.op = "resume" /\ ApplyResume(verb.who)
     \/ verb.op = "kick" /\ ApplyKick(verb.who)
     \/ verb.op = "auto_resume" /\ ApplyAutoResume(verb.who)
     \/ verb.op = "auto_kick" /\ ApplyAutoKick(verb.who)
  /\ verb' = NoVerb
  /\ UNCHANGED <<session, pauses, lost>>

-----------------------------------------------------------------------------
(* The session around the verbs.                                            *)

\* A connection closes; the session runs on and reports to nobody.
Detach ==
  /\ Idle /\ attached
  /\ attached' = FALSE
  /\ UNCHANGED <<row, trail, ended, live, memory, timer, verb, pauses, history>>

Attach ==
  /\ Idle /\ live /\ ~attached
  /\ attached' = TRUE
  /\ UNCHANGED <<row, trail, ended, live, memory, timer, verb, pauses, history>>

\* The sink's onEnded clears the session's timers; NOOP_SINK's does nothing.
End ==
  /\ Idle /\ live
  /\ ended' = TRUE /\ live' = FALSE /\ attached' = FALSE
  /\ muted' = {} /\ kicked' = {} /\ gated' = {}
  /\ timer' = IF attached THEN [w \in Workers |-> Unpaused] ELSE timer
  /\ cut' = {}
  /\ UNCHANGED <<row, trail, verb, pauses, lost>>

\* The process dies, perhaps in the middle of a verb.  The rows and the chain
\* stay.
Crash ==
  /\ live' = FALSE /\ attached' = FALSE
  /\ muted' = {} /\ kicked' = {} /\ gated' = {}
  /\ timer' = [w \in Workers |-> Unpaused]
  /\ verb' = NoVerb
  /\ cut' = {}
  /\ UNCHANGED <<row, trail, ended, pauses, lost>>

\* Mutant: the timers are armed again, the gates are not.
RebuildUngated ==
  /\ Idle /\ ~live
  /\ live' = TRUE /\ attached' = TRUE /\ ended' = FALSE
  /\ muted' = {w \in Workers : row[w].muted}
  /\ kicked' = {w \in Workers : row[w].kicked}
  /\ timer' = [w \in Workers |->
                 IF Paused(w) THEN [until |-> row[w].until,
                                    expiry |-> row[w].expiry]
                 ELSE timer[w]]
  /\ lost' = {}
  /\ UNCHANGED <<row, trail, gated, verb, pauses, cut>>

\* Mutant: the gates are closed again, the timers are not armed.
RebuildUntimed ==
  /\ Idle /\ ~live
  /\ live' = TRUE /\ attached' = TRUE /\ ended' = FALSE
  /\ muted' = {w \in Workers : row[w].muted}
  /\ kicked' = {w \in Workers : row[w].kicked}
  /\ gated' = {w \in Workers : Paused(w)}
  /\ lost' = {}
  /\ UNCHANGED <<row, trail, timer, verb, pauses, cut>>

\* The session is rebuilt after a restart, or resumed after its end: the
\* router is seeded from the rows, then every paused row gets its gate and
\* its timer back.
Rebuild ==
  /\ Idle /\ ~live
  /\ live' = TRUE /\ attached' = TRUE /\ ended' = FALSE
  /\ muted' = {w \in Workers : row[w].muted}
  /\ kicked' = {w \in Workers : row[w].kicked}
  /\ gated' = {w \in Workers : Paused(w)}
  /\ timer' = [w \in Workers |->
                 IF Paused(w) THEN [until |-> row[w].until,
                                    expiry |-> row[w].expiry]
                 ELSE timer[w]]
  /\ lost' = {}
  /\ UNCHANGED <<row, trail, verb, pauses, cut>>

-----------------------------------------------------------------------------
Next ==
  \/ \E op \in Ops, w \in Workers, e \in Expiry \cup {"none"} : Begin(op, w, e)
  \/ \E w \in Workers : Fire(w)
  \/ WriteRow
  \/ WriteKick
  \/ WriteThrows
  \/ Apply
  \/ Detach
  \/ Attach
  \/ End
  \/ Crash
  \/ Rebuild

(* A verb runs to its end: it does not wait for anything.  The event loop   *)
(* comes round to a timer that is due even when verbs keep it busy, so the  *)
(* fairness of the timers is strong.                                        *)
Fairness ==
  /\ WF_vars(WriteRow \/ WriteThrows)
  /\ WF_vars(WriteKick \/ WriteThrows)
  /\ WF_vars(Apply)
  /\ \A w \in Workers : SF_vars(Fire(w))

Spec == Init /\ [][Next]_vars
FairSpec == Spec /\ Fairness

-----------------------------------------------------------------------------
(* What the rows say is what is in force: between two verbs, the router of  *)
(* a live session mutes and drops exactly the workers whose rows say so,    *)
(* and every worker shown paused and not kicked is held by its gate -       *)
(* through failed writes, a restart, a resumed session and the timers       *)
(* (executePauseParticipant, reconstructOrchestratorSession).               *)
RestraintsInForce ==
  Idle /\ live =>
    /\ muted = {w \in Workers : row[w].muted}
    /\ kicked = {w \in Workers : row[w].kicked}
    /\ \A w \in Workers : Paused(w) /\ ~row[w].kicked => w \in gated

(* A worker that is held can be let go: Resume is refused for a worker      *)
(* whose row is not paused, so a gate without a paused row would be closed  *)
(* for good.  The one exception is an auto-kick that threw between its two  *)
(* writes (executeExpireParticipant).                                       *)
GateCanBeLifted ==
  Idle /\ live =>
    \A w \in gated : Paused(w) \/ row[w].kicked \/ w \in cut

(* A timer belongs to the pause that stands: no timer survives the resume   *)
(* or the kick that ended its pause, and none ends, early, a pause that     *)
(* came after the one it was armed for (PauseExpiryRegistry).               *)
TimerOfThePause ==
  Idle =>
    \A w \in Workers :
      timer[w] # Unpaused =>
        timer[w] = [until |-> row[w].until, expiry |-> row[w].expiry]

(* No worker is kicked without a record of it, not even when the process    *)
(* dies in the middle: the chain has the kick, or the expiry of the pause   *)
(* that said auto_kick (executeKickParticipant, executeExpireParticipant).  *)
KicksAreOnRecord ==
  \A w \in Workers :
    row[w].kicked => <<"kick", w>> \in trail \/ <<"auto_kick", w>> \in trail

(* A pause that stands is timed: while the session lives, a worker that is  *)
(* paused and not kicked has its timer armed, unless its expiry was tried   *)
(* and failed.  This is why a pause ends without the operator.              *)
PausesAreTimed ==
  Idle /\ live =>
    \A w \in Workers :
      Paused(w) /\ ~row[w].kicked => timer[w] # Unpaused \/ w \in lost

(* A pause ends as it was agreed: by the resume of that worker, by the      *)
(* expiry that was chosen for it, unless the worker has been kicked since,  *)
(* or by being taken back because the gate could not be closed.  Only a     *)
(* kick verb or a pause that said auto_kick leads to a kicked row           *)
(* (executePauseParticipant, executeExpireParticipant).                     *)
PausesEndAsAgreed ==
  [][\A w \in Workers :
       /\ Paused(w) /\ row'[w].until = 0 =>
            /\ verb.who = w
            /\ \/ verb.op = "resume"
               \/ verb.op = row[w].expiry /\ ~row[w].kicked
               \/ verb.op = "pause" /\ row[w].until = pauses /\ w \in gated
       /\ ~row[w].kicked /\ row'[w].kicked =>
            verb.who = w /\ verb.op \in {"kick", "auto_kick"}]_vars

(* A pause ends: while the session lives, a paused worker is resumed or     *)
(* kicked in the end even if the operator never returns, unless its expiry  *)
(* could not be recorded or written (ws/pause_expiry.ts).                   *)
PausesEnd ==
  \A w \in Workers :
    (live /\ Paused(w) /\ ~row[w].kicked) ~>
      (~live \/ ~Paused(w) \/ row[w].kicked \/ w \in lost)
=============================================================================
