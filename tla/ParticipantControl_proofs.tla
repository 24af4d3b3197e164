----------------------- MODULE ParticipantControl_proofs -----------------------
(***************************************************************************)
(* Proofs about ParticipantControl, for any workers and any number of      *)
(* pauses.                                                                 *)
(*                                                                         *)
(* The properties speak of the moments between two verbs.  For the steps   *)
(* of a verb the invariant says what is owed: a worker for whom a verb has *)
(* written the row and not yet changed the memory is excused, and Promised *)
(* is what the rest of the verb relies on.                                 *)
(***************************************************************************)
EXTENDS ParticipantControl, TLAPS

\* Worker w is the one the verb in progress is about, at one of these stages.
Doing(w, stages, ops) ==
  /\ verb.who = w
  /\ verb.stage \in stages
  /\ verb.op \in ops

\* What a verb has found or done by the time it is at a stage.
Promised ==
  /\ verb.stage = "cleared" => verb.op = "auto_kick"
  /\ verb.op = "pause" => verb.expiry \in Expiry
  /\ \A w \in Workers :
       /\ Doing(w, {"written"}, {"mute"}) => row[w].muted
       /\ Doing(w, {"written"}, {"unmute"}) => ~row[w].muted
       /\ Doing(w, {"written"}, {"kick", "auto_kick"}) => row[w].kicked
       /\ Doing(w, {"audited", "cleared", "written"}, {"kick"}) =>
            <<"kick", w>> \in trail
       /\ Doing(w, {"audited", "cleared", "written"}, {"auto_kick"}) =>
            <<"auto_kick", w>> \in trail
       /\ Doing(w, {"cleared", "written"}, {"resume", "auto_resume", "auto_kick"}) =>
            ~Paused(w)
       /\ Doing(w, {"audited", "cleared", "written"},
                {"pause", "auto_resume", "auto_kick"}) =>
            timer[w] = Unpaused
       /\ Doing(w, {"audited", "cleared", "written"}, {"pause"}) /\ live /\ w \in gated =>
            row[w].kicked \/ w \in cut
       /\ Doing(w, {"audited"}, {"pause"}) => ~Paused(w)
       /\ Doing(w, {"written"}, {"pause"}) =>
            row[w].until = pauses /\ row[w].expiry = verb.expiry

PauseNumbered == verb.op = "pause" => pauses > 0

MutedOwed(w) ==
  live /\ ~Doing(w, {"written"}, {"mute", "unmute"}) =>
    (w \in muted <=> row[w].muted)

KickOwed(w) ==
  live /\ ~Doing(w, {"written"}, {"kick", "auto_kick"}) =>
    (w \in kicked <=> row[w].kicked)

GateOwed(w) ==
  live /\ Paused(w) /\ ~row[w].kicked /\ ~Doing(w, {"written"}, {"pause"}) =>
    w \in gated

LiftOwed(w) ==
  live /\ w \in gated
       /\ ~Doing(w, {"written"}, {"resume", "auto_resume"})
       /\ ~Doing(w, {"cleared"}, {"auto_kick"}) =>
    Paused(w) \/ row[w].kicked \/ w \in cut

TimerOwed(w) ==
  timer[w] # Unpaused /\ ~Doing(w, {"written"}, {"resume"}) =>
    timer[w] = [until |-> row[w].until, expiry |-> row[w].expiry]

MemoryInv == \A w \in Workers : MutedOwed(w) /\ KickOwed(w) /\ GateOwed(w) /\ LiftOwed(w)
TimerInv == \A w \in Workers : TimerOwed(w)

IInv == TypeOK /\ Promised /\ PauseNumbered /\ MemoryInv /\ TimerInv /\ KicksAreOnRecord

LEMMA InitIInv == Init => IInv
<1> SUFFICES ASSUME Init PROVE IInv
  OBVIOUS
<1>1. row \in [Workers -> ControlState]
  BY DEF Init, ControlState
<1>2. timer \in [Workers -> PauseEntry]
  BY DEF Init, PauseEntry
<1>3. TypeOK
  BY <1>1, <1>2 DEF Init, TypeOK
<1>4. Promised /\ PauseNumbered
  BY DEF Init, Promised, PauseNumbered, Doing, NoVerb
<1>5. MemoryInv /\ TimerInv /\ KicksAreOnRecord
  BY DEF Init, MemoryInv, TimerInv, KicksAreOnRecord, MutedOwed, KickOwed,
     GateOwed, LiftOwed, TimerOwed, Paused
<1> QED
  BY <1>3, <1>4, <1>5 DEF IInv

-----------------------------------------------------------------------------
(* Types. *)

\* What is written to a row is a row again.
LEMMA RowWrites ==
  ASSUME NEW r \in ControlState
  PROVE  /\ ClearedPause(r) \in ControlState
         /\ [r EXCEPT !.muted = TRUE] \in ControlState
         /\ [r EXCEPT !.muted = FALSE] \in ControlState
         /\ [r EXCEPT !.kicked = TRUE] \in ControlState
         /\ \A n \in Nat \ {0}, e \in Expiry :
              [r EXCEPT !.until = n, !.expiry = e] \in ControlState
         /\ r.until # 0 => [until |-> r.until, expiry |-> r.expiry] \in PauseEntry
BY DEF ControlState, ClearedPause, PauseEntry, Expiry

LEMMA AuditedType ==
  ASSUME trail \subseteq {"kick", "auto_kick"} \X Workers,
         NEW o, NEW w \in Workers
  PROVE  Audited(o, w) \subseteq {"kick", "auto_kick"} \X Workers
BY DEF Audited

LEMMA VerbType ==
  ASSUME TypeOK, verb # NoVerb
  PROVE  /\ verb.op \in Ops /\ verb.who \in Workers
         /\ verb.stage \in {"audited", "cleared", "written"}
         /\ verb.expiry \in Expiry \cup {"none"}
         /\ \A s \in {"audited", "cleared", "written"} :
              [verb EXCEPT !.stage = s] \in Verb
BY DEF TypeOK, Verb

LEMMA TypeStep == IInv /\ [Next]_vars => TypeOK'
<1> SUFFICES ASSUME IInv, [Next]_vars PROVE TypeOK'
  OBVIOUS
<1>0. TypeOK
  BY DEF IInv
<1> USE DEF session, memory, history
<1>1. ASSUME NEW o \in Ops, NEW w \in Workers, NEW e \in Expiry \cup {"none"},
             Begin(o, w, e)
      PROVE  TypeOK'
  <2>1. verb' \in Verb
    BY <1>1 DEF Begin, Verb
  <2> QED
    BY <1>0, <1>1, <2>1, AuditedType DEF Begin, TypeOK
<1>2. ASSUME NEW w \in Workers, Fire(w) PROVE TypeOK'
  <2>1. timer' \in [Workers -> PauseEntry]
    BY <1>0, <1>2 DEF Fire, TypeOK, PauseEntry
  <2>2. timer[w].expiry \in Expiry
    BY <1>0, <1>2 DEF Fire, TypeOK, PauseEntry
  <2>3. verb' \in Verb \cup {NoVerb}
    BY <1>0, <1>2, <2>2 DEF Fire, TypeOK, Verb, Ops
  <2>4. trail' \subseteq {"kick", "auto_kick"} \X Workers
    BY <1>0, <1>2, AuditedType DEF Fire, TypeOK
  <2> QED
    BY <1>0, <1>2, <2>1, <2>3, <2>4 DEF Fire, TypeOK
<1>3. CASE WriteRow
  <2>0. verb # NoVerb
    BY <1>3 DEF WriteRow, NoVerb
  <2>1. row[verb.who] \in ControlState
    BY <1>0, <2>0, VerbType DEF TypeOK
  <2>2. verb.op = "pause" => verb.expiry \in Expiry /\ pauses \in Nat \ {0}
    BY <1>0 DEF IInv, Promised, PauseNumbered, TypeOK
  <2>3. RowAfter(row[verb.who]) \in ControlState
    BY <2>1, <2>2, RowWrites DEF RowAfter
  <2>4. row' \in [Workers -> ControlState]
    BY <1>0, <1>3, <2>3 DEF WriteRow, TypeOK
  <2>5. verb' \in Verb
    BY <1>0, <1>3, <2>0, VerbType DEF WriteRow
  <2> QED
    BY <1>0, <1>3, <2>4, <2>5 DEF WriteRow, TypeOK
<1>4. CASE WriteKick
  <2>0. verb # NoVerb
    BY <1>4 DEF WriteKick, NoVerb
  <2>1. row[verb.who] \in ControlState
    BY <1>0, <2>0, VerbType DEF TypeOK
  <2>2. row' \in [Workers -> ControlState]
    BY <1>0, <1>4, <2>1, RowWrites DEF WriteKick, TypeOK
  <2>3. verb' \in Verb
    BY <1>0, <1>4, <2>0, VerbType DEF WriteKick
  <2> QED
    BY <1>0, <1>4, <2>2, <2>3 DEF WriteKick, TypeOK
<1>5. CASE WriteThrows
  <2>1. verb # NoVerb
    BY <1>5 DEF WriteThrows, NoVerb
  <2> QED
    BY <1>0, <1>5, <2>1, VerbType DEF WriteThrows, TypeOK
<1>6. CASE Apply
  <2>0. verb # NoVerb
    BY <1>6 DEF Apply, NoVerb
  <2> DEFINE w == verb.who
  <2>1. w \in Workers /\ row[w] \in ControlState
    BY <1>0, <2>0, VerbType DEF TypeOK
  <2>2. row' \in [Workers -> ControlState]
    BY <1>0, <1>6, <2>1, RowWrites DEF Apply, ApplyMute, ApplyPause, ApplyResume,
       ApplyKick, ApplyAutoResume, ApplyAutoKick, TypeOK
  <2>3. timer' \in [Workers -> PauseEntry]
    <3>1. CASE verb.op = "pause"
      <4>1. row[w].until # 0
        BY <1>0, <1>6, <2>1, <3>1 DEF IInv, Promised, PauseNumbered, Doing, Apply
      <4>2. [until |-> row[w].until, expiry |-> row[w].expiry] \in PauseEntry
        BY <2>1, <4>1, RowWrites
      <4> QED
        BY <1>0, <1>6, <2>1, <3>1, <4>2 DEF Apply, ApplyPause, TypeOK
    <3>2. CASE verb.op # "pause"
      BY <1>0, <1>6, <3>2 DEF Apply, ApplyMute, ApplyResume, ApplyKick, Cancel,
         ApplyAutoResume, ApplyAutoKick, TypeOK, PauseEntry
    <3> QED
      BY <3>1, <3>2
  <2>4. muted' \subseteq Workers /\ kicked' \subseteq Workers
        /\ gated' \subseteq Workers /\ cut' \subseteq Workers
    BY <1>0, <1>6, <2>1 DEF Apply, ApplyMute, ApplyPause, ApplyResume,
       ApplyKick, KickAgent, ApplyAutoResume, ApplyAutoKick, TypeOK
  <2>5. trail' \subseteq {"kick", "auto_kick"} \X Workers
    BY <1>0, <1>6, <2>1, AuditedType DEF Apply, ApplyMute, ApplyPause, ApplyResume,
       ApplyKick, KickAgent, ApplyAutoResume, ApplyAutoKick, TypeOK
  <2> QED
    BY <1>0, <1>6, <2>2, <2>3, <2>4, <2>5 DEF Apply, TypeOK
<1>7. CASE Detach \/ Attach
  BY <1>0, <1>7 DEF Detach, Attach, TypeOK
<1>8. CASE End \/ Crash
  <2>1. timer' \in [Workers -> PauseEntry]
    BY <1>0, <1>8 DEF End, Crash, TypeOK, PauseEntry
  <2> QED
    BY <1>0, <1>8, <2>1 DEF End, Crash, TypeOK
<1>9. CASE Rebuild
  <2>1. ASSUME NEW w \in Workers, Paused(w)
        PROVE  [until |-> row[w].until, expiry |-> row[w].expiry] \in PauseEntry
    BY <1>0, <2>1, RowWrites DEF TypeOK, Paused
  <2>2. timer' \in [Workers -> PauseEntry]
    BY <1>0, <1>9, <2>1 DEF Rebuild, TypeOK
  <2> QED
    BY <1>0, <1>9, <2>2 DEF Rebuild, TypeOK
<1>10. CASE UNCHANGED vars
  BY <1>0, <1>10 DEF vars, TypeOK
<1> QED
  BY <1>1, <1>2, <1>3, <1>4, <1>5, <1>6, <1>7, <1>8, <1>9, <1>10 DEF Next

-----------------------------------------------------------------------------
(* The verb in progress, the timers and the record. *)

\* While a verb runs nothing else happens but its own steps and a crash.
LEMMA VerbRuns ==
  ASSUME TypeOK, verb # NoVerb, [Next]_vars
  PROVE  WriteRow \/ WriteKick \/ WriteThrows \/ Apply \/ Crash \/ UNCHANGED vars
BY DEF Next, Begin, Fire, Detach, Attach, End, Rebuild, Idle

LEMMA PromisedStep == IInv /\ [Next]_vars => Promised' /\ PauseNumbered'
<1> SUFFICES ASSUME IInv, [Next]_vars PROVE Promised' /\ PauseNumbered'
  OBVIOUS
<1>0. TypeOK /\ Promised /\ PauseNumbered /\ MemoryInv /\ TimerInv
  BY DEF IInv
<1>1. ASSUME verb' = NoVerb PROVE Promised' /\ PauseNumbered'
  BY <1>1 DEF Promised, PauseNumbered, Doing, NoVerb
<1>2. ASSUME NEW o \in Ops, NEW w \in Workers, NEW e \in Expiry \cup {"none"},
             Begin(o, w, e)
      PROVE  Promised' /\ PauseNumbered'
  <2>1. verb' = [op |-> o, who |-> w, stage |-> "audited", expiry |-> e]
        /\ row' = row /\ timer' = timer /\ live' = live /\ gated' = gated
        /\ cut' = cut /\ trail' = Audited(o, w)
        /\ o \notin Expiry
    BY <1>2 DEF Begin, session, memory, history, Accepts, Expiry
  <2>2. o = "pause" => e \in Expiry /\ ~Paused(w) /\ pauses' > 0
    BY <1>0, <1>2 DEF Begin, Accepts, TypeOK
  <2>3. o = "pause" => timer[w] = Unpaused
    BY <1>0, <1>2, <2>2 DEF Begin, Idle, TimerInv, TimerOwed, Doing, NoVerb,
       TypeOK, PauseEntry, Paused
  <2>4. o = "pause" /\ live /\ w \in gated => row[w].kicked \/ w \in cut
    BY <1>0, <1>2, <2>2 DEF Begin, Idle, MemoryInv, LiftOwed, Doing, NoVerb
  <2>5. o = "kick" => <<"kick", w>> \in trail'
    BY <2>1 DEF Audited
  <2> QED
    BY <2>1, <2>2, <2>3, <2>4, <2>5 DEF Promised, PauseNumbered, Doing, Paused, Expiry
<1>3. ASSUME NEW w \in Workers, Fire(w) PROVE Promised' /\ PauseNumbered'
  <2>1. CASE verb' = NoVerb
    BY <1>1, <2>1
  <2>2. CASE verb' # NoVerb
    <3>1. verb' = [op |-> timer[w].expiry, who |-> w, stage |-> "audited",
                   expiry |-> timer[w].expiry]
          /\ trail' = Audited(timer[w].expiry, w)
      BY <1>3, <2>2 DEF Fire, Idle
    <3>2. timer'[w] = Unpaused /\ timer[w].expiry \in Expiry
      BY <1>0, <1>3 DEF Fire, TypeOK, PauseEntry
    <3>3. timer[w].expiry = "auto_kick" => <<"auto_kick", w>> \in trail'
      BY <3>1 DEF Audited
    <3> QED
      BY <3>1, <3>2, <3>3 DEF Promised, PauseNumbered, Doing, Expiry
  <2> QED
    BY <2>1, <2>2
<1>4. CASE WriteRow
  <2>0. verb # NoVerb /\ verb.who \in Workers /\ verb.op \in Ops
    BY <1>0, <1>4, VerbType DEF WriteRow, NoVerb
  <2>1. verb'.op = verb.op /\ verb'.who = verb.who /\ verb'.expiry = verb.expiry
        /\ verb'.stage = IF verb.op = "auto_kick" THEN "cleared" ELSE "written"
    BY <1>0, <1>4, <2>0 DEF WriteRow, TypeOK, Verb
  <2>2. trail' = trail /\ timer' = timer /\ live' = live /\ gated' = gated
        /\ cut' = cut /\ pauses' = pauses
    BY <1>4 DEF WriteRow, session, memory
  <2>3. row[verb.who] \in ControlState /\ row'[verb.who] = RowAfter(row[verb.who])
    BY <1>0, <1>4, <2>0 DEF WriteRow, TypeOK
  <2>4. row'[verb.who].kicked = IF verb.op = "kick" THEN TRUE ELSE row[verb.who].kicked
    BY <2>3 DEF RowAfter, ClearedPause, ControlState
  <2>5. /\ verb.op = "mute" => row'[verb.who].muted
        /\ verb.op = "unmute" => ~row'[verb.who].muted
        /\ verb.op \in {"resume", "auto_resume", "auto_kick"} =>
             row'[verb.who].until = 0
        /\ verb.op = "pause" => row'[verb.who].until = pauses
                                /\ row'[verb.who].expiry = verb.expiry
    BY <2>3 DEF RowAfter, ClearedPause, ControlState
  <2>6. verb.stage = "audited"
    BY <1>4 DEF WriteRow
  <2> QED
    BY <1>0, <2>0, <2>1, <2>2, <2>4, <2>5, <2>6 DEF Promised, PauseNumbered, Doing, Paused
<1>5. CASE WriteKick
  <2>0. verb # NoVerb /\ verb.who \in Workers /\ verb.op = "auto_kick"
    BY <1>0, <1>5, VerbType DEF WriteKick, NoVerb, Promised
  <2>1. verb'.op = verb.op /\ verb'.who = verb.who /\ verb'.expiry = verb.expiry
        /\ verb'.stage = "written" /\ verb.stage = "cleared"
    BY <1>0, <1>5, <2>0 DEF WriteKick, TypeOK, Verb
  <2>2. trail' = trail /\ timer' = timer
    BY <1>5 DEF WriteKick
  <2>3. row'[verb.who].kicked /\ row'[verb.who].until = row[verb.who].until
    BY <1>0, <1>5, <2>0 DEF WriteKick, TypeOK, ControlState
  <2> QED
    BY <1>0, <2>0, <2>1, <2>2, <2>3 DEF Promised, PauseNumbered, Doing, Paused
<1>6. CASE WriteThrows \/ Apply \/ Crash
  BY <1>1, <1>6 DEF WriteThrows, Apply, Crash
<1>7. CASE Detach \/ Attach \/ End \/ Rebuild
  BY <1>1, <1>7 DEF Detach, Attach, End, Rebuild, Idle
<1>8. CASE UNCHANGED vars
  BY <1>0, <1>8 DEF vars, Promised, PauseNumbered, Doing, Paused
<1> QED
  BY <1>2, <1>3, <1>4, <1>5, <1>6, <1>7, <1>8 DEF Next

LEMMA RecordStep == IInv /\ [Next]_vars => KicksAreOnRecord'
<1> SUFFICES ASSUME IInv, [Next]_vars PROVE KicksAreOnRecord'
  OBVIOUS
<1>0. TypeOK /\ Promised /\ KicksAreOnRecord
  BY DEF IInv
<1>1. trail \subseteq trail'
  BY DEF Next, vars, Begin, Fire, WriteRow, WriteKick, WriteThrows, Apply,
     ApplyMute, ApplyPause, ApplyResume, ApplyKick, ApplyAutoResume,
     ApplyAutoKick, Detach, Attach, End, Crash, Rebuild, Audited
<1>2. CASE WriteRow
  <2>0. verb # NoVerb /\ verb.who \in Workers
    BY <1>0, <1>2, VerbType DEF WriteRow, NoVerb
  <2>1. row[verb.who] \in ControlState
        /\ row' = [row EXCEPT ![verb.who] = RowAfter(row[verb.who])]
    BY <1>0, <1>2, <2>0 DEF WriteRow, TypeOK
  <2>2. RowAfter(row[verb.who]).kicked => row[verb.who].kicked \/ verb.op = "kick"
    BY <2>1 DEF RowAfter, ClearedPause, ControlState
  <2>3. verb.op = "kick" => <<"kick", verb.who>> \in trail
    BY <1>0, <1>2, <2>0 DEF Promised, Doing, WriteRow
  <2> QED
    BY <1>0, <1>1, <2>0, <2>1, <2>2, <2>3 DEF KicksAreOnRecord, TypeOK
<1>3. CASE WriteKick
  <2>0. verb # NoVerb /\ verb.who \in Workers
    BY <1>0, <1>3, VerbType DEF WriteKick, NoVerb
  <2>1. <<"auto_kick", verb.who>> \in trail
    BY <1>0, <1>3, <2>0 DEF Promised, Doing, WriteKick
  <2> QED
    BY <1>0, <1>1, <1>3, <2>0, <2>1 DEF KicksAreOnRecord, WriteKick, TypeOK
<1>4. CASE Apply
  <2>0. verb # NoVerb /\ verb.who \in Workers
    BY <1>0, <1>4, VerbType DEF Apply, NoVerb
  <2>1. \/ row' = row
        \/ row' = [row EXCEPT ![verb.who] = ClearedPause(row[verb.who])]
    BY <1>4 DEF Apply, ApplyMute, ApplyPause, ApplyResume, ApplyKick,
       ApplyAutoResume, ApplyAutoKick
  <2>2. row \in [Workers -> ControlState] /\ row[verb.who] \in ControlState
    BY <1>0, <2>0 DEF TypeOK
  <2>3. ClearedPause(row[verb.who]).kicked = row[verb.who].kicked
    BY <2>2 DEF ClearedPause, ControlState
  <2>4. \A w \in Workers : row'[w].kicked = row[w].kicked
    BY <2>0, <2>1, <2>2, <2>3
  <2> QED
    BY <1>0, <1>1, <2>4 DEF KicksAreOnRecord
<1>5. CASE row' = row
  BY <1>0, <1>1, <1>5 DEF KicksAreOnRecord
<1> QED
  BY <1>2, <1>3, <1>4, <1>5 DEF Next, vars, Begin, Fire, WriteThrows, Detach,
     Attach, End, Crash, Rebuild

LEMMA TimerStep == IInv /\ [Next]_vars => TimerInv'
<1> SUFFICES ASSUME IInv, [Next]_vars PROVE TimerInv'
  OBVIOUS
<1>0. TypeOK /\ Promised /\ TimerInv
  BY DEF IInv
<1>1. ASSUME timer' = timer, row' = row, Idle
      PROVE  TimerInv'
  BY <1>0, <1>1 DEF TimerInv, TimerOwed, Doing, Idle, NoVerb
<1>2. CASE \E o \in Ops, w \in Workers, e \in Expiry \cup {"none"} : Begin(o, w, e)
  BY <1>1, <1>2 DEF Begin
<1>3. ASSUME NEW w \in Workers, Fire(w) PROVE TimerInv'
  BY <1>0, <1>3 DEF Fire, TimerInv, TimerOwed, Doing, Idle, NoVerb, TypeOK
<1>4. CASE WriteRow
  <2>0. verb # NoVerb /\ verb.who \in Workers
    BY <1>0, <1>4, VerbType DEF WriteRow, NoVerb
  <2>1. row[verb.who] \in ControlState
        /\ row' = [row EXCEPT ![verb.who] = RowAfter(row[verb.who])]
    BY <1>0, <1>4, <2>0 DEF WriteRow, TypeOK
  <2>2. verb.op \in {"mute", "unmute", "kick"} =>
          /\ RowAfter(row[verb.who]).until = row[verb.who].until
          /\ RowAfter(row[verb.who]).expiry = row[verb.who].expiry
    BY <2>1 DEF RowAfter, ControlState
  <2>3. verb.op \in {"pause", "auto_resume", "auto_kick"} => timer[verb.who] = Unpaused
    BY <1>0, <1>4, <2>0 DEF Promised, Doing, WriteRow
  <2>4. verb.op \in Ops
    BY <1>0, <2>0, VerbType
  <2>5. timer' = timer /\ verb'.op = verb.op /\ verb'.who = verb.who
        /\ (verb.op = "resume" => verb'.stage = "written")
        /\ verb.stage = "audited"
    BY <1>0, <1>4, <2>0 DEF WriteRow, TypeOK, Verb
  <2> QED
    BY <1>0, <2>0, <2>1, <2>2, <2>3, <2>4, <2>5 DEF TimerInv, TimerOwed, Doing, TypeOK,
       Ops, Expiry
<1>5. CASE WriteKick
  <2>0. verb # NoVerb /\ verb.who \in Workers /\ verb.op = "auto_kick"
    BY <1>0, <1>5, VerbType DEF WriteKick, NoVerb, Promised
  <2>1. \A w \in Workers : row'[w].until = row[w].until /\ row'[w].expiry = row[w].expiry
    BY <1>0, <1>5, <2>0 DEF WriteKick, TypeOK, ControlState
  <2> QED
    BY <1>0, <1>5, <2>0, <2>1 DEF WriteKick, TimerInv, TimerOwed, Doing
<1>6. CASE WriteThrows
  BY <1>0, <1>6 DEF WriteThrows, TimerInv, TimerOwed, Doing
<1>7. CASE Apply
  <2>0. verb # NoVerb /\ verb.who \in Workers /\ verb.op \in Ops
    BY <1>0, <1>7, VerbType DEF Apply, NoVerb
  <2> DEFINE w == verb.who
  <2>1. CASE verb.op = "pause"
    <3>1. timer[w] = Unpaused
      BY <1>0, <1>7, <2>0, <2>1 DEF Promised, Doing, Apply
    <3>2. CASE live /\ w \in gated
      <4>1. timer' = timer /\ \A v \in Workers \ {w} : row'[v] = row[v]
        BY <1>0, <1>7, <2>0, <2>1, <3>2 DEF Apply, ApplyPause, TypeOK
      <4> QED
        BY <1>0, <2>1, <3>1, <4>1 DEF TimerInv, TimerOwed, Doing
    <3>3. CASE ~(live /\ w \in gated)
      BY <1>0, <1>7, <2>0, <2>1, <3>3 DEF Apply, ApplyPause, TimerInv, TimerOwed,
         Doing, TypeOK
    <3> QED
      BY <3>2, <3>3
  <2>2. CASE verb.op \in {"resume", "kick"}
    BY <1>0, <1>7, <2>0, <2>2 DEF Apply, ApplyResume, ApplyKick, Cancel, TimerInv,
       TimerOwed, Doing, TypeOK
  <2>3. CASE verb.op \in {"mute", "unmute", "auto_resume", "auto_kick"}
    BY <1>0, <1>7, <2>0, <2>3 DEF Apply, ApplyMute, ApplyAutoResume,
       ApplyAutoKick, TimerInv, TimerOwed, Doing
  <2> QED
    BY <2>0, <2>1, <2>2, <2>3 DEF Ops, Expiry
<1>8. CASE Detach \/ Attach
  BY <1>1, <1>8 DEF Detach, Attach
<1>9. CASE End \/ Crash \/ Rebuild
  BY <1>0, <1>9 DEF End, Crash, Rebuild, TimerInv, TimerOwed, Doing, Idle, NoVerb,
     TypeOK
<1>10. CASE UNCHANGED vars
  BY <1>0, <1>10 DEF vars, TimerInv, TimerOwed, Doing
<1> QED
  BY <1>2, <1>3, <1>4, <1>5, <1>6, <1>7, <1>8, <1>9, <1>10 DEF Next

-----------------------------------------------------------------------------
(* The memory of the live session. *)

MemoryOwed(w) == MutedOwed(w) /\ KickOwed(w) /\ GateOwed(w) /\ LiftOwed(w)

LEMMA WriteRowMemory ==
  ASSUME TypeOK, Promised, MemoryInv, WriteRow
  PROVE  MemoryInv'
<1>0. verb # NoVerb /\ verb.who \in Workers /\ verb.op \in Ops /\ verb.stage = "audited"
  BY VerbType DEF WriteRow, NoVerb
<1>1. row[verb.who] \in ControlState
      /\ row' = [row EXCEPT ![verb.who] = RowAfter(row[verb.who])]
  BY <1>0 DEF WriteRow, TypeOK
<1>2. /\ verb.op \notin {"mute", "unmute"} =>
           RowAfter(row[verb.who]).muted = row[verb.who].muted
      /\ verb.op # "kick" =>
           RowAfter(row[verb.who]).kicked = row[verb.who].kicked
      /\ verb.op = "kick" => RowAfter(row[verb.who]).kicked
      /\ verb.op \in {"mute", "unmute", "kick"} =>
           RowAfter(row[verb.who]).until = row[verb.who].until
      /\ verb.op \in {"resume", "auto_resume", "auto_kick"} =>
           RowAfter(row[verb.who]).until = 0
  BY <1>1 DEF RowAfter, ClearedPause, ControlState
<1>3. verb'.op = verb.op /\ verb'.who = verb.who
      /\ verb'.stage = IF verb.op = "auto_kick" THEN "cleared" ELSE "written"
  BY <1>0 DEF WriteRow, TypeOK, Verb
<1>4. live' = live /\ muted' = muted /\ kicked' = kicked /\ gated' = gated /\ cut' = cut
  BY DEF WriteRow, session, memory
<1>5. ASSUME NEW w \in Workers, w # verb.who PROVE MemoryOwed(w)'
  <2>1. row'[w] = row[w]
    BY <1>1, <1>5 DEF TypeOK
  <2>2. MemoryOwed(w)
    BY DEF MemoryInv, MemoryOwed
  <2> QED
    BY <1>3, <1>4, <1>5, <2>1, <2>2 DEF MemoryOwed, MutedOwed, KickOwed, GateOwed,
       LiftOwed, Doing, Paused
<1>v. PICK v \in Workers : v = verb.who
  BY <1>0
<1>6. row'[v] = RowAfter(row[v])
  BY <1>v, <1>0, <1>1 DEF TypeOK
<1>7. MutedOwed(v) /\ KickOwed(v) /\ GateOwed(v) /\ LiftOwed(v)
  BY <1>v, <1>0 DEF MemoryInv
<1>8. MutedOwed(v)' /\ KickOwed(v)'
  BY <1>v, <1>0, <1>2, <1>3, <1>4, <1>6, <1>7 DEF MutedOwed, KickOwed, Doing, Ops, Expiry
<1>9. GateOwed(v)'
  BY <1>v, <1>0, <1>2, <1>3, <1>4, <1>6, <1>7 DEF GateOwed, Doing, Paused, Ops, Expiry
<1>10. verb.op = "pause" /\ live /\ v \in gated => row[v].kicked \/ v \in cut
  BY <1>v, <1>0 DEF Promised, Doing
<1>11. LiftOwed(v)'
  BY <1>v, <1>0, <1>2, <1>3, <1>4, <1>6, <1>7, <1>10 DEF LiftOwed, Doing, Paused, Ops, Expiry
<1>12. MemoryOwed(v)'
  BY <1>v, <1>3, <1>8, <1>9, <1>11 DEF MemoryOwed
<1> QED
  BY <1>v, <1>5, <1>12 DEF MemoryInv, MemoryOwed

LEMMA ApplyMemory ==
  ASSUME TypeOK, Promised, PauseNumbered, MemoryInv, Apply
  PROVE  MemoryInv'
<1>0. verb # NoVerb /\ verb.who \in Workers /\ verb.op \in Ops /\ verb.stage = "written"
  BY VerbType DEF Apply, NoVerb
<1>1. row \in [Workers -> ControlState] /\ row[verb.who] \in ControlState
  BY <1>0 DEF TypeOK
<1>2. live' = live /\ verb' = NoVerb
  BY DEF Apply, session
<1>3. \/ row' = row
      \/ /\ verb.op = "pause" /\ live /\ verb.who \in gated
         /\ row' = [row EXCEPT ![verb.who] = ClearedPause(row[verb.who])]
  BY DEF Apply, ApplyMute, ApplyPause, ApplyResume, ApplyKick, ApplyAutoResume,
     ApplyAutoKick
<1>4. ClearedPause(row[verb.who]).kicked = row[verb.who].kicked
      /\ ClearedPause(row[verb.who]).muted = row[verb.who].muted
      /\ ClearedPause(row[verb.who]).until = 0
  BY <1>1 DEF ClearedPause, ControlState
<1>5. ASSUME NEW w \in Workers, w # verb.who PROVE MemoryOwed(w)'
  <2>1. row'[w] = row[w]
    BY <1>1, <1>3, <1>5
  <2>2. (w \in muted' <=> w \in muted) /\ (w \in kicked' <=> w \in kicked)
        /\ (w \in gated' <=> w \in gated) /\ (w \in cut' <=> w \in cut)
    BY <1>5 DEF Apply, ApplyMute, ApplyPause, ApplyResume, ApplyKick, KickAgent,
       ApplyAutoResume, ApplyAutoKick
  <2>3. MemoryOwed(w)
    BY DEF MemoryInv, MemoryOwed
  <2> QED
    BY <1>2, <1>5, <2>1, <2>2, <2>3 DEF MemoryOwed, MutedOwed, KickOwed, GateOwed,
       LiftOwed, Doing, Paused
<1>v. PICK v \in Workers : v = verb.who
  BY <1>0
<1>6. MutedOwed(v) /\ KickOwed(v) /\ GateOwed(v) /\ LiftOwed(v)
  BY <1>v, <1>0 DEF MemoryInv
<1>7. ASSUME verb.op \in {"mute", "unmute"} PROVE MemoryOwed(v)'
  <2>1. row' = row /\ kicked' = kicked /\ gated' = gated /\ cut' = cut
        /\ (live => (v \in muted' <=> verb.op = "mute"))
    BY <1>v, <1>7 DEF Apply, ApplyMute
  <2>2. verb.op = "mute" => row[v].muted
    BY <1>v, <1>0 DEF Promised, Doing
  <2>3. verb.op = "unmute" => ~row[v].muted
    BY <1>v, <1>0 DEF Promised, Doing
  <2> QED
    BY <1>v, <1>2, <1>6, <1>7, <2>1, <2>2, <2>3 DEF MemoryOwed, MutedOwed, KickOwed, GateOwed,
       LiftOwed, Doing, Paused
<1>8. ASSUME verb.op = "pause" PROVE MemoryOwed(v)'
  <2>1. muted' = muted /\ kicked' = kicked /\ cut' = cut
    BY <1>v, <1>8 DEF Apply, ApplyPause
  <2>2. CASE live /\ v \in gated
    <3>1. gated' = gated /\ row'[v] = ClearedPause(row[v])
      BY <1>v, <1>0, <1>1, <1>8, <2>2 DEF Apply, ApplyPause
    <3>2. row[v].kicked \/ v \in cut
      BY <1>v, <1>0, <1>8, <2>2 DEF Promised, Doing
    <3> QED
      BY <1>v, <1>2, <1>4, <1>6, <1>8, <2>1, <2>2, <3>1, <3>2 DEF MemoryOwed, MutedOwed,
         KickOwed, GateOwed, LiftOwed, Doing, Paused
  <2>3. CASE ~(live /\ v \in gated)
    <3>1. row' = row /\ (live => v \in gated')
      BY <1>v, <1>8, <2>3 DEF Apply, ApplyPause
    <3>2. row[v].until # 0
      BY <1>v, <1>0, <1>1, <1>8 DEF Promised, PauseNumbered, Doing, TypeOK
    <3> QED
      BY <1>v, <1>2, <1>6, <1>8, <2>1, <2>3, <3>1, <3>2 DEF MemoryOwed, MutedOwed,
         KickOwed, GateOwed, LiftOwed, Doing, Paused
  <2> QED
    BY <1>v, <2>2, <2>3
<1>9. ASSUME verb.op \in {"resume", "auto_resume"} PROVE MemoryOwed(v)'
  <2>1. row' = row /\ muted' = muted /\ kicked' = kicked /\ cut' = cut
        /\ (live => v \notin gated')
    BY <1>v, <1>9 DEF Apply, ApplyResume, ApplyAutoResume
  <2>2. ~Paused(v)
    BY <1>v, <1>0, <1>9 DEF Promised, Doing
  <2> QED
    BY <1>v, <1>2, <1>6, <1>9, <2>1, <2>2 DEF MemoryOwed, MutedOwed, KickOwed, GateOwed,
       LiftOwed, Doing, Paused
<1>10. ASSUME verb.op \in {"kick", "auto_kick"} PROVE MemoryOwed(v)'
  <2>1. row' = row /\ muted' = muted /\ (live => v \in kicked')
    BY <1>v, <1>10 DEF Apply, ApplyKick, ApplyAutoKick, KickAgent
  <2>2. row[v].kicked
    BY <1>v, <1>0, <1>10 DEF Promised, Doing
  <2> QED
    BY <1>v, <1>2, <1>6, <1>10, <2>1, <2>2 DEF MemoryOwed, MutedOwed, KickOwed, GateOwed,
       LiftOwed, Doing, Paused
<1>11. MemoryOwed(v)'
  BY <1>v, <1>0, <1>2, <1>7, <1>8, <1>9, <1>10 DEF Ops, Expiry
<1> QED
  BY <1>v, <1>5, <1>11 DEF MemoryInv, MemoryOwed

LEMMA MemoryStep == IInv /\ [Next]_vars => MemoryInv'
<1> SUFFICES ASSUME IInv, [Next]_vars PROVE MemoryInv'
  OBVIOUS
<1>0. TypeOK /\ Promised /\ PauseNumbered /\ MemoryInv
  BY DEF IInv
<1> USE DEF MemoryInv, MutedOwed, KickOwed, GateOwed, LiftOwed, Doing
<1>1. ASSUME Idle, row' = row, live' = live, memory' = memory, cut' = cut,
             verb'.stage = "audited" \/ verb' = NoVerb
      PROVE  MemoryInv'
  BY <1>0, <1>1 DEF Idle, NoVerb, memory, Paused
<1>2. CASE \E o \in Ops, w \in Workers, e \in Expiry \cup {"none"} : Begin(o, w, e)
  BY <1>1, <1>2 DEF Begin, session, history
<1>3. CASE \E w \in Workers : Fire(w)
  BY <1>1, <1>3 DEF Fire, session, Idle
<1>4. CASE WriteKick
  <2>0. verb # NoVerb /\ verb.who \in Workers /\ verb.op = "auto_kick"
        /\ verb.stage = "cleared"
    BY <1>0, <1>4, VerbType DEF WriteKick, NoVerb, Promised
  <2>1. \A w \in Workers :
          /\ row'[w].until = row[w].until /\ row'[w].muted = row[w].muted
          /\ w # verb.who => row'[w] = row[w]
    BY <1>0, <1>4, <2>0 DEF WriteKick, TypeOK, ControlState
  <2>2. row'[verb.who].kicked
    BY <1>0, <1>4, <2>0 DEF WriteKick, TypeOK, ControlState
  <2>3. verb'.op = verb.op /\ verb'.who = verb.who /\ verb'.stage = "written"
    BY <1>0, <1>4, <2>0 DEF WriteKick, TypeOK, Verb
  <2> QED
    BY <1>0, <1>4, <2>0, <2>1, <2>2, <2>3 DEF WriteKick, session, memory, history, Paused
<1>5. CASE WriteThrows
  <2>0. verb # NoVerb /\ verb.who \in Workers
    BY <1>0, <1>5, VerbType DEF WriteThrows, NoVerb
  <2> QED
    BY <1>0, <1>5, <2>0 DEF WriteThrows, session, memory, NoVerb, Paused, Promised
<1>6. CASE Detach \/ Attach
  BY <1>1, <1>6 DEF Detach, Attach, history, Idle
<1>7. CASE End \/ Crash
  BY <1>7 DEF End, Crash
<1>8. CASE Rebuild
  BY <1>0, <1>8 DEF Rebuild, Idle, NoVerb, Paused
<1>9. CASE UNCHANGED vars
  BY <1>0, <1>9 DEF vars, Paused
<1> QED
  BY <1>0, <1>2, <1>3, <1>4, <1>5, <1>6, <1>7, <1>8, <1>9, WriteRowMemory,
     ApplyMemory DEF Next

-----------------------------------------------------------------------------
(* The theorems. *)

LEMMA NextIInv == IInv /\ [Next]_vars => IInv'
BY TypeStep, PromisedStep, MemoryStep, TimerStep, RecordStep DEF IInv

LEMMA Inductive == Spec => []IInv
BY InitIInv, NextIInv, PTL DEF Spec

(* Rows, timers and the verb in progress stay in their types; a row has a   *)
(* deadline exactly when it says what is to happen then.                    *)
THEOREM Typing == Spec => []TypeOK
BY Inductive, PTL DEF IInv

(* What the rows say is in force, for any workers and through any failed    *)
(* write, restart or rebuild (executePauseParticipant, reconstruct.ts).     *)
THEOREM RowsAreInForce == Spec => []RestraintsInForce
<1>1. IInv => RestraintsInForce
  <2> SUFFICES ASSUME IInv, Idle, live PROVE RestraintsInForce
    BY DEF RestraintsInForce
  <2>1. \A w \in Workers :
          /\ w \in muted <=> row[w].muted
          /\ w \in kicked <=> row[w].kicked
          /\ Paused(w) /\ ~row[w].kicked => w \in gated
    BY DEF IInv, MemoryInv, MutedOwed, KickOwed, GateOwed, Doing, Idle, NoVerb
  <2>2. muted \subseteq Workers /\ kicked \subseteq Workers
    BY DEF IInv, TypeOK
  <2> QED
    BY <2>1, <2>2 DEF RestraintsInForce
<1> QED
  BY <1>1, Inductive, PTL

(* A held worker can be let go, unless an auto-kick was cut between its     *)
(* writes (executeResumeParticipant).                                       *)
THEOREM GatesOpen == Spec => []GateCanBeLifted
<1>1. IInv => GateCanBeLifted
  <2> SUFFICES ASSUME IInv, Idle, live, NEW w \in gated
               PROVE  Paused(w) \/ row[w].kicked \/ w \in cut
    BY DEF GateCanBeLifted
  <2>1. w \in Workers
    BY DEF IInv, TypeOK
  <2>2. LiftOwed(w)
    BY <2>1 DEF IInv, MemoryInv
  <2> QED
    BY <2>2 DEF LiftOwed, Doing, Idle, NoVerb
<1> QED
  BY <1>1, Inductive, PTL

(* No timer outlives the pause it was armed for (PauseExpiryRegistry).      *)
THEOREM NoStrayTimer == Spec => []TimerOfThePause
<1>1. IInv => TimerOfThePause
  BY DEF IInv, TimerInv, TimerOwed, Doing, Idle, NoVerb, TimerOfThePause
<1> QED
  BY <1>1, Inductive, PTL

(* No worker is kicked off the record (executeKickParticipant).             *)
THEOREM KicksRecorded == Spec => []KicksAreOnRecord
BY Inductive, PTL DEF IInv

-----------------------------------------------------------------------------
(* How a pause ends. *)

(* An expiry that is about to be carried out is the one that was chosen for *)
(* the pause that stands: its timer was that pause's, and nothing happened  *)
(* since it fired.                                                          *)
ExpiryAgreed ==
  \A w \in Workers :
    Doing(w, {"audited"}, Expiry) =>
      Paused(w) /\ ~row[w].kicked /\ row[w].expiry = verb.op

LEMMA ExpiryAgreedStep ==
  IInv /\ ExpiryAgreed /\ [Next]_vars => ExpiryAgreed'
<1> SUFFICES ASSUME IInv, ExpiryAgreed, [Next]_vars PROVE ExpiryAgreed'
  OBVIOUS
<1>0. TypeOK /\ TimerInv
  BY DEF IInv
<1>1. ASSUME verb' = NoVerb PROVE ExpiryAgreed'
  BY <1>1 DEF ExpiryAgreed, Doing, NoVerb
<1>2. ASSUME NEW o \in Ops, NEW w \in Workers, NEW e \in Expiry \cup {"none"},
             Begin(o, w, e)
      PROVE  ExpiryAgreed'
  <2>1. verb'.op = o /\ o \notin Expiry
    BY <1>2 DEF Begin, Accepts, Expiry
  <2> QED
    BY <2>1 DEF ExpiryAgreed, Doing
<1>3. ASSUME NEW w \in Workers, Fire(w), verb' # NoVerb PROVE ExpiryAgreed'
  <2>1. /\ verb'.op = timer[w].expiry /\ verb'.who = w
        /\ row' = row /\ ~Diverged(w)
    BY <1>3 DEF Fire, Idle
  <2>2. timer[w].expiry = row[w].expiry
    <3>1. timer[w] = [until |-> row[w].until, expiry |-> row[w].expiry]
      BY <1>0, <1>3 DEF Fire, Idle, TimerInv, TimerOwed, Doing, NoVerb
    <3> QED
      BY <3>1
  <2> QED
    BY <2>1, <2>2 DEF ExpiryAgreed, Doing, Diverged, Paused
<1>4. CASE WriteRow \/ WriteKick
  <2>1. verb # NoVerb
    BY <1>4 DEF WriteRow, WriteKick, NoVerb
  <2>2. verb'.stage \in {"cleared", "written"}
    BY <1>0, <1>4, <2>1 DEF WriteRow, WriteKick, TypeOK, Verb
  <2> QED
    BY <2>2 DEF ExpiryAgreed, Doing
<1>5. CASE UNCHANGED vars
  BY <1>5 DEF vars, ExpiryAgreed, Doing, Paused
<1> QED
  BY <1>1, <1>2, <1>3, <1>4, <1>5
  DEF Next, WriteThrows, Apply, Crash, Detach, Attach, End, Rebuild, Idle, Fire

LEMMA ExpiryInvariance == Spec => []ExpiryAgreed
<1>1. Init => ExpiryAgreed
  BY DEF Init, ExpiryAgreed, Doing, NoVerb
<1> QED
  BY <1>1, ExpiryAgreedStep, Inductive, PTL DEF Spec

(* The write to the row, of all steps, ends a pause or kicks; the second    *)
(* write of an auto-kick kicks, and a pause may be taken back.              *)
THEOREM PausesKeepTheirWord == Spec => PausesEndAsAgreed
<1>1. ASSUME IInv, ExpiryAgreed, Next, NEW w \in Workers
      PROVE  /\ Paused(w) /\ row'[w].until = 0 =>
                  /\ verb.who = w
                  /\ \/ verb.op = "resume"
                     \/ verb.op = row[w].expiry /\ ~row[w].kicked
                     \/ verb.op = "pause" /\ row[w].until = pauses /\ w \in gated
             /\ ~row[w].kicked /\ row'[w].kicked =>
                  verb.who = w /\ verb.op \in {"kick", "auto_kick"}
  <2>0. TypeOK /\ Promised /\ row[w] \in ControlState
    BY <1>1 DEF IInv, TypeOK
  <2>1. CASE row'[w] = row[w]
    BY <2>1 DEF Paused
  <2>2. CASE WriteRow
    <3>0. verb.stage = "audited" /\ verb # NoVerb /\ verb.op \in Ops
      BY <2>0, <2>2, VerbType DEF WriteRow, NoVerb
    <3>1. CASE verb.who # w
      BY <2>0, <2>1, <2>2, <3>1 DEF WriteRow, TypeOK
    <3>2. CASE verb.who = w
      <4>1. row'[w] = RowAfter(row[w])
        BY <2>0, <2>2, <3>2 DEF WriteRow, TypeOK
      <4>2. row'[w].kicked # row[w].kicked => verb.op = "kick"
        BY <2>0, <4>1 DEF RowAfter, ClearedPause, ControlState
      <4>3. row'[w].until = 0 /\ Paused(w) =>
              verb.op \in {"resume", "pause"} \cup Expiry
        BY <2>0, <4>1, <3>0 DEF RowAfter, ClearedPause, ControlState, Paused, Ops
      <4>4. verb.op = "pause" => ~Paused(w)
        BY <2>0, <3>0, <3>2 DEF Promised, Doing
      <4>5. verb.op \in Expiry => row[w].expiry = verb.op /\ ~row[w].kicked
        BY <1>1, <3>0, <3>2 DEF ExpiryAgreed, Doing
      <4> QED
        BY <3>2, <4>2, <4>3, <4>4, <4>5
    <3> QED
      BY <3>1, <3>2
  <2>3. CASE WriteKick
    <3>1. verb.op = "auto_kick"
      BY <2>0, <2>3 DEF WriteKick, Promised
    <3>2. row'[w].until = row[w].until /\ (verb.who # w => row'[w] = row[w])
      BY <2>0, <2>3 DEF WriteKick, TypeOK, ControlState
    <3> QED
      BY <3>1, <3>2 DEF Paused
  <2>4. CASE Apply
    <3>1. CASE verb.op = "pause" /\ ApplyPause(verb.who)
      <4>1. verb.stage = "written"
        BY <2>4 DEF Apply
      <4>2. CASE verb.who # w
        BY <2>0, <2>1, <3>1, <4>2 DEF ApplyPause, TypeOK
      <4>3. CASE verb.who = w
        <5>1. row'[w] \in {row[w], ClearedPause(row[w])}
              /\ (row'[w] # row[w] => w \in gated)
          BY <2>0, <3>1, <4>3 DEF ApplyPause, TypeOK
        <5>2. row[w].until = pauses
          BY <2>0, <3>1, <4>1, <4>3 DEF Promised, Doing
        <5>3. ClearedPause(row[w]).kicked = row[w].kicked
          BY <2>0 DEF ClearedPause, ControlState
        <5> QED
          BY <3>1, <4>3, <5>1, <5>2, <5>3 DEF Paused
      <4> QED
        BY <4>2, <4>3
    <3>2. CASE row' = row
      BY <2>1, <3>2
    <3> QED
      BY <2>4, <3>1, <3>2 DEF Apply, ApplyMute, ApplyResume, ApplyKick,
         ApplyAutoResume, ApplyAutoKick
  <2> QED
    BY <1>1, <2>1, <2>2, <2>3, <2>4
    DEF Next, Begin, Fire, WriteThrows, Detach, Attach, End, Crash, Rebuild
<1>2. IInv /\ ExpiryAgreed /\ [Next]_vars
        => [\A w \in Workers :
              /\ Paused(w) /\ row'[w].until = 0 =>
                   /\ verb.who = w
                   /\ \/ verb.op = "resume"
                      \/ verb.op = row[w].expiry /\ ~row[w].kicked
                      \/ verb.op = "pause" /\ row[w].until = pauses /\ w \in gated
              /\ ~row[w].kicked /\ row'[w].kicked =>
                   verb.who = w /\ verb.op \in {"kick", "auto_kick"}]_vars
  BY <1>1
<1> QED
  BY <1>2, Inductive, ExpiryInvariance, PTL DEF Spec, PausesEndAsAgreed

-----------------------------------------------------------------------------
(* Why a pause ends. *)

(* A pause that stands is timed, but for the moments in which it is being   *)
(* made or its expiry is being carried out.                                 *)
TimedOwed(w) ==
  /\ live /\ Paused(w) /\ ~row[w].kicked /\ w \notin lost
  /\ ~Doing(w, {"written"}, {"pause"})
  /\ ~Doing(w, {"audited"}, Expiry)
  => timer[w] # Unpaused

TimedInv == \A w \in Workers : TimedOwed(w)

LEMMA TimedStep == IInv /\ TimedInv /\ [Next]_vars => TimedInv'
<1> SUFFICES ASSUME IInv, TimedInv, [Next]_vars PROVE TimedInv'
  OBVIOUS
<1>0. TypeOK /\ Promised
  BY DEF IInv
<1>1. CASE \E o \in Ops, w \in Workers, e \in Expiry \cup {"none"} : Begin(o, w, e)
  BY <1>1 DEF Begin, session, history, TimedInv, TimedOwed, Doing, Idle, NoVerb, Paused
<1>2. ASSUME NEW w \in Workers, Fire(w) PROVE TimedInv'
  <2>1. /\ Idle /\ row' = row /\ live' = live
        /\ \A v \in Workers \ {w} : timer'[v] = timer[v]
        /\ lost \subseteq lost'
    BY <1>0, <1>2 DEF Fire, session, TypeOK
  <2>2. \A v \in Workers \ {w} : TimedOwed(v)'
    BY <2>1 DEF TimedInv, TimedOwed, Doing, Idle, NoVerb, Paused
  <2>3. TimedOwed(w)'
    <3>1. CASE w \in lost'
      BY <3>1 DEF TimedOwed
    <3>2. CASE Diverged(w)
      BY <2>1, <3>2 DEF TimedOwed, Diverged, Paused
    <3>3. CASE w \notin lost' /\ ~Diverged(w)
      <4>1. /\ verb'.op = timer[w].expiry /\ verb'.who = w
            /\ verb'.stage = "audited" /\ timer[w].expiry \in Expiry
        BY <1>0, <1>2, <3>3 DEF Fire, TypeOK, PauseEntry
      <4> QED
        BY <4>1 DEF TimedOwed, Doing
    <3> QED
      BY <3>1, <3>2, <3>3
  <2> QED
    BY <2>2, <2>3 DEF TimedInv
<1>3. CASE WriteRow
  <2>0. verb # NoVerb /\ verb.who \in Workers /\ verb.op \in Ops
        /\ verb.stage = "audited"
    BY <1>0, <1>3, VerbType DEF WriteRow, NoVerb
  <2>1. /\ live' = live /\ timer' = timer
        /\ verb'.op = verb.op /\ verb'.who = verb.who
        /\ verb'.stage = IF verb.op = "auto_kick" THEN "cleared" ELSE "written"
        /\ lost' = IF verb.op = "pause" THEN lost \ {verb.who} ELSE lost
        /\ \A v \in Workers \ {verb.who} : row'[v] = row[v]
        /\ row'[verb.who] = RowAfter(row[verb.who])
    BY <1>0, <1>3, <2>0 DEF WriteRow, session, TypeOK, Verb
  <2>2. \A v \in Workers \ {verb.who} : TimedOwed(v)'
    BY <2>0, <2>1 DEF TimedInv, TimedOwed, Doing, Paused
  <2>3. TimedOwed(verb.who)'
    <3>1. row[verb.who] \in ControlState
      BY <1>0, <2>0 DEF TypeOK
    <3>2. CASE verb.op = "pause"
      BY <2>1, <3>2 DEF TimedOwed, Doing
    <3>3. CASE verb.op \in {"resume", "auto_resume", "auto_kick"}
      <4>1. row'[verb.who].until = 0
        BY <2>1, <3>1, <3>3 DEF RowAfter, ClearedPause, ControlState
      <4> QED
        BY <2>1, <4>1 DEF TimedOwed, Paused
    <3>4. CASE verb.op \in {"mute", "unmute", "kick"}
      <4>1. /\ row'[verb.who].until = row[verb.who].until
            /\ row[verb.who].kicked => row'[verb.who].kicked
        BY <2>1, <3>1, <3>4 DEF RowAfter, ControlState
      <4>2. TimedOwed(verb.who) /\ verb.op \notin Expiry
        BY <2>0, <3>4 DEF TimedInv, Expiry
      <4>3. UNCHANGED <<live, lost, timer>>
        BY <2>1, <3>4
      <4> QED
        BY <2>0, <2>1, <3>4, <4>1, <4>2, <4>3 DEF TimedOwed, Doing, Paused
    <3> QED
      BY <2>0, <3>2, <3>3, <3>4 DEF Ops, Expiry
  <2> QED
    BY <2>0, <2>1, <2>2, <2>3 DEF TimedInv
<1>4. CASE WriteKick
  <2>0. verb # NoVerb /\ verb.who \in Workers /\ verb.op = "auto_kick"
    BY <1>0, <1>4, VerbType DEF WriteKick, NoVerb, Promised
  <2>1. /\ row'[verb.who].kicked /\ \A v \in Workers \ {verb.who} : row'[v] = row[v]
        /\ verb'.who = verb.who
    BY <1>0, <1>4, <2>0 DEF WriteKick, TypeOK, ControlState, Verb
  <2> QED
    BY <1>4, <2>0, <2>1 DEF WriteKick, session, history, TimedInv, TimedOwed, Doing, Paused
<1>5. CASE WriteThrows
  BY <1>0, <1>5 DEF WriteThrows, session, TimedInv, TimedOwed, Doing, Paused
<1>6. CASE Apply
  <2>0. verb # NoVerb /\ verb.who \in Workers /\ verb.op \in Ops
    BY <1>0, <1>6, VerbType DEF Apply, NoVerb
  <2> PICK w \in Workers : w = verb.who
    BY <2>0
  <2>1. verb' = NoVerb /\ verb.stage = "written" /\ live' = live /\ lost' = lost
    BY <1>6 DEF Apply, session
  <2>2. \A v \in Workers : ~Doing(v, {"audited"}, Expiry)
    BY <2>1 DEF Doing
  <2>3. CASE verb.op = "pause"
    <3>1. \A v \in Workers \ {w} : row'[v] = row[v] /\ timer'[v] = timer[v]
      BY <1>0, <1>6, <2>0, <2>3 DEF Apply, ApplyPause, TypeOK
    <3>2. \/ row'[w].until = 0
          \/ row' = row /\ timer'[w].until = row[w].until
      <4>1. row[w] \in ControlState /\ timer \in [Workers -> PauseEntry]
        BY <1>0 DEF TypeOK
      <4>2. CASE row' = [row EXCEPT ![w] = ClearedPause(row[w])]
        BY <1>0, <4>1, <4>2 DEF ClearedPause, TypeOK, ControlState
      <4>3. CASE /\ row' = row
                 /\ timer' = [timer EXCEPT ![w] = [until |-> row[w].until,
                                                   expiry |-> row[w].expiry]]
        BY <4>1, <4>3
      <4> QED
        BY <1>6, <2>3, <4>2, <4>3 DEF Apply, ApplyPause
    <3>3. TimedOwed(w)'
      BY <3>2 DEF TimedOwed, Paused, Unpaused
    <3>4. ASSUME NEW v \in Workers \ {w} PROVE TimedOwed(v)'
      BY <2>1, <2>2, <3>1 DEF TimedInv, TimedOwed, Doing, Paused
    <3> QED
      BY <3>3, <3>4 DEF TimedInv
  <2>4. CASE verb.op \in {"resume", "kick"}
    <3>1. /\ row' = row
          /\ \A v \in Workers \ {w} : timer'[v] = timer[v]
      BY <1>0, <1>6, <2>0, <2>4 DEF Apply, ApplyResume, ApplyKick, Cancel, TypeOK
    <3>2. ~Paused(w) \/ row[w].kicked
      BY <1>0, <2>0, <2>1, <2>4 DEF Promised, Doing
    <3>3. TimedOwed(w)'
      BY <3>1, <3>2 DEF TimedOwed, Paused
    <3>4. ASSUME NEW v \in Workers \ {w} PROVE TimedOwed(v)'
      BY <2>1, <2>2, <3>1 DEF TimedInv, TimedOwed, Doing, Paused
    <3> QED
      BY <3>3, <3>4 DEF TimedInv
  <2>5. CASE verb.op \in {"mute", "unmute", "auto_resume", "auto_kick"}
    <3>1. row' = row /\ timer' = timer
      BY <1>6, <2>5 DEF Apply, ApplyMute, ApplyAutoResume, ApplyAutoKick
    <3> QED
      BY <2>1, <2>2, <2>5, <3>1 DEF TimedInv, TimedOwed, Doing, Paused
  <2> QED
    BY <2>0, <2>3, <2>4, <2>5 DEF Ops, Expiry
<1>7. CASE Detach \/ Attach
  BY <1>7 DEF Detach, Attach, history, TimedInv, TimedOwed, Doing, Paused
<1>8. CASE End \/ Crash
  BY <1>8 DEF End, Crash, TimedInv, TimedOwed
<1>9. CASE Rebuild
  BY <1>9 DEF Rebuild, TimedInv, TimedOwed, Paused, Unpaused
<1>10. CASE UNCHANGED vars
  BY <1>10 DEF vars, TimedInv, TimedOwed, Doing, Paused
<1> QED
  BY <1>1, <1>2, <1>3, <1>4, <1>5, <1>6, <1>7, <1>8, <1>9, <1>10 DEF Next

(* While the session lives, a pause that stands has its timer, unless its   *)
(* expiry failed (PauseExpiryRegistry).                                     *)
THEOREM PausesHaveTimers == Spec => []PausesAreTimed
<1>1. Init => TimedInv
  BY DEF Init, TimedInv, TimedOwed, Paused
<1>2. TimedInv => PausesAreTimed
  BY DEF TimedInv, TimedOwed, PausesAreTimed, Doing, Idle, NoVerb
<1> QED
  BY <1>1, <1>2, TimedStep, Inductive, PTL DEF Spec
=============================================================================
