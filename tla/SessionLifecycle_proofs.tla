----------------------- MODULE SessionLifecycle_proofs -----------------------
(***************************************************************************)
(* Proofs about SessionLifecycle, for any set of windows and any bounds.   *)
(* One session at a time rests on who holds the claim: a request parked on *)
(* a gate holds it, there is one claim, and while a start or a resume is   *)
(* parked nothing is live.  The rows agree with the registry because every *)
(* step that registers a session puts down, in the row and in the          *)
(* registry, whatever it displaces.  One nudge rests on the flag and the   *)
(* parked Continues: while either is there, none has been delivered.       *)
(***************************************************************************)
EXTENDS SessionLifecycle, TLAPS

\* What is numbered was started.
Numbered ==
  /\ \A s \in Sids : status[s] # "none" => s <= made
  /\ \A c \in Conns : /\ bound[c].sid <= made
                      /\ op[c].sid <= made
                      /\ op[c].active <= made

\* A request in a window that is open holds the claim, and no other does.
Holders ==
  /\ \A c, d \in claims : c = d
  /\ \A c \in Conns :
       /\ c \in claims <=> c \in open /\ op[c] # NoOp
       /\ op[c].at = "gate" => c \in open
       /\ op[c].kind \in {"start", "resume"} => op[c].at = "gate"
       /\ op[c].kind \in {"resume", "reopen"} => op[c].sid \in Sids

\* Nothing is live while a start or a resume is under way.
Quiet ==
  ~orphaned =>
    \A c \in Conns : op[c].kind \in {"start", "resume"} => live = {}

SinkOwned ==
  \A c \in Conns : bound[c].current /\ bound[c].owns => sink[bound[c].sid] = c

\* A handle that is current, or a Continue parked with one, is of a live run.
CurrentIsLive ==
  /\ \A c \in Conns : bound[c].current => bound[c].sid \in live
  /\ \A k \in clicks : k.current => k.sid \in live

\* A run that could still be nudged, because its flag is set or a Continue is
\* parked, has not been: unless it had two parked at one time, it has one.
OneNudge ==
  /\ \A s \in Sids \ live : nudged[s] = 0
  /\ \A s \in Sids \ crowded :
       /\ nudged[s] <= 1
       /\ awaiting[s] => nudged[s] = 0
       /\ \A k \in clicks : k.sid = s => nudged[s] = 0
       /\ \A k, q \in clicks : k.sid = s /\ q.sid = s => k = q

IInv ==
  /\ TypeOK /\ Numbered /\ Holders /\ Quiet /\ LiveIsSingle /\ RowsMatchRegistry
  /\ SinkOwned /\ CurrentIsLive /\ OneNudge

\* What the recovery Continue and the retry of a worker leave alone.
core == <<made, status, live, sink, open, bound, claims, op, orphaned>>

LEMMA InitIInv == Init => IInv
<1> SUFFICES ASSUME Init PROVE IInv
  OBVIOUS
<1>1. TypeOK
  <2>1. bound \in [Conns -> Handle \cup {NoHandle}] /\ op \in [Conns -> Op \cup {NoOp}]
    BY DEF Init
  <2>2. /\ status \in [Sids -> {"none", "running"} \cup Ended]
        /\ awaiting \in [Sids -> BOOLEAN]
        /\ sink \in [Sids -> Conns \cup {NoConn}]
        /\ nudged \in [Sids -> Nat]
    BY DEF Init
  <2>3. made \in 0..MaxSessions
    BY MaxSessionsAssumption DEF Init
  <2>4. live = {} /\ open = {} /\ claims = {} /\ clicks = {} /\ crowded = {}
        /\ orphaned \in BOOLEAN
    BY DEF Init
  <2> QED
    BY <2>1, <2>2, <2>3, <2>4 DEF TypeOK
<1>2. Numbered
  BY DEF Init, Numbered, NoHandle, NoOp, NoSid
<1>5. Holders
  BY DEF Init, Holders, NoOp
<1>3. Quiet /\ LiveIsSingle /\ SinkOwned
  BY DEF Init, Quiet, LiveIsSingle, SinkOwned, NoOp, NoHandle
<1>4. RowsMatchRegistry
  BY DEF Init, RowsMatchRegistry, Running
<1>6. CurrentIsLive /\ OneNudge
  BY DEF Init, CurrentIsLive, OneNudge, NoHandle, Sids
<1> QED
  BY <1>1, <1>2, <1>3, <1>4, <1>5, <1>6 DEF IInv

-----------------------------------------------------------------------------
(* Handles, and the steps that tear down and attach. *)

LEMMA HandleTypes ==
  /\ \A h \in Handle : Stale(h) \in Handle /\ Stale(h).sid = h.sid /\ ~Stale(h).current
  /\ \A h \in Handle : [h EXCEPT !.owns = FALSE] \in Handle
  /\ \A s \in Sids : HandleOf(s) \in Handle /\ HandleOf(s).sid = s
  /\ NoHandle.sid = 0 /\ ~NoHandle.current
BY DEF Handle, Stale, HandleOf, NoHandle, NoSid

LEMMA Bindings ==
  ASSUME TypeOK, NEW c \in Conns, bound[c].sid # 0
  PROVE  bound[c] \in Handle /\ bound[c].sid \in Sids
BY DEF TypeOK, Handle, NoHandle, NoSid

LEMMA UnboundTypes ==
  ASSUME TypeOK, NEW T \in SUBSET Sids, NEW c \in Conns
  PROVE  /\ Unbound(T)[c] \in Handle \cup {NoHandle}
         /\ Unbound(T)[c].sid \in {bound[c].sid, 0}
         /\ Unbound(T)[c].current =>
              Unbound(T)[c] = bound[c] /\ bound[c].sid \notin T
<1>1. Unbound(T)[c] = IF bound[c].sid \notin T THEN bound[c]
                      ELSE IF bound[c].sid \in live /\ sink[bound[c].sid] = c
                             THEN NoHandle ELSE Stale(bound[c])
  BY DEF Unbound
<1>2. CASE bound[c].sid \notin T
  BY <1>1, <1>2 DEF TypeOK
<1>3. CASE bound[c].sid \in T
  <2>1. bound[c].sid # 0
    BY <1>3 DEF Sids
  <2> QED
    BY <1>1, <1>3, <2>1, Bindings, HandleTypes
<1> QED
  BY <1>2, <1>3

LEMMA OrphanTypes ==
  ASSUME TypeOK, NEW T \in SUBSET Sids
  PROVE  Orphans(T) \subseteq Click
BY DEF TypeOK, Orphans, Click

LEMMA SilencedTypes ==
  ASSUME TypeOK, NEW T \in SUBSET Sids
  PROVE  /\ Silenced(T) \in [Sids -> Conns \cup {NoConn}]
         /\ Unnudged(T) \in [Sids -> Nat]
         /\ \A s \in Sids \ T : Silenced(T)[s] = sink[s]
BY DEF TypeOK, Silenced, Unnudged

LEMMA AttachBinds ==
  ASSUME TypeOK, NEW c \in Conns, NEW s \in Sids, NEW T \in SUBSET Sids, Attach(c, s, T),
         NEW d \in Conns
  PROVE  /\ bound'[d] \in Handle \cup {NoHandle}
         /\ bound'[d].sid \in {bound[d].sid, 0, s}
         /\ bound'[d].current /\ bound'[d].owns =>
              \/ d = c /\ bound'[d].sid = s
              \/ bound'[d] = bound[d] /\ bound[d].sid \notin T \cup {s}
<1>1. bound'[d] = IF d = c THEN HandleOf(s)
                  ELSE IF bound[d].sid = s THEN [bound[d] EXCEPT !.owns = FALSE]
                  ELSE Unbound(T)[d]
  BY DEF Attach
<1>2. CASE d = c
  BY <1>1, <1>2, HandleTypes
<1>3. CASE d # c /\ bound[d].sid = s
  <2>1. bound[d] \in Handle
    BY <1>3, Bindings DEF Sids
  <2> QED
    BY <1>1, <1>3, <2>1, HandleTypes DEF Handle
<1>4. CASE d # c /\ bound[d].sid # s
  BY <1>1, <1>4, UnboundTypes
<1> QED
  BY <1>2, <1>3, <1>4

LEMMA AttachTypes ==
  ASSUME TypeOK, NEW c \in Conns, NEW s \in Sids, NEW T \in SUBSET Sids, Attach(c, s, T)
  PROVE  /\ live' = (live \ T) \cup {s}
         /\ sink' \in [Sids -> Conns \cup {NoConn}]
         /\ bound' \in [Conns -> Handle \cup {NoHandle}]
         /\ clicks' \subseteq Click
         /\ awaiting' \in [Sids -> BOOLEAN]
         /\ nudged' \in [Sids -> Nat]
<1>1. sink' \in [Sids -> Conns \cup {NoConn}]
  BY SilencedTypes DEF Attach
<1>2. bound' \in [Conns -> Handle \cup {NoHandle}]
  <2>1. bound' = [d \in Conns |-> bound'[d]]
    BY DEF Attach
  <2> QED
    BY <2>1, AttachBinds
<1> QED
  BY <1>1, <1>2, OrphanTypes, SilencedTypes DEF Attach, TypeOK

LEMMA AttachSink ==
  ASSUME TypeOK, SinkOwned,
         NEW c \in Conns, NEW s \in Sids, NEW T \in SUBSET Sids, Attach(c, s, T)
  PROVE  SinkOwned'
<1> SUFFICES ASSUME NEW d \in Conns, bound'[d].current, bound'[d].owns
             PROVE  sink'[bound'[d].sid] = d
  BY DEF SinkOwned
<1>1. sink' = [Silenced(T) EXCEPT ![s] = c] /\ Silenced(T) \in [Sids -> Conns \cup {NoConn}]
  BY SilencedTypes DEF Attach
<1>2. CASE d = c /\ bound'[d].sid = s
  BY <1>1, <1>2
<1>3. CASE bound'[d] = bound[d] /\ bound[d].sid \notin T \cup {s}
  <2>1. bound[d].sid \in Sids
    BY <1>3 DEF TypeOK, Handle, NoHandle
  <2> QED
    BY <1>1, <1>3, <2>1, SilencedTypes DEF SinkOwned
<1> QED
  BY <1>2, <1>3, AttachBinds

LEMMA TornSink ==
  ASSUME TypeOK, SinkOwned, NEW T \in SUBSET Sids,
         sink' = Silenced(T), bound' = Unbound(T)
  PROVE  SinkOwned'
<1> SUFFICES ASSUME NEW d \in Conns, bound'[d].current, bound'[d].owns
             PROVE  sink'[bound'[d].sid] = d
  BY DEF SinkOwned
<1>1. bound'[d] = bound[d] /\ bound[d].sid \notin T
  BY UnboundTypes
<1>2. bound[d].sid \in Sids
  BY <1>1 DEF TypeOK, Handle, NoHandle
<1> QED
  BY <1>1, <1>2, SilencedTypes DEF SinkOwned

LEMMA TornTypes ==
  ASSUME TypeOK, NEW T \in SUBSET Sids
  PROVE  Unbound(T) \in [Conns -> Handle \cup {NoHandle}]
<1>1. Unbound(T) = [c \in Conns |-> Unbound(T)[c]]
  BY DEF Unbound
<1> QED
  BY <1>1, UnboundTypes

-----------------------------------------------------------------------------
(* Types. *)

LEMMA SidTypes ==
  ASSUME TypeOK, NEW c \in Conns
  PROVE  /\ bound[c].sid \in Sids \cup {0}
         /\ bound[c].current => bound[c].sid \in Sids
         /\ bound[c] # NoHandle => bound[c].sid \in Sids
         /\ op[c].sid \in Sids \cup {0}
         /\ op[c].active \in Sids \cup {0}
<1>1. bound[c] \in Handle \cup {NoHandle} /\ op[c] \in Op \cup {NoOp}
  BY DEF TypeOK
<1>2. CASE bound[c] = NoHandle
  BY <1>1, <1>2 DEF NoHandle, Op, NoOp, NoSid
<1>3. CASE bound[c] \in Handle
  BY <1>1, <1>3 DEF Handle, Op, NoOp, NoSid
<1> QED
  BY <1>1, <1>2, <1>3

LEMMA Small ==
  /\ 1..made \subseteq 0..made
  /\ made \in 0..MaxSessions => 1..made \subseteq Sids /\ made \in Nat
BY MaxSessionsAssumption DEF Sids

LEMMA SweepTypes ==
  ASSUME TypeOK, Numbered, NEW c \in Conns, NEW s \in Running, Sweep(c, s)
  PROVE  /\ status' \in [Sids -> {"none", "running"} \cup Ended]
         /\ live' \subseteq live \cup {s}
         /\ sink' \in [Sids -> Conns \cup {NoConn}]
         /\ bound' \in [Conns -> Handle \cup {NoHandle}]
         /\ clicks' \subseteq Click
         /\ awaiting' \in [Sids -> BOOLEAN]
         /\ nudged' \in [Sids -> Nat]
<1> DEFINE T == Running \ {s}
<1>1. s \in Sids /\ T \in SUBSET Sids
  BY DEF Running
<1>2. status' \in [Sids -> {"none", "running"} \cup Ended]
  BY DEF Sweep, TypeOK, Ended
<1>3. CASE Attach(c, s, T)
  BY <1>1, <1>2, <1>3, AttachTypes
<1>4. CASE ~Attach(c, s, T)
  <2>1. /\ live' = live \ T
        /\ sink' = Silenced(T) /\ bound' = Unbound(T)
        /\ clicks' = Orphans(T) /\ nudged' = Unnudged(T) /\ awaiting' = awaiting
    BY <1>4 DEF Sweep
  <2>2. awaiting' \in [Sids -> BOOLEAN]
    BY <2>1 DEF TypeOK
  <2> QED
    BY <1>1, <1>2, <2>1, <2>2, TornTypes, SilencedTypes, OrphanTypes
<1> QED
  BY <1>3, <1>4

LEMMA TeardownTypes ==
  ASSUME TypeOK, NEW s \in Sids, NEW o \in Ended, Teardown(s, o)
  PROVE  TypeOK'
<1>1. {s} \in SUBSET Sids
  OBVIOUS
<1>2. status' \in [Sids -> {"none", "running"} \cup Ended]
  BY DEF Teardown, TypeOK
<1>3. /\ sink' \in [Sids -> Conns \cup {NoConn}]
      /\ nudged' \in [Sids -> Nat]
      /\ clicks' \subseteq Click
      /\ bound' \in [Conns -> Handle \cup {NoHandle}]
  BY <1>1, SilencedTypes, OrphanTypes, TornTypes DEF Teardown
<1> QED
  BY <1>2, <1>3 DEF Teardown, TypeOK

LEMMA OpTypes ==
  ASSUME TypeOK, NEW c \in Conns
  PROVE  /\ [op EXCEPT ![c] = NoOp] \in [Conns -> Op \cup {NoOp}]
         /\ [op EXCEPT ![c] = IF @.at = "gate" THEN NoOp ELSE @]
              \in [Conns -> Op \cup {NoOp}]
BY DEF TypeOK

LEMMA TypeStep == IInv /\ [Next]_vars => TypeOK'
<1> SUFFICES ASSUME IInv, [Next]_vars PROVE TypeOK'
  OBVIOUS
<1>0. TypeOK /\ Numbered /\ Holders /\ made \in Nat /\ 1..made \subseteq Sids
  BY Small DEF IInv, TypeOK
<1>1. ASSUME NEW c \in Conns, Connect(c) PROVE TypeOK'
  <2>1. CASE Running = {}
    <3>1. bound' \in [Conns -> Handle \cup {NoHandle}]
      BY <1>0, <1>1, <2>1 DEF Connect, TypeOK
    <3> QED
      BY <1>0, <1>1, <2>1, <3>1 DEF Connect, registry, TypeOK
  <2>2. CASE Running # {}
    <3>1. PICK s \in Running : Sweep(c, s)
      BY <1>1, <2>2 DEF Connect
    <3>2. s \in 1..made
      BY <1>0 DEF Running, Numbered, Sids
    <3>3. UNCHANGED <<made, claims, op, orphaned, crowded>> /\ open' = open \cup {c}
      BY <1>1 DEF Connect
    <3>4. /\ status' \in [Sids -> {"none", "running"} \cup Ended]
          /\ live' \subseteq live \cup {s}
          /\ sink' \in [Sids -> Conns \cup {NoConn}]
          /\ bound' \in [Conns -> Handle \cup {NoHandle}]
          /\ clicks' \subseteq Click
          /\ awaiting' \in [Sids -> BOOLEAN]
          /\ nudged' \in [Sids -> Nat]
      BY <1>0, <3>1, SweepTypes
    <3> QED
      BY <1>0, <3>2, <3>3, <3>4 DEF TypeOK
  <2> QED
    BY <2>1, <2>2
<1>2. ASSUME NEW c \in Conns, Close(c) PROVE TypeOK'
  <2>1. sink' \in [Sids -> Conns \cup {NoConn}]
    BY <1>0, <1>2 DEF Close, TypeOK
  <2>2. bound' \in [Conns -> Handle \cup {NoHandle}]
    BY <1>0, <1>2 DEF Close, TypeOK
  <2> QED
    BY <1>0, <1>2, <2>1, <2>2, OpTypes DEF Close, TypeOK, rows, history
<1>3. ASSUME NEW c \in Conns, NEW s \in Sids \cup {0},
             NEW k \in {"start", "resume", "reopen"}, NEW a \in {"diff", "gate"},
             Claim(c, k, a, s)
      PROVE  TypeOK'
  <2>1. op' \in [Conns -> Op \cup {NoOp}]
    BY <1>0, <1>3, SidTypes DEF Claim, TypeOK, Op, NoSid
  <2> QED
    BY <1>0, <1>3, <2>1 DEF Claim, TypeOK, rows, registry, history
<1>4. ASSUME NEW c \in Conns, Fails(c) PROVE TypeOK'
  BY <1>0, <1>4, OpTypes DEF Fails, Finished, TypeOK, rows, registry, history
<1>5. ASSUME NEW c \in Conns, DiffDone(c) PROVE TypeOK'
  <2>1. op[c] \in Op
    BY <1>0, <1>5 DEF DiffDone, TypeOK, NoOp
  <2>2. [op[c] EXCEPT !.at = "gate"] \in Op
    BY <2>1 DEF Op
  <2> QED
    BY <1>0, <1>5, <2>2 DEF DiffDone, TypeOK, rows, registry, history
<1>6. ASSUME NEW c \in Conns, Started(c) PROVE TypeOK'
  <2>1. made + 1 \in Sids /\ made' = made + 1 /\ made' \in 0..MaxSessions
    BY <1>0, <1>6, MaxSessionsAssumption DEF Started, Sids, TypeOK
  <2>2. /\ status' \in [Sids -> {"none", "running"} \cup Ended]
        /\ sink' \in [Sids -> Conns \cup {NoConn}]
    BY <1>0, <1>6 DEF Started, TypeOK
  <2>3. bound' \in [Conns -> Handle \cup {NoHandle}]
    BY <1>0, <1>6, <2>1, HandleTypes DEF Started, TypeOK
  <2>4. live' \subseteq 1..made'
    BY <1>0, <1>6, <2>1 DEF Started, TypeOK
  <2> QED
    BY <1>0, <1>6, <2>1, <2>2, <2>3, <2>4, OpTypes DEF Started, Finished, TypeOK
<1>7. ASSUME NEW c \in Conns, Resumed(c) PROVE TypeOK'
  <2>1. op[c].sid \in Sids /\ op[c].sid \in 1..made
    BY <1>0, <1>7 DEF Resumed, Holders, Numbered, Sids
  <2>2. status' \in [Sids -> {"none", "running"} \cup Ended]
    BY <1>0, <1>7 DEF Resumed, TypeOK
  <2>3. Attach(c, op[c].sid, {}) /\ {} \in SUBSET Sids
    BY <1>7 DEF Resumed
  <2>4. live' = (live \ {}) \cup {op[c].sid}
        /\ sink' \in [Sids -> Conns \cup {NoConn}]
        /\ bound' \in [Conns -> Handle \cup {NoHandle}]
        /\ clicks' \subseteq Click
        /\ awaiting' \in [Sids -> BOOLEAN]
        /\ nudged' \in [Sids -> Nat]
    BY <1>0, <2>1, <2>3, AttachTypes
  <2> QED
    BY <1>0, <1>7, <2>1, <2>2, <2>4, OpTypes DEF Resumed, Finished, TypeOK
<1>8. ASSUME NEW c \in Conns, Reopened(c) PROVE TypeOK'
  <2> DEFINE T == (live \cup {op[c].active}) \ {op[c].sid, 0}
  <2>1. op[c].sid \in Sids /\ op[c].sid \in 1..made
    BY <1>0, <1>8 DEF Reopened, Holders, Numbered, Sids
  <2>2. status' \in [Sids -> {"none", "running"} \cup Ended]
    BY <1>0, <1>8 DEF Reopened, TypeOK, Ended
  <2>3. T \in SUBSET Sids
    BY <1>0, SidTypes DEF TypeOK
  <2>4. Attach(c, op[c].sid, T)
    BY <1>8 DEF Reopened, NoSid
  <2>5. live' = (live \ T) \cup {op[c].sid}
        /\ sink' \in [Sids -> Conns \cup {NoConn}]
        /\ bound' \in [Conns -> Handle \cup {NoHandle}]
        /\ clicks' \subseteq Click
        /\ awaiting' \in [Sids -> BOOLEAN]
        /\ nudged' \in [Sids -> Nat]
    BY <1>0, <2>1, <2>3, <2>4, AttachTypes
  <2> QED
    BY <1>0, <1>8, <2>1, <2>2, <2>5, OpTypes DEF Reopened, Finished, TypeOK
<1>9. ASSUME NEW s \in Sids, RunEnds(s) PROVE TypeOK'
  BY <1>0, <1>9, TeardownTypes DEF RunEnds, Ended
<1>10. ASSUME NEW c \in Conns, Stop(c) PROVE TypeOK'
  BY <1>0, <1>10, TeardownTypes, SidTypes DEF Stop, Ended
<1>11. ASSUME NEW c \in Conns, AskContinue(c) PROVE TypeOK'
  <2>1. clicks' \subseteq Click
    <3>1. PICK i \in 1..MaxClicks :
            clicks' = clicks \cup {[id |-> i, conn |-> c, sid |-> bound[c].sid,
                                   current |-> bound[c].current]}
      BY <1>11 DEF AskContinue
    <3>2. bound[c] \in Handle
      BY <1>0, <1>11 DEF AskContinue, TypeOK
    <3>3. [id |-> i, conn |-> c, sid |-> bound[c].sid,
           current |-> bound[c].current] \in Click
      BY <3>2 DEF Click, Handle
    <3> QED
      BY <1>0, <3>1, <3>3 DEF TypeOK
  <2>2. crowded' \subseteq Sids
    BY <1>0, <1>11 DEF AskContinue, TypeOK, Click
  <2> QED
    BY <1>0, <1>11, <2>1, <2>2 DEF AskContinue, TypeOK, rows, registry
<1>12. ASSUME NEW k \in clicks, ContinueDone(k) PROVE TypeOK'
  <2>1. k.sid \in Sids
    BY <1>0 DEF TypeOK, Click
  <2>2. nudged' \in [Sids -> Nat] /\ awaiting' \in [Sids -> BOOLEAN]
    BY <1>0, <1>12, <2>1 DEF ContinueDone, TypeOK
  <2> QED
    BY <1>0, <1>12, <2>2 DEF ContinueDone, TypeOK, registry
<1>13. ASSUME NEW k \in clicks, ContinueCancelled(k) \/ ContinueFails(k) PROVE TypeOK'
  <2>1. awaiting' \in [Sids -> BOOLEAN] /\ clicks' \subseteq Click
    BY <1>0, <1>13 DEF ContinueCancelled, ContinueFails, TypeOK, rows
  <2> QED
    BY <1>0, <1>13, <2>1 DEF ContinueCancelled, ContinueFails, TypeOK, rows, registry,
       history
<1>14. ASSUME NEW c \in Conns, RetryWorker(c) PROVE TypeOK'
  BY <1>0, <1>14 DEF RetryWorker, TypeOK, registry, windows, history
<1>15. CASE Crash
  <2>1. /\ bound' \in [Conns -> Handle \cup {NoHandle}]
        /\ op' \in [Conns -> Op \cup {NoOp}]
    BY <1>15 DEF Crash
  <2>2. sink' \in [Sids -> Conns \cup {NoConn}] /\ nudged' \in [Sids -> Nat]
    BY <1>15 DEF Crash
  <2> QED
    BY <1>0, <1>15, <2>1, <2>2 DEF Crash, rows, TypeOK
<1>16. CASE UNCHANGED vars
  BY <1>0, <1>16 DEF vars, TypeOK
<1>17. ASSUME NEW c \in Conns, AskStart(c) PROVE TypeOK'
  BY <1>3, <1>17 DEF AskStart, NoSid
<1>18. ASSUME NEW c \in Conns, NEW s \in Sids, AskResume(c, s) \/ AskReopen(c, s)
       PROVE TypeOK'
  BY <1>3, <1>18 DEF AskResume, AskReopen
<1> QED
  BY <1>1, <1>2, <1>4, <1>5, <1>6, <1>7, <1>8, <1>9, <1>10, <1>11, <1>12, <1>13,
     <1>14, <1>15, <1>16, <1>17, <1>18 DEF Next

-----------------------------------------------------------------------------
(* The steps, as the invariants below tell them apart: what they claim, what *)
(* they end, and what they leave alone (core).                               *)

Registers(c) == Started(c) \/ Resumed(c) \/ Reopened(c)

\* A request that takes the claim: which, where it waits and for which session.
Asks(c, k, a, s) ==
  /\ Claim(c, k, a, s)
  /\ k \in {"start", "resume"} => a = "gate" /\ live = {}
  /\ k = "start" => s = 0
  /\ k \in {"resume", "reopen"} => s \in Sids /\ status[s] # "none"

Kinds == {"start", "resume", "reopen"}

LEMMA Steps ==
  ASSUME TypeOK, Numbered, Next
  PROVE  \/ \E c \in Conns : Connect(c) \/ Close(c)
         \/ \E c \in Conns : Fails(c) \/ DiffDone(c)
         \/ \E c \in Conns : Registers(c)
         \/ \E c \in Conns, k \in Kinds, a \in {"diff", "gate"}, s \in Sids \cup {0} :
              Asks(c, k, a, s)
         \/ \E s \in Sids, o \in Ended : s <= made /\ Teardown(s, o)
         \/ Crash
         \/ UNCHANGED core
<1>1. ASSUME NEW c \in Conns, AskStart(c) PROVE Asks(c, "start", "gate", 0)
  BY <1>1 DEF AskStart, Asks, NoSid
<1>2. ASSUME NEW c \in Conns, NEW s \in Sids, AskResume(c, s)
      PROVE  Asks(c, "resume", "gate", s)
  BY <1>2 DEF AskResume, Asks, Ended
<1>3. ASSUME NEW c \in Conns, NEW s \in Sids, AskReopen(c, s)
      PROVE  Asks(c, "reopen", "diff", s)
  BY <1>3 DEF AskReopen, Asks, Ended
<1>4. ASSUME NEW s \in Sids, RunEnds(s)
      PROVE  s <= made /\ \E o \in Ended : Teardown(s, o)
  BY <1>4 DEF RunEnds, Ended, TypeOK
<1>5. ASSUME NEW c \in Conns, Stop(c)
      PROVE  \E s \in Sids, o \in Ended : s <= made /\ Teardown(s, o)
  BY <1>5, SidTypes DEF Stop, Ended, Numbered
<1>6. ASSUME NEW c \in Conns, AskContinue(c) \/ RetryWorker(c) PROVE UNCHANGED core
  BY <1>6 DEF AskContinue, RetryWorker, core, rows, registry, windows, history
<1>7. ASSUME NEW k \in clicks, ContinueDone(k) \/ ContinueCancelled(k) \/ ContinueFails(k)
      PROVE  UNCHANGED core
  BY <1>7 DEF ContinueDone, ContinueCancelled, ContinueFails, core, rows, registry, history
<1>8. CASE \E c \in Conns, s \in Sids : AskResume(c, s) \/ AskReopen(c, s)
  BY <1>2, <1>3, <1>8 DEF Kinds
<1>9. CASE \E c \in Conns : AskStart(c)
  BY <1>1, <1>9 DEF Kinds
<1> QED
  BY <1>4, <1>5, <1>6, <1>7, <1>8, <1>9 DEF Next, Registers

-----------------------------------------------------------------------------
(* Numbers. *)

LEMMA SweepNumbers ==
  ASSUME TypeOK, Numbered, NEW c \in Conns, NEW s \in Running, Sweep(c, s),
         NEW d \in Conns
  PROVE  bound'[d].sid \in {bound[d].sid, 0, s}
<1> DEFINE T == Running \ {s}
<1>1. s \in Sids /\ T \in SUBSET Sids
  BY DEF Running
<1>2. CASE Attach(c, s, T)
  BY <1>1, <1>2, AttachBinds
<1>3. CASE ~Attach(c, s, T)
  <2>1. bound' = Unbound(T)
    BY <1>3 DEF Sweep
  <2> QED
    BY <1>1, <2>1, UnboundTypes
<1> QED
  BY <1>2, <1>3

LEMMA NumberStep == IInv /\ [Next]_vars => Numbered'
<1> SUFFICES ASSUME IInv, [Next]_vars PROVE Numbered'
  OBVIOUS
<1>0. TypeOK /\ Numbered /\ Holders /\ made \in Nat /\ TypeOK'
      /\ live \subseteq Sids /\ (\A x \in live : x <= made)
  BY TypeStep, Small DEF IInv, TypeOK
<1>1. ASSUME NEW c \in Conns, Connect(c) PROVE Numbered'
  <2>1. made' = made /\ op' = op
    BY <1>1 DEF Connect
  <2>2. CASE Running = {}
    BY <1>0, <1>1, <2>1, <2>2 DEF Connect, Numbered, NoHandle, NoSid, TypeOK
  <2>3. CASE Running # {}
    <3>1. PICK s \in Running : Sweep(c, s)
      BY <1>1, <2>3 DEF Connect
    <3>2. s <= made
      BY <1>0 DEF Running, Numbered
    <3>3. \A x \in Sids : status'[x] \in {status[x]} \/ x \in Running
      BY <3>1 DEF Sweep
    <3>4. \A x \in Sids : status'[x] # "none" => x <= made
      BY <1>0, <3>3 DEF Numbered, Running
    <3>5. \A d \in Conns : bound'[d].sid <= made
      BY <1>0, <3>1, <3>2, SweepNumbers DEF Numbered
    <3> QED
      BY <1>0, <2>1, <3>4, <3>5 DEF Numbered
  <2> QED
    BY <2>2, <2>3
<1>2. ASSUME NEW c \in Conns, Close(c) PROVE Numbered'
  BY <1>0, <1>2 DEF Close, Numbered, rows, NoHandle, NoOp, NoSid, TypeOK
<1>3. ASSUME NEW c \in Conns, Fails(c) \/ DiffDone(c) PROVE Numbered'
  <2>1. made' = made /\ status' = status /\ bound' = bound
    BY <1>3 DEF Fails, DiffDone, rows
  <2>2. \A d \in Conns : op'[d].sid \in {op[d].sid, 0} /\ op'[d].active \in {op[d].active, 0}
    BY <1>0, <1>3 DEF Fails, DiffDone, Finished, TypeOK, Op, NoOp, NoSid
  <2> QED
    BY <1>0, <2>1, <2>2 DEF Numbered
<1>4. ASSUME NEW c \in Conns, Registers(c) PROVE Numbered'
  <2>1. op' = [op EXCEPT ![c] = NoOp]
    BY <1>4 DEF Registers, Started, Resumed, Reopened, Finished
  <2>2. CASE Started(c)
    <3>1. made + 1 \in Sids /\ made' = made + 1
      BY <1>0, <2>2, MaxSessionsAssumption DEF Started, Sids
    <3>2. \A d \in Conns : bound'[d].sid \in {bound[d].sid, made + 1}
      BY <1>0, <2>2, <3>1, HandleTypes DEF Started, TypeOK
    <3>3. \A x \in Sids : status'[x] # status[x] => x = made + 1
      BY <1>0, <2>2 DEF Started, TypeOK
    <3>4. \A x \in Sids : x \in Nat
      BY DEF Sids
    <3>5. \A x \in Sids : status'[x] # "none" => x <= made'
      BY <1>0, <3>1, <3>3, <3>4 DEF Numbered
    <3>6. \A d \in Conns : bound[d].sid \in Nat /\ op[d].sid \in Nat /\ op[d].active \in Nat
      BY <1>0, SidTypes DEF Sids
    <3>7. \A d \in Conns : bound'[d].sid <= made'
      BY <1>0, <3>1, <3>2, <3>6 DEF Numbered
    <3>8. \A d \in Conns : op'[d].sid <= made' /\ op'[d].active <= made'
      BY <1>0, <2>1, <3>1, <3>6 DEF Numbered, TypeOK, NoOp, NoSid
    <3> QED
      BY <3>5, <3>7, <3>8 DEF Numbered
  <2>3. CASE Resumed(c) \/ Reopened(c)
    <3>1. op[c].sid \in Sids /\ made' = made /\ op[c].sid <= made
      BY <1>0, <2>3 DEF Resumed, Reopened, Holders, Numbered
    <3> DEFINE R == (live \cup {op[c].active}) \ {op[c].sid, 0}
    <3>2. R \in SUBSET Sids /\ (\A x \in R : x <= made)
      BY <1>0, SidTypes DEF Numbered
    <3>3. PICK T \in {{}, R} : Attach(c, op[c].sid, T) /\ (Reopened(c) => T = R)
      BY <2>3 DEF Resumed, Reopened, NoSid
    <3>4. \A d \in Conns : bound'[d].sid <= made
      BY <1>0, <3>1, <3>2, <3>3, AttachBinds DEF Numbered
    <3>5. \A x \in Sids : status'[x] # status[x] => x = op[c].sid \/ x \in R
      BY <1>0, <2>3 DEF Resumed, Reopened, TypeOK, NoSid
    <3>7. \A x \in Sids : status'[x] # "none" => x <= made
      BY <1>0, <3>1, <3>2, <3>5 DEF Numbered
    <3>8. \A d \in Conns : op'[d].sid <= made /\ op'[d].active <= made
      BY <1>0, <2>1 DEF Numbered, TypeOK, NoOp, NoSid
    <3> QED
      BY <3>1, <3>4, <3>7, <3>8 DEF Numbered
  <2> QED
    BY <1>4, <2>2, <2>3 DEF Registers
<1>5. ASSUME NEW c \in Conns, NEW k \in Kinds, NEW a \in {"diff", "gate"},
             NEW s \in Sids \cup {0}, Asks(c, k, a, s)
      PROVE  Numbered'
  <2>1. s <= made
    BY <1>0, <1>5 DEF Asks, Numbered, Kinds
  <2>2. op' = [op EXCEPT ![c] = [kind |-> k, at |-> a, sid |-> s, active |-> bound[c].sid]]
    BY <1>5 DEF Asks, Claim
  <2>3. \A d \in Conns : op'[d].sid <= made /\ op'[d].active <= made
    BY <1>0, <2>1, <2>2 DEF Numbered, TypeOK
  <2> QED
    BY <1>0, <1>5, <2>3 DEF Asks, Claim, rows, Numbered
<1>6. ASSUME NEW s \in Sids, NEW o \in Ended, s <= made, Teardown(s, o) PROVE Numbered'
  <2>1. \A d \in Conns : bound'[d].sid \in {bound[d].sid, 0}
    BY <1>0, <1>6, UnboundTypes DEF Teardown
  <2>2. \A x \in Sids : status'[x] # "none" => x <= made
    BY <1>0, <1>6 DEF Teardown, Numbered, TypeOK
  <2>3. \A d \in Conns : bound'[d].sid <= made
    BY <1>0, <2>1 DEF Numbered
  <2> QED
    BY <1>0, <1>6, <2>2, <2>3 DEF Teardown, Numbered
<1>7. CASE Crash
  BY <1>0, <1>7 DEF Crash, rows, Numbered, NoHandle, NoOp, NoSid
<1>8. CASE UNCHANGED core
  BY <1>0, <1>8 DEF core, Numbered
<1>9. CASE UNCHANGED vars
  BY <1>8, <1>9 DEF vars, core
<1> QED
  BY <1>0, <1>1, <1>2, <1>3, <1>4, <1>5, <1>6, <1>7, <1>8, <1>9, Steps

-----------------------------------------------------------------------------
(* Claims, and what is live while one is held. *)

LEMMA HolderStep == IInv /\ [Next]_vars => Holders'
<1> SUFFICES ASSUME IInv, [Next]_vars PROVE Holders'
  OBVIOUS
<1>0. TypeOK /\ Numbered /\ Holders /\ claims \subseteq Conns /\ op \in [Conns -> Op \cup {NoOp}]
  BY DEF IInv, TypeOK
<1>n. NoOp.at = "none" /\ NoOp.kind = "none"
  BY DEF NoOp
<1>1. ASSUME NEW c \in Conns, Connect(c) PROVE Holders'
  BY <1>0, <1>1, <1>n DEF Connect, Holders
<1>2. ASSUME NEW c \in Conns, Close(c) PROVE Holders'
  BY <1>0, <1>2, <1>n DEF Close, Holders
<1>3. ASSUME NEW c \in Conns, op' = [op EXCEPT ![c] = NoOp], claims' = claims \ {c},
             open' = open
      PROVE  Holders'
  BY <1>0, <1>3, <1>n DEF Holders
<1>4. ASSUME NEW c \in Conns, DiffDone(c) PROVE Holders'
  <2>1. op[c] \in Op
    BY <1>0, <1>4 DEF DiffDone, NoOp
  <2>2. op'[c].at = "gate" /\ op'[c].kind = op[c].kind /\ op'[c].sid = op[c].sid
        /\ op[c] # NoOp /\ op'[c] # NoOp
    BY <1>0, <1>4, <2>1, <1>n DEF DiffDone, Op
  <2>3. \A d \in Conns \ {c} : op'[d] = op[d]
    BY <1>0, <1>4 DEF DiffDone
  <2> QED
    BY <1>0, <1>4, <2>2, <2>3 DEF DiffDone, Holders
<1>5. ASSUME NEW c \in Conns, NEW k \in Kinds, NEW a \in {"diff", "gate"},
             NEW s \in Sids \cup {0}, Asks(c, k, a, s)
      PROVE  Holders'
  <2>1. claims = {} /\ claims' = {c} /\ c \in open /\ open' = open
    BY <1>5 DEF Asks, Claim
  <2>2. op'[c].at = a /\ op'[c].kind = k /\ op'[c].sid = s /\ op'[c] # NoOp
    BY <1>0, <1>5, <1>n DEF Asks, Claim, Kinds
  <2>3. \A d \in Conns \ {c} : op'[d] = op[d]
    BY <1>0, <1>5 DEF Asks, Claim
  <2> QED
    BY <1>0, <1>5, <2>1, <2>2, <2>3 DEF Asks, Holders
<1>6. ASSUME NEW c \in Conns, Registers(c) \/ Fails(c) PROVE Holders'
  BY <1>3, <1>6 DEF Registers, Started, Resumed, Reopened, Fails, Finished
<1>7. ASSUME NEW s \in Sids, NEW o \in Ended, Teardown(s, o) PROVE Holders'
  BY <1>0, <1>7 DEF Teardown, Holders
<1>8. CASE Crash
  BY <1>8, <1>n DEF Crash, Holders
<1>9. CASE UNCHANGED core
  BY <1>0, <1>9 DEF core, Holders
<1>10. CASE UNCHANGED vars
  BY <1>9, <1>10 DEF vars, core
<1> QED
  BY <1>0, <1>1, <1>2, <1>4, <1>5, <1>6, <1>7, <1>8, <1>9, <1>10, Steps

\* A request parked on a gate holds the claim, so it is the only one.
LEMMA GateIsAlone ==
  ASSUME TypeOK, Holders, NEW c \in Conns, NEW d \in Conns,
         op[c].at = "gate", op[d].at = "gate"
  PROVE  c = d
<1>1. op[c] # NoOp /\ op[d] # NoOp
  BY DEF NoOp
<1> QED
  BY <1>1 DEF Holders

\* What a registration leaves live.
LEMMA Registered ==
  ASSUME TypeOK, Holders, Quiet, NEW c \in Conns, Registers(c)
  PROVE  /\ ~orphaned' => ~orphaned /\ op[c].at = "gate" /\ c \in open
         /\ ~orphaned' => \A s, t \in live' : s = t
<1>1. CASE Started(c)
  BY <1>1 DEF Started, Holders, Quiet
<1>2. CASE Resumed(c)
  BY <1>2 DEF Resumed, Attach, Holders, Quiet
<1>3. CASE Reopened(c)
  <2>1. ~orphaned' => ~orphaned /\ op[c].at = "gate" /\ c \in open
    BY <1>3 DEF Reopened, TypeOK
  <2>2. live' \subseteq {op[c].sid, 0} /\ 0 \notin live
    BY <1>3 DEF Reopened, Attach, NoSid, TypeOK
  <2>3. live' = (live \ ((live \cup {op[c].active}) \ {op[c].sid, NoSid})) \cup {op[c].sid}
    BY <1>3 DEF Reopened, Attach
  <2> QED
    BY <2>1, <2>2, <2>3 DEF Holders
<1> QED
  BY <1>1, <1>2, <1>3 DEF Registers

LEMMA SweptAlone ==
  ASSUME TypeOK, RowsMatchRegistry, NEW c \in Conns, NEW s \in Running, Sweep(c, s)
  PROVE  live' \subseteq {s}
BY DEF Sweep, Attach, RowsMatchRegistry

LEMMA QuietStep == IInv /\ [Next]_vars => Quiet' /\ LiveIsSingle'
<1> SUFFICES ASSUME IInv, [Next]_vars PROVE Quiet' /\ LiveIsSingle'
  OBVIOUS
<1>0. TypeOK /\ Numbered /\ Holders /\ Quiet /\ LiveIsSingle /\ RowsMatchRegistry
  BY DEF IInv
<1>n. NoOp.kind = "none"
  BY DEF NoOp
<1>1. ASSUME NEW c \in Conns, Connect(c) PROVE Quiet' /\ LiveIsSingle'
  <2>1. op' = op /\ orphaned' = orphaned
    BY <1>1 DEF Connect
  <2>2. CASE Running = {}
    BY <1>0, <1>1, <2>1, <2>2 DEF Connect, registry, Quiet, LiveIsSingle
  <2>3. CASE Running # {}
    <3>1. PICK s \in Running : Sweep(c, s)
      BY <1>1, <2>3 DEF Connect
    <3>2. live' \subseteq {s}
      BY <1>0, <3>1, SweptAlone
    <3>3. ASSUME ~orphaned, NEW d \in Conns, op[d].kind \in {"start", "resume"}
          PROVE  FALSE
      BY <1>0, <2>3, <3>3 DEF Holders, Quiet, RowsMatchRegistry
    <3> QED
      BY <2>1, <3>2, <3>3 DEF Quiet, LiveIsSingle
  <2> QED
    BY <2>2, <2>3
<1>2. ASSUME live' \subseteq live, orphaned' = orphaned,
             \A c \in Conns : op'[c] = NoOp \/ op'[c].kind = op[c].kind
      PROVE  Quiet' /\ LiveIsSingle'
  BY <1>0, <1>2, <1>n DEF Quiet, LiveIsSingle
<1>3. ASSUME NEW c \in Conns, Close(c) \/ Fails(c) PROVE Quiet' /\ LiveIsSingle'
  BY <1>0, <1>2, <1>3 DEF Close, Fails, Finished, registry, history, TypeOK
<1>4. ASSUME NEW c \in Conns, DiffDone(c) PROVE Quiet' /\ LiveIsSingle'
  <2>1. op[c] \in Op
    BY <1>0, <1>4 DEF DiffDone, NoOp, TypeOK
  <2>2. \A d \in Conns : op'[d].kind = op[d].kind
    BY <1>0, <1>4, <2>1 DEF DiffDone, TypeOK, Op
  <2> QED
    BY <1>2, <1>4, <2>2 DEF DiffDone, registry, history
<1>5. ASSUME NEW c \in Conns, Registers(c) PROVE Quiet' /\ LiveIsSingle'
  <2>1. op' = [op EXCEPT ![c] = NoOp]
    BY <1>5 DEF Registers, Started, Resumed, Reopened, Finished
  <2>2. ASSUME ~orphaned', NEW d \in Conns, op'[d].kind \in {"start", "resume"}
        PROVE  FALSE
    <3>1. d # c /\ op[d].kind \in {"start", "resume"}
      BY <1>0, <1>n, <2>1, <2>2 DEF TypeOK
    <3>2. op[d].at = "gate" /\ op[c].at = "gate"
      BY <1>0, <1>5, <2>2, <3>1, Registered DEF Holders
    <3> QED
      BY <1>0, <3>1, <3>2, GateIsAlone
  <2> QED
    BY <1>0, <1>5, <2>2, Registered DEF Quiet, LiveIsSingle
<1>6. ASSUME NEW c \in Conns, NEW k \in Kinds, NEW a \in {"diff", "gate"},
             NEW s \in Sids \cup {0}, Asks(c, k, a, s)
      PROVE  Quiet' /\ LiveIsSingle'
  <2>1. live' = live /\ orphaned' = orphaned /\ (k \in {"start", "resume"} => live = {})
    BY <1>6 DEF Asks, Claim, registry, history
  <2>2. op'[c].kind = k /\ \A d \in Conns \ {c} : op'[d] = op[d]
    BY <1>0, <1>6 DEF Asks, Claim, TypeOK
  <2> QED
    BY <1>0, <2>1, <2>2 DEF Quiet, LiveIsSingle
<1>7. ASSUME NEW s \in Sids, NEW o \in Ended, Teardown(s, o) PROVE Quiet' /\ LiveIsSingle'
  BY <1>2, <1>7 DEF Teardown
<1>8. CASE Crash
  BY <1>2, <1>8 DEF Crash
<1>9. CASE UNCHANGED core
  BY <1>2, <1>9 DEF core
<1>10. CASE UNCHANGED vars
  BY <1>9, <1>10 DEF vars, core
<1> QED
  BY <1>0, <1>1, <1>3, <1>4, <1>5, <1>6, <1>7, <1>8, <1>9, <1>10, Steps

-----------------------------------------------------------------------------
(* Rows and the registry. *)

LEMMA RowStep == IInv /\ [Next]_vars => RowsMatchRegistry'
<1> SUFFICES ASSUME IInv, [Next]_vars PROVE RowsMatchRegistry'
  OBVIOUS
<1>0. TypeOK /\ Numbered /\ Holders /\ RowsMatchRegistry
      /\ status \in [Sids -> {"none", "running"} \cup Ended]
  BY DEF IInv, TypeOK
<1>1. ASSUME NEW c \in Conns, Connect(c) PROVE RowsMatchRegistry'
  <2>1. CASE Running = {}
    BY <1>0, <1>1, <2>1 DEF Connect, registry, RowsMatchRegistry, Running
  <2>2. CASE Running # {}
    <3>1. PICK s \in Running : Sweep(c, s)
      BY <1>1, <2>2 DEF Connect
    <3> DEFINE T == Running \ {s}
    <3>2. live \subseteq Running /\ s \in Sids
      BY <1>0 DEF RowsMatchRegistry, Running
    <3>3. CASE /\ Attach(c, s, T)
               /\ status' = [x \in Sids |-> IF x \in T THEN "crashed" ELSE status[x]]
      <4>1. live' = {s}
        BY <3>2, <3>3 DEF Attach
      <4>2. Running' = {s}
        BY <3>3 DEF Running
      <4> QED
        BY <4>1, <4>2 DEF RowsMatchRegistry
    <3>4. CASE /\ s \notin live /\ live' = live \ T
               /\ status' = [x \in Sids |-> IF x \in Running THEN "crashed" ELSE status[x]]
      <4>1. live' = {}
        BY <3>2, <3>4
      <4>2. Running' = {}
        BY <3>4 DEF Running
      <4> QED
        BY <4>1, <4>2 DEF RowsMatchRegistry
    <3> QED
      BY <3>1, <3>3, <3>4 DEF Sweep
  <2> QED
    BY <2>1, <2>2
<1>2. ASSUME status' = status, live' = live, open' \subseteq open PROVE RowsMatchRegistry'
  BY <1>0, <1>2 DEF RowsMatchRegistry, Running
<1>3. ASSUME NEW c \in Conns, Close(c) \/ Fails(c) \/ DiffDone(c) PROVE RowsMatchRegistry'
  BY <1>2, <1>3 DEF Close, Fails, DiffDone, rows, registry
<1>4. ASSUME NEW c \in Conns, Started(c) PROVE RowsMatchRegistry'
  <2>1. made + 1 \in Sids /\ open # {} /\ open' = open
    BY <1>0, <1>4, MaxSessionsAssumption DEF Started, Holders, TypeOK, Sids
  <2>2. Running' = Running \cup {made + 1}
    BY <1>0, <1>4, <2>1 DEF Started, Running
  <2> QED
    BY <1>0, <1>4, <2>1, <2>2 DEF Started, RowsMatchRegistry
<1>5. ASSUME NEW c \in Conns, Resumed(c) PROVE RowsMatchRegistry'
  <2>1. op[c].sid \in Sids /\ open' = open
    BY <1>0, <1>5 DEF Resumed, Holders
  <2>2. Running' = Running \cup {op[c].sid}
    BY <1>0, <1>5, <2>1 DEF Resumed, Running
  <2>3. live' = live \cup {op[c].sid}
    BY <1>5 DEF Resumed, Attach
  <2> QED
    BY <1>0, <2>1, <2>2, <2>3 DEF RowsMatchRegistry
<1>6. ASSUME NEW c \in Conns, Reopened(c) PROVE RowsMatchRegistry'
  <2> DEFINE R == (live \cup {op[c].active}) \ {op[c].sid, NoSid}
  <2>1. op[c].sid \in Sids /\ open' = open /\ 0 \notin live
    BY <1>0, <1>6 DEF Reopened, Holders, TypeOK
  <2>2. Running' = (Running \ R) \cup {op[c].sid}
    BY <1>0, <1>6, <2>1 DEF Reopened, Running
  <2>3. live' = (live \ R) \cup {op[c].sid}
    BY <1>6 DEF Reopened, Attach
  <2> QED
    BY <1>0, <2>1, <2>2, <2>3 DEF RowsMatchRegistry
<1>7. ASSUME NEW c \in Conns, NEW k \in Kinds, NEW a \in {"diff", "gate"},
             NEW s \in Sids \cup {0}, Asks(c, k, a, s)
      PROVE  RowsMatchRegistry'
  BY <1>2, <1>7 DEF Asks, Claim, rows, registry
<1>8. ASSUME NEW s \in Sids, NEW o \in Ended, Teardown(s, o) PROVE RowsMatchRegistry'
  <2>1. Running' = Running \ {s}
    BY <1>0, <1>8 DEF Teardown, Running, Ended
  <2> QED
    BY <1>0, <1>8, <2>1 DEF Teardown, RowsMatchRegistry
<1>9. CASE Crash
  BY <1>9 DEF Crash, RowsMatchRegistry
<1>10. CASE UNCHANGED core
  BY <1>2, <1>10 DEF core
<1>11. CASE UNCHANGED vars
  BY <1>10, <1>11 DEF vars, core
<1> QED
  BY <1>0, <1>1, <1>3, <1>4, <1>5, <1>6, <1>7, <1>8, <1>9, <1>10, <1>11, Steps
     DEF Registers

-----------------------------------------------------------------------------
(* Whose a run's sink is. *)

LEMMA SinkStep == IInv /\ [Next]_vars => SinkOwned'
<1> SUFFICES ASSUME IInv, [Next]_vars PROVE SinkOwned'
  OBVIOUS
<1>0. TypeOK /\ Numbered /\ Holders /\ SinkOwned
      /\ sink \in [Sids -> Conns \cup {NoConn}] /\ live \subseteq Sids
      /\ bound \in [Conns -> Handle \cup {NoHandle}]
  BY Small DEF IInv, TypeOK
<1>1. ASSUME NEW c \in Conns, Connect(c) PROVE SinkOwned'
  <2>1. CASE Running = {}
    BY <1>0, <1>1, <2>1, HandleTypes DEF Connect, registry, SinkOwned
  <2>2. CASE Running # {}
    <3>1. PICK s \in Running : Sweep(c, s)
      BY <1>1, <2>2 DEF Connect
    <3> DEFINE T == Running \ {s}
    <3>2. s \in Sids /\ T \in SUBSET Sids
      BY DEF Running
    <3>3. CASE Attach(c, s, T)
      BY <1>0, <3>2, <3>3, AttachSink
    <3>4. CASE ~Attach(c, s, T)
      <4>1. sink' = Silenced(T) /\ bound' = Unbound(T)
        BY <3>1, <3>4 DEF Sweep
      <4> QED
        BY <1>0, <3>2, <4>1, TornSink
    <3> QED
      BY <3>3, <3>4
  <2> QED
    BY <2>1, <2>2
<1>2. ASSUME NEW c \in Conns, Close(c) PROVE SinkOwned'
  <2> SUFFICES ASSUME NEW d \in Conns, bound'[d].current, bound'[d].owns
               PROVE  sink'[bound'[d].sid] = d
    BY DEF SinkOwned
  <2>1. d # c /\ bound'[d] = bound[d]
    BY <1>0, <1>2, HandleTypes DEF Close
  <2>2. sink[bound[d].sid] = d
    BY <1>0, <2>1 DEF SinkOwned
  <2>3. CASE bound[c].current /\ bound[c].owns
    <3>1. sink[bound[c].sid] = c /\ sink' = [sink EXCEPT ![bound[c].sid] = NoConn]
      BY <1>0, <1>2, <2>3 DEF Close, SinkOwned
    <3> QED
      BY <1>0, <2>1, <2>2, <3>1
  <2>4. CASE ~(bound[c].current /\ bound[c].owns)
    BY <1>2, <2>1, <2>2, <2>4 DEF Close
  <2> QED
    BY <2>3, <2>4
<1>3. ASSUME NEW c \in Conns, Fails(c) \/ DiffDone(c) PROVE SinkOwned'
  BY <1>0, <1>3 DEF Fails, DiffDone, registry, SinkOwned
<1>4. ASSUME NEW c \in Conns, Started(c) PROVE SinkOwned'
  <2>1. made + 1 \in Sids /\ made \in Nat
    BY <1>0, <1>4, MaxSessionsAssumption DEF Started, TypeOK, Sids
  <2>2. \A d \in Conns \ {c} : bound'[d] = bound[d] /\ bound[d].sid <= made
    BY <1>0, <1>4 DEF Started, Numbered
  <2>3. bound'[c] = HandleOf(made + 1) /\ bound'[c].sid = made + 1
    BY <1>0, <1>4, <2>1, HandleTypes DEF Started
  <2>4. sink' = [sink EXCEPT ![made + 1] = c]
    BY <1>4 DEF Started
  <2>5. \A d \in Conns : bound[d].sid # made + 1
    BY <1>0, <2>1, SidTypes DEF Numbered, Sids
  <2> QED
    BY <1>0, <2>1, <2>2, <2>3, <2>4, <2>5 DEF SinkOwned
<1>5. ASSUME NEW c \in Conns, Resumed(c) \/ Reopened(c) PROVE SinkOwned'
  <2> DEFINE R == (live \cup {op[c].active}) \ {op[c].sid, 0}
  <2>1. op[c].sid \in Sids /\ R \in SUBSET Sids /\ {} \in SUBSET Sids
    BY <1>0, <1>5, SidTypes DEF Resumed, Reopened, Holders
  <2>2. Attach(c, op[c].sid, R) \/ Attach(c, op[c].sid, {})
    BY <1>5 DEF Resumed, Reopened, NoSid
  <2> QED
    BY <1>0, <2>1, <2>2, AttachSink
<1>6. ASSUME NEW c \in Conns, NEW k \in Kinds, NEW a \in {"diff", "gate"},
             NEW s \in Sids \cup {0}, Asks(c, k, a, s)
      PROVE  SinkOwned'
  BY <1>0, <1>6 DEF Asks, Claim, registry, SinkOwned
<1>7. ASSUME NEW s \in Sids, NEW o \in Ended, Teardown(s, o) PROVE SinkOwned'
  <2>1. {s} \in SUBSET Sids
    OBVIOUS
  <2> QED
    BY <1>0, <1>7, <2>1, TornSink DEF Teardown
<1>8. CASE Crash
  BY <1>8, HandleTypes DEF Crash, SinkOwned
<1>9. CASE UNCHANGED core
  BY <1>0, <1>9 DEF core, SinkOwned
<1>10. CASE UNCHANGED vars
  BY <1>9, <1>10 DEF vars, core
<1> QED
  BY <1>0, <1>1, <1>2, <1>3, <1>4, <1>5, <1>6, <1>7, <1>8, <1>9, <1>10, Steps
     DEF Registers

-----------------------------------------------------------------------------
(* The handles of live runs, and their nudges. *)

LEMMA OrphanFacts ==
  ASSUME TypeOK, NEW T \in SUBSET Sids
  PROVE  /\ \A q \in Orphans(T) :
              \E k \in clicks : /\ q.id = k.id /\ q.conn = k.conn /\ q.sid = k.sid
                                /\ q = IF k.sid \in T THEN [k EXCEPT !.current = FALSE] ELSE k
         /\ \A q \in Orphans(T) : q.current => q \in clicks /\ q.sid \notin T
BY DEF TypeOK, Orphans, Click

LEMMA AttachCurrent ==
  ASSUME TypeOK, CurrentIsLive,
         NEW c \in Conns, NEW s \in Sids, NEW T \in SUBSET Sids, Attach(c, s, T)
  PROVE  CurrentIsLive'
<1>1. live' = (live \ T) \cup {s} /\ clicks' = Orphans(T)
  BY DEF Attach
<1>2. ASSUME NEW d \in Conns, bound'[d].current PROVE bound'[d].sid \in live'
  <2>1. bound'[d] = IF d = c THEN HandleOf(s)
                    ELSE IF bound[d].sid = s THEN [bound[d] EXCEPT !.owns = FALSE]
                    ELSE Unbound(T)[d]
    BY DEF Attach
  <2>2. CASE d = c
    BY <1>1, <2>1, <2>2, HandleTypes
  <2>3. CASE d # c /\ bound[d].sid = s
    <3>1. bound[d] \in Handle
      BY <2>3, Bindings DEF Sids
    <3> QED
      BY <1>1, <2>1, <2>3, <3>1 DEF Handle
  <2>4. CASE d # c /\ bound[d].sid # s
    <3>1. bound'[d] = Unbound(T)[d]
      BY <2>1, <2>4
    <3>2. bound'[d] = bound[d] /\ bound[d].sid \notin T
      BY <1>2, <3>1, UnboundTypes
    <3> QED
      BY <1>1, <1>2, <3>2 DEF CurrentIsLive
  <2> QED
    BY <2>2, <2>3, <2>4
<1>3. \A q \in clicks' : q.current => q.sid \in live'
  BY <1>1, OrphanFacts DEF CurrentIsLive
<1> QED
  BY <1>2, <1>3 DEF CurrentIsLive

LEMMA TornCurrent ==
  ASSUME TypeOK, CurrentIsLive, NEW T \in SUBSET Sids,
         live' = live \ T, bound' = Unbound(T), clicks' = Orphans(T)
  PROVE  CurrentIsLive'
<1>1. ASSUME NEW d \in Conns, bound'[d].current PROVE bound'[d].sid \in live'
  BY <1>1, UnboundTypes DEF CurrentIsLive
<1>2. \A q \in clicks' : q.current => q.sid \in live'
  BY OrphanFacts DEF CurrentIsLive
<1> QED
  BY <1>1, <1>2 DEF CurrentIsLive

\* Continues of one session that were parked one at a time still are.
LEMMA OrphansApart ==
  ASSUME TypeOK, OneNudge, NEW T \in SUBSET Sids, NEW s \in Sids \ crowded
  PROVE  /\ \A q \in Orphans(T) : q.sid = s => nudged[s] = 0
         /\ \A p, q \in Orphans(T) : p.sid = s /\ q.sid = s => p = q
<1>1. \A q \in Orphans(T) : q.sid = s => nudged[s] = 0
  BY OrphanFacts DEF OneNudge
<1>2. ASSUME NEW p \in Orphans(T), NEW q \in Orphans(T), p.sid = s, q.sid = s
      PROVE  p = q
  <2>1. PICK k \in clicks :
          k.sid = s /\ p = IF k.sid \in T THEN [k EXCEPT !.current = FALSE] ELSE k
    BY <1>2, OrphanFacts
  <2>2. PICK l \in clicks :
          l.sid = s /\ q = IF l.sid \in T THEN [l EXCEPT !.current = FALSE] ELSE l
    BY <1>2, OrphanFacts
  <2>3. k = l
    BY <2>1, <2>2 DEF OneNudge
  <2> QED
    BY <2>1, <2>2, <2>3
<1> QED
  BY <1>1, <1>2

LEMMA AttachNudge ==
  ASSUME TypeOK, OneNudge, crowded' = crowded,
         NEW c \in Conns, NEW s \in Sids, NEW T \in SUBSET Sids, Attach(c, s, T)
  PROVE  OneNudge'
<1>1. /\ live' = (live \ T) \cup {s} /\ clicks' = Orphans(T)
      /\ awaiting' = IF s \in live THEN awaiting ELSE [awaiting EXCEPT ![s] = TRUE]
      /\ nudged' = [x \in Sids |-> IF x \in T THEN 0 ELSE nudged[x]]
  BY DEF Attach, Unnudged
<1>2. \A x \in Sids : nudged'[x] \in {0, nudged[x]} /\ nudged[x] \in Nat
  BY <1>1 DEF TypeOK
<1>3. \A x \in Sids \ live' : nudged'[x] = 0
  BY <1>1 DEF OneNudge
<1>4. ASSUME NEW x \in Sids \ crowded
      PROVE  /\ nudged'[x] <= 1
             /\ awaiting'[x] => nudged'[x] = 0
  <2>1. nudged[x] <= 1
    BY DEF OneNudge
  <2>2. awaiting'[x] => awaiting[x] \/ x \notin live
    BY <1>1 DEF TypeOK
  <2> QED
    BY <1>2, <2>1, <2>2 DEF OneNudge
<1>5. ASSUME NEW x \in Sids \ crowded
      PROVE  /\ \A k \in clicks' : k.sid = x => nudged'[x] = 0
             /\ \A k, q \in clicks' : k.sid = x /\ q.sid = x => k = q
  BY <1>1, <1>2, OrphansApart
<1> QED
  BY <1>3, <1>4, <1>5 DEF OneNudge

LEMMA TornNudge ==
  ASSUME TypeOK, OneNudge, crowded' = crowded, awaiting' = awaiting,
         NEW T \in SUBSET Sids, live' = live \ T, clicks' = Orphans(T),
         nudged' = Unnudged(T)
  PROVE  OneNudge'
<1>2. \A x \in Sids : nudged'[x] = IF x \in T THEN 0 ELSE nudged[x]
  BY DEF Unnudged
<1>3. \A x \in Sids \ live' : nudged'[x] = 0
  BY <1>2 DEF OneNudge
<1>4. ASSUME NEW x \in Sids \ crowded
      PROVE  /\ nudged'[x] <= 1
             /\ awaiting'[x] => nudged'[x] = 0
  BY <1>2 DEF OneNudge
<1>5. ASSUME NEW x \in Sids \ crowded
      PROVE  /\ \A k \in clicks' : k.sid = x => nudged'[x] = 0
             /\ \A k, q \in clicks' : k.sid = x /\ q.sid = x => k = q
  BY <1>2, OrphansApart
<1> QED
  BY <1>3, <1>4, <1>5 DEF OneNudge

\* What the nudges are counted by.
rest == <<live, awaiting, bound, clicks, nudged, crowded>>

LEMMA NudgeStep == IInv /\ [Next]_vars => CurrentIsLive' /\ OneNudge'
<1> SUFFICES ASSUME IInv, [Next]_vars PROVE CurrentIsLive' /\ OneNudge'
  OBVIOUS
<1>0. TypeOK /\ Numbered /\ Holders /\ CurrentIsLive /\ OneNudge
      /\ bound \in [Conns -> Handle \cup {NoHandle}] /\ clicks \subseteq Click
      /\ awaiting \in [Sids -> BOOLEAN] /\ nudged \in [Sids -> Nat]
      /\ live \subseteq Sids
  BY Small DEF IInv, TypeOK
<1>1. ASSUME UNCHANGED rest PROVE CurrentIsLive' /\ OneNudge'
  BY <1>0, <1>1 DEF rest, CurrentIsLive, OneNudge
<1>2. ASSUME NEW c \in Conns, Connect(c) PROVE CurrentIsLive' /\ OneNudge'
  <2>1. CASE Running = {}
    <3>1. CurrentIsLive'
      BY <1>0, <1>2, <2>1, HandleTypes DEF Connect, registry, CurrentIsLive
    <3>2. OneNudge'
      BY <1>0, <1>2, <2>1 DEF Connect, registry, OneNudge
    <3> QED
      BY <3>1, <3>2
  <2>2. CASE Running # {}
    <3>1. PICK s \in Running : Sweep(c, s)
      BY <1>2, <2>2 DEF Connect
    <3> DEFINE T == Running \ {s}
    <3>2. s \in Sids /\ T \in SUBSET Sids /\ crowded' = crowded
      BY <1>2 DEF Running, Connect
    <3>3. CASE Attach(c, s, T)
      BY <1>0, <3>2, <3>3, AttachCurrent, AttachNudge
    <3>4. CASE ~Attach(c, s, T)
      <4>1. /\ live' = live \ T /\ bound' = Unbound(T) /\ clicks' = Orphans(T)
            /\ nudged' = Unnudged(T) /\ awaiting' = awaiting
        BY <3>1, <3>4 DEF Sweep
      <4> QED
        BY <1>0, <3>2, <4>1, TornCurrent, TornNudge
    <3> QED
      BY <3>3, <3>4
  <2> QED
    BY <2>1, <2>2
<1>3. ASSUME NEW c \in Conns, Close(c) PROVE CurrentIsLive' /\ OneNudge'
  <2>1. /\ bound' = [bound EXCEPT ![c] = NoHandle]
        /\ clicks' \subseteq clicks /\ live' = live /\ awaiting' = awaiting
        /\ nudged' = nudged /\ crowded' = crowded
    BY <1>3 DEF Close, rows, history
  <2>2. CurrentIsLive'
    BY <1>0, <2>1, HandleTypes DEF CurrentIsLive
  <2> QED
    BY <1>0, <2>1, <2>2 DEF OneNudge
<1>4. ASSUME NEW c \in Conns, Fails(c) \/ DiffDone(c) PROVE CurrentIsLive' /\ OneNudge'
  BY <1>1, <1>4 DEF Fails, DiffDone, rest, rows, registry, history
<1>5. ASSUME NEW c \in Conns, NEW k \in {"start", "resume", "reopen"},
             NEW a \in {"diff", "gate"}, NEW s \in Sids \cup {0}, Claim(c, k, a, s)
      PROVE  CurrentIsLive' /\ OneNudge'
  BY <1>1, <1>5 DEF Claim, rest, rows, registry, history
<1>6. ASSUME NEW c \in Conns, Started(c) PROVE CurrentIsLive' /\ OneNudge'
  <2>1. /\ live' = live \cup {made + 1} /\ made + 1 \in Sids
        /\ bound' = [bound EXCEPT ![c] = HandleOf(made + 1)]
        /\ UNCHANGED <<awaiting, clicks, nudged, crowded>>
    BY <1>0, <1>6, MaxSessionsAssumption DEF Started, Sids, TypeOK
  <2>2. CurrentIsLive'
    BY <1>0, <2>1, HandleTypes DEF CurrentIsLive
  <2> QED
    BY <1>0, <2>1, <2>2 DEF OneNudge
<1>7. ASSUME NEW c \in Conns, Resumed(c) \/ Reopened(c)
      PROVE  CurrentIsLive' /\ OneNudge'
  <2> DEFINE R == (live \cup {op[c].active}) \ {op[c].sid, 0}
  <2>1. /\ op[c].sid \in Sids /\ R \in SUBSET Sids /\ {} \in SUBSET Sids
        /\ crowded' = crowded
    BY <1>0, <1>7, SidTypes DEF Resumed, Reopened, Holders
  <2>2. Attach(c, op[c].sid, R) \/ Attach(c, op[c].sid, {})
    BY <1>7 DEF Resumed, Reopened, NoSid
  <2> QED
    BY <1>0, <2>1, <2>2, AttachCurrent, AttachNudge
<1>8. ASSUME NEW s \in Sids, NEW o \in Ended, Teardown(s, o)
      PROVE  CurrentIsLive' /\ OneNudge'
  <2>1. {s} \in SUBSET Sids
    OBVIOUS
  <2> QED
    BY <1>0, <1>8, <2>1, TornCurrent, TornNudge DEF Teardown
<1>9. ASSUME NEW c \in Conns, AskContinue(c) PROVE CurrentIsLive' /\ OneNudge'
  <2>1. PICK i \in 1..MaxClicks :
          clicks' = clicks \cup {[id |-> i, conn |-> c, sid |-> bound[c].sid,
                                 current |-> bound[c].current]}
    BY <1>9 DEF AskContinue
  <2>2. PICK n : n.sid = bound[c].sid /\ n.current = bound[c].current
                 /\ clicks' = clicks \cup {n}
    BY <2>1
  <2>3. /\ UNCHANGED <<live, awaiting, bound, nudged>>
        /\ awaiting[n.sid]
        /\ crowded \subseteq crowded'
        /\ \A k \in clicks : k.sid = n.sid => k.sid \in crowded'
    BY <1>9, <2>2 DEF AskContinue, rows, registry
  <2>4. CurrentIsLive'
    BY <1>0, <2>2, <2>3 DEF CurrentIsLive
  <2> QED
    BY <1>0, <2>2, <2>3, <2>4 DEF OneNudge
<1>10. ASSUME NEW k \in clicks,
              ContinueDone(k) \/ ContinueCancelled(k) \/ ContinueFails(k)
       PROVE  CurrentIsLive' /\ OneNudge'
  <2>1. k.sid \in Sids
    BY <1>0 DEF Click
  <2>2. clicks' = clicks \ {k} /\ UNCHANGED <<live, bound, crowded>>
    BY <1>10 DEF ContinueDone, ContinueCancelled, ContinueFails, registry, history
  <2>3. CurrentIsLive'
    BY <1>0, <2>2 DEF CurrentIsLive
  <2>4. CASE ContinueDone(k)
    <3>1. /\ awaiting' = [awaiting EXCEPT ![k.sid] = FALSE]
          /\ nudged' = IF k.current THEN [nudged EXCEPT ![k.sid] = @ + 1] ELSE nudged
      BY <2>4 DEF ContinueDone
    <3>2. \A x \in Sids : x # k.sid => nudged'[x] = nudged[x] /\ awaiting'[x] = awaiting[x]
      BY <1>0, <2>1, <3>1
    <3>3. ~awaiting'[k.sid]
      BY <1>0, <2>1, <3>1
    <3>4. \A x \in Sids \ live' : nudged'[x] = 0
      BY <1>0, <2>2, <3>1 DEF CurrentIsLive, OneNudge
    <3>5. k.sid \notin crowded => nudged'[k.sid] <= 1
      BY <1>0, <2>1, <3>1 DEF OneNudge
    <3>6. \A x \in Sids \ crowded : /\ nudged'[x] <= 1
                                    /\ awaiting'[x] => nudged'[x] = 0
      BY <1>0, <3>2, <3>3, <3>5 DEF OneNudge
    <3>7. ASSUME NEW x \in Sids \ crowded, NEW q \in clicks', q.sid = x
          PROVE  nudged'[x] = 0
      <4>1. q \in clicks /\ q # k
        BY <2>2
      <4>2. x # k.sid /\ nudged[x] = 0
        BY <1>0, <3>7, <4>1 DEF OneNudge
      <4> QED
        BY <3>2, <4>2
    <3>8. \A x \in Sids \ crowded : \A p, q \in clicks' : p.sid = x /\ q.sid = x => p = q
      BY <1>0, <2>2 DEF OneNudge
    <3> QED
      BY <2>2, <2>3, <3>4, <3>6, <3>7, <3>8 DEF OneNudge
  <2>5. CASE ContinueCancelled(k)
    BY <1>0, <2>2, <2>3, <2>5 DEF ContinueCancelled, rows, history, OneNudge
  <2>6. CASE ContinueFails(k)
    <3>1. awaiting' = [awaiting EXCEPT ![k.sid] = TRUE] /\ nudged' = nudged
      BY <2>6 DEF ContinueFails, history
    <3>2. k.sid \notin crowded => nudged[k.sid] = 0
      BY <1>0, <2>1 DEF OneNudge
    <3> QED
      BY <1>0, <2>1, <2>2, <2>3, <3>1, <3>2 DEF OneNudge
  <2> QED
    BY <1>10, <2>4, <2>5, <2>6
<1>11. ASSUME NEW c \in Conns, RetryWorker(c) PROVE CurrentIsLive' /\ OneNudge'
  <2>1. /\ awaiting' = [awaiting EXCEPT ![bound[c].sid] = FALSE]
        /\ UNCHANGED <<live, bound, clicks, nudged, crowded>>
    BY <1>11 DEF RetryWorker, registry, windows, history
  <2>2. \A x \in Sids : awaiting'[x] => awaiting[x]
    BY <1>0, <2>1
  <2> QED
    BY <1>0, <2>1, <2>2 DEF CurrentIsLive, OneNudge
<1>12. CASE Crash
  BY <1>12, HandleTypes DEF Crash, CurrentIsLive, OneNudge
<1>13. CASE UNCHANGED vars
  BY <1>1, <1>13 DEF vars, rest
<1>14. ASSUME NEW c \in Conns, AskStart(c) PROVE CurrentIsLive' /\ OneNudge'
  BY <1>5, <1>14 DEF AskStart, NoSid
<1>15. ASSUME NEW c \in Conns, NEW s \in Sids, AskResume(c, s) \/ AskReopen(c, s)
       PROVE  CurrentIsLive' /\ OneNudge'
  BY <1>5, <1>15 DEF AskResume, AskReopen
<1>16. ASSUME NEW s \in Sids, RunEnds(s) PROVE CurrentIsLive' /\ OneNudge'
  BY <1>8, <1>16 DEF RunEnds, Ended
<1>17. ASSUME NEW c \in Conns, Stop(c) PROVE CurrentIsLive' /\ OneNudge'
  BY <1>0, <1>8, <1>17, SidTypes DEF Stop, Ended
<1> QED
  BY <1>2, <1>3, <1>4, <1>6, <1>7, <1>9, <1>10, <1>11, <1>12, <1>13, <1>14, <1>15,
     <1>16, <1>17 DEF Next

-----------------------------------------------------------------------------
(* The theorems. *)

LEMMA NextIInv == IInv /\ [Next]_vars => IInv'
BY TypeStep, NumberStep, HolderStep, QuietStep, RowStep, SinkStep, NudgeStep DEF IInv

LEMMA Inductive == Spec => []IInv
BY InitIInv, NextIInv, PTL DEF Spec

(* Rows, registry, windows and parked requests stay in their types; a      *)
(* registered session is one that was started.                             *)
THEOREM Typing == Spec => []TypeOK
BY Inductive, PTL DEF IInv

(* One session at a time, for any number of windows, unless a reopen went   *)
(* on after its window had closed (claimSessionStart, claimSessionReopen).  *)
THEOREM SingleSession == Spec => []LiveIsSingle
BY Inductive, PTL DEF IInv

(* The rows that say running are the sessions that run, as soon as anybody  *)
(* is there to see them (attemptResumeMultiAgent, teardown).                *)
THEOREM RowsAreTrue == Spec => []RowsMatchRegistry
BY Inductive, PTL DEF IInv

(* No window that closes, and none that had the run before, takes a run     *)
(* from the window that has it (detach with the sink epoch).                *)
THEOREM WindowKeepsItsRun == Spec => []NewestWindowOwnsSink
<1>1. IInv => NewestWindowOwnsSink
  BY DEF IInv, TypeOK, SinkOwned, NewestWindowOwnsSink
<1> QED
  BY <1>1, Inductive, PTL

(* A rebuilt run is nudged once, for any windows and any number of parked   *)
(* Continues, unless it had two of them parked at one time                  *)
(* (executeContinueMultiAgent).                                             *)
THEOREM NudgeIsDeliveredOnce == Spec => []NudgedOnce
<1>1. IInv => NudgedOnce
  BY Small DEF IInv, TypeOK, OneNudge, NudgedOnce
<1> QED
  BY <1>1, Inductive, PTL

(* A claim is held by a connected window with a request under way, and by   *)
(* no other (session_registry.ts, releaseSessionStart).                     *)
THEOREM NoClaimIsLeftBehind == Spec => []ClaimsHaveOwners
<1>1. IInv => ClaimsHaveOwners
  BY DEF IInv, TypeOK, Holders, ClaimsHaveOwners
<1> QED
  BY <1>1, Inductive, PTL
=============================================================================
