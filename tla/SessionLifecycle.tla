-------------------------- MODULE SessionLifecycle --------------------------
(***************************************************************************)
(* Which multi-agent sessions run in this process and which browser window *)
(* each reports to: the registry and its start claims                      *)
(* (server/src/bus/session_registry.ts), the sweep at connect and the      *)
(* targeted resume (bus/resume.ts), the rebuild after a restart            *)
(* (bus/reconstruct.ts), and the handlers of ws/server.ts for start, stop, *)
(* resume, reopen, the recovery Continue, connect and close.               *)
(*                                                                         *)
(* A step is what runs between two awaits that leave the microtask queue.  *)
(* There are three: the spawn gates, which wait for the operator and are   *)
(* abandoned when the window closes; the `git status' of a reopen, which   *)
(* is not; and the life of a run.  A gate with nothing to ask is one that  *)
(* is answered at once.  Session ids are numbered in the order the         *)
(* sessions were started, which is the order the sweep looks at.           *)
(***************************************************************************)
EXTENDS Naturals

CONSTANTS
  Conns,       \* the windows; a name may be used again once nothing has it
  MaxSessions, \* bound: sessions ever started
  MaxClicks,   \* bound: recovery Continues parked at one time
  MaxNudges    \* bound: nudges delivered to one rebuilt session

ASSUME MaxSessionsAssumption == MaxSessions \in Nat
ASSUME MaxClicksAssumption == MaxClicks \in Nat
ASSUME MaxNudgesAssumption == MaxNudges \in Nat

VARIABLES
  made,      \* sessions started so far
  status,    \* multi_agent_sessions.status, by session
  awaiting,  \* multi_agent_sessions.awaiting_continue
  live,      \* session_registry: the sessions with a handle
  sink,      \* session -> the window its router reports to, NoConn for NOOP_SINK
  open,      \* the windows that are connected
  bound,     \* window -> conn.multiAgent, and whether its sink epoch is current
  claims,    \* startClaims: the windows whose request holds one
  op,        \* window -> its start, resume or reopen in progress
  clicks,    \* the recovery Continues parked on a spawn gate
  nudged,    \* history: session -> nudges delivered since it was rebuilt
  orphaned,  \* history: a reopen went on after its window had closed
  crowded    \* history: the sessions that had two Continues parked at one time

rows == <<made, status, awaiting>>
registry == <<live, sink>>
windows == <<open, bound, claims, op, clicks>>
history == <<nudged, orphaned, crowded>>
vars == <<made, status, awaiting, live, sink, open, bound, claims, op,
          clicks, nudged, orphaned, crowded>>

Sids == 1..MaxSessions
NoSid == 0
NoConn == "none"
Ended == {"stopped", "completed", "crashed"}

\* A handle is current while the router it belongs to is the registered one.
\* Its window owns the router's sink while the epoch it was given is the
\* router's sinkEpoch, that is, until another window is attached.
Handle == [sid : Sids, current : BOOLEAN, owns : BOOLEAN]
NoHandle == [sid |-> NoSid, current |-> FALSE, owns |-> FALSE]
HandleOf(s) == [sid |-> s, current |-> TRUE, owns |-> TRUE]
Stale(h) == [h EXCEPT !.current = FALSE, !.owns = FALSE]
Op == [kind : {"start", "resume", "reopen"}, at : {"diff", "gate"},
       sid : Sids \cup {NoSid}, active : Sids \cup {NoSid}]
NoOp == [kind |-> "none", at |-> "none", sid |-> NoSid, active |-> NoSid]
Click == [id : 1..MaxClicks, conn : Conns, sid : Sids, current : BOOLEAN]

TypeOK ==
  /\ made \in 0..MaxSessions
  /\ status \in [Sids -> {"none", "running"} \cup Ended]
  /\ awaiting \in [Sids -> BOOLEAN]
  /\ live \subseteq 1..made
  /\ sink \in [Sids -> Conns \cup {NoConn}]
  /\ open \subseteq Conns
  /\ bound \in [Conns -> Handle \cup {NoHandle}]
  /\ claims \subseteq Conns
  /\ op \in [Conns -> Op \cup {NoOp}]
  /\ clicks \subseteq Click
  /\ nudged \in [Sids -> Nat]
  /\ orphaned \in BOOLEAN
  /\ crowded \subseteq Sids

Init ==
  /\ made = 0
  /\ status = [s \in Sids |-> "none"]
  /\ awaiting = [s \in Sids |-> FALSE]
  /\ live = {}
  /\ sink = [s \in Sids |-> NoConn]
  /\ open = {}
  /\ bound = [c \in Conns |-> NoHandle]
  /\ claims = {}
  /\ op = [c \in Conns |-> NoOp]
  /\ clicks = {}
  /\ nudged = [s \in Sids |-> 0]
  /\ orphaned = FALSE
  /\ crowded = {}

-----------------------------------------------------------------------------
(* What a step does to several sessions at once: some are torn down (T),    *)
(* one may be attached to a window.  Teardown unregisters the session and   *)
(* tells its sink, which unbinds the window of that sink and no other.      *)

Unbound(T) ==
  [c \in Conns |->
     IF bound[c].sid \notin T THEN bound[c]
     ELSE IF bound[c].sid \in live /\ sink[bound[c].sid] = c THEN NoHandle
     ELSE Stale(bound[c])]

Orphans(T) ==
  {IF k.sid \in T THEN [k EXCEPT !.current = FALSE] ELSE k : k \in clicks}

Silenced(T) == [s \in Sids |-> IF s \in T THEN NoConn ELSE sink[s]]
Unnudged(T) == [s \in Sids |-> IF s \in T THEN 0 ELSE nudged[s]]

\* Window c gets session s, from the registry or rebuilt; another window that
\* has its handle owns its sink no more.  The sessions T are torn down.
Attach(c, s, T) ==
  /\ awaiting' = IF s \in live THEN awaiting ELSE [awaiting EXCEPT ![s] = TRUE]
  /\ nudged' = Unnudged(T)
  /\ live' = (live \ T) \cup {s}
  /\ sink' = [Silenced(T) EXCEPT ![s] = c]
  /\ bound' = [d \in Conns |->
                 IF d = c THEN HandleOf(s)
                 ELSE IF bound[d].sid = s THEN [bound[d] EXCEPT !.owns = FALSE]
                 ELSE Unbound(T)[d]]
  /\ clicks' = Orphans(T)

Teardown(s, outcome) ==
  /\ status' = [status EXCEPT ![s] = outcome]
  /\ live' = live \ {s}
  /\ sink' = Silenced({s})
  /\ bound' = Unbound({s})
  /\ clicks' = Orphans({s})
  /\ nudged' = Unnudged({s})
  /\ UNCHANGED <<made, awaiting, open, claims, op, orphaned, crowded>>

-----------------------------------------------------------------------------
(* Windows come and go.                                                     *)

Running == {s \in Sids : status[s] = "running"}
Newest(s) == s \in Running /\ \A t \in Running : t <= s

\* Mutant: a session that could not be rebuilt keeps its running row.
SweepKeepsRow(c, s) ==
  LET T == Running \ {s}
  IN /\ status' = [x \in Sids |-> IF x \in T THEN "crashed" ELSE status[x]]
     /\ \/ Attach(c, s, T)
        \/ /\ s \notin live
           /\ live' = live \ T
           /\ sink' = Silenced(T)
           /\ bound' = Unbound(T)
           /\ clicks' = Orphans(T)
           /\ nudged' = Unnudged(T)
           /\ UNCHANGED awaiting

\* The sweep at connect keeps the newest running row and crashes the others.
\* If the process has no handle for it, it is rebuilt, or marked crashed.
Sweep(c, s) ==
  LET T == Running \ {s}
      Crashed(X) == [x \in Sids |-> IF x \in X THEN "crashed" ELSE status[x]]
  IN \/ /\ Attach(c, s, T)
        /\ status' = Crashed(T)
     \/ /\ s \notin live
        /\ status' = Crashed(Running)
        /\ live' = live \ T
        /\ sink' = Silenced(T)
        /\ bound' = Unbound(T)
        /\ clicks' = Orphans(T)
        /\ nudged' = Unnudged(T)
        /\ UNCHANGED awaiting

Connect(c) ==
  /\ c \notin open
  /\ op[c] = NoOp
  /\ \A s \in live : sink[s] # c
  /\ open' = open \cup {c}
  /\ IF Running = {}
       THEN /\ bound' = [bound EXCEPT ![c] = NoHandle]
            /\ UNCHANGED <<status, awaiting, registry, clicks, nudged>>
       ELSE \E s \in Running : Newest(s) /\ Sweep(c, s)
  /\ UNCHANGED <<made, claims, op, orphaned, crowded>>

\* Mutant: the closing window silences the run whoever owns its sink.
CloseSilences(c) ==
  /\ c \in open
  /\ open' = open \ {c}
  /\ clicks' = {k \in clicks : k.conn # c}
  /\ claims' = claims \ {c}
  /\ op' = [op EXCEPT ![c] = IF @.at = "gate" THEN NoOp ELSE @]
  /\ sink' = IF bound[c].current
               THEN [sink EXCEPT ![bound[c].sid] = NoConn] ELSE sink
  /\ bound' = [bound EXCEPT ![c] = NoHandle]
  /\ UNCHANGED <<rows, live, history>>

\* The socket closes: what it has parked on a gate is abandoned, its claim
\* released, and the session's sink silenced if this window still owns it.
\* A reopen that waits for `git status' goes on.
Close(c) ==
  /\ c \in open
  /\ open' = open \ {c}
  /\ clicks' = {k \in clicks : k.conn # c}
  /\ claims' = claims \ {c}
  /\ op' = [op EXCEPT ![c] = IF @.at = "gate" THEN NoOp ELSE @]
  /\ sink' = IF bound[c].current /\ bound[c].owns
               THEN [sink EXCEPT ![bound[c].sid] = NoConn] ELSE sink
  /\ bound' = [bound EXCEPT ![c] = NoHandle]
  /\ UNCHANGED <<rows, live, history>>

\* The process dies: the rows stay.
Crash ==
  /\ live' = {} /\ open' = {} /\ claims' = {} /\ clicks' = {}
  /\ bound' = [c \in Conns |-> NoHandle]
  /\ op' = [c \in Conns |-> NoOp]
  /\ sink' = [s \in Sids |-> NoConn]
  /\ nudged' = [s \in Sids |-> 0]
  /\ crowded' = {}
  /\ UNCHANGED <<rows, orphaned>>

-----------------------------------------------------------------------------
(* Start, resume, reopen.  The claim is the process-wide lock of the three. *)

Claim(c, kind, at, s) ==
  /\ c \in open
  /\ claims = {}
  /\ claims' = {c}
  /\ op' = [op EXCEPT ![c] = [kind |-> kind, at |-> at, sid |-> s,
                              active |-> bound[c].sid]]
  /\ UNCHANGED <<rows, registry, open, bound, clicks, history>>

AskStart(c) ==
  /\ bound[c] = NoHandle
  /\ live = {}
  /\ made < MaxSessions
  /\ Claim(c, "start", "gate", NoSid)

AskResume(c, s) ==
  /\ live = {}
  /\ status[s] \in Ended
  /\ Claim(c, "resume", "gate", s)

\* A live incumbent is what a reopen expects: it will be displaced.
AskReopen(c, s) ==
  /\ status[s] \in Ended
  /\ Claim(c, "reopen", "diff", s)

\* The request is over, whatever came of it.
Finished(c) ==
  /\ op' = [op EXCEPT ![c] = NoOp]
  /\ claims' = claims \ {c}

\* Refused by the operator, or by a check, or failed to rebuild.
Fails(c) ==
  /\ op[c] # NoOp
  /\ Finished(c)
  /\ UNCHANGED <<rows, registry, open, bound, clicks, history>>

\* The diff is there.  The row is looked at again and the gates are asked; on
\* a window that has closed there is nobody to answer: see Reopened.
DiffDone(c) ==
  /\ op[c].at = "diff" /\ c \in open
  /\ status[op[c].sid] # "running"
  /\ op' = [op EXCEPT ![c].at = "gate"]
  /\ UNCHANGED <<rows, registry, open, bound, claims, clicks, history>>

\* Mutant: the session is registered without its row.
StartedUnrecorded(c) ==
  LET s == made + 1
  IN /\ op[c].kind = "start"
     /\ made < MaxSessions
     /\ live' = live \cup {s}
     /\ sink' = [sink EXCEPT ![s] = c]
     /\ bound' = [bound EXCEPT ![c] = HandleOf(s)]
     /\ Finished(c)
     /\ UNCHANGED <<rows, open, clicks, nudged, orphaned, crowded>>

Started(c) ==
  LET s == made + 1
  IN /\ op[c].kind = "start"
     /\ made < MaxSessions
     /\ made' = s
     /\ status' = [status EXCEPT ![s] = "running"]
     /\ live' = live \cup {s}
     /\ sink' = [sink EXCEPT ![s] = c]
     /\ bound' = [bound EXCEPT ![c] = HandleOf(s)]
     /\ Finished(c)
     /\ UNCHANGED <<awaiting, open, clicks, nudged, orphaned, crowded>>

Resumed(c) ==
  LET s == op[c].sid
  IN /\ op[c].kind = "resume"
     /\ status' = [status EXCEPT ![s] = "running"]
     /\ Attach(c, s, {})
     /\ Finished(c)
     /\ UNCHANGED <<made, open, orphaned, crowded>>

\* Mutant: only the run of the window itself is displaced.
ReopenedBeside(c) ==
  LET s == op[c].sid
      displaced == {op[c].active} \ {s, NoSid}
  IN /\ op[c].kind = "reopen"
     /\ \/ op[c].at = "gate"
        \/ c \notin open /\ status[s] # "running"
     /\ status' = [x \in Sids |-> CASE x = s -> "running"
                                    [] x \in displaced -> "crashed"
                                    [] OTHER -> status[x]]
     /\ Attach(c, s, displaced)
     /\ Finished(c)
     /\ orphaned' = (orphaned \/ c \notin open)
     /\ UNCHANGED <<made, open, crowded>>

\* Whatever else is live is stopped as crashed, and so is the row of the run
\* the window had when it asked, live or not.  On a closed window with nothing
\* to ask the operator, this happens as soon as the diff is there.
Reopened(c) ==
  LET s == op[c].sid
      displaced == (live \cup {op[c].active}) \ {s, NoSid}
  IN /\ op[c].kind = "reopen"
     /\ \/ op[c].at = "gate"
        \/ c \notin open /\ status[s] # "running"
     /\ status' = [x \in Sids |-> CASE x = s -> "running"
                                    [] x \in displaced -> "crashed"
                                    [] OTHER -> status[x]]
     /\ Attach(c, s, displaced)
     /\ Finished(c)
     /\ orphaned' = (orphaned \/ c \notin open)
     /\ UNCHANGED <<made, open, crowded>>

-----------------------------------------------------------------------------
(* A run ends, by itself or because a window that has its handle says so.   *)
(* Stop on the handle of a router that is over does nothing.                *)

RunEnds(s) ==
  /\ s \in live
  /\ Teardown(s, "completed") \/ Teardown(s, "crashed")

Stop(c) ==
  /\ c \in open
  /\ bound[c].current
  /\ Teardown(bound[c].sid, "stopped")

-----------------------------------------------------------------------------
(* The recovery Continue: the flag is read, the gates are awaited, the flag *)
(* is cleared and the nudge delivered.                                      *)

AskContinue(c) ==
  LET s == bound[c].sid
  IN /\ c \in open
     /\ bound[c] # NoHandle
     /\ awaiting[s]
     /\ \E i \in 1..MaxClicks :
          /\ \A k \in clicks : k.id # i
          /\ clicks' = clicks \cup {[id |-> i, conn |-> c, sid |-> s,
                                     current |-> bound[c].current]}
     /\ crowded' = crowded \cup {k.sid : k \in {q \in clicks : q.sid = s}}
     /\ UNCHANGED <<rows, registry, open, bound, claims, op, nudged, orphaned>>

\* Mutant: the flag is left set for the next click.
ContinueKeepsFlag(k) ==
  /\ clicks' = clicks \ {k}
  /\ nudged[k.sid] < MaxNudges
  /\ nudged' = IF k.current THEN [nudged EXCEPT ![k.sid] = @ + 1] ELSE nudged
  /\ UNCHANGED <<rows, registry, open, bound, claims, op, orphaned, crowded>>

\* A router that is over swallows the prompt without a word.
ContinueDone(k) ==
  /\ clicks' = clicks \ {k}
  /\ awaiting' = [awaiting EXCEPT ![k.sid] = FALSE]
  /\ nudged[k.sid] < MaxNudges
  /\ nudged' = IF k.current THEN [nudged EXCEPT ![k.sid] = @ + 1] ELSE nudged
  /\ UNCHANGED <<made, status, registry, open, bound, claims, op, orphaned, crowded>>

\* The operator declines.
ContinueCancelled(k) ==
  /\ clicks' = clicks \ {k}
  /\ UNCHANGED <<rows, registry, open, bound, claims, op, history>>

\* The delivery throws: the flag that was cleared for it is set again.
ContinueFails(k) ==
  /\ clicks' = clicks \ {k}
  /\ awaiting' = [awaiting EXCEPT ![k.sid] = TRUE]
  /\ UNCHANGED <<made, status, registry, open, bound, claims, op, history>>

\* Retrying the worker whose turn failed takes the run out of its waiting.
RetryWorker(c) ==
  /\ c \in open
  /\ bound[c] # NoHandle
  /\ awaiting' = [awaiting EXCEPT ![bound[c].sid] = FALSE]
  /\ UNCHANGED <<made, status, registry, windows, history>>

-----------------------------------------------------------------------------
Next ==
  \/ \E c \in Conns :
       \/ Connect(c) \/ Close(c)
       \/ AskStart(c) \/ DiffDone(c) \/ Fails(c)
       \/ Started(c) \/ Resumed(c) \/ Reopened(c)
       \/ Stop(c) \/ AskContinue(c) \/ RetryWorker(c)
       \/ \E s \in Sids : AskResume(c, s) \/ AskReopen(c, s)
  \/ \E s \in Sids : RunEnds(s)
  \/ \E k \in clicks : ContinueDone(k) \/ ContinueCancelled(k) \/ ContinueFails(k)
  \/ Crash

Spec == Init /\ [][Next]_vars

-----------------------------------------------------------------------------
(* One session at a time in the whole process: no interleaving of windows   *)
(* that start, resume, reopen, connect and close registers a second one     *)
(* (claimSessionStart, claimSessionReopen).  It is allowed here once a      *)
(* reopen has gone on without its window: OneLiveSession.                   *)
LiveIsSingle == ~orphaned => \A s, t \in live : s = t

(* The lock of start, resume and reopen is never left behind: there is one  *)
(* at most, its holder is a connected window, and that window has a request *)
(* under way - so a request that failed, or whose window has closed, does   *)
(* not keep every later one out (releaseSessionStart on every way out).     *)
ClaimsHaveOwners ==
  /\ \A c, d \in claims : c = d
  /\ \A c \in claims : c \in open /\ op[c] # NoOp
  /\ \A c \in open : op[c] # NoOp => c \in claims

(* The rows and the registry agree: a live session's row says running, and  *)
(* while a window is connected a row that says running has a live session - *)
(* so no run is shown that nobody drives, and none works that is shown as   *)
(* over (attemptResumeMultiAgent, teardown).                                *)
RowsMatchRegistry ==
  /\ live \subseteq Running
  /\ open # {} => Running \subseteq live

(* A closing window silences nothing but itself: the window that attached   *)
(* to a run last hears of it as long as it is connected, whatever becomes   *)
(* of windows that had the run before (rebind, detach with the sink epoch). *)
NewestWindowOwnsSink ==
  \A c \in open : bound[c].current /\ bound[c].owns => sink[bound[c].sid] = c

(* What the comments on the claims say (ws/server.ts, session_registry.ts): *)
(* there are never two live sessions.  A reopen whose window has closed can  *)
(* make a second one.                                                        *)
OneLiveSession == \A s, t \in live : s = t

(* The nudge that puts a rebuilt run back to work is delivered once: the    *)
(* flag is set when the run is rebuilt and cleared by the delivery,          *)
(* whatever retries, failures, windows and rebuilds come in between          *)
(* (executeContinueMultiAgent).  That holds for runs whose Continues were    *)
(* never parked two at a time; two that are both find the flag set.          *)
NudgedOnce == \A s \in live \ crowded : nudged[s] <= 1
=============================================================================
