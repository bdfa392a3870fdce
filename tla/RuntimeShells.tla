---------------------------- MODULE RuntimeShells ----------------------------
(***************************************************************************)
(* The console's shells in deployed runtimes (interactive-api/             *)
(* runtime_shell.py and its routes in console/server.py).  Each session    *)
(* has a thread of its own, streams read its buffer from the server's      *)
(* loop, and governance may stop it.  An output is its position in the     *)
(* session's buffer.  Bounds: MaxOutputs outputs of a session, one shell   *)
(* per session name.                                                       *)
(***************************************************************************)
EXTENDS Integers, Sequences, SequencesExt

CONSTANTS RtSessions, RtViewers, MaxAttempts, MaxOutputs,
          StartSize, Measured   \* the size a session is opened with; those a browser measures

ASSUME RuntimeShellsAssumption == MaxAttempts \in Nat \ {0} /\ StartSize \notin Measured

VARIABLES
    rt,        \* the sessions
    registry,  \* the sessions that are listed
    viewer,    \* the streams
    stopping   \* the sessions that governance has stopped and not yet closed

rtVars == <<rt, registry, viewer, stopping>>

NoRt == [at |-> "none", alive |-> FALSE, attempts |-> 0, size |-> StartSize,
         sized |-> FALSE, launched |-> 0, out |-> 0,
         connected |-> FALSE,   \* its thread is inside `async with stack`
         halted |-> FALSE]      \* its loop has been told to stop
NoViewer == [at |-> "off", of |-> CHOOSE r \in RtSessions : TRUE,
             seen |-> 0, from |-> 0, queue |-> <<>>, shown |-> <<>>]

RtInit ==
    /\ rt = [r \in RtSessions |-> NoRt]
    /\ registry = {} /\ stopping = {}
    /\ viewer = [v \in RtViewers |-> NoViewer]

RtTypeOK ==
    /\ \A r \in RtSessions :
         /\ rt[r].at \in {"none", "started", "opening", "sizing", "running", "ending", "over"}
         /\ rt[r].attempts \in 0..MaxAttempts /\ rt[r].out \in Nat
         /\ rt[r].alive \in BOOLEAN /\ rt[r].connected \in BOOLEAN /\ rt[r].halted \in BOOLEAN
         /\ rt[r].launched \in Measured \cup {StartSize, 0}
    /\ registry \subseteq RtSessions /\ stopping \subseteq RtSessions
    /\ \A v \in RtViewers : viewer[v].at \in {"off", "looked", "follows"}

-----------------------------------------------------------------------------
\* The session's thread

\* It is in its loop.
AtWork == {"opening", "sizing", "running"}

\* Mutant: an output reaches only the streams that have nothing queued.
QueuedOne(r, n) ==
    [v \in RtViewers |->
       IF viewer[v].at = "follows" /\ viewer[v].of = r /\ viewer[v].queue = <<>>
       THEN [viewer[v] EXCEPT !.queue = <<n>>] ELSE viewer[v]]
\* An output joins the buffer and the queue of every stream that subscribed.
Queued(r, n) ==
    [v \in RtViewers |->
       IF viewer[v].at = "follows" /\ viewer[v].of = r
       THEN [viewer[v] EXCEPT !.queue = Append(@, n)] ELSE viewer[v]]
Emits(r, session) ==
    /\ rt' = [rt EXCEPT ![r] = [session EXCEPT !.out = @ + 1]]
    /\ viewer' = Queued(r, rt[r].out + 1)
    /\ UNCHANGED <<registry, stopping>>

RtOpens(r) ==
    /\ rt[r].at = "none"
    /\ rt' = [rt EXCEPT ![r] = [NoRt EXCEPT !.at = "started", !.alive = TRUE]]
    /\ registry' = registry \cup {r}
    /\ UNCHANGED <<viewer, stopping>>

LoopStarts(r) ==
    /\ rt[r].at = "started"
    /\ rt' = [rt EXCEPT ![r].at = "opening"]
    /\ UNCHANGED <<registry, viewer, stopping>>

\* The handshake failed: try again, or give up with the last attempt.
AttemptFails(r) ==
    /\ rt[r].at = "opening" /\ rt[r].attempts < MaxAttempts
    /\ Emits(r, IF rt[r].attempts + 1 < MaxAttempts THEN [rt[r] EXCEPT !.attempts = @ + 1]
                ELSE [rt[r] EXCEPT !.attempts = @ + 1, !.at = "over", !.alive = FALSE])

\* The shell is open; the size the session was opened with is its size.
ShellOpens(r) ==
    /\ rt[r].at = "opening"
    /\ rt' = [rt EXCEPT ![r].at = "sizing", ![r].size = StartSize, ![r].connected = TRUE]
    /\ UNCHANGED <<registry, viewer, stopping>>

\* The browser's size came, or its time is up: the CLI starts at the size there is.
Launches(r) ==
    /\ rt[r].at = "sizing"
    /\ rt' = [rt EXCEPT ![r].at = "running", ![r].launched = rt[r].size]
    /\ UNCHANGED <<registry, viewer, stopping>>

Outputs(r) ==
    /\ rt[r].at = "running" /\ rt[r].out < MaxOutputs
    /\ Emits(r, rt[r])

\* Any other error leaves the shell's context and ends the thread with a notice.
ThreadFails(r) ==
    /\ rt[r].at \in AtWork
    /\ Emits(r, [rt[r] EXCEPT !.at = "over", !.alive = FALSE, !.connected = FALSE])

\* The loop stops as it was told to: run_until_complete raises, which is the error
\* of the notice, and _connect stays where it is, inside the shell's context.
LoopHalts(r) ==
    /\ rt[r].at \in AtWork /\ rt[r].halted
    /\ Emits(r, [rt[r] EXCEPT !.at = "over", !.alive = FALSE])

\* The remote side closes: the context is left, dead first, the notice after.
RemoteEnds(r) ==
    /\ rt[r].at = "running"
    /\ rt' = [rt EXCEPT ![r].at = "ending", ![r].alive = FALSE, ![r].connected = FALSE]
    /\ UNCHANGED <<registry, viewer, stopping>>
SaysEnded(r) == rt[r].at = "ending" /\ Emits(r, [rt[r] EXCEPT !.at = "over"])

-----------------------------------------------------------------------------
\* The console's requests

Resize(r, size) ==
    /\ r \in registry
    /\ rt' = [rt EXCEPT ![r].size = size, ![r].sized = TRUE]
    /\ UNCHANGED <<registry, viewer, stopping>>

\* Dead; a loop that runs is told to stop, one that does not run yet is not.
RtKilled(r) ==
    /\ rt' = [rt EXCEPT ![r].alive = FALSE, ![r].halted = @ \/ rt[r].at \in AtWork]
    /\ UNCHANGED viewer

Close(r) ==
    /\ r \in registry
    /\ registry' = registry \ {r}
    /\ RtKilled(r)
    /\ UNCHANGED stopping

\* Governance: AWS first, and only then the console's own session.
StopCalls(r) ==
    /\ r \in registry
    /\ stopping' = stopping \cup {r}
    /\ UNCHANGED <<rt, registry, viewer>>
StopCloses(r) ==
    /\ r \in stopping
    /\ stopping' = stopping \ {r}
    /\ IF r \notin registry THEN UNCHANGED <<rt, registry, viewer>>
       ELSE registry' = registry \ {r} /\ RtKilled(r)

LiveRows == {r \in registry : rt[r].alive}

-----------------------------------------------------------------------------
\* Streams

Looks(v, r) ==
    [NoViewer EXCEPT !.at = "looked", !.of = r, !.seen = rt[r].out,
                     !.shown = [i \in 1..rt[r].out |-> i]]
StreamBegins(v, r) ==
    /\ viewer[v].at = "off" /\ r \in registry
    /\ viewer' = [viewer EXCEPT ![v] = Looks(v, r)]
    /\ UNCHANGED <<rt, registry, stopping>>

\* The buffer has gone to the browser; outputs since are not in the queue.
Subscribes(v) ==
    /\ viewer[v].at = "looked"
    /\ viewer' = [viewer EXCEPT ![v].at = "follows", ![v].from = rt[viewer[v].of].out]
    /\ UNCHANGED <<rt, registry, stopping>>

StreamYields(v) ==
    /\ viewer[v].at = "follows" /\ viewer[v].queue # <<>>
    /\ viewer' = [viewer EXCEPT ![v].shown = Append(@, Head(viewer[v].queue)), ![v].queue = Tail(@)]
    /\ UNCHANGED <<rt, registry, stopping>>

\* The session is dead, or the browser is gone: what is queued is not shown.
StreamEnds(v) ==
    /\ viewer[v].at = "follows"
    /\ viewer' = [viewer EXCEPT ![v].at = "off", ![v].queue = <<>>]
    /\ UNCHANGED <<rt, registry, stopping>>

RtNext ==
    \/ \E r \in RtSessions :
         \/ RtOpens(r) \/ LoopStarts(r) \/ AttemptFails(r) \/ ShellOpens(r) \/ Launches(r)
         \/ Outputs(r) \/ ThreadFails(r) \/ LoopHalts(r) \/ RemoteEnds(r) \/ SaysEnded(r)
         \/ Close(r) \/ StopCalls(r) \/ StopCloses(r)
         \/ \E size \in Measured : Resize(r, size)
         \/ \E v \in RtViewers : StreamBegins(v, r)
    \/ \E v \in RtViewers : Subscribes(v) \/ StreamYields(v) \/ StreamEnds(v)

RtSpec == RtInit /\ [][RtNext]_rtVars

-----------------------------------------------------------------------------
(***************************************************************************)
(* A browser that follows a runtime shell has been shown, in order and     *)
(* once, what was in the buffer when it looked and everything since it     *)
(* subscribed; only what came in between is missing.                       *)
(***************************************************************************)
StreamHasOneGap ==
    \A v \in RtViewers : viewer[v].at = "follows" =>
      viewer[v].shown \o viewer[v].queue =
        [i \in 1..viewer[v].seen |-> i]
          \o [i \in 1..(rt[viewer[v].of].out - viewer[v].from) |-> viewer[v].from + i]

(***************************************************************************)
(* The same without the gap: "Both see the same screen" (agent_send,       *)
(* runtime_shell.py 446-450).                                              *)
(***************************************************************************)
StreamIsWhole ==
    \A v \in RtViewers : viewer[v].at = "follows" =>
      viewer[v].shown \o viewer[v].queue = [i \in 1..rt[viewer[v].of].out |-> i]

(***************************************************************************)
(* "Tear the PTY down for good: mark it dead and stop its event loop so    *)
(* the `async for` in `_connect` exits and the WebSocket closes" (close):  *)
(* a thread that is over has left its shell.                               *)
(***************************************************************************)
OverIsDisconnected == \A r \in RtSessions : rt[r].at = "over" => ~rt[r].connected

(***************************************************************************)
(* "the human closing a tab truly ends the PTY" (close_runtime_session): a *)
(* shell that is open belongs to a tab, or its thread has been told to     *)
(* stop.                                                                   *)
(***************************************************************************)
ClosedEnds == \A r \in RtSessions : rt[r].connected /\ ~rt[r].halted => r \in registry

(***************************************************************************)
(* "A resize that arrives BEFORE the CLI launches sets the width the       *)
(* banner paints at" (runtime_shell.py 289-290).                           *)
(***************************************************************************)
MeasuredSizeIsUsed ==
    [][\A r \in RtSessions :
         rt[r].at = "sizing" /\ rt'[r].at = "running" /\ rt[r].sized
           => rt'[r].launched # StartSize]_rtVars
==============================================================================
