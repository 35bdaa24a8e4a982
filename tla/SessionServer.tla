--------------------------- MODULE SessionServer ----------------------------
(***************************************************************************)
(* The service side of the link: the life of a `rana run`                  *)
(* (cmd/rana/platform_linux.go, service/lifecycle.go) and its RanadServer  *)
(* (service/ranad_server.go).  Each run is a process of its own with its   *)
(* own listener, but all bind the same socket path and append to the same  *)
(* ledger.  The main goroutine of a run broadcasts to the connections      *)
(* registered when it took the snapshot; each connection is served by a    *)
(* HandleConn goroutine.                                                   *)
(***************************************************************************)
EXTENDS Wire

CONSTANTS PeerAnswers,   \* does HandleConn answer the Hello?  (the code: FALSE)
          Overlap,       \* may a run start before the previous one is gone?
          MaxKills       \* bound: runs killed

ASSUME ServerAssumption ==
    PeerAnswers \in BOOLEAN /\ Overlap \in BOOLEAN /\ MaxKills \in Nat

VARIABLES
    run,          \* where the run of each session is
    path,         \* whose listener the socket path leads to
    listening,    \* runs whose listener is open
    active,       \* s.active: sessions announced and not ended
    registered,   \* s.conns, of all runs
    handler,      \* the HandleConn goroutine of each connection
    tell,         \* connections the broadcast of a run has still to send to
    ledger,       \* the events appended, in order
    kills

serverVars == <<run, path, listening, active, registered, handler, tell, ledger, kills>>

\* started: the child runs, but outside the session's cgroup; child: inside;
\* killed: the run is dead, its child is not.
RunState == {"idle", "up", "announcing", "started", "child", "sealed", "ending",
             "leaving", "gone", "killed"}

HandlerState == {"none", "hello", "replay", "loop"}

ConnsOf(s) == {k \in registered : conn[k].svc = s}

ServerInit ==
    /\ run = [s \in Session |-> "idle"]
    /\ path = None
    /\ listening = {} /\ active = {} /\ registered = {}
    /\ handler = [k \in Conn |-> "none"]
    /\ tell = [s \in Session |-> {}]
    /\ ledger = <<>>
    /\ kills = 0

----------------------------------------------------------------------------
(* The main goroutine of `rana run` *)

\* NewService, listenRanadSocket, EmitSessionStart, CreateScope.  A failed
\* listen may have removed the socket already; the run goes on without it.
Start(s) ==
    /\ run[s] = "idle"
    /\ Overlap \/ \A o \in Session : run[o] \in {"idle", "gone"}
    /\ run' = [run EXCEPT ![s] = "up"]
    /\ \/ path' = s /\ listening' = listening \cup {s}
       \/ path' \in {path, None} /\ UNCHANGED listening
    /\ UNCHANGED <<conn, active, registered, handler, tell, ledger, kills>>

\* RegisterSessionCgid: the session is active before the snapshot is taken.
BroadcastSessionStart(s) ==
    /\ run[s] = "up"
    /\ run' = [run EXCEPT ![s] = "announcing"]
    /\ active' = active \cup {s}
    /\ tell' = [tell EXCEPT ![s] = ConnsOf(s)]
    /\ UNCHANGED <<conn, path, listening, registered, handler, ledger, kills>>

\* One send of the broadcast in progress, best-effort.
SendOne(s, k) ==
    /\ k \in tell[s]
    /\ conn' = WithDown(k, IF run[s] = "announcing" THEN "start" ELSE "end")
    /\ tell' = [tell EXCEPT ![s] = @ \ {k}]
    /\ UNCHANGED <<run, path, listening, active, registered, handler, ledger, kills>>

\* The child is started only when the broadcast has returned ...
StartChild(s) ==
    /\ run[s] = "announcing" /\ tell[s] = {}
    /\ run' = [run EXCEPT ![s] = "started"]
    /\ UNCHANGED <<conn, path, listening, active, registered, handler, tell, ledger, kills>>

\* ... and moved into the session's cgroup once it runs; when that fails it
\* stays outside.
AddProcess(s) ==
    /\ run[s] = "started"
    /\ run' = [run EXCEPT ![s] = "child"]
    /\ UNCHANGED <<conn, path, listening, active, registered, handler, tell, ledger, kills>>

\* EmitSessionStart, CreateScope or the child's start fails.
Abort(s) ==
    /\ run[s] = "up" \/ (run[s] = "announcing" /\ tell[s] = {})
    /\ run' = [run EXCEPT ![s] = "leaving"]
    /\ UNCHANGED <<conn, path, listening, active, registered, handler, tell, ledger, kills>>

\* The child exits; EmitSessionEnd appends session.end and seals, or returns
\* an error and the run leaves without telling anybody.
EndSession(s) ==
    /\ run[s] \in {"started", "child"}
    /\ \E after \in {"sealed", "leaving"} : run' = [run EXCEPT ![s] = after]
    /\ UNCHANGED <<conn, path, listening, active, registered, handler, tell, ledger, kills>>

BroadcastSessionEnd(s) ==
    /\ run[s] = "sealed"
    /\ run' = [run EXCEPT ![s] = "ending"]
    /\ active' = active \ {s}
    /\ tell' = [tell EXCEPT ![s] = ConnsOf(s)]
    /\ UNCHANGED <<conn, path, listening, registered, handler, ledger, kills>>

\* A process ends: its ends of the connections close, what it had not read is
\* lost with it.
ProcessEnds(s) ==
    /\ conn' = [k \in Conn |-> IF conn[k].svc = s
                               THEN [conn[k] EXCEPT !.svcOpen = FALSE, !.up = <<>>]
                               ELSE conn[k]]
    /\ handler' = [k \in Conn |-> IF conn[k].svc = s THEN "none" ELSE handler[k]]
    /\ registered' = registered \ ConnsOf(s)
    /\ listening' = listening \ {s}
    /\ active' = active \ {s}
    /\ tell' = [tell EXCEPT ![s] = {}]
    /\ UNCHANGED ledger

\* The deferred calls: the listener is closed and the socket path removed,
\* whosever socket it is by now.
Exit(s) ==
    /\ run[s] = "leaving" \/ (run[s] = "ending" /\ tell[s] = {})
    /\ run' = [run EXCEPT ![s] = "gone"]
    /\ path' = IF s \in listening THEN None ELSE path
    /\ ProcessEnds(s)
    /\ UNCHANGED kills

\* Killed: nothing deferred runs, and a child inside the cgroup stays there;
\* nobody answers at a socket left behind.
Killed(s) ==
    /\ kills < MaxKills /\ kills' = kills + 1
    /\ run[s] \in {"up", "announcing", "started", "child", "sealed", "ending"}
    /\ run' = [run EXCEPT ![s] = IF @ = "child" THEN "killed" ELSE "gone"]
    /\ path' = IF path = s THEN None ELSE path
    /\ ProcessEnds(s)

----------------------------------------------------------------------------
(* HandleConn *)

\* mutant: a ranad that connects later is told nothing.
NoReplay(k) == FALSE

\* What register replays: the session, if it is active.
Replays(k) == conn[k].svc \in active

\* The peer's Hello is read and the connection registered: the connection is
\* added and the active sessions are read under one lock.  HandleConn writes
\* no Hello of its own, although the peer waits for one (PeerAnswers).
Register(k) ==
    /\ handler[k] = "hello" /\ conn[k].up # <<>>
    /\ conn' = [conn EXCEPT ![k].up = Tail(@),
                            ![k].down = IF PeerAnswers THEN Append(@, "hello") ELSE @]
    /\ registered' = registered \cup {k}
    /\ handler' = [handler EXCEPT ![k] = IF Replays(k) THEN "replay" ELSE "loop"]
    /\ UNCHANGED <<run, path, listening, active, tell, ledger, kills>>

\* The replay is sent outside the lock.
SendReplay(k) ==
    /\ handler[k] = "replay"
    /\ conn' = WithDown(k, "start")
    /\ handler' = [handler EXCEPT ![k] = "loop"]
    /\ UNCHANGED <<run, path, listening, active, registered, tell, ledger, kills>>

\* schema.Validate: the daemon_restart gap names no session.
Validate(f) == f.kind # "restart"

\* appendEv: an event that is rejected is reported and the loop goes on.
ReadFrame(k) ==
    /\ handler[k] = "loop" /\ conn[k].up # <<>>
    /\ LET f == Head(conn[k].up)
       IN  ledger' = IF Validate(f) THEN Append(ledger, f) ELSE ledger
    /\ conn' = [conn EXCEPT ![k].up = Tail(@)]
    /\ UNCHANGED <<run, path, listening, active, registered, handler, tell, kills>>

\* mutant: a frame that is rejected ends the loop.
RejectedOrNone(k) ==
    IF conn[k].up = <<>> THEN ~conn[k].ranadOpen ELSE Head(conn[k].up).kind = "restart"

\* Nothing is left to read, and nothing will come.
NoFrame(k) == conn[k].up = <<>> /\ ~conn[k].ranadOpen

\* ReadFrame fails: the peer closed and everything it wrote has been read.
HandleConnReturns(k) ==
    /\ handler[k] \in {"hello", "loop"}
    /\ NoFrame(k)
    /\ conn' = [conn EXCEPT ![k].svcOpen = FALSE]
    /\ handler' = [handler EXCEPT ![k] = "none"]
    /\ registered' = registered \ {k}
    /\ UNCHANGED <<run, path, listening, active, tell, ledger, kills>>

=============================================================================
