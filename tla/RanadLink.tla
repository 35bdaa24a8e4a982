------------------------------ MODULE RanadLink ------------------------------
(***************************************************************************)
(* ranad and the runs it records, linked by connections that come and go:  *)
(* SessionServer and Pump side by side.                                    *)
(***************************************************************************)
EXTENDS SessionServer, Pump

vars == <<conn, serverVars, pumpVars>>

Init == conn = [k \in Conn |-> NoConn] /\ ServerInit /\ PumpInit

----------------------------------------------------------------------------

\* The steps of a run's main goroutine, one after another, and of its
\* HandleConn goroutines.
Main(s) == BroadcastSessionStart(s) \/ StartChild(s) \/ BroadcastSessionEnd(s)

Announce(s) ==
    \/ Main(s)
    \/ \E k \in Conn : SendOne(s, k)

Serve(k) == Register(k) \/ SendReplay(k) \/ ReadFrame(k) \/ HandleConnReturns(k)

\* A run's process ends; what its connections still held is lost.
RunEnds(s) ==
    /\ Exit(s) \/ Killed(s)
    /\ lost' = lost \cup Because("unread",
                  UNION {UnreadOn(k) : k \in {j \in Conn : conn[j].svc = s}})
    /\ UNCHANGED <<daemon, cur, pump, shared, bounds, emitted, issued, reissued>>

Leave(s) == run[s] \in {"ending", "leaving"} /\ RunEnds(s)

\* Nothing holds the connection any more, not even a broadcast.
Free(k) == Unused(k) /\ \A s \in Session : k \notin tell[s]

\* The socket path leads to run s: the dial makes a connection, which
\* acceptRanad hands to a HandleConn goroutine.
Connect(s) ==
    /\ path = s
    /\ \E k \in Conn : Free(k) /\ (\A j \in Conn : Free(j) => k <= j) /\ Dial(s, k)
    /\ handler' = [handler EXCEPT ![cur'] = "hello"]
    /\ UNCHANGED <<run, path, listening, active, registered, tell, ledger, kills>>

DaemonStep == HelloArrives \/ HelloFails \/ ServeConnectionReturns

InboundStep(k) == ArmSession(k) \/ BindCgid(k) \/ QueueSessionEnd(k) \/ InboundReturns(k)

OutboundStep(k) ==
    \/ SkipUnknown(k) \/ ForwardRecord(k) \/ ShedRecord(k)
    \/ DrainReturns(k) \/ FlushGaps(k) \/ DrainEndedSessions(k)

\* The child's processes outlive a killed run.
Work(s) == \/ run[s] = "started" /\ Emit(s, FALSE)
           \/ run[s] \in {"child", "killed"} /\ Emit(s, TRUE)

ServerStep ==
    \/ \E s \in Session : Start(s) \/ AddProcess(s) \/ Abort(s) \/ EndSession(s) \/ Announce(s)
    \/ \E k \in Conn : Serve(k)

RanadStep ==
    \/ \E s \in Session : Work(s)
    \/ DaemonStep
    \/ \E k \in Conn : InboundStep(k) \/ InboundBreaks(k) \/ OutboundStep(k)
    \/ Crash

Next ==
    \/ ServerStep /\ UNCHANGED pumpVars
    \/ RanadStep /\ UNCHANGED serverVars
    \/ \E s \in Session : Connect(s) \/ RunEnds(s)

Spec == Init /\ [][Next]_vars

\* Goroutines run and processes are scheduled; daemonLoop dials for ever.
\* That a child exits, a run is killed, a connection breaks or ranad dies is
\* never forced.
Fairness ==
    /\ \A s \in Session :
          /\ WF_vars(Main(s) /\ UNCHANGED pumpVars)
          /\ WF_vars(\E k \in Conn : SendOne(s, k) /\ UNCHANGED pumpVars)
          /\ WF_vars(Leave(s))
          /\ WF_vars(Connect(s))
    /\ WF_vars(DaemonStep /\ UNCHANGED serverVars)
    /\ \A k \in Conn :
          /\ WF_vars(Serve(k) /\ UNCHANGED pumpVars)
          /\ WF_vars(InboundStep(k) /\ UNCHANGED serverVars)
          /\ WF_vars(OutboundStep(k) /\ UNCHANGED serverVars)

FairSpec == Spec /\ Fairness

----------------------------------------------------------------------------
(* Properties *)

\* Every variable has its type.
TypeOK ==
    /\ conn \in [Conn -> Connection]
    /\ run \in [Session -> RunState]
    /\ path \in Session \cup {None}
    /\ listening \subseteq Session /\ active \subseteq Session
    /\ registered \subseteq Conn
    /\ handler \in [Conn -> HandlerState]
    /\ tell \in [Session -> SUBSET Conn]
    /\ ledger \in Seq(UpFrame \ {Hello})
    /\ daemon \in {"dial", "hello", "serve"}
    /\ cur \in Conn \cup {0} /\ (cur = 0 => daemon = "dial")
    /\ pump \in [Conn -> PumpState]
    /\ armed \subseteq Session /\ bound \subseteq Session
    /\ nextIdx \in [Session -> Nat] /\ issued \in [Session -> Nat]
    /\ ring \in Seq(Record) /\ shed \subseteq Record
    /\ emitted \in [Session -> 0 .. MaxRecords]
    /\ lost \subseteq Session \X (1 .. MaxRecords) \X Why
    /\ reissued \subseteq Session
    /\ breaks \in Nat /\ crashes \in Nat /\ kills \in Nat

Emitted == {r \in Record : r[2] <= emitted[r[1]]}

\* The records a frame carries or counts, and those of a sequence of frames.
Held(f) == IF f.kind = "ev" THEN {f.rec} ELSE IF f.kind = "gap" THEN f.lost ELSE {}
Carried(q) == UNION {Held(q[i]) : i \in DOMAIN q}

Gone == {<<l[1], l[2]>> : l \in lost}

\* Where a record may be: in the ring buffer, among the counts, in a frame on
\* its way, in the ledger, or gone.
Place == {<<"ring", 0>>, <<"shed", 0>>, <<"ledger", 0>>, <<"gone", 0>>} \cup {<<"conn", k>> : k \in Conn}

At(p) == CASE p[1] = "ring"   -> {ring[i] : i \in DOMAIN ring}
           [] p[1] = "shed"   -> shed
           [] p[1] = "conn"   -> Carried(conn[p[2]].up)
           [] p[1] = "ledger" -> Carried(ledger)
           [] p[1] = "gone"   -> Gone

\* No two frames of a sequence hold the same record.
HeldOnce(q) == \A i, j \in DOMAIN q : i # j => Held(q[i]) \cap Held(q[j]) = {}

\* No place has a record twice.
OnceEach ==
    /\ \A i, j \in DOMAIN ring : i # j => ring[i] # ring[j]
    /\ HeldOnce(ledger) /\ \A k \in Conn : HeldOnce(conn[k].up)
    /\ \A l, m \in lost : <<l[1], l[2]>> = <<m[1], m[2]>> => l = m

\* However many Pumps drain the one ring buffer, and whichever of them is
\* left over from an earlier connection: a record is in exactly one place, so
\* none is appended twice, appended and counted in a gap, or counted twice.
OnePlace ==
    /\ OnceEach
    /\ \A p, q \in Place : p # q => At(p) \cap At(q) = {}
    /\ UNION {At(p) : p \in Place} = Emitted

Over(s) == run[s] \in {"leaving", "ending", "gone"}

\* Nothing is lost between the ring buffer and the ledger unless a connection
\* broke, a process died or a run is over: the only other losses are those
\* before a session is armed and bound, and a full ring buffer.
QuietLinkDelivers ==
    (breaks = 0 /\ crashes = 0 /\ kills = 0) =>
        \A l \in lost : l[3] \in {"send", "count", "unread"} => \E s \in Session : Over(s)

\* enricher.go, EndSession, and CONTRACTS, internal/collector: the index of a
\* session's events is never restarted while the session runs and ranad lives.
NeverReissued == crashes = 0 => \A s \in reissued : run[s] \notin {"child", "killed"}

\* Types, and the one counter of a session through all its connections.
LinkInv == TypeOK /\ NeverReissued

Running(s) == run[s] \in {"started", "child"}

\* While a connection to the run of s is served and its child runs, s comes to
\* be armed and bound and stays so, whether ranad connected before the session
\* was announced or after, and whatever Pumps of earlier connections, breaks
\* and deaths have left behind.
ServedIsArmed ==
    \A k \in Conn, s \in Session :
        <>[](daemon = "serve" /\ cur = k /\ conn[k].svc = s /\ Running(s))
            => <>[](s \in armed \cap bound)

\* A SessionStart of s is still to be acted on: HandleConn is about to replay
\* it, it is on a wire, or an inbound goroutine has armed and not yet bound.
StartPending(s) ==
    \E k \in Conn :
        /\ conn[k].svc = s
        /\ \/ handler[k] = "replay"
           \/ \E i \in DOMAIN conn[k].down : conn[k].down[i] = "start"
           \/ pump[k].inbound = "bind"

\* An end that reached a Pump which saw the start disarms and unbinds the
\* session for good, unless the goroutine that would act returns first, or a
\* SessionStart was still to be acted on.  (register replays outside the lock,
\* so a start may be sent behind the end and arm the ended session again; a
\* Pump that reads the end first does not know the cgid an earlier Pump armed.)
EndIsFinal ==
    \A k \in Conn, s \in Session :
        (pump[k].ended /\ pump[k].cgid /\ conn[k].svc = s /\ ~StartPending(s))
            ~> ([](s \notin armed \cup bound) \/ pump[k].outbound = "none")

\* ranad arms what is served and runs, and disarms what it was told has ended.
ArmedAsTold == ServedIsArmed /\ EndIsFinal

Settled(r) == r \in Carried(ledger) \/ \E why \in Why : <<r[1], r[2], why>> \in lost

\* While a link lasts everything taken from the kernel is settled, again and
\* again: appended, counted in a gap that was appended, or lost.
LinkSettles ==
    <>[](daemon = "serve") => []<>(\A r \in Emitted : Settled(r))

----------------------------------------------------------------------------
(* What documents and comments say *)

\* main_linux.go, daemonLoop: each connection performs the handshake and is
\* then handed to the Pump.
LinkServes == \A s \in Session : (Running(s) /\ path = s)
                                     ~> (daemon = "serve" \/ ~Running(s))

\* LIMITS, section 8: ranad releases what it holds of a session when the
\* service reports that it ended.
EndedIsReleased ==
    \A k \in Conn, s \in Session :
        (pump[k].ended /\ conn[k].svc = s) ~> (s \notin armed \cup bound)

=============================================================================
