-------------------------------- MODULE Pump --------------------------------
(***************************************************************************)
(* ranad: the daemon's connect cycle (cmd/ranad/main_linux.go), one Pump   *)
(* per connection (cmd/ranad/pump.go), and what all Pumps share: the       *)
(* kernel's filter map and ring buffer, the enricher, the governor.        *)
(*                                                                         *)
(* serveConnection starts an inbound and an outbound goroutine and returns *)
(* when the first of them does; the other one is not stopped, and runs on  *)
(* until it meets an error of its own.                                     *)
(*                                                                         *)
(* A session has one cgroup, whose id stands for it: cgroup ids are not    *)
(* reused in the model.                                                    *)
(***************************************************************************)
EXTENDS Wire

CONSTANTS Sheddable,     \* the numbers of the records of a sheddable class
          RingSize,      \* records the ring buffer holds
          MaxBreaks,     \* bound: connections that break
          MaxCrashes     \* bound: ranad deaths

ASSUME PumpAssumption ==
    /\ Sheddable \subseteq 1 .. MaxRecords /\ RingSize \in Nat
    /\ MaxBreaks \in Nat /\ MaxCrashes \in Nat

VARIABLES
    daemon,      \* daemonLoop
    cur,         \* the connection daemonLoop is at
    pump,        \* the Pump of each connection
    armed,       \* the kernel's filter map
    bound,       \* e.cgidToSession
    nextIdx,     \* e.nextIdx
    ring,        \* the ring buffer
    shed,        \* g.shedState: the records shed since the counts were last returned
    breaks, crashes,
    \* history
    emitted,     \* records the session's processes have caused
    lost,        \* records gone, with the reason
    issued,      \* indices issued for a session: below this
    reissued     \* sessions for which an index was issued twice

kernelVars == <<armed, ring, emitted>>
shared     == <<armed, bound, nextIdx, ring, shed>>
bounds     == <<breaks, crashes>>
history    == <<emitted, lost, issued, reissued>>
pumpVars   == <<daemon, cur, pump, shared, bounds, history>>

\* The goroutines of a Pump, whether it remembers the session's cgid
\* (sessionCgid) and whether the session's end waits for the outbound
\* goroutine (endedSessions): a connection speaks of its svc's session only.
PumpState == [inbound : {"none", "recv", "bind"},
              outbound : {"none", "drain", "gaps", "ended"},
              cgid : BOOLEAN, ended : BOOLEAN]

NoPump == [inbound |-> "none", outbound |-> "none", cgid |-> FALSE, ended |-> FALSE]

NewPump == [NoPump EXCEPT !.inbound = "recv", !.outbound = "drain"]

Why == {"outside", "unarmed", "ringfull", "unknown", "send", "count", "unread", "crash"}

Because(why, R) == {<<r[1], r[2], why>> : r \in R}

PumpInit ==
    /\ daemon = "dial" /\ cur = 0
    /\ pump = [k \in Conn |-> NoPump]
    /\ armed = {} /\ bound = {} /\ ring = <<>> /\ shed = {}
    /\ nextIdx = [s \in Session |-> 0]
    /\ breaks = 0 /\ crashes = 0
    /\ emitted = [s \in Session |-> 0]
    /\ lost = {} /\ reissued = {}
    /\ issued = [s \in Session |-> 0]

----------------------------------------------------------------------------
(* The kernel side *)

\* A process of session s, inside its cgroup or not, does something that is
\* to be recorded.
Emit(s, inside) ==
    /\ emitted[s] < MaxRecords
    /\ emitted' = [emitted EXCEPT ![s] = @ + 1]
    /\ LET r    == <<s, emitted[s] + 1>>
           full == Len(ring) = RingSize
       IN  \/ /\ inside /\ s \in armed /\ ~full
              /\ ring' = Append(ring, r)
              /\ UNCHANGED lost
           \/ \E why \in Why :
                 /\ \/ why = "outside" /\ ~inside
                    \/ why = "unarmed" /\ inside /\ s \notin armed
                    \/ why = "ringfull" /\ inside /\ s \in armed /\ full
                 /\ lost' = lost \cup Because(why, {r})
                 /\ UNCHANGED ring
    /\ UNCHANGED <<conn, daemon, cur, pump, armed, bound, nextIdx, shed, bounds, issued, reissued>>

----------------------------------------------------------------------------
(* daemonLoop and serveConnection *)

\* Both ends are closed, and the goroutines have returned.
Unused(k) ==
    ~conn[k].svcOpen /\ ~conn[k].ranadOpen
    /\ pump[k].inbound = "none" /\ pump[k].outbound = "none"

\* dialSVC reaches the listener of run s, over connection k; serveConnection
\* writes its Hello.
Dial(s, k) ==
    /\ daemon = "dial" /\ Unused(k)
    /\ conn' = [conn EXCEPT ![k] = [svc |-> s, svcOpen |-> TRUE, ranadOpen |-> TRUE,
                                    up |-> <<Hello>>, down |-> <<>>]]
    /\ pump' = [pump EXCEPT ![k] = NoPump]
    /\ cur' = k
    /\ daemon' = "hello"
    /\ UNCHANGED <<shared, bounds, history>>

\* The peer's Hello arrives: a Pump is made, the reconnect gap is sent, and
\* the two goroutines start.
HelloArrives ==
    /\ daemon = "hello"
    /\ conn[cur].down # <<>> /\ Head(conn[cur].down) = "hello"
    /\ conn[cur].svcOpen
    /\ conn' = [conn EXCEPT ![cur].down = Tail(@), ![cur].up = Append(@, [kind |-> "restart"])]
    /\ pump' = [pump EXCEPT ![cur] = NewPump]
    /\ daemon' = "serve"
    /\ UNCHANGED <<cur, shared, bounds, history>>

\* Another frame arrives in its place, or the peer closed: back to dialling.
HelloFails ==
    /\ daemon = "hello"
    /\ \/ conn[cur].down # <<>> /\ Head(conn[cur].down) # "hello"
       \/ ~conn[cur].svcOpen
    /\ conn' = [conn EXCEPT ![cur].ranadOpen = FALSE, ![cur].down = <<>>]
    /\ daemon' = "dial"
    /\ UNCHANGED <<cur, pump, shared, bounds, history>>

\* A goroutine of the current Pump has returned: the connection is closed,
\* the other goroutine is left to itself.
ServeConnectionReturns ==
    /\ daemon = "serve"
    /\ pump[cur].inbound = "none" \/ pump[cur].outbound = "none"
    /\ conn' = [conn EXCEPT ![cur].ranadOpen = FALSE, ![cur].down = <<>>]
    /\ daemon' = "dial"
    /\ UNCHANGED <<cur, pump, shared, bounds, history>>

----------------------------------------------------------------------------
(* The inbound goroutine: PumpInbound *)

Inbound(k, f) ==
    /\ pump[k].inbound = "recv" /\ conn[k].ranadOpen
    /\ conn[k].down # <<>> /\ Head(conn[k].down) = f
    /\ conn' = [conn EXCEPT ![k].down = Tail(@)]

\* SessionStart: the cgid is remembered and armed in the kernel ...
ArmSession(k) ==
    /\ Inbound(k, "start")
    /\ pump' = [pump EXCEPT ![k].cgid = TRUE, ![k].inbound = "bind"]
    /\ armed' = armed \cup {conn[k].svc}
    /\ UNCHANGED <<daemon, cur, bound, nextIdx, ring, shed, bounds, history>>

\* ... and only then bound in the enricher.
BindCgid(k) ==
    /\ pump[k].inbound = "bind"
    /\ pump' = [pump EXCEPT ![k].inbound = "recv"]
    /\ bound' = bound \cup {conn[k].svc}
    /\ UNCHANGED <<conn, daemon, cur, armed, nextIdx, ring, shed, bounds, history>>

\* SessionEnd: left to the outbound goroutine.
QueueSessionEnd(k) ==
    /\ Inbound(k, "end")
    /\ pump' = [pump EXCEPT ![k].ended = TRUE]
    /\ UNCHANGED <<daemon, cur, shared, bounds, history>>

\* Recv fails: one end of the connection is closed.
InboundReturns(k) ==
    /\ pump[k].inbound = "recv"
    /\ ~conn[k].ranadOpen \/ (~conn[k].svcOpen /\ conn[k].down = <<>>)
    /\ pump' = [pump EXCEPT ![k].inbound = "none"]
    /\ UNCHANGED <<conn, daemon, cur, shared, bounds, history>>

\* What arrives is not a frame, or cannot be acted on.
InboundBreaks(k) ==
    /\ breaks < MaxBreaks /\ breaks' = breaks + 1
    /\ pump[k].inbound = "recv"
    /\ pump' = [pump EXCEPT ![k].inbound = "none"]
    /\ UNCHANGED <<conn, daemon, cur, shared, crashes, history>>

----------------------------------------------------------------------------
(* The outbound goroutine: Drain, FlushGaps, DrainEndedSessions, in turn *)

\* mutant: the newest record is handed out, the oldest removed.
TakenLast == ring[Len(ring)]

Taken == Head(ring)

\* The frame f is sent, or lost for the reason why with its records R and the
\* goroutine.
Send(k, f, R, why, next) ==
    /\ conn' = WithUp(k, f)
    /\ pump' = [pump EXCEPT ![k].outbound = IF Linked(k) THEN next ELSE "none"]
    /\ lost' = IF Linked(k) THEN lost ELSE lost \cup Because(why, R)

\* processRecord of a record whose cgid is not bound: skipped.
SkipUnknown(k) ==
    /\ pump[k].outbound = "drain" /\ ring # <<>>
    /\ Taken[1] \notin bound
    /\ ring' = Tail(ring)
    /\ lost' = lost \cup Because("unknown", {Taken})
    /\ UNCHANGED <<conn, daemon, cur, pump, armed, bound, nextIdx, shed, bounds,
                   emitted, issued, reissued>>

\* mutant: the index is read without being advanced.
IndexKept(s) == nextIdx

IndexTaken(s) == [nextIdx EXCEPT ![s] = @ + 1]

\* enrich: the record gets the next index of its session.
Enrich(s) ==
    /\ nextIdx' = IndexTaken(s)
    /\ reissued' = IF nextIdx[s] < issued[s] THEN reissued \cup {s} ELSE reissued
    /\ issued' = [issued EXCEPT ![s] = IF nextIdx[s] < @ THEN @ ELSE nextIdx[s] + 1]

\* processRecord of a record the governor admits.
ForwardRecord(k) ==
    /\ pump[k].outbound = "drain" /\ ring # <<>>
    /\ Taken[1] \in bound
    /\ ring' = Tail(ring)
    /\ Enrich(Taken[1])
    /\ Send(k, [kind |-> "ev", rec |-> Taken, idx |-> nextIdx[Taken[1]]], {Taken}, "send", "drain")
    /\ UNCHANGED <<daemon, cur, armed, bound, shed, bounds, emitted>>

\* processRecord of a record the governor sheds.
ShedRecord(k) ==
    /\ pump[k].outbound = "drain" /\ ring # <<>>
    /\ Taken[1] \in bound /\ Taken[2] \in Sheddable
    /\ ring' = Tail(ring)
    /\ Enrich(Taken[1])
    /\ shed' = shed \cup {Taken}
    /\ UNCHANGED <<conn, daemon, cur, pump, armed, bound, bounds, emitted, lost>>

DrainReturns(k) ==
    /\ pump[k].outbound = "drain" /\ ring = <<>>
    /\ pump' = [pump EXCEPT ![k].outbound = "gaps"]
    /\ UNCHANGED <<conn, daemon, cur, shared, bounds, history>>

\* mutants: nothing is ever due; the counts are not reset.
NothingDue == {}
CountsKept == shed

\* What FlushGaps reports, and what it leaves counted.
Due        == shed
AfterFlush == {}

\* FlushGaps resets the counts before the frames that carry them are sent.
FlushGaps(k) ==
    /\ pump[k].outbound = "gaps"
    /\ IF Due = {}
       THEN /\ pump' = [pump EXCEPT ![k].outbound = "ended"]
            /\ UNCHANGED <<conn, lost, shed>>
       ELSE /\ Send(k, [kind |-> "gap", lost |-> Due], Due, "count", "ended")
            /\ shed' = AfterFlush
    /\ UNCHANGED <<daemon, cur, armed, bound, nextIdx, ring, bounds, emitted, issued, reissued>>

\* The sessions a Pump disarms when its session has ended.
Disarmed(k) == IF pump[k].cgid THEN {conn[k].svc} ELSE {}

\* DrainEndedSessions: the session's last gap is built, its cgid disarmed and
\* unbound and its state dropped; then the gap is sent.
DrainEndedSessions(k) ==
    /\ pump[k].outbound = "ended"
    /\ IF pump[k].ended
       THEN LET s == conn[k].svc
                final == {r \in shed : r[1] = s}
            IN  /\ armed' = armed \ Disarmed(k)
                /\ bound' = bound \ {s}
                /\ nextIdx' = [nextIdx EXCEPT ![s] = 0]
                /\ shed' = shed \ final
                /\ LET stay == final = {} \/ Linked(k) IN
                      /\ pump' = [pump EXCEPT ![k].ended = FALSE, ![k].cgid = FALSE,
                                              ![k].outbound = IF stay THEN "drain" ELSE "none"]
                      /\ lost' = IF stay THEN lost ELSE lost \cup Because("count", final)
                /\ conn' = IF final = {} THEN conn
                           ELSE WithUp(k, [kind |-> "gap", lost |-> final])
       ELSE /\ pump' = [pump EXCEPT ![k].outbound = "drain"]
            /\ UNCHANGED <<conn, armed, bound, nextIdx, shed, lost>>
    /\ UNCHANGED <<daemon, cur, ring, bounds, emitted, issued, reissued>>

----------------------------------------------------------------------------

\* ranad dies and is started again: the filter map, the ring buffer and all
\* state are new.
Crash ==
    /\ crashes < MaxCrashes /\ crashes' = crashes + 1
    /\ daemon' = "dial" /\ cur' = 0
    /\ conn' = [k \in Conn |-> [conn[k] EXCEPT !.ranadOpen = FALSE, !.down = <<>>]]
    /\ pump' = [k \in Conn |-> NoPump]
    /\ armed' = {} /\ bound' = {} /\ ring' = <<>> /\ shed' = {}
    /\ nextIdx' = [s \in Session |-> 0]
    /\ lost' = lost \cup Because("crash", shed \cup {ring[i] : i \in DOMAIN ring})
    /\ UNCHANGED <<breaks, emitted, issued, reissued>>

=============================================================================
