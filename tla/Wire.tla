-------------------------------- MODULE Wire --------------------------------
(***************************************************************************)
(* The unix-socket connections between ranad, which dials, and the session *)
(* service of each `rana run`, which listens (internal/wire, and the       *)
(* adapters around it).  A connection is two byte streams of whole frames: *)
(* what was written before the peer closed can still be read, a write to a *)
(* closed peer fails.  The frames' encoding is left out.                   *)
(***************************************************************************)
EXTENDS Integers, Sequences, FiniteSets

CONSTANTS Session,      \* one `rana run` each
          MaxConn,      \* bound: connections anything still holds
          MaxRecords    \* bound: records a session's processes cause

ASSUME WireAssumption == MaxConn \in Nat /\ MaxRecords \in Nat

VARIABLE conn

None == "none"

Conn == 1 .. MaxConn

\* A kernel record: the session whose cgroup it is from, and its number.
Record == Session \X (1 .. MaxRecords)

\* svc to ranad: Hello, SessionStart, SessionEnd.
DownFrame == {"hello", "start", "end"}

\* ranad to svc: Hello, an event, the gap events of one flush with what they
\* count, and the daemon_restart gap, which names no session.
UpFrame == [kind : {"hello"}]
           \cup [kind : {"ev"}, rec : Record, idx : Nat]
           \cup [kind : {"gap"}, lost : SUBSET Record]
           \cup [kind : {"restart"}]

Hello == [kind |-> "hello"]

Connection == [svc : Session \cup {None}, svcOpen : BOOLEAN, ranadOpen : BOOLEAN,
               up : Seq(UpFrame), down : Seq(DownFrame)]

NoConn == [svc |-> None, svcOpen |-> FALSE, ranadOpen |-> FALSE, up |-> <<>>, down |-> <<>>]

\* Both ends are open: a write on either succeeds.
Linked(k) == conn[k].svcOpen /\ conn[k].ranadOpen

\* A write that fails does so without effect.
WithDown(k, f) == IF Linked(k) THEN [conn EXCEPT ![k].down = Append(@, f)] ELSE conn

WithUp(k, f) == IF Linked(k) THEN [conn EXCEPT ![k].up = Append(@, f)] ELSE conn

\* The records the unread frames of connection k carry or count.
UnreadOn(k) ==
    UNION {IF conn[k].up[i].kind = "ev" THEN {conn[k].up[i].rec}
           ELSE IF conn[k].up[i].kind = "gap" THEN conn[k].up[i].lost
           ELSE {} : i \in DOMAIN conn[k].up}

=============================================================================
