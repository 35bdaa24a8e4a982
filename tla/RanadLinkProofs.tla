--------------------------- MODULE RanadLinkProofs ---------------------------
(***************************************************************************)
(* What holds of ranad and the runs it records for any set of sessions, any *)
(* number of connections, records, breaks, kills and deaths of ranad.       *)
(***************************************************************************)
EXTENDS RanadLink, TLAPS

----------------------------------------------------------------------------
(* Sequences of frames, and the ring buffer *)

\* A frame put at the end.
LEMMA AppendHeld ==
    ASSUME NEW F, NEW q \in Seq(F), NEW f \in F
    PROVE  /\ Carried(Append(q, f)) = Carried(q) \cup Held(f)
           /\ HeldOnce(q) /\ Held(f) \cap Carried(q) = {} => HeldOnce(Append(q, f))
<1> DEFINE a == Append(q, f)
           n == Len(q)
<1>1. /\ n \in Nat /\ DOMAIN q = 1 .. n /\ DOMAIN a = 1 .. n + 1
      /\ a[n + 1] = f /\ \A i \in 1 .. n : a[i] = q[i]
  OBVIOUS
<1> HIDE DEF a, n
<1>2. Carried(a) = Carried(q) \cup Held(f)
  BY <1>1 DEF Carried
<1>3. ASSUME HeldOnce(q), Held(f) \cap Carried(q) = {}
      PROVE  HeldOnce(a)
  <2>1. \A i \in 1 .. n : Held(f) \cap Held(q[i]) = {}
    BY <1>1, <1>3 DEF Carried
  <2>2. QED
    BY <1>1, <1>3, <2>1 DEF HeldOnce
<1>4. QED  BY <1>2, <1>3 DEF a

\* The first frame taken away.
LEMMA TailHeld ==
    ASSUME NEW F, NEW q \in Seq(F), q # <<>>
    PROVE  /\ Carried(q) = Held(Head(q)) \cup Carried(Tail(q))
           /\ HeldOnce(q) => HeldOnce(Tail(q)) /\ Held(Head(q)) \cap Carried(Tail(q)) = {}
<1> DEFINE t == Tail(q)
           n == Len(q)
<1>1. /\ n \in Nat /\ n >= 1 /\ DOMAIN q = 1 .. n /\ DOMAIN t = 1 .. n - 1
      /\ Head(q) = q[1] /\ \A i \in 1 .. n - 1 : t[i] = q[i + 1]
  OBVIOUS
<1> HIDE DEF t, n
<1>2. \A i \in 2 .. n : i - 1 \in 1 .. n - 1 /\ t[i - 1] = q[i]
  BY <1>1
<1>3. Carried(q) = Held(q[1]) \cup Carried(t)
  <2>1. ASSUME NEW r \in Carried(q) PROVE r \in Held(q[1]) \cup Carried(t)
    <3>1. PICK i \in 1 .. n : r \in Held(q[i])  BY <1>1, <2>1 DEF Carried
    <3>2. CASE i = 1  BY <3>1, <3>2
    <3>3. CASE i # 1
      <4>1. i - 1 \in DOMAIN t /\ t[i - 1] = q[i]  BY <1>1, <1>2, <3>3
      <4>2. QED  BY <3>1, <4>1 DEF Carried
    <3>4. QED  BY <3>2, <3>3
  <2>2. Held(q[1]) \subseteq Carried(q)  BY <1>1 DEF Carried
  <2>3. Carried(t) \subseteq Carried(q)  BY <1>1 DEF Carried
  <2>4. QED  BY <2>1, <2>2, <2>3
<1>4. ASSUME HeldOnce(q)
      PROVE  HeldOnce(t) /\ Held(q[1]) \cap Carried(t) = {}
  <2>1. HeldOnce(t)
    <3>1. ASSUME NEW i \in 1 .. n - 1, NEW j \in 1 .. n - 1, i # j
          PROVE  Held(t[i]) \cap Held(t[j]) = {}
      <4>1. i + 1 \in 1 .. n /\ j + 1 \in 1 .. n /\ i + 1 # j + 1  BY <1>1, <3>1
      <4>2. QED  BY <1>1, <1>4, <4>1 DEF HeldOnce
    <3>2. QED  BY <1>1, <3>1 DEF HeldOnce
  <2>2. \A i \in 1 .. n - 1 : Held(q[1]) \cap Held(t[i]) = {}
    <3>1. ASSUME NEW i \in 1 .. n - 1 PROVE Held(q[1]) \cap Held(q[i + 1]) = {}
      <4>1. i + 1 \in 1 .. n /\ 1 \in 1 .. n /\ i + 1 # 1  BY <1>1
      <4>2. QED  BY <1>1, <1>4, <4>1 DEF HeldOnce
    <3>2. QED  BY <1>1, <3>1
  <2>3. QED  BY <1>1, <2>1, <2>2 DEF Carried
<1>5. QED  BY <1>1, <1>3, <1>4 DEF t

\* A frame list with nothing in it.
LEMMA NothingHeld == Carried(<<>>) = {} /\ HeldOnce(<<>>)
  BY DEF Carried, HeldOnce

Items(q) == {q[i] : i \in DOMAIN q}
ItemsOnce(q) == \A i, j \in DOMAIN q : i # j => q[i] # q[j]

\* A record put into the ring buffer.
LEMMA AppendItem ==
    ASSUME NEW F, NEW q \in Seq(F), NEW r \in F
    PROVE  /\ Items(Append(q, r)) = Items(q) \cup {r}
           /\ ItemsOnce(q) /\ r \notin Items(q) => ItemsOnce(Append(q, r))
<1> DEFINE a == Append(q, r)
           n == Len(q)
<1>1. /\ n \in Nat /\ DOMAIN q = 1 .. n /\ DOMAIN a = 1 .. n + 1
      /\ a[n + 1] = r /\ \A i \in 1 .. n : a[i] = q[i]
  OBVIOUS
<1> HIDE DEF a, n
<1>2. Items(a) = Items(q) \cup {r}  BY <1>1 DEF Items
<1>3. ASSUME ItemsOnce(q), r \notin Items(q) PROVE ItemsOnce(a)
  BY <1>1, <1>3 DEF Items, ItemsOnce
<1>4. QED  BY <1>2, <1>3 DEF a

\* The oldest record taken out.
LEMMA TailItem ==
    ASSUME NEW F, NEW q \in Seq(F), q # <<>>
    PROVE  /\ Items(q) = Items(Tail(q)) \cup {Head(q)}
           /\ ItemsOnce(q) => ItemsOnce(Tail(q)) /\ Head(q) \notin Items(Tail(q))
<1> DEFINE t == Tail(q)
           n == Len(q)
<1>1. /\ n \in Nat /\ n >= 1 /\ DOMAIN q = 1 .. n /\ DOMAIN t = 1 .. n - 1
      /\ Head(q) = q[1] /\ \A i \in 1 .. n - 1 : t[i] = q[i + 1]
  OBVIOUS
<1> HIDE DEF t, n
<1>2. \A i \in 2 .. n : i - 1 \in 1 .. n - 1 /\ t[i - 1] = q[i]
  BY <1>1
<1>3. Items(q) = Items(t) \cup {q[1]}
  <2>1. ASSUME NEW r \in Items(q) PROVE r \in Items(t) \cup {q[1]}
    <3>1. PICK i \in 1 .. n : r = q[i]  BY <1>1, <2>1 DEF Items
    <3>2. CASE i = 1  BY <3>1, <3>2
    <3>3. CASE i # 1
      <4>1. i - 1 \in DOMAIN t /\ t[i - 1] = q[i]  BY <1>1, <1>2, <3>3
      <4>2. QED  BY <3>1, <4>1 DEF Items
    <3>4. QED  BY <3>2, <3>3
  <2>2. q[1] \in Items(q) /\ Items(t) \subseteq Items(q)
    <3>1. \A i \in 1 .. n - 1 : i + 1 \in 1 .. n  BY <1>1
    <3>2. QED  BY <1>1, <3>1 DEF Items
  <2>3. QED  BY <2>1, <2>2
<1>4. ASSUME ItemsOnce(q)
      PROVE  ItemsOnce(t) /\ q[1] \notin Items(t)
  <2>1. ASSUME NEW i \in 1 .. n - 1, NEW j \in 1 .. n - 1, i # j
        PROVE  t[i] # t[j]
    <3>1. i + 1 \in 1 .. n /\ j + 1 \in 1 .. n /\ i + 1 # j + 1  BY <1>1, <2>1
    <3>2. QED  BY <1>1, <1>4, <3>1 DEF ItemsOnce
  <2>2. ASSUME NEW i \in 1 .. n - 1 PROVE t[i] # q[1]
    <3>1. i + 1 \in 1 .. n /\ 1 \in 1 .. n /\ i + 1 # 1  BY <1>1
    <3>2. QED  BY <1>1, <1>4, <3>1 DEF ItemsOnce
  <2>3. QED  BY <1>1, <2>1, <2>2 DEF Items, ItemsOnce
<1>5. QED  BY <1>1, <1>3, <1>4 DEF t

----------------------------------------------------------------------------
(* The ends of a connection *)

\* A closed service end has read everything and serves nobody; the Hello is
\* first, and waits for the handler that expects it; what was never dialled is
\* as it was; the daemon has the connection open whose Hello it waits for.
EndsOf(k) ==
    /\ ~conn[k].svcOpen => conn[k].up = <<>> /\ handler[k] = "none" /\ k \notin registered
    /\ handler[k] = "hello" => conn[k].up # <<>> /\ conn[k].up[1] = Hello
    /\ \A i \in DOMAIN conn[k].up : conn[k].up[i] = Hello => i = 1 /\ handler[k] = "hello"
    /\ conn[k].svc \notin Session => conn[k] = NoConn /\ pump[k] = NoPump

Ends ==
    /\ \A k \in Conn : EndsOf(k)
    /\ daemon = "hello" => conn[cur].ranadOpen

\* Connection k becomes c, the others stay.
Becomes(k, c) ==
    /\ conn' \in [Conn -> Connection] /\ conn'[k] = c
    /\ \A j \in Conn \ {k} : conn'[j] = conn[j]

\* The frames on their way up are others.
LEMMA UpChanges ==
    ASSUME NEW k \in Conn, conn \in [Conn -> Connection], NEW q \in Seq(UpFrame),
           conn' = [conn EXCEPT ![k].up = q]
    PROVE  Becomes(k, [conn[k] EXCEPT !.up = q])
<1>1. conn' \in [Conn -> Connection]  BY Zenon DEF Connection
<1>2. QED  BY <1>1 DEF Becomes, Connection

\* The frames on their way down are others.
LEMMA DownChanges ==
    ASSUME NEW k \in Conn, conn \in [Conn -> Connection], NEW q \in Seq(DownFrame),
           conn' = [conn EXCEPT ![k].down = q]
    PROVE  Becomes(k, [conn[k] EXCEPT !.down = q])
<1>1. conn' \in [Conn -> Connection]  BY Zenon DEF Connection
<1>2. QED  BY <1>1 DEF Becomes, Connection

\* Both are others.
LEMMA BothChange ==
    ASSUME NEW k \in Conn, conn \in [Conn -> Connection],
           NEW q \in Seq(UpFrame), NEW d \in Seq(DownFrame),
           conn' = [conn EXCEPT ![k].up = q, ![k].down = d]
    PROVE  Becomes(k, [conn[k] EXCEPT !.up = q, !.down = d])
<1>1. conn' \in [Conn -> Connection]  BY Zenon DEF Connection
<1>2. QED  BY <1>1 DEF Becomes, Connection

\* The service's end closes.
LEMMA SvcCloses ==
    ASSUME NEW k \in Conn, conn \in [Conn -> Connection], conn' = [conn EXCEPT ![k].svcOpen = FALSE]
    PROVE  Becomes(k, [conn[k] EXCEPT !.svcOpen = FALSE])
<1>1. conn' \in [Conn -> Connection]  BY Zenon DEF Connection
<1>2. QED  BY <1>1 DEF Becomes, Connection

\* ranad's end closes.
LEMMA RanadCloses ==
    ASSUME NEW k \in Conn, conn \in [Conn -> Connection],
           conn' = [conn EXCEPT ![k].ranadOpen = FALSE, ![k].down = <<>>]
    PROVE  Becomes(k, [conn[k] EXCEPT !.ranadOpen = FALSE, !.down = <<>>])
<1>1. <<>> \in Seq(DownFrame)  OBVIOUS
<1>2. conn' \in [Conn -> Connection]  BY <1>1, Zenon DEF Connection
<1>3. QED  BY <1>2 DEF Becomes, Connection

\* What was never dialled has nothing to close.
LEMMA NoConnCloses == [NoConn EXCEPT !.ranadOpen = FALSE, !.down = <<>>] = NoConn
<1>1. NoConn.ranadOpen = FALSE /\ NoConn.down = <<>>  BY DEF NoConn
<1>2. NoConn = [f \in {"svc", "svcOpen", "ranadOpen", "up", "down"} |-> NoConn[f]]  BY DEF NoConn
<1>3. QED  BY <1>1, <1>2

\* A frame written down, if both ends are open.
LEMMA WrittenDown ==
    ASSUME NEW k \in Conn, conn \in [Conn -> Connection], NEW f \in DownFrame, conn' = WithDown(k, f)
    PROVE  /\ Linked(k) => Becomes(k, [conn[k] EXCEPT !.down = Append(conn[k].down, f)])
           /\ ~Linked(k) => conn' = conn
<1>1. conn[k].down \in Seq(DownFrame) /\ Append(conn[k].down, f) \in Seq(DownFrame)
  BY DEF Connection
<1>2. CASE Linked(k)
  <2>1. conn' = [conn EXCEPT ![k].down = Append(conn[k].down, f)]  BY <1>2 DEF WithDown
  <2>2. QED  BY <1>1, <1>2, <2>1, DownChanges
<1>3. QED  BY <1>2 DEF WithDown

\* A frame written up, if both ends are open.
LEMMA WrittenUp ==
    ASSUME NEW k \in Conn, conn \in [Conn -> Connection], NEW f \in UpFrame, conn' = WithUp(k, f)
    PROVE  /\ Linked(k) => Becomes(k, [conn[k] EXCEPT !.up = Append(conn[k].up, f)])
           /\ ~Linked(k) => conn' = conn
<1>1. conn[k].up \in Seq(UpFrame) /\ Append(conn[k].up, f) \in Seq(UpFrame)
  BY DEF Connection
<1>2. CASE Linked(k)
  <2>1. conn' = [conn EXCEPT ![k].up = Append(conn[k].up, f)]  BY <1>2 DEF WithUp
  <2>2. QED  BY <1>1, <1>2, <2>1, UpChanges
<1>3. QED  BY <1>2 DEF WithUp

----------------------------------------------------------------------------
(* The Pump of a connection *)

\* The Pump of connection k becomes p, the others stay.
PumpBecomes(k, p) ==
    /\ pump' \in [Conn -> PumpState] /\ pump'[k] = p
    /\ \A j \in Conn \ {k} : pump'[j] = pump[j]

\* The inbound goroutine goes on to x, or returns.
LEMMA InboundGoes ==
    ASSUME NEW k \in Conn, pump \in [Conn -> PumpState], NEW x \in {"none", "recv", "bind"},
           pump' = [pump EXCEPT ![k].inbound = x]
    PROVE  PumpBecomes(k, [pump[k] EXCEPT !.inbound = x])
<1>1. pump' \in [Conn -> PumpState]  BY Zenon DEF PumpState
<1>2. QED  BY <1>1 DEF PumpBecomes, PumpState

\* The outbound goroutine goes on to x, or returns.
LEMMA OutboundGoes ==
    ASSUME NEW k \in Conn, pump \in [Conn -> PumpState], NEW x \in {"none", "drain", "gaps", "ended"},
           pump' = [pump EXCEPT ![k].outbound = x]
    PROVE  PumpBecomes(k, [pump[k] EXCEPT !.outbound = x])
<1>1. pump' \in [Conn -> PumpState]  BY Zenon DEF PumpState
<1>2. QED  BY <1>1 DEF PumpBecomes, PumpState

\* A SessionStart is remembered.
LEMMA StartRemembered ==
    ASSUME NEW k \in Conn, pump \in [Conn -> PumpState],
           pump' = [pump EXCEPT ![k].cgid = TRUE, ![k].inbound = "bind"]
    PROVE  PumpBecomes(k, [pump[k] EXCEPT !.cgid = TRUE, !.inbound = "bind"])
<1>1. pump' \in [Conn -> PumpState]  BY Zenon DEF PumpState
<1>2. QED  BY <1>1 DEF PumpBecomes, PumpState

\* A SessionEnd is left to the outbound goroutine.
LEMMA EndQueued ==
    ASSUME NEW k \in Conn, pump \in [Conn -> PumpState], pump' = [pump EXCEPT ![k].ended = TRUE]
    PROVE  PumpBecomes(k, [pump[k] EXCEPT !.ended = TRUE])
<1>1. pump' \in [Conn -> PumpState]  BY Zenon DEF PumpState
<1>2. QED  BY <1>1 DEF PumpBecomes, PumpState

\* A SessionEnd has been acted on.
LEMMA EndForgotten ==
    ASSUME NEW k \in Conn, pump \in [Conn -> PumpState], NEW x \in {"none", "drain"},
           pump' = [pump EXCEPT ![k].ended = FALSE, ![k].cgid = FALSE, ![k].outbound = x]
    PROVE  PumpBecomes(k, [pump[k] EXCEPT !.ended = FALSE, !.cgid = FALSE, !.outbound = x])
<1>1. pump' \in [Conn -> PumpState]  BY ZenonT(60) DEF PumpState
<1>2. QED  BY <1>1 DEF PumpBecomes, PumpState

----------------------------------------------------------------------------
(* Types and the ends of the connections *)

Shape == TypeOK /\ Ends

\* Nobody has started yet.
LEMMA ShapeStart == Init => Shape
<1> SUFFICES ASSUME Init PROVE TypeOK /\ Ends  BY DEF Shape
<1> USE DEF Init, ServerInit, PumpInit
<1>1. NoConn \in Connection  BY DEF NoConn, Connection, None
<1>2. NoPump \in PumpState  BY DEF NoPump, PumpState
<1>3. TypeOK
  BY <1>1, <1>2, WireAssumption DEF TypeOK, RunState, HandlerState, None
<1>4. Ends  BY DEF Ends, EndsOf, NoConn
<1>5. QED  BY <1>3, <1>4

\* The steps of a run's main goroutine that write to nobody.
LEMMA MainShape ==
    ASSUME Shape, UNCHANGED pumpVars, NEW s \in Session,
           Start(s) \/ BroadcastSessionStart(s) \/ StartChild(s) \/ AddProcess(s)
               \/ Abort(s) \/ EndSession(s) \/ BroadcastSessionEnd(s)
    PROVE  Shape'
<1> USE DEF pumpVars, shared, bounds, history
<1>1. /\ UNCHANGED <<conn, registered, handler, ledger, kills>>
      /\ run' \in [Session -> RunState] /\ path' \in Session \cup {None}
      /\ listening' \subseteq Session /\ active' \subseteq Session /\ tell' \in [Session -> SUBSET Conn]
  <2> USE DEF Shape, TypeOK, RunState, ConnsOf
  <2>1. CASE Start(s)  BY <2>1 DEF Start
  <2>2. CASE BroadcastSessionStart(s)  BY <2>2 DEF BroadcastSessionStart
  <2>3. CASE StartChild(s)  BY <2>3 DEF StartChild
  <2>4. CASE AddProcess(s)  BY <2>4 DEF AddProcess
  <2>5. CASE Abort(s)  BY <2>5 DEF Abort
  <2>6. CASE EndSession(s)  BY <2>6 DEF EndSession
  <2>7. CASE BroadcastSessionEnd(s)  BY <2>7 DEF BroadcastSessionEnd
  <2>8. QED  BY <2>1, <2>2, <2>3, <2>4, <2>5, <2>6, <2>7
<1>2. TypeOK'  BY <1>1 DEF Shape, TypeOK
<1>3. Ends'  BY <1>1 DEF Shape, Ends, EndsOf
<1>4. QED  BY <1>2, <1>3 DEF Shape

\* What is left to show for Ends when one connection changes.
LEMMA EndsKept ==
    ASSUME Shape, NEW k \in Conn, EndsOf(k)',
           \A j \in Conn \ {k} : /\ conn'[j] = conn[j] /\ pump'[j] = pump[j] /\ handler'[j] = handler[j]
                                 /\ j \in registered' => j \in registered,
           daemon' = "hello" => conn'[cur'].ranadOpen
    PROVE  Ends'
<1>1. ASSUME NEW j \in Conn \ {k} PROVE EndsOf(j)'
  BY <1>1 DEF Shape, Ends, EndsOf
<1>2. QED  BY <1>1 DEF Ends

\* The end that reads: the sequence without its first frame.
LEMMA TailType ==
    ASSUME NEW F, NEW q \in Seq(F), q # <<>>
    PROVE  /\ Tail(q) \in Seq(F) /\ Head(q) \in F /\ Head(q) = q[1]
           /\ \A i \in DOMAIN Tail(q) : i + 1 \in DOMAIN q /\ i + 1 # 1 /\ Tail(q)[i] = q[i + 1]
OBVIOUS

\* The end that writes: the sequence with one frame more.
LEMMA AppendType ==
    ASSUME NEW F, NEW q \in Seq(F), NEW f \in F
    PROVE  /\ Append(q, f) \in Seq(F) /\ Append(q, f) # <<>>
           /\ \A i \in DOMAIN Append(q, f) : \/ i \in DOMAIN q /\ Append(q, f)[i] = q[i]
                                             \/ i = Len(q) + 1 /\ Append(q, f)[i] = f
           /\ q # <<>> => Append(q, f)[1] = q[1]
OBVIOUS

\* A broadcast, a replay.
LEMMA TellShape ==
    ASSUME Shape, UNCHANGED pumpVars, NEW k \in Conn,
           (\E s \in Session : SendOne(s, k)) \/ SendReplay(k)
    PROVE  Shape'
<1> USE DEF pumpVars, shared, bounds, history
<1>1. PICK f \in DownFrame : conn' = WithDown(k, f)
  BY DEF SendOne, SendReplay, DownFrame
<1>2. /\ UNCHANGED <<run, path, listening, active, registered, ledger, kills>>
      /\ tell' \in [Session -> SUBSET Conn] /\ handler' \in [Conn -> HandlerState]
      /\ \A j \in Conn : handler'[j] = handler[j] \/ (j = k /\ handler[j] = "replay" /\ handler'[j] = "loop")
  BY DEF SendOne, SendReplay, Shape, TypeOK, HandlerState
<1>3. conn \in [Conn -> Connection] /\ conn[k] \in Connection  BY DEF Shape, TypeOK
<1>4. CASE Linked(k)
  <2>1. Becomes(k, [conn[k] EXCEPT !.down = Append(conn[k].down, f)])
    BY <1>1, <1>3, <1>4, WrittenDown
  <2>2. TypeOK'  BY <1>2, <2>1 DEF Becomes, Shape, TypeOK
  <2>3. EndsOf(k)'
    <3>1. conn'[k].svcOpen /\ conn'[k].up = conn[k].up /\ conn'[k].svc = conn[k].svc
      BY <1>3, <1>4, <2>1 DEF Becomes, Connection, Linked
    <3>2. conn[k].svc \in Session  BY <1>4 DEF Shape, Ends, EndsOf, NoConn, Linked
    <3>3. QED  BY <1>2, <3>1, <3>2 DEF Shape, Ends, EndsOf
  <2>4. daemon' = "hello" => conn'[cur'].ranadOpen
    BY <1>3, <2>1 DEF Becomes, Shape, Ends, Connection, TypeOK
  <2>5. Ends'  BY <1>2, <2>1, <2>3, <2>4, EndsKept DEF Becomes
  <2>6. QED  BY <2>2, <2>5 DEF Shape
<1>5. CASE ~Linked(k)
  <2>1. conn' = conn  BY <1>1, <1>3, <1>5, WrittenDown
  <2>2. TypeOK'  BY <1>2, <2>1 DEF Shape, TypeOK
  <2>3. Ends'  BY <1>2, <2>1 DEF Shape, Ends, EndsOf
  <2>4. QED  BY <2>2, <2>3 DEF Shape
<1>6. QED  BY <1>4, <1>5

\* HandleConn reads a Hello, or a frame.
LEMMA ReadShape ==
    ASSUME Shape, UNCHANGED pumpVars, NEW k \in Conn, Register(k) \/ ReadFrame(k)
    PROVE  Shape'
<1> USE DEF pumpVars, shared, bounds, history
<1> DEFINE u == Tail(conn[k].up)
           d == IF Register(k) /\ PeerAnswers THEN Append(conn[k].down, "hello") ELSE conn[k].down
<1>1. conn \in [Conn -> Connection] /\ conn[k] \in Connection /\ conn[k].up \in Seq(UpFrame)
      /\ conn[k].down \in Seq(DownFrame) /\ conn[k].up # <<>> /\ handler[k] \in {"hello", "loop"}
      /\ conn[k].svcOpen /\ conn[k].svc \in Session
  BY DEF Shape, TypeOK, Connection, Register, ReadFrame, Ends, EndsOf, NoConn
<1>2. /\ u \in Seq(UpFrame) /\ Head(conn[k].up) \in UpFrame /\ Head(conn[k].up) = conn[k].up[1]
      /\ \A i \in DOMAIN u : i + 1 \in DOMAIN conn[k].up /\ i + 1 # 1 /\ u[i] = conn[k].up[i + 1]
  BY <1>1, TailType
<1>3. d \in Seq(DownFrame)  BY <1>1 DEF DownFrame
<1>4. Becomes(k, [conn[k] EXCEPT !.up = u, !.down = d])
  <2>1. CASE Register(k)
    <3>1. conn' = [conn EXCEPT ![k].up = u, ![k].down = d]  BY <2>1 DEF Register
    <3>2. QED  BY <1>1, <1>2, <1>3, <3>1, BothChange
  <2>2. CASE ReadFrame(k) /\ ~Register(k)
    <3>1. conn' = [conn EXCEPT ![k].up = u]  BY <2>2 DEF ReadFrame
    <3>2. Becomes(k, [conn[k] EXCEPT !.up = u])  BY <1>1, <1>2, <3>1, UpChanges
    <3>3. [conn[k] EXCEPT !.up = u] = [conn[k] EXCEPT !.up = u, !.down = d]
      BY <1>1, <2>2 DEF Connection
    <3>4. QED  BY <3>2, <3>3
  <2>3. QED  BY <2>1, <2>2
<1> HIDE DEF u, d
<1>5. /\ UNCHANGED <<run, path, listening, active, tell, kills>>
      /\ handler' \in [Conn -> HandlerState] /\ handler'[k] \in {"replay", "loop"}
      /\ \A j \in Conn \ {k} : handler'[j] = handler[j]
      /\ registered' \subseteq registered \cup {k}
  BY DEF Register, ReadFrame, Shape, TypeOK, HandlerState
<1>6. ledger' \in Seq(UpFrame \ {Hello})
  <2>1. CASE Register(k)  BY <2>1 DEF Register, Shape, TypeOK
  <2>2. CASE ReadFrame(k)
    <3>1. Head(conn[k].up) \in UpFrame \ {Hello}
      <4>1. 1 \in DOMAIN conn[k].up  BY <1>1
      <4>2. handler[k] # "hello"  BY <2>2 DEF ReadFrame
      <4>3. QED  BY <1>2, <4>1, <4>2 DEF Shape, Ends, EndsOf
    <3>2. ledger \in Seq(UpFrame \ {Hello})  BY DEF Shape, TypeOK
    <3>3. QED  BY <2>2, <3>1, <3>2, AppendType DEF ReadFrame
  <2>3. QED  BY <2>1, <2>2
<1>7. TypeOK'  BY <1>4, <1>5, <1>6 DEF Becomes, Shape, TypeOK
<1>8. EndsOf(k)'
  <2>1. \A i \in DOMAIN u : u[i] # Hello
    <3>1. ASSUME NEW i \in DOMAIN u PROVE u[i] # Hello
      BY <1>2, <3>1 DEF Shape, Ends, EndsOf
    <3>2. QED  BY <3>1
  <2>2. conn'[k].svcOpen /\ conn'[k].up = u /\ conn'[k].svc \in Session
    BY <1>1, <1>4 DEF Becomes, Connection
  <2>3. QED  BY <1>5, <2>1, <2>2 DEF EndsOf
<1>9. daemon' = "hello" => conn'[cur'].ranadOpen
  BY <1>1, <1>4 DEF Becomes, Shape, Ends, Connection, TypeOK
<1>10. Ends'  BY <1>4, <1>5, <1>8, <1>9, EndsKept DEF Becomes
<1>11. QED  BY <1>7, <1>10 DEF Shape

\* HandleConn returns.
LEMMA ReturnShape ==
    ASSUME Shape, UNCHANGED pumpVars, NEW k \in Conn, HandleConnReturns(k)
    PROVE  Shape'
<1> USE DEF pumpVars, shared, bounds, history
<1>1. conn \in [Conn -> Connection] /\ conn[k] \in Connection /\ conn[k].up = <<>>
  BY DEF Shape, TypeOK, HandleConnReturns, NoFrame
<1>2. Becomes(k, [conn[k] EXCEPT !.svcOpen = FALSE])  BY <1>1, SvcCloses DEF HandleConnReturns
<1>3. /\ UNCHANGED <<run, path, listening, active, tell, ledger, kills>>
      /\ handler' \in [Conn -> HandlerState] /\ handler'[k] = "none"
      /\ \A j \in Conn \ {k} : handler'[j] = handler[j]
      /\ registered' = registered \ {k}
  BY DEF HandleConnReturns, Shape, TypeOK, HandlerState
<1>4. TypeOK'  BY <1>2, <1>3 DEF Becomes, Shape, TypeOK
<1>5. EndsOf(k)'
  BY <1>1, <1>2, <1>3 DEF Becomes, Shape, Ends, EndsOf, Connection, HandleConnReturns, NoConn
<1>6. daemon' = "hello" => conn'[cur'].ranadOpen
  BY <1>1, <1>2 DEF Becomes, Shape, Ends, Connection, TypeOK
<1>7. Ends'  BY <1>2, <1>3, <1>5, <1>6, EndsKept DEF Becomes
<1>8. QED  BY <1>4, <1>7 DEF Shape

\* A run ends: its ends of the connections close.
LEMMA RunEndsShape ==
    ASSUME Shape, NEW s \in Session, RunEnds(s)
    PROVE  Shape'
<1> USE DEF shared, bounds, history
<1> DEFINE mine == {k \in Conn : conn[k].svc = s}
<1>1. conn \in [Conn -> Connection]  BY DEF Shape, TypeOK
<1>2. ProcessEnds(s)  BY DEF RunEnds, Exit, Killed
<1>3. /\ conn' \in [Conn -> Connection]
      /\ \A k \in Conn \ mine : conn'[k] = conn[k] /\ handler'[k] = handler[k]
      /\ \A k \in mine : /\ conn'[k].svc = s /\ ~conn'[k].svcOpen /\ conn'[k].up = <<>>
                         /\ conn'[k].ranadOpen = conn[k].ranadOpen /\ conn'[k].down = conn[k].down
                         /\ handler'[k] = "none" /\ k \notin registered'
      /\ registered' \subseteq registered
  <2>1. conn' = [k \in Conn |-> IF conn[k].svc = s THEN [conn[k] EXCEPT !.svcOpen = FALSE, !.up = <<>>]
                                ELSE conn[k]]
    BY <1>2 DEF ProcessEnds
  <2>2. \A k \in Conn : [conn[k] EXCEPT !.svcOpen = FALSE, !.up = <<>>] \in Connection
    <3>1. <<>> \in Seq(UpFrame)  OBVIOUS
    <3>2. QED  BY <1>1, <3>1 DEF Connection
  <2>3. conn' \in [Conn -> Connection]  BY <1>1, <2>1, <2>2
  <2>4. \A k \in Conn \ mine : conn'[k] = conn[k]  BY <2>1
  <2>5. \A k \in mine : /\ conn'[k].svc = s /\ ~conn'[k].svcOpen /\ conn'[k].up = <<>>
                        /\ conn'[k].ranadOpen = conn[k].ranadOpen /\ conn'[k].down = conn[k].down
    BY <1>1, <2>1 DEF Connection
  <2>6. /\ \A k \in Conn : handler'[k] = IF k \in mine THEN "none" ELSE handler[k]
        /\ registered' = registered \ ConnsOf(s)
    BY <1>2 DEF ProcessEnds
  <2>7. \A k \in mine : k \notin registered'  BY <2>6 DEF ConnsOf
  <2>8. QED  BY <2>3, <2>4, <2>5, <2>6, <2>7
<1>4. /\ run' \in [Session -> RunState] /\ path' \in Session \cup {None} /\ kills' \in Nat
      /\ listening' \subseteq Session /\ active' \subseteq Session /\ tell' \in [Session -> SUBSET Conn]
      /\ handler' \in [Conn -> HandlerState] /\ UNCHANGED <<ledger, daemon, cur, pump, shared, bounds>>
      /\ UNCHANGED <<emitted, issued, reissued>>
  <2>1. run' \in [Session -> RunState] /\ path' \in Session \cup {None} /\ kills' \in Nat
    <3>1. run \in [Session -> RunState] /\ path \in Session \cup {None} /\ kills \in Nat
      BY DEF Shape, TypeOK
    <3>2. CASE Exit(s)  BY <3>1, <3>2 DEF Exit, RunState
    <3>3. CASE Killed(s)  BY <3>1, <3>3 DEF Killed, RunState
    <3>4. QED  BY <3>2, <3>3 DEF RunEnds
  <2>2. /\ listening' \subseteq Session /\ active' \subseteq Session /\ tell' \in [Session -> SUBSET Conn]
        /\ handler' \in [Conn -> HandlerState] /\ UNCHANGED ledger
    BY <1>2 DEF ProcessEnds, Shape, TypeOK, HandlerState
  <2>3. QED  BY <2>1, <2>2 DEF RunEnds
<1>5. lost' \subseteq Session \X (1 .. MaxRecords) \X Why
  <2>1. \A k \in Conn : UnreadOn(k) \subseteq Record
    <3>1. ASSUME NEW k \in Conn, NEW i \in DOMAIN conn[k].up
          PROVE  /\ conn[k].up[i].kind = "ev" => conn[k].up[i].rec \in Record
                 /\ conn[k].up[i].kind = "gap" => conn[k].up[i].lost \subseteq Record
      <4>1. conn[k].up[i] \in UpFrame  BY <1>1 DEF Connection
      <4>2. QED  BY <4>1 DEF UpFrame
    <3>2. QED  BY <3>1 DEF UnreadOn
  <2>2. UNION {UnreadOn(k) : k \in {j \in Conn : conn[j].svc = s}} \subseteq Record
    BY <2>1
  <2>3. lost \subseteq Session \X (1 .. MaxRecords) \X Why  BY DEF Shape, TypeOK
  <2>4. QED  BY <2>2, <2>3 DEF RunEnds, Because, Record, Why
<1>6. TypeOK'  BY <1>3, <1>4, <1>5 DEF Shape, TypeOK
<1>7. \A k \in Conn : EndsOf(k)'
  BY <1>3, <1>4 DEF Shape, Ends, EndsOf
<1>8. daemon' = "hello" => conn'[cur'].ranadOpen
  BY <1>3, <1>4 DEF Shape, TypeOK, Ends
<1>9. QED  BY <1>6, <1>7, <1>8 DEF Shape, Ends

\* ranad dials.
LEMMA ConnectShape ==
    ASSUME Shape, NEW s \in Session, Connect(s)
    PROVE  Shape'
<1> USE DEF shared, bounds, history
<1>1. PICK k \in Conn : Free(k) /\ Dial(s, k)  BY DEF Connect
<1> DEFINE c == [svc |-> s, svcOpen |-> TRUE, ranadOpen |-> TRUE, up |-> <<Hello>>, down |-> <<>>]
<1>2. c \in Connection
  <2>1. Hello \in UpFrame  BY DEF Hello, UpFrame
  <2>2. <<Hello>> \in Seq(UpFrame) /\ <<>> \in Seq(DownFrame)  BY <2>1
  <2>3. QED  BY <2>2 DEF Connection
<1>3. Becomes(k, c)  BY <1>1, <1>2 DEF Dial, Becomes, Shape, TypeOK
<1>4. c.svc = s /\ c.svcOpen /\ c.ranadOpen /\ c.up = <<Hello>>  OBVIOUS
<1> HIDE DEF c
<1>5. NoPump \in PumpState  BY DEF NoPump, PumpState
<1>6. PumpBecomes(k, NoPump)  BY <1>1, <1>5 DEF Dial, PumpBecomes, Shape, TypeOK
<1>7. /\ handler' \in [Conn -> HandlerState] /\ handler'[k] = "hello"
      /\ \A j \in Conn \ {k} : handler'[j] = handler[j]
  BY <1>1 DEF Connect, Dial, Shape, TypeOK, HandlerState
<1>8. /\ UNCHANGED <<run, path, listening, active, registered, tell, ledger, kills, shared, bounds, history>>
      /\ cur' = k /\ daemon' = "hello"
  BY <1>1 DEF Connect, Dial
<1>9. TypeOK'
  <2>1. cur' \in Conn \cup {0} /\ (cur' = 0 => daemon' = "dial")  BY <1>8, WireAssumption DEF Conn
  <2>2. QED  BY <1>3, <1>6, <1>7, <1>8, <2>1 DEF Becomes, PumpBecomes, Shape, TypeOK
<1>10. EndsOf(k)'  BY <1>3, <1>4, <1>7 DEF Becomes, EndsOf
<1>11. Ends'  BY <1>3, <1>4, <1>6, <1>7, <1>8, <1>10, EndsKept DEF Becomes, PumpBecomes
<1>12. QED  BY <1>9, <1>11 DEF Shape

\* A record is emitted.
LEMMA EmitShape ==
    ASSUME Shape, UNCHANGED serverVars, NEW s \in Session, NEW inside \in BOOLEAN, Emit(s, inside)
    PROVE  Shape'
<1> USE DEF serverVars
<1>1. /\ emitted[s] \in 0 .. MaxRecords /\ emitted[s] < MaxRecords /\ MaxRecords \in Nat
      /\ emitted' \in [Session -> 0 .. MaxRecords]
  <2>1. emitted \in [Session -> 0 .. MaxRecords] /\ MaxRecords \in Nat
    BY WireAssumption DEF Shape, TypeOK
  <2>2. emitted[s] + 1 \in 0 .. MaxRecords  BY <2>1 DEF Emit
  <2>3. emitted' = [emitted EXCEPT ![s] = emitted[s] + 1]  BY DEF Emit
  <2>4. QED  BY <2>1, <2>2, <2>3 DEF Emit
<1> DEFINE r == <<s, emitted[s] + 1>>
<1>2. r \in Record
  <2>1. emitted[s] + 1 \in 1 .. MaxRecords  BY <1>1
  <2>2. QED  BY <2>1 DEF Record
<1>3. ring' \in Seq(Record)
  <2>1. ring' = ring \/ ring' = Append(ring, r)  BY DEF Emit
  <2>2. ring \in Seq(Record)  BY DEF Shape, TypeOK
  <2>3. Append(ring, r) \in Seq(Record)  BY <1>2, <2>2, AppendType
  <2>4. QED  BY <2>1, <2>2, <2>3
<1>4. lost' \subseteq Session \X (1 .. MaxRecords) \X Why
  <2>1. emitted[s] + 1 \in 1 .. MaxRecords  BY <1>1
  <2>2. lost' = lost \/ \E why \in Why : lost' = lost \cup {<<s, emitted[s] + 1, why>>}
    BY DEF Emit, Because
  <2>3. QED  BY <2>1, <2>2 DEF Shape, TypeOK
<1>5. UNCHANGED <<run, path, listening, active, registered, handler, tell, ledger, kills, conn, daemon,
                  cur, pump, armed, bound, nextIdx, shed, breaks, crashes, issued, reissued>>
  BY DEF Emit, bounds
<1>6. TypeOK'  BY <1>1, <1>3, <1>4, <1>5 DEF Shape, TypeOK
<1>7. Ends'  BY <1>5 DEF Shape, Ends, EndsOf
<1>8. QED  BY <1>6, <1>7 DEF Shape

\* A frame is put behind the others on its way up: what a closed end, and the
\* order of the frames, allow.
LEMMA BehindHello ==
    ASSUME Shape, NEW k \in Conn, NEW f \in UpFrame, f # Hello, conn[k].svcOpen,
           conn'[k].svcOpen, conn'[k].svc = conn[k].svc, conn'[k].up = Append(conn[k].up, f),
           UNCHANGED <<handler, registered>>
    PROVE  EndsOf(k)'
<1> DEFINE q == conn[k].up
           u == Append(q, f)
<1>1. q \in Seq(UpFrame)  BY DEF Shape, TypeOK, Connection
<1>2. /\ u # <<>>
      /\ q # <<>> => u[1] = q[1]
      /\ \A i \in DOMAIN u : (i \in DOMAIN q /\ u[i] = q[i]) \/ u[i] = f
  BY <1>1, AppendType
<1>3. EndsOf(k)  BY DEF Shape, Ends
<1>4. conn[k].svc \in Session  BY <1>3 DEF EndsOf, NoConn
<1>5. conn'[k].up = u  OBVIOUS
<1> HIDE DEF u
<1>6. handler'[k] = "hello" => u # <<>> /\ u[1] = Hello  BY <1>2, <1>3 DEF EndsOf
<1>7. \A i \in DOMAIN u : u[i] = Hello => i = 1 /\ handler'[k] = "hello"
  BY <1>2, <1>3 DEF EndsOf
<1>8. QED  BY <1>4, <1>5, <1>6, <1>7 DEF EndsOf

\* The peer's Hello arrives.
LEMMA HelloShape ==
    ASSUME Shape, UNCHANGED serverVars, HelloArrives
    PROVE  Shape'
<1> USE DEF serverVars, shared, bounds, history
<1> DEFINE k == cur
           f == [kind |-> "restart"]
           u == Append(conn[k].up, f)
           d == Tail(conn[k].down)
<1>1. k \in Conn /\ conn \in [Conn -> Connection] /\ conn[k] \in Connection
      /\ conn[k].up \in Seq(UpFrame) /\ conn[k].down \in Seq(DownFrame) /\ conn[k].down # <<>>
      /\ conn[k].svcOpen
  BY DEF Shape, TypeOK, Connection, HelloArrives
<1>2. d \in Seq(DownFrame)  BY <1>1, TailType
<1>3. f \in UpFrame /\ f # Hello  BY DEF UpFrame, Hello
<1>4. u \in Seq(UpFrame)  BY <1>1, <1>3, AppendType
<1>5. Becomes(k, [conn[k] EXCEPT !.up = u, !.down = d])
  <2>1. conn' = [conn EXCEPT ![k].up = u, ![k].down = d]  BY DEF HelloArrives
  <2>2. QED  BY <1>1, <1>2, <1>4, <2>1, BothChange
<1>6. NewPump \in PumpState  BY DEF NewPump, NoPump, PumpState
<1>7. PumpBecomes(k, NewPump)
  BY <1>1, <1>6 DEF HelloArrives, PumpBecomes, Shape, TypeOK
<1>8. /\ UNCHANGED <<run, path, listening, active, registered, handler, tell, ledger, kills>>
      /\ UNCHANGED <<cur, armed, bound, nextIdx, ring, shed, breaks, crashes, emitted, lost, issued, reissued>>
      /\ daemon' = "serve"
  BY DEF HelloArrives
<1>9. conn'[k].svcOpen /\ conn'[k].svc = conn[k].svc /\ conn'[k].up = u
  BY <1>1, <1>5 DEF Becomes, Connection
<1> HIDE DEF f, u, d
<1>10. TypeOK'
  <2>1. conn' \in [Conn -> Connection] /\ pump' \in [Conn -> PumpState]
    BY <1>5, <1>7 DEF Becomes, PumpBecomes
  <2>2. cur' \in Conn \cup {0} /\ cur' # 0  BY <1>1, <1>8 DEF Conn
  <2>3. QED  BY <1>8, <2>1, <2>2 DEF Shape, TypeOK
<1>11. EndsOf(k)'
  <2>1. conn'[k].up = Append(conn[k].up, f)  BY <1>9 DEF u
  <2>2. QED  BY <1>1, <1>3, <1>8, <1>9, <2>1, BehindHello
<1>12. Ends'  BY <1>1, <1>5, <1>7, <1>8, <1>11, EndsKept DEF Becomes, PumpBecomes
<1>13. QED  BY <1>10, <1>12 DEF Shape

\* The daemon gives a connection up.
LEMMA BackToDialShape ==
    ASSUME Shape, UNCHANGED serverVars, HelloFails \/ ServeConnectionReturns
    PROVE  Shape'
<1> USE DEF serverVars, shared, bounds, history
<1>1. /\ cur \in Conn /\ conn \in [Conn -> Connection] /\ conn[cur] \in Connection
      /\ conn' = [conn EXCEPT ![cur].ranadOpen = FALSE, ![cur].down = <<>>]
      /\ UNCHANGED <<run, path, listening, active, registered, handler, tell, ledger, kills>>
      /\ UNCHANGED <<cur, pump, armed, bound, nextIdx, ring, shed, breaks, crashes, emitted, lost, issued, reissued>>
      /\ daemon' = "dial"
  BY DEF Shape, TypeOK, HelloFails, ServeConnectionReturns
<1>2. Becomes(cur, [conn[cur] EXCEPT !.ranadOpen = FALSE, !.down = <<>>])
  BY <1>1, RanadCloses
<1>3. TypeOK'  BY <1>1, <1>2 DEF Becomes, Shape, TypeOK
<1>4. EndsOf(cur)'
  <2>1. conn'[cur].svcOpen = conn[cur].svcOpen /\ conn'[cur].up = conn[cur].up /\ conn'[cur].svc = conn[cur].svc
    BY <1>1, <1>2 DEF Becomes, Connection
  <2>2. conn[cur].svc \notin Session => conn'[cur] = NoConn
    <3>1. conn[cur].svc \notin Session => conn[cur] = NoConn  BY <1>1 DEF Shape, Ends, EndsOf
    <3>2. conn'[cur] = [conn[cur] EXCEPT !.ranadOpen = FALSE, !.down = <<>>]  BY <1>2 DEF Becomes
    <3>3. QED  BY <3>1, <3>2, NoConnCloses
  <2>3. QED  BY <1>1, <2>1, <2>2 DEF Shape, Ends, EndsOf
<1>5. Ends'  BY <1>1, <1>2, <1>4, EndsKept DEF Becomes
<1>6. QED  BY <1>3, <1>5 DEF Shape

\* A Pump moves on with its end of the connection as it was, or with a frame
\* less to read.
LEMMA InboundShape ==
    ASSUME Shape, UNCHANGED serverVars, NEW k \in Conn, InboundStep(k) \/ InboundBreaks(k)
    PROVE  Shape'
<1> USE DEF serverVars, shared, bounds, history
<1>1. /\ conn \in [Conn -> Connection] /\ conn[k] \in Connection /\ pump \in [Conn -> PumpState]
      /\ pump[k] \in PumpState /\ NoPump.inbound = "none"
  BY DEF Shape, TypeOK, NoPump
<1>2. pump[k].inbound # "none" /\ pump[k] # NoPump
  <2>1. pump[k].inbound # "none"
    BY DEF InboundStep, ArmSession, BindCgid, QueueSessionEnd, InboundReturns, InboundBreaks,
           Inbound
  <2>2. QED  BY <1>1, <2>1
<1>3. conn[k].svc \in Session  BY <1>2 DEF Shape, Ends, EndsOf
<1>4. /\ conn' \in [Conn -> Connection] /\ conn'[k].svcOpen = conn[k].svcOpen
      /\ conn'[k].up = conn[k].up /\ conn'[k].svc = conn[k].svc /\ conn'[k].ranadOpen = conn[k].ranadOpen
      /\ \A j \in Conn \ {k} : conn'[j] = conn[j]
  <2>1. CASE conn' = conn  BY <1>1, <2>1
  <2>2. CASE \E f \in {"start", "end"} : Inbound(k, f)
    <3>1. conn[k].down \in Seq(DownFrame) /\ conn[k].down # <<>>
      BY <1>1, <2>2 DEF Connection, Inbound
    <3>2. Tail(conn[k].down) \in Seq(DownFrame)  BY <3>1, TailType
    <3>3. Becomes(k, [conn[k] EXCEPT !.down = Tail(conn[k].down)])
      <4>1. conn' = [conn EXCEPT ![k].down = Tail(conn[k].down)]  BY <2>2 DEF Inbound
      <4>2. QED  BY <1>1, <3>2, <4>1, DownChanges
    <3>4. QED  BY <1>1, <3>3 DEF Becomes, Connection
  <2>3. QED
    BY <2>1, <2>2 DEF InboundStep, ArmSession, BindCgid, QueueSessionEnd, InboundReturns,
                      InboundBreaks
<1>5. pump' \in [Conn -> PumpState] /\ \A j \in Conn \ {k} : pump'[j] = pump[j]
  <2>1. CASE ArmSession(k)  BY <1>1, <2>1, StartRemembered DEF ArmSession, PumpBecomes
  <2>2. CASE BindCgid(k)  BY <1>1, <2>2, InboundGoes DEF BindCgid, PumpBecomes
  <2>3. CASE QueueSessionEnd(k)  BY <1>1, <2>3, EndQueued DEF QueueSessionEnd, PumpBecomes
  <2>4. CASE InboundReturns(k) \/ InboundBreaks(k)
    BY <1>1, <2>4, InboundGoes DEF InboundReturns, InboundBreaks, PumpBecomes
  <2>5. QED  BY <2>1, <2>2, <2>3, <2>4 DEF InboundStep
<1>6. /\ UNCHANGED <<run, path, listening, active, registered, handler, tell, ledger, kills>>
      /\ UNCHANGED <<daemon, cur, nextIdx, ring, shed, crashes, emitted, lost, issued, reissued>>
  BY DEF InboundStep, ArmSession, BindCgid, QueueSessionEnd, InboundReturns, InboundBreaks
<1>7. armed' \subseteq Session /\ bound' \subseteq Session /\ breaks' \in Nat
  BY <1>3 DEF InboundStep, ArmSession, BindCgid, QueueSessionEnd, InboundReturns, InboundBreaks,
              Shape, TypeOK
<1>8. TypeOK'  BY <1>4, <1>5, <1>6, <1>7 DEF Shape, TypeOK
<1>9. EndsOf(k)'
  <2>1. EndsOf(k)  BY DEF Shape, Ends
  <2>2. QED  BY <1>3, <1>4, <1>6, <2>1 DEF EndsOf
<1>10. daemon' = "hello" => conn'[cur'].ranadOpen
  <2>1. daemon = "hello" => conn[cur].ranadOpen /\ cur \in Conn  BY DEF Shape, TypeOK, Ends
  <2>2. QED  BY <1>4, <1>6, <2>1
<1>11. Ends'
  <2>1. \A j \in Conn \ {k} : /\ conn'[j] = conn[j] /\ pump'[j] = pump[j] /\ handler'[j] = handler[j]
                              /\ j \in registered' => j \in registered
    BY <1>4, <1>5, <1>6
  <2>2. QED  BY <1>9, <1>10, <2>1, EndsKept
<1>12. QED  BY <1>8, <1>11 DEF Shape

\* What the outbound goroutine's steps have in common: the frame of connection
\* k is written, or cannot be, or there is none.
LEMMA WriteShape ==
    ASSUME Shape, UNCHANGED serverVars, UNCHANGED <<daemon, cur>>, NEW k \in Conn, NEW f \in UpFrame,
           f # Hello, conn' = conn \/ conn' = WithUp(k, f), pump[k].outbound # "none",
           \E p \in PumpState : PumpBecomes(k, p)
    PROVE  Ends' /\ conn' \in [Conn -> Connection] /\ pump' \in [Conn -> PumpState]
<1>1. /\ conn \in [Conn -> Connection] /\ conn[k] \in Connection
      /\ UNCHANGED <<handler, registered>>
  BY DEF Shape, TypeOK, serverVars
<1>2. conn[k].svc \in Session
  <2>1. NoPump.outbound = "none"  BY DEF NoPump
  <2>2. EndsOf(k)  BY DEF Shape, Ends
  <2>3. QED  BY <2>1, <2>2 DEF EndsOf
<1>3. /\ pump' \in [Conn -> PumpState] /\ \A j \in Conn \ {k} : pump'[j] = pump[j]
  BY DEF PumpBecomes
<1>4. CASE conn' = conn
  <2>1. EndsOf(k)'  BY <1>1, <1>2, <1>4 DEF Shape, Ends, EndsOf
  <2>2. daemon' = "hello" => conn'[cur'].ranadOpen  BY <1>4 DEF Shape, Ends
  <2>3. \A j \in Conn \ {k} : /\ conn'[j] = conn[j] /\ pump'[j] = pump[j] /\ handler'[j] = handler[j]
                              /\ j \in registered' => j \in registered
    BY <1>1, <1>3, <1>4
  <2>4. Ends'  BY <2>1, <2>2, <2>3, EndsKept
  <2>5. QED  BY <1>1, <1>3, <1>4, <2>4
<1>5. CASE conn' # conn
  <2>1. Linked(k) /\ Becomes(k, [conn[k] EXCEPT !.up = Append(conn[k].up, f)])
    BY <1>1, <1>5, WrittenUp
  <2>2. /\ conn[k].svcOpen /\ conn'[k].svcOpen /\ conn'[k].svc = conn[k].svc
        /\ conn'[k].up = Append(conn[k].up, f) /\ conn'[k].ranadOpen = conn[k].ranadOpen
    BY <1>1, <2>1 DEF Becomes, Connection, Linked
  <2>3. EndsOf(k)'  BY <1>1, <2>2, BehindHello
  <2>4. daemon' = "hello" => conn'[cur'].ranadOpen
    <3>1. daemon = "hello" => conn[cur].ranadOpen /\ cur \in Conn  BY DEF Shape, TypeOK, Ends
    <3>2. QED  BY <2>1, <2>2, <3>1 DEF Becomes
  <2>5. \A j \in Conn \ {k} : /\ conn'[j] = conn[j] /\ pump'[j] = pump[j] /\ handler'[j] = handler[j]
                              /\ j \in registered' => j \in registered
    BY <1>1, <1>3, <2>1 DEF Becomes
  <2>6. QED  BY <1>3, <2>1, <2>3, <2>4, <2>5, EndsKept DEF Becomes
<1>6. QED  BY <1>4, <1>5

\* Frames that carry and count records.
LEMMA RecordFrame ==
    /\ \A r \in Record, i \in Nat : /\ [kind |-> "ev", rec |-> r, idx |-> i] \in UpFrame
                                    /\ [kind |-> "ev", rec |-> r, idx |-> i] # Hello
    /\ \A R \in SUBSET Record : [kind |-> "gap", lost |-> R] \in UpFrame /\ [kind |-> "gap", lost |-> R] # Hello
    /\ [kind |-> "restart"] \in UpFrame \ {Hello}
<1>1. \A r \in Record, i \in Nat : /\ [kind |-> "ev", rec |-> r, idx |-> i] \in UpFrame
                                   /\ [kind |-> "ev", rec |-> r, idx |-> i] # Hello
  <2>1. ASSUME NEW r \in Record, NEW i \in Nat
        PROVE  /\ [kind |-> "ev", rec |-> r, idx |-> i] \in UpFrame
               /\ [kind |-> "ev", rec |-> r, idx |-> i].kind # Hello.kind
    BY DEF UpFrame, Hello
  <2>2. QED  BY <2>1
<1>2. \A R \in SUBSET Record : [kind |-> "gap", lost |-> R] \in UpFrame /\ [kind |-> "gap", lost |-> R] # Hello
  <2>1. ASSUME NEW R \in SUBSET Record
        PROVE  [kind |-> "gap", lost |-> R] \in UpFrame /\ [kind |-> "gap", lost |-> R].kind # Hello.kind
    BY DEF UpFrame, Hello
  <2>2. QED  BY <2>1
<1>3. [kind |-> "restart"] \in UpFrame \ {Hello}
  <2>1. [kind |-> "restart"] \in UpFrame /\ [kind |-> "restart"].kind # Hello.kind
    BY DEF UpFrame, Hello
  <2>2. QED  BY <2>1
<1>4. QED  BY <1>1, <1>2, <1>3

\* Records that are gone for a reason.
LEMMA LostType ==
    ASSUME NEW why \in Why, NEW R \in SUBSET Record
    PROVE  Because(why, R) \subseteq Session \X (1 .. MaxRecords) \X Why
BY DEF Because, Record

\* The record at the head of the ring buffer, and what enrich does.
LEMMA TakenType ==
    ASSUME Shape, ring # <<>>
    PROVE  /\ Taken \in Record /\ Tail(ring) \in Seq(Record) /\ Taken[1] \in Session
           /\ Taken = <<Taken[1], Taken[2]>>
<1>1. ring \in Seq(Record)  BY DEF Shape, TypeOK
<1>2. Taken \in Record /\ Tail(ring) \in Seq(Record)  BY <1>1, TailType DEF Taken
<1>3. QED  BY <1>2 DEF Record

\* An index is issued: the counters stay numbers.
LEMMA EnrichType ==
    ASSUME Shape, NEW s \in Session, Enrich(s)
    PROVE  /\ nextIdx' \in [Session -> Nat] /\ issued' \in [Session -> Nat] /\ reissued' \subseteq Session
           /\ nextIdx[s] \in Nat
<1>1. nextIdx \in [Session -> Nat] /\ issued \in [Session -> Nat] /\ reissued \subseteq Session
  BY DEF Shape, TypeOK
<1>2. issued' \in [Session -> Nat]
  <2>1. issued' = [issued EXCEPT ![s] = IF nextIdx[s] < issued[s] THEN issued[s] ELSE nextIdx[s] + 1]
    BY DEF Enrich
  <2>2. QED  BY <1>1, <2>1
<1>3. QED  BY <1>1, <1>2 DEF Enrich, IndexTaken

\* What is written and what is lost are records and frames; the Pump stays a
\* Pump.
LEMMA OutboundTypes ==
    ASSUME Shape, NEW k \in Conn, OutboundStep(k)
    PROVE  /\ ring' \in Seq(Record) /\ shed' \subseteq Record
           /\ lost' \subseteq Session \X (1 .. MaxRecords) \X Why
           /\ nextIdx' \in [Session -> Nat] /\ issued' \in [Session -> Nat] /\ reissued' \subseteq Session
           /\ armed' \subseteq Session /\ bound' \subseteq Session
           /\ \E p \in PumpState : PumpBecomes(k, p)
           /\ \E f \in UpFrame \ {Hello} : conn' = conn \/ conn' = WithUp(k, f)
           /\ pump[k].outbound # "none" /\ conn[k].svc \in Session
<1> USE DEF shared, bounds, history
<1> DEFINE L == Session \X (1 .. MaxRecords) \X Why
<1>1. /\ pump \in [Conn -> PumpState] /\ pump[k] \in PumpState
      /\ ring \in Seq(Record) /\ shed \subseteq Record /\ lost \subseteq L
      /\ nextIdx \in [Session -> Nat] /\ issued \in [Session -> Nat] /\ reissued \subseteq Session
      /\ armed \subseteq Session /\ bound \subseteq Session
  BY DEF Shape, TypeOK
<1>2. pump[k].outbound # "none" /\ conn[k].svc \in Session
  <2>1. pump[k].outbound # "none"
    BY DEF OutboundStep, SkipUnknown, ForwardRecord, ShedRecord, DrainReturns, FlushGaps,
           DrainEndedSessions
  <2>2. NoPump.outbound = "none"  BY DEF NoPump
  <2>3. EndsOf(k)  BY DEF Shape, Ends
  <2>4. QED  BY <2>1, <2>2, <2>3 DEF EndsOf
<1>3. /\ {"send", "count", "unknown"} \subseteq Why /\ [kind |-> "restart"] \in UpFrame \ {Hello}
      /\ \A why \in Why : \A R \in SUBSET Record : Because(why, R) \subseteq L
  BY LostType, RecordFrame DEF Why
<1>4. \A x \in {"none", "drain", "gaps", "ended"} :
        pump' = [pump EXCEPT ![k].outbound = x] => \E p \in PumpState : PumpBecomes(k, p)
  <2>1. ASSUME NEW x \in {"none", "drain", "gaps", "ended"}, pump' = [pump EXCEPT ![k].outbound = x]
        PROVE  \E p \in PumpState : PumpBecomes(k, p)
    BY <1>1, <2>1, OutboundGoes DEF PumpBecomes
  <2>2. QED  BY <2>1
<1>5. pump' = pump => \E p \in PumpState : PumpBecomes(k, p)
  BY <1>1 DEF PumpBecomes
<1> HIDE DEF L
<1>6. CASE SkipUnknown(k)
  <2>1. Taken \in Record /\ Tail(ring) \in Seq(Record)  BY <1>6, TakenType DEF SkipUnknown
  <2>2. Because("unknown", {Taken}) \subseteq L  BY <1>3, <2>1
  <2>3. QED  BY <1>1, <1>2, <1>3, <1>5, <1>6, <2>1, <2>2 DEF SkipUnknown, L
<1>7. CASE ForwardRecord(k)
  <2>1. Taken \in Record /\ Tail(ring) \in Seq(Record) /\ Taken[1] \in Session
    BY <1>7, TakenType DEF ForwardRecord
  <2>2. /\ nextIdx' \in [Session -> Nat] /\ issued' \in [Session -> Nat] /\ reissued' \subseteq Session
        /\ nextIdx[Taken[1]] \in Nat
    BY <1>7, <2>1, EnrichType DEF ForwardRecord
  <2> DEFINE f == [kind |-> "ev", rec |-> Taken, idx |-> nextIdx[Taken[1]]]
  <2>3. f \in UpFrame \ {Hello}  BY <2>1, <2>2, RecordFrame
  <2> HIDE DEF f
  <2>4. /\ conn' = WithUp(k, f) /\ pump' = [pump EXCEPT ![k].outbound = IF Linked(k) THEN "drain" ELSE "none"]
        /\ lost' = lost \/ lost' = lost \cup Because("send", {Taken})
        /\ UNCHANGED <<shed, armed, bound>> /\ ring' = Tail(ring)
    BY <1>7 DEF ForwardRecord, Send, f
  <2>5. Because("send", {Taken}) \subseteq L  BY <1>3, <2>1
  <2>6. \E p \in PumpState : PumpBecomes(k, p)  BY <1>4, <2>4
  <2>7. lost' \subseteq L  BY <1>1, <2>4, <2>5
  <2>8. QED  BY <1>1, <1>2, <2>1, <2>2, <2>3, <2>4, <2>6, <2>7 DEF L
<1>8. CASE ShedRecord(k)
  <2>1. Taken \in Record /\ Tail(ring) \in Seq(Record) /\ Taken[1] \in Session
    BY <1>8, TakenType DEF ShedRecord
  <2>2. /\ nextIdx' \in [Session -> Nat] /\ issued' \in [Session -> Nat] /\ reissued' \subseteq Session
    BY <1>8, <2>1, EnrichType DEF ShedRecord
  <2>3. QED  BY <1>1, <1>2, <1>3, <1>5, <1>8, <2>1, <2>2 DEF ShedRecord, L
<1>9. CASE DrainReturns(k)
  BY <1>1, <1>2, <1>3, <1>4, <1>9 DEF DrainReturns, L
<1>10. CASE FlushGaps(k)
  <2> DEFINE f == [kind |-> "gap", lost |-> Due]
  <2>1. Due \subseteq Record /\ AfterFlush \subseteq Record  BY <1>1 DEF Due, AfterFlush
  <2>2. f \in UpFrame \ {Hello}  BY <2>1, RecordFrame
  <2>3. Because("count", Due) \subseteq L  BY <1>3, <2>1
  <2> HIDE DEF f
  <2>4. /\ conn' = conn \/ conn' = WithUp(k, f)
        /\ \E x \in {"none", "ended"} : pump' = [pump EXCEPT ![k].outbound = x]
        /\ lost' = lost \/ lost' = lost \cup Because("count", Due)
        /\ shed' = shed \/ shed' = AfterFlush
        /\ UNCHANGED <<armed, bound, nextIdx, ring, issued, reissued>>
    BY <1>10 DEF FlushGaps, Send, f
  <2>5. \E p \in PumpState : PumpBecomes(k, p)  BY <1>4, <2>4
  <2>6. lost' \subseteq L /\ shed' \subseteq Record  BY <1>1, <2>1, <2>3, <2>4
  <2>7. QED  BY <1>1, <1>2, <2>2, <2>4, <2>5, <2>6 DEF L
<1>11. CASE DrainEndedSessions(k)
  <2>1. CASE ~pump[k].ended
    BY <1>1, <1>2, <1>3, <1>4, <1>11, <2>1 DEF DrainEndedSessions, L
  <2>2. CASE pump[k].ended
    <3> DEFINE s == conn[k].svc
               final == {r \in shed : r[1] = s}
               f == [kind |-> "gap", lost |-> final]
    <3>1. final \subseteq Record  BY <1>1
    <3>2. f \in UpFrame \ {Hello}  BY <3>1, RecordFrame
    <3>3. Because("count", final) \subseteq L  BY <1>3, <3>1
    <3>4. /\ conn' = conn \/ conn' = WithUp(k, f)
          /\ lost' = lost \/ lost' = lost \cup Because("count", final)
          /\ shed' = shed \ final /\ nextIdx' = [nextIdx EXCEPT ![s] = 0]
          /\ armed' = armed \ Disarmed(k) /\ bound' = bound \ {s}
          /\ UNCHANGED <<ring, issued, reissued>>
      BY <1>11, <2>2 DEF DrainEndedSessions
    <3>5. \E x \in {"none", "drain"} :
            pump' = [pump EXCEPT ![k].ended = FALSE, ![k].cgid = FALSE, ![k].outbound = x]
      BY <1>11, <2>2 DEF DrainEndedSessions
    <3>6. \E p \in PumpState : PumpBecomes(k, p)  BY <1>1, <3>5, EndForgotten DEF PumpBecomes
    <3> HIDE DEF final, f
    <3>7. lost' \subseteq L /\ shed' \subseteq Record /\ nextIdx' \in [Session -> Nat]
      BY <1>1, <3>3, <3>4
    <3>8. QED  BY <1>1, <1>2, <3>2, <3>4, <3>6, <3>7 DEF L
  <2>3. QED  BY <2>1, <2>2
<1>12. QED  BY <1>6, <1>7, <1>8, <1>9, <1>10, <1>11 DEF OutboundStep

\* The outbound goroutine.
LEMMA OutboundShape ==
    ASSUME Shape, UNCHANGED serverVars, NEW k \in Conn, OutboundStep(k)
    PROVE  Shape'
<1>1. /\ UNCHANGED <<daemon, cur, emitted, breaks, crashes>>
      /\ UNCHANGED <<run, path, listening, active, registered, handler, tell, ledger, kills>>
  BY DEF OutboundStep, SkipUnknown, ForwardRecord, ShedRecord, DrainReturns, FlushGaps,
         DrainEndedSessions,
         serverVars, shared, bounds, history
<1>2. PICK f \in UpFrame \ {Hello} : conn' = conn \/ conn' = WithUp(k, f)  BY OutboundTypes
<1>3. Ends' /\ conn' \in [Conn -> Connection] /\ pump' \in [Conn -> PumpState]
  BY <1>1, <1>2, OutboundTypes, WriteShape
<1>4. TypeOK'  BY <1>1, <1>3, OutboundTypes DEF Shape, TypeOK
<1>5. QED  BY <1>3, <1>4 DEF Shape

\* ranad dies.
LEMMA CrashShape ==
    ASSUME Shape, UNCHANGED serverVars, Crash
    PROVE  Shape'
<1> USE DEF serverVars
<1>1. conn \in [Conn -> Connection] /\ NoPump \in PumpState /\ crashes \in Nat
  BY DEF Shape, TypeOK, NoPump, PumpState
<1>2. /\ conn' \in [Conn -> Connection]
      /\ \A k \in Conn : /\ conn'[k] = [conn[k] EXCEPT !.ranadOpen = FALSE, !.down = <<>>]
                         /\ conn'[k].svcOpen = conn[k].svcOpen /\ conn'[k].up = conn[k].up
                         /\ conn'[k].svc = conn[k].svc
  <2>1. <<>> \in Seq(DownFrame)  OBVIOUS
  <2>2. \A k \in Conn : [conn[k] EXCEPT !.ranadOpen = FALSE, !.down = <<>>] \in Connection
    BY <1>1, <2>1, Zenon DEF Connection
  <2>3. conn' = [k \in Conn |-> [conn[k] EXCEPT !.ranadOpen = FALSE, !.down = <<>>]]  BY DEF Crash
  <2>4. QED  BY <1>1, <2>2, <2>3 DEF Connection
<1>3. lost' \subseteq Session \X (1 .. MaxRecords) \X Why
  <2>1. shed \cup {ring[i] : i \in DOMAIN ring} \subseteq Record
    <3>1. ring \in Seq(Record) /\ shed \subseteq Record  BY DEF Shape, TypeOK
    <3>2. QED  BY <3>1
  <2>2. QED  BY <2>1, LostType DEF Crash, Shape, TypeOK, Why
<1>4. TypeOK'
  <2>1. ring' \in Seq(Record) /\ shed' \subseteq Record
    <3>1. ring' = <<>> /\ shed' = {}  BY DEF Crash
    <3>2. <<>> \in Seq(Record)  OBVIOUS
    <3>3. QED  BY <3>1, <3>2
  <2>2. nextIdx' \in [Session -> Nat] /\ pump' \in [Conn -> PumpState] /\ crashes' \in Nat
    <3>1. /\ nextIdx' = [s \in Session |-> 0] /\ pump' = [k \in Conn |-> NoPump]
          /\ crashes' = crashes + 1
      BY DEF Crash
    <3>2. [s \in Session |-> 0] \in [Session -> Nat]  OBVIOUS
    <3>3. QED  BY <1>1, <3>1, <3>2
  <2>3. QED  BY <1>2, <1>3, <2>1, <2>2 DEF Crash, Shape, TypeOK
<1>5. \A k \in Conn : EndsOf(k)'
  <2>1. ASSUME NEW k \in Conn PROVE EndsOf(k)'
    <3>1. conn[k].svc \notin Session => conn'[k] = NoConn
      <4>1. conn[k].svc \notin Session => conn[k] = NoConn  BY DEF Shape, Ends, EndsOf
      <4>2. QED  BY <1>2, <4>1, NoConnCloses
    <3>2. pump'[k] = NoPump /\ UNCHANGED <<handler, registered>>  BY DEF Crash
    <3>3. EndsOf(k)  BY DEF Shape, Ends
    <3>4. QED  BY <1>2, <3>1, <3>2, <3>3 DEF EndsOf
  <2>2. QED  BY <2>1
<1>6. QED  BY <1>4, <1>5 DEF Shape, Ends, Crash

\* Every step keeps the types and the ends of the connections.
LEMMA ShapeKept == Shape /\ [Next]_vars => Shape'
<1> SUFFICES ASSUME Shape, [Next]_vars PROVE Shape'  OBVIOUS
<1>1. CASE ServerStep /\ UNCHANGED pumpVars
  <2>1. CASE \E s \in Session : Start(s) \/ AddProcess(s) \/ Abort(s) \/ EndSession(s) \/ Main(s)
    BY <1>1, <2>1, MainShape DEF Main
  <2>2. CASE \E s \in Session, k \in Conn : SendOne(s, k)  BY <1>1, <2>2, TellShape
  <2>3. CASE \E k \in Conn : Serve(k)  BY <1>1, <2>3, TellShape, ReadShape, ReturnShape DEF Serve
  <2>4. QED  BY <1>1, <2>1, <2>2, <2>3 DEF ServerStep, Announce
<1>2. CASE RanadStep /\ UNCHANGED serverVars
  <2>1. CASE \E s \in Session : Work(s)
    <3>1. TRUE \in BOOLEAN /\ FALSE \in BOOLEAN  OBVIOUS
    <3>2. QED  BY <1>2, <2>1, <3>1, EmitShape DEF Work
  <2>2. CASE DaemonStep  BY <1>2, <2>2, HelloShape, BackToDialShape DEF DaemonStep
  <2>3. CASE \E k \in Conn : InboundStep(k) \/ InboundBreaks(k)  BY <1>2, <2>3, InboundShape
  <2>4. CASE \E k \in Conn : OutboundStep(k)  BY <1>2, <2>4, OutboundShape
  <2>5. CASE Crash  BY <1>2, <2>5, CrashShape
  <2>6. QED  BY <1>2, <2>1, <2>2, <2>3, <2>4, <2>5 DEF RanadStep
<1>3. CASE \E s \in Session : Connect(s) \/ RunEnds(s)  BY <1>3, ConnectShape, RunEndsShape
<1>4. CASE UNCHANGED vars
  <2>1. TypeOK'  BY <1>4 DEF Shape, TypeOK, vars, serverVars, pumpVars, shared, bounds, history
  <2>2. Ends'
    BY <1>4 DEF Shape, Ends, EndsOf, vars, serverVars, pumpVars, shared, bounds, history
  <2>3. QED  BY <2>1, <2>2 DEF Shape
<1>5. QED  BY <1>1, <1>2, <1>3, <1>4 DEF Next

----------------------------------------------------------------------------
(* Places *)

RingAt   == <<"ring", 0>>
ShedAt   == <<"shed", 0>>
LedgerAt == <<"ledger", 0>>
GoneAt   == <<"gone", 0>>
UpAt(k)  == <<"conn", k>>

\* The places are these and no two of them are the same.
LEMMA Places ==
    /\ Place = {RingAt, ShedAt, LedgerAt, GoneAt} \cup {UpAt(k) : k \in Conn}
    /\ RingAt # ShedAt /\ RingAt # LedgerAt /\ RingAt # GoneAt
    /\ ShedAt # LedgerAt /\ ShedAt # GoneAt /\ LedgerAt # GoneAt
    /\ \A k : UpAt(k) # RingAt /\ UpAt(k) # ShedAt /\ UpAt(k) # LedgerAt /\ UpAt(k) # GoneAt
    /\ \A j, k : UpAt(j) = UpAt(k) => j = k
BY DEF Place, RingAt, ShedAt, LedgerAt, GoneAt, UpAt

\* What is at each of them, now and after a step.
LEMMA AtIs ==
    /\ At(RingAt) = Items(ring) /\ At(ShedAt) = shed /\ At(LedgerAt) = Carried(ledger)
    /\ At(GoneAt) = Gone /\ \A k \in Conn : At(UpAt(k)) = Carried(conn[k].up)
<1>1. At(RingAt) = Items(ring)  BY DEF At, RingAt, Items
<1>2. At(ShedAt) = shed  BY DEF At, ShedAt
<1>3. At(LedgerAt) = Carried(ledger)  BY DEF At, LedgerAt
<1>4. At(GoneAt) = Gone  BY DEF At, GoneAt
<1>5. \A k \in Conn : At(UpAt(k)) = Carried(conn[k].up)  BY DEF At, UpAt
<1>6. QED  BY <1>1, <1>2, <1>3, <1>4, <1>5

\* The same of the next state.
LEMMA AtNext ==
    /\ At(RingAt)' = Items(ring') /\ At(ShedAt)' = shed' /\ At(LedgerAt)' = Carried(ledger')
    /\ At(GoneAt)' = Gone' /\ \A k \in Conn : At(UpAt(k))' = Carried(conn'[k].up)
<1>1. At(RingAt)' = Items(ring')  BY DEF At, RingAt, Items
<1>2. At(ShedAt)' = shed'  BY DEF At, ShedAt
<1>3. At(LedgerAt)' = Carried(ledger')  BY DEF At, LedgerAt
<1>4. At(GoneAt)' = Gone'  BY DEF At, GoneAt
<1>5. \A k \in Conn : At(UpAt(k))' = Carried(conn'[k].up)  BY DEF At, UpAt
<1>6. QED  BY <1>1, <1>2, <1>3, <1>4, <1>5

Apart == \A p, q \in Place : p # q => At(p) \cap At(q) = {}
AllPlaced == UNION {At(p) : p \in Place} = Emitted
GoneOnce == \A l, m \in lost : <<l[1], l[2]>> = <<m[1], m[2]>> => l = m

\* OnePlace in the terms used here.
LEMMA OnePlaceParts ==
    OnePlace <=> /\ ItemsOnce(ring) /\ HeldOnce(ledger) /\ \A k \in Conn : HeldOnce(conn[k].up)
                 /\ GoneOnce /\ Apart /\ AllPlaced
BY DEF OnePlace, OnceEach, ItemsOnce, GoneOnce, Apart, AllPlaced

\* The same of the next state.
LEMMA OnePlaceNext ==
    OnePlace' <=> /\ ItemsOnce(ring') /\ HeldOnce(ledger') /\ \A k \in Conn : HeldOnce(conn'[k].up)
                  /\ GoneOnce' /\ Apart' /\ AllPlaced'
BY DEF OnePlace, OnceEach, ItemsOnce, GoneOnce, Apart, AllPlaced

\* The records of S come to be at q, wherever they were.
LEMMA Moved ==
    ASSUME Apart, AllPlaced, NEW S, NEW q \in Place,
           \A p \in Place \ {q} : At(p)' = At(p) \ S,
           At(q)' = At(q) \cup S, Emitted' = Emitted \cup S
    PROVE  Apart' /\ AllPlaced'
<1>1. Apart'
  <2>1. ASSUME NEW p \in Place, NEW o \in Place, p # o PROVE (At(p) \cap At(o) = {})'
    <3>1. At(p) \cap At(o) = {}  BY <2>1 DEF Apart
    <3>2. CASE p = q  BY <2>1, <3>1, <3>2
    <3>3. CASE o = q  BY <2>1, <3>1, <3>3
    <3>4. CASE p # q /\ o # q  BY <2>1, <3>1, <3>4
    <3>5. QED  BY <3>2, <3>3, <3>4
  <2>2. QED  BY <2>1 DEF Apart
<1>2. AllPlaced'
  <2>1. ASSUME NEW p \in Place PROVE At(p)' \subseteq Emitted'
    <3>1. At(p) \subseteq Emitted  BY DEF AllPlaced
    <3>2. CASE p = q  BY <3>1, <3>2
    <3>3. CASE p # q  BY <3>1, <3>3
    <3>4. QED  BY <3>2, <3>3
  <2>2. ASSUME NEW r \in Emitted' PROVE \E p \in Place : r \in At(p)'
    <3>1. CASE r \in S  BY <3>1
    <3>2. CASE r \notin S
      <4>1. PICK p \in Place : r \in At(p)  BY <2>2, <3>2 DEF AllPlaced
      <4>2. CASE p = q  BY <4>1, <4>2
      <4>3. CASE p # q  BY <3>2, <4>1, <4>3
      <4>4. QED  BY <4>2, <4>3
    <3>3. QED  BY <3>1, <3>2
  <2>3. QED  BY <2>1, <2>2 DEF AllPlaced
<1>3. QED  BY <1>1, <1>2

\* Some of the records of one place come to be at another.
LEMMA MovedFrom ==
    ASSUME Apart, AllPlaced, NEW o \in Place, NEW q \in Place, o # q, NEW S \in SUBSET At(o),
           At(o)' = At(o) \ S, At(q)' = At(q) \cup S,
           \A p \in Place \ {o, q} : At(p)' = At(p), emitted' = emitted
    PROVE  Apart' /\ AllPlaced'
<1>1. \A p \in Place \ {q} : At(p)' = At(p) \ S
  <2>1. ASSUME NEW p \in Place \ {q, o} PROVE At(p)' = At(p) \ S
    <3>1. At(p) \cap At(o) = {}  BY <2>1 DEF Apart
    <3>2. At(p)' = At(p)  BY <2>1
    <3>3. QED  BY <3>1, <3>2
  <2>2. QED  BY <2>1
<1>2. Emitted' = Emitted \cup S
  <2>1. S \subseteq Emitted  BY DEF AllPlaced
  <2>2. Emitted' = Emitted  BY DEF Emitted
  <2>3. QED  BY <2>1, <2>2
<1>3. QED  BY <1>1, <1>2, Moved

\* A place nothing was done to.
LEMMA Unmoved ==
    ASSUME NEW p \in Place,
           p = RingAt => ring' = ring, p = ShedAt => shed' = shed, p = LedgerAt => ledger' = ledger,
           p = GoneAt => lost' = lost,
           \A k \in Conn : p = UpAt(k) => Carried(conn'[k].up) = Carried(conn[k].up)
    PROVE  At(p)' = At(p)
<1>1. CASE p = RingAt  BY <1>1, AtIs, AtNext
<1>2. CASE p = ShedAt  BY <1>2, AtIs, AtNext
<1>3. CASE p = LedgerAt  BY <1>3, AtIs, AtNext
<1>4. CASE p = GoneAt
  <2>1. Gone' = Gone  BY <1>4 DEF Gone
  <2>2. QED  BY <1>4, <2>1, AtIs, AtNext
<1>5. CASE \E k \in Conn : p = UpAt(k)  BY <1>5, AtIs, AtNext
<1>6. QED  BY <1>1, <1>2, <1>3, <1>4, <1>5, Places

\* Records that are gone for one more reason.
LEMMA GoneGrows ==
    ASSUME NEW S \in SUBSET Record, NEW why, lost' = lost \cup Because(why, S)
    PROVE  /\ Gone' = Gone \cup S
           /\ GoneOnce /\ S \cap Gone = {} => GoneOnce'
<1>1. \A r \in S : r = <<r[1], r[2]>>  BY DEF Record
<1>2. ASSUME NEW l \in Because(why, S)
      PROVE  <<l[1], l[2]>> \in S /\ l = <<l[1], l[2], why>>
  <2>1. PICK r \in S : l = <<r[1], r[2], why>>  BY DEF Because
  <2>2. l[1] = r[1] /\ l[2] = r[2]  BY <2>1
  <2>3. QED  BY <1>1, <2>1, <2>2
<1>3. ASSUME NEW r \in S PROVE \E l \in Because(why, S) : r = <<l[1], l[2]>>
  <2>1. <<r[1], r[2], why>> \in Because(why, S)  BY DEF Because
  <2>2. QED  BY <1>1, <2>1
<1>4. Gone' = Gone \cup S  BY <1>2, <1>3 DEF Gone
<1>5. ASSUME GoneOnce, S \cap Gone = {} PROVE GoneOnce'
  <2>1. ASSUME NEW l \in lost', NEW m \in lost', <<l[1], l[2]>> = <<m[1], m[2]>> PROVE l = m
    <3>1. l \in lost => <<l[1], l[2]>> \in Gone  BY DEF Gone
    <3>2. m \in lost => <<m[1], m[2]>> \in Gone  BY DEF Gone
    <3>3. CASE l \in lost /\ m \in lost  BY <1>5, <2>1, <3>3 DEF GoneOnce
    <3>4. CASE l \in Because(why, S) /\ m \in Because(why, S)
      <4>1. l = <<l[1], l[2], why>> /\ m = <<m[1], m[2], why>>  BY <1>2, <3>4
      <4>2. l[1] = m[1] /\ l[2] = m[2]  BY <2>1
      <4>3. QED  BY <4>1, <4>2
    <3>5. CASE l \in lost /\ m \in Because(why, S)  BY <1>2, <1>5, <2>1, <3>1, <3>5
    <3>6. CASE l \in Because(why, S) /\ m \in lost  BY <1>2, <1>5, <2>1, <3>2, <3>6
    <3>7. QED  BY <3>3, <3>4, <3>5, <3>6
  <2>2. QED  BY <2>1 DEF GoneOnce
<1>6. QED  BY <1>4, <1>5

----------------------------------------------------------------------------
(* Every record in one place *)

\* Nothing is anywhere.
LEMMA OnePlaceStart == Init => OnePlace
<1> SUFFICES ASSUME Init PROVE OnePlace  OBVIOUS
<1> USE DEF Init, ServerInit, PumpInit
<1>1. \A k \in Conn : conn[k].up = <<>>  BY DEF NoConn
<1>2. ring = <<>> /\ shed = {} /\ ledger = <<>> /\ lost = {}  OBVIOUS
<1>3. Items(<<>>) = {} /\ ItemsOnce(<<>>)  BY DEF Items, ItemsOnce
<1>4. \A p \in Place : At(p) = {}
  <2>1. Gone = {}  BY <1>2 DEF Gone
  <2>2. QED  BY <1>1, <1>2, <1>3, <2>1, AtIs, NothingHeld, Places
<1>5. Emitted = {}
  <2>1. \A r \in Record : r[1] \in Session /\ r[2] \in 1 .. MaxRecords  BY DEF Record
  <2>2. MaxRecords \in Nat /\ \A s \in Session : emitted[s] = 0  BY WireAssumption
  <2>3. QED  BY <2>1, <2>2 DEF Emitted
<1>6. Apart /\ AllPlaced /\ GoneOnce  BY <1>2, <1>4, <1>5 DEF Apart, AllPlaced, GoneOnce
<1>7. QED  BY <1>1, <1>2, <1>3, <1>6, NothingHeld, OnePlaceParts

\* Nothing is taken from anywhere: at most frames that hold nothing are read
\* or written.
LEMMA StaysPut ==
    ASSUME OnePlace, UNCHANGED <<ring, shed, ledger, lost, emitted>>,
           \A k \in Conn : \/ conn'[k].up = conn[k].up
                           \/ Carried(conn'[k].up) = Carried(conn[k].up) /\ HeldOnce(conn'[k].up)
    PROVE  OnePlace'
<1>1. \A p \in Place : At(p)' = At(p)
  <2>1. ASSUME NEW p \in Place PROVE At(p)' = At(p)  BY Unmoved
  <2>2. QED  BY <2>1
<1>2. Emitted' = Emitted  BY DEF Emitted
<1>3. Apart' /\ AllPlaced'  BY <1>1, <1>2, OnePlaceParts DEF Apart, AllPlaced
<1>4. \A k \in Conn : HeldOnce(conn'[k].up)  BY OnePlaceParts
<1>5. ItemsOnce(ring') /\ HeldOnce(ledger') /\ GoneOnce'  BY OnePlaceParts DEF GoneOnce
<1>6. QED  BY <1>3, <1>4, <1>5, OnePlaceNext

\* The steps that write down, move a goroutine on or close an end of an empty
\* connection.
LEMMA UpStays ==
    ASSUME Shape,
           \/ (ServerStep /\ UNCHANGED pumpVars) /\ \A k \in Conn : ~Register(k) /\ ~ReadFrame(k)
           \/ (HelloFails \/ ServeConnectionReturns) /\ UNCHANGED serverVars
           \/ (\E k \in Conn : InboundStep(k) \/ InboundBreaks(k)) /\ UNCHANGED serverVars
           \/ (\E k \in Conn : DrainReturns(k)) /\ UNCHANGED serverVars
    PROVE  (\A k \in Conn : conn'[k].up = conn[k].up) /\ UNCHANGED <<ring, shed, ledger, lost, emitted>>
<1> USE DEF serverVars, pumpVars, shared, bounds, history
<1>1. conn \in [Conn -> Connection] /\ \A k \in Conn : conn[k] \in Connection  BY DEF Shape, TypeOK
<1>2. ASSUME NEW k \in Conn, NEW c \in Connection, Becomes(k, c), c.up = conn[k].up
      PROVE  \A j \in Conn : conn'[j].up = conn[j].up
  BY <1>2 DEF Becomes
<1>3. CASE ServerStep /\ UNCHANGED pumpVars /\ \A k \in Conn : ~Register(k) /\ ~ReadFrame(k)
  <2>1. UNCHANGED <<ring, shed, ledger, lost, emitted>>
    BY <1>3 DEF ServerStep, Start, AddProcess, Abort, EndSession, Announce, Main,
                BroadcastSessionStart,
                StartChild, BroadcastSessionEnd, SendOne, Serve, SendReplay, HandleConnReturns
  <2>2. CASE conn' = conn  BY <2>1, <2>2
  <2>3. CASE \E k \in Conn, f \in DownFrame : conn' = WithDown(k, f)
    <3>1. PICK k \in Conn, f \in DownFrame : conn' = WithDown(k, f)  BY <2>3
    <3>2. CASE Linked(k)
      <4>1. Becomes(k, [conn[k] EXCEPT !.down = Append(conn[k].down, f)])
        BY <1>1, <3>1, <3>2, WrittenDown
      <4>2. \A j \in Conn : conn'[j].up = conn[j].up  BY <1>1, <4>1 DEF Becomes, Connection
      <4>3. QED  BY <2>1, <4>2
    <3>3. CASE ~Linked(k)  BY <2>1, <3>1, <3>3 DEF WithDown
    <3>4. QED  BY <3>2, <3>3
  <2>4. CASE \E k \in Conn : HandleConnReturns(k)
    <3>1. PICK k \in Conn : HandleConnReturns(k)  BY <2>4
    <3>2. Becomes(k, [conn[k] EXCEPT !.svcOpen = FALSE])
      BY <1>1, <3>1, SvcCloses DEF HandleConnReturns
    <3>3. \A j \in Conn : conn'[j].up = conn[j].up  BY <1>1, <3>2 DEF Becomes, Connection
    <3>4. QED  BY <2>1, <3>3
  <2>5. QED
    BY <1>3, <2>2, <2>3, <2>4
    DEF ServerStep, Start, AddProcess, Abort, EndSession, Announce, Main, BroadcastSessionStart,
        StartChild, BroadcastSessionEnd, SendOne, Serve, SendReplay, DownFrame
<1>4. CASE (HelloFails \/ ServeConnectionReturns) /\ UNCHANGED serverVars
  <2>1. cur \in Conn /\ conn' = [conn EXCEPT ![cur].ranadOpen = FALSE, ![cur].down = <<>>]
    BY <1>4 DEF HelloFails, ServeConnectionReturns, Shape, TypeOK
  <2>2. Becomes(cur, [conn[cur] EXCEPT !.ranadOpen = FALSE, !.down = <<>>])
    BY <1>1, <2>1, RanadCloses
  <2>3. \A j \in Conn : conn'[j].up = conn[j].up  BY <1>1, <2>1, <2>2 DEF Becomes, Connection
  <2>4. QED  BY <1>4, <2>3 DEF HelloFails, ServeConnectionReturns
<1>5. CASE (\E k \in Conn : InboundStep(k) \/ InboundBreaks(k)) /\ UNCHANGED serverVars
  <2>1. PICK k \in Conn : InboundStep(k) \/ InboundBreaks(k)  BY <1>5
  <2>2. CASE conn' = conn
    BY <1>5, <2>1, <2>2 DEF InboundStep, ArmSession, BindCgid, QueueSessionEnd, InboundReturns,
                            InboundBreaks
  <2>3. CASE \E f \in {"start", "end"} : Inbound(k, f)
    <3>1. conn' = [conn EXCEPT ![k].down = Tail(conn[k].down)] /\ conn[k].down # <<>>
      BY <2>3 DEF Inbound
    <3>2. Tail(conn[k].down) \in Seq(DownFrame)
      <4>1. conn[k].down \in Seq(DownFrame)  BY <1>1 DEF Connection
      <4>2. QED  BY <3>1, <4>1, TailType
    <3>3. Becomes(k, [conn[k] EXCEPT !.down = Tail(conn[k].down)])  BY <1>1, <3>1, <3>2, DownChanges
    <3>4. \A j \in Conn : conn'[j].up = conn[j].up  BY <1>1, <3>3 DEF Becomes, Connection
    <3>5. UNCHANGED <<ring, shed, ledger, lost, emitted>>
      BY <1>5, <2>1 DEF InboundStep, ArmSession, BindCgid, QueueSessionEnd, InboundReturns,
                        InboundBreaks
    <3>6. QED  BY <3>4, <3>5
  <2>4. QED
    BY <2>1, <2>2, <2>3 DEF InboundStep, ArmSession, BindCgid, QueueSessionEnd, InboundReturns,
                            InboundBreaks
<1>6. CASE (\E k \in Conn : DrainReturns(k)) /\ UNCHANGED serverVars
  BY <1>6 DEF DrainReturns
<1>7. QED  BY <1>3, <1>4, <1>5, <1>6

\* Records leave the ring buffer or the counts for a frame, or are gone.
LEMMA SentPlace ==
    ASSUME Shape, OnePlace, NEW k \in Conn, NEW o \in {RingAt, ShedAt}, NEW S \in SUBSET At(o),
           S \subseteq Record, NEW f \in UpFrame, Held(f) = S, NEW why,
           conn' = WithUp(k, f), lost' = IF Linked(k) THEN lost ELSE lost \cup Because(why, S),
           ItemsOnce(ring'), At(o)' = At(o) \ S, o = ShedAt => ring' = ring, o = RingAt => shed' = shed,
           UNCHANGED <<ledger, emitted>>
    PROVE  OnePlace'
<1>1. conn \in [Conn -> Connection] /\ conn[k] \in Connection /\ conn[k].up \in Seq(UpFrame)
  BY DEF Shape, TypeOK, Connection
<1>2. /\ ItemsOnce(ring) /\ HeldOnce(ledger) /\ \A j \in Conn : HeldOnce(conn[j].up)
      /\ GoneOnce /\ Apart /\ AllPlaced
  BY OnePlaceParts
<1>3. HeldOnce(ledger')  BY <1>2
<1>4. o \in Place /\ GoneAt \in Place /\ UpAt(k) \in Place /\ o # GoneAt /\ o # UpAt(k)
  BY Places
<1>5. S \cap At(GoneAt) = {} /\ S \cap At(UpAt(k)) = {}  BY <1>2, <1>4 DEF Apart
<1>6. CASE Linked(k)
  <2>1. Becomes(k, [conn[k] EXCEPT !.up = Append(conn[k].up, f)])  BY <1>1, <1>6, WrittenUp
  <2>2. /\ conn'[k].up = Append(conn[k].up, f) /\ \A j \in Conn \ {k} : conn'[j] = conn[j]
    BY <1>1, <2>1 DEF Becomes, Connection
  <2>3. /\ Carried(conn'[k].up) = Carried(conn[k].up) \cup S
        /\ HeldOnce(conn'[k].up)
    BY <1>1, <1>2, <1>5, <2>2, AppendHeld, AtIs
  <2>4. At(UpAt(k))' = At(UpAt(k)) \cup S  BY <2>3, AtIs, AtNext
  <2>5. \A p \in Place \ {o, UpAt(k)} : At(p)' = At(p)
    <3>1. ASSUME NEW p \in Place \ {o, UpAt(k)} PROVE At(p)' = At(p)
      <4>1. lost' = lost  BY <1>6
      <4>2. \A j \in Conn : p = UpAt(j) => Carried(conn'[j].up) = Carried(conn[j].up)
        BY <2>2, <3>1
      <4>3. p = RingAt => ring' = ring  BY <3>1
      <4>4. p = ShedAt => shed' = shed  BY <3>1
      <4>5. QED  BY <4>1, <4>2, <4>3, <4>4, Unmoved
    <3>2. QED  BY <3>1
  <2>6. Apart' /\ AllPlaced'  BY <1>2, <1>4, <2>4, <2>5, MovedFrom
  <2>7. GoneOnce'  BY <1>2, <1>6 DEF GoneOnce
  <2>8. \A j \in Conn : HeldOnce(conn'[j].up)  BY <1>2, <2>2, <2>3
  <2>9. QED  BY <1>3, <2>6, <2>7, <2>8, OnePlaceNext
<1>7. CASE ~Linked(k)
  <2>1. conn' = conn  BY <1>7 DEF WithUp
  <2>2. Gone' = Gone \cup S /\ GoneOnce'  BY <1>2, <1>5, <1>7, GoneGrows, AtIs
  <2>3. At(GoneAt)' = At(GoneAt) \cup S  BY <2>2, AtIs, AtNext
  <2>4. \A p \in Place \ {o, GoneAt} : At(p)' = At(p)
    <3>1. ASSUME NEW p \in Place \ {o, GoneAt} PROVE At(p)' = At(p)
      <4>1. \A j \in Conn : p = UpAt(j) => Carried(conn'[j].up) = Carried(conn[j].up)
        BY <2>1
      <4>2. p = RingAt => ring' = ring  BY <3>1
      <4>3. p = ShedAt => shed' = shed  BY <3>1
      <4>4. QED  BY <3>1, <4>1, <4>2, <4>3, Unmoved
    <3>2. QED  BY <3>1
  <2>5. Apart' /\ AllPlaced'  BY <1>2, <1>4, <2>3, <2>4, MovedFrom
  <2>6. \A j \in Conn : HeldOnce(conn'[j].up)  BY <1>2, <2>1
  <2>7. QED  BY <1>3, <2>2, <2>5, <2>6, OnePlaceNext
<1>8. QED  BY <1>6, <1>7

\* What leaves the head of the ring buffer.
LEMMA TakenFrom ==
    ASSUME Shape, ItemsOnce(ring), ring # <<>>
    PROVE  /\ Taken \in Record /\ {Taken} \subseteq At(RingAt) /\ ItemsOnce(Tail(ring))
           /\ Items(Tail(ring)) = Items(ring) \ {Taken}
<1>1. ring \in Seq(Record)  BY DEF Shape, TypeOK
<1>2. /\ Items(ring) = Items(Tail(ring)) \cup {Taken}
      /\ ItemsOnce(Tail(ring)) /\ Taken \notin Items(Tail(ring))
  BY <1>1, TailItem DEF Taken
<1>3. QED  BY <1>2, AtIs, TakenType

\* A frame that is emitted is new: into the ring buffer, or gone.
LEMMA EmitPlace ==
    ASSUME Shape, OnePlace, UNCHANGED serverVars, NEW s \in Session, NEW inside \in BOOLEAN, Emit(s, inside)
    PROVE  OnePlace'
<1> DEFINE r == <<s, emitted[s] + 1>>
<1>1. /\ emitted \in [Session -> 0 .. MaxRecords] /\ emitted[s] \in Nat /\ emitted[s] < MaxRecords
      /\ MaxRecords \in Nat /\ emitted[s] + 1 \in 1 .. MaxRecords
  BY WireAssumption DEF Shape, TypeOK, Emit
<1>2. r \in Record /\ r[1] = s /\ r[2] = emitted[s] + 1  BY <1>1 DEF Record
<1>3. Emitted' = Emitted \cup {r} /\ r \notin Emitted
  <2>1. /\ emitted'[s] = emitted[s] + 1
        /\ \A t \in Session \ {s} : emitted'[t] = emitted[t]
    BY <1>1 DEF Emit
  <2>2. ASSUME NEW x \in Record PROVE (x[2] <= emitted'[x[1]]) <=> (x[2] <= emitted[x[1]] \/ x = r)
    <3>1. x[1] \in Session /\ x[2] \in Nat /\ x = <<x[1], x[2]>>  BY DEF Record
    <3>2. CASE x[1] # s
      <4>1. x # r  BY <1>2, <3>2
      <4>2. QED  BY <2>1, <3>1, <3>2, <4>1
    <3>3. CASE x[1] = s
      <4>1. x = r <=> x[2] = emitted[s] + 1  BY <1>2, <3>1, <3>3
      <4>2. QED  BY <1>1, <2>1, <3>1, <3>3, <4>1
    <3>4. QED  BY <3>2, <3>3
  <2>3. Emitted' = {x \in Record : x[2] <= emitted'[x[1]]}  BY DEF Emitted
  <2>4. r \notin Emitted  BY <1>1, <1>2 DEF Emitted
  <2>5. QED  BY <1>2, <2>2, <2>3, <2>4 DEF Emitted
<1> HIDE DEF r
<1>4. /\ ItemsOnce(ring) /\ HeldOnce(ledger) /\ \A k \in Conn : HeldOnce(conn[k].up)
      /\ GoneOnce /\ Apart /\ AllPlaced
  BY OnePlaceParts
<1>5. UNCHANGED <<ledger, shed, conn>>  BY DEF Emit, serverVars
<1>6. \A p \in Place : r \notin At(p)  BY <1>3, <1>4 DEF AllPlaced
<1>7. RingAt \in Place /\ GoneAt \in Place /\ RingAt # GoneAt  BY Places
<1>8. CASE ring' = Append(ring, r) /\ lost' = lost
  <2>1. ring \in Seq(Record)  BY DEF Shape, TypeOK
  <2>2. Items(ring') = Items(ring) \cup {r} /\ ItemsOnce(ring')
    BY <1>2, <1>4, <1>6, <1>7, <1>8, <2>1, AppendItem, AtIs
  <2>3. At(RingAt)' = At(RingAt) \cup {r}  BY <2>2, AtIs, AtNext
  <2>4. \A p \in Place \ {RingAt} : At(p)' = At(p) \ {r}
    <3>1. ASSUME NEW p \in Place \ {RingAt} PROVE At(p)' = At(p)  BY <1>5, <1>8, <3>1, Unmoved
    <3>2. QED  BY <1>6, <3>1
  <2>5. Apart' /\ AllPlaced'  BY <1>3, <1>4, <1>7, <2>3, <2>4, Moved
  <2>6. GoneOnce'  BY <1>4, <1>8 DEF GoneOnce
  <2>7. QED  BY <1>4, <1>5, <2>2, <2>5, <2>6, OnePlaceNext
<1>9. CASE ring' = ring /\ \E why \in Why : lost' = lost \cup Because(why, {r})
  <2>1. PICK why \in Why : lost' = lost \cup Because(why, {r})  BY <1>9
  <2>2. {r} \in SUBSET Record /\ {r} \cap Gone = {}  BY <1>2, <1>6, <1>7, AtIs
  <2>3. Gone' = Gone \cup {r} /\ GoneOnce'  BY <1>4, <2>1, <2>2, GoneGrows
  <2>4. At(GoneAt)' = At(GoneAt) \cup {r}  BY <2>3, AtIs, AtNext
  <2>5. \A p \in Place \ {GoneAt} : At(p)' = At(p) \ {r}
    <3>1. ASSUME NEW p \in Place \ {GoneAt} PROVE At(p)' = At(p)  BY <1>5, <1>9, <3>1, Unmoved
    <3>2. QED  BY <1>6, <3>1
  <2>6. Apart' /\ AllPlaced'  BY <1>3, <1>4, <1>7, <2>4, <2>5, Moved
  <2>7. QED  BY <1>4, <1>5, <1>9, <2>3, <2>6, OnePlaceNext
<1>10. QED  BY <1>8, <1>9 DEF Emit, r

\* What a frame of each kind holds.
LEMMA HeldBy ==
    /\ Held(Hello) = {} /\ Held([kind |-> "restart"]) = {}
    /\ \A r, i : Held([kind |-> "ev", rec |-> r, idx |-> i]) = {r}
    /\ \A R : Held([kind |-> "gap", lost |-> R]) = R
<1>1. Held(Hello) = {} /\ Held([kind |-> "restart"]) = {}  BY DEF Held, Hello
<1>2. \A r, i : Held([kind |-> "ev", rec |-> r, idx |-> i]) = {r}  BY DEF Held
<1>3. \A R : Held([kind |-> "gap", lost |-> R]) = R  BY DEF Held
<1>4. QED  BY <1>1, <1>2, <1>3

\* The outbound goroutine's steps.
LEMMA OutboundPlace ==
    ASSUME Shape, OnePlace, UNCHANGED serverVars, NEW k \in Conn, OutboundStep(k)
    PROVE  OnePlace'
<1> USE DEF serverVars, shared, bounds, history
<1>1. /\ ItemsOnce(ring) /\ HeldOnce(ledger) /\ \A j \in Conn : HeldOnce(conn[j].up)
      /\ GoneOnce /\ Apart /\ AllPlaced
  BY OnePlaceParts
<1>2. /\ RingAt \in Place /\ ShedAt \in Place /\ GoneAt \in Place
      /\ RingAt # ShedAt /\ RingAt # GoneAt /\ ShedAt # GoneAt
  BY Places
<1>3. CASE SkipUnknown(k)
  <2>1. /\ Taken \in Record /\ {Taken} \subseteq At(RingAt) /\ ItemsOnce(Tail(ring))
        /\ Items(Tail(ring)) = Items(ring) \ {Taken}
    BY <1>1, <1>3, TakenFrom DEF SkipUnknown
  <2>2. At(RingAt)' = At(RingAt) \ {Taken} /\ ItemsOnce(ring')
    BY <1>3, <2>1, AtIs, AtNext DEF SkipUnknown
  <2>3. {Taken} \cap Gone = {}  BY <1>1, <1>2, <2>1, AtIs DEF Apart
  <2>4. Gone' = Gone \cup {Taken} /\ GoneOnce'  BY <1>1, <1>3, <2>1, <2>3, GoneGrows DEF SkipUnknown
  <2>5. At(GoneAt)' = At(GoneAt) \cup {Taken}  BY <2>4, AtIs, AtNext
  <2>6. ASSUME NEW p \in Place \ {RingAt, GoneAt} PROVE At(p)' = At(p)
    BY <1>3, <2>6, Unmoved DEF SkipUnknown
  <2>7. emitted' = emitted /\ conn' = conn /\ ledger' = ledger  BY <1>3 DEF SkipUnknown
  <2>8. Apart' /\ AllPlaced'  BY <1>1, <1>2, <2>1, <2>2, <2>5, <2>6, <2>7, MovedFrom
  <2>9. QED  BY <1>1, <2>2, <2>4, <2>7, <2>8, OnePlaceNext
<1>4. CASE ForwardRecord(k)
  <2> DEFINE f == [kind |-> "ev", rec |-> Taken, idx |-> nextIdx[Taken[1]]]
  <2>1. /\ Taken \in Record /\ {Taken} \subseteq At(RingAt) /\ ItemsOnce(Tail(ring))
        /\ Items(Tail(ring)) = Items(ring) \ {Taken}
    BY <1>1, <1>4, TakenFrom DEF ForwardRecord
  <2>2. At(RingAt)' = At(RingAt) \ {Taken} /\ ItemsOnce(ring')
    BY <1>4, <2>1, AtIs, AtNext DEF ForwardRecord
  <2>3. f \in UpFrame
    <3>1. Taken[1] \in Session  BY <1>4, TakenType DEF ForwardRecord
    <3>2. nextIdx[Taken[1]] \in Nat  BY <3>1 DEF Shape, TypeOK
    <3>3. QED  BY <2>1, <3>2, RecordFrame
  <2>4. Held(f) = {Taken}  BY HeldBy
  <2>5. /\ conn' = WithUp(k, f) /\ lost' = IF Linked(k) THEN lost ELSE lost \cup Because("send", {Taken})
        /\ UNCHANGED <<shed, ledger, emitted>>
    BY <1>4 DEF ForwardRecord, Send
  <2> HIDE DEF f
  <2>6. QED  BY <1>2, <2>1, <2>2, <2>3, <2>4, <2>5, SentPlace
<1>5. CASE ShedRecord(k)
  <2>1. /\ Taken \in Record /\ {Taken} \subseteq At(RingAt) /\ ItemsOnce(Tail(ring))
        /\ Items(Tail(ring)) = Items(ring) \ {Taken}
    BY <1>1, <1>5, TakenFrom DEF ShedRecord
  <2>2. At(RingAt)' = At(RingAt) \ {Taken} /\ ItemsOnce(ring')
    BY <1>5, <2>1, AtIs, AtNext DEF ShedRecord
  <2>3. At(ShedAt)' = At(ShedAt) \cup {Taken}  BY <1>5, AtIs, AtNext DEF ShedRecord
  <2>4. ASSUME NEW p \in Place \ {RingAt, ShedAt} PROVE At(p)' = At(p)
    BY <1>5, <2>4, Unmoved DEF ShedRecord
  <2>5. UNCHANGED <<emitted, conn, ledger, lost>>  BY <1>5 DEF ShedRecord
  <2>6. Apart' /\ AllPlaced'  BY <1>1, <1>2, <2>1, <2>2, <2>3, <2>4, <2>5, MovedFrom
  <2>7. GoneOnce'  BY <1>1, <2>5 DEF GoneOnce
  <2>8. QED  BY <1>1, <2>2, <2>5, <2>6, <2>7, OnePlaceNext
<1>6. CASE DrainReturns(k)
  BY <1>6, StaysPut DEF DrainReturns
<1>7. CASE FlushGaps(k)
  <2>1. CASE shed = {}
    BY <1>7, <2>1, StaysPut DEF FlushGaps, Due
  <2>2. CASE shed # {}
    <3> DEFINE f == [kind |-> "gap", lost |-> shed]
    <3>1. /\ conn' = WithUp(k, f) /\ lost' = IF Linked(k) THEN lost ELSE lost \cup Because("count", shed)
          /\ shed' = {} /\ UNCHANGED <<ring, ledger, emitted>>
      BY <1>7, <2>2 DEF FlushGaps, Due, AfterFlush, Send
    <3>2. shed \subseteq Record  BY DEF Shape, TypeOK
    <3>3. f \in UpFrame /\ Held(f) = shed  BY <3>2, RecordFrame, HeldBy
    <3>4. At(ShedAt)' = At(ShedAt) \ shed /\ shed \in SUBSET At(ShedAt)  BY <3>1, AtIs, AtNext
    <3>5. ItemsOnce(ring')  BY <1>1, <3>1
    <3> HIDE DEF f
    <3>6. QED  BY <1>2, <3>1, <3>2, <3>3, <3>4, <3>5, SentPlace
  <2>3. QED  BY <2>1, <2>2
<1>8. CASE DrainEndedSessions(k)
  <2> DEFINE final == {r \in shed : r[1] = conn[k].svc}
  <2>1. UNCHANGED <<ring, ledger, emitted>>  BY <1>8 DEF DrainEndedSessions
  <2>2. CASE ~pump[k].ended
    BY <1>8, <2>1, <2>2, StaysPut DEF DrainEndedSessions
  <2>3. CASE pump[k].ended /\ final = {}
    <3>1. shed' = shed /\ conn' = conn /\ lost' = lost
      BY <1>8, <2>3 DEF DrainEndedSessions
    <3>2. QED  BY <2>1, <3>1, StaysPut
  <2>4. CASE pump[k].ended /\ final # {}
    <3> DEFINE f == [kind |-> "gap", lost |-> final]
    <3>1. /\ conn' = WithUp(k, f) /\ lost' = IF Linked(k) THEN lost ELSE lost \cup Because("count", final)
          /\ shed' = shed \ final
      BY <1>8, <2>4 DEF DrainEndedSessions
    <3>2. final \subseteq Record  BY DEF Shape, TypeOK
    <3>3. f \in UpFrame /\ Held(f) = final  BY <3>2, RecordFrame, HeldBy
    <3>4. final \in SUBSET shed  OBVIOUS
    <3>5. At(ShedAt)' = At(ShedAt) \ final /\ final \in SUBSET At(ShedAt)
      BY <3>1, <3>4, AtIs, AtNext
    <3>6. ItemsOnce(ring')  BY <1>1, <2>1
    <3> HIDE DEF f, final
    <3>7. QED  BY <1>2, <2>1, <3>1, <3>2, <3>3, <3>5, <3>6, SentPlace
  <2>5. QED  BY <2>2, <2>3, <2>4
<1>9. QED  BY <1>3, <1>4, <1>5, <1>6, <1>7, <1>8 DEF OutboundStep

\* HandleConn takes a frame: into the ledger, if it is one that holds records.
LEMMA ReadPlace ==
    ASSUME Shape, OnePlace, UNCHANGED pumpVars, NEW k \in Conn, Register(k) \/ ReadFrame(k)
    PROVE  OnePlace'
<1> USE DEF pumpVars, shared, bounds, history
<1> DEFINE q == conn[k].up
           f == Head(q)
           u == Tail(q)
<1>1. /\ conn \in [Conn -> Connection] /\ conn[k] \in Connection /\ q \in Seq(UpFrame) /\ q # <<>>
      /\ conn[k].down \in Seq(DownFrame)
  BY DEF Shape, TypeOK, Connection, Register, ReadFrame
<1>2. /\ ItemsOnce(ring) /\ HeldOnce(ledger) /\ \A j \in Conn : HeldOnce(conn[j].up)
      /\ GoneOnce /\ Apart /\ AllPlaced
  BY OnePlaceParts
<1>3. /\ Carried(q) = Held(f) \cup Carried(u) /\ HeldOnce(u) /\ Held(f) \cap Carried(u) = {}
      /\ f \in UpFrame /\ u \in Seq(UpFrame) /\ f = q[1]
  BY <1>1, <1>2, TailHeld, TailType
<1>4. /\ conn'[k].up = u /\ \A j \in Conn \ {k} : conn'[j] = conn[j]
  <2>1. CASE ReadFrame(k)
    <3>1. conn' = [conn EXCEPT ![k].up = u]  BY <2>1 DEF ReadFrame
    <3>2. Becomes(k, [conn[k] EXCEPT !.up = u])  BY <1>1, <1>3, <3>1, UpChanges
    <3>3. QED  BY <1>1, <3>2 DEF Becomes, Connection
  <2>2. CASE Register(k)
    <3> DEFINE d == IF PeerAnswers THEN Append(conn[k].down, "hello") ELSE conn[k].down
    <3>1. d \in Seq(DownFrame)  BY <1>1 DEF DownFrame
    <3>2. conn' = [conn EXCEPT ![k].up = u, ![k].down = d]  BY <2>2 DEF Register
    <3> HIDE DEF d
    <3>3. Becomes(k, [conn[k] EXCEPT !.up = u, !.down = d])  BY <1>1, <1>3, <3>1, <3>2, BothChange
    <3>4. QED  BY <1>1, <3>3 DEF Becomes, Connection
  <2>3. QED  BY <2>1, <2>2
<1> HIDE DEF q, f, u
<1>5. UNCHANGED <<ring, shed, lost, emitted>>  OBVIOUS
<1>6. CASE ledger' = ledger /\ Held(f) = {}
  <2>1. Carried(conn'[k].up) = Carried(conn[k].up)  BY <1>3, <1>4, <1>6 DEF q
  <2>2. QED  BY <1>3, <1>4, <1>5, <1>6, <2>1, StaysPut
<1>7. CASE ledger' = Append(ledger, f)
  <2>1. ledger \in Seq(UpFrame)  BY DEF Shape, TypeOK
  <2>2. UpAt(k) \in Place /\ LedgerAt \in Place /\ UpAt(k) # LedgerAt  BY Places
  <2>3. At(UpAt(k)) = Carried(q) /\ At(LedgerAt) = Carried(ledger)  BY AtIs DEF q
  <2>4. Held(f) \cap Carried(ledger) = {}  BY <1>2, <1>3, <2>2, <2>3 DEF Apart
  <2>5. Carried(ledger') = Carried(ledger) \cup Held(f) /\ HeldOnce(ledger')
    BY <1>2, <1>3, <1>7, <2>1, <2>4, AppendHeld
  <2>6. At(LedgerAt)' = At(LedgerAt) \cup Held(f)  BY <2>3, <2>5, AtNext
  <2>7. At(UpAt(k))' = At(UpAt(k)) \ Held(f)  BY <1>3, <1>4, <2>3, AtNext
  <2>8. ASSUME NEW p \in Place \ {UpAt(k), LedgerAt} PROVE At(p)' = At(p)
    <3>1. \A j \in Conn : p = UpAt(j) => Carried(conn'[j].up) = Carried(conn[j].up)
      BY <1>4, <2>8
    <3>2. p = LedgerAt => ledger' = ledger  BY <2>8
    <3>3. QED  BY <1>5, <3>1, <3>2, Unmoved
  <2>9. Apart' /\ AllPlaced'
    <3>1. Held(f) \in SUBSET At(UpAt(k)) /\ emitted' = emitted  BY <1>3, <1>5, <2>3
    <3>2. QED  BY <1>2, <2>2, <2>6, <2>7, <2>8, <3>1, MovedFrom
  <2>10. GoneOnce'  BY <1>2, <1>5 DEF GoneOnce
  <2>11. \A j \in Conn : HeldOnce(conn'[j].up)  BY <1>2, <1>3, <1>4
  <2>12. QED  BY <1>2, <1>5, <2>5, <2>9, <2>10, <2>11, OnePlaceNext
<1>8. (ledger' = ledger /\ Held(f) = {}) \/ ledger' = Append(ledger, f)
  <2>1. CASE Register(k)
    <3>1. q[1] = Hello  BY <1>1, <2>1 DEF Register, Shape, Ends, EndsOf, q
    <3>2. Held(f) = {}  BY <1>3, <3>1, HeldBy
    <3>3. QED  BY <2>1, <3>2 DEF Register
  <2>2. CASE ReadFrame(k) /\ Validate(f)  BY <2>2 DEF ReadFrame, f, q
  <2>3. CASE ReadFrame(k) /\ ~Validate(f)
    <3>1. ledger' = ledger  BY <2>3 DEF ReadFrame, f, q
    <3>2. Held(f) = {}  BY <2>3 DEF Validate, Held
    <3>3. QED  BY <3>1, <3>2
  <2>4. QED  BY <2>1, <2>2, <2>3
<1>9. QED  BY <1>6, <1>7, <1>8

\* ranad dials and shakes hands: frames that hold nothing.
LEMMA HandshakePlace ==
    ASSUME Shape, OnePlace, (\E s \in Session : Connect(s)) \/ (HelloArrives /\ UNCHANGED serverVars)
    PROVE  OnePlace'
<1> USE DEF shared, bounds, history, serverVars
<1>1. conn \in [Conn -> Connection] /\ \A k \in Conn : HeldOnce(conn[k].up)
  BY OnePlaceParts DEF Shape, TypeOK
<1>2. CASE \E s \in Session : Connect(s)
  <2>1. PICK s \in Session, k \in Conn : Connect(s) /\ Free(k) /\ Dial(s, k)  BY <1>2 DEF Connect
  <2>2. conn[k].up = <<>>  BY <2>1 DEF Free, Unused, Shape, Ends, EndsOf
  <2>3. conn'[k].up = <<Hello>> /\ \A j \in Conn \ {k} : conn'[j] = conn[j]
    BY <1>1, <2>1 DEF Dial
  <2>4. Carried(<<Hello>>) = {} /\ HeldOnce(<<Hello>>)
    <3>1. DOMAIN <<Hello>> = {1} /\ <<Hello>>[1] = Hello  OBVIOUS
    <3>2. QED  BY <3>1, HeldBy DEF Carried, HeldOnce
  <2>5. UNCHANGED <<ring, shed, ledger, lost, emitted>>  BY <2>1 DEF Connect, Dial
  <2>6. \A j \in Conn : \/ conn'[j].up = conn[j].up
                        \/ Carried(conn'[j].up) = Carried(conn[j].up) /\ HeldOnce(conn'[j].up)
    <3>1. Carried(conn'[k].up) = Carried(conn[k].up) /\ HeldOnce(conn'[k].up)
      BY <2>2, <2>3, <2>4, NothingHeld
    <3>2. QED  BY <2>3, <3>1
  <2>7. QED  BY <2>5, <2>6, StaysPut
<1>3. CASE HelloArrives /\ UNCHANGED serverVars
  <2> DEFINE f == [kind |-> "restart"]
             u == Append(conn[cur].up, f)
             d == Tail(conn[cur].down)
  <2>1. /\ cur \in Conn /\ conn[cur] \in Connection /\ conn[cur].up \in Seq(UpFrame) /\ f \in UpFrame
        /\ conn[cur].down \in Seq(DownFrame) /\ conn[cur].down # <<>>
    BY <1>3, RecordFrame DEF HelloArrives, Shape, TypeOK, Connection
  <2>2. u \in Seq(UpFrame) /\ d \in Seq(DownFrame)  BY <2>1, AppendType, TailType
  <2>3. Carried(u) = Carried(conn[cur].up) /\ HeldOnce(u)
    <3>1. Held(f) = {}  BY HeldBy
    <3> HIDE DEF f
    <3>2. Carried(u) = Carried(conn[cur].up) \cup Held(f)  BY <2>1, AppendHeld
    <3>3. HeldOnce(u)  BY <1>1, <2>1, <3>1, AppendHeld
    <3>4. QED  BY <3>1, <3>2, <3>3
  <2>4. conn' = [conn EXCEPT ![cur].up = u, ![cur].down = d]  BY <1>3 DEF HelloArrives
  <2> HIDE DEF f, u, d
  <2>5. Becomes(cur, [conn[cur] EXCEPT !.up = u, !.down = d])  BY <1>1, <2>1, <2>2, <2>4, BothChange
  <2>6. conn'[cur].up = u /\ \A j \in Conn \ {cur} : conn'[j] = conn[j]
    BY <2>1, <2>5 DEF Becomes, Connection
  <2>7. UNCHANGED <<ring, shed, ledger, lost, emitted>>  BY <1>3 DEF HelloArrives
  <2>8. \A j \in Conn : \/ conn'[j].up = conn[j].up
                        \/ Carried(conn'[j].up) = Carried(conn[j].up) /\ HeldOnce(conn'[j].up)
    BY <2>3, <2>6
  <2>9. QED  BY <2>7, <2>8, StaysPut
<1>4. QED  BY <1>2, <1>3

\* ranad dies: what it held is gone.
LEMMA CrashPlace ==
    ASSUME Shape, OnePlace, UNCHANGED serverVars, Crash
    PROVE  OnePlace'
<1> USE DEF serverVars
<1> DEFINE S == shed \cup Items(ring)
<1>1. conn \in [Conn -> Connection] /\ ring \in Seq(Record) /\ shed \subseteq Record
  BY DEF Shape, TypeOK
<1>2. /\ ItemsOnce(ring) /\ HeldOnce(ledger) /\ \A j \in Conn : HeldOnce(conn[j].up)
      /\ GoneOnce /\ Apart /\ AllPlaced
  BY OnePlaceParts
<1>3. S \subseteq Record  BY <1>1 DEF Items
<1>4. S = At(ShedAt) \cup At(RingAt)  BY AtIs
<1>5. lost' = lost \cup Because("crash", S)  BY DEF Crash, Items
<1>6. \A j \in Conn : conn'[j].up = conn[j].up
  BY <1>1 DEF Crash, Connection
<1> HIDE DEF S
<1>7. /\ ShedAt \in Place /\ RingAt \in Place /\ GoneAt \in Place
      /\ ShedAt # GoneAt /\ RingAt # GoneAt
  BY Places
<1>8. \A p \in Place \ {ShedAt, RingAt} : S \cap At(p) = {}
  BY <1>2, <1>4, <1>7 DEF Apart
<1>9. S \cap Gone = {}  BY <1>7, <1>8, AtIs
<1>10. Gone' = Gone \cup S /\ GoneOnce'  BY <1>2, <1>3, <1>5, <1>9, GoneGrows
<1>11. ASSUME NEW p \in Place \ {GoneAt} PROVE At(p)' = At(p) \ S
  <2>1. CASE p = ShedAt
    <3>1. shed' = {}  BY DEF Crash
    <3>2. QED  BY <1>4, <2>1, <3>1, AtNext
  <2>2. CASE p = RingAt
    <3>1. Items(ring') = {}
      <4>1. ring' = <<>>  BY DEF Crash
      <4>2. Items(<<>>) = {}  BY DEF Items
      <4>3. QED  BY <4>1, <4>2
    <3>2. QED  BY <1>4, <2>2, <3>1, AtNext
  <2>3. CASE p # ShedAt /\ p # RingAt
    <3>1. At(p)' = At(p)  BY <1>6, <1>11, <2>3, Unmoved
    <3>2. QED  BY <1>8, <1>11, <2>3, <3>1
  <2>4. QED  BY <2>1, <2>2, <2>3
<1>12. At(GoneAt)' = At(GoneAt) \cup S  BY <1>10, AtIs, AtNext
<1>13. Emitted' = Emitted \cup S
  <2>1. S \subseteq Emitted  BY <1>2, <1>4, <1>7 DEF AllPlaced
  <2>2. Emitted' = Emitted  BY DEF Emitted, Crash
  <2>3. QED  BY <2>1, <2>2
<1>14. Apart' /\ AllPlaced'  BY <1>2, <1>7, <1>11, <1>12, <1>13, Moved
<1>15. ItemsOnce(ring') /\ ledger' = ledger
  <2>1. ring' = <<>> /\ ledger' = ledger  BY DEF Crash
  <2>2. ItemsOnce(<<>>)  BY DEF ItemsOnce
  <2>3. QED  BY <2>1, <2>2
<1>16. QED  BY <1>2, <1>6, <1>10, <1>14, <1>15, OnePlaceNext

\* A run ends: what its connections still held is gone.
LEMMA RunEndsPlace ==
    ASSUME Shape, OnePlace, NEW s \in Session, RunEnds(s)
    PROVE  OnePlace'
<1> USE DEF shared, bounds
<1> DEFINE mine == {k \in Conn : conn[k].svc = s}
           S == UNION {UnreadOn(k) : k \in mine}
<1>1. conn \in [Conn -> Connection]  BY DEF Shape, TypeOK
<1>2. /\ ItemsOnce(ring) /\ HeldOnce(ledger) /\ \A j \in Conn : HeldOnce(conn[j].up)
      /\ GoneOnce /\ Apart /\ AllPlaced
  BY OnePlaceParts
<1>3. \A k \in Conn : UnreadOn(k) = At(UpAt(k))
  <2>1. \A k \in Conn : UnreadOn(k) = Carried(conn[k].up)  BY DEF UnreadOn, Carried, Held
  <2>2. QED  BY <2>1, AtIs
<1>4. S \subseteq Record
  <2>1. \A k \in Conn : UnreadOn(k) \subseteq Record
    <3>1. ASSUME NEW k \in Conn, NEW i \in DOMAIN conn[k].up
          PROVE  /\ conn[k].up[i].kind = "ev" => conn[k].up[i].rec \in Record
                 /\ conn[k].up[i].kind = "gap" => conn[k].up[i].lost \subseteq Record
      <4>1. conn[k].up[i] \in UpFrame  BY <1>1 DEF Connection
      <4>2. QED  BY <4>1 DEF UpFrame
    <3>2. QED  BY <3>1 DEF UnreadOn
  <2>2. QED  BY <2>1
<1>5. lost' = lost \cup Because("unread", S)  BY DEF RunEnds
<1>6. /\ UNCHANGED <<ring, shed, emitted, ledger>>
      /\ \A k \in mine : conn'[k].up = <<>>
      /\ \A k \in Conn \ mine : conn'[k] = conn[k]
  <2>1. ProcessEnds(s) /\ UNCHANGED <<ring, shed, emitted>>  BY DEF RunEnds, Exit, Killed
  <2>2. \A k \in Conn : conn'[k] = IF conn[k].svc = s THEN [conn[k] EXCEPT !.svcOpen = FALSE, !.up = <<>>]
                                   ELSE conn[k]
    BY <2>1 DEF ProcessEnds
  <2>3. \A k \in mine : conn'[k].up = <<>>  BY <1>1, <2>2 DEF Connection
  <2>4. QED  BY <2>1, <2>2, <2>3 DEF ProcessEnds
<1>7. \A k \in Conn : UpAt(k) \in Place /\ UpAt(k) # GoneAt  BY Places
<1>8. ASSUME NEW p \in Place, \A k \in mine : p # UpAt(k) PROVE S \cap At(p) = {}
  <2>1. \A k \in mine : At(UpAt(k)) \cap At(p) = {}  BY <1>2, <1>7, <1>8 DEF Apart
  <2>2. QED  BY <1>3, <2>1
<1>9. \A k \in mine : At(UpAt(k)) \subseteq S  BY <1>3
<1> HIDE DEF S, mine
<1>10. GoneAt \in Place /\ \A k \in mine : GoneAt # UpAt(k)
  BY Places
<1>11. Gone' = Gone \cup S /\ GoneOnce'
  <2>1. S \cap Gone = {}  BY <1>8, <1>10, AtIs
  <2>2. QED  BY <1>2, <1>4, <1>5, <2>1, GoneGrows
<1>12. At(GoneAt)' = At(GoneAt) \cup S  BY <1>11, AtIs, AtNext
<1>13. ASSUME NEW p \in Place \ {GoneAt} PROVE At(p)' = At(p) \ S
  <2>1. CASE \E k \in mine : p = UpAt(k)
    <3>1. PICK k \in mine : p = UpAt(k)  BY <2>1
    <3>2. k \in Conn  BY DEF mine
    <3>3. At(p)' = {}  BY <1>6, <3>1, <3>2, AtNext, NothingHeld
    <3>4. QED  BY <1>9, <3>1, <3>3
  <2>2. CASE \A k \in mine : p # UpAt(k)
    <3>1. \A k \in Conn : p = UpAt(k) => Carried(conn'[k].up) = Carried(conn[k].up)
      BY <1>6, <2>2
    <3>2. At(p)' = At(p)  BY <1>6, <1>13, <3>1, Unmoved
    <3>3. QED  BY <1>8, <1>13, <2>2, <3>2
  <2>3. QED  BY <2>1, <2>2
<1>14. Emitted' = Emitted \cup S
  <2>1. S \subseteq Emitted
    <3>1. \A k \in mine : UnreadOn(k) \subseteq Emitted
      BY <1>2, <1>3, <1>7 DEF AllPlaced, mine
    <3>2. QED  BY <3>1 DEF S
  <2>2. Emitted' = Emitted  BY <1>6 DEF Emitted
  <2>3. QED  BY <2>1, <2>2
<1>15. Apart' /\ AllPlaced'  BY <1>2, <1>10, <1>12, <1>13, <1>14, Moved
<1>16. \A k \in Conn : HeldOnce(conn'[k].up)  BY <1>2, <1>6, NothingHeld
<1>17. QED  BY <1>2, <1>6, <1>11, <1>15, <1>16, OnePlaceNext

\* Every step keeps every record in one place.
LEMMA OnePlaceKept == Shape /\ OnePlace /\ [Next]_vars => OnePlace'
<1> SUFFICES ASSUME Shape, OnePlace, [Next]_vars PROVE OnePlace'  OBVIOUS
<1>1. CASE ServerStep /\ UNCHANGED pumpVars
  <2>1. CASE \E k \in Conn : Register(k) \/ ReadFrame(k)  BY <1>1, <2>1, ReadPlace
  <2>2. CASE \A k \in Conn : ~Register(k) /\ ~ReadFrame(k)  BY <1>1, <2>2, UpStays, StaysPut
  <2>3. QED  BY <2>1, <2>2
<1>2. CASE RanadStep /\ UNCHANGED serverVars
  <2>1. CASE \E s \in Session : Work(s)
    <3>1. TRUE \in BOOLEAN /\ FALSE \in BOOLEAN  OBVIOUS
    <3>2. QED  BY <1>2, <2>1, <3>1, EmitPlace DEF Work
  <2>2. CASE HelloArrives  BY <1>2, <2>2, HandshakePlace
  <2>3. CASE HelloFails \/ ServeConnectionReturns  BY <1>2, <2>3, UpStays, StaysPut
  <2>4. CASE \E k \in Conn : InboundStep(k) \/ InboundBreaks(k)  BY <1>2, <2>4, UpStays, StaysPut
  <2>5. CASE \E k \in Conn : OutboundStep(k)  BY <1>2, <2>5, OutboundPlace
  <2>6. CASE Crash  BY <1>2, <2>6, CrashPlace
  <2>7. QED  BY <1>2, <2>1, <2>2, <2>3, <2>4, <2>5, <2>6 DEF RanadStep, DaemonStep
<1>3. CASE \E s \in Session : Connect(s) \/ RunEnds(s)  BY <1>3, HandshakePlace, RunEndsPlace
<1>4. CASE UNCHANGED vars
  <2>1. UNCHANGED <<ring, shed, ledger, lost, emitted, conn>>
    BY <1>4 DEF vars, serverVars, pumpVars, shared, history
  <2>2. QED  BY <2>1, StaysPut
<1>5. QED  BY <1>1, <1>2, <1>3, <1>4 DEF Next

\* However many connections there are and whatever dies, breaks or ends: every
\* record the sessions caused is in exactly one place (processRecord, FlushGaps,
\* DrainEndedSessions, HandleConn).
THEOREM RecordsInOnePlace == Spec => []OnePlace
<1>1. Init => Shape /\ OnePlace  BY ShapeStart, OnePlaceStart
<1>2. Shape /\ OnePlace /\ [Next]_vars => (Shape /\ OnePlace)'  BY ShapeKept, OnePlaceKept
<1>3. QED  BY <1>1, <1>2, PTL DEF Spec

----------------------------------------------------------------------------
(* What becomes of a connection *)

EndWaits(k) == \E i \in DOMAIN conn[k].down : conn[k].down[i] = "end"

\* The connection is still the same one: an end is only written by the run's
\* own broadcast, and only these steps close an end.
Stays(k) ==
    /\ conn'[k].svc = conn[k].svc
    /\ EndWaits(k)' => \/ EndWaits(k)
                       \/ \E s \in Session : SendOne(s, k) /\ run[s] # "announcing"
    /\ conn'[k].svcOpen = conn[k].svcOpen \/ RunEnds(conn[k].svc) \/ HandleConnReturns(k)
    /\ conn'[k].ranadOpen = conn[k].ranadOpen \/ Crash \/ HelloFails \/ ServeConnectionReturns

\* Connection k is as it was but for frames on their way up.
LEMMA StaysSame ==
    ASSUME NEW k \in Conn, conn'[k].svc = conn[k].svc, conn'[k].svcOpen = conn[k].svcOpen,
           conn'[k].ranadOpen = conn[k].ranadOpen, conn'[k].down = conn[k].down
    PROVE  Stays(k)
BY DEF Stays, EndWaits

\* A frame put behind, taken from the head of or wiped from those on their way
\* down.
LEMMA DownEnds ==
    ASSUME NEW d \in Seq(DownFrame)
    PROVE  /\ \A f \in DownFrame : \A i \in DOMAIN Append(d, f) : \/ i \in DOMAIN d /\ Append(d, f)[i] = d[i]
                                                                  \/ Append(d, f)[i] = f
           /\ d # <<>> => \A i \in DOMAIN Tail(d) : \E j \in DOMAIN d : Tail(d)[i] = d[j]
<1>1. ASSUME NEW f \in DownFrame
      PROVE  \A i \in DOMAIN Append(d, f) : \/ i \in DOMAIN d /\ Append(d, f)[i] = d[i]
                                            \/ Append(d, f)[i] = f
  BY AppendType
<1>2. ASSUME d # <<>> PROVE \A i \in DOMAIN Tail(d) : \E j \in DOMAIN d : Tail(d)[i] = d[j]
  <2>1. \A i \in DOMAIN Tail(d) : i + 1 \in DOMAIN d /\ Tail(d)[i] = d[i + 1]  BY <1>2, TailType
  <2>2. QED  BY <2>1
<1>3. QED  BY <1>1, <1>2

\* Every step either dials over connection k or leaves it the same connection.
LEMMA ConnNext ==
    ASSUME Shape, [Next]_vars, NEW k \in Conn
    PROVE  \/ Stays(k)
           \/ \E s \in Session : Connect(s) /\ Free(k) /\ Dial(s, k)
<1> USE DEF serverVars, pumpVars, shared, bounds, history
<1>1. conn \in [Conn -> Connection] /\ \A j \in Conn : /\ conn[j] \in Connection /\ conn[j].up \in Seq(UpFrame)
                                                      /\ conn[j].down \in Seq(DownFrame)
  BY DEF Shape, TypeOK, Connection
<1>2. CASE conn' = conn  BY <1>2, StaysSame
<1>3. CASE \E j \in Conn, u \in Seq(UpFrame) : Becomes(j, [conn[j] EXCEPT !.up = u])
  <2>1. conn'[k] = conn[k] \/ \E u \in Seq(UpFrame) : conn'[k] = [conn[k] EXCEPT !.up = u]
    BY <1>3 DEF Becomes
  <2>2. QED  BY <1>1, <2>1, StaysSame DEF Connection
<1>4. CASE \E s \in Session, j \in Conn : SendOne(s, j)
  <2>1. PICK s \in Session, j \in Conn : SendOne(s, j)  BY <1>4
  <2> DEFINE f == IF run[s] = "announcing" THEN "start" ELSE "end"
  <2>2. f \in DownFrame /\ conn' = WithDown(j, f)  BY <2>1 DEF SendOne, DownFrame
  <2> HIDE DEF f
  <2>3. CASE ~Linked(j) \/ j # k
    <3>1. conn'[k] = conn[k]  BY <1>1, <2>2, <2>3, WrittenDown DEF Becomes
    <3>2. QED  BY <3>1, StaysSame
  <2>4. CASE Linked(j) /\ j = k
    <3>1. Becomes(k, [conn[k] EXCEPT !.down = Append(conn[k].down, f)])
      BY <1>1, <2>2, <2>4, WrittenDown
    <3>2. /\ conn'[k].svc = conn[k].svc /\ conn'[k].svcOpen = conn[k].svcOpen
          /\ conn'[k].ranadOpen = conn[k].ranadOpen /\ conn'[k].down = Append(conn[k].down, f)
      BY <1>1, <3>1 DEF Becomes, Connection
    <3>3. EndWaits(k)' => EndWaits(k) \/ f = "end"
      BY <1>1, <2>2, <3>2, DownEnds DEF EndWaits
    <3>4. QED  BY <2>1, <2>4, <3>2, <3>3 DEF Stays, f
  <2>5. QED  BY <2>3, <2>4
<1>5. CASE \E j \in Conn : SendReplay(j)
  <2>1. PICK j \in Conn : conn' = WithDown(j, "start")  BY <1>5 DEF SendReplay
  <2>2. "start" \in DownFrame  BY DEF DownFrame
  <2>3. CASE ~Linked(j) \/ j # k
    <3>1. conn'[k] = conn[k]  BY <1>1, <2>1, <2>2, <2>3, WrittenDown DEF Becomes
    <3>2. QED  BY <3>1, StaysSame
  <2>4. CASE Linked(j) /\ j = k
    <3>1. Becomes(k, [conn[k] EXCEPT !.down = Append(conn[k].down, "start")])
      BY <1>1, <2>1, <2>2, <2>4, WrittenDown
    <3>2. /\ conn'[k].svc = conn[k].svc /\ conn'[k].svcOpen = conn[k].svcOpen
          /\ conn'[k].ranadOpen = conn[k].ranadOpen /\ conn'[k].down = Append(conn[k].down, "start")
      BY <1>1, <3>1 DEF Becomes, Connection
    <3>3. EndWaits(k)' => EndWaits(k)  BY <1>1, <2>2, <3>2, DownEnds DEF EndWaits
    <3>4. QED  BY <3>2, <3>3 DEF Stays
  <2>5. QED  BY <2>3, <2>4
<1>6. CASE \E j \in Conn : Register(j)
  <2>1. PICK j \in Conn : Register(j)  BY <1>6
  <2> DEFINE d == IF PeerAnswers THEN Append(conn[j].down, "hello") ELSE conn[j].down
             u == Tail(conn[j].up)
  <2>2. "hello" \in DownFrame  BY DEF DownFrame
  <2>3. d \in Seq(DownFrame) /\ u \in Seq(UpFrame)
    BY <1>1, <2>1, <2>2, AppendType, TailType DEF Register
  <2>4. \A i \in DOMAIN d : d[i] = "end" => i \in DOMAIN conn[j].down /\ conn[j].down[i] = "end"
    <3>1. CASE PeerAnswers
      <4>1. \A i \in DOMAIN Append(conn[j].down, "hello") :
               \/ i \in DOMAIN conn[j].down /\ Append(conn[j].down, "hello")[i] = conn[j].down[i]
               \/ Append(conn[j].down, "hello")[i] = "hello"
        BY <1>1, <2>2, DownEnds
      <4>2. QED  BY <3>1, <4>1
    <3>2. CASE ~PeerAnswers  BY <3>2
    <3>3. QED  BY <3>1, <3>2
  <2>5. conn' = [conn EXCEPT ![j].up = u, ![j].down = d]  BY <2>1 DEF Register
  <2> HIDE DEF d, u
  <2>6. Becomes(j, [conn[j] EXCEPT !.up = u, !.down = d])  BY <1>1, <2>3, <2>5, BothChange
  <2>7. CASE j # k
    <3>1. conn'[k] = conn[k]  BY <2>6, <2>7 DEF Becomes
    <3>2. QED  BY <3>1, StaysSame
  <2>8. CASE j = k
    <3>1. /\ conn'[k].svc = conn[k].svc /\ conn'[k].svcOpen = conn[k].svcOpen
          /\ conn'[k].ranadOpen = conn[k].ranadOpen /\ conn'[k].down = d
      BY <1>1, <2>6, <2>8 DEF Becomes, Connection
    <3>2. EndWaits(k)' => EndWaits(k)  BY <2>4, <2>8, <3>1 DEF EndWaits
    <3>3. QED  BY <3>1, <3>2 DEF Stays
  <2>9. QED  BY <2>7, <2>8
<1>7. CASE \E j \in Conn : HandleConnReturns(j)
  <2>1. PICK j \in Conn : HandleConnReturns(j)  BY <1>7
  <2>2. Becomes(j, [conn[j] EXCEPT !.svcOpen = FALSE])
    BY <1>1, <2>1, SvcCloses DEF HandleConnReturns
  <2>3. CASE j # k
    <3>1. conn'[k] = conn[k]  BY <2>2, <2>3 DEF Becomes
    <3>2. QED  BY <3>1, StaysSame
  <2>4. CASE j = k
    <3>1. /\ conn'[k].svc = conn[k].svc /\ conn'[k].ranadOpen = conn[k].ranadOpen
          /\ conn'[k].down = conn[k].down
      BY <1>1, <2>2, <2>4 DEF Becomes, Connection
    <3>2. QED  BY <2>1, <2>4, <3>1 DEF Stays, EndWaits
  <2>5. QED  BY <2>3, <2>4
<1>8. CASE HelloFails \/ ServeConnectionReturns
  <2>1. cur \in Conn /\ conn' = [conn EXCEPT ![cur].ranadOpen = FALSE, ![cur].down = <<>>]
    BY <1>8 DEF HelloFails, ServeConnectionReturns, Shape, TypeOK
  <2>2. Becomes(cur, [conn[cur] EXCEPT !.ranadOpen = FALSE, !.down = <<>>])
    BY <1>1, <2>1, RanadCloses
  <2>3. CASE cur # k
    <3>1. conn'[k] = conn[k]  BY <2>2, <2>3 DEF Becomes
    <3>2. QED  BY <3>1, StaysSame
  <2>4. CASE cur = k
    <3>1. /\ conn'[k].svc = conn[k].svc /\ conn'[k].svcOpen = conn[k].svcOpen /\ conn'[k].down = <<>>
      BY <1>1, <2>2, <2>4 DEF Becomes, Connection
    <3>2. ~EndWaits(k)'  BY <3>1 DEF EndWaits
    <3>3. QED  BY <1>8, <3>1, <3>2 DEF Stays
  <2>5. QED  BY <2>3, <2>4
<1>9. CASE HelloArrives
  <2> DEFINE u == Append(conn[cur].up, [kind |-> "restart"])
             d == Tail(conn[cur].down)
  <2>1. cur \in Conn /\ conn[cur].down # <<>>  BY <1>9 DEF HelloArrives, Shape, TypeOK
  <2>2. u \in Seq(UpFrame) /\ d \in Seq(DownFrame)  BY <1>1, <2>1, RecordFrame, AppendType, TailType
  <2>3. conn' = [conn EXCEPT ![cur].up = u, ![cur].down = d]  BY <1>9 DEF HelloArrives
  <2>4. \A i \in DOMAIN d : \E j \in DOMAIN conn[cur].down : d[i] = conn[cur].down[j]
    BY <1>1, <2>1, DownEnds
  <2> HIDE DEF u, d
  <2>5. Becomes(cur, [conn[cur] EXCEPT !.up = u, !.down = d])  BY <1>1, <2>1, <2>2, <2>3, BothChange
  <2>6. CASE cur # k
    <3>1. conn'[k] = conn[k]  BY <2>5, <2>6 DEF Becomes
    <3>2. QED  BY <3>1, StaysSame
  <2>7. CASE cur = k
    <3>1. /\ conn'[k].svc = conn[k].svc /\ conn'[k].svcOpen = conn[k].svcOpen
          /\ conn'[k].ranadOpen = conn[k].ranadOpen /\ conn'[k].down = d
      BY <1>1, <2>5, <2>7 DEF Becomes, Connection
    <3>2. EndWaits(k)' => EndWaits(k)  BY <2>4, <2>7, <3>1 DEF EndWaits
    <3>3. QED  BY <3>1, <3>2 DEF Stays
  <2>8. QED  BY <2>6, <2>7
<1>10. CASE \E j \in Conn, f \in {"start", "end"} : Inbound(j, f)
  <2>1. PICK j \in Conn : conn[j].down # <<>> /\ conn' = [conn EXCEPT ![j].down = Tail(conn[j].down)]
    BY <1>10 DEF Inbound
  <2>2. Tail(conn[j].down) \in Seq(DownFrame)  BY <1>1, <2>1, TailType
  <2>3. Becomes(j, [conn[j] EXCEPT !.down = Tail(conn[j].down)])  BY <1>1, <2>1, <2>2, DownChanges
  <2>4. CASE j # k
    <3>1. conn'[k] = conn[k]  BY <2>3, <2>4 DEF Becomes
    <3>2. QED  BY <3>1, StaysSame
  <2>5. CASE j = k
    <3>1. /\ conn'[k].svc = conn[k].svc /\ conn'[k].svcOpen = conn[k].svcOpen
          /\ conn'[k].ranadOpen = conn[k].ranadOpen /\ conn'[k].down = Tail(conn[k].down)
      BY <1>1, <2>3, <2>5 DEF Becomes, Connection
    <3>2. EndWaits(k)' => EndWaits(k)  BY <1>1, <2>1, <2>5, <3>1, DownEnds DEF EndWaits
    <3>3. QED  BY <3>1, <3>2 DEF Stays
  <2>6. QED  BY <2>4, <2>5
<1>11. CASE \E j \in Conn, f \in UpFrame : conn' = WithUp(j, f)
  <2>1. PICK j \in Conn, f \in UpFrame : conn' = WithUp(j, f)  BY <1>11
  <2>2. CASE Linked(j)
    <3>1. Becomes(j, [conn[j] EXCEPT !.up = Append(conn[j].up, f)])  BY <1>1, <2>1, <2>2, WrittenUp
    <3>2. Append(conn[j].up, f) \in Seq(UpFrame)  BY <1>1, <2>1, AppendType
    <3>3. QED  BY <1>3, <3>1, <3>2
  <2>3. CASE ~Linked(j)  BY <1>2, <2>1, <2>3 DEF WithUp
  <2>4. QED  BY <2>2, <2>3
<1>12. CASE Crash
  <2>1. conn'[k] = [conn[k] EXCEPT !.ranadOpen = FALSE, !.down = <<>>]  BY <1>12 DEF Crash
  <2>2. conn'[k].svc = conn[k].svc /\ conn'[k].svcOpen = conn[k].svcOpen /\ conn'[k].down = <<>>
    BY <1>1, <2>1 DEF Connection
  <2>3. ~EndWaits(k)'  BY <2>2 DEF EndWaits
  <2>4. QED  BY <1>12, <2>2, <2>3 DEF Stays
<1>13. CASE \E s \in Session : RunEnds(s)
  <2>1. PICK s \in Session : RunEnds(s)  BY <1>13
  <2>2. conn'[k] = IF conn[k].svc = s THEN [conn[k] EXCEPT !.svcOpen = FALSE, !.up = <<>>] ELSE conn[k]
    BY <2>1 DEF RunEnds, Exit, Killed, ProcessEnds
  <2>3. /\ conn'[k].svc = conn[k].svc /\ conn'[k].ranadOpen = conn[k].ranadOpen
        /\ conn'[k].down = conn[k].down /\ (conn'[k].svcOpen = conn[k].svcOpen \/ conn[k].svc = s)
    BY <1>1, <2>2 DEF Connection
  <2>4. QED  BY <2>1, <2>3 DEF Stays, EndWaits
<1>14. CASE \E s \in Session : Connect(s)
  <2>1. PICK s \in Session, j \in Conn : Connect(s) /\ Free(j) /\ Dial(s, j)  BY <1>14 DEF Connect
  <2>2. CASE j = k  BY <2>1, <2>2
  <2>3. CASE j # k
    <3>1. conn'[k] = conn[k]  BY <1>1, <2>1, <2>3 DEF Dial
    <3>2. QED  BY <3>1, StaysSame
  <2>4. QED  BY <2>2, <2>3
<1>15. CASE ServerStep /\ UNCHANGED pumpVars
  <2>1. CASE \E j \in Conn : ReadFrame(j)
    <3>1. PICK j \in Conn : conn' = [conn EXCEPT ![j].up = Tail(conn[j].up)] /\ conn[j].up # <<>>
      BY <2>1 DEF ReadFrame
    <3>2. Tail(conn[j].up) \in Seq(UpFrame)  BY <1>1, <3>1, TailType
    <3>3. QED  BY <1>1, <1>3, <3>1, <3>2, UpChanges
  <2>2. QED
    BY <1>2, <1>4, <1>5, <1>6, <1>7, <1>15, <2>1
    DEF ServerStep, Start, AddProcess, Abort, EndSession, Announce, Main, BroadcastSessionStart,
        StartChild, BroadcastSessionEnd, Serve
<1>16. CASE RanadStep /\ UNCHANGED serverVars
  <2>1. CASE \E j \in Conn : OutboundStep(j)  BY <1>2, <1>11, <2>1, OutboundTypes
  <2>2. CASE \E j \in Conn : InboundStep(j) \/ InboundBreaks(j)
    BY <1>2, <1>10, <2>2 DEF InboundStep, ArmSession, BindCgid, QueueSessionEnd, InboundReturns,
                             InboundBreaks
  <2>3. CASE \E s \in Session : Work(s)  BY <1>2, <2>3 DEF Work, Emit
  <2>4. QED  BY <1>8, <1>9, <1>12, <1>16, <2>1, <2>2, <2>3 DEF RanadStep, DaemonStep
<1>17. CASE UNCHANGED vars  BY <1>2, <1>17 DEF vars
<1>18. QED  BY <1>13, <1>14, <1>15, <1>16, <1>17 DEF Next

----------------------------------------------------------------------------
(* The life of a run *)

\* What a step does to a run and to the broadcast it may be in.
LEMMA RunNext ==
    ASSUME Shape, [Next]_vars, NEW s \in Session
    PROVE  \/ run'[s] = run[s] /\ tell'[s] \subseteq tell[s]
           \/ ~Over(s) /\ tell'[s] = tell[s] /\ (run[s] = "announcing" => tell[s] = {})
           \/ ~Over(s) /\ tell'[s] = ConnsOf(s) /\ run'[s] \in {"announcing", "ending"}
           \/ RunEnds(s) /\ tell'[s] = {} /\ (Over(s) => run'[s] = "gone")
<1> USE DEF serverVars, pumpVars
<1>1. run \in [Session -> RunState] /\ tell \in [Session -> SUBSET Conn]  BY DEF Shape, TypeOK
<1>2. CASE UNCHANGED <<run, tell>>  BY <1>2
<1>3. CASE \E t \in Session : Start(t) \/ AddProcess(t) \/ Abort(t) \/ EndSession(t) \/ StartChild(t)
  BY <1>1, <1>3 DEF Start, AddProcess, Abort, EndSession, StartChild, Over
<1>4. CASE \E t \in Session : BroadcastSessionStart(t)
  BY <1>1, <1>4 DEF BroadcastSessionStart, Over
<1>5. CASE \E t \in Session : BroadcastSessionEnd(t)
  BY <1>1, <1>5 DEF BroadcastSessionEnd, Over
<1>6. CASE \E t \in Session, k \in Conn : SendOne(t, k)
  BY <1>1, <1>6 DEF SendOne
<1>7. CASE \E t \in Session : RunEnds(t)
  <2>1. PICK t \in Session : RunEnds(t)  BY <1>7
  <2>2. CASE t # s  BY <1>1, <2>1, <2>2 DEF RunEnds, Exit, Killed, ProcessEnds
  <2>3. CASE t = s
    <3>1. tell'[s] = {}  BY <1>1, <2>1, <2>3 DEF RunEnds, Exit, Killed, ProcessEnds
    <3>2. Over(s) => run'[s] = "gone"  BY <1>1, <2>1, <2>3 DEF RunEnds, Exit, Killed, Over
    <3>3. QED  BY <2>1, <2>3, <3>1, <3>2
  <2>4. QED  BY <2>2, <2>3
<1>8. CASE ServerStep
  BY <1>2, <1>3, <1>4, <1>5, <1>6, <1>8
  DEF ServerStep, Announce, Main, Serve, Register, SendReplay, ReadFrame, HandleConnReturns
<1>9. CASE \E t \in Session : Connect(t)  BY <1>2, <1>9 DEF Connect
<1>10. QED  BY <1>2, <1>7, <1>8, <1>9 DEF Next, vars

\* A run that is over stays so.
LEMMA OverStays ==
    ASSUME Shape, [Next]_vars, NEW s \in Session, Over(s)
    PROVE  Over(s)'
BY RunNext DEF Over

----------------------------------------------------------------------------
(* A session's index is never restarted while its run lives *)

\* A broadcast is under way to connections of its own run, announcing or
\* ending it; who was told of an end, or has it waiting, was told by a run
\* that is over; and an index below one that was issued is an over run's.
Told ==
    /\ \A s \in Session : /\ \A k \in tell[s] : conn[k].svc = s
                          /\ tell[s] # {} => run[s] \in {"announcing", "ending"}
    /\ \A k \in Conn : pump[k].ended \/ EndWaits(k) => conn[k].svc \in Session /\ Over(conn[k].svc)
    /\ crashes = 0 => \A s \in Session : nextIdx[s] < issued[s] \/ s \in reissued => Over(s)

\* Nobody has been told anything.
LEMMA ToldStart == Init => Told
<1> SUFFICES ASSUME Init PROVE Told  OBVIOUS
<1> USE DEF Init, ServerInit, PumpInit
<1>1. \A k \in Conn : ~pump[k].ended /\ ~EndWaits(k)  BY DEF NoPump, NoConn, EndWaits
<1>2. QED  BY <1>1 DEF Told

\* Broadcasts go to the connections of their own run.
LEMMA BroadcastKept ==
    ASSUME Shape, Told, [Next]_vars, NEW s \in Session
    PROVE  /\ \A k \in tell'[s] : conn'[k].svc = s
           /\ tell'[s] # {} => run'[s] \in {"announcing", "ending"}
<1>1. tell \in [Session -> SUBSET Conn] /\ registered \subseteq Conn  BY DEF Shape, TypeOK
<1>2. \A k \in tell[s] : conn[k].svc = s  BY DEF Told
<1>3. tell[s] # {} => run[s] \in {"announcing", "ending"}  BY DEF Told
<1>4. \A k \in tell[s] : Stays(k)  BY <1>1, ConnNext DEF Free
<1>5. CASE tell'[s] \subseteq tell[s]
  <2>1. \A k \in tell'[s] : conn'[k].svc = s  BY <1>2, <1>4, <1>5 DEF Stays
  <2>2. tell'[s] # {} => run'[s] \in {"announcing", "ending"}
    BY <1>1, <1>3, <1>5, RunNext DEF Over
  <2>3. QED  BY <2>1, <2>2
<1>6. CASE tell'[s] = ConnsOf(s) /\ run'[s] \in {"announcing", "ending"} /\ ~(tell'[s] \subseteq tell[s])
  <2>1. \A t \in Session : ~Connect(t)
    <3>1. tell' # tell  BY <1>6
    <3>2. QED  BY <3>1 DEF Connect
  <2>2. \A k \in ConnsOf(s) : Stays(k) /\ conn[k].svc = s  BY <1>1, <2>1, ConnNext DEF ConnsOf
  <2>3. QED  BY <1>6, <2>2 DEF Stays
<1>7. QED  BY <1>5, <1>6, RunNext

\* Only a SessionEnd that arrived leaves a Pump with an end to act on.
LEMMA EndedNext ==
    ASSUME Shape, [Next]_vars, NEW k \in Conn, pump'[k].ended
    PROVE  pump[k].ended \/ QueueSessionEnd(k)
<1> USE DEF serverVars, pumpVars, shared, bounds, history
<1>1. pump \in [Conn -> PumpState]  BY DEF Shape, TypeOK
<1>2. CASE pump' = pump  BY <1>2
<1>3. CASE \E s \in Session : Connect(s)
  BY <1>1, <1>3 DEF Connect, Dial, NoPump
<1>4. CASE HelloArrives  BY <1>1, <1>4 DEF HelloArrives, NewPump, NoPump
<1>5. CASE \E j \in Conn : ArmSession(j)
  <2>1. PICK j \in Conn : pump' = [pump EXCEPT ![j].cgid = TRUE, ![j].inbound = "bind"]
    BY <1>5 DEF ArmSession
  <2>2. PumpBecomes(j, [pump[j] EXCEPT !.cgid = TRUE, !.inbound = "bind"])
    BY <1>1, <2>1, StartRemembered
  <2>3. j # k => pump'[k] = pump[k]  BY <2>2 DEF PumpBecomes
  <2>4. pump[j] \in PumpState  BY <1>1
  <2>5. pump'[j].ended = pump[j].ended  BY <2>2, <2>4 DEF PumpBecomes, PumpState
  <2>6. QED  BY <2>3, <2>5
<1>6. CASE \E j \in Conn : BindCgid(j) \/ InboundReturns(j) \/ InboundBreaks(j)
  BY <1>1, <1>6 DEF BindCgid, InboundReturns, InboundBreaks, PumpState
<1>7. CASE \E j \in Conn : QueueSessionEnd(j)
  <2>1. PICK j \in Conn : QueueSessionEnd(j)  BY <1>7
  <2>2. j # k => pump'[k] = pump[k]  BY <1>1, <2>1 DEF QueueSessionEnd
  <2>3. QED  BY <2>1, <2>2
<1>8. CASE \E j \in Conn : SkipUnknown(j) \/ ForwardRecord(j) \/ ShedRecord(j) \/ DrainReturns(j) \/ FlushGaps(j)
  BY <1>1, <1>8 DEF SkipUnknown, ForwardRecord, ShedRecord, DrainReturns, FlushGaps, Send, PumpState
<1>9. CASE \E j \in Conn : DrainEndedSessions(j)
  <2>1. PICK j \in Conn : DrainEndedSessions(j)  BY <1>9
  <2>2. j # k => pump'[k] = pump[k]  BY <1>1, <2>1 DEF DrainEndedSessions
  <2>3. j = k => pump[k].ended \/ ~pump'[k].ended
    BY <1>1, <2>1 DEF DrainEndedSessions, PumpState
  <2>4. QED  BY <2>2, <2>3
<1>10. CASE Crash  BY <1>10 DEF Crash, NoPump
<1>11. CASE ServerStep /\ UNCHANGED pumpVars  BY <1>2, <1>11
<1>12. CASE \E s \in Session : RunEnds(s)  BY <1>2, <1>12 DEF RunEnds
<1>13. CASE RanadStep
  <2>1. CASE HelloFails \/ ServeConnectionReturns \/ \E s \in Session : Work(s)
    BY <1>2, <2>1 DEF HelloFails, ServeConnectionReturns, Work, Emit
  <2>2. QED
    BY <1>4, <1>5, <1>6, <1>7, <1>8, <1>9, <1>10, <1>13, <2>1
    DEF RanadStep, DaemonStep, InboundStep, OutboundStep
<1>14. QED  BY <1>2, <1>3, <1>11, <1>12, <1>13 DEF Next, vars

\* Ends come from runs that are over.
LEMMA EndsKeptTold ==
    ASSUME Shape, Told, [Next]_vars, NEW k \in Conn, pump'[k].ended \/ EndWaits(k)'
    PROVE  conn'[k].svc \in Session /\ Over(conn[k].svc)'
<1>1. CASE \E s \in Session : Dial(s, k)
  <2>1. conn \in [Conn -> Connection] /\ pump \in [Conn -> PumpState]  BY DEF Shape, TypeOK
  <2>2. conn'[k].down = <<>> /\ pump'[k] = NoPump  BY <1>1, <2>1 DEF Dial
  <2>3. ~EndWaits(k)' /\ ~pump'[k].ended  BY <2>2 DEF EndWaits, NoPump
  <2>4. QED  BY <2>3
<1>2. CASE Stays(k)
  <2>1. conn'[k].svc = conn[k].svc  BY <1>2 DEF Stays
  <2>2. conn[k].svc \in Session /\ Over(conn[k].svc)
    <3>1. CASE pump[k].ended \/ EndWaits(k)  BY <3>1 DEF Told
    <3>2. CASE QueueSessionEnd(k)
      <4>1. conn[k].down # <<>> /\ Head(conn[k].down) = "end"  BY <3>2 DEF QueueSessionEnd, Inbound
      <4>2. conn[k].down \in Seq(DownFrame)  BY DEF Shape, TypeOK, Connection
      <4>3. EndWaits(k)  BY <4>1, <4>2 DEF EndWaits
      <4>4. QED  BY <4>3 DEF Told
    <3>3. CASE \E s \in Session : SendOne(s, k) /\ run[s] # "announcing"
      <4>1. PICK s \in Session : SendOne(s, k) /\ run[s] # "announcing"  BY <3>3
      <4>2. k \in tell[s]  BY <4>1 DEF SendOne
      <4>3. conn[k].svc = s /\ run[s] = "ending"  BY <4>1, <4>2 DEF Told
      <4>4. QED  BY <4>3 DEF Over
    <3>4. QED  BY <1>2, <3>1, <3>2, <3>3, EndedNext DEF Stays
  <2>3. Over(conn[k].svc)'
    <3>1. PICK s \in Session : s = conn[k].svc  BY <2>2
    <3>2. Over(s)'  BY <2>2, <3>1, OverStays
    <3>3. QED  BY <2>1, <3>1, <3>2 DEF Over
  <2>4. QED  BY <2>1, <2>2, <2>3
<1>3. QED  BY <1>1, <1>2, ConnNext

\* What a step does to a session's indices, as long as ranad lives.
LEMMA IndexNext ==
    ASSUME Shape, [Next]_vars, ~Crash, NEW s \in Session
    PROVE  \/ nextIdx'[s] = nextIdx[s] /\ issued'[s] = issued[s] /\ (s \in reissued' => s \in reissued)
           \/ Enrich(s)
           \/ \E k \in Conn : /\ pump[k].ended /\ conn[k].svc = s
                              /\ issued'[s] = issued[s] /\ (s \in reissued' => s \in reissued)
<1> USE DEF serverVars, pumpVars, shared, bounds, history
<1>1. nextIdx \in [Session -> Nat] /\ issued \in [Session -> Nat]  BY DEF Shape, TypeOK
<1>2. CASE UNCHANGED <<nextIdx, issued, reissued>>  BY <1>2
<1>3. CASE \E k \in Conn : ForwardRecord(k) \/ ShedRecord(k)
  <2>1. Enrich(Taken[1]) /\ Taken[1] \in Session
    BY <1>3, TakenType DEF ForwardRecord, ShedRecord
  <2>2. CASE Taken[1] # s
    BY <1>1, <2>1, <2>2 DEF Enrich, IndexTaken
  <2>3. QED  BY <2>1, <2>2
<1>4. CASE \E k \in Conn : DrainEndedSessions(k)
  <2>1. PICK k \in Conn : DrainEndedSessions(k)  BY <1>4
  <2>2. UNCHANGED <<issued, reissued>>  BY <2>1 DEF DrainEndedSessions
  <2>3. CASE pump[k].ended /\ conn[k].svc = s  BY <2>2, <2>3
  <2>4. CASE ~(pump[k].ended /\ conn[k].svc = s)
    <3>1. nextIdx'[s] = nextIdx[s]  BY <1>1, <2>1, <2>4 DEF DrainEndedSessions
    <3>2. QED  BY <2>2, <3>1
  <2>5. QED  BY <2>3, <2>4
<1>5. CASE \E k \in Conn : SkipUnknown(k) \/ DrainReturns(k) \/ FlushGaps(k)
  BY <1>2, <1>5 DEF SkipUnknown, DrainReturns, FlushGaps
<1>6. CASE \E k \in Conn : InboundStep(k) \/ InboundBreaks(k)
  BY <1>2, <1>6 DEF InboundStep, ArmSession, BindCgid, QueueSessionEnd, InboundReturns,
                    InboundBreaks
<1>7. CASE DaemonStep \/ \E t \in Session : Work(t)
  BY <1>2, <1>7 DEF DaemonStep, HelloArrives, HelloFails, ServeConnectionReturns, Work, Emit
<1>8. CASE \E t \in Session : Connect(t) \/ RunEnds(t)
  BY <1>2, <1>8 DEF Connect, Dial, RunEnds
<1>9. QED
  BY <1>2, <1>3, <1>4, <1>5, <1>6, <1>7, <1>8 DEF Next, RanadStep, OutboundStep, vars

\* The first crash.
LEMMA CrashesNext ==
    ASSUME Shape, [Next]_vars, crashes' = 0
    PROVE  crashes = 0 /\ ~Crash
<1> USE DEF serverVars, pumpVars, shared, bounds, history
<1>1. crashes \in Nat  BY DEF Shape, TypeOK
<1>2. ~Crash
  <2>1. Crash => crashes' = crashes + 1  BY DEF Crash
  <2>2. QED  BY <1>1, <2>1
<1>3. crashes' = crashes
  <2>1. CASE ServerStep /\ UNCHANGED pumpVars  BY <2>1
  <2>2. CASE RanadStep
    <3>1. CASE \E k \in Conn : InboundStep(k) \/ InboundBreaks(k)
      BY <3>1 DEF InboundStep, ArmSession, BindCgid, QueueSessionEnd, InboundReturns, InboundBreaks
    <3>2. CASE \E k \in Conn : OutboundStep(k)
      BY <3>2 DEF OutboundStep, SkipUnknown, ForwardRecord, ShedRecord, DrainReturns, FlushGaps,
                  DrainEndedSessions
    <3>3. CASE DaemonStep \/ \E t \in Session : Work(t)
      BY <3>3 DEF DaemonStep, HelloArrives, HelloFails, ServeConnectionReturns, Work, Emit
    <3>4. QED  BY <1>2, <2>2, <3>1, <3>2, <3>3 DEF RanadStep
  <2>3. CASE \E t \in Session : Connect(t) \/ RunEnds(t)  BY <2>3 DEF Connect, Dial, RunEnds
  <2>4. QED  BY <2>1, <2>2, <2>3 DEF Next, vars
<1>4. QED  BY <1>2, <1>3

\* Every step keeps Told.
LEMMA ToldKept == Shape /\ Told /\ [Next]_vars => Told'
<1> SUFFICES ASSUME Shape, Told, [Next]_vars PROVE Told'  OBVIOUS
<1>1. ASSUME NEW s \in Session
      PROVE  /\ \A k \in tell'[s] : conn'[k].svc = s
             /\ tell'[s] # {} => run'[s] \in {"announcing", "ending"}
  BY BroadcastKept
<1>2. ASSUME NEW k \in Conn, pump'[k].ended \/ EndWaits(k)'
      PROVE  conn'[k].svc \in Session /\ Over(conn[k].svc)'
  BY <1>2, EndsKeptTold
<1>3. ASSUME crashes' = 0, NEW s \in Session, nextIdx'[s] < issued'[s] \/ s \in reissued'
      PROVE  Over(s)'
  <2>1. crashes = 0 /\ ~Crash  BY <1>3, CrashesNext
  <2>2. nextIdx[s] < issued[s] \/ s \in reissued => Over(s)  BY <2>1 DEF Told
  <2>3. nextIdx \in [Session -> Nat] /\ issued \in [Session -> Nat]  BY DEF Shape, TypeOK
  <2>4. CASE nextIdx'[s] = nextIdx[s] /\ issued'[s] = issued[s] /\ (s \in reissued' => s \in reissued)
    BY <1>3, <2>2, <2>4, OverStays
  <2>5. CASE Enrich(s)
    <3>1. /\ nextIdx'[s] = nextIdx[s] + 1
          /\ issued'[s] = IF nextIdx[s] < issued[s] THEN issued[s] ELSE nextIdx[s] + 1
          /\ s \in reissued' => nextIdx[s] < issued[s] \/ s \in reissued
      BY <2>3, <2>5 DEF Enrich, IndexTaken
    <3>2. nextIdx[s] \in Nat /\ issued[s] \in Nat  BY <2>3
    <3>3. nextIdx[s] < issued[s] \/ s \in reissued  BY <1>3, <3>1, <3>2
    <3>4. QED  BY <2>2, <3>3, OverStays
  <2>6. CASE \E k \in Conn : pump[k].ended /\ conn[k].svc = s
    BY <2>6, OverStays DEF Told
  <2>7. QED  BY <2>1, <2>4, <2>5, <2>6, IndexNext
<1>4. QED  BY <1>1, <1>2, <1>3 DEF Told

\* Every variable has its type, and the index of a session is restarted only
\* when its run is over or ranad dies (enricher.go, EndSession; HandleConn's
\* replay): so no two events of a session bear the same index.
THEOREM LinkIsSound == Spec => []LinkInv
<1>1. Init => Shape /\ Told  BY ShapeStart, ToldStart
<1>2. Shape /\ Told /\ [Next]_vars => (Shape /\ Told)'  BY ShapeKept, ToldKept
<1>3. Shape /\ Told => LinkInv
  <2> SUFFICES ASSUME Shape, Told, crashes = 0, NEW s \in reissued PROVE run[s] \notin {"child", "killed"}
    BY DEF LinkInv, NeverReissued, Shape
  <2>1. s \in Session  BY DEF Shape, TypeOK
  <2>2. Over(s)  BY <2>1 DEF Told
  <2>3. QED  BY <2>2 DEF Over
<1>4. QED  BY <1>1, <1>2, <1>3, PTL DEF Spec

----------------------------------------------------------------------------
(* A link that nothing disturbs delivers *)

\* Nothing broke, nothing died, no run is over.
Calm == breaks = 0 /\ crashes = 0 /\ kills = 0 /\ \A s \in Session : ~Over(s)

\* The goroutines of a Pump are those of the connection that is being served,
\* both of them, and both its ends are open; nothing has been lost on the way.
Serving ==
    /\ \A k \in Conn : pump[k].inbound # "none" \/ pump[k].outbound # "none" => daemon = "serve" /\ k = cur
    /\ daemon = "serve" => Linked(cur) /\ pump[cur].inbound # "none" /\ pump[cur].outbound # "none"
    /\ \A l \in lost : l[3] \notin {"send", "count", "unread"}

Quiet == Calm => Serving

\* Nothing is being served.
LEMMA QuietStart == Init => Quiet
BY DEF Init, ServerInit, PumpInit, NoPump, Quiet, Serving

\* A calm never returns, and none of these steps leads to one.
LEMMA CalmNext ==
    ASSUME Shape, [Next]_vars, Calm'
    PROVE  /\ Calm /\ ~Crash
           /\ (\A k \in Conn : ~InboundBreaks(k)) /\ (\A s \in Session : ~RunEnds(s))
<1> USE DEF serverVars, pumpVars, shared, bounds, history
<1>1. breaks \in Nat /\ crashes \in Nat /\ kills \in Nat  BY DEF Shape, TypeOK
<1>2. breaks' = 0 /\ crashes' = 0 /\ kills' = 0 /\ \A s \in Session : ~Over(s)'
  BY DEF Calm
<1>3. crashes = 0 /\ ~Crash  BY <1>2, CrashesNext
<1>4. \A s \in Session : ~Over(s)  BY <1>2, OverStays
<1>5. ASSUME NEW k \in Conn PROVE ~InboundBreaks(k)
  <2>1. InboundBreaks(k) => breaks' = breaks + 1  BY DEF InboundBreaks
  <2>2. QED  BY <1>1, <1>2, <2>1
<1>6. ASSUME NEW s \in Session PROVE ~RunEnds(s)
  <2>1. Killed(s) => kills' = kills + 1  BY DEF Killed
  <2>2. Exit(s) => Over(s)  BY DEF Exit, Over
  <2>3. QED  BY <1>1, <1>2, <1>4, <2>1, <2>2 DEF RunEnds
<1>7. breaks' = breaks /\ kills' = kills
  <2>1. CASE ServerStep /\ UNCHANGED pumpVars
    BY <2>1 DEF ServerStep, Start, AddProcess, Abort, EndSession, Announce, Main,
                BroadcastSessionStart,
                StartChild, BroadcastSessionEnd, SendOne, Serve, Register, SendReplay, ReadFrame,
                HandleConnReturns
  <2>2. CASE RanadStep /\ UNCHANGED serverVars
    <3>1. CASE \E k \in Conn : InboundStep(k)
      BY <2>2, <3>1 DEF InboundStep, ArmSession, BindCgid, QueueSessionEnd, InboundReturns
    <3>2. CASE \E k \in Conn : OutboundStep(k)
      BY <2>2, <3>2 DEF OutboundStep, SkipUnknown, ForwardRecord, ShedRecord, DrainReturns,
                        FlushGaps,
                        DrainEndedSessions
    <3>3. CASE DaemonStep \/ \E t \in Session : Work(t)
      BY <2>2, <3>3 DEF DaemonStep, HelloArrives, HelloFails, ServeConnectionReturns, Work, Emit
    <3>4. QED  BY <1>3, <1>5, <2>2, <3>1, <3>2, <3>3 DEF RanadStep
  <2>3. CASE \E t \in Session : Connect(t)  BY <2>3 DEF Connect, Dial
  <2>4. QED  BY <1>6, <2>1, <2>2, <2>3 DEF Next, vars
<1>8. QED  BY <1>2, <1>3, <1>4, <1>5, <1>6, <1>7 DEF Calm

\* Both ends stay open while the connection is served.
LEMMA LinkStays ==
    ASSUME Shape, [Next]_vars, Calm', NEW k \in Conn, Linked(k), daemon' = "serve"
    PROVE  Linked(k)'
<1>1. ~HelloFails /\ ~ServeConnectionReturns /\ \A s \in Session : ~Dial(s, k)
  BY DEF HelloFails, ServeConnectionReturns, Dial
<1>2. ~HandleConnReturns(k)  BY DEF HandleConnReturns, NoFrame, Linked
<1>3. Stays(k)  BY <1>1, ConnNext
<1>4. conn[k].svc \in Session  BY DEF Linked, Shape, Ends, EndsOf, NoConn
<1>5. QED  BY <1>1, <1>2, <1>3, <1>4, CalmNext DEF Stays, Linked

\* A frame of the outbound goroutine is written.
LEMMA ServingWrites ==
    ASSUME Shape, Serving, [Next]_vars, Calm', UNCHANGED serverVars, NEW k \in Conn, OutboundStep(k)
    PROVE  Serving'
<1> USE DEF serverVars, shared, bounds, history
<1>1. pump \in [Conn -> PumpState] /\ pump[k] \in PumpState  BY DEF Shape, TypeOK
<1>2. daemon = "serve" /\ k = cur /\ Linked(k) /\ pump[k].inbound # "none" /\ pump[k].outbound # "none"
  BY OutboundTypes DEF Serving
<1>3. UNCHANGED <<daemon, cur>>
  BY DEF OutboundStep, SkipUnknown, ForwardRecord, ShedRecord, DrainReturns, FlushGaps,
         DrainEndedSessions
<1>4. Linked(k)'  BY <1>2, <1>3, LinkStays
<1>5. /\ pump'[k].inbound # "none" /\ pump'[k].outbound # "none"
      /\ \A j \in Conn \ {k} : pump'[j] = pump[j]
      /\ lost' = lost \/ lost' = lost \cup Because("unknown", {Taken})
  <2>1. CASE SkipUnknown(k)  BY <1>2, <2>1 DEF SkipUnknown
  <2>2. CASE ForwardRecord(k)
    <3>1. pump' = [pump EXCEPT ![k].outbound = "drain"] /\ lost' = lost
      BY <1>2, <2>2 DEF ForwardRecord, Send
    <3>2. QED  BY <1>1, <1>2, <3>1 DEF PumpState
  <2>3. CASE ShedRecord(k)  BY <1>2, <2>3 DEF ShedRecord
  <2>4. CASE DrainReturns(k)
    <3>1. pump' = [pump EXCEPT ![k].outbound = "gaps"] /\ lost' = lost  BY <2>4 DEF DrainReturns
    <3>2. QED  BY <1>1, <1>2, <3>1 DEF PumpState
  <2>5. CASE FlushGaps(k)
    <3>1. pump' = [pump EXCEPT ![k].outbound = "ended"] /\ lost' = lost
      BY <1>2, <2>5 DEF FlushGaps, Send
    <3>2. QED  BY <1>1, <1>2, <3>1 DEF PumpState
  <2>6. CASE DrainEndedSessions(k)
    <3>1. lost' = lost  BY <1>2, <2>6 DEF DrainEndedSessions
    <3>2. \/ pump' = [pump EXCEPT ![k].outbound = "drain"]
          \/ pump' = [pump EXCEPT ![k].ended = FALSE, ![k].cgid = FALSE, ![k].outbound = "drain"]
      BY <1>2, <2>6 DEF DrainEndedSessions
    <3>3. \/ PumpBecomes(k, [pump[k] EXCEPT !.outbound = "drain"])
          \/ PumpBecomes(k, [pump[k] EXCEPT !.ended = FALSE, !.cgid = FALSE, !.outbound = "drain"])
      BY <1>1, <3>2, OutboundGoes, EndForgotten
    <3>4. pump'[k].inbound = pump[k].inbound /\ pump'[k].outbound = "drain"
      BY <1>1, <3>3 DEF PumpBecomes, PumpState
    <3>5. \A j \in Conn \ {k} : pump'[j] = pump[j]  BY <3>3 DEF PumpBecomes
    <3>6. QED  BY <1>2, <3>1, <3>4, <3>5
  <2>7. QED  BY <2>1, <2>2, <2>3, <2>4, <2>5, <2>6 DEF OutboundStep
<1>6. \A l \in lost' : l[3] \notin {"send", "count", "unread"}
  <2>1. \A l \in Because("unknown", {Taken}) : l[3] = "unknown"  BY DEF Because
  <2>2. QED  BY <1>5, <2>1 DEF Serving
<1>7. QED  BY <1>2, <1>3, <1>4, <1>5, <1>6 DEF Serving

\* The inbound goroutine goes on.
LEMMA ServingReads ==
    ASSUME Shape, Serving, [Next]_vars, Calm', UNCHANGED serverVars, NEW k \in Conn, InboundStep(k)
    PROVE  Serving'
<1> USE DEF serverVars, shared, bounds, history
<1>1. pump \in [Conn -> PumpState] /\ pump[k] \in PumpState  BY DEF Shape, TypeOK
<1>2. pump[k].inbound # "none" /\ UNCHANGED <<daemon, cur, lost>>
  BY DEF InboundStep, ArmSession, BindCgid, QueueSessionEnd, InboundReturns, Inbound
<1>3. daemon = "serve" /\ k = cur /\ Linked(k) /\ pump[k].outbound # "none"
  BY <1>2 DEF Serving
<1>4. Linked(k)'  BY <1>2, <1>3, LinkStays
<1>5. /\ pump'[k].inbound # "none" /\ pump'[k].outbound # "none"
      /\ \A j \in Conn \ {k} : pump'[j] = pump[j]
  <2>1. CASE ArmSession(k)
    <3>1. PumpBecomes(k, [pump[k] EXCEPT !.cgid = TRUE, !.inbound = "bind"])
      BY <1>1, <2>1, StartRemembered DEF ArmSession
    <3>2. pump'[k].inbound = "bind" /\ pump'[k].outbound = pump[k].outbound
      BY <1>1, <3>1 DEF PumpBecomes, PumpState
    <3>3. QED  BY <1>3, <3>1, <3>2 DEF PumpBecomes
  <2>2. CASE BindCgid(k)  BY <1>1, <1>3, <2>2 DEF BindCgid, PumpState
  <2>3. CASE QueueSessionEnd(k)  BY <1>1, <1>2, <1>3, <2>3 DEF QueueSessionEnd, PumpState
  <2>4. ~InboundReturns(k)  BY <1>3 DEF InboundReturns, Linked
  <2>5. QED  BY <2>1, <2>2, <2>3, <2>4 DEF InboundStep
<1>6. QED  BY <1>2, <1>3, <1>4, <1>5 DEF Serving

\* Every step keeps Quiet.
LEMMA QuietKept == Shape /\ Quiet /\ [Next]_vars => Quiet'
<1> SUFFICES ASSUME Shape, Quiet, [Next]_vars, Calm' PROVE Serving'  BY DEF Quiet
<1> USE DEF serverVars, pumpVars, shared, bounds, history
<1>1. /\ Serving /\ ~Crash
      /\ (\A k \in Conn : ~InboundBreaks(k)) /\ (\A s \in Session : ~RunEnds(s))
  BY CalmNext DEF Quiet
<1>2. /\ conn \in [Conn -> Connection] /\ pump \in [Conn -> PumpState]
      /\ cur \in Conn \cup {0} /\ (cur = 0 => daemon = "dial")
  BY DEF Shape, TypeOK
<1>3. CASE UNCHANGED <<daemon, cur, pump>> /\ \A l \in lost' : l[3] \notin {"send", "count", "unread"}
  <2>1. daemon = "serve" => Linked(cur)'
    <3>1. CASE daemon = "serve"
      <4>1. cur \in Conn /\ Linked(cur)  BY <1>1, <1>2, <3>1 DEF Serving
      <4>2. PICK k \in Conn : k = cur  BY <4>1
      <4>3. Linked(k)'  BY <1>3, <3>1, <4>1, <4>2, LinkStays
      <4>4. QED  BY <1>3, <4>2, <4>3 DEF Linked
    <3>2. QED  BY <3>1
  <2>2. QED  BY <1>1, <1>3, <2>1 DEF Serving
<1>4. CASE \E s \in Session : Connect(s)
  <2>1. PICK s \in Session, k \in Conn : Connect(s) /\ Dial(s, k)  BY <1>4 DEF Connect
  <2>2. daemon = "dial" /\ daemon' = "hello" /\ lost' = lost /\ pump' = [pump EXCEPT ![k] = NoPump]
    BY <2>1 DEF Dial
  <2>3. \A j \in Conn : pump[j].inbound = "none" /\ pump[j].outbound = "none"
    BY <1>1, <2>2 DEF Serving
  <2>4. \A j \in Conn : pump'[j].inbound = "none" /\ pump'[j].outbound = "none"
    BY <1>2, <2>2, <2>3 DEF NoPump
  <2>5. QED  BY <1>1, <2>2, <2>4 DEF Serving
<1>5. CASE HelloArrives
  <2>1. /\ cur \in Conn /\ daemon = "hello" /\ daemon' = "serve" /\ UNCHANGED <<cur, lost>>
        /\ pump' = [pump EXCEPT ![cur] = NewPump] /\ conn[cur].svcOpen
    BY <1>2, <1>5 DEF HelloArrives
  <2>2. \A j \in Conn : pump[j].inbound = "none" /\ pump[j].outbound = "none"
    BY <1>1, <2>1 DEF Serving
  <2>3. /\ pump'[cur].inbound # "none" /\ pump'[cur].outbound # "none"
        /\ \A j \in Conn \ {cur} : pump'[j] = pump[j]
    BY <1>2, <2>1 DEF NewPump, NoPump
  <2>4. Linked(cur)'
    <3>1. Linked(cur)  BY <2>1 DEF Shape, Ends, Linked
    <3>2. PICK k \in Conn : k = cur  BY <2>1
    <3>3. Linked(k)'  BY <2>1, <3>1, <3>2, LinkStays
    <3>4. QED  BY <2>1, <3>2, <3>3 DEF Linked
  <2>5. QED  BY <1>1, <2>1, <2>2, <2>3, <2>4 DEF Serving
<1>6. CASE HelloFails
  <2>1. daemon = "hello" /\ daemon' = "dial" /\ UNCHANGED <<cur, pump, lost>>
    BY <1>6 DEF HelloFails
  <2>2. QED  BY <1>1, <2>1 DEF Serving
<1>7. ~ServeConnectionReturns  BY <1>1 DEF ServeConnectionReturns, Serving
<1>8. CASE \E s \in Session : Work(s)
  <2>1. PICK s \in Session, inside \in BOOLEAN : Emit(s, inside)  BY <1>8 DEF Work
  <2>2. UNCHANGED <<daemon, cur, pump>>  BY <2>1 DEF Emit
  <2>3. \/ lost' = lost
        \/ \E why \in {"outside", "unarmed", "ringfull"} : \E R : lost' = lost \cup Because(why, R)
    BY <2>1 DEF Emit
  <2>4. \A why, R : \A l \in Because(why, R) : l[3] = why  BY DEF Because
  <2>5. \A l \in lost' : l[3] \notin {"send", "count", "unread"}  BY <1>1, <2>3, <2>4 DEF Serving
  <2>6. QED  BY <1>3, <2>2, <2>5
<1>9. CASE ServerStep /\ UNCHANGED pumpVars  BY <1>1, <1>3, <1>9 DEF Serving
<1>10. CASE RanadStep /\ UNCHANGED serverVars
  BY <1>1, <1>5, <1>6, <1>7, <1>8, <1>10, ServingWrites, ServingReads DEF RanadStep, DaemonStep
<1>11. CASE UNCHANGED vars  BY <1>1, <1>3, <1>11 DEF Serving, vars
<1>12. QED  BY <1>1, <1>4, <1>9, <1>10, <1>11 DEF Next

\* While no connection broke, nothing died and no run is over, nothing taken
\* from the ring buffer is lost before it is in the ledger (pump.go, Run;
\* ranad_server.go, HandleConn).
THEOREM QuietLinksDeliver == Spec => []QuietLinkDelivers
<1>1. Init => Shape /\ Quiet  BY ShapeStart, QuietStart
<1>2. Shape /\ Quiet /\ [Next]_vars => (Shape /\ Quiet)'  BY ShapeKept, QuietKept
<1>3. Shape /\ Quiet => QuietLinkDelivers  BY DEF Quiet, Calm, Serving, QuietLinkDelivers
<1>4. QED  BY <1>1, <1>2, <1>3, PTL DEF Spec

=============================================================================
