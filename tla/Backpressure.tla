----------------------------- MODULE Backpressure -----------------------------
(***************************************************************************)
(* Who waits for whom when the ledger, the service and ranad are joined:   *)
(* the writer's queue and both directions of the socket hold only so much, *)
(* and the goroutine that would make room may be waiting itself.           *)
(*                                                                         *)
(*   ranad outbound --up--> HandleConn --queue--> ledger goroutine         *)
(*   ranad inbound <--down-- ranadConn.mu <-- ledger goroutine, rana run   *)
(*                                                                         *)
(* Contents are left out: an event is one more in a queue.  The main       *)
(* goroutine of `rana run` goes through its calls; each of them waits.     *)
(***************************************************************************)
EXTENDS Naturals, Sequences

CONSTANTS QueueRoom,       \* queueCapacity
          UpRoom, DownRoom,   \* frames the socket holds
          MaxEvents        \* bound: events from the kernel

ASSUME BackpressureAssumption ==
    QueueRoom \in Nat \ {0} /\ UpRoom \in Nat \ {0} /\ DownRoom \in Nat \ {0} /\ MaxEvents \in Nat

VARIABLES
    linked,     \* the connection stands
    up, down,   \* frames in each direction
    waiting,    \* events in the writer's queue
    events,     \* events ranad has taken from the ring buffer
    outbound,   \* ranad's outboundLoop
    inbound,    \* ranad's inboundLoop: has it a frame in hand?
    handling,   \* HandleConn
    commits,    \* the ledger's goroutine
    sender,     \* who holds ranadConn.mu
    main,       \* the call of Calls the main goroutine is at
    seal        \* a SealSession: none, asked, answered

pressureVars == <<linked, up, down, waiting, events, outbound, inbound, handling, commits,
                  sender, main, seal>>

\* EmitSessionStart, RegisterSessionCgid, Wait for the child, EmitSessionEnd,
\* the second SealSession of run, Close.
Calls ==
    <<"err", "append", "send", "wait", "err", "append", "seal", "send", "seal", "close">>

Call == IF main > Len(Calls) THEN "gone" ELSE Calls[main]

PressureInit ==
    /\ linked = TRUE /\ up = 0 /\ down = 0 /\ waiting = 0 /\ events = 0
    /\ outbound = "drain" /\ inbound = "read" /\ handling = "hello"
    /\ commits = "select" /\ sender = "nobody" /\ main = 1 /\ seal = "none"

\* A run that is gone, and ranad's connection with it.
PressureOver ==
    /\ linked = FALSE /\ up = 0 /\ down = 0 /\ waiting = 0 /\ events = 0
    /\ outbound = "ended" /\ inbound = "read" /\ handling = "ended"
    /\ commits = "ended" /\ sender = "nobody" /\ main = Len(Calls) + 1 /\ seal = "none"

----------------------------------------------------------------------------
(* ranad *)

Drain ==
    /\ linked /\ outbound = "drain" /\ events < MaxEvents
    /\ outbound' = "send" /\ events' = events + 1
    /\ UNCHANGED <<linked, up, down, waiting, inbound, handling, commits, sender, main, seal>>

\* Sink.Send: an event, a gap; a failed one ends the loop.
Send ==
    /\ outbound = "send"
    /\ IF linked THEN up < UpRoom /\ up' = up + 1 /\ outbound' = "drain"
       ELSE UNCHANGED up /\ outbound' = "ended"
    /\ UNCHANGED <<linked, down, waiting, events, inbound, handling, commits, sender, main, seal>>

\* mutant: one goroutine sends and receives in turn
RecvBetweenSends ==
    /\ linked /\ inbound = "read" /\ down > 0 /\ outbound = "drain"
    /\ down' = down - 1 /\ inbound' = "act"
    /\ UNCHANGED <<linked, up, waiting, events, outbound, handling, commits, sender, main, seal>>

Recv ==
    /\ linked /\ inbound = "read" /\ down > 0
    /\ down' = down - 1 /\ inbound' = "act"
    /\ UNCHANGED <<linked, up, waiting, events, outbound, handling, commits, sender, main, seal>>

\* AppendHead, RegisterSession, or the end is queued: endedMu and regMu are
\* never held across a Send.
Act ==
    /\ inbound = "act" /\ inbound' = "read"
    /\ UNCHANGED <<linked, up, down, waiting, events, outbound, handling, commits, sender, main, seal>>

----------------------------------------------------------------------------
(* The service *)

MuFreeFor(who) == sender = "nobody" /\ handling # "hello" /\ sender' = who

\* ranadConn.SendX: under the connection's lock; a write to a connection that
\* is gone returns with an error.
WriteDown(who) ==
    /\ sender = who /\ sender' = "nobody"
    /\ IF linked THEN down < DownRoom /\ down' = down + 1 ELSE UNCHANGED down

\* A broadcast to nobody.
NoneRegistered == handling = "hello" /\ UNCHANGED <<down, sender>>

\* register, once the Hello is read: a session that is active is replayed
\* before the first frame is read.
Register ==
    /\ handling = "hello" /\ handling' = IF main \in 3 .. 7 THEN "replay" ELSE "read"
    /\ UNCHANGED <<linked, up, down, waiting, events, outbound, inbound, commits, sender, main, seal>>

Replay ==
    /\ handling = "replay"
    /\ \/ MuFreeFor("replay") /\ UNCHANGED <<down, handling>>
       \/ WriteDown("replay") /\ handling' = "read"
    /\ UNCHANGED <<linked, up, waiting, events, outbound, inbound, commits, main, seal>>

ReadUp ==
    /\ handling = "read" /\ linked /\ up > 0
    /\ up' = up - 1 /\ handling' = "err"
    /\ UNCHANGED <<linked, down, waiting, events, outbound, inbound, commits, sender, main, seal>>

\* Close has closed closeCh.
Closing == Call \in {"close", "gone"}

\* Append reads the writer's error under the mutex that the ledger's goroutine
\* holds through a transaction.
ErrReturns == commits \notin {"tell", "tellseal"}

HandleErr ==
    /\ handling = "err" /\ ErrReturns /\ handling' = "append"
    /\ UNCHANGED <<linked, up, down, waiting, events, outbound, inbound, commits, sender, main, seal>>

\* Append's select: the queue has room, or the writer is closed.
AppendReturns ==
    \/ waiting < QueueRoom /\ waiting' = waiting + 1
    \/ Closing /\ UNCHANGED waiting

HandleAppend ==
    /\ handling = "append" /\ AppendReturns /\ handling' = "read"
    /\ UNCHANGED <<linked, up, down, events, outbound, inbound, commits, sender, main, seal>>

\* The reader returns and closes its end.
HandleEnds ==
    /\ handling = "read" /\ ~linked /\ handling' = "ended"
    /\ UNCHANGED <<linked, up, down, waiting, events, outbound, inbound, commits, sender, main, seal>>

----------------------------------------------------------------------------
(* The ledger's goroutine *)

\* A batch is committed; a checkpoint in it is told to ranad first.
TakeEvent ==
    /\ commits = "select" /\ waiting > 0 /\ waiting' = waiting - 1
    /\ commits' \in {"select", "tell"}
    /\ UNCHANGED <<linked, up, down, events, outbound, inbound, handling, sender, main, seal>>

\* A seal request commits what is queued first; its heads count as one.
TakeSeal ==
    /\ commits = "select" /\ seal = "asked" /\ waiting' = 0
    /\ commits' \in {"answer", "tellseal"}
    /\ UNCHANGED <<linked, up, down, events, outbound, inbound, handling, sender, main, seal>>

\* OnHeadReport, Broadcast: it returns when the head is written, or cannot be.
TellHead ==
    /\ commits \in {"tell", "tellseal"}
    /\ \/ MuFreeFor("ledger") /\ UNCHANGED <<down, commits>>
       \/ /\ WriteDown("ledger") \/ NoneRegistered
          /\ commits' = IF commits = "tell" THEN "select" ELSE "answer"
    /\ UNCHANGED <<linked, up, waiting, events, outbound, inbound, handling, main, seal>>

Answer ==
    /\ commits = "answer" /\ commits' = "select" /\ seal' = "answered"
    /\ UNCHANGED <<linked, up, down, waiting, events, outbound, inbound, handling, sender, main>>

\* closeCh: what is in the queue is taken first.
CommitsEnd ==
    /\ commits = "select" /\ Call = "close" /\ waiting = 0 /\ commits' = "ended"
    /\ UNCHANGED <<linked, up, down, waiting, events, outbound, inbound, handling, sender, main, seal>>

----------------------------------------------------------------------------
(* The main goroutine *)

MainErr ==
    /\ Call = "err" /\ ErrReturns /\ main' = main + 1
    /\ UNCHANGED <<linked, up, down, waiting, events, outbound, inbound, handling, commits, sender, seal>>

MainAppends ==
    /\ Call = "append" /\ AppendReturns /\ main' = main + 1
    /\ UNCHANGED <<linked, up, down, events, outbound, inbound, handling, commits, sender, seal>>

MainSends ==
    /\ Call = "send"
    /\ \/ MuFreeFor("main") /\ UNCHANGED <<down, main>>
       \/ (WriteDown("main") \/ NoneRegistered) /\ main' = main + 1
    /\ UNCHANGED <<linked, up, waiting, events, outbound, inbound, handling, commits, seal>>

MainSeals ==
    /\ Call = "seal"
    /\ \/ seal = "none" /\ seal' = "asked" /\ UNCHANGED main
       \/ seal = "answered" /\ seal' = "none" /\ main' = main + 1
    /\ UNCHANGED <<linked, up, down, waiting, events, outbound, inbound, handling, commits, sender>>

ChildExits ==
    /\ Call = "wait" /\ main' = main + 1
    /\ UNCHANGED <<linked, up, down, waiting, events, outbound, inbound, handling, commits, sender, seal>>

\* Close waits for the ledger's goroutine; the process ends, and its sockets.
MainCloses ==
    /\ Call = "close" /\ commits = "ended" /\ main' = main + 1 /\ linked' = FALSE
    /\ UNCHANGED <<up, down, waiting, events, outbound, inbound, handling, commits, sender, seal>>

\* ranad dies or closes the connection.
Break ==
    /\ linked /\ linked' = FALSE
    /\ UNCHANGED <<up, down, waiting, events, outbound, inbound, handling, commits, sender, main, seal>>

Handle == Register \/ Replay \/ ReadUp \/ HandleErr \/ HandleAppend \/ HandleEnds
Commit == TakeEvent \/ TakeSeal \/ TellHead \/ Answer \/ CommitsEnd
Main   == MainErr \/ MainAppends \/ MainSends \/ MainSeals \/ MainCloses

PressureNext == Drain \/ Send \/ Recv \/ Act \/ Handle \/ Commit \/ Main \/ ChildExits \/ Break

\* Every goroutine runs.  ranad's are assumed to while the connection stands:
\* a ranad that is stopped and not dead stops the ledger.
PressureFairness ==
    /\ WF_pressureVars(Drain \/ Send) /\ WF_pressureVars(Recv \/ Act)
    /\ WF_pressureVars(Handle) /\ WF_pressureVars(Commit) /\ WF_pressureVars(Main)

PressureSpec == PressureInit /\ [][PressureNext]_pressureVars /\ PressureFairness

----------------------------------------------------------------------------
(* Properties *)

\* The ledger's goroutine always comes back from telling a head, however full
\* the queue and the socket are.
LedgerNeverStuck == []<>(commits \in {"select", "ended"})

\* Every call of `rana run` but the wait for its child returns, in the middle of
\* whatever ranad sends.
RunGetsThrough == []<>(Call \in {"wait", "gone"})

\* What ranad sends on a connection that stands is read and queued.
UpIsRead == []<>(~linked \/ (up = 0 /\ handling \notin {"err", "append"}))

\* The cycle of waiting never closes.
NobodyStuck == LedgerNeverStuck /\ RunGetsThrough /\ UpIsRead

=============================================================================
