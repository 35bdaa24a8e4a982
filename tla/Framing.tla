------------------------------- MODULE Framing -------------------------------
(***************************************************************************)
(* One direction of a connection below its frames (internal/wire/wire.go). *)
(* WriteFrame writes a length prefix and a body, two writes, under         *)
(* ranadConn.mu; ReadFrame reads the one, then as much of the other.  The  *)
(* socket holds what fits of it, so a frame arrives in pieces.             *)
(*                                                                         *)
(* The reader is HandleConn, which waits as long as it takes, or ranad's   *)
(* connFrameSink.Recv, which gives each frame 20 ms from the start of the  *)
(* call.  A deadline that has passed fails the next read, even if there is *)
(* something to be read.                                                   *)
(*                                                                         *)
(* A unit is the prefix of a frame (part 0) or a part of its body.         *)
(***************************************************************************)
EXTENDS Naturals, Sequences, SequencesExt

CONSTANTS Writer,      \* goroutines that write to the connection
          NoWriter,    \* not one of them
          Parts,       \* units of a body
          Room,        \* units the socket holds
          MaxFrames    \* bound: frames per writer

ASSUME FramingAssumption ==
    NoWriter \notin Writer /\ Parts \in Nat \ {0} /\ Room \in Nat \ {0} /\ MaxFrames \in Nat

VARIABLES
    timed,       \* is the reader Recv?
    connMu,      \* who holds ranadConn.mu
    writing,     \* per writer: what is left of the frame it writes
    framesSent,  \* per writer: frames begun
    socket,      \* units written and not read
    hungUp,      \* the writers' process has closed its end
    reader,      \* where the reader is
    written,     \* ours: the frames begun, in order
    received,    \* ours: the frames read, in order
    cutShort     \* ours: a deadline passed between a prefix and the end of its body

writerVars  == <<connMu, writing, framesSent, written>>
framingVars == <<timed, writerVars, socket, hungUp, reader, received, cutShort>>

FramingInit ==
    /\ timed \in BOOLEAN /\ connMu = NoWriter
    /\ writing = [w \in Writer |-> <<>>] /\ framesSent = [w \in Writer |-> 0]
    /\ socket = <<>> /\ hungUp = FALSE /\ reader = [at |-> "away"]
    /\ written = <<>> /\ received = <<>> /\ cutShort = FALSE

Ended(why) == [at |-> "ended", why |-> why]

\* A connection over which nothing was sent.
FramingOver ==
    /\ timed = FALSE /\ connMu = NoWriter
    /\ writing = [w \in Writer |-> <<>>] /\ framesSent = [w \in Writer |-> 0]
    /\ socket = <<>> /\ hungUp = TRUE /\ reader = Ended("eof")
    /\ written = <<>> /\ received = <<>> /\ cutShort = FALSE

----------------------------------------------------------------------------
(* WriteFrame *)

Units(f) == [i \in 1 .. Parts + 1 |-> [frame |-> f, part |-> i - 1]]

BeginFrame(w) ==
    LET f == <<w, framesSent[w] + 1>>
    IN  /\ writing[w] = <<>> /\ framesSent[w] < MaxFrames /\ ~hungUp
        /\ framesSent' = [framesSent EXCEPT ![w] = @ + 1]
        /\ writing' = [writing EXCEPT ![w] = Units(f)] /\ written' = Append(written, f)
        /\ UNCHANGED <<timed, socket, hungUp, reader, received, cutShort>>

\* mutant: nobody takes the lock
NoLock(w) == BeginFrame(w) /\ UNCHANGED connMu

\* SendHead, SendSessionStart, SendSessionEnd: the lock is held for the frame.
Lock(w) == BeginFrame(w) /\ connMu = NoWriter /\ connMu' = w

\* A write goes on as the socket has room.
WriteUnit(w) ==
    /\ writing[w] # <<>> /\ Len(socket) < Room /\ reader.at # "ended"
    /\ socket' = Append(socket, Head(writing[w]))
    /\ writing' = [writing EXCEPT ![w] = Tail(@)]
    /\ connMu' = IF writing'[w] = <<>> THEN NoWriter ELSE connMu
    /\ UNCHANGED <<timed, framesSent, hungUp, reader, written, received, cutShort>>

\* The reader has closed the connection; the error is ignored.
WriteFails(w) ==
    /\ writing[w] # <<>> /\ reader.at = "ended"
    /\ writing' = [writing EXCEPT ![w] = <<>>] /\ connMu' = NoWriter
    /\ UNCHANGED <<timed, framesSent, socket, hungUp, reader, written, received, cutShort>>

\* The process ends, within a frame perhaps.
HangUp ==
    /\ ~hungUp /\ hungUp' = TRUE /\ writing' = [w \in Writer |-> <<>>] /\ connMu' = NoWriter
    /\ UNCHANGED <<timed, framesSent, socket, reader, written, received, cutShort>>

----------------------------------------------------------------------------
(* ReadFrame *)

\* Recv sets its deadline; PumpInbound calls it again and again.
CallRead ==
    /\ reader.at = "away" /\ reader' = [at |-> "prefix"]
    /\ UNCHANGED <<timed, writerVars, socket, hungUp, received, cutShort>>

\* What a body's unit says when it is read as a prefix: no length at all or
\* too much of one, which ends the connection, or any.
Misread == {Ended("garbage")} \cup {[at |-> "body", need |-> n, got |-> <<>>] : n \in 1 .. Parts + 1}

ReadPrefix ==
    /\ reader.at = "prefix" /\ socket # <<>> /\ socket' = Tail(socket)
    /\ IF Head(socket).part = 0 THEN reader' = [at |-> "body", need |-> Parts, got |-> <<>>]
       ELSE reader' \in Misread
    /\ UNCHANGED <<timed, writerVars, hungUp, received, cutShort>>

\* mutant: one Read, which returns what there is
BodyOnce(got, need) == Len(got) >= 1

\* io.ReadFull
BodyRead(got, need) == Len(got) = need

\* A body decodes if it is one.
Decodes(got) == \E f \in ToSet(written) : got = Tail(Units(f))

ReadBody ==
    /\ reader.at = "body" /\ socket # <<>> /\ socket' = Tail(socket)
    /\ LET got == Append(reader.got, Head(socket))
       IN  IF ~BodyRead(got, reader.need)
           THEN reader' = [reader EXCEPT !.got = got] /\ UNCHANGED received
           ELSE IF Decodes(got)
           THEN reader' = [at |-> "away"] /\ received' = Append(received, got[1].frame)
           ELSE reader' = Ended("garbage") /\ UNCHANGED received
    /\ UNCHANGED <<timed, writerVars, hungUp, cutShort>>

\* readUvarint wraps a read error as text: Recv does not see that it was its
\* deadline and returns it, and inboundLoop ends.
DeadlineAtPrefix ==
    /\ timed /\ reader.at = "prefix" /\ reader' = Ended("silence")
    /\ UNCHANGED <<timed, writerVars, socket, hungUp, received, cutShort>>

\* ReadFrame wraps it as an error here: ErrNoMoreFrames.  What was read of the
\* frame is forgotten, the next call starts behind it.
DeadlineInBody ==
    /\ timed /\ reader.at = "body" /\ reader' = [at |-> "away"] /\ cutShort' = TRUE
    /\ UNCHANGED <<timed, writerVars, socket, hungUp, received>>

ReadEnds ==
    /\ reader.at \in {"prefix", "body"} /\ socket = <<>> /\ hungUp
    /\ reader' = Ended("eof")
    /\ UNCHANGED <<timed, writerVars, socket, hungUp, received, cutShort>>

Read == CallRead \/ ReadPrefix \/ ReadBody \/ ReadEnds

Write(w) == Lock(w) \/ WriteUnit(w) \/ WriteFails(w)

FramingNext ==
    \/ Read \/ DeadlineAtPrefix \/ DeadlineInBody \/ HangUp
    \/ \E w \in Writer : Write(w)

\* The goroutines run; no deadline and no end of a process is forced.
FramingFairness ==
    WF_framingVars(Read) /\ \A w \in Writer : WF_framingVars(WriteUnit(w) \/ WriteFails(w))

FramingSpec == FramingInit /\ [][FramingNext]_framingVars /\ FramingFairness

----------------------------------------------------------------------------
(* Properties *)

\* As long as no deadline cuts a frame short, the writers' frames come out
\* whole, each once and in the order the lock was taken, and the reader never
\* takes the middle of a frame for its start.
FramesStayWhole ==
    ~cutShort => IsPrefix(received, written) /\ reader # Ended("garbage")

\* A reader without a deadline reads every frame that was begun, unless the
\* writers' process ends.
UntimedReadsAll == []<>(timed \/ hungUp \/ received = written)

\* sock_linux.go: a deadline's timeout means that there is nothing available
\* right now, not that the connection is broken.
SilenceIsNoBreak == reader # Ended("silence")

=============================================================================
