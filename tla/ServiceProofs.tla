---------------------------- MODULE ServiceProofs ----------------------------
(***************************************************************************)
(* Proofs about the parts of the session service beside the writer and the *)
(* link: the frames of a connection, the digest worker, the live tail, the *)
(* cgroup's watchers and the alert rules, for any number of writers,       *)
(* files, publishers, viewers, watches and sessions, and runs of any       *)
(* length.                                                                 *)
(*                                                                         *)
(* Frames.  Only the holder of connMu has units left to write, so the      *)
(* socket and behind it what the holder has left are one sequence, the     *)
(* pipe.  Read from the unit the reader is about to take, the pipe is the  *)
(* frames that were written and not yet received, whole and in order       *)
(* (InStep), until a call is cut short.                                    *)
(*                                                                         *)
(* Digests.  What the worker remembers of a file is never newer than the   *)
(* file and older than a change it has not seen (Seen), the size it holds  *)
(* between stat and read is the file's unless that raced (Measured), and   *)
(* the digest and size it remembers are those of the file's last event     *)
(* (Remembers).                                                            *)
(*                                                                         *)
(* The tail.  The list holds each listener once; during a removal that is  *)
(* so of all slots but one, the next to be filled (ListInv).  No removal   *)
(* runs while a walk is calm, and nobody writes to the slots it walks: the *)
(* slots it has passed were offered its event once, those it has still to  *)
(* reach not yet (OnceEach).  Nothing on a page is beyond the page's       *)
(* maxIdx (PagesInv).                                                      *)
(*                                                                         *)
(* The cgroup.  Only the goroutine of a watch closes its channel, only a   *)
(* cancelled watch is woken by its own pipe, and a watch that gave up when *)
(* a call of its own failed is closed (WatchersInv).                       *)
(*                                                                         *)
(* Alerts.  The list of a side has all of its alerts that are still in the *)
(* window, and what waits to be escalated is a pair of alerts near each    *)
(* other; the two together miss no pair (PairsInv).  What a burst rule     *)
(* counts is the rate at the event it is asked about, and it is armed      *)
(* exactly if the rate was below the threshold at the event before         *)
(* (WindowsOK): the alerts, with the one that waits, are as many as the    *)
(* rises (BurstsCounted).                                                  *)
(***************************************************************************)
EXTENDS Framing, DigestWorker, LiveTail, SessionScope, AlertEngine,
        SequenceTheorems, FiniteSetTheorems, TLAPS

----------------------------------------------------------------------------

Frame == Writer \X Nat
Unit == [frame : Frame, part : 0 .. Parts]
Reader ==
    [at : {"away", "prefix"}]
    \cup [at : {"body"}, need : Nat, got : Seq(Unit)]
    \cup [at : {"ended"}, why : {"eof", "garbage", "silence"}]

\* The types the argument needs.
FramingTypes ==
    /\ timed \in BOOLEAN /\ hungUp \in BOOLEAN /\ cutShort \in BOOLEAN
    /\ connMu \in Writer \cup {NoWriter}
    /\ writing \in [Writer -> Seq(Unit)] /\ framesSent \in [Writer -> Nat]
    /\ socket \in Seq(Unit) /\ reader \in Reader
    /\ written \in Seq(Frame) /\ received \in Seq(Frame)

\* Only who holds the lock has something to write, and every frame has a name
\* of its own.
OneAtATime ==
    /\ \A w \in Writer : writing[w] # <<>> => connMu = w
    /\ \A i \in 1 .. Len(written) : written[i][2] <= framesSent[written[i][1]]
    /\ \A i, j \in 1 .. Len(written) : written[i] = written[j] => i = j

\* What is on its way: the units in the socket, and behind them those the
\* holder of the lock has still to write.
Left == IF connMu = NoWriter THEN <<>> ELSE writing[connMu]
PipeLen == Len(socket) + Len(Left)
Pipe(i) == IF i <= Len(socket) THEN socket[i] ELSE Left[i - Len(socket)]

\* The unit the reader is about to read: of the frame behind those it has
\* received, as far as it has got with it.
Place0 == IF reader.at = "body" THEN Len(reader.got) + 1 ELSE 0

\* v is behind u in what was written.
Follows(u, v) ==
    \E n \in 1 .. Len(written) :
        /\ u.frame = written[n]
        /\ \/ u.part < Parts /\ v = [frame |-> u.frame, part |-> u.part + 1]
           \/ u.part = Parts /\ n < Len(written) /\ v = [frame |-> written[n + 1], part |-> 0]

\* The reader and what is on its way to it follow one another without a gap,
\* to the end of the last frame unless the process ended within it.
InStep ==
    /\ PipeLen > 0 => /\ Len(received) < Len(written)
                      /\ Pipe(1) = [frame |-> written[Len(received) + 1], part |-> Place0]
    /\ \A i \in 1 .. PipeLen - 1 : Follows(Pipe(i), Pipe(i + 1))
    /\ ~hungUp /\ PipeLen = 0 => Len(received) = Len(written) /\ Place0 = 0
    /\ ~hungUp /\ PipeLen > 0 =>
          Pipe(PipeLen) = [frame |-> written[Len(written)], part |-> Parts]
    /\ reader.at = "body" =>
          /\ reader.need = Parts /\ Len(reader.got) < Parts /\ Len(received) < Len(written)
          /\ \A i \in 1 .. Len(reader.got) :
                reader.got[i] = [frame |-> written[Len(received) + 1], part |-> i]

\* What was read is what was written first.
ReadInOrder ==
    /\ Len(received) <= Len(written)
    /\ \A i \in 1 .. Len(received) : received[i] = written[i]
    /\ reader # Ended("garbage")

FramingInv ==
    /\ FramingTypes /\ OneAtATime
    /\ ~cutShort => ReadInOrder /\ (reader.at # "ended" => InStep)

----------------------------------------------------------------------------

\* WriteFrame's two writes as units.
LEMMA UnitsOf ==
    ASSUME NEW f \in Frame
    PROVE  /\ Units(f) \in Seq(Unit) /\ Len(Units(f)) = Parts + 1
           /\ \A i \in 1 .. Parts + 1 : Units(f)[i] = [frame |-> f, part |-> i - 1]
           /\ Tail(Units(f)) \in Seq(Unit) /\ Len(Tail(Units(f))) = Parts
           /\ \A i \in 1 .. Parts : Tail(Units(f))[i] = [frame |-> f, part |-> i]
<1>1. Parts + 1 \in Nat /\ Parts \in Nat
  BY FramingAssumption
<1>2. \A i \in 1 .. Parts + 1 : [frame |-> f, part |-> i - 1] \in Unit
  BY <1>1 DEF Unit
<1>3. Units(f) \in [1 .. Parts + 1 -> Unit]
  BY <1>2, Zenon DEF Units
<1>4. Units(f) \in Seq(Unit)
  BY <1>1, <1>3, SeqDef, Zenon
<1>5. Len(Units(f)) = Parts + 1
  <2>1. DOMAIN Units(f) = 1 .. Len(Units(f)) /\ Len(Units(f)) \in Nat
    BY <1>4, LenProperties
  <2>2. DOMAIN Units(f) = 1 .. Parts + 1
    BY Zenon DEF Units
  <2> DEFINE n == Len(Units(f))
             m == Parts + 1
  <2>3. n \in Nat /\ m \in Nat /\ 1 .. n = 1 .. m
    BY <1>1, <2>1, <2>2
  <2> HIDE DEF n, m
  <2>4. n = m
    BY <2>3
  <2> QED
    BY <2>4 DEF n, m
<1>6. \A i \in 1 .. Parts + 1 : Units(f)[i] = [frame |-> f, part |-> i - 1]
  BY Zenon DEF Units
<1>7. Units(f) # <<>>
  BY <1>1, <1>4, <1>5
<1>8. /\ Tail(Units(f)) \in Seq(Unit) /\ Len(Tail(Units(f))) = Len(Units(f)) - 1
      /\ \A i \in 1 .. Len(Tail(Units(f))) : Tail(Units(f))[i] = Units(f)[i + 1]
  <2> DEFINE q == Units(f)
  <2>1. q \in Seq(Unit) /\ q # <<>>
    BY <1>4, <1>7
  <2> HIDE DEF q
  <2>2. /\ Tail(q) \in Seq(Unit) /\ Len(Tail(q)) = Len(q) - 1
        /\ \A i \in 1 .. Len(Tail(q)) : Tail(q)[i] = q[i + 1]
    BY <2>1, HeadTailProperties
  <2> QED
    BY <2>2 DEF q
<1>9. \A i \in 1 .. Parts : Tail(Units(f))[i] = [frame |-> f, part |-> i]
  <2> SUFFICES ASSUME NEW i \in 1 .. Parts PROVE Tail(Units(f))[i] = [frame |-> f, part |-> i]
    OBVIOUS
  <2>1. i + 1 \in 1 .. Parts + 1 /\ i \in 1 .. Len(Tail(Units(f))) /\ i + 1 - 1 = i
    BY <1>1, <1>5, <1>8
  <2> QED
    BY <1>6, <1>8, <2>1
<1> QED
  BY <1>1, <1>4, <1>5, <1>6, <1>8, <1>9

\* A connection over which nothing was sent yet.
LEMMA FramingStarts == FramingInit => FramingInv
<1> SUFFICES ASSUME FramingInit PROVE FramingInv
  OBVIOUS
<1>1. <<>> \in Seq(Unit) /\ <<>> \in Seq(Frame)
  OBVIOUS
<1>2. reader \in Reader /\ reader.at = "away"
  BY DEF FramingInit, Reader
<1>3. FramingTypes
  BY <1>1, <1>2 DEF FramingInit, FramingTypes
<1>4. OneAtATime
  BY DEF FramingInit, OneAtATime
<1>5. Len(socket) = 0 /\ Left = <<>> /\ Len(written) = 0 /\ Len(received) = 0
  BY DEF FramingInit, Left
<1>6. ReadInOrder /\ InStep
  BY <1>2, <1>5 DEF ReadInOrder, InStep, PipeLen, Place0, Ended
<1> QED
  BY <1>3, <1>4, <1>6 DEF FramingInv

\* The types of what is on its way.
LEMMA PipeTypes ==
    ASSUME FramingTypes
    PROVE  /\ Left \in Seq(Unit) /\ Len(Left) \in Nat /\ Len(socket) \in Nat
           /\ PipeLen \in Nat /\ Len(written) \in Nat /\ Len(received) \in Nat
           /\ \A i \in 1 .. PipeLen : Pipe(i) \in Unit
<1>1. Left \in Seq(Unit)
  <2>1. <<>> \in Seq(Unit)
    OBVIOUS
  <2> QED
    BY <2>1 DEF FramingTypes, Left
<1>2. Len(Left) \in Nat /\ Len(socket) \in Nat /\ Len(written) \in Nat /\ Len(received) \in Nat
  BY <1>1 DEF FramingTypes
<1>3. PipeLen \in Nat
  BY <1>2 DEF PipeLen
<1>4. ASSUME NEW i \in 1 .. PipeLen PROVE Pipe(i) \in Unit
  <2>1. CASE i <= Len(socket)
    <3>1. i \in 1 .. Len(socket)
      BY <1>2, <2>1
    <3>2. socket[i] \in Unit
      BY <3>1 DEF FramingTypes
    <3> QED
      BY <2>1, <3>2 DEF Pipe
  <2>2. CASE ~(i <= Len(socket))
    <3>1. i - Len(socket) \in 1 .. Len(Left)
      BY <1>2, <2>2 DEF PipeLen
    <3>2. Left[i - Len(socket)] \in Unit
      BY <1>1, <3>1
    <3> QED
      BY <2>2, <3>2 DEF Pipe
  <2> QED
    BY <2>1, <2>2
<1> QED
  BY <1>1, <1>2, <1>3, <1>4

\* What a write does to the pipe: nothing, it moves a unit on. WriteFrame.
LEMMA WriteMoves ==
    ASSUME FramingInv, NEW w \in Writer, WriteUnit(w)
    PROVE  /\ FramingTypes' /\ OneAtATime' /\ PipeLen' = PipeLen
           /\ \A i \in 1 .. PipeLen : Pipe(i)' = Pipe(i)
<1>1. FramingTypes /\ OneAtATime
  BY DEF FramingInv
<1> DEFINE q == writing[w]
           t == Tail(q)
<1>2. /\ q # <<>> /\ socket' = Append(socket, Head(q)) /\ writing' = [writing EXCEPT ![w] = Tail(q)]
      /\ connMu' = (IF writing'[w] = <<>> THEN NoWriter ELSE connMu)
      /\ UNCHANGED <<timed, framesSent, hungUp, reader, written, received, cutShort>>
  BY DEF WriteUnit
<1>3. q \in Seq(Unit) /\ connMu = w /\ Left = q
  BY <1>1, <1>2, FramingAssumption DEF FramingTypes, OneAtATime, Left
<1>4. /\ Head(q) \in Unit /\ Tail(q) \in Seq(Unit) /\ Len(Tail(q)) = Len(q) - 1
      /\ Head(q) = q[1] /\ \A i \in 1 .. Len(Tail(q)) : Tail(q)[i] = q[i + 1]
  <2>1. Len(q) \in Nat \ {0}
    BY <1>2, <1>3, EmptySeq
  <2>2. q[1] \in Unit
    BY <1>3, <2>1
  <2> QED
    BY <1>2, <1>3, <2>2, HeadTailProperties
<1>13. /\ t \in Seq(Unit) /\ Len(t) = Len(q) - 1 /\ Head(q) = q[1] /\ Head(q) \in Unit
       /\ \A i \in 1 .. Len(t) : t[i] = q[i + 1]
       /\ writing' = [writing EXCEPT ![w] = t]
  BY <1>2, <1>4
<1> HIDE DEF q, t
<1>5. writing'[w] = t /\ writing' \in [Writer -> Seq(Unit)]
      /\ \A v \in Writer \ {w} : writing'[v] = writing[v]
  BY <1>1, <1>2, <1>13 DEF FramingTypes
<1>6. /\ socket' \in Seq(Unit) /\ Len(socket') = Len(socket) + 1
      /\ \A i \in 1 .. Len(socket) : socket'[i] = socket[i]
      /\ socket'[Len(socket) + 1] = q[1]
  BY <1>1, <1>2, <1>13, AppendProperties DEF FramingTypes
<1>7. FramingTypes'
  BY <1>1, <1>2, <1>5, <1>6 DEF FramingTypes
<1>8. OneAtATime'
  BY <1>1, <1>2, <1>3, <1>5 DEF OneAtATime
<1>9. Left' = t
  BY <1>2, <1>3, <1>5, FramingAssumption DEF Left
<1>10. Len(q) \in Nat /\ Len(socket) \in Nat /\ Len(t) = Len(q) - 1
  BY <1>1, <1>3, <1>13 DEF FramingTypes
<1>11. PipeLen' = PipeLen /\ PipeLen = Len(socket) + Len(q)
  <2>1. PipeLen' = Len(socket') + Len(Left') /\ PipeLen = Len(socket) + Len(Left)
    BY DEF PipeLen
  <2> QED
    BY <1>3, <1>6, <1>9, <1>10, <2>1
<1>12. ASSUME NEW i \in 1 .. PipeLen PROVE Pipe(i)' = Pipe(i)
  <2>1. CASE i <= Len(socket)
    BY <1>6, <1>10, <2>1 DEF Pipe
  <2>2. CASE i = Len(socket) + 1
    <3>1. Pipe(i) = q[1]
      BY <1>3, <1>10, <2>2 DEF Pipe
    <3>2. Pipe(i)' = socket'[i]
      BY <1>6, <1>10, <2>2 DEF Pipe
    <3> QED
      BY <1>6, <2>2, <3>1, <3>2
  <2>3. CASE i > Len(socket) + 1
    <3>1. Pipe(i) = q[i - Len(socket)]
      BY <1>3, <1>10, <2>3 DEF Pipe
    <3>2. Pipe(i)' = t[i - (Len(socket) + 1)]
      BY <1>6, <1>9, <1>10, <2>3 DEF Pipe
    <3>3. i - (Len(socket) + 1) \in 1 .. Len(t) /\ i - (Len(socket) + 1) + 1 = i - Len(socket)
      BY <1>10, <1>11, <2>3
    <3> QED
      BY <1>13, <3>1, <3>2, <3>3
  <2> QED
    BY <1>10, <2>1, <2>2, <2>3
<1> QED
  BY <1>7, <1>8, <1>11, <1>12

\* What reading a unit does to it: the next one is the first. ReadFrame.
LEMMA ReadMoves ==
    ASSUME FramingInv, socket # <<>>, socket' = Tail(socket), UNCHANGED <<connMu, writing>>
    PROVE  /\ socket' \in Seq(Unit) /\ PipeLen' = PipeLen - 1 /\ PipeLen > 0
           /\ Head(socket) = Pipe(1) /\ Head(socket) \in Unit
           /\ \A i \in 1 .. PipeLen - 1 : Pipe(i)' = Pipe(i + 1)
<1>1. FramingTypes
  BY DEF FramingInv
<1>2. socket \in Seq(Unit) /\ Len(socket) \in Nat \ {0}
  BY <1>1, EmptySeq DEF FramingTypes
<1>3. /\ Tail(socket) \in Seq(Unit) /\ Len(Tail(socket)) = Len(socket) - 1
      /\ Head(socket) = socket[1]
      /\ \A i \in 1 .. Len(Tail(socket)) : Tail(socket)[i] = socket[i + 1]
  BY <1>2, HeadTailProperties
<1> DEFINE s == Tail(socket)
<1>4. socket' = s /\ Left' = Left
  BY DEF Left
<1> HIDE DEF s
<1>5. /\ s \in Seq(Unit) /\ Len(s) = Len(socket) - 1
      /\ \A i \in 1 .. Len(s) : s[i] = socket[i + 1]
  BY <1>3 DEF s
<1>6. Len(Left) \in Nat
  BY <1>1, PipeTypes
<1>7. PipeLen' = PipeLen - 1 /\ PipeLen > 0
  BY <1>2, <1>4, <1>5, <1>6 DEF PipeLen
<1>8. Head(socket) = Pipe(1) /\ socket[1] \in Unit
  BY <1>2, <1>3 DEF Pipe
<1>9. ASSUME NEW i \in 1 .. PipeLen - 1 PROVE Pipe(i)' = Pipe(i + 1)
  <2>1. CASE i <= Len(s)
    <3>1. i \in 1 .. Len(s) /\ i + 1 <= Len(socket)
      BY <1>2, <1>5, <2>1
    <3> QED
      BY <1>4, <1>5, <3>1 DEF Pipe
  <2>2. CASE ~(i <= Len(s))
    <3>1. ~(i + 1 <= Len(socket)) /\ i - Len(s) = i + 1 - Len(socket)
      BY <1>2, <1>5, <2>2
    <3> QED
      BY <1>4, <2>2, <3>1 DEF Pipe
  <2> QED
    BY <2>1, <2>2
<1> QED
  BY <1>3, <1>4, <1>5, <1>7, <1>8, <1>9

\* What a new frame does: its units come last, behind those before. Nobody else
\* writes while it is written.
LEMMA LockAdds ==
    ASSUME FramingInv, NEW w \in Writer, Lock(w)
    PROVE  LET f == <<w, framesSent[w] + 1>> IN
           /\ FramingTypes' /\ OneAtATime'
           /\ Len(written') = Len(written) + 1 /\ written'[Len(written) + 1] = f
           /\ \A i \in 1 .. Len(written) : written'[i] = written[i]
           /\ PipeLen' = PipeLen + Parts + 1
           /\ \A i \in 1 .. PipeLen : Pipe(i)' = Pipe(i)
           /\ \A j \in 0 .. Parts : \A i \in Nat :
                 i = PipeLen + 1 + j => Pipe(i)' = [frame |-> f, part |-> j]
<1>1. FramingTypes /\ OneAtATime
  BY DEF FramingInv
<1> DEFINE f == <<w, framesSent[w] + 1>>
           q == Units(f)
<1>2. /\ connMu = NoWriter /\ connMu' = w /\ writing[w] = <<>> /\ ~hungUp
      /\ framesSent' = [framesSent EXCEPT ![w] = @ + 1]
      /\ writing' = [writing EXCEPT ![w] = q] /\ written' = Append(written, f)
      /\ UNCHANGED <<timed, socket, hungUp, reader, received, cutShort>>
  BY DEF Lock, BeginFrame
<1>3. framesSent[w] \in Nat /\ f \in Frame /\ f[1] = w /\ f[2] = framesSent[w] + 1
  BY <1>1 DEF FramingTypes, Frame
<1>4. /\ q \in Seq(Unit) /\ Len(q) = Parts + 1
      /\ \A i \in 1 .. Parts + 1 : q[i] = [frame |-> f, part |-> i - 1]
  BY <1>3, UnitsOf
<1> HIDE DEF f, q
<1>5. /\ Append(written, f) \in Seq(Frame) /\ Len(Append(written, f)) = Len(written) + 1
      /\ \A i \in 1 .. Len(written) : Append(written, f)[i] = written[i]
      /\ Append(written, f)[Len(written) + 1] = f
  BY <1>1, <1>3, AppendProperties DEF FramingTypes
<1> DEFINE longer == Append(written, f)
<1>6. written' = longer
  BY <1>2
<1>7. /\ longer \in Seq(Frame) /\ Len(longer) = Len(written) + 1
      /\ \A i \in 1 .. Len(written) : longer[i] = written[i]
      /\ longer[Len(written) + 1] = f
  BY <1>5
<1> HIDE DEF longer
<1>8. writing' \in [Writer -> Seq(Unit)] /\ writing'[w] = q
      /\ \A v \in Writer \ {w} : writing'[v] = writing[v]
  BY <1>1, <1>2, <1>4 DEF FramingTypes
<1>9. framesSent' \in [Writer -> Nat] /\ framesSent'[w] = framesSent[w] + 1
      /\ \A v \in Writer \ {w} : framesSent'[v] = framesSent[v]
  BY <1>1, <1>2 DEF FramingTypes
<1>10. FramingTypes'
  BY <1>1, <1>2, <1>6, <1>7, <1>8, <1>9 DEF FramingTypes
<1>11. \A v \in Writer : writing'[v] # <<>> => connMu' = v
  BY <1>1, <1>2, <1>8, FramingAssumption DEF OneAtATime
<1>12. Len(written) \in Nat /\ \A i \in 1 .. Len(written) : written[i] \in Frame
  BY <1>1 DEF FramingTypes
<1>13. \A i \in 1 .. Len(written) : written[i] # f /\ written[i][2] <= framesSent'[written[i][1]]
  <2> SUFFICES ASSUME NEW i \in 1 .. Len(written)
               PROVE  written[i] # f /\ written[i][2] <= framesSent'[written[i][1]]
    OBVIOUS
  <2>1. written[i][1] \in Writer /\ written[i][2] \in Nat /\ framesSent[written[i][1]] \in Nat
    BY <1>1, <1>12 DEF FramingTypes, Frame
  <2>2. written[i][2] <= framesSent[written[i][1]]
    BY <1>1 DEF OneAtATime
  <2>3. written[i] # f
    BY <1>3, <2>1, <2>2
  <2>4. written[i][2] <= framesSent'[written[i][1]]
    <3>1. CASE written[i][1] = w
      BY <1>9, <2>1, <2>2, <3>1
    <3>2. CASE written[i][1] # w
      BY <1>9, <2>1, <2>2, <3>2
    <3> QED
      BY <3>1, <3>2
  <2> QED
    BY <2>3, <2>4
<1>14. \A i \in 1 .. Len(longer) : i \in 1 .. Len(written) \/ i = Len(written) + 1
  BY <1>7, <1>12
<1>15. OneAtATime'
  <2>1. \A i \in 1 .. Len(longer) : longer[i][2] <= framesSent'[longer[i][1]]
    BY <1>3, <1>7, <1>9, <1>13, <1>14
  <2>2. \A i, j \in 1 .. Len(longer) : longer[i] = longer[j] => i = j
    BY <1>1, <1>7, <1>13, <1>14 DEF OneAtATime
  <2> QED
    BY <1>6, <1>11, <2>1, <2>2 DEF OneAtATime
<1>16. Left = <<>> /\ Left' = q /\ PipeLen = Len(socket) /\ Len(socket) \in Nat
  <2>1. Left = <<>> /\ Left' = q
    BY <1>2, <1>8, FramingAssumption DEF Left
  <2>2. Len(socket) \in Nat
    BY <1>1 DEF FramingTypes
  <2> QED
    BY <2>1, <2>2 DEF PipeLen
<1>17. PipeLen' = PipeLen + Parts + 1
  <2>1. PipeLen' = Len(socket') + Len(Left')
    BY DEF PipeLen
  <2> QED
    BY <1>2, <1>4, <1>16, <2>1, FramingAssumption
<1>18. \A i \in 1 .. PipeLen : Pipe(i)' = Pipe(i)
  BY <1>2, <1>16 DEF Pipe
<1>19. ASSUME NEW j \in 0 .. Parts, NEW i \in Nat, i = PipeLen + 1 + j
       PROVE  Pipe(i)' = [frame |-> f, part |-> j]
  <2>1. ~(i <= Len(socket)) /\ j + 1 \in 1 .. Parts + 1 /\ j + 1 - 1 = j /\ i - Len(socket) = j + 1
    BY <1>16, <1>19, FramingAssumption
  <2>2. Pipe(i)' = IF i <= Len(socket') THEN socket'[i] ELSE Left'[i - Len(socket')]
    BY DEF Pipe
  <2>3. socket' = socket
    BY <1>2
  <2>4. Pipe(i)' = q[j + 1]
    BY <1>16, <2>1, <2>2, <2>3
  <2> QED
    BY <1>4, <1>16, <2>1, <2>4
<1>20. Len(written') = Len(written) + 1 /\ written'[Len(written) + 1] = f
       /\ \A i \in 1 .. Len(written) : written'[i] = written[i]
  BY <1>6, <1>7
<1> QED
  BY <1>10, <1>15, <1>17, <1>18, <1>19, <1>20 DEF f

\* SendHead, SendSessionStart, SendSessionEnd: a new frame follows those before it.
LEMMA LockInStep ==
    ASSUME FramingInv, NEW w \in Writer, Lock(w), ~cutShort, reader.at # "ended"
    PROVE  ReadInOrder' /\ InStep'
<1> DEFINE f == <<w, framesSent[w] + 1>>
<1>1. /\ FramingTypes /\ ReadInOrder /\ InStep
      /\ UNCHANGED <<hungUp, reader, received>> /\ ~hungUp
  BY DEF FramingInv, Lock, BeginFrame
<1>2. /\ Len(written') = Len(written) + 1 /\ written'[Len(written) + 1] = f
      /\ \A i \in 1 .. Len(written) : written'[i] = written[i]
      /\ PipeLen' = PipeLen + Parts + 1
      /\ \A i \in 1 .. PipeLen : Pipe(i)' = Pipe(i)
      /\ \A j \in 0 .. Parts : \A i \in Nat :
            i = PipeLen + 1 + j => Pipe(i)' = [frame |-> f, part |-> j]
  BY LockAdds
<1> HIDE DEF f
<1>3. /\ Len(written) \in Nat /\ Len(received) \in Nat /\ PipeLen \in Nat
      /\ Parts \in Nat /\ 1 <= Parts
      /\ \A i \in 1 .. PipeLen : Pipe(i) \in Unit
  BY <1>1, PipeTypes, FramingAssumption
<1>4. Place0' = Place0
  BY <1>1 DEF Place0
<1>5. ReadInOrder'
  BY <1>1, <1>2, <1>3 DEF ReadInOrder, Ended
<1>6. PipeLen' > 0 /\ Len(received) < Len(written')
      /\ Pipe(1)' = [frame |-> written'[Len(received) + 1], part |-> Place0]
  <2>1. CASE PipeLen > 0
    <3>1. /\ Len(received) < Len(written)
          /\ Pipe(1) = [frame |-> written[Len(received) + 1], part |-> Place0]
      BY <1>1, <2>1 DEF InStep
    <3>2. Pipe(1)' = Pipe(1) /\ written'[Len(received) + 1] = written[Len(received) + 1]
      <4>1. 1 \in 1 .. PipeLen /\ Len(received) + 1 \in 1 .. Len(written)
        BY <1>3, <2>1, <3>1
      <4> QED
        BY <1>2, <4>1
    <3> QED
      BY <1>2, <1>3, <3>1, <3>2
  <2>2. CASE PipeLen = 0
    <3>1. Len(received) = Len(written) /\ Place0 = 0
      BY <1>1, <2>2 DEF InStep
    <3>2. Pipe(1)' = [frame |-> f, part |-> 0]
      <4>1. 0 \in 0 .. Parts /\ 1 \in Nat /\ 1 = PipeLen + 1 + 0
        BY <1>3, <2>2
      <4> QED
        BY <1>2, <4>1
    <3> QED
      BY <1>2, <1>3, <2>2, <3>1, <3>2
  <2> QED
    BY <1>3, <2>1, <2>2
<1>7. ASSUME NEW i \in 1 .. PipeLen' - 1 PROVE Follows(Pipe(i), Pipe(i + 1))'
  <2>1. CASE i < PipeLen
    <3>1. i \in 1 .. PipeLen /\ i + 1 \in 1 .. PipeLen /\ i \in 1 .. PipeLen - 1
      BY <1>3, <2>1
    <3>2. Pipe(i)' = Pipe(i)
      BY <1>2, <3>1
    <3>3. Pipe(i + 1)' = Pipe(i + 1)
      BY <1>2, <3>1
    <3>4. Follows(Pipe(i), Pipe(i + 1))
      BY <1>1, <3>1 DEF InStep
    <3>5. PICK n \in 1 .. Len(written) :
             /\ Pipe(i).frame = written[n]
             /\ \/ /\ Pipe(i).part < Parts
                   /\ Pipe(i + 1) = [frame |-> Pipe(i).frame, part |-> Pipe(i).part + 1]
                \/ /\ Pipe(i).part = Parts /\ n < Len(written)
                   /\ Pipe(i + 1) = [frame |-> written[n + 1], part |-> 0]
      BY <3>4 DEF Follows
    <3>6. n \in 1 .. Len(written') /\ written'[n] = written[n]
          /\ (n < Len(written) => n < Len(written') /\ written'[n + 1] = written[n + 1])
      BY <1>2, <1>3
    <3> QED
      BY <3>2, <3>3, <3>5, <3>6 DEF Follows
  <2>2. CASE i = PipeLen
    <3>1. Pipe(i) = [frame |-> written[Len(written)], part |-> Parts]
      BY <1>1, <1>3, <2>2 DEF InStep
    <3>2. 0 < Len(written)
      BY <1>1, <1>3, <2>2 DEF InStep
    <3>3. Pipe(i)' = Pipe(i)
      BY <1>2, <2>2
    <3>4. Pipe(i + 1)' = [frame |-> f, part |-> 0]
      <4>1. 0 \in 0 .. Parts /\ i + 1 \in Nat /\ i + 1 = PipeLen + 1 + 0
        BY <1>3, <2>2
      <4> QED
        BY <1>2, <4>1
    <3>5. Len(written) \in 1 .. Len(written') /\ written'[Len(written)] = written[Len(written)]
      BY <1>2, <1>3, <3>2
    <3>6. ASSUME NEW u, NEW v, u = [frame |-> written[Len(written)], part |-> Parts],
                 v = [frame |-> f, part |-> 0]
          PROVE  Follows(u, v)'
      BY <1>2, <1>3, <3>5, <3>6 DEF Follows
    <3>7. Pipe(i)' = [frame |-> written[Len(written)], part |-> Parts]
      BY <3>1, <3>3
    <3> QED
      BY <3>4, <3>6, <3>7
  <2>3. CASE i > PipeLen
    <3>1. PICK j \in 0 .. Parts : i = PipeLen + 1 + j /\ j < Parts
      <4>1. i - PipeLen - 1 \in 0 .. Parts /\ i = PipeLen + 1 + (i - PipeLen - 1)
            /\ i - PipeLen - 1 < Parts
        BY <1>2, <1>3, <2>3
      <4> QED
        BY <4>1
    <3>2. /\ i \in Nat /\ i + 1 \in Nat /\ j + 1 \in 0 .. Parts
          /\ i + 1 = PipeLen + 1 + (j + 1)
      BY <1>2, <1>3, <3>1
    <3>3. Len(written) + 1 \in 1 .. Len(written')
      BY <1>2, <1>3
    <3>4. Pipe(i)' = [frame |-> f, part |-> j]
      BY <1>2, <3>1, <3>2
    <3>5. Pipe(i + 1)' = [frame |-> f, part |-> j + 1]
      BY <1>2, <3>2
    <3>6. ASSUME NEW u, NEW v, u = [frame |-> f, part |-> j], v = [frame |-> f, part |-> j + 1]
          PROVE  Follows(u, v)'
      BY <1>2, <3>1, <3>3, <3>6 DEF Follows
    <3> QED
      BY <3>4, <3>5, <3>6
  <2> QED
    BY <1>3, <2>1, <2>2, <2>3
<1>8. (\A i \in 1 .. PipeLen - 1 : Follows(Pipe(i), Pipe(i + 1)))'
  BY <1>7
<1>9. (Pipe(PipeLen) = [frame |-> written[Len(written)], part |-> Parts])'
  <2>1. Parts \in 0 .. Parts /\ PipeLen' \in Nat /\ PipeLen' = PipeLen + 1 + Parts
    BY <1>2, <1>3
  <2>2. \A j \in 0 .. Parts : \A i \in Nat :
           i = PipeLen + 1 + j =>
              (IF i <= Len(socket') THEN socket'[i] ELSE Left'[i - Len(socket')])
                 = [frame |-> f, part |-> j]
    BY <1>2 DEF Pipe
  <2>3. (IF PipeLen' <= Len(socket') THEN socket'[PipeLen'] ELSE Left'[PipeLen' - Len(socket')])
           = [frame |-> f, part |-> Parts]
    BY <2>1, <2>2
  <2> QED
    BY <1>2, <2>3 DEF Pipe
<1>10. reader.at = "body" =>
          /\ reader.need = Parts /\ Len(reader.got) < Parts /\ Len(received) < Len(written')
          /\ \A i \in 1 .. Len(reader.got) :
                reader.got[i] = [frame |-> written'[Len(received) + 1], part |-> i]
  <2> SUFFICES ASSUME reader.at = "body"
               PROVE  /\ reader.need = Parts /\ Len(reader.got) < Parts
                      /\ Len(received) < Len(written')
                      /\ \A i \in 1 .. Len(reader.got) :
                            reader.got[i] = [frame |-> written'[Len(received) + 1], part |-> i]
    OBVIOUS
  <2>1. /\ reader.need = Parts /\ Len(reader.got) < Parts /\ Len(received) < Len(written)
        /\ \A i \in 1 .. Len(reader.got) :
              reader.got[i] = [frame |-> written[Len(received) + 1], part |-> i]
    BY <1>1 DEF InStep
  <2>2. written'[Len(received) + 1] = written[Len(received) + 1] /\ Len(received) < Len(written')
    <3>1. Len(received) + 1 \in 1 .. Len(written)
      BY <1>3, <2>1
    <3> QED
      BY <1>2, <1>3, <3>1
  <2> QED
    BY <2>1, <2>2
<1>11. InStep'
  BY <1>1, <1>4, <1>6, <1>8, <1>9, <1>10 DEF InStep
<1> QED
  BY <1>5, <1>11

\* What stays so when a unit is read: what follows what, and what comes last.
LEMMA RestInStep ==
    ASSUME FramingInv, ~cutShort, reader.at # "ended", socket # <<>>, socket' = Tail(socket),
           UNCHANGED <<connMu, writing, written, hungUp>>
    PROVE  /\ (\A i \in 1 .. PipeLen - 1 : Follows(Pipe(i), Pipe(i + 1)))'
           /\ (~hungUp /\ PipeLen > 0 =>
                  Pipe(PipeLen) = [frame |-> written[Len(written)], part |-> Parts])'
<1>1. FramingTypes /\ InStep
  BY DEF FramingInv
<1>2. PipeLen' = PipeLen - 1 /\ PipeLen > 0 /\ \A i \in 1 .. PipeLen - 1 : Pipe(i)' = Pipe(i + 1)
  BY ReadMoves
<1>3. PipeLen \in Nat
  BY <1>1, PipeTypes
<1>4. \A i \in 1 .. PipeLen' - 1 : Follows(Pipe(i)', Pipe(i + 1)')
  <2> SUFFICES ASSUME NEW i \in 1 .. PipeLen' - 1 PROVE Follows(Pipe(i)', Pipe(i + 1)')
    OBVIOUS
  <2>1. i + 1 \in 1 .. PipeLen - 1 /\ i \in 1 .. PipeLen - 1
    BY <1>2, <1>3
  <2>2. Follows(Pipe(i + 1), Pipe(i + 1 + 1))
    BY <1>1, <2>1 DEF InStep
  <2> QED
    BY <1>2, <2>1, <2>2
<1>5. \A u, v : Follows(u, v)' <=> Follows(u, v)
  BY DEF Follows
<1>6. (~hungUp /\ PipeLen > 0 => Pipe(PipeLen) = [frame |-> written[Len(written)], part |-> Parts])'
  BY <1>1, <1>2, <1>3 DEF InStep
<1> QED
  BY <1>4, <1>5, <1>6

\* ReadFrame's prefix: what comes is the prefix of the next frame.
LEMMA PrefixInStep ==
    ASSUME FramingInv, ReadPrefix
    PROVE  FramingInv'
<1>1. /\ FramingTypes /\ OneAtATime /\ reader.at = "prefix" /\ socket # <<>>
      /\ socket' = Tail(socket)
      /\ IF Head(socket).part = 0 THEN reader' = [at |-> "body", need |-> Parts, got |-> <<>>]
         ELSE reader' \in Misread
      /\ UNCHANGED <<timed, connMu, writing, framesSent, written, hungUp, received, cutShort>>
  BY DEF FramingInv, ReadPrefix, writerVars
<1>2. /\ socket' \in Seq(Unit) /\ PipeLen' = PipeLen - 1 /\ PipeLen > 0
      /\ Head(socket) = Pipe(1) /\ Head(socket) \in Unit
      /\ \A i \in 1 .. PipeLen - 1 : Pipe(i)' = Pipe(i + 1)
  BY <1>1, ReadMoves
<1>3. /\ Len(written) \in Nat /\ Len(received) \in Nat /\ PipeLen \in Nat
      /\ Parts \in Nat /\ 1 <= Parts
      /\ \A i \in 1 .. PipeLen : Pipe(i) \in Unit
  BY <1>1, PipeTypes, FramingAssumption
<1>4. <<>> \in Seq(Unit) /\ Len(<<>>) = 0
  OBVIOUS
<1>5. reader' \in Reader
  <2>1. CASE Head(socket).part = 0
    <3>1. reader' = [at |-> "body", need |-> Parts, got |-> <<>>] /\ Parts \in Nat
      BY <1>1, <1>3, <2>1
    <3> QED
      BY <1>4, <3>1, Zenon DEF Reader
  <2>2. CASE Head(socket).part # 0
    <3>1. reader' \in Misread
      BY <1>1, <2>2
    <3>2. CASE reader' = Ended("garbage")
      BY <3>2 DEF Ended, Reader
    <3>3. ASSUME NEW n \in 1 .. Parts + 1, reader' = [at |-> "body", need |-> n, got |-> <<>>]
          PROVE  reader' \in Reader
      <4>1. n \in Nat
        BY <1>3
      <4> QED
        BY <1>4, <3>3, <4>1, Zenon DEF Reader
    <3> QED
      BY <3>1, <3>2, <3>3 DEF Misread
  <2> QED
    BY <2>1, <2>2
<1>6. FramingTypes' /\ OneAtATime'
  BY <1>1, <1>2, <1>5 DEF FramingTypes, OneAtATime
<1> SUFFICES ASSUME ~cutShort PROVE ReadInOrder' /\ InStep'
  BY <1>1, <1>6 DEF FramingInv
<1>7. ReadInOrder /\ InStep
  BY <1>1 DEF FramingInv
<1>8. Place0 = 0 /\ Len(received) < Len(written)
      /\ Pipe(1) = [frame |-> written[Len(received) + 1], part |-> 0]
  BY <1>1, <1>2, <1>7 DEF InStep, Place0
<1>9. reader' = [at |-> "body", need |-> Parts, got |-> <<>>]
  BY <1>1, <1>2, <1>8
<1>10. Place0' = 1
  BY <1>4, <1>9 DEF Place0
<1>11. ReadInOrder'
  BY <1>1, <1>7, <1>9 DEF ReadInOrder, Ended
<1>12. PipeLen' > 0 => Pipe(1)' = [frame |-> written[Len(received) + 1], part |-> 1]
  <2> SUFFICES ASSUME PipeLen' > 0
               PROVE  Pipe(1)' = [frame |-> written[Len(received) + 1], part |-> 1]
    OBVIOUS
  <2>1. 1 \in 1 .. PipeLen - 1 /\ Pipe(1)' = Pipe(2)
    BY <1>2, <1>3
  <2>2. Follows(Pipe(1), Pipe(2))
    BY <1>7, <2>1 DEF InStep
  <2> QED
    BY <1>3, <1>8, <2>1, <2>2 DEF Follows
<1>13. /\ (\A i \in 1 .. PipeLen - 1 : Follows(Pipe(i), Pipe(i + 1)))'
       /\ (~hungUp /\ PipeLen > 0 =>
              Pipe(PipeLen) = [frame |-> written[Len(written)], part |-> Parts])'
  BY <1>1, RestInStep
<1>15. ~hungUp => PipeLen' > 0
  <2> SUFFICES ASSUME ~hungUp, PipeLen = 1 PROVE FALSE
    BY <1>2, <1>3
  <2>1. Pipe(1).part = Parts
    BY <1>7 DEF InStep
  <2> QED
    BY <1>3, <1>8, <2>1
<1>16. InStep'
  <2>1. (PipeLen > 0 => /\ Len(received) < Len(written)
                        /\ Pipe(1) = [frame |-> written[Len(received) + 1], part |-> Place0])'
    BY <1>1, <1>8, <1>10, <1>12
  <2>3. (~hungUp => PipeLen > 0)'
    BY <1>1, <1>15
  <2>4. (reader.at = "body" =>
          /\ reader.need = Parts /\ Len(reader.got) < Parts /\ Len(received) < Len(written)
          /\ \A i \in 1 .. Len(reader.got) :
                reader.got[i] = [frame |-> written[Len(received) + 1], part |-> i])'
    BY <1>1, <1>3, <1>4, <1>8, <1>9
  <2> QED
    BY <1>13, <2>1, <2>3, <2>4 DEF InStep
<1> QED
  BY <1>11, <1>16

\* ReadFrame's body: what comes is the rest of the frame, and with its last unit
\* the frame is read.
LEMMA BodyInStep ==
    ASSUME FramingInv, ReadBody
    PROVE  FramingInv'
<1> DEFINE u   == Head(socket)
           old == reader.got
           got == Append(old, u)
           n0  == Len(received) + 1
<1>1. /\ FramingTypes /\ OneAtATime /\ reader.at = "body" /\ socket # <<>>
      /\ socket' = Tail(socket)
      /\ UNCHANGED <<timed, connMu, writing, framesSent, written, hungUp, cutShort>>
  BY DEF FramingInv, ReadBody, writerVars
<1>2. \/ /\ ~BodyRead(got, reader.need) /\ reader' = [reader EXCEPT !.got = got]
         /\ received' = received
      \/ /\ BodyRead(got, reader.need) /\ Decodes(got)
         /\ reader' = [at |-> "away"] /\ received' = Append(received, got[1].frame)
      \/ /\ BodyRead(got, reader.need) /\ ~Decodes(got)
         /\ reader' = Ended("garbage") /\ received' = received
  BY DEF ReadBody
<1>3. /\ socket' \in Seq(Unit) /\ PipeLen' = PipeLen - 1 /\ PipeLen > 0
      /\ u = Pipe(1) /\ u \in Unit
      /\ \A i \in 1 .. PipeLen - 1 : Pipe(i)' = Pipe(i + 1)
  BY <1>1, ReadMoves
<1>4. /\ Len(written) \in Nat /\ Len(received) \in Nat /\ PipeLen \in Nat
      /\ Parts \in Nat /\ 1 <= Parts
  BY <1>1, PipeTypes, FramingAssumption
<1>5. reader.need \in Nat /\ old \in Seq(Unit)
      /\ reader = [at |-> "body", need |-> reader.need, got |-> old]
  BY <1>1, Zenon DEF FramingTypes, Reader
<1> HIDE DEF u, old
<1>6. /\ got \in Seq(Unit) /\ Len(got) = Len(old) + 1 /\ Len(old) \in Nat
      /\ \A i \in 1 .. Len(old) : got[i] = old[i]
      /\ got[Len(old) + 1] = u
  BY <1>3, <1>5, AppendProperties
<1> HIDE DEF got
<1>7. got[1] \in Unit /\ got[1].frame \in Frame
  <2>1. 1 \in 1 .. Len(got)
    BY <1>6
  <2>2. got[1] \in Unit
    BY <1>6, <2>1
  <2> QED
    BY <2>2 DEF Unit
<1>8. reader' \in Reader
  <2>1. CASE reader' = [reader EXCEPT !.got = got]
    <3>1. reader' = [at |-> "body", need |-> reader.need, got |-> got]
      BY <1>5, <2>1
    <3> QED
      BY <1>5, <1>6, <3>1, Zenon DEF Reader
  <2>2. CASE reader' = [at |-> "away"]
    BY <2>2 DEF Reader
  <2>3. CASE reader' = Ended("garbage")
    BY <2>3 DEF Ended, Reader
  <2> QED
    BY <1>2, <2>1, <2>2, <2>3
<1> DEFINE more == Append(received, got[1].frame)
<1>9. /\ more \in Seq(Frame) /\ Len(more) = Len(received) + 1
      /\ \A i \in 1 .. Len(received) : more[i] = received[i]
      /\ more[Len(received) + 1] = got[1].frame
  BY <1>1, <1>7, AppendProperties DEF FramingTypes
<1>10. received' = received \/ received' = more
  BY <1>2
<1> HIDE DEF more
<1>11. FramingTypes' /\ OneAtATime'
  <2>1. received' \in Seq(Frame)
    BY <1>1, <1>9, <1>10 DEF FramingTypes
  <2>2. FramingTypes'
    BY <1>1, <1>3, <1>8, <2>1 DEF FramingTypes
  <2> QED
    BY <1>1, <2>2 DEF OneAtATime
<1> SUFFICES ASSUME ~cutShort PROVE ReadInOrder' /\ InStep'
  BY <1>1, <1>11 DEF FramingInv
<1>12. ReadInOrder /\ InStep
  BY <1>1 DEF FramingInv
<1>13. /\ Len(received) < Len(written) /\ n0 \in 1 .. Len(written)
       /\ u = [frame |-> written[n0], part |-> Len(old) + 1]
       /\ reader.need = Parts /\ Len(old) < Parts
       /\ \A i \in 1 .. Len(old) : old[i] = [frame |-> written[n0], part |-> i]
  <2>1. /\ Len(received) < Len(written)
        /\ reader.need = Parts /\ Len(old) < Parts
        /\ \A i \in 1 .. Len(old) : old[i] = [frame |-> written[n0], part |-> i]
    BY <1>1, <1>12 DEF InStep, old
  <2>2. u = [frame |-> written[n0], part |-> Len(old) + 1]
    BY <1>1, <1>3, <1>12 DEF InStep, Place0, old
  <2> QED
    BY <1>4, <2>1, <2>2
<1> HIDE DEF n0
<1>14. \A i \in 1 .. Len(got) : got[i] = [frame |-> written[n0], part |-> i]
  <2> SUFFICES ASSUME NEW i \in 1 .. Len(got) PROVE got[i] = [frame |-> written[n0], part |-> i]
    OBVIOUS
  <2>1. i \in 1 .. Len(old) \/ i = Len(old) + 1
    BY <1>6
  <2> QED
    BY <1>6, <1>13, <2>1
<1>15. /\ (\A i \in 1 .. PipeLen - 1 : Follows(Pipe(i), Pipe(i + 1)))'
       /\ (~hungUp /\ PipeLen > 0 =>
              Pipe(PipeLen) = [frame |-> written[Len(written)], part |-> Parts])'
  BY <1>1, RestInStep
<1>16. PipeLen' > 0 => Pipe(1)' = Pipe(2) /\ Follows(u, Pipe(1)')
  <2> SUFFICES ASSUME PipeLen' > 0 PROVE Pipe(1)' = Pipe(2) /\ Follows(u, Pipe(1)')
    OBVIOUS
  <2>1. 1 \in 1 .. PipeLen - 1 /\ Pipe(1)' = Pipe(2)
    BY <1>3, <1>4
  <2>2. Follows(Pipe(1), Pipe(2))
    BY <1>12, <2>1 DEF InStep
  <2> QED
    BY <1>3, <2>1, <2>2
<1>17. ~hungUp /\ PipeLen' = 0 => written[n0] = written[Len(written)] /\ Len(old) + 1 = Parts
  <2> SUFFICES ASSUME ~hungUp, PipeLen' = 0
               PROVE  written[n0] = written[Len(written)] /\ Len(old) + 1 = Parts
    OBVIOUS
  <2>1. PipeLen = 1
    BY <1>3, <1>4
  <2>2. Pipe(1) = [frame |-> written[Len(written)], part |-> Parts]
    BY <1>12, <2>1 DEF InStep
  <2> QED
    BY <1>3, <1>13, <2>2
<1>18. CASE Len(got) # Parts
  <2>1. reader' = [reader EXCEPT !.got = got] /\ received' = received
    BY <1>2, <1>13, <1>18 DEF BodyRead
  <2>2. reader' = [at |-> "body", need |-> Parts, got |-> got]
    BY <1>5, <1>13, <2>1
  <2>3. Len(got) < Parts /\ Len(got) = Len(old) + 1
    BY <1>4, <1>6, <1>13, <1>18
  <2>4. ReadInOrder'
    BY <1>1, <1>12, <2>1, <2>2 DEF ReadInOrder, Ended
  <2>5. Place0' = Len(got) + 1
    BY <2>2 DEF Place0
  <2>6. PipeLen' > 0 => Pipe(1)' = [frame |-> written[n0], part |-> Len(got) + 1]
    BY <1>6, <1>13, <1>16, <2>3 DEF Follows
  <2>7. ~hungUp => PipeLen' # 0
    BY <1>17, <2>3
  <2>8. (PipeLen > 0 => /\ Len(received) < Len(written)
                        /\ Pipe(1) = [frame |-> written[Len(received) + 1], part |-> Place0])'
    BY <1>1, <1>13, <2>1, <2>5, <2>6 DEF n0
  <2>9. (reader.at = "body" =>
          /\ reader.need = Parts /\ Len(reader.got) < Parts /\ Len(received) < Len(written)
          /\ \A i \in 1 .. Len(reader.got) :
                reader.got[i] = [frame |-> written[Len(received) + 1], part |-> i])'
    BY <1>1, <1>13, <1>14, <2>1, <2>2, <2>3 DEF n0
  <2>10. (~hungUp => PipeLen # 0)'
    BY <1>1, <2>7
  <2> QED
    BY <1>15, <2>4, <2>8, <2>9, <2>10 DEF InStep
<1>19. CASE Len(got) = Parts
  <2>1. BodyRead(got, reader.need)
    BY <1>13, <1>19 DEF BodyRead
  <2>2. got = Tail(Units(written[n0]))
    <3>1. written[n0] \in Frame
      BY <1>1, <1>13 DEF FramingTypes
    <3> DEFINE t == Tail(Units(written[n0]))
    <3>2. /\ t \in Seq(Unit) /\ Len(t) = Parts
          /\ \A i \in 1 .. Parts : t[i] = [frame |-> written[n0], part |-> i]
      BY <3>1, UnitsOf
    <3> HIDE DEF t
    <3>3. \A i \in 1 .. Len(t) : got[i] = t[i]
      BY <1>14, <1>19, <3>2
    <3>4. got = t
      BY <1>6, <1>19, <3>2, <3>3, SeqEqual
    <3> QED
      BY <3>4 DEF t
  <2>3. Decodes(got)
    BY <1>13, <2>2 DEF Decodes, ToSet
  <2>4. reader' = [at |-> "away"] /\ received' = more /\ got[1].frame = written[n0]
    <3>1. reader' = [at |-> "away"] /\ received' = more
      BY <1>2, <2>1, <2>3 DEF more
    <3>2. 1 \in 1 .. Len(got)
      BY <1>4, <1>19
    <3>3. got[1] = [frame |-> written[n0], part |-> 1]
      BY <1>14, <3>2
    <3> QED
      BY <3>1, <3>3
  <2>5. Len(received') = n0 /\ n0 \in Nat /\ n0 <= Len(written)
    BY <1>4, <1>9, <1>13, <2>4 DEF n0
  <2>6. ReadInOrder'
    <3>1. \A i \in 1 .. n0 : more[i] = written[i]
      <4> SUFFICES ASSUME NEW i \in 1 .. n0 PROVE more[i] = written[i]
        OBVIOUS
      <4>1. i \in 1 .. Len(received) \/ i = n0
        BY <1>4 DEF n0
      <4> QED
        BY <1>9, <1>12, <2>4, <4>1 DEF ReadInOrder, n0
    <3>2. reader' # Ended("garbage")
      BY <2>4 DEF Ended
    <3> QED
      BY <1>1, <2>4, <2>5, <3>1, <3>2 DEF ReadInOrder
  <2>7. Place0' = 0 /\ reader'.at = "away"
    BY <2>4 DEF Place0
  <2>8. u.part = Parts /\ u.frame = written[n0]
    BY <1>6, <1>13, <1>19
  <2>9. PipeLen' > 0 => /\ n0 < Len(written)
                        /\ Pipe(1)' = [frame |-> written[n0 + 1], part |-> 0]
    <3> SUFFICES ASSUME PipeLen' > 0
                 PROVE  n0 < Len(written) /\ Pipe(1)' = [frame |-> written[n0 + 1], part |-> 0]
      OBVIOUS
    <3>1. PICK n \in 1 .. Len(written) :
             /\ u.frame = written[n]
             /\ \/ u.part < Parts
                \/ n < Len(written) /\ Pipe(1)' = [frame |-> written[n + 1], part |-> 0]
      BY <1>16 DEF Follows
    <3>2. n = n0
      BY <1>1, <1>13, <2>8, <3>1 DEF OneAtATime
    <3> QED
      BY <1>4, <2>8, <3>1, <3>2
  <2>10. ~hungUp /\ PipeLen' = 0 => n0 = Len(written)
    BY <1>1, <1>4, <1>13, <1>17 DEF OneAtATime
  <2>11. (PipeLen > 0 => /\ Len(received) < Len(written)
                         /\ Pipe(1) = [frame |-> written[Len(received) + 1], part |-> Place0])'
    BY <1>1, <2>5, <2>7, <2>9
  <2>12. (~hungUp /\ PipeLen = 0 => Len(received) = Len(written) /\ Place0 = 0)'
    BY <1>1, <2>5, <2>7, <2>10
  <2> QED
    BY <1>15, <2>6, <2>7, <2>11, <2>12 DEF InStep
<1> QED
  BY <1>18, <1>19

\* What needs no step of its own when the connection's units stay where they are.
LEMMA PipeStays ==
    ASSUME UNCHANGED <<socket, connMu, writing>>
    PROVE  PipeLen' = PipeLen /\ \A i : Pipe(i)' = Pipe(i)
BY DEF PipeLen, Pipe, Left

\* Recv is called, or HandleConn's loop comes round.
LEMMA CallInStep ==
    ASSUME FramingInv, CallRead
    PROVE  FramingInv'
<1>1. /\ FramingTypes /\ OneAtATime /\ reader.at = "away" /\ reader' = [at |-> "prefix"]
      /\ UNCHANGED <<timed, connMu, writing, framesSent, written, socket, hungUp, received,
                    cutShort>>
  BY DEF FramingInv, CallRead, writerVars
<1>2. reader' \in Reader
  BY <1>1 DEF Reader
<1>3. FramingTypes' /\ OneAtATime'
  BY <1>1, <1>2 DEF FramingTypes, OneAtATime
<1> SUFFICES ASSUME ~cutShort PROVE ReadInOrder' /\ InStep'
  BY <1>1, <1>3 DEF FramingInv
<1>4. ReadInOrder /\ InStep
  BY <1>1 DEF FramingInv
<1>5. ReadInOrder'
  BY <1>1, <1>4 DEF ReadInOrder, Ended
<1>6. Place0' = 0 /\ Place0 = 0 /\ reader'.at # "body"
  BY <1>1 DEF Place0
<1>7. PipeLen' = PipeLen /\ \A i : Pipe(i)' = Pipe(i)
  BY <1>1, PipeStays
<1>8. \A u, v : Follows(u, v)' <=> Follows(u, v)
  BY <1>1 DEF Follows
<1>9. (\A i \in 1 .. PipeLen - 1 : Follows(Pipe(i), Pipe(i + 1)))'
  BY <1>4, <1>7, <1>8 DEF InStep
<1>10. InStep'
  BY <1>1, <1>4, <1>6, <1>7, <1>9 DEF InStep
<1> QED
  BY <1>5, <1>10

\* WriteFrame's writes move units on.
LEMMA WriteInStep ==
    ASSUME FramingInv, NEW w \in Writer, WriteUnit(w)
    PROVE  FramingInv'
<1>1. /\ FramingTypes' /\ OneAtATime' /\ PipeLen' = PipeLen
      /\ \A i \in 1 .. PipeLen : Pipe(i)' = Pipe(i)
  BY WriteMoves
<1>2. FramingTypes /\ reader.at # "ended"
      /\ UNCHANGED <<timed, framesSent, hungUp, reader, written, received, cutShort>>
  BY DEF FramingInv, WriteUnit
<1> SUFFICES ASSUME ~cutShort PROVE ReadInOrder' /\ InStep'
  BY <1>1, <1>2 DEF FramingInv
<1>3. ReadInOrder /\ InStep
  BY <1>2 DEF FramingInv
<1>4. PipeLen \in Nat
  BY <1>2, PipeTypes
<1>5. ReadInOrder'
  BY <1>2, <1>3 DEF ReadInOrder, Ended
<1>6. Place0' = Place0
  BY <1>2 DEF Place0
<1>7. \A u, v : Follows(u, v)' <=> Follows(u, v)
  BY <1>2 DEF Follows
<1>8. ASSUME NEW i \in 1 .. PipeLen' - 1 PROVE Follows(Pipe(i), Pipe(i + 1))'
  <2>1. i \in 1 .. PipeLen - 1 /\ i \in 1 .. PipeLen /\ i + 1 \in 1 .. PipeLen
    BY <1>1, <1>4
  <2>2. Follows(Pipe(i), Pipe(i + 1))
    BY <1>3, <2>1 DEF InStep
  <2>3. Pipe(i)' = Pipe(i)
    BY <1>1, <2>1
  <2>4. Pipe(i + 1)' = Pipe(i + 1)
    BY <1>1, <2>1
  <2> QED
    BY <1>7, <2>2, <2>3, <2>4
<1>9. (\A i \in 1 .. PipeLen - 1 : Follows(Pipe(i), Pipe(i + 1)))'
  BY <1>8
<1>10. PipeLen > 0 => 1 \in 1 .. PipeLen /\ PipeLen \in 1 .. PipeLen
  BY <1>4
<1>11. InStep'
  BY <1>1, <1>2, <1>3, <1>6, <1>9, <1>10 DEF InStep
<1> QED
  BY <1>5, <1>11

\* The reader has closed the connection: what was left is not written.
LEMMA WriteFailsInStep ==
    ASSUME FramingInv, NEW w \in Writer, WriteFails(w)
    PROVE  FramingInv'
<1>1. /\ FramingTypes /\ OneAtATime /\ writing[w] # <<>> /\ reader.at = "ended"
      /\ writing' = [writing EXCEPT ![w] = <<>>] /\ connMu' = NoWriter
      /\ UNCHANGED <<timed, framesSent, socket, hungUp, reader, written, received, cutShort>>
  BY DEF FramingInv, WriteFails
<1>2. <<>> \in Seq(Unit)
  OBVIOUS
<1>3. writing' \in [Writer -> Seq(Unit)] /\ \A v \in Writer : writing'[v] = <<>>
  BY <1>1, <1>2 DEF FramingTypes, OneAtATime
<1>4. FramingTypes' /\ OneAtATime'
  BY <1>1, <1>3 DEF FramingTypes, OneAtATime
<1> QED
  BY <1>1, <1>4 DEF FramingInv, ReadInOrder

\* A new frame, whether or not the reader is still there.
LEMMA LockHolds ==
    ASSUME FramingInv, NEW w \in Writer, Lock(w)
    PROVE  FramingInv'
<1>1. /\ FramingTypes' /\ OneAtATime'
      /\ Len(written') = Len(written) + 1 /\ \A i \in 1 .. Len(written) : written'[i] = written[i]
  BY LockAdds
<1>2. FramingTypes /\ UNCHANGED <<reader, received, cutShort>>
  BY DEF FramingInv, Lock, BeginFrame
<1>3. Len(written) \in Nat /\ Len(received) \in Nat
  BY <1>2, PipeTypes
<1>4. ~cutShort => ReadInOrder'
  BY <1>1, <1>2, <1>3 DEF FramingInv, ReadInOrder
<1>5. ~cutShort /\ reader.at # "ended" => InStep'
  BY LockInStep
<1> QED
  BY <1>1, <1>2, <1>4, <1>5 DEF FramingInv

\* The writers' process ends: what is in the socket is all that will come.
LEMMA HangUpInStep ==
    ASSUME FramingInv, HangUp
    PROVE  FramingInv'
<1>1. /\ FramingTypes /\ OneAtATime /\ hungUp'
      /\ writing' = [w \in Writer |-> <<>>] /\ connMu' = NoWriter
      /\ UNCHANGED <<timed, framesSent, socket, reader, written, received, cutShort>>
      /\ hungUp' \in BOOLEAN
  BY DEF FramingInv, HangUp
<1>2. <<>> \in Seq(Unit) /\ Len(<<>>) = 0
  OBVIOUS
<1>3. writing' \in [Writer -> Seq(Unit)] /\ \A v \in Writer : writing'[v] = <<>>
  BY <1>1, <1>2
<1>4. FramingTypes' /\ OneAtATime'
  BY <1>1, <1>3 DEF FramingTypes, OneAtATime
<1> SUFFICES ASSUME ~cutShort, reader.at # "ended" PROVE InStep'
  BY <1>1, <1>4 DEF FramingInv, ReadInOrder
<1>5. InStep
  BY <1>1 DEF FramingInv
<1>6. Left' = <<>> /\ Len(socket) \in Nat /\ Len(Left) \in Nat /\ PipeLen \in Nat
  BY <1>1, PipeTypes DEF Left
<1>7. PipeLen' = Len(socket) /\ PipeLen' <= PipeLen /\ PipeLen' \in Nat
  BY <1>1, <1>2, <1>6 DEF PipeLen
<1>8. \A i \in 1 .. PipeLen' : Pipe(i)' = Pipe(i)
  BY <1>1, <1>6, <1>7 DEF Pipe
<1>9. Place0' = Place0
  BY <1>1 DEF Place0
<1>10. \A u, v : Follows(u, v)' <=> Follows(u, v)
  BY <1>1 DEF Follows
<1>11. ASSUME NEW i \in 1 .. PipeLen' - 1 PROVE Follows(Pipe(i), Pipe(i + 1))'
  <2>1. i \in 1 .. PipeLen - 1 /\ i \in 1 .. PipeLen' /\ i + 1 \in 1 .. PipeLen'
    BY <1>6, <1>7
  <2>2. Follows(Pipe(i), Pipe(i + 1))
    BY <1>5, <2>1 DEF InStep
  <2>3. Pipe(i)' = Pipe(i)
    BY <1>8, <2>1
  <2>4. Pipe(i + 1)' = Pipe(i + 1)
    BY <1>8, <2>1
  <2> QED
    BY <1>10, <2>2, <2>3, <2>4
<1>12. (\A i \in 1 .. PipeLen - 1 : Follows(Pipe(i), Pipe(i + 1)))'
  BY <1>11
<1>13. (PipeLen > 0 => /\ Len(received) < Len(written)
                       /\ Pipe(1) = [frame |-> written[Len(received) + 1], part |-> Place0])'
  <2>1. PipeLen' > 0 => PipeLen > 0 /\ 1 \in 1 .. PipeLen'
    BY <1>6, <1>7
  <2> QED
    BY <1>1, <1>5, <1>8, <1>9, <2>1 DEF InStep
<1> QED
  BY <1>1, <1>5, <1>12, <1>13 DEF InStep

\* Every step of the connection.
LEMMA FramingInvStep == FramingInv /\ [FramingNext]_framingVars => FramingInv'
<1> SUFFICES ASSUME FramingInv, [FramingNext]_framingVars PROVE FramingInv'
  OBVIOUS
<1>1. ASSUME NEW w \in Writer, Write(w) PROVE FramingInv'
  BY <1>1, LockHolds, WriteInStep, WriteFailsInStep DEF Write
<1>2. ASSUME DeadlineAtPrefix \/ ReadEnds PROVE FramingInv'
  <2>1. /\ UNCHANGED <<timed, connMu, writing, framesSent, written, socket, hungUp, received,
                    cutShort>>
        /\ reader' = Ended("silence") \/ reader' = Ended("eof")
    BY <1>2 DEF DeadlineAtPrefix, ReadEnds, writerVars
  <2>2. reader' \in Reader /\ reader'.at = "ended" /\ reader' # Ended("garbage")
    BY <2>1 DEF Ended, Reader
  <2> QED
    BY <2>1, <2>2 DEF FramingInv, FramingTypes, OneAtATime, ReadInOrder
<1>3. ASSUME DeadlineInBody PROVE FramingInv'
  <2>1. /\ UNCHANGED <<timed, connMu, writing, framesSent, written, socket, hungUp, received>>
        /\ reader' = [at |-> "away"] /\ cutShort'
        /\ cutShort' \in BOOLEAN
    BY <1>3 DEF DeadlineInBody, writerVars
  <2>2. reader' \in Reader
    BY <2>1 DEF Reader
  <2> QED
    BY <2>1, <2>2 DEF FramingInv, FramingTypes, OneAtATime
<1>4. ASSUME UNCHANGED framingVars PROVE FramingInv'
  <2>1. /\ UNCHANGED <<timed, connMu, writing, framesSent, written, socket, hungUp, reader>>
        /\ UNCHANGED <<received, cutShort>>
    BY <1>4 DEF framingVars, writerVars
  <2>2. FramingTypes' /\ OneAtATime'
    BY <2>1 DEF FramingInv, FramingTypes, OneAtATime
  <2>3. PipeLen' = PipeLen /\ \A i : Pipe(i)' = Pipe(i)
    BY <2>1, PipeStays
  <2>4. ReadInOrder => ReadInOrder'
    BY <2>1 DEF ReadInOrder
  <2>5. \A u, v : Follows(u, v)' <=> Follows(u, v)
    BY <2>1 DEF Follows
  <2>6. InStep => (\A i \in 1 .. PipeLen - 1 : Follows(Pipe(i), Pipe(i + 1)))'
    BY <2>3, <2>5 DEF InStep
  <2>7. InStep => InStep'
    BY <2>1, <2>3, <2>6 DEF InStep, Place0
  <2> QED
    BY <2>1, <2>2, <2>4, <2>7 DEF FramingInv
<1> QED
  BY <1>1, <1>2, <1>3, <1>4, CallInStep, PrefixInStep, BodyInStep, HangUpInStep
     DEF FramingNext, Read

\* ReadFrame reads what WriteFrame wrote: as long as no deadline of Recv's passed
\* between a prefix and the end of its body, the frames come out whole, each once
\* and in the order in which ranadConn.mu was taken, whatever the socket's room
\* cut them into.
THEOREM FramesHold == FramingSpec => []FramesStayWhole
<1>1. FramingInv => FramesStayWhole
  <2> SUFFICES ASSUME FramingInv, ~cutShort
               PROVE  IsPrefix(received, written) /\ reader # Ended("garbage")
    BY DEF FramesStayWhole
  <2>1. FramingTypes /\ ReadInOrder
    BY DEF FramingInv
  <2>2. /\ Len(received) \in Nat /\ Len(written) \in Nat /\ Len(received) <= Len(written)
        /\ \A i \in 1 .. Len(received) : received[i] = written[i]
        /\ received \in Seq(Frame) /\ written \in Seq(Frame)
    <3>1. received \in Seq(Frame) /\ written \in Seq(Frame)
      BY <2>1 DEF FramingTypes
    <3>2. Len(received) <= Len(written) /\ \A i \in 1 .. Len(received) : received[i] = written[i]
      BY <2>1 DEF ReadInOrder
    <3>3. Len(received) \in Nat /\ Len(written) \in Nat
      BY <3>1
    <3> QED
      BY <3>1, <3>2, <3>3
  <2>3. SubSeq(received, 1, Len(received)) = SubSeq(written, 1, Len(received))
    BY <2>2
  <2>4. IsPrefix(received, written)
    BY <2>2, <2>3 DEF IsPrefix
  <2>5. reader # Ended("garbage")
    BY <2>1 DEF ReadInOrder
  <2> QED
    BY <2>4, <2>5
<1>2. FramingInit => FramingInv
  BY FramingStarts
<1>3. FramingInv /\ [FramingNext]_framingVars => FramingInv'
  BY FramingInvStep
<1> QED
  BY <1>1, <1>2, <1>3, PTL DEF FramingSpec

----------------------------------------------------------------------------

Remembrance == [tracked : {TRUE}, mtime : Nat, size : Nat,
                stable : BOOLEAN, digest : Content \cup {0}, settledSize : Nat]
Settle == [prev : Content \cup {0}, new : Content, delta : Int]

\* The types the argument needs.
DigestTypes ==
    /\ disk \in [File -> [content : Content \cup {0}, mtime : Nat, readable : BOOLEAN]]
    /\ files \in [File -> {Untracked} \cup Remembrance]
    /\ settles \in [File -> Seq(Settle)]
    /\ scan.at = "digest" => scan.file \in File /\ scan.size \in Nat

\* What the worker has seen of a file is not newer than the file, and older
\* than a change it has not seen.
Seen ==
    \A f \in File : files[f].tracked =>
        /\ files[f].mtime <= disk[f].mtime
        /\ f \in moved => files[f].mtime < disk[f].mtime

\* Between stat and read the size is the file's, unless it changed.
Measured ==
    scan.at = "digest" =>
        /\ files[scan.file].tracked
        /\ scan.file \notin raced => scan.size = Size(disk[scan.file].content)

\* The digest and the size a file is remembered by are those of its last event.
Remembers ==
    \A f \in File : files[f].tracked =>
        /\ f \notin raced => files[f].settledSize =
               IF files[f].digest = 0 THEN 0 ELSE Size(files[f].digest)
        /\ files[f].digest # 0 /\ f \notin unrecorded =>
               Len(settles[f]) > 0 /\ settles[f][Len(settles[f])].new = files[f].digest

DigestInv == DigestTypes /\ Seen /\ Measured /\ Remembers /\ SettlesChain /\ SizesAddUp

\* Sizes are numbers.
LEMMA SizeIsNat ==
    ASSUME NEW c \in Content \cup {0}
    PROVE  Size(c) \in Nat
<1>1. c \in Nat
  BY DigestAssumption
<1>2. \A n \in Nat : (n + 1) \div 2 \in Nat
  OBVIOUS
<1> QED
  BY <1>1, <1>2 DEF Size

\* A record of what is remembered, put together from its parts.
LEMMA IsRemembrance ==
    ASSUME NEW t \in {TRUE}, NEW m \in Nat, NEW s \in Nat, NEW b \in BOOLEAN,
           NEW d \in Content \cup {0}, NEW z \in Nat
    PROVE  [tracked |-> t, mtime |-> m, size |-> s, stable |-> b,
            digest |-> d, settledSize |-> z] \in Remembrance
  BY Zenon DEF Remembrance

\* Nothing is tracked and nothing digested when the worker is created.
LEMMA DigestStarts == DigestInit => DigestInv
<1> SUFFICES ASSUME DigestInit PROVE DigestInv
  OBVIOUS
<1>1. disk \in [File -> [content : Content \cup {0}, mtime : Nat, readable : BOOLEAN]]
  <2>1. [content |-> 0, mtime |-> 0, readable |-> TRUE] \in
            [content : Content \cup {0}, mtime : Nat, readable : BOOLEAN]
    OBVIOUS
  <2> QED
    BY <2>1 DEF DigestInit
<1>2. <<>> \in Seq(Settle)
  OBVIOUS
<1>3. /\ files \in [File -> {Untracked} \cup Remembrance]
      /\ settles \in [File -> Seq(Settle)] /\ scan.at = "off"
  BY <1>2 DEF DigestInit
<1>4. \A f \in File : ~files[f].tracked /\ settles[f] = <<>>
  BY DEF DigestInit, Untracked
<1> QED
  BY <1>1, <1>3, <1>4 DEF DigestInv, DigestTypes, Seen, Measured, Remembers,
     SettlesChain, SizesAddUp

\* What is known of a tracked file.
LEMMA TrackedParts ==
    ASSUME DigestTypes, NEW f \in File, files[f].tracked
    PROVE  /\ files[f] \in Remembrance
           /\ files[f].mtime \in Nat /\ files[f].size \in Nat /\ files[f].settledSize \in Nat
           /\ files[f].digest \in Content \cup {0}
<1>1. files[f] \in {Untracked} \cup Remembrance
  BY DEF DigestTypes
<1>2. files[f] \in Remembrance
  BY <1>1 DEF Untracked
<1> QED
  BY <1>2 DEF Remembrance

\* What is known of a file on disk.
LEMMA DiskParts ==
    ASSUME DigestTypes, NEW f \in File
    PROVE  /\ disk[f].content \in Content \cup {0} /\ disk[f].mtime \in Nat
           /\ disk[f].readable \in BOOLEAN /\ Size(disk[f].content) \in Nat
<1>1. disk[f] \in [content : Content \cup {0}, mtime : Nat, readable : BOOLEAN]
  BY DEF DigestTypes
<1> QED
  BY <1>1, SizeIsNat

\* The agent's processes: a change the worker has not seen makes the file newer
\* than anything it has seen, and one between stat and read makes it raced.
LEMMA DiskSteps ==
    ASSUME DigestInv, NEW f \in File,
           Touch(f) \/ Access(f) \/ \E c \in Content \cup {0} : Change(f, c)
    PROVE  DigestInv'
<1>1. UNCHANGED <<files, scan, settles, unrecorded>>
  BY DEF Touch, Access, Change
<1>2. DigestTypes /\ Seen /\ Measured /\ Remembers /\ SettlesChain /\ SizesAddUp
  BY DEF DigestInv
<1>3. disk' \in [File -> [content : Content \cup {0}, mtime : Nat, readable : BOOLEAN]]
  <2>1. disk \in [File -> [content : Content \cup {0}, mtime : Nat, readable : BOOLEAN]]
    BY <1>2 DEF DigestTypes
  <2>2. disk[f].mtime + 1 \in Nat /\ (~disk[f].readable) \in BOOLEAN
    BY <1>2, DiskParts
  <2>3. CASE Touch(f)
    BY <2>1, <2>2, <2>3, Zenon DEF Touch
  <2>4. CASE Access(f)
    BY <2>1, <2>2, <2>4, Zenon DEF Access
  <2>5. ASSUME NEW c \in Content \cup {0}, Change(f, c)
        PROVE  disk' \in [File -> [content : Content \cup {0}, mtime : Nat, readable : BOOLEAN]]
    <3> DEFINE d == [disk EXCEPT ![f].content = c]
    <3>1. d \in [File -> [content : Content \cup {0}, mtime : Nat, readable : BOOLEAN]]
      BY <2>1, Zenon
    <3>2. disk' = [d EXCEPT ![f].mtime = disk[f].mtime + 1]
      BY <2>5, Zenon DEF Change
    <3> HIDE DEF d
    <3> QED
      BY <2>2, <3>1, <3>2, Zenon
  <2> QED
    BY <2>3, <2>4, <2>5
<1>4. DigestTypes'
  BY <1>1, <1>2, <1>3 DEF DigestTypes
<1>5. /\ \A g \in File \ {f} : disk'[g] = disk[g] /\ (g \in moved' => g \in moved)
      /\ \/ disk'[f].mtime = disk[f].mtime /\ moved' = moved
         \/ disk'[f].mtime = disk[f].mtime + 1
  <2>1. disk \in [File -> [content : Content \cup {0}, mtime : Nat, readable : BOOLEAN]]
    BY <1>2 DEF DigestTypes
  <2> QED
    BY <2>1, ZenonT(60) DEF Touch, Access, Change
<1>6. Seen'
  <2> SUFFICES ASSUME NEW g \in File, files'[g].tracked
               PROVE  /\ files'[g].mtime <= disk'[g].mtime
                      /\ g \in moved' => files'[g].mtime < disk'[g].mtime
    BY DEF Seen
  <2>1. files[g].tracked /\ files'[g] = files[g]
    BY <1>1
  <2>2. files[g].mtime \in Nat /\ disk[g].mtime \in Nat /\ disk'[g].mtime \in Nat
    BY <1>2, <1>3, <2>1, TrackedParts, DiskParts
  <2>3. files[g].mtime <= disk[g].mtime /\ (g \in moved => files[g].mtime < disk[g].mtime)
    BY <1>2, <2>1 DEF Seen
  <2>4. CASE g # f
    BY <1>5, <2>1, <2>3, <2>4
  <2>5. CASE g = f
    BY <1>5, <2>1, <2>2, <2>3, <2>5
  <2> QED
    BY <2>4, <2>5
<1>7. /\ raced \subseteq raced'
      /\ (\A g \in File : g \notin raced' /\ scan.at = "digest" /\ scan.file = g
                                     => disk'[g].content = disk[g].content)
  <2>1. disk \in [File -> [content : Content \cup {0}, mtime : Nat, readable : BOOLEAN]]
    BY <1>2 DEF DigestTypes
  <2>2. CASE Touch(f) \/ Access(f)
    <3>1. raced' = raced /\ \A g \in File : disk'[g].content = disk[g].content
      BY <2>1, <2>2 DEF Touch, Access
    <3> QED
      BY <3>1
  <2>3. ASSUME NEW c \in Content \cup {0}, Change(f, c)
        PROVE  <1>7!1 /\ <1>7!2
    <3>1. \A g \in File \ {f} : disk'[g] = disk[g]
      BY <1>5
    <3>2. raced' = IF scan.at = "digest" /\ scan.file = f THEN raced \cup {f} ELSE raced
      BY <2>3 DEF Change
    <3> QED
      BY <3>1, <3>2
  <2> QED
    BY <2>2, <2>3
<1>8. Measured'
  <2> SUFFICES ASSUME scan'.at = "digest"
               PROVE  /\ files'[scan'.file].tracked
                      /\ scan'.file \notin raced' => scan'.size = Size(disk'[scan'.file].content)
    BY DEF Measured
  <2>1. scan' = scan /\ files' = files /\ scan.file \in File
    BY <1>1, <1>2 DEF DigestTypes
  <2>2. /\ files[scan.file].tracked
        /\ scan.file \notin raced => scan.size = Size(disk[scan.file].content)
    BY <1>2, <2>1 DEF Measured
  <2> QED
    BY <1>7, <2>1, <2>2
<1>9. Remembers' /\ SettlesChain' /\ SizesAddUp'
  BY <1>1, <1>2, <1>7 DEF Remembers, SettlesChain, SizesAddUp
<1> QED
  BY <1>4, <1>6, <1>8, <1>9 DEF DigestInv

\* The worker's steps that change nothing it remembers of a file.
LEMMA WorkerPasses ==
    ASSUME DigestInv, StartWorker \/ StopWorker \/ Walk \/ Return \/ SkipDigest
    PROVE  DigestInv'
<1>1. UNCHANGED <<disk, files, settles, moved, raced, unrecorded>>
  BY DEF StartWorker, StopWorker, Walk, Return, SkipDigest
<1>2. scan' = scan \/ scan'.at # "digest"
  BY DEF StartWorker, StopWorker, Walk, Return, SkipDigest, BackToScan, Waiting
<1>3. DigestTypes'
  BY <1>1, <1>2 DEF DigestInv, DigestTypes
<1>4. Seen' /\ Remembers' /\ SettlesChain' /\ SizesAddUp'
  BY <1>1 DEF DigestInv, Seen, Remembers, SettlesChain, SizesAddUp
<1>5. Measured'
  BY <1>1, <1>2 DEF DigestInv, Measured
<1> QED
  BY <1>3, <1>4, <1>5 DEF DigestInv

\* What a look at an existing file leaves remembered.
LEMMA LooksRight ==
    ASSUME DigestInv, NEW f \in File, NEW st, st = Looked(files[f], disk[f])
    PROVE  /\ st \in Remembrance /\ st.mtime = disk[f].mtime /\ st.tracked
           /\ files[f].tracked => st.digest = files[f].digest
                                  /\ st.settledSize = files[f].settledSize
           /\ ~files[f].tracked => st.digest = 0 /\ st.settledSize = 0
<1> DEFINE d == disk[f]
<1>1. DigestTypes
  BY DEF DigestInv
<1>2. d.content \in Content \cup {0} /\ d.mtime \in Nat /\ Size(d.content) \in Nat
  BY <1>1, DiskParts
<1>3. 0 \in Nat /\ 0 \in Content \cup {0}
  OBVIOUS
<1>4. CASE ~files[f].tracked
  <2>1. st = Found(d)
    BY <1>4 DEF Looked
  <2>2. [tracked |-> TRUE, mtime |-> d.mtime, size |-> Size(d.content), stable |-> FALSE,
         digest |-> 0, settledSize |-> 0] \in Remembrance
    BY <1>2, <1>3, Zenon DEF Remembrance
  <2>3. st \in Remembrance
    BY <2>1, <2>2 DEF Found
  <2> QED
    BY <1>4, <2>1, <2>3 DEF Found
<1>5. CASE files[f].tracked
  <2> DEFINE old == files[f]
  <2>1. old \in Remembrance /\ old.mtime \in Nat /\ old.size \in Nat /\ old.settledSize \in Nat
        /\ old.digest \in Content \cup {0}
    BY <1>1, <1>5, TrackedParts
  <2>2. CASE Unmoved(old, d)
    <3>1. st = [old EXCEPT !.stable = TRUE]
      BY <1>5, <2>2 DEF Looked
    <3>2. d.mtime = old.mtime
      BY <2>2 DEF Unmoved
    <3> HIDE DEF old, d
    <3>3. st \in Remembrance
      BY <2>1, <3>1, Zenon DEF Remembrance
    <3>4. st.mtime = old.mtime /\ st.tracked /\ st.digest = old.digest
          /\ st.settledSize = old.settledSize
      BY <2>1, <3>1 DEF Remembrance
    <3> QED
      BY <1>5, <3>2, <3>3, <3>4 DEF old, d
  <2>3. CASE ~Unmoved(old, d)
    <3>1. st = [old EXCEPT !.mtime = d.mtime, !.size = Size(d.content), !.stable = FALSE]
      BY <1>5, <2>3 DEF Looked
    <3> HIDE DEF old, d
    <3>2. st = [tracked |-> TRUE, mtime |-> d.mtime, size |-> Size(d.content),
                stable |-> FALSE, digest |-> old.digest, settledSize |-> old.settledSize]
      BY <2>1, <3>1 DEF Remembrance
    <3>3. [tracked |-> TRUE, mtime |-> d.mtime, size |-> Size(d.content), stable |-> FALSE,
           digest |-> old.digest, settledSize |-> old.settledSize] \in Remembrance
      BY <1>2, <2>1, Zenon DEF Remembrance
    <3>4. st \in Remembrance
      BY <3>2, <3>3
    <3>5. st.mtime = d.mtime /\ st.tracked /\ st.digest = old.digest
          /\ st.settledSize = old.settledSize
      BY <3>2
    <3> QED
      BY <1>5, <3>4, <3>5 DEF old, d
  <2> QED
    BY <2>2, <2>3
<1> QED
  BY <1>4, <1>5

\* A look at a file: what it remembers is what the file is now, and a file it
\* turns to for a digest has the size it saw.
LEMMA StatSteps ==
    ASSUME DigestInv, NEW f \in File, Stat(f)
    PROVE  DigestInv'
<1>1. DigestTypes /\ Seen /\ Measured /\ Remembers /\ SettlesChain /\ SizesAddUp
  BY DEF DigestInv
<1>2. UNCHANGED <<disk, settles, raced, unrecorded>> /\ scan.at = "stat"
  BY DEF Stat
<1>3. CASE ~Exists(f)
  <2>1. scan' = [scan EXCEPT !.todo = @ \ {f}] /\ UNCHANGED <<files, moved>>
    BY <1>3 DEF Stat
  <2>2. scan'.at = "stat"
    BY <1>2, <2>1
  <2> QED
    BY <1>1, <1>2, <2>1, <2>2 DEF DigestInv, DigestTypes, Seen, Measured, Remembers,
       SettlesChain, SizesAddUp
<1>4. CASE Exists(f)
  <2> DEFINE st == Looked(files[f], disk[f])
  <2>1. /\ st \in Remembrance /\ st.mtime = disk[f].mtime /\ st.tracked
        /\ files[f].tracked => st.digest = files[f].digest
                               /\ st.settledSize = files[f].settledSize
        /\ ~files[f].tracked => st.digest = 0 /\ st.settledSize = 0
    BY LooksRight
  <2>2. files' = [files EXCEPT ![f] = st] /\ moved' = moved \ {f}
    BY <1>4 DEF Stat
  <2>3. scan'.at = "digest" => scan'.file = f /\ scan'.size = Size(disk[f].content)
    <3> DEFINE rest == [scan EXCEPT !.todo = @ \ {f}]
    <3>1. scan' = IF Settled(files[f], disk[f])
                  THEN [at |-> "digest", file |-> f, size |-> Size(disk[f].content),
                        todo |-> rest.todo, current |-> rest.current]
                  ELSE rest
      BY <1>4 DEF Stat
    <3>2. rest.at = "stat"
      BY <1>2
    <3> HIDE DEF rest
    <3> QED
      BY <3>1, <3>2
  <2> HIDE DEF st
  <2>4. files' \in [File -> {Untracked} \cup Remembrance]
    BY <1>1, <2>1, <2>2 DEF DigestTypes
  <2>5. files'[f] = st /\ \A g \in File \ {f} : files'[g] = files[g]
    BY <1>1, <2>2 DEF DigestTypes
  <2>6. Size(disk[f].content) \in Nat /\ disk[f].mtime \in Nat
    BY <1>1, DiskParts
  <2>7. DigestTypes'
    BY <1>1, <1>2, <2>3, <2>4, <2>6 DEF DigestTypes
  <2>8. Seen'
    <3> SUFFICES ASSUME NEW g \in File, files'[g].tracked
                 PROVE  /\ files'[g].mtime <= disk'[g].mtime
                        /\ g \in moved' => files'[g].mtime < disk'[g].mtime
      BY DEF Seen
    <3>1. CASE g = f
      BY <1>2, <2>1, <2>2, <2>5, <2>6, <3>1
    <3>2. CASE g # f
      BY <1>1, <1>2, <2>2, <2>5, <3>2 DEF Seen
    <3> QED
      BY <3>1, <3>2
  <2>9. Measured'
    BY <1>2, <2>1, <2>3, <2>5 DEF Measured
  <2>10. Remembers'
    <3> SUFFICES ASSUME NEW g \in File, files'[g].tracked
                 PROVE  /\ g \notin raced => files'[g].settledSize =
                               IF files'[g].digest = 0 THEN 0 ELSE Size(files'[g].digest)
                        /\ files'[g].digest # 0 /\ g \notin unrecorded =>
                               /\ Len(settles[g]) > 0
                               /\ settles[g][Len(settles[g])].new = files'[g].digest
      BY <1>2 DEF Remembers
    <3>1. CASE g = f /\ files[f].tracked
      BY <1>1, <2>1, <2>5, <3>1 DEF Remembers
    <3>2. CASE g = f /\ ~files[f].tracked
      BY <2>1, <2>5, <3>2
    <3>3. CASE g # f
      BY <1>1, <2>5, <3>3 DEF Remembers
    <3> QED
      BY <3>1, <3>2, <3>3
  <2>11. SettlesChain' /\ SizesAddUp'
    BY <1>1, <1>2 DEF SettlesChain, SizesAddUp
  <2> QED
    BY <2>7, <2>8, <2>9, <2>10, <2>11 DEF DigestInv
<1> QED
  BY <1>3, <1>4

\* The files a walk did not find are forgotten, whatever was known of them.
LEMMA ForgetSteps ==
    ASSUME DigestInv, Forget
    PROVE  DigestInv'
<1>1. DigestTypes /\ Seen /\ Remembers /\ SettlesChain /\ SizesAddUp
  BY DEF DigestInv
<1>2. /\ UNCHANGED <<disk, settles, moved, raced, unrecorded>>
      /\ scan'.at = "tick"
      /\ files' = [f \in File |-> IF f \in scan.current THEN files[f] ELSE Untracked]
  BY DEF Forget, Waiting
<1>3. \A f \in File : files'[f] = files[f] \/ files'[f] = Untracked
  BY <1>2
<1>4. files' \in [File -> {Untracked} \cup Remembrance]
  BY <1>1, <1>2 DEF DigestTypes
<1>5. \A f \in File : files'[f].tracked => files'[f] = files[f]
  BY <1>3 DEF Untracked
<1>6. DigestTypes'
  BY <1>1, <1>2, <1>4 DEF DigestTypes
<1>7. Seen'
  BY <1>1, <1>2, <1>5 DEF Seen
<1>8. Remembers'
  BY <1>1, <1>2, <1>5 DEF Remembers
<1>9. Measured' /\ SettlesChain' /\ SizesAddUp'
  BY <1>1, <1>2 DEF Measured, SettlesChain, SizesAddUp
<1> QED
  BY <1>6, <1>7, <1>8, <1>9 DEF DigestInv

\* Within an event's file, the events before it are the ones there were.
LEMMA LaterEvents ==
    ASSUME NEW q \in Seq(Settle), NEW ev \in Settle, NEW more, more = Append(q, ev)
    PROVE  /\ more \in Seq(Settle) /\ Len(q) \in Nat /\ Len(more) = Len(q) + 1
           /\ more[Len(q) + 1] = ev
           /\ \A i \in 1 .. Len(q) : more[i] = q[i] /\ (i > 1 => more[i - 1] = q[i - 1])
           /\ Len(q) > 0 => more[Len(more) - 1] = q[Len(q)]
<1>1. more \in Seq(Settle) /\ Len(q) \in Nat
  OBVIOUS
<1>2. /\ Len(more) = Len(q) + 1 /\ more[Len(q) + 1] = ev
      /\ \A i \in 1 .. Len(q) : more[i] = q[i]
  BY AppendProperties
<1> QED
  BY <1>1, <1>2

\* A digest: what is remembered and what is recorded of the file go together,
\* and the event follows from the one before it.
LEMMA DigestSteps ==
    ASSUME DigestInv, NEW fails \in BOOLEAN, Digest(fails)
    PROVE  DigestInv'
<1>1. DigestTypes /\ Seen /\ Measured /\ Remembers /\ SettlesChain /\ SizesAddUp
  BY DEF DigestInv
<1>2. UNCHANGED <<disk, moved, raced>> /\ scan.at = "digest" /\ scan'.at = "stat"
  BY DEF Digest, BackToScan
<1> DEFINE f == scan.file
           st == files[f]
           c == disk[f].content
           size == scan.size
           new == Remembered(st, c, size)
           q == settles[f]
           ev == [prev |-> st.digest, new |-> c, delta |-> size - st.settledSize]
<1>3. /\ f \in File /\ size \in Nat /\ st.tracked
      /\ f \notin raced => size = Size(c)
  BY <1>1, <1>2 DEF DigestTypes, Measured
<1>4. /\ st \in Remembrance /\ st.mtime \in Nat /\ st.size \in Nat /\ st.settledSize \in Nat
      /\ st.digest \in Content \cup {0} /\ c \in Content \cup {0}
  BY <1>1, <1>3, TrackedParts, DiskParts
<1>5. c \in Content
  BY <1>4 DEF Digest, Undigestible, Exists
<1>6. CASE UNCHANGED <<files, settles, unrecorded>>
  BY <1>1, <1>2, <1>6 DEF DigestInv, DigestTypes, Seen, Measured, Remembers, SettlesChain,
     SizesAddUp
<1>7. CASE /\ st.digest # c /\ files' = [files EXCEPT ![f] = new]
           /\ \/ unrecorded' = unrecorded \cup {f} /\ settles' = settles
              \/ unrecorded' = unrecorded /\ settles' = [settles EXCEPT ![f] = Append(@, ev)]
  <2>1. /\ new \in Remembrance /\ new.mtime = st.mtime /\ new.digest = c
        /\ new.settledSize = size /\ new.tracked
    <3>1. new = [st EXCEPT !.digest = c, !.settledSize = size]
      BY DEF Remembered
    <3> HIDE DEF st, c, size, new
    <3>2. new = [tracked |-> TRUE, mtime |-> st.mtime, size |-> st.size, stable |-> st.stable,
                 digest |-> c, settledSize |-> size]
      BY <1>4, <3>1 DEF Remembrance
    <3>3. st.stable \in BOOLEAN
      BY <1>4, Zenon DEF Remembrance
    <3>4. [tracked |-> TRUE, mtime |-> st.mtime, size |-> st.size, stable |-> st.stable,
           digest |-> c, settledSize |-> size] \in Remembrance
      BY <1>3, <1>4, <3>3, Zenon DEF Remembrance
    <3> QED
      BY <3>2, <3>4
  <2>2. ev \in Settle
    <3>1. size - st.settledSize \in Int
      BY <1>3, <1>4
    <3> HIDE DEF st, c, size
    <3> QED
      BY <1>4, <1>5, <3>1 DEF Settle
  <2>3. ev.prev = st.digest /\ ev.new = c /\ ev.delta = size - st.settledSize
    OBVIOUS
  <2>4. q \in Seq(Settle)
    BY <1>1, <1>3 DEF DigestTypes
  <2>5. /\ f \notin raced => st.settledSize = IF st.digest = 0 THEN 0 ELSE Size(st.digest)
        /\ st.digest # 0 /\ f \notin unrecorded => Len(q) > 0 /\ q[Len(q)].new = st.digest
    BY <1>1, <1>3 DEF Remembers
  <2>6. f \notin unrecorded => \A i \in 1 .. Len(q) :
            /\ q[i].prev # q[i].new
            /\ q[i].prev # 0 => i > 1 /\ q[i].prev = q[i - 1].new
            /\ f \notin raced =>
                   q[i].delta = Size(q[i].new) - (IF q[i].prev = 0 THEN 0 ELSE Size(q[i - 1].new))
    BY <1>1, <1>3 DEF SettlesChain, SizesAddUp
  <2> DEFINE more == Append(q, ev)
  <2>7. /\ more \in Seq(Settle) /\ Len(q) \in Nat /\ Len(more) = Len(q) + 1
        /\ more[Len(q) + 1] = ev
        /\ \A i \in 1 .. Len(q) : more[i] = q[i] /\ (i > 1 => more[i - 1] = q[i - 1])
        /\ Len(q) > 0 => more[Len(more) - 1] = q[Len(q)]
    <3> HIDE DEF q, ev
    <3> QED
      BY <2>2, <2>4, LaterEvents
  <2>8. settles' = [settles EXCEPT ![f] = more] \/ (settles' = settles /\ f \in unrecorded')
    BY <1>7
  <2>9. /\ unrecorded \subseteq unrecorded' /\ unrecorded' \subseteq unrecorded \cup {f}
    BY <1>7
  <2>10. files' = [files EXCEPT ![f] = new] /\ st.digest # c
    BY <1>7
  <2>11. st = files[f] /\ c = disk[f].content /\ q = settles[f] /\ f = scan.file
    OBVIOUS
  <2> HIDE DEF f, st, c, size, new, q, ev, more
  <2>12. /\ files' \in [File -> {Untracked} \cup Remembrance]
         /\ files'[f] = new /\ \A g \in File \ {f} : files'[g] = files[g]
    BY <1>1, <1>3, <2>1, <2>10 DEF DigestTypes
  <2>13. /\ settles' \in [File -> Seq(Settle)]
         /\ settles'[f] = more \/ f \in unrecorded'
         /\ \A g \in File \ {f} : settles'[g] = settles[g]
    BY <1>1, <1>3, <2>7, <2>8 DEF DigestTypes
  <2>14. \A i \in 1 .. Len(more) : i \in 1 .. Len(q) \/ i = Len(q) + 1
    BY <2>7
  <2>15. DigestTypes'
    BY <1>1, <1>2, <2>12, <2>13 DEF DigestTypes
  <2>16. Seen'
    <3> SUFFICES ASSUME NEW g \in File, files'[g].tracked
                 PROVE  /\ files'[g].mtime <= disk[g].mtime
                        /\ g \in moved => files'[g].mtime < disk[g].mtime
      BY <1>2 DEF Seen
    <3>1. CASE g = f
      BY <1>1, <1>3, <2>1, <2>11, <2>12, <3>1 DEF Seen
    <3>2. CASE g # f
      BY <1>1, <2>12, <3>2 DEF Seen
    <3> QED
      BY <3>1, <3>2
  <2>17. Measured'
    BY <1>2 DEF Measured
  <2>18. Remembers'
    <3> SUFFICES ASSUME NEW g \in File, files'[g].tracked
                 PROVE  /\ g \notin raced => files'[g].settledSize =
                               IF files'[g].digest = 0 THEN 0 ELSE Size(files'[g].digest)
                        /\ files'[g].digest # 0 /\ g \notin unrecorded' =>
                               /\ Len(settles'[g]) > 0
                               /\ settles'[g][Len(settles'[g])].new = files'[g].digest
      BY <1>2 DEF Remembers
    <3>1. CASE g = f
      <4>1. g \notin raced => files'[g].settledSize =
                IF files'[g].digest = 0 THEN 0 ELSE Size(files'[g].digest)
        <5>1. c # 0
          BY <1>5, DigestAssumption
        <5> QED
          BY <1>3, <2>1, <2>12, <3>1, <5>1
      <4>2. g \notin unrecorded' =>
                Len(settles'[g]) > 0 /\ settles'[g][Len(settles'[g])].new = files'[g].digest
        BY <2>1, <2>3, <2>7, <2>12, <2>13, <3>1
      <4> QED
        BY <4>1, <4>2
    <3>2. CASE g # f
      BY <1>1, <2>9, <2>12, <2>13, <3>2 DEF Remembers
    <3> QED
      BY <3>1, <3>2
  <2>19. SettlesChain'
    <3> SUFFICES ASSUME NEW g \in File \ unrecorded', NEW i \in 1 .. Len(settles'[g])
                 PROVE  /\ settles'[g][i].prev # settles'[g][i].new
                        /\ settles'[g][i].prev # 0 =>
                               i > 1 /\ settles'[g][i].prev = settles'[g][i - 1].new
      BY DEF SettlesChain
    <3>1. CASE g # f
      BY <1>1, <2>9, <2>13, <3>1 DEF SettlesChain
    <3>2. CASE g = f
      <4>1. settles'[g] = more /\ f \notin unrecorded
        BY <2>9, <2>13, <3>2
      <4>2. CASE i \in 1 .. Len(q)
        BY <2>6, <2>7, <4>1, <4>2
      <4>3. CASE i = Len(q) + 1
        <5>1. more[i] = ev /\ (Len(q) > 0 => more[i - 1] = q[Len(q)])
          BY <2>7, <4>3
        <5>2. Len(q) > 0 => i > 1
          BY <2>7, <4>3
        <5> QED
          BY <2>3, <2>5, <2>10, <4>1, <5>1, <5>2
      <4> QED
        BY <2>14, <4>1, <4>2, <4>3
    <3> QED
      BY <3>1, <3>2
  <2>20. SizesAddUp'
    <3> SUFFICES ASSUME NEW g \in File \ (unrecorded' \cup raced),
                        NEW i \in 1 .. Len(settles'[g])
                 PROVE  settles'[g][i].delta =
                            Size(settles'[g][i].new) - (IF settles'[g][i].prev = 0 THEN 0
                                                        ELSE Size(settles'[g][i - 1].new))
      BY <1>2 DEF SizesAddUp
    <3>1. CASE g # f
      BY <1>1, <2>9, <2>13, <3>1 DEF SizesAddUp
    <3>2. CASE g = f
      <4>1. settles'[g] = more /\ f \notin unrecorded /\ f \notin raced
        BY <2>9, <2>13, <3>2
      <4>2. CASE i \in 1 .. Len(q)
        <5>1. more[i] = q[i]
          BY <2>7, <4>2
        <5>2. CASE q[i].prev = 0
          BY <2>6, <4>1, <4>2, <5>1, <5>2
        <5>3. CASE q[i].prev # 0
          <6>1. i > 1 /\ more[i - 1] = q[i - 1]
            BY <2>6, <2>7, <4>1, <4>2, <5>3
          <6> QED
            BY <2>6, <4>1, <4>2, <5>1, <5>3, <6>1
        <5> QED
          BY <5>2, <5>3
      <4>3. CASE i = Len(q) + 1
        <5>1. more[i] = ev /\ (Len(q) > 0 => more[i - 1] = q[Len(q)])
          BY <2>7, <4>3
        <5>2. CASE st.digest = 0
          BY <1>3, <2>3, <2>5, <4>1, <5>1, <5>2
        <5>3. CASE st.digest # 0
          BY <1>3, <2>3, <2>5, <4>1, <5>1, <5>3
        <5> QED
          BY <5>2, <5>3
      <4> QED
        BY <2>14, <4>1, <4>2, <4>3
    <3> QED
      BY <3>1, <3>2
  <2> QED
    BY <2>15, <2>16, <2>17, <2>18, <2>19, <2>20 DEF DigestInv
<1> QED
  BY <1>6, <1>7 DEF Digest, Delta

\* Every step of the worker's world keeps the account.
LEMMA DigestInvStep == DigestInv /\ [DigestNext]_digestVars => DigestInv'
<1> SUFFICES ASSUME DigestInv, [DigestNext]_digestVars PROVE DigestInv'
  OBVIOUS
<1>1. CASE StartWorker \/ StopWorker \/ Walk \/ Return \/ SkipDigest
  BY <1>1, WorkerPasses
<1>2. CASE Forget
  BY <1>2, ForgetSteps
<1>3. CASE \E f \in File : Stat(f)
  BY <1>3, StatSteps
<1>4. CASE \E fails \in BOOLEAN : Digest(fails)
  BY <1>4, DigestSteps
<1>5. CASE \E f \in File : Touch(f) \/ Access(f) \/ \E c \in Content \cup {0} : Change(f, c)
  BY <1>5, DiskSteps
<1>6. CASE UNCHANGED digestVars
  BY <1>6 DEF digestVars, DigestInv, DigestTypes, Seen, Measured, Remembers, SettlesChain,
     SizesAddUp
<1> QED
  BY <1>1, <1>2, <1>3, <1>4, <1>5, <1>6 DEF DigestNext, WorkerStep

\* The fs.settle events of a file follow from one another, by digest and by
\* size, so long as each was appended (and its file held still from stat to
\* read): the history of the file can be read from the ledger.
THEOREM SettlesHold == DigestSpec => []SettlesAddUp
<1>1. DigestInv => SettlesAddUp
  BY DEF DigestInv, SettlesAddUp
<1> QED
  BY <1>1, DigestStarts, DigestInvStep, PTL DEF DigestSpec

\* maybeDigest is reached only for a file that has not changed since the scan
\* before looked at it: a change gives a newer mtime, which the stat sees.
THEOREM OnlySettledAreDigested == DigestSpec => Debounced
<1>1. ASSUME DigestInv, [DigestNext]_digestVars, scan.at = "stat", scan'.at = "digest"
      PROVE  scan'.file \notin moved
  <2>1. DigestTypes /\ Seen
    BY <1>1 DEF DigestInv
  <2>2. PICK f \in File : Stat(f)
    <3>1. scan' # scan
      BY <1>1
    <3>2. ~(StartWorker \/ StopWorker \/ Walk \/ Return \/ SkipDigest \/ Forget)
      BY <1>1, <3>1 DEF StartWorker, StopWorker, Walk, Return, SkipDigest, Forget, Waiting
    <3>3. \A fails \in BOOLEAN : ~Digest(fails)
      BY <1>1 DEF Digest
    <3>4. \A f \in File : ~(Touch(f) \/ Access(f) \/ \E c \in Content \cup {0} : Change(f, c))
      BY <3>1 DEF Touch, Access, Change
    <3> QED
      BY <1>1, <3>1, <3>2, <3>3, <3>4 DEF DigestNext, WorkerStep, digestVars
  <2>3. Exists(f) /\ Settled(files[f], disk[f]) /\ scan'.file = f
    <3> DEFINE rest == [scan EXCEPT !.todo = @ \ {f}]
    <3>1. rest.at = "stat"
      BY <1>1
    <3>2. CASE ~Exists(f)
      <4>1. scan' = rest
        BY <2>2, <3>2 DEF Stat
      <4> QED
        BY <1>1, <3>1, <4>1
    <3>3. CASE Exists(f)
      <4>1. scan' = IF Settled(files[f], disk[f])
                    THEN [at |-> "digest", file |-> f, size |-> Size(disk[f].content),
                          todo |-> rest.todo, current |-> rest.current]
                    ELSE rest
        BY <2>2, <3>3 DEF Stat
      <4> HIDE DEF rest
      <4> QED
        BY <1>1, <3>1, <3>3, <4>1
    <3> QED
      BY <3>2, <3>3
  <2>4. files[f].tracked /\ files[f].mtime = disk[f].mtime
    BY <2>3 DEF Settled, Unmoved
  <2>5. files[f].mtime \in Nat
    BY <2>1, <2>4, TrackedParts
  <2> QED
    BY <2>1, <2>3, <2>4, <2>5 DEF Seen
<1> QED
  BY <1>1, DigestStarts, DigestInvStep, PTL DEF DigestSpec, Debounced

----------------------------------------------------------------------------

Slice == [array : Nat, len : Nat]
Slots == Viewer \cup {Nobody}
Array == Seq(Slots)
Stage == {"none", "loaded", "open", "cancelled", "removed", "closed"}
Job ==
    {Idle}
    \cup [phase : {"stored"}, event : Event]
    \cup [phase : {"walking"}, event : Event, list : Slice, at : Nat, to : Slots, calm : BOOLEAN]

\* The types the argument needs.
TailTypes ==
    /\ stored \in [Publisher -> 0 .. MaxPublished]
    /\ heap \in Seq(Array) /\ subs \in Slice
    /\ moving \in [viewer : Slots, left : SUBSET Nat, from : Nat]
    /\ publishing \in [Publisher -> Job]
    /\ sub \in [Viewer -> Stage] /\ buffer \in [Viewer -> Seq(Event)]
    /\ page \in [Viewer -> [Event -> Nat]] /\ sent \in [Viewer -> [Event -> Nat]]
    /\ maxIdx \in [Viewer -> Nat] /\ dropped \in [Viewer -> SUBSET Event]

\* A slice header: the nil slice, or a part of an array filled with viewers.
Within(s) ==
    \/ s.array = 0 /\ s.len = 0
    \/ /\ s.array \in 1 .. Len(heap) /\ Len(heap[s.array]) > 0
       /\ s.len <= Len(heap[s.array])
       /\ \A i \in 1 .. s.len : heap[s.array][i] \in Viewer

\* Whatever is overwritten under a walk, it stays within filled slots.
HeapTypes ==
    /\ Within(subs)
    /\ \A p \in Publisher : Walking(p) =>
          Within(publishing[p].list) /\ publishing[p].at \in 1 .. publishing[p].list.len

Listeners == {v \in Viewer : sub[v] \in {"open", "cancelled"}}

\* The slots S of the list hold the viewers U, each once.
Holds(S, U) ==
    /\ \A i \in S : heap[subs.array][i] \in U
    /\ \A v \in U : \E i \in S : \A j \in S : heap[subs.array][j] = v <=> j = i

\* The list is complete; a removal under way has one slot too many, the one it
\* will fill next, and every viewer but its own in the others.
ListInv ==
    IF MuFree THEN Holds(1 .. subs.len, Listeners)
    ELSE /\ moving.viewer \in Viewer /\ sub[moving.viewer] = "cancelled"
         /\ moving.from = subs.array
         /\ \E k \in 1 .. subs.len :
               /\ moving.left = k .. (subs.len - 1)
               /\ Holds((1 .. subs.len) \ {k}, Listeners \ {moving.viewer})

\* What the page shows is not beyond its maxIdx.
PagesInv ==
    \A v \in Viewer, e \in Event :
        page[v][e] <= 1 /\ (page[v][e] > 0 => Idx(e) <= maxIdx[v])

Offered(v, e) == sent[v][e] + (IF e \in dropped[v] THEN 1 ELSE 0)

\* No event is offered to anybody before it is published.
Unoffered ==
    \A v \in Viewer, e \in Event : e[2] > stored[e[1]] => Offered(v, e) = 0

Calm(p) == Walking(p) /\ publishing[p].calm

\* A publish that no removal overlaps has offered its event once to the slots it
\* has passed, and not yet to the rest; nobody writes to its slots.
OnceEach(p) ==
    LET job == publishing[p]
        slot == heap[job.list.array]
    IN  /\ MuFree
        /\ job.list.array = subs.array => job.list.len <= subs.len
        /\ \A i, j \in 1 .. job.list.len : slot[i] = slot[j] => i = j
        /\ \A i \in 1 .. job.list.len :
              Offered(slot[i], job.event) = IF i < job.at THEN 1 ELSE 0
        /\ job.to \in {Nobody, slot[job.at]}

\* A publisher is busy with its newest event.
JobInv(p) ==
    /\ publishing[p] # Idle => publishing[p].event = <<p, stored[p]>>
    /\ publishing[p].phase = "stored" => \A v \in Viewer : Offered(v, publishing[p].event) = 0
    /\ Calm(p) => OnceEach(p)

OffersInv == Unoffered /\ \A p \in Publisher : JobInv(p)

TailInv == TailTypes /\ HeapTypes /\ ListInv /\ PagesInv /\ OffersInv

\* Events are numbered.
LEMMA IdxIsNat ==
    ASSUME NEW e \in Event
    PROVE  Idx(e) \in Nat /\ e[1] \in Publisher /\ e[2] \in 1 .. MaxPublished /\ e[2] \in Nat
<1>1. e[1] \in Publisher /\ e[2] \in 1 .. MaxPublished /\ MaxPublished \in Nat
  BY LiveTailAssumption DEF Event
<1>2. e[2] - 1 \in Nat /\ MaxPublished + e[2] - 1 \in Nat
  BY <1>1
<1> QED
  BY <1>1, <1>2 DEF Idx

\* What is known of a publisher, by its phase.
LEMMA JobParts ==
    ASSUME TailTypes, NEW p \in Publisher
    PROVE  /\ publishing[p] \in Job
           /\ publishing[p] = Idle <=> publishing[p].phase = "idle"
           /\ publishing[p] # Idle => publishing[p].event \in Event
           /\ publishing[p].phase \in {"idle", "stored", "walking"}
           /\ Walking(p) => /\ publishing[p].list \in Slice
                            /\ publishing[p].list.len \in Nat /\ publishing[p].list.array \in Nat
                            /\ publishing[p].at \in Nat /\ publishing[p].to \in Slots
                            /\ publishing[p].calm \in BOOLEAN
<1>1. publishing[p] \in Job
  BY DEF TailTypes
<1>2. CASE publishing[p] = Idle
  BY <1>1, <1>2 DEF Idle, Walking
<1>3. CASE publishing[p] \in [phase : {"stored"}, event : Event]
  BY <1>1, <1>3 DEF Idle, Walking
<1>4. CASE publishing[p] \in [phase : {"walking"}, event : Event, list : Slice, at : Nat,
                              to : Slots, calm : BOOLEAN]
  <2>1. publishing[p].phase = "walking"
    BY <1>4
  <2>2. publishing[p].event \in Event /\ publishing[p].list \in Slice /\ publishing[p].at \in Nat
        /\ publishing[p].to \in Slots
    BY <1>4
  <2>3. publishing[p].calm \in BOOLEAN
    BY <1>4, Zenon
  <2>4. publishing[p] # Idle
    BY <2>1 DEF Idle
  <2> QED
    BY <1>1, <2>1, <2>2, <2>3, <2>4 DEF Slice
<1> QED
  BY <1>1, <1>2, <1>3, <1>4 DEF Job

\* Nobody watches and nothing is published at first.
LEMMA TailStarts == TailInit => TailInv
<1> SUFFICES ASSUME TailInit PROVE TailInv
  OBVIOUS
<1>1. \A p \in Publisher : publishing[p] = Idle /\ stored[p] = 0
  BY DEF TailInit
<1>2. \A v \in Viewer : sub[v] = "none" /\ dropped[v] = {}
         /\ \A e \in Event : page[v][e] = 0 /\ sent[v][e] = 0
  BY DEF TailInit, Never
<1>3. TailTypes
  <2>1. <<>> \in Seq(Array)
    OBVIOUS
  <2>2. <<>> \in Seq(Event)
    OBVIOUS
  <2>3. Never \in [Event -> Nat]
    BY DEF Never
  <2>4. NoSlice \in Slice /\ Idle \in Job
    BY DEF NoSlice, Slice, Job
  <2>5. [viewer |-> Nobody, left |-> {}, from |-> 0] \in
            [viewer : Slots, left : SUBSET Nat, from : Nat]
    BY DEF Slots
  <2>6. 0 \in 0 .. MaxPublished
    BY LiveTailAssumption
  <2> QED
    BY <2>1, <2>2, <2>3, <2>4, <2>5, <2>6 DEF TailInit, TailTypes, Stage
<1>4. HeapTypes
  BY <1>1 DEF HeapTypes, TailInit, Within, NoSlice, Walking, Idle
<1>5. ListInv
  <2>1. Listeners = {}
    BY <1>2 DEF Listeners
  <2>2. MuFree /\ subs.len = 0
    BY DEF TailInit, MuFree, NoSlice
  <2> QED
    BY <2>1, <2>2 DEF ListInv, Holds
<1>6. PagesInv
  BY <1>2 DEF PagesInv
<1>7. OffersInv
  <2>1. \A v \in Viewer, e \in Event : Offered(v, e) = 0
    BY <1>2 DEF Offered
  <2> QED
    BY <1>1, <2>1 DEF OffersInv, Unoffered, JobInv, Calm, Walking, Idle
<1> QED
  BY <1>3, <1>4, <1>5, <1>6, <1>7 DEF TailInv

\* What is known of the heap and of the header.
LEMMA HeapParts ==
    ASSUME TailTypes, Within(subs)
    PROVE  /\ Len(heap) \in Nat /\ subs.len \in Nat /\ subs.array \in Nat
           /\ subs = [array |-> subs.array, len |-> subs.len]
           /\ \A a \in 1 .. Len(heap) : heap[a] \in Array /\ Len(heap[a]) \in Nat
           /\ subs.array = 0 => subs.len = 0
           /\ subs.array # 0 => subs.array \in 1 .. Len(heap)
<1>1. heap \in Seq(Array) /\ subs \in Slice
  BY DEF TailTypes
<1>2. \A a \in 1 .. Len(heap) : heap[a] \in Array
  BY <1>1
<1>3. \A a \in 1 .. Len(heap) : Len(heap[a]) \in Nat
  BY <1>2, LenProperties DEF Array
<1> QED
  BY <1>1, <1>2, <1>3 DEF Slice, Within

\* The array append makes when there is no room.
LEMMA GrownIs ==
    ASSUME TailTypes, Within(subs), NEW v \in Viewer
    PROVE  /\ Grown(subs, v) \in Array
           /\ Len(Grown(subs, v)) = (IF subs.len = 0 THEN 1 ELSE 2 * subs.len)
           /\ \A i \in 1 .. subs.len : Grown(subs, v)[i] = heap[subs.array][i]
           /\ Grown(subs, v)[subs.len + 1] = v
<1> DEFINE n == IF subs.len = 0 THEN 1 ELSE 2 * subs.len
           g == Grown(subs, v)
<1>1. subs.len \in Nat /\ n \in Nat /\ subs.len + 1 <= n
  BY HeapParts
<1>2. \A i \in 1 .. subs.len : heap[subs.array][i] \in Viewer
  BY <1>1 DEF Within
<1>3. g = [i \in 1 .. n |->
              IF i <= subs.len THEN heap[subs.array][i] ELSE IF i = subs.len + 1 THEN v ELSE Nobody]
  BY DEF Grown
<1> HIDE DEF n, g
<1>4. \A i \in 1 .. n : (IF i <= subs.len THEN heap[subs.array][i]
                         ELSE IF i = subs.len + 1 THEN v ELSE Nobody) \in Slots
  BY <1>1, <1>2 DEF Slots
<1>5. g \in [1 .. n -> Slots]
  BY <1>3, <1>4
<1>6. g \in Array /\ Len(g) = n
  BY <1>1, <1>5, SeqDef, LenProperties DEF Array
<1>7. (\A i \in 1 .. subs.len : g[i] = heap[subs.array][i]) /\ g[subs.len + 1] = v
  BY <1>1, <1>3
<1> QED
  BY <1>6, <1>7 DEF n, g

\* An assignment to one slot of one array.
LEMMA SlotSet ==
    ASSUME heap \in Seq(Array), NEW a \in 1 .. Len(heap), NEW k \in 1 .. Len(heap[a]),
           NEW x \in Slots, NEW h, h = [heap EXCEPT ![a][k] = x]
    PROVE  /\ h \in Seq(Array) /\ Len(h) = Len(heap)
           /\ \A b \in 1 .. Len(heap) : Len(h[b]) = Len(heap[b])
           /\ \A b \in 1 .. Len(heap) : b # a => h[b] = heap[b]
           /\ \A i \in 1 .. Len(heap[a]) : h[a][i] = IF i = k THEN x ELSE heap[a][i]
<1>1. heap[a] \in Seq(Slots) /\ Len(heap) \in Nat
  BY DEF Array
<1> DEFINE r == [heap[a] EXCEPT ![k] = x]
<1>2. r \in Seq(Slots) /\ Len(r) = Len(heap[a])
      /\ \A i \in 1 .. Len(heap[a]) : r[i] = IF i = k THEN x ELSE heap[a][i]
  BY <1>1, ExceptSeq
<1>3. h = [heap EXCEPT ![a] = r]
  OBVIOUS
<1> HIDE DEF r
<1>4. r \in Array
  BY <1>2 DEF Array
<1>5. h \in Seq(Array) /\ Len(h) = Len(heap)
      /\ \A b \in 1 .. Len(heap) : h[b] = IF b = a THEN r ELSE heap[b]
  <2>1. /\ [heap EXCEPT ![a] = r] \in Seq(Array) /\ Len([heap EXCEPT ![a] = r]) = Len(heap)
        /\ \A b \in 1 .. Len(heap) : [heap EXCEPT ![a] = r][b] = IF b = a THEN r ELSE heap[b]
    BY <1>4, ExceptSeq
  <2> QED
    BY <1>3, <2>1
<1> QED
  BY <1>2, <1>5

\* What a subscription does to the heap: one slot behind the list is filled, in
\* place or in a new array, and every other slot stays.
LEMMA Appends ==
    ASSUME TailTypes, Within(subs), NEW v \in Viewer, Subscribe(v)
    PROVE  /\ heap' \in Seq(Array) /\ Len(heap) <= Len(heap') /\ Len(heap') \in Nat
           /\ subs' \in Slice /\ subs'.len = subs.len + 1
           /\ subs'.array \in 1 .. Len(heap') /\ subs'.len <= Len(heap'[subs'.array])
           /\ \A i \in 1 .. subs.len : heap'[subs'.array][i] = heap[subs.array][i]
           /\ heap'[subs'.array][subs.len + 1] = v
           /\ subs'.array = subs.array \/ subs'.array = Len(heap) + 1
           /\ \A a \in 1 .. Len(heap) : Len(heap'[a]) = Len(heap[a])
           /\ \A a \in 1 .. Len(heap) : \A i \in 1 .. Len(heap[a]) :
                 \/ heap'[a][i] = heap[a][i]
                 \/ a = subs.array /\ i = subs.len + 1 /\ heap'[a][i] = v
<1>1. /\ Len(heap) \in Nat /\ subs.len \in Nat /\ subs.array \in Nat
      /\ \A a \in 1 .. Len(heap) : heap[a] \in Array /\ Len(heap[a]) \in Nat
      /\ subs.array # 0 => subs.array \in 1 .. Len(heap)
  BY HeapParts
<1>2. heap \in Seq(Array) /\ subs \in Slice /\ v \in Slots
  BY DEF TailTypes, Slots
<1>3. CASE HasRoom(subs)
  <2>1. subs.array \in 1 .. Len(heap) /\ subs.len + 1 \in 1 .. Len(heap[subs.array])
    BY <1>1, <1>3 DEF HasRoom
  <2>2. /\ heap' = [heap EXCEPT ![subs.array][subs.len + 1] = v]
        /\ subs' = [subs EXCEPT !.len = @ + 1]
    BY <1>3 DEF Subscribe
  <2>3. subs' = [array |-> subs.array, len |-> subs.len + 1]
    BY <1>2, <2>2 DEF Slice
  <2>4. /\ heap' \in Seq(Array) /\ Len(heap') = Len(heap)
        /\ \A b \in 1 .. Len(heap) : Len(heap'[b]) = Len(heap[b])
        /\ \A b \in 1 .. Len(heap) : b # subs.array => heap'[b] = heap[b]
        /\ \A i \in 1 .. Len(heap[subs.array]) :
              heap'[subs.array][i] = IF i = subs.len + 1 THEN v ELSE heap[subs.array][i]
    <3> DEFINE a == subs.array
               k == subs.len + 1
    <3>1. a \in 1 .. Len(heap) /\ k \in 1 .. Len(heap[a])
      BY <2>1
    <3> HIDE DEF a, k
    <3>2. \A h : h = [heap EXCEPT ![a][k] = v] =>
            /\ h \in Seq(Array) /\ Len(h) = Len(heap)
            /\ \A b \in 1 .. Len(heap) : Len(h[b]) = Len(heap[b])
            /\ \A b \in 1 .. Len(heap) : b # a => h[b] = heap[b]
            /\ \A i \in 1 .. Len(heap[a]) : h[a][i] = IF i = k THEN v ELSE heap[a][i]
      BY <1>2, <3>1, SlotSet, ZenonT(60)
    <3>3. heap' = [heap EXCEPT ![a][k] = v]
      BY <2>2 DEF a, k
    <3> QED
      BY <3>2, <3>3 DEF a, k
  <2>5. subs'.array = subs.array /\ subs'.len = subs.len + 1 /\ subs' \in Slice
    BY <1>1, <2>3 DEF Slice
  <2>6. /\ subs'.array \in 1 .. Len(heap') /\ subs'.len <= Len(heap'[subs'.array])
        /\ heap'[subs'.array][subs.len + 1] = v
    BY <1>1, <2>1, <2>4, <2>5
  <2>7. \A i \in 1 .. subs.len : heap'[subs'.array][i] = heap[subs.array][i]
    <3>1. \A i \in 1 .. subs.len : i \in 1 .. Len(heap[subs.array]) /\ i # subs.len + 1
      BY <1>1, <2>1
    <3> QED
      BY <2>4, <2>5, <3>1
  <2>8. \A a \in 1 .. Len(heap) : \A i \in 1 .. Len(heap[a]) :
           \/ heap'[a][i] = heap[a][i]
           \/ a = subs.array /\ i = subs.len + 1 /\ heap'[a][i] = v
    BY <1>1, <2>4
  <2>9. Len(heap) <= Len(heap') /\ Len(heap') \in Nat
    BY <1>1, <2>4
  <2> QED
    BY <2>4, <2>5, <2>6, <2>7, <2>8, <2>9
<1>4. CASE ~HasRoom(subs)
  <2> DEFINE g == Grown(subs, v)
  <2>1. /\ g \in Array /\ Len(g) = (IF subs.len = 0 THEN 1 ELSE 2 * subs.len)
        /\ \A i \in 1 .. subs.len : g[i] = heap[subs.array][i]
        /\ g[subs.len + 1] = v
    BY GrownIs
  <2>2. heap' = Append(heap, g) /\ subs' = [array |-> Len(heap) + 1, len |-> subs.len + 1]
    BY <1>4 DEF Subscribe
  <2> HIDE DEF g
  <2>3. /\ heap' \in Seq(Array) /\ Len(heap') = Len(heap) + 1 /\ heap'[Len(heap) + 1] = g
        /\ \A a \in 1 .. Len(heap) : heap'[a] = heap[a]
    BY <1>2, <2>1, <2>2, AppendProperties
  <2>4. subs'.array = Len(heap) + 1 /\ subs'.len = subs.len + 1 /\ subs' \in Slice
    BY <1>1, <2>2 DEF Slice
  <2>5. subs'.len <= Len(g)
    BY <1>1, <2>1, <2>4
  <2>6. heap'[subs'.array] = g /\ subs'.array \in 1 .. Len(heap')
    BY <1>1, <2>3, <2>4
  <2>7. /\ subs'.len <= Len(heap'[subs'.array]) /\ heap'[subs'.array][subs.len + 1] = v
        /\ \A i \in 1 .. subs.len : heap'[subs'.array][i] = heap[subs.array][i]
    BY <2>1, <2>5, <2>6
  <2>8. /\ \A a \in 1 .. Len(heap) : Len(heap'[a]) = Len(heap[a])
        /\ \A a \in 1 .. Len(heap) : \A i \in 1 .. Len(heap[a]) : heap'[a][i] = heap[a][i]
    BY <2>3
  <2>9. Len(heap) <= Len(heap') /\ Len(heap') \in Nat
    BY <1>1, <2>3
  <2> QED
    BY <2>3, <2>4, <2>6, <2>7, <2>8, <2>9
<1> QED
  BY <1>3, <1>4

\* What one step of a removal does: the free slot takes what the next one has.
LEMMA SlotMoves ==
    ASSUME TailTypes, Within(subs), NEW k \in 1 .. subs.len,
           moving.left = k .. (subs.len - 1), moving.from = subs.array, MoveSlot
    PROVE  /\ k < subs.len /\ subs.array \in 1 .. Len(heap) /\ subs.len <= Len(heap[subs.array])
           /\ heap' \in Seq(Array) /\ Len(heap') = Len(heap)
           /\ \A a \in 1 .. Len(heap) : Len(heap'[a]) = Len(heap[a])
           /\ \A a \in 1 .. Len(heap) : a # subs.array => heap'[a] = heap[a]
           /\ \A i \in 1 .. Len(heap[subs.array]) : heap'[subs.array][i] =
                 IF i = k THEN heap[subs.array][k + 1] ELSE heap[subs.array][i]
           /\ moving'.viewer = moving.viewer /\ moving'.from = moving.from
           /\ moving'.left = (k + 1) .. (subs.len - 1)
<1>1. /\ Len(heap) \in Nat /\ subs.len \in Nat /\ subs.array \in 1 .. Len(heap)
      /\ \A a \in 1 .. Len(heap) : heap[a] \in Array /\ Len(heap[a]) \in Nat
  BY HeapParts
<1>2. subs.len <= Len(heap[subs.array])
  BY <1>1 DEF Within
<1> DEFINE g == CHOOSE j \in moving.left : \A n \in moving.left : j <= n
<1>3. moving.left # {} /\ k < subs.len /\ k \in moving.left
  BY <1>1 DEF MoveSlot
<1>4. g = k
  <2>1. \A n \in moving.left : k <= n
    OBVIOUS
  <2>2. \E j \in moving.left : \A n \in moving.left : j <= n
    BY <1>3, <2>1
  <2>3. g \in moving.left /\ \A n \in moving.left : g <= n
    BY <2>2
  <2> QED
    BY <1>1, <1>3, <2>1, <2>3
<1>5. /\ heap' = [heap EXCEPT ![moving.from][g] = heap[moving.from][g + 1]]
      /\ moving' = [moving EXCEPT !.left = @ \ {g}]
  BY DEF MoveSlot
<1> HIDE DEF g
<1>6. heap' = [heap EXCEPT ![subs.array][k] = heap[subs.array][k + 1]]
  BY <1>4, <1>5
<1>7. k + 1 \in 1 .. subs.len /\ k \in 1 .. Len(heap[subs.array])
  BY <1>1, <1>2, <1>3
<1>8. heap[subs.array][k + 1] \in Slots /\ heap \in Seq(Array)
  BY <1>7 DEF Within, Slots, TailTypes
<1>9. /\ heap' \in Seq(Array) /\ Len(heap') = Len(heap)
      /\ \A b \in 1 .. Len(heap) : Len(heap'[b]) = Len(heap[b])
      /\ \A b \in 1 .. Len(heap) : b # subs.array => heap'[b] = heap[b]
      /\ \A i \in 1 .. Len(heap[subs.array]) : heap'[subs.array][i] =
            IF i = k THEN heap[subs.array][k + 1] ELSE heap[subs.array][i]
  <2> DEFINE a == subs.array
             x == heap[subs.array][k + 1]
  <2>1. a \in 1 .. Len(heap) /\ k \in 1 .. Len(heap[a]) /\ x \in Slots
    BY <1>1, <1>7, <1>8
  <2>2. heap' = [heap EXCEPT ![a][k] = x]
    BY <1>6
  <2> HIDE DEF a, x
  <2>3. heap \in Seq(Array)
    BY <1>8
  <2>4. \A n \in 1 .. Len(heap[a]) : \A y \in Slots : \A h : h = [heap EXCEPT ![a][n] = y] =>
          /\ h \in Seq(Array) /\ Len(h) = Len(heap)
          /\ \A b \in 1 .. Len(heap) : Len(h[b]) = Len(heap[b])
          /\ \A b \in 1 .. Len(heap) : b # a => h[b] = heap[b]
          /\ \A i \in 1 .. Len(heap[a]) : h[a][i] = IF i = n THEN y ELSE heap[a][i]
    BY <2>1, <2>3, SlotSet, Zenon
  <2>5. /\ heap' \in Seq(Array) /\ Len(heap') = Len(heap)
        /\ \A b \in 1 .. Len(heap) : Len(heap'[b]) = Len(heap[b])
        /\ \A b \in 1 .. Len(heap) : b # a => heap'[b] = heap[b]
        /\ \A i \in 1 .. Len(heap[a]) : heap'[a][i] = IF i = k THEN x ELSE heap[a][i]
    <3>1. k \in 1 .. Len(heap[a])
      BY <2>1
    <3>2. x \in Slots
      BY <2>1
    <3>3. heap' = [heap EXCEPT ![a][k] = x]
      BY <2>2
    <3>4. \A h : h = [heap EXCEPT ![a][k] = x] =>
            /\ h \in Seq(Array) /\ Len(h) = Len(heap)
            /\ \A b \in 1 .. Len(heap) : Len(h[b]) = Len(heap[b])
            /\ \A b \in 1 .. Len(heap) : b # a => h[b] = heap[b]
            /\ \A i \in 1 .. Len(heap[a]) : h[a][i] = IF i = k THEN x ELSE heap[a][i]
      BY <3>1, <3>2, <2>4
    <3> QED
      BY <3>3, <3>4
  <2> QED
    BY <2>5 DEF a, x
<1>10. /\ moving'.viewer = moving.viewer /\ moving'.from = moving.from
       /\ moving'.left = moving.left \ {k}
  <2>1. moving \in [viewer : Slots, left : SUBSET Nat, from : Nat]
    BY DEF TailTypes
  <2> QED
    BY <1>4, <1>5, <2>1
<1>11. moving.left \ {k} = (k + 1) .. (subs.len - 1)
  BY <1>1, <1>3
<1> QED
  BY <1>1, <1>2, <1>3, <1>9, <1>10, <1>11

\* A walk is over slots that hold viewers.
LEMMA SlotsOf ==
    ASSUME TailTypes, HeapTypes, NEW p \in Publisher, Walking(p)
    PROVE  /\ publishing[p].list.array \in 1 .. Len(heap)
           /\ publishing[p].list.len \in Nat
           /\ publishing[p].list.len <= Len(heap[publishing[p].list.array])
           /\ \A i \in 1 .. publishing[p].list.len : heap[publishing[p].list.array][i] \in Viewer
           /\ publishing[p].at \in 1 .. publishing[p].list.len
<1>1. Within(publishing[p].list) /\ publishing[p].at \in 1 .. publishing[p].list.len
  BY DEF HeapTypes
<1>2. publishing[p].list.len \in Nat
  BY JobParts
<1> QED
  BY <1>1, <1>2 DEF Within

\* A publisher that walks, put together from its parts.
LEMMA WalkingJob ==
    ASSUME NEW e \in Event, NEW s \in Slice, NEW i \in Nat, NEW x \in Slots, NEW c \in BOOLEAN
    PROVE  [phase |-> "walking", event |-> e, list |-> s, at |-> i, to |-> x, calm |-> c] \in Job
<1>1. [phase |-> "walking", event |-> e, list |-> s, at |-> i, to |-> x, calm |-> c] \in
          [phase : {"walking"}, event : Event, list : Slice, at : Nat, to : Slots, calm : BOOLEAN]
  BY Zenon
<1> QED
  BY <1>1, Zenon DEF Job

\* What the other publishers do is their own business.
LEMMA OneJob ==
    ASSUME TailTypes, NEW p \in Publisher, NEW job \in Job,
           publishing' = [publishing EXCEPT ![p] = job]
    PROVE  /\ publishing' \in [Publisher -> Job]
           /\ publishing'[p] = job
           /\ \A q \in Publisher \ {p} : publishing'[q] = publishing[q]
  BY DEF TailTypes

\* The row is written: the publisher holds its newest event.
LEMMA PersistSteps ==
    ASSUME TailTypes, NEW p \in Publisher, Persist(p)
    PROVE  /\ TailTypes' /\ stored[p] + 1 \in 1 .. MaxPublished
           /\ publishing[p] = Idle
           /\ publishing'[p] = [phase |-> "stored", event |-> <<p, stored[p] + 1>>]
           /\ \A q \in Publisher \ {p} : publishing'[q] = publishing[q] /\ stored'[q] = stored[q]
           /\ stored'[p] = stored[p] + 1
<1>1. stored[p] \in 0 .. MaxPublished /\ stored[p] < MaxPublished /\ publishing[p] = Idle
  BY DEF TailTypes, Persist
<1>2. stored[p] + 1 \in 1 .. MaxPublished
  BY <1>1, LiveTailAssumption
<1> DEFINE job == [phase |-> "stored", event |-> <<p, stored[p] + 1>>]
<1>3. job \in Job
  BY <1>2 DEF Job, Event
<1>4. publishing' = [publishing EXCEPT ![p] = job]
  BY DEF Persist
<1>5. stored' = [stored EXCEPT ![p] = stored[p] + 1]
  BY DEF Persist
<1>6. /\ publishing' \in [Publisher -> Job] /\ publishing'[p] = job
      /\ \A q \in Publisher \ {p} : publishing'[q] = publishing[q]
  <2> HIDE DEF job
  <2> QED
    BY <1>3, <1>4, OneJob
<1>7. stored[p] + 1 \in 0 .. MaxPublished
  BY <1>1, LiveTailAssumption
<1>8. /\ stored' \in [Publisher -> 0 .. MaxPublished] /\ stored'[p] = stored[p] + 1
      /\ \A q \in Publisher \ {p} : stored'[q] = stored[q]
  BY <1>5, <1>7 DEF TailTypes
<1>9. TailTypes'
  BY <1>6, <1>8 DEF TailTypes, Persist
<1> QED
  BY <1>1, <1>2, <1>6, <1>8, <1>9

\* The header is copied: the walk starts at its first slot, if it has one.
LEMMA CopySteps ==
    ASSUME TailTypes, HeapTypes, NEW p \in Publisher, CopyHeader(p)
    PROVE  /\ TailTypes' /\ HeapTypes' /\ MuFree
           /\ publishing[p].phase = "stored"
           /\ \/ publishing'[p] = Idle
              \/ /\ subs.len # 0
                 /\ publishing'[p] = [phase |-> "walking", event |-> publishing[p].event,
                                      list |-> subs, at |-> 1, to |-> Nobody, calm |-> TRUE]
           /\ \A q \in Publisher \ {p} : publishing'[q] = publishing[q]
           /\ UNCHANGED <<stored, heap, subs, moving, sent, dropped>>
<1> DEFINE job == IF subs.len = 0 THEN Idle
                  ELSE [phase |-> "walking", event |-> publishing[p].event, list |-> subs,
                        at |-> 1, to |-> Nobody, calm |-> TRUE]
<1>1. publishing[p].phase = "stored" /\ publishing[p].event \in Event /\ MuFree
  BY JobParts DEF CopyHeader, Idle
<1>2. subs \in Slice /\ Nobody \in Slots /\ 1 \in Nat /\ TRUE \in BOOLEAN
  BY DEF TailTypes, Slots
<1>3. [phase |-> "walking", event |-> publishing[p].event, list |-> subs, at |-> 1,
       to |-> Nobody, calm |-> TRUE] \in Job
  BY <1>1, <1>2, WalkingJob
<1>4. job \in Job
  BY <1>3 DEF Job
<1>5. publishing' = [publishing EXCEPT ![p] = job]
  BY DEF CopyHeader
<1>6. /\ publishing' \in [Publisher -> Job] /\ publishing'[p] = job
      /\ \A q \in Publisher \ {p} : publishing'[q] = publishing[q]
  <2> HIDE DEF job
  <2> QED
    BY <1>4, <1>5, OneJob
<1>7. UNCHANGED <<stored, heap, subs, moving, sub, buffer, page, maxIdx, sent, dropped>>
  BY DEF CopyHeader
<1>8. TailTypes'
  BY <1>6, <1>7 DEF TailTypes
<1>9. \/ publishing'[p] = Idle
      \/ /\ subs.len # 0
         /\ publishing'[p] = [phase |-> "walking", event |-> publishing[p].event,
                              list |-> subs, at |-> 1, to |-> Nobody, calm |-> TRUE]
  BY <1>6
<1>10. HeapTypes'
  <2>1. Within(subs) /\ subs.len \in Nat
    BY <1>2 DEF HeapTypes, Slice
  <2>2. ASSUME NEW q \in Publisher, Walking(q)'
        PROVE  Within(publishing[q].list)' /\ publishing'[q].at \in 1 .. publishing'[q].list.len
    <3>1. CASE q = p
      <4>1. publishing'[p].list = subs /\ publishing'[p].at = 1 /\ subs.len # 0
        BY <1>9, <2>2, <3>1 DEF Walking, Idle
      <4>2. ASSUME NEW s, s = subs PROVE Within(s)'
        BY <1>7, <2>1, <4>2 DEF Within
      <4> QED
        BY <1>7, <2>1, <3>1, <4>1, <4>2 DEF Within
    <3>2. CASE q # p
      <4>1. publishing'[q] = publishing[q]
        BY <1>6, <3>2
      <4>2. Within(publishing[q].list) /\ publishing[q].at \in 1 .. publishing[q].list.len
        BY <2>2, <4>1 DEF HeapTypes, Walking
      <4> QED
        BY <1>7, <4>1, <4>2 DEF Within
    <3> QED
      BY <3>1, <3>2
  <2>3. Within(subs)'
    BY <1>7, <2>1 DEF Within
  <2> QED
    BY <2>2, <2>3 DEF HeapTypes
<1> QED
  BY <1>1, <1>6, <1>7, <1>8, <1>9, <1>10

\* A publisher's walk keeps its place within the same filled slots.
LEMMA StaysWithin ==
    ASSUME HeapTypes, NEW p \in Publisher, heap' = heap, subs' = subs,
           \A q \in Publisher \ {p} : publishing'[q] = publishing[q],
           Walking(p)' => /\ Walking(p) /\ publishing'[p].list = publishing[p].list
                          /\ publishing'[p].at \in 1 .. publishing[p].list.len
    PROVE  HeapTypes'
<1>1. Within(subs)'
  BY DEF HeapTypes, Within
<1>2. ASSUME NEW q \in Publisher, Walking(q)'
      PROVE  Within(publishing[q].list)' /\ publishing'[q].at \in 1 .. publishing'[q].list.len
  <2>1. CASE q = p
    BY <1>2, <2>1 DEF HeapTypes, Within
  <2>2. CASE q # p
    BY <1>2, <2>2 DEF HeapTypes, Within, Walking
  <2> QED
    BY <2>1, <2>2
<1> QED
  BY <1>1, <1>2 DEF HeapTypes

\* A slot is read: it holds a viewer, whatever was moved meanwhile.
LEMMA ReadSteps ==
    ASSUME TailTypes, HeapTypes, NEW p \in Publisher, ReadSlot(p)
    PROVE  /\ TailTypes' /\ HeapTypes' /\ Walking(p)
           /\ publishing'[p] = [publishing[p] EXCEPT
                 !.to = heap[publishing[p].list.array][publishing[p].at]]
           /\ \A q \in Publisher \ {p} : publishing'[q] = publishing[q]
           /\ UNCHANGED <<stored, heap, subs, moving, sent, dropped>>
<1> DEFINE job == publishing[p]
           x == heap[job.list.array][job.at]
           new == [job EXCEPT !.to = x]
<1>1. Walking(p) /\ publishing' = [publishing EXCEPT ![p].to = x]
  BY DEF ReadSlot
<1>2. /\ job.event \in Event /\ job.list \in Slice /\ job.at \in Nat /\ job.calm \in BOOLEAN
      /\ job \in Job /\ job.phase = "walking"
  BY <1>1, JobParts DEF Walking, Idle
<1>3. x \in Slots
  BY <1>1, SlotsOf DEF Slots
<1>4. job \in [phase : {"walking"}, event : Event, list : Slice, at : Nat, to : Slots,
               calm : BOOLEAN]
  <2> HIDE DEF job
  <2> QED
    BY <1>2 DEF Job, Idle
<1>5. publishing' = [publishing EXCEPT ![p] = new]
  BY <1>1
<1> HIDE DEF job, x
<1>6. new \in [phase : {"walking"}, event : Event, list : Slice, at : Nat, to : Slots,
               calm : BOOLEAN]
  BY <1>3, <1>4, Zenon
<1>7. new.list = job.list /\ new.at = job.at
  BY <1>4
<1> HIDE DEF new
<1>8. new \in Job
  BY <1>6, Zenon DEF Job
<1>9. /\ publishing' \in [Publisher -> Job] /\ publishing'[p] = new
      /\ \A q \in Publisher \ {p} : publishing'[q] = publishing[q]
  BY <1>5, <1>8, OneJob
<1>10. UNCHANGED <<stored, heap, subs, moving, sub, buffer, page, maxIdx, sent, dropped>>
  BY DEF ReadSlot
<1>11. TailTypes'
  BY <1>9, <1>10 DEF TailTypes
<1>12. publishing'[p].list = publishing[p].list
       /\ publishing'[p].at \in 1 .. publishing[p].list.len
  BY <1>1, <1>7, <1>9, SlotsOf DEF job
<1>13. HeapTypes'
  BY <1>1, <1>9, <1>10, <1>12, StaysWithin
<1> QED
  BY <1>1, <1>9, <1>10, <1>11, <1>13 DEF new, job, x

\* An offer reaches one viewer with one event, sent or dropped.
LEMMA Offers ==
    ASSUME TailTypes, NEW v \in Viewer, NEW e \in Event, Offer(v, e)
    PROVE  /\ buffer' \in [Viewer -> Seq(Event)] /\ sent' \in [Viewer -> [Event -> Nat]]
           /\ dropped' \in [Viewer -> SUBSET Event]
           /\ \A u \in Viewer, d \in Event : u # v \/ d # e => Offered(u, d)' = Offered(u, d)
           /\ Offered(v, e) = 0 => Offered(v, e)' = 1
<1>1. /\ buffer \in [Viewer -> Seq(Event)] /\ sent \in [Viewer -> [Event -> Nat]]
      /\ dropped \in [Viewer -> SUBSET Event]
  BY DEF TailTypes
<1>2. CASE HasSpace(v)
  <2>1. /\ buffer' = [buffer EXCEPT ![v] = Append(@, e)] /\ dropped' = dropped
        /\ sent' = [sent EXCEPT ![v][e] = @ + 1]
    BY <1>2 DEF Offer
  <2>2. sent[v][e] \in Nat /\ sent[v] \in [Event -> Nat] /\ sent[v][e] + 1 \in Nat
    BY <1>1
  <2>3. [sent[v] EXCEPT ![e] = sent[v][e] + 1] \in [Event -> Nat]
    BY <2>2
  <2>4. sent' \in [Viewer -> [Event -> Nat]]
    BY <1>1, <2>1, <2>3
  <2>5. Append(buffer[v], e) \in Seq(Event)
    BY <1>1, AppendProperties
  <2>6. buffer' \in [Viewer -> Seq(Event)]
    BY <1>1, <2>1, <2>5
  <2>7. \A u \in Viewer, d \in Event :
           sent'[u][d] = IF u = v /\ d = e THEN sent[u][d] + 1 ELSE sent[u][d]
    BY <1>1, <2>1
  <2>8. \A u \in Viewer, d \in Event : u # v \/ d # e => Offered(u, d)' = Offered(u, d)
    BY <2>1, <2>7 DEF Offered
  <2>9. Offered(v, e) = 0 => Offered(v, e)' = 1
    BY <2>1, <2>2, <2>7 DEF Offered
  <2> QED
    BY <1>1, <2>1, <2>4, <2>6, <2>8, <2>9
<1>3. CASE ~HasSpace(v)
  <2>1. buffer' = buffer /\ sent' = sent /\ dropped' = [dropped EXCEPT ![v] = @ \cup {e}]
    BY <1>3 DEF Offer
  <2>2. dropped' \in [Viewer -> SUBSET Event]
    BY <1>1, <2>1
  <2>3. \A u \in Viewer : dropped'[u] = IF u = v THEN dropped[u] \cup {e} ELSE dropped[u]
    BY <1>1, <2>1
  <2>4. \A u \in Viewer, d \in Event : u # v \/ d # e => Offered(u, d)' = Offered(u, d)
    BY <2>1, <2>3 DEF Offered
  <2>5. Offered(v, e) = 0 => Offered(v, e)' = 1
    <3>1. sent[v][e] \in Nat
      BY <1>1
    <3> QED
      BY <2>1, <2>3, <3>1 DEF Offered
  <2> QED
    BY <1>1, <2>1, <2>2, <2>4, <2>5
<1> QED
  BY <1>2, <1>3

\* A send: the viewer is offered the event and the walk goes on or ends, or the
\* process dies.
LEMMA PublishSteps ==
    ASSUME TailTypes, HeapTypes, NEW p \in Publisher, Publish(p)
    PROVE  /\ TailTypes' /\ HeapTypes' /\ Walking(p) /\ publishing[p].to \in Viewer
           /\ \A q \in Publisher \ {p} : publishing'[q] = publishing[q]
           /\ UNCHANGED <<stored, heap, subs, moving>>
           /\ \/ UNCHANGED <<publishing, sent, dropped>> /\ panicked'
              \/ /\ Offer(publishing[p].to, publishing[p].event)
                 /\ publishing'[p] =
                       IF publishing[p].at = publishing[p].list.len THEN Idle
                       ELSE [publishing[p] EXCEPT !.at = @ + 1, !.to = Nobody]
<1> DEFINE job == publishing[p]
           new == IF job.at = job.list.len THEN Idle
                  ELSE [job EXCEPT !.at = @ + 1, !.to = Nobody]
<1>1. Walking(p) /\ job.to # Nobody
  BY DEF Publish
<1>2. /\ job.event \in Event /\ job.list \in Slice /\ job.at \in Nat /\ job.calm \in BOOLEAN
      /\ job \in Job /\ job.phase = "walking" /\ job.to \in Slots
  BY <1>1, JobParts DEF Walking, Idle
<1>3. job.to \in Viewer
  BY <1>1, <1>2 DEF Slots
<1>4. UNCHANGED <<stored, heap, subs, moving, sub, page, maxIdx>>
  BY DEF Publish
<1>5. CASE sub[job.to] = "closed"
  <2>1. UNCHANGED <<publishing, buffer, sent, dropped>> /\ panicked'
    BY <1>5 DEF Publish
  <2>2. TailTypes' /\ HeapTypes'
    BY <1>4, <2>1 DEF TailTypes, HeapTypes, Within, Walking
  <2> QED
    BY <1>1, <1>3, <1>4, <2>1, <2>2
<1>6. CASE sub[job.to] # "closed"
  <2>1. Offer(job.to, job.event) /\ publishing' = [publishing EXCEPT ![p] = new]
    BY <1>6 DEF Publish
  <2>2. /\ buffer' \in [Viewer -> Seq(Event)] /\ sent' \in [Viewer -> [Event -> Nat]]
        /\ dropped' \in [Viewer -> SUBSET Event]
    BY <1>2, <1>3, <2>1, Offers
  <2>3. job \in [phase : {"walking"}, event : Event, list : Slice, at : Nat, to : Slots,
                 calm : BOOLEAN]
    <3> HIDE DEF job
    <3> QED
      BY <1>2 DEF Job, Idle
  <2>4. job.at + 1 \in Nat /\ Nobody \in Slots
    BY <1>2 DEF Slots
  <2> DEFINE on == [job EXCEPT !.at = job.at + 1, !.to = Nobody]
  <2>5. on \in [phase : {"walking"}, event : Event, list : Slice, at : Nat, to : Slots,
                calm : BOOLEAN]
    <3> HIDE DEF job
    <3> QED
      BY <2>3, <2>4, Zenon
  <2>6. on \in Job
    <3> HIDE DEF on
    <3> QED
      BY <2>5, Zenon DEF Job
  <2>7. on.list = job.list /\ on.at = job.at + 1
    <3> HIDE DEF job
    <3> QED
      BY <2>3
  <2>8. new = IF job.at = job.list.len THEN Idle ELSE on
    OBVIOUS
  <2>9. new \in Job
    <3> HIDE DEF new, on, job
    <3> QED
      BY <2>6, <2>8 DEF Job
  <2>10. /\ publishing' \in [Publisher -> Job] /\ publishing'[p] = new
         /\ \A q \in Publisher \ {p} : publishing'[q] = publishing[q]
    <3> HIDE DEF new
    <3> QED
      BY <2>1, <2>9, OneJob
  <2>11. TailTypes'
    BY <1>4, <2>2, <2>10 DEF TailTypes
  <2>12. job.at \in 1 .. job.list.len /\ job.list.len \in Nat
    BY <1>1, SlotsOf
  <2>13. HeapTypes'
    <3>1. Walking(p)' => /\ Walking(p) /\ publishing'[p].list = publishing[p].list
                         /\ publishing'[p].at \in 1 .. publishing[p].list.len
      <4>1. Walking(p)' => job.at # job.list.len /\ publishing'[p] = on
        <5>1. publishing'[p] = IF job.at = job.list.len THEN Idle ELSE on
          BY <2>8, <2>10
        <5> QED
          BY <5>1 DEF Walking, Idle
      <4>2. job.at # job.list.len => job.at + 1 \in 1 .. job.list.len
        BY <2>12
      <4> QED
        BY <1>1, <2>7, <4>1, <4>2
    <3> QED
      BY <1>4, <2>10, <3>1, StaysWithin
  <2> QED
    BY <1>1, <1>3, <1>4, <2>1, <2>10, <2>11, <2>13
<1> QED
  BY <1>5, <1>6

\* What the page shows after the load is not beyond the maxIdx it took.
LEMMA LoadSteps ==
    ASSUME TailTypes, PagesInv, NEW v \in Viewer, Load(v)
    PROVE  TailTypes' /\ PagesInv' /\ sub[v] = "none" /\ sub' = [sub EXCEPT ![v] = "loaded"]
<1> DEFINE rows == {e \in Event : e[2] <= stored[e[1]] /\ Idx(e) > 0}
           shown == [e \in Event |-> IF e \in rows THEN 1 ELSE 0]
<1>1. PICK m \in {0} \cup {Idx(e) : e \in rows} :
          (\A e \in rows : Idx(e) <= m) /\ maxIdx' = [maxIdx EXCEPT ![v] = m]
  BY DEF Load
<1>2. m \in Nat
  BY <1>1, IdxIsNat
<1>3. shown \in [Event -> Nat] /\ page' = [page EXCEPT ![v] = shown]
  BY DEF Load
<1>4. UNCHANGED <<stored, heap, subs, moving, publishing, buffer, sent, dropped>>
      /\ sub[v] = "none" /\ sub' = [sub EXCEPT ![v] = "loaded"]
  BY DEF Load
<1>5. \A e \in Event : shown[e] <= 1 /\ (shown[e] > 0 => e \in rows)
  OBVIOUS
<1> HIDE DEF rows, shown
<1>6. TailTypes'
  BY <1>1, <1>2, <1>3, <1>4 DEF TailTypes, Stage
<1>7. PagesInv'
  <2> SUFFICES ASSUME NEW u \in Viewer, NEW e \in Event
               PROVE  page'[u][e] <= 1 /\ (page'[u][e] > 0 => Idx(e) <= maxIdx'[u])
    BY DEF PagesInv
  <2>2. CASE u = v
    BY <1>1, <1>3, <1>5, <2>2 DEF TailTypes
  <2>3. CASE u # v
    BY <1>1, <1>3, <2>3 DEF TailTypes, PagesInv
  <2> QED
    BY <2>2, <2>3
<1> QED
  BY <1>4, <1>6, <1>7

\* An event the tail delivers is shown once: it was not on the page, which has
\* nothing beyond its maxIdx.
LEMMA TakeSteps ==
    ASSUME TailTypes, PagesInv, NEW v \in Viewer, Take(v)
    PROVE  TailTypes' /\ PagesInv'
<1> DEFINE e == Head(buffer[v])
<1>1. buffer[v] \in Seq(Event) /\ buffer[v] # <<>>
  BY DEF TailTypes, Take
<1>2. e \in Event /\ Tail(buffer[v]) \in Seq(Event)
  BY <1>1
<1>3. UNCHANGED <<stored, heap, subs, moving, publishing, sub, sent, dropped>>
      /\ buffer' = [buffer EXCEPT ![v] = Tail(buffer[v])]
  BY DEF Take
<1>4. buffer' \in [Viewer -> Seq(Event)]
  BY <1>2, <1>3 DEF TailTypes
<1>5. CASE UNCHANGED <<page, maxIdx>>
  BY <1>3, <1>4, <1>5 DEF TailTypes, PagesInv
<1>6. CASE /\ Shows(v, e) /\ page' = [page EXCEPT ![v][e] = @ + 1]
           /\ maxIdx' = [maxIdx EXCEPT ![v] = IF Idx(e) > @ THEN Idx(e) ELSE @]
  <2>1. Idx(e) \in Nat
    BY <1>2, IdxIsNat
  <2>2. maxIdx[v] \in Nat /\ page[v] \in [Event -> Nat] /\ page[v][e] \in Nat
    BY <1>2 DEF TailTypes
  <2> DEFINE top == IF Idx(e) > maxIdx[v] THEN Idx(e) ELSE maxIdx[v]
             shown == [page[v] EXCEPT ![e] = page[v][e] + 1]
  <2>3. maxIdx' = [maxIdx EXCEPT ![v] = top] /\ page' = [page EXCEPT ![v] = shown]
    BY <1>6
  <2>4. top \in Nat /\ Idx(e) <= top /\ maxIdx[v] <= top
    BY <2>1, <2>2
  <2>5. page[v][e] = 0
    <3>1. CASE page[v] = Never
      BY <1>2, <3>1 DEF Never
    <3>2. CASE Idx(e) > maxIdx[v]
      <4>1. page[v][e] > 0 => Idx(e) <= maxIdx[v]
        BY <1>2 DEF PagesInv
      <4> QED
        BY <2>1, <2>2, <3>2, <4>1
    <3> QED
      BY <1>6, <3>1, <3>2 DEF Shows
  <2>6. shown \in [Event -> Nat] /\ shown[e] = 1 /\ \A d \in Event \ {e} : shown[d] = page[v][d]
    BY <1>2, <2>2, <2>5
  <2>7. \A d \in Event : Idx(d) \in Nat
    BY IdxIsNat
  <2> HIDE DEF e, top, shown
  <2>8. TailTypes'
    BY <1>3, <1>4, <2>3, <2>4, <2>6 DEF TailTypes
  <2>9. PagesInv'
    <3> SUFFICES ASSUME NEW u \in Viewer, NEW d \in Event
                 PROVE  page'[u][d] <= 1 /\ (page'[u][d] > 0 => Idx(d) <= maxIdx'[u])
      BY DEF PagesInv
    <3>1. CASE u # v
      BY <2>3, <3>1 DEF TailTypes, PagesInv
    <3>2. CASE u = v /\ d = e
      BY <2>3, <2>4, <2>6, <3>2 DEF TailTypes
    <3>3. CASE u = v /\ d # e
      <4>1. page'[u][d] = page[v][d] /\ maxIdx'[u] = top
        BY <2>3, <2>6, <3>3 DEF TailTypes
      <4>2. page[v][d] <= 1 /\ (page[v][d] > 0 => Idx(d) <= maxIdx[v])
        BY DEF PagesInv
      <4> QED
        BY <2>2, <2>4, <2>7, <4>1, <4>2
    <3> QED
      BY <3>1, <3>2, <3>3
  <2> QED
    BY <2>8, <2>9
<1> QED
  BY <1>5, <1>6 DEF Take

\* A page that is left shows nothing.
LEMMA CancelSteps ==
    ASSUME TailTypes, PagesInv, NEW v \in Viewer, Cancel(v)
    PROVE  TailTypes' /\ PagesInv'
<1>1. Never \in [Event -> Nat] /\ \A e \in Event : Never[e] = 0
  BY DEF Never
<1>2. /\ page' = [page EXCEPT ![v] = Never] /\ maxIdx' = [maxIdx EXCEPT ![v] = 0]
      /\ sub' = [sub EXCEPT ![v] = "cancelled"]
      /\ UNCHANGED <<stored, heap, subs, moving, publishing, buffer, sent, dropped>>
  BY DEF Cancel
<1>3. TailTypes'
  BY <1>1, <1>2 DEF TailTypes, Stage
<1>4. PagesInv'
  BY <1>1, <1>2 DEF TailTypes, PagesInv
<1> QED
  BY <1>3, <1>4

\* Walks stay within filled slots when slots are only filled with viewers.
LEMMA HeapStays ==
    ASSUME TailTypes, HeapTypes, Within(subs)',
           Len(heap) <= Len(heap'), Len(heap') \in Nat,
           \A a \in 1 .. Len(heap) : Len(heap'[a]) = Len(heap[a]),
           \A a \in 1 .. Len(heap) : \A i \in 1 .. Len(heap[a]) :
               heap'[a][i] = heap[a][i] \/ heap'[a][i] \in Viewer,
           \A q \in Publisher : Walking(q)' => /\ Walking(q)
                                               /\ publishing'[q].list = publishing[q].list
                                               /\ publishing'[q].at = publishing[q].at
    PROVE  HeapTypes'
<1> SUFFICES ASSUME NEW q \in Publisher, Walking(q)'
             PROVE  /\ Within(publishing[q].list)'
                    /\ publishing'[q].at \in 1 .. publishing'[q].list.len
  BY DEF HeapTypes
<1>1. Walking(q) /\ publishing'[q].list = publishing[q].list
      /\ publishing'[q].at = publishing[q].at
  OBVIOUS
<1> DEFINE a == publishing[q].list.array
           n == publishing[q].list.len
<1>2. /\ a \in 1 .. Len(heap) /\ n \in Nat /\ n <= Len(heap[a])
      /\ \A i \in 1 .. n : heap[a][i] \in Viewer
      /\ publishing[q].at \in 1 .. n
  BY <1>1, SlotsOf
<1>3. heap \in Seq(Array) /\ Len(heap) \in Nat
  BY DEF TailTypes
<1>4. heap[a] \in Array
  BY <1>2, <1>3
<1>5. Len(heap[a]) \in Nat
  BY <1>4, LenProperties DEF Array
<1>6. publishing'[q].list.array = a /\ publishing'[q].list.len = n
  BY <1>1
<1> HIDE DEF a, n
<1>7. a \in 1 .. Len(heap') /\ n <= Len(heap'[a]) /\ Len(heap'[a]) > 0
  BY <1>2, <1>3, <1>5
<1>8. \A i \in 1 .. n : heap'[a][i] \in Viewer
  BY <1>2, <1>5
<1>9. Within(publishing[q].list)'
  BY <1>6, <1>7, <1>8 DEF Within
<1> QED
  BY <1>1, <1>2, <1>6, <1>9

\* The one list holds the same viewers under another state of the rest.
LEMMA ListStays ==
    ASSUME TailTypes, ListInv, UNCHANGED <<heap, subs, moving>>, Listeners' = Listeners,
           \A v \in Viewer : sub[v] = "cancelled" => sub'[v] = "cancelled"
    PROVE  ListInv'
<1>1. \A S, U : Holds(S, U)' <=> Holds(S, U)
  BY DEF Holds
<1>2. CASE MuFree
  <2>1. Holds(1 .. subs.len, Listeners) /\ MuFree'
    BY <1>2 DEF ListInv, MuFree
  <2>2. Holds(1 .. subs.len, Listeners)'
    BY <2>1 DEF Holds
  <2> QED
    BY <2>1, <2>2 DEF ListInv
<1>3. CASE ~MuFree
  <2>1. /\ moving.viewer \in Viewer /\ sub[moving.viewer] = "cancelled"
        /\ moving.from = subs.array /\ ~MuFree'
    BY <1>3 DEF ListInv, MuFree
  <2>2. PICK k \in 1 .. subs.len : /\ moving.left = k .. (subs.len - 1)
                                   /\ Holds((1 .. subs.len) \ {k}, Listeners \ {moving.viewer})
    BY <1>3 DEF ListInv
  <2>3. Holds((1 .. subs.len) \ {k}, Listeners \ {moving.viewer})'
    BY <2>2 DEF Holds
  <2>4. k \in 1 .. subs'.len /\ moving'.left = k .. (subs'.len - 1)
    BY <2>2
  <2>5. moving'.viewer \in Viewer /\ sub'[moving'.viewer] = "cancelled"
        /\ moving'.from = subs'.array
    BY <2>1
  <2> QED
    BY <2>1, <2>3, <2>4, <2>5 DEF ListInv
<1> QED
  BY <1>2, <1>3

\* A new subscriber is listed behind the others.
LEMMA SubscribeSteps ==
    ASSUME TailTypes, HeapTypes, ListInv, NEW v \in Viewer, Subscribe(v)
    PROVE  TailTypes' /\ HeapTypes' /\ ListInv' /\ MuFree' /\ MuFree
<1>1. /\ heap' \in Seq(Array) /\ Len(heap) <= Len(heap') /\ Len(heap') \in Nat
      /\ subs' \in Slice /\ subs'.len = subs.len + 1
      /\ subs'.array \in 1 .. Len(heap') /\ subs'.len <= Len(heap'[subs'.array])
      /\ \A i \in 1 .. subs.len : heap'[subs'.array][i] = heap[subs.array][i]
      /\ heap'[subs'.array][subs.len + 1] = v
      /\ \A a \in 1 .. Len(heap) : Len(heap'[a]) = Len(heap[a])
      /\ \A a \in 1 .. Len(heap) : \A i \in 1 .. Len(heap[a]) :
            \/ heap'[a][i] = heap[a][i]
            \/ a = subs.array /\ i = subs.len + 1 /\ heap'[a][i] = v
  BY Appends DEF HeapTypes
<1>2. /\ UNCHANGED <<stored, moving, publishing, buffer, page, maxIdx, sent, dropped>>
      /\ sub' = [sub EXCEPT ![v] = "open"] /\ sub[v] = "loaded" /\ MuFree
  BY DEF Subscribe
<1>3. TailTypes'
  BY <1>1, <1>2 DEF TailTypes, Stage
<1>4. Within(subs) /\ subs.len \in Nat /\ \A i \in 1 .. subs.len : heap[subs.array][i] \in Viewer
  BY HeapParts DEF HeapTypes, Within
<1>5. \A i \in 1 .. subs'.len : i \in 1 .. subs.len \/ i = subs.len + 1
  BY <1>1, <1>4
<1>6. \A i \in 1 .. subs'.len : heap'[subs'.array][i] \in Viewer
  BY <1>1, <1>4, <1>5
<1>7. heap'[subs'.array] \in Array
  BY <1>1
<1>8. Len(heap'[subs'.array]) \in Nat
  BY <1>7, LenProperties DEF Array
<1>9. Within(subs)'
  BY <1>1, <1>4, <1>6, <1>8 DEF Within
<1>10. HeapTypes'
  BY <1>1, <1>2, <1>9, HeapStays DEF Walking
<1>11. ListInv'
  <2>1. Holds(1 .. subs.len, Listeners) /\ MuFree'
    BY <1>2 DEF ListInv, MuFree
  <2>2. Listeners' = Listeners \cup {v} /\ v \notin Listeners
    BY <1>2 DEF Listeners, TailTypes
  <2>3. \A i \in 1 .. subs'.len : heap'[subs'.array][i] \in Listeners'
    BY <1>1, <1>5, <2>1, <2>2 DEF Holds
  <2>4. ASSUME NEW u \in Listeners'
        PROVE  \E i \in 1 .. subs'.len : \A j \in 1 .. subs'.len :
                   heap'[subs'.array][j] = u <=> j = i
    <3>1. CASE u = v
      <4>1. \A j \in 1 .. subs.len : heap'[subs'.array][j] # v
        BY <1>1, <2>1, <2>2 DEF Holds
      <4>2. subs.len + 1 \in 1 .. subs'.len
        BY <1>1, <1>4
      <4>3. \A j \in 1 .. subs'.len : heap'[subs'.array][j] = u <=> j = subs.len + 1
        BY <1>1, <1>4, <1>5, <3>1, <4>1
      <4> QED
        BY <4>2, <4>3
    <3>2. CASE u # v
      <4>1. PICK i \in 1 .. subs.len : \A j \in 1 .. subs.len : heap[subs.array][j] = u <=> j = i
        BY <2>1, <2>2, <3>2 DEF Holds
      <4>2. i \in 1 .. subs'.len /\ i # subs.len + 1
        BY <1>1, <1>4
      <4>3. \A j \in 1 .. subs'.len : heap'[subs'.array][j] = u <=> j = i
        BY <1>1, <1>5, <3>2, <4>1, <4>2
      <4> QED
        BY <4>2, <4>3
    <3> QED
      BY <3>1, <3>2
  <2>5. Holds(1 .. subs.len, Listeners)'
    BY <2>3, <2>4 DEF Holds
  <2> QED
    BY <2>1, <2>5 DEF ListInv
<1> QED
  BY <1>2, <1>3, <1>10, <1>11 DEF MuFree

\* The viewer to be removed has its place, and only that one.
LEMMA BeginSteps ==
    ASSUME TailTypes, HeapTypes, ListInv, NEW v \in Viewer, BeginRemoval(v)
    PROVE  TailTypes' /\ HeapTypes' /\ ListInv' /\ ~MuFree'
           /\ \A p \in Publisher :
                 /\ publishing[p].phase # "walking" => publishing'[p] = publishing[p]
                 /\ publishing[p].phase = "walking" =>
                       publishing'[p] = [publishing[p] EXCEPT !.calm = FALSE]
<1>1. /\ sub[v] = "cancelled" /\ MuFree
      /\ UNCHANGED <<stored, heap, subs, sub, buffer, page, maxIdx, sent, dropped>>
      /\ publishing' = [p \in Publisher |->
           IF Walking(p) THEN [publishing[p] EXCEPT !.calm = FALSE] ELSE publishing[p]]
      /\ moving' = [viewer |-> v, left |-> Place(v) .. (subs.len - 1), from |-> subs.array]
  BY DEF BeginRemoval
<1>2. subs.len \in Nat /\ subs.array \in Nat
  BY HeapParts DEF HeapTypes
<1>3. Holds(1 .. subs.len, Listeners) /\ v \in Listeners
  BY <1>1 DEF ListInv, Listeners
<1>4. PICK k \in 1 .. subs.len : \A j \in 1 .. subs.len : heap[subs.array][j] = v <=> j = k
  BY <1>3 DEF Holds
<1>5. Place(v) = k
  BY <1>4 DEF Place
<1>6. moving' = [viewer |-> v, left |-> k .. (subs.len - 1), from |-> subs.array]
  BY <1>1, <1>5
<1>7. ASSUME NEW p \in Publisher
      PROVE  /\ publishing'[p] \in Job
             /\ publishing[p].phase # "walking" => publishing'[p] = publishing[p]
             /\ publishing[p].phase = "walking" =>
                   /\ publishing'[p] = [publishing[p] EXCEPT !.calm = FALSE]
                   /\ publishing'[p].list = publishing[p].list
                   /\ publishing'[p].at = publishing[p].at
  <2> DEFINE job == publishing[p]
  <2>1. publishing'[p] = IF Walking(p) THEN [job EXCEPT !.calm = FALSE] ELSE job
    BY <1>1
  <2>2. job \in Job
    BY JobParts
  <2>3. CASE ~Walking(p)
    BY <2>1, <2>2, <2>3 DEF Walking
  <2>4. CASE Walking(p)
    <3>1. publishing'[p] = [job EXCEPT !.calm = FALSE] /\ job.phase = "walking"
      BY <2>1, <2>4 DEF Walking
    <3> HIDE DEF job
    <3>2. job \in [phase : {"walking"}, event : Event, list : Slice, at : Nat, to : Slots,
                   calm : BOOLEAN]
      BY <2>2, <3>1 DEF Job, Idle
    <3>3. [job EXCEPT !.calm = FALSE] \in
              [phase : {"walking"}, event : Event, list : Slice, at : Nat, to : Slots,
               calm : BOOLEAN]
      BY <3>2, Zenon
    <3>4. [job EXCEPT !.calm = FALSE] \in Job
      BY <3>3, Zenon DEF Job
    <3>5. [job EXCEPT !.calm = FALSE].list = job.list /\ [job EXCEPT !.calm = FALSE].at = job.at
      BY <3>2
    <3> QED
      BY <3>1, <3>4, <3>5 DEF job
  <2> QED
    BY <2>3, <2>4
<1>8. publishing' \in [Publisher -> Job]
  <2>1. DOMAIN publishing' = Publisher
    BY <1>1
  <2>2. publishing' = [p \in Publisher |-> publishing'[p]]
    BY <1>1
  <2> QED
    BY <1>7, <2>2
<1>9. moving' \in [viewer : Slots, left : SUBSET Nat, from : Nat]
  <2>1. k .. (subs.len - 1) \subseteq Nat
    BY <1>2
  <2> QED
    BY <1>2, <1>6, <2>1 DEF Slots
<1>10. TailTypes'
  BY <1>1, <1>8, <1>9 DEF TailTypes
<1>11. HeapTypes'
  <2>1. Within(subs)'
    BY <1>1 DEF HeapTypes, Within
  <2>2. Len(heap) \in Nat
    BY HeapParts DEF HeapTypes
  <2>3. \A q \in Publisher : Walking(q)' => /\ Walking(q)
                                            /\ publishing'[q].list = publishing[q].list
                                            /\ publishing'[q].at = publishing[q].at
    BY <1>7 DEF Walking
  <2> QED
    BY <1>1, <2>1, <2>2, <2>3, HeapStays
<1>12. ListInv'
  <2>1. ~MuFree' /\ moving'.viewer \in Viewer /\ sub'[moving'.viewer] = "cancelled"
        /\ moving'.from = subs'.array /\ moving'.viewer = v
    BY <1>1, <1>6, LiveTailAssumption DEF MuFree
  <2>2. Listeners' = Listeners
    BY <1>1 DEF Listeners
  <2>3. \A i \in (1 .. subs.len) \ {k} : heap[subs.array][i] \in Listeners \ {v}
    BY <1>3, <1>4 DEF Holds
  <2>4. ASSUME NEW u \in Listeners \ {v}
        PROVE  \E i \in (1 .. subs.len) \ {k} : \A j \in (1 .. subs.len) \ {k} :
                   heap[subs.array][j] = u <=> j = i
    <3>1. PICK i \in 1 .. subs.len : \A j \in 1 .. subs.len : heap[subs.array][j] = u <=> j = i
      BY <1>3 DEF Holds
    <3>2. i # k
      BY <1>4, <3>1
    <3> QED
      BY <3>1, <3>2
  <2>5. Holds((1 .. subs.len) \ {k}, Listeners \ {moving.viewer})'
    BY <1>1, <2>1, <2>2, <2>3, <2>4 DEF Holds
  <2>6. k \in 1 .. subs'.len /\ moving'.left = k .. (subs'.len - 1)
    BY <1>1, <1>6
  <2> QED
    BY <2>1, <2>5, <2>6 DEF ListInv
<1>13. ~MuFree'
  BY <1>6, LiveTailAssumption DEF MuFree
<1> QED
  BY <1>7, <1>10, <1>11, <1>12, <1>13

\* A slot is moved down: the free slot is now the next one.
LEMMA MoveSteps ==
    ASSUME TailTypes, HeapTypes, ListInv, NEW w \in Viewer, moving.viewer = w, MoveSlot
    PROVE  TailTypes' /\ HeapTypes' /\ ListInv' /\ ~MuFree
           /\ UNCHANGED <<stored, subs, publishing, sent, dropped>>
<1>1. /\ UNCHANGED <<stored, subs, publishing, sub, buffer, page, maxIdx, sent, dropped>>
      /\ moving.left # {}
  BY DEF MoveSlot
<1>2. subs.len \in Nat /\ Len(heap) \in Nat /\ Within(subs)
      /\ \A a \in 1 .. Len(heap) : heap[a] \in Array /\ Len(heap[a]) \in Nat
  BY HeapParts DEF HeapTypes
<1>3. ~MuFree
  BY LiveTailAssumption DEF MuFree
<1>4. PICK k \in 1 .. subs.len :
          moving.left = k .. (subs.len - 1)
          /\ Holds((1 .. subs.len) \ {k}, Listeners \ {moving.viewer})
  BY <1>3 DEF ListInv
<1>5. /\ moving.viewer \in Viewer /\ sub[moving.viewer] = "cancelled" /\ moving.from = subs.array
  BY <1>3 DEF ListInv
<1> DEFINE arr == subs.array
<1>6. /\ k < subs.len /\ arr \in 1 .. Len(heap) /\ subs.len <= Len(heap[arr])
      /\ heap' \in Seq(Array) /\ Len(heap') = Len(heap)
      /\ \A a \in 1 .. Len(heap) : Len(heap'[a]) = Len(heap[a])
      /\ \A a \in 1 .. Len(heap) : a # arr => heap'[a] = heap[a]
      /\ \A i \in 1 .. Len(heap[arr]) :
            heap'[arr][i] = IF i = k THEN heap[arr][k + 1] ELSE heap[arr][i]
      /\ moving'.viewer = moving.viewer /\ moving'.from = moving.from
      /\ moving'.left = (k + 1) .. (subs.len - 1)
  BY <1>2, <1>4, <1>5, SlotMoves
<1>7. arr' = arr
  BY <1>1
<1>8. \A i \in 1 .. subs.len : heap[arr][i] \in Viewer /\ i \in 1 .. Len(heap[arr])
  <2>1. \A i \in 1 .. subs.len : heap[arr][i] \in Viewer
    BY <1>2, <1>6 DEF Within
  <2>2. Len(heap[arr]) \in Nat
    BY <1>2, <1>6
  <2> QED
    BY <1>2, <1>6, <2>1, <2>2
<1>9. k + 1 \in 1 .. subs.len
  BY <1>2, <1>6
<1>10. \A i \in 1 .. subs.len :
          heap'[arr][i] = IF i = k THEN heap[arr][k + 1] ELSE heap[arr][i]
  BY <1>6, <1>8
<1>11. TailTypes'
  <2>1. moving' \in [viewer : Slots, left : SUBSET Nat, from : Nat]
    <3>1. moving \in [viewer : Slots, left : SUBSET Nat, from : Nat]
      BY DEF TailTypes
    <3>2. moving' = [moving EXCEPT !.left = moving'.left]
      BY <3>1 DEF MoveSlot
    <3>3. moving'.left \in SUBSET Nat
      BY <1>2, <1>6
    <3> QED
      BY <3>1, <3>2, <3>3
  <2> QED
    BY <1>1, <1>6, <2>1 DEF TailTypes
<1>12. HeapTypes'
  <2>1. \A i \in 1 .. subs.len : heap'[arr][i] \in Viewer
    BY <1>8, <1>9, <1>10
  <2>2. Within(subs)'
    BY <1>1, <1>2, <1>6, <2>1 DEF Within
  <2>3. \A a \in 1 .. Len(heap) : \A i \in 1 .. Len(heap[a]) :
           heap'[a][i] = heap[a][i] \/ heap'[a][i] \in Viewer
    BY <1>6, <1>8, <1>9
  <2>4. \A q \in Publisher : Walking(q)' => /\ Walking(q)
                                            /\ publishing'[q].list = publishing[q].list
                                            /\ publishing'[q].at = publishing[q].at
    BY <1>1 DEF Walking
  <2>5. Len(heap) <= Len(heap') /\ Len(heap') \in Nat
    BY <1>2, <1>6
  <2> QED
    BY <1>6, <2>2, <2>3, <2>4, <2>5, HeapStays
<1>13. ListInv'
  <2> DEFINE U == Listeners \ {moving.viewer}
             S == (1 .. subs.len) \ {k + 1}
  <2>1. /\ \A i \in (1 .. subs.len) \ {k} : heap[arr][i] \in U
        /\ \A v \in U : \E i \in (1 .. subs.len) \ {k} :
              \A j \in (1 .. subs.len) \ {k} : heap[arr][j] = v <=> j = i
    BY <1>4 DEF Holds
  <2>2. \A i \in S : heap'[arr][i] = heap[arr][IF i = k THEN k + 1 ELSE i]
                     /\ (IF i = k THEN k + 1 ELSE i) \in (1 .. subs.len) \ {k}
    BY <1>2, <1>9, <1>10
  <2>3. Listeners' \ {moving'.viewer} = U
    BY <1>1, <1>6 DEF Listeners
  <2> HIDE DEF U
  <2>4. \A i \in S : heap'[arr][i] \in U
    BY <2>1, <2>2
  <2>5. ASSUME NEW v \in U
        PROVE  \E i \in S : \A j \in S : heap'[arr][j] = v <=> j = i
    <3>1. PICK i \in (1 .. subs.len) \ {k} :
              \A j \in (1 .. subs.len) \ {k} : heap[arr][j] = v <=> j = i
      BY <2>1
    <3>2. CASE i = k + 1
      <4>1. k \in S
        BY <1>2, <1>9
      <4>2. \A j \in S : heap'[arr][j] = v <=> j = k
        BY <2>2, <3>1, <3>2
      <4> QED
        BY <4>1, <4>2
    <3>3. CASE i # k + 1
      <4>1. i \in S
        BY <3>3
      <4>2. \A j \in S : heap'[arr][j] = v <=> j = i
        BY <2>2, <3>1, <3>3, <1>9
      <4> QED
        BY <4>1, <4>2
    <3> QED
      BY <3>2, <3>3
  <2>6. subs' = subs
    BY <1>1
  <2>7. Holds((1 .. subs.len) \ {k + 1}, Listeners \ {moving.viewer})'
    BY <2>3, <2>4, <2>5, <2>6 DEF Holds
  <2>8. k + 1 \in 1 .. subs'.len /\ moving'.left = (k + 1) .. (subs'.len - 1)
    BY <1>6, <1>9, <2>6
  <2>9. ~MuFree' /\ moving'.viewer \in Viewer /\ sub'[moving'.viewer] = "cancelled"
        /\ moving'.from = subs'.array
    BY <1>1, <1>3, <1>5, <1>6 DEF MuFree
  <2>10. \E n \in 1 .. subs'.len :
            /\ moving'.left = n .. (subs'.len - 1)
            /\ Holds((1 .. subs.len) \ {n}, Listeners \ {moving.viewer})'
    BY <2>7, <2>8
  <2> QED
    BY <2>9, <2>10 DEF ListInv
<1> QED
  BY <1>1, <1>3, <1>11, <1>12, <1>13

\* The last slot is cut off, and the viewer is listed no more.
LEMMA EndSteps ==
    ASSUME TailTypes, HeapTypes, ListInv, NEW v \in Viewer, EndRemoval(v)
    PROVE  TailTypes' /\ HeapTypes' /\ ListInv' /\ ~MuFree
           /\ UNCHANGED <<stored, heap, publishing, sent, dropped>>
<1>1. /\ UNCHANGED <<stored, heap, publishing, buffer, page, maxIdx, sent, dropped>>
      /\ moving.viewer = v /\ moving.left = {} /\ ~MuFree
      /\ subs' = [subs EXCEPT !.len = @ - 1] /\ sub' = [sub EXCEPT ![v] = "removed"]
      /\ moving' = [viewer |-> Nobody, left |-> {}, from |-> 0]
  BY LiveTailAssumption DEF EndRemoval, MuFree
<1>2. subs.len \in Nat /\ Len(heap) \in Nat /\ Within(subs) /\ subs.array \in Nat
      /\ subs = [array |-> subs.array, len |-> subs.len]
  BY HeapParts DEF HeapTypes
<1>3. PICK k \in 1 .. subs.len :
          moving.left = k .. (subs.len - 1)
          /\ Holds((1 .. subs.len) \ {k}, Listeners \ {moving.viewer})
  BY <1>1 DEF ListInv
<1>4. k = subs.len
  <2>1. k \notin k .. (subs.len - 1)
    BY <1>1, <1>3
  <2> QED
    BY <1>2, <2>1
<1>5. subs'.array = subs.array /\ subs'.len = subs.len - 1 /\ subs.len - 1 \in Nat
  BY <1>1, <1>2, <1>4
<1>6. subs' = [array |-> subs.array, len |-> subs.len - 1]
  BY <1>1, <1>2
<1>7. TailTypes'
  <2>1. subs' \in Slice
    BY <1>2, <1>5, <1>6 DEF Slice
  <2>2. moving' \in [viewer : Slots, left : SUBSET Nat, from : Nat]
    BY <1>1 DEF Slots
  <2> QED
    BY <1>1, <2>1, <2>2 DEF TailTypes, Stage
<1>8. HeapTypes'
  <2>1. Within(subs)'
    BY <1>1, <1>2, <1>4, <1>5 DEF Within
  <2>2. \A q \in Publisher : Walking(q)' => /\ Walking(q)
                                            /\ publishing'[q].list = publishing[q].list
                                            /\ publishing'[q].at = publishing[q].at
    BY <1>1 DEF Walking
  <2> QED
    BY <1>1, <1>2, <2>1, <2>2, HeapStays
<1>9. ListInv'
  <2>1. (1 .. subs.len) \ {k} = 1 .. subs'.len
    BY <1>2, <1>4, <1>5
  <2>2. Listeners' = Listeners \ {moving.viewer}
    BY <1>1 DEF Listeners, TailTypes
  <2>3. Holds(1 .. subs.len, Listeners)'
    BY <1>1, <1>3, <1>5, <2>1, <2>2 DEF Holds
  <2>4. MuFree'
    BY <1>1 DEF MuFree
  <2> QED
    BY <2>3, <2>4 DEF ListInv
<1> QED
  BY <1>1, <1>7, <1>8, <1>9

\* A publisher with whom nothing happens, and whose slots and offers stay.
LEMMA JobStays ==
    ASSUME TailTypes, HeapTypes, NEW q \in Publisher, JobInv(q),
           publishing'[q] = publishing[q], stored'[q] = stored[q],
           \A u \in Viewer, e \in Event :
               publishing[q] # Idle /\ e = publishing[q].event => Offered(u, e)' = Offered(u, e),
           Calm(q) =>
               /\ MuFree'
               /\ publishing[q].list.array = subs'.array => publishing[q].list.len <= subs'.len
               /\ \A i \in 1 .. publishing[q].list.len :
                     heap'[publishing[q].list.array][i] = heap[publishing[q].list.array][i]
    PROVE  JobInv(q)'
<1>1. publishing'[q] # Idle => publishing'[q].event = <<q, stored'[q]>>
  BY DEF JobInv
<1>2. publishing[q] # Idle => publishing[q].event \in Event
  BY JobParts
<1>3. ASSUME publishing'[q].phase = "stored", NEW v \in Viewer
      PROVE  Offered(v, publishing[q].event)' = 0
  <2>1. publishing[q] # Idle /\ publishing[q].phase = "stored"
    BY <1>3 DEF Idle
  <2>2. ASSUME NEW e \in Event, e = publishing[q].event PROVE Offered(v, e)' = 0
    BY <2>1, <2>2 DEF JobInv
  <2>3. PICK e \in Event : e = publishing[q].event
    BY <1>2, <2>1
  <2>4. Offered(v, e)' = 0
    BY <2>2, <2>3
  <2> QED
    BY <2>3, <2>4 DEF Offered
<1>4. ASSUME Calm(q)' PROVE OnceEach(q)'
  <2>1. Calm(q) /\ OnceEach(q) /\ Walking(q)
    BY <1>4 DEF Calm, Walking, JobInv
  <2> DEFINE a == publishing[q].list.array
             n == publishing[q].list.len
             at == publishing[q].at
             to == publishing[q].to
  <2>2. PICK e \in Event : e = publishing[q].event
    BY <1>2, <2>1 DEF Walking, Idle
  <2>3. /\ n \in Nat /\ at \in 1 .. n
        /\ \A i \in 1 .. n : heap[a][i] \in Viewer
    BY <2>1, SlotsOf
  <2>4. /\ a = subs'.array => n <= subs'.len
        /\ \A i \in 1 .. n : heap'[a][i] = heap[a][i]
        /\ MuFree'
    BY <2>1
  <2>5. /\ \A i, j \in 1 .. n : heap[a][i] = heap[a][j] => i = j
        /\ \A i \in 1 .. n : Offered(heap[a][i], e) = IF i < at THEN 1 ELSE 0
        /\ to \in {Nobody, heap[a][at]}
    BY <2>1, <2>2 DEF OnceEach
  <2>6. \A u \in Viewer : Offered(u, e)' = Offered(u, e)
    BY <2>1, <2>2 DEF Walking, Idle
  <2>7. /\ publishing'[q].list.array = a /\ publishing'[q].list.len = n
        /\ publishing'[q].at = at /\ publishing'[q].to = to /\ publishing'[q].event = e
    BY <2>2
  <2> HIDE DEF a, n, at, to
  <2>9. \A i \in 1 .. n :
           sent'[heap'[a][i]][e] + (IF e \in dropped'[heap'[a][i]] THEN 1 ELSE 0) =
               IF i < at THEN 1 ELSE 0
    <3> TAKE i \in 1 .. n
    <3>1. PICK u \in Viewer : u = heap[a][i] /\ u = heap'[a][i]
      BY <2>3, <2>4
    <3>2. Offered(u, e)' = IF i < at THEN 1 ELSE 0
      BY <2>5, <2>6, <3>1
    <3> QED
      BY <3>1, <3>2 DEF Offered
  <2>10. \A i, j \in 1 .. n : heap'[a][i] = heap'[a][j] => i = j
    BY <2>4, <2>5
  <2>11. to \in {Nobody, heap'[a][at]}
    BY <2>3, <2>4, <2>5
  <2> QED
    BY <2>4, <2>7, <2>9, <2>10, <2>11 DEF OnceEach, Offered
<1> QED
  BY <1>1, <1>3, <1>4 DEF JobInv, Offered

\* Steps that leave the publishers, what they offered and the list alone.
LEMMA OffersStay ==
    ASSUME OffersInv, UNCHANGED <<stored, publishing, sent, dropped, heap, subs, moving>>
    PROVE  OffersInv'
BY DEF OffersInv, Unoffered, Offered, JobInv, Calm, Walking, OnceEach, MuFree

\* A new row was offered to nobody.
LEMMA PersistOffers ==
    ASSUME TailTypes, HeapTypes, OffersInv, NEW p \in Publisher, Persist(p)
    PROVE  OffersInv'
<1>1. /\ stored[p] + 1 \in 1 .. MaxPublished
      /\ publishing'[p] = [phase |-> "stored", event |-> <<p, stored[p] + 1>>]
      /\ \A q \in Publisher \ {p} : publishing'[q] = publishing[q] /\ stored'[q] = stored[q]
      /\ stored'[p] = stored[p] + 1
  BY PersistSteps
<1>2. UNCHANGED <<heap, subs, moving, sent, dropped>>
  BY DEF Persist
<1>3. stored[p] \in Nat
  BY LiveTailAssumption DEF TailTypes
<1>4. Unoffered'
  <2> SUFFICES ASSUME NEW v \in Viewer, NEW e \in Event, e[2] > stored'[e[1]]
               PROVE  Offered(v, e)' = 0
    BY DEF Unoffered
  <2>1. e[1] \in Publisher /\ e[2] \in Nat
    BY IdxIsNat
  <2>2. stored[e[1]] \in Nat
    BY <2>1, LiveTailAssumption DEF TailTypes
  <2>3. e[2] > stored[e[1]]
    BY <1>1, <1>3, <2>1, <2>2
  <2>4. Offered(v, e) = 0
    BY <2>3 DEF OffersInv, Unoffered
  <2> QED
    BY <1>2, <2>4 DEF Offered
<1>5. JobInv(p)'
  <2> DEFINE e == <<p, stored[p] + 1>>
  <2>1. e \in Event /\ e[1] = p /\ e[2] = stored[p] + 1
    BY <1>1 DEF Event
  <2>2. \A v \in Viewer : Offered(v, e) = 0
    BY <1>3, <2>1 DEF OffersInv, Unoffered
  <2>3. publishing'[p].event = e /\ publishing'[p].phase = "stored"
    BY <1>1
  <2>4. publishing'[p].event = <<p, stored'[p]>>
    BY <1>1, <2>3
  <2>5. \A v \in Viewer : Offered(v, publishing[p].event)' = 0
    BY <1>2, <2>2, <2>3 DEF Offered
  <2>6. ~Calm(p)'
    BY <2>3 DEF Calm, Walking
  <2> QED
    BY <2>4, <2>5, <2>6 DEF JobInv
<1>6. ASSUME NEW q \in Publisher, q # p PROVE JobInv(q)'
  <2>1. JobInv(q) /\ publishing'[q] = publishing[q] /\ stored'[q] = stored[q]
    BY <1>1, <1>6 DEF OffersInv
  <2>2. \A u \in Viewer, e \in Event : Offered(u, e)' = Offered(u, e)
    BY <1>2 DEF Offered
  <2>3. Calm(q) => /\ MuFree'
                   /\ publishing[q].list.array = subs'.array => publishing[q].list.len <= subs'.len
                   /\ \A i \in 1 .. publishing[q].list.len :
                         heap'[publishing[q].list.array][i] = heap[publishing[q].list.array][i]
    BY <1>2, <2>1 DEF JobInv, OnceEach, MuFree
  <2> QED
    BY <2>1, <2>2, <2>3, JobStays
<1> QED
  BY <1>4, <1>5, <1>6 DEF OffersInv

\* Steps of a publisher that leave the list alone leave the others alone.
LEMMA OthersStay ==
    ASSUME TailTypes, HeapTypes, OffersInv, NEW p \in Publisher,
           \A q \in Publisher \ {p} : publishing'[q] = publishing[q],
           UNCHANGED <<stored, heap, subs, moving>>,
           \A u \in Viewer, e \in Event : e[1] # p => Offered(u, e)' = Offered(u, e),
           NEW q \in Publisher, q # p
    PROVE  JobInv(q)'
<1>1. JobInv(q) /\ publishing'[q] = publishing[q] /\ stored'[q] = stored[q]
  BY DEF OffersInv
<1>2. ASSUME NEW u \in Viewer, NEW e \in Event, publishing[q] # Idle, e = publishing[q].event
      PROVE  Offered(u, e)' = Offered(u, e)
  <2>1. e = <<q, stored[q]>>
    BY <1>1, <1>2 DEF JobInv
  <2>2. e[1] # p
    BY <2>1
  <2> QED
    BY <2>2
<1>3. Calm(q) => /\ MuFree'
                 /\ publishing[q].list.array = subs'.array => publishing[q].list.len <= subs'.len
                 /\ \A i \in 1 .. publishing[q].list.len :
                       heap'[publishing[q].list.array][i] = heap[publishing[q].list.array][i]
  BY <1>1 DEF JobInv, OnceEach, MuFree
<1> QED
  BY <1>1, <1>2, <1>3, JobStays

\* The walk starts at viewers each listed once, to none of whom it was offered.
LEMMA CopyOffers ==
    ASSUME TailTypes, HeapTypes, ListInv, OffersInv, NEW p \in Publisher, CopyHeader(p)
    PROVE  OffersInv'
<1>1. /\ MuFree /\ publishing[p].phase = "stored"
      /\ \/ publishing'[p] = Idle
         \/ /\ subs.len # 0
            /\ publishing'[p] = [phase |-> "walking", event |-> publishing[p].event,
                                 list |-> subs, at |-> 1, to |-> Nobody, calm |-> TRUE]
      /\ \A q \in Publisher \ {p} : publishing'[q] = publishing[q]
      /\ UNCHANGED <<stored, heap, subs, moving, sent, dropped>>
  BY CopySteps
<1>2. Unoffered'
  BY <1>1 DEF OffersInv, Unoffered, Offered
<1>3. \A u \in Viewer, e \in Event : Offered(u, e)' = Offered(u, e)
  BY <1>1 DEF Offered
<1>4. ASSUME NEW q \in Publisher, q # p PROVE JobInv(q)'
  BY <1>1, <1>3, <1>4, OthersStay
<1>5. JobInv(p)'
  <2>1. CASE publishing'[p] = Idle
    BY <2>1 DEF JobInv, Calm, Walking, Idle
  <2>2. CASE /\ subs.len # 0
             /\ publishing'[p] = [phase |-> "walking", event |-> publishing[p].event,
                                  list |-> subs, at |-> 1, to |-> Nobody, calm |-> TRUE]
    <3>1. publishing[p].event = <<p, stored[p]>> /\ publishing[p].event \in Event
          /\ \A v \in Viewer : Offered(v, publishing[p].event) = 0
      BY <1>1, JobParts DEF OffersInv, JobInv, Idle
    <3> DEFINE a == subs.array
               n == subs.len
    <3>2. n \in Nat /\ \A i \in 1 .. n : heap[a][i] \in Viewer
      BY HeapParts DEF HeapTypes, Within
    <3>3. Holds(1 .. n, Listeners)
      BY <1>1 DEF ListInv
    <3>4. \A i, j \in 1 .. n : heap[a][i] = heap[a][j] => i = j
      <4> TAKE i, j \in 1 .. n
      <4>1. PICK m \in 1 .. n : \A o \in 1 .. n : heap[a][o] = heap[a][i] <=> o = m
        BY <3>3 DEF Holds
      <4> QED
        BY <4>1
    <3>5. \A i \in 1 .. n : Offered(heap[a][i], publishing[p].event) = 0
      BY <3>1, <3>2
    <3>6. /\ publishing'[p].event = publishing[p].event /\ publishing'[p].list = subs
          /\ publishing'[p].at = 1 /\ publishing'[p].to = Nobody
          /\ publishing'[p].phase = "walking"
      BY <2>2
    <3>7. OnceEach(p)'
      <4>1. MuFree' /\ subs' = subs /\ heap' = heap
        BY <1>1 DEF MuFree
      <4>2. \A i \in 1 .. n :
               sent'[heap'[a][i]][publishing'[p].event]
               + (IF publishing'[p].event \in dropped'[heap'[a][i]] THEN 1 ELSE 0) = 0
        BY <1>1, <3>5, <3>6 DEF Offered
      <4>3. \A i \in 1 .. n : ~(i < 1)
        BY <3>2
      <4>4. publishing'[p].list.array = a /\ publishing'[p].list.len = n
            /\ subs'.array = a /\ subs'.len = n
        BY <3>6, <4>1
      <4> HIDE DEF a, n
      <4>5. \A i, j \in 1 .. n : heap'[a][i] = heap'[a][j] => i = j
        BY <3>4, <4>1
      <4>6. n <= n
        BY <3>2
      <4> QED
        BY <3>6, <4>1, <4>2, <4>3, <4>4, <4>5, <4>6 DEF OnceEach, Offered
    <3>8. publishing'[p].event = <<p, stored'[p]>>
      BY <1>1, <3>1, <3>6
    <3> QED
      BY <3>6, <3>7, <3>8 DEF JobInv
  <2> QED
    BY <1>1, <2>1, <2>2
<1> QED
  BY <1>2, <1>4, <1>5 DEF OffersInv

\* What is read is the slot at which the walk stands.
LEMMA ReadOffers ==
    ASSUME TailTypes, HeapTypes, OffersInv, NEW p \in Publisher, ReadSlot(p)
    PROVE  OffersInv'
<1> DEFINE job == publishing[p]
           x == heap[job.list.array][job.at]
<1>1. /\ Walking(p) /\ publishing'[p] = [job EXCEPT !.to = x]
      /\ \A q \in Publisher \ {p} : publishing'[q] = publishing[q]
      /\ UNCHANGED <<stored, heap, subs, moving, sent, dropped>>
  BY ReadSteps
<1>2. Unoffered'
  BY <1>1 DEF OffersInv, Unoffered, Offered
<1>3. \A u \in Viewer, e \in Event : Offered(u, e)' = Offered(u, e)
  BY <1>1 DEF Offered
<1>4. ASSUME NEW q \in Publisher, q # p PROVE JobInv(q)'
  BY <1>1, <1>3, <1>4, OthersStay
<1>5. JobInv(p) /\ job \in Job /\ job.phase = "walking"
  BY <1>1, JobParts DEF OffersInv, Walking
<1>6. job \in [phase : {"walking"}, event : Event, list : Slice, at : Nat, to : Slots,
               calm : BOOLEAN]
  <2> HIDE DEF job
  <2> QED
    BY <1>5 DEF Job, Idle
<1>7. /\ publishing'[p].event = job.event /\ publishing'[p].list = job.list
      /\ publishing'[p].at = job.at /\ publishing'[p].to = x
      /\ publishing'[p].phase = "walking"
  <2> HIDE DEF job, x
  <2> QED
    BY <1>1, <1>6
<1>8. Calm(p)' => Calm(p)
  <2>1. publishing'[p].calm = job.calm
    <3> HIDE DEF job, x
    <3> QED
      BY <1>1, <1>6, Zenon
  <2> QED
    BY <1>1, <2>1 DEF Calm
<1>9. job # Idle
  BY <1>5 DEF Idle
<1>10. publishing'[p].event = <<p, stored'[p]>>
  BY <1>1, <1>5, <1>7, <1>9 DEF JobInv
<1>11. ASSUME Calm(p)' PROVE OnceEach(p)'
  <2>1. OnceEach(p)
    BY <1>5, <1>8, <1>11 DEF JobInv
  <2>2. x \in {Nobody, heap[job.list.array][job.at]}
    OBVIOUS
  <2> HIDE DEF x
  <2> QED
    BY <1>1, <1>7, <2>1, <2>2 DEF OnceEach, Offered, MuFree
<1>12. JobInv(p)'
  BY <1>7, <1>10, <1>11 DEF JobInv
<1> QED
  BY <1>2, <1>4, <1>12 DEF OffersInv

\* A send counts once for the slot at which the walk stands, and for no other.
LEMMA PublishOffers ==
    ASSUME TailTypes, HeapTypes, OffersInv, NEW p \in Publisher, Publish(p)
    PROVE  OffersInv'
<1> DEFINE job == publishing[p]
           on == [job EXCEPT !.at = job.at + 1, !.to = Nobody]
<1>1. /\ Walking(p) /\ job.to \in Viewer
      /\ \A q \in Publisher \ {p} : publishing'[q] = publishing[q]
      /\ UNCHANGED <<stored, heap, subs, moving>>
      /\ \/ UNCHANGED <<publishing, sent, dropped>>
         \/ /\ Offer(job.to, job.event)
            /\ publishing'[p] = IF job.at = job.list.len THEN Idle ELSE on
  BY PublishSteps
<1>2. CASE UNCHANGED <<publishing, sent, dropped>>
  BY <1>1, <1>2, OffersStay
<1>3. CASE /\ Offer(job.to, job.event)
           /\ publishing'[p] = IF job.at = job.list.len THEN Idle ELSE on
  <2>1. JobInv(p) /\ job \in Job /\ job.phase = "walking" /\ job # Idle /\ job.event \in Event
    BY <1>1, JobParts DEF OffersInv, Walking, Idle
  <2>2. job.event = <<p, stored[p]>> /\ job.event[1] = p /\ job.event[2] = stored[p]
    BY <2>1 DEF JobInv
  <2>3. PICK w \in Viewer : w = job.to
    BY <1>1
  <2>4. PICK d \in Event : d = job.event
    BY <2>1
  <2>5. /\ \A u \in Viewer, e \in Event : u # w \/ e # d => Offered(u, e)' = Offered(u, e)
        /\ Offered(w, d) = 0 => Offered(w, d)' = 1
    BY <1>3, <2>3, <2>4, Offers
  <2>6. \A u \in Viewer, e \in Event : e[1] # p => Offered(u, e)' = Offered(u, e)
    BY <2>2, <2>4, <2>5
  <2>7. ASSUME NEW q \in Publisher, q # p PROVE JobInv(q)'
    BY <1>1, <2>6, <2>7, OthersStay
  <2>8. Unoffered'
    <3> SUFFICES ASSUME NEW v \in Viewer, NEW e \in Event, e[2] > stored[e[1]]
                 PROVE  Offered(v, e)' = 0
      BY <1>1 DEF Unoffered
    <3>1. stored[p] \in Nat
      BY LiveTailAssumption DEF TailTypes
    <3>2. e # d
      BY <2>2, <2>4, <3>1
    <3>3. Offered(v, e) = 0
      BY DEF OffersInv, Unoffered
    <3> QED
      BY <2>5, <3>2, <3>3
  <2>9. JobInv(p)'
    <3>1. CASE job.at = job.list.len
      <4>1. publishing'[p] = Idle
        BY <1>3, <3>1
      <4> QED
        BY <4>1 DEF JobInv, Calm, Walking, Idle
    <3>2. CASE job.at # job.list.len
      <4>1. publishing'[p] = on
        BY <1>3, <3>2
      <4>2. job \in [phase : {"walking"}, event : Event, list : Slice, at : Nat, to : Slots,
                     calm : BOOLEAN]
        <5> HIDE DEF job
        <5> QED
          BY <2>1 DEF Job, Idle
      <4>3. /\ publishing'[p].event = job.event /\ publishing'[p].list = job.list
            /\ publishing'[p].at = job.at + 1 /\ publishing'[p].to = Nobody
            /\ publishing'[p].phase = "walking"
        <5> HIDE DEF job
        <5> QED
          BY <4>1, <4>2
      <4>4. Calm(p)' => Calm(p)
        <5>1. publishing'[p].calm = job.calm
          <6> HIDE DEF job
          <6> QED
            BY <4>1, <4>2, Zenon
        <5> QED
          BY <1>1, <5>1 DEF Calm
      <4>5. publishing'[p].event = <<p, stored'[p]>>
        BY <1>1, <2>2, <4>3
      <4>6. ASSUME Calm(p)' PROVE OnceEach(p)'
        <5> DEFINE a == job.list.array
                   n == job.list.len
                   at == job.at
        <5>1. OnceEach(p)
          BY <2>1, <4>4, <4>6 DEF JobInv
        <5>2. /\ n \in Nat /\ at \in 1 .. n /\ \A i \in 1 .. n : heap[a][i] \in Viewer
          BY <1>1, SlotsOf
        <5>3. /\ MuFree /\ (a = subs.array => n <= subs.len)
              /\ \A i, j \in 1 .. n : heap[a][i] = heap[a][j] => i = j
              /\ \A i \in 1 .. n : Offered(heap[a][i], d) = IF i < at THEN 1 ELSE 0
              /\ w \in {Nobody, heap[a][at]}
          BY <2>3, <2>4, <5>1 DEF OnceEach
        <5>4. w = heap[a][at]
          BY <2>3, <5>3, LiveTailAssumption
        <5>5. publishing'[p].list.array = a /\ publishing'[p].list.len = n
              /\ publishing'[p].at = at + 1 /\ publishing'[p].event = d
          BY <2>4, <4>3
        <5> HIDE DEF a, n, at
        <5>6. \A i \in 1 .. n :
                 sent'[heap[a][i]][d] + (IF d \in dropped'[heap[a][i]] THEN 1 ELSE 0) =
                     IF i < at + 1 THEN 1 ELSE 0
          <6> TAKE i \in 1 .. n
          <6>1. PICK u \in Viewer : u = heap[a][i]
            BY <5>2
          <6>2. CASE i = at
            <7>1. Offered(w, d) = 0
              BY <5>2, <5>3, <5>4
            <7>2. Offered(w, d)' = 1 /\ u = w /\ i < at + 1
              BY <2>5, <5>2, <5>4, <6>1, <6>2, <7>1
            <7> QED
              BY <6>1, <7>2 DEF Offered
          <6>3. CASE i # at
            <7>1. u # w
              BY <5>2, <5>3, <5>4, <6>1, <6>3
            <7>2. Offered(u, d)' = Offered(u, d)
              BY <2>5, <7>1
            <7>3. Offered(u, d) = IF i < at THEN 1 ELSE 0
              BY <5>3, <6>1
            <7>4. i < at + 1 <=> i < at
              BY <5>2, <6>3
            <7> QED
              BY <6>1, <7>2, <7>3, <7>4 DEF Offered
          <6> QED
            BY <6>2, <6>3
        <5>7. MuFree' /\ heap' = heap /\ subs' = subs
          BY <1>1, <5>3 DEF MuFree
        <5> QED
          BY <4>3, <5>3, <5>5, <5>6, <5>7 DEF OnceEach, Offered
      <4> QED
        BY <4>3, <4>5, <4>6 DEF JobInv
    <3> QED
      BY <3>1, <3>2
  <2> QED
    BY <2>7, <2>8, <2>9 DEF OffersInv
<1> QED
  BY <1>1, <1>2, <1>3

\* A subscription fills a slot behind the list, where no calm walk looks.
LEMMA SubscribeOffers ==
    ASSUME TailTypes, HeapTypes, ListInv, OffersInv, NEW v \in Viewer, Subscribe(v)
    PROVE  OffersInv'
<1>1. /\ subs'.len = subs.len + 1
      /\ subs'.array = subs.array \/ subs'.array = Len(heap) + 1
      /\ \A a \in 1 .. Len(heap) : \A i \in 1 .. Len(heap[a]) :
            \/ heap'[a][i] = heap[a][i]
            \/ a = subs.array /\ i = subs.len + 1 /\ heap'[a][i] = v
  BY Appends DEF HeapTypes
<1>2. UNCHANGED <<stored, publishing, sent, dropped, moving>>
  BY DEF Subscribe
<1>3. subs.len \in Nat /\ Len(heap) \in Nat
      /\ \A a \in 1 .. Len(heap) : heap[a] \in Array /\ Len(heap[a]) \in Nat
  BY HeapParts DEF HeapTypes
<1>4. Unoffered'
  BY <1>2 DEF OffersInv, Unoffered, Offered
<1>5. ASSUME NEW q \in Publisher PROVE JobInv(q)'
  <2>1. JobInv(q) /\ publishing'[q] = publishing[q] /\ stored'[q] = stored[q]
    BY <1>2 DEF OffersInv
  <2>2. \A u \in Viewer, e \in Event : Offered(u, e)' = Offered(u, e)
    BY <1>2 DEF Offered
  <2>3. ASSUME Calm(q)
        PROVE  /\ MuFree'
               /\ publishing[q].list.array = subs'.array => publishing[q].list.len <= subs'.len
               /\ \A i \in 1 .. publishing[q].list.len :
                     heap'[publishing[q].list.array][i] = heap[publishing[q].list.array][i]
    <3> DEFINE a == publishing[q].list.array
               n == publishing[q].list.len
    <3>1. MuFree /\ (a = subs.array => n <= subs.len)
      BY <2>1, <2>3 DEF JobInv, OnceEach
    <3>2. a \in 1 .. Len(heap) /\ n \in Nat /\ n <= Len(heap[a])
      BY <2>3, SlotsOf DEF Calm
    <3> HIDE DEF a, n
    <3>3. a = subs'.array => n <= subs'.len
      BY <1>1, <1>3, <3>1, <3>2
    <3>4. Len(heap[a]) \in Nat
      BY <1>3, <3>2
    <3>5. ASSUME NEW i \in 1 .. n PROVE heap'[a][i] = heap[a][i]
      <4>1. i \in 1 .. Len(heap[a]) /\ (a = subs.array => i # subs.len + 1)
        BY <1>3, <3>1, <3>2, <3>4
      <4> QED
        BY <1>1, <3>2, <4>1
    <3>6. MuFree'
      BY <1>2, <3>1 DEF MuFree
    <3> QED
      BY <3>3, <3>5, <3>6 DEF a, n
  <2> QED
    BY <2>1, <2>2, <2>3, JobStays
<1> QED
  BY <1>4, <1>5 DEF OffersInv

\* A removal begins: no walk is calm from here to its end.
LEMMA BeginOffers ==
    ASSUME TailTypes, HeapTypes, ListInv, OffersInv, NEW v \in Viewer, BeginRemoval(v)
    PROVE  OffersInv'
<1>1. \A p \in Publisher :
         /\ publishing[p].phase # "walking" => publishing'[p] = publishing[p]
         /\ publishing[p].phase = "walking" =>
               publishing'[p] = [publishing[p] EXCEPT !.calm = FALSE]
  BY BeginSteps
<1>2. UNCHANGED <<stored, sent, dropped>>
  BY DEF BeginRemoval
<1>3. Unoffered'
  BY <1>2 DEF OffersInv, Unoffered, Offered
<1>4. ASSUME NEW q \in Publisher PROVE JobInv(q)'
  <2>1. JobInv(q) /\ publishing[q] \in Job
    BY JobParts DEF OffersInv
  <2>2. CASE publishing[q].phase # "walking"
    <3>1. publishing'[q] = publishing[q] /\ ~Calm(q)'
      BY <1>1, <2>2 DEF Calm, Walking
    <3> QED
      BY <1>2, <2>1, <3>1 DEF JobInv, Offered
  <2>3. CASE publishing[q].phase = "walking"
    <3> DEFINE job == publishing[q]
    <3>1. publishing'[q] = [job EXCEPT !.calm = FALSE] /\ job \in Job /\ job.phase = "walking"
      BY <1>1, <2>1, <2>3
    <3> HIDE DEF job
    <3>2. job \in [phase : {"walking"}, event : Event, list : Slice, at : Nat, to : Slots,
                   calm : BOOLEAN]
      BY <3>1 DEF Job, Idle
    <3>3. publishing'[q].event = job.event /\ publishing'[q].phase = "walking"
          /\ ~publishing'[q].calm
      BY <3>1, <3>2
    <3>4. job.event = <<q, stored[q]>>
      BY <2>1, <3>1 DEF JobInv, Idle, job
    <3> QED
      BY <1>2, <3>3, <3>4 DEF JobInv, Calm
  <2> QED
    BY <2>2, <2>3
<1> QED
  BY <1>3, <1>4 DEF OffersInv

\* While a slot is moved or cut off no walk is calm, and nothing is offered.
LEMMA RemovalOffers ==
    ASSUME TailTypes, HeapTypes, OffersInv, ~MuFree,
           UNCHANGED <<stored, publishing, sent, dropped>>
    PROVE  OffersInv'
<1>1. Unoffered'
  BY DEF OffersInv, Unoffered, Offered
<1>2. ASSUME NEW q \in Publisher PROVE JobInv(q)'
  <2>1. JobInv(q) /\ ~Calm(q) /\ publishing'[q] = publishing[q] /\ stored'[q] = stored[q]
    BY DEF OffersInv, JobInv, OnceEach
  <2>2. \A u \in Viewer, e \in Event : Offered(u, e)' = Offered(u, e)
    BY DEF Offered
  <2> QED
    BY <2>1, <2>2, JobStays
<1> QED
  BY <1>1, <1>2 DEF OffersInv

\* Every step of the live tail keeps its account.
LEMMA TailInvStep == TailInv /\ [TailNext]_tailVars => TailInv'
<1> SUFFICES ASSUME TailInv, [TailNext]_tailVars PROVE TailInv'
  OBVIOUS
<1>1. TailTypes /\ HeapTypes /\ ListInv /\ PagesInv /\ OffersInv
  BY DEF TailInv
<1>2. UNCHANGED <<heap, subs, moving, sub>> => ListInv'
  BY <1>1, ListStays DEF Listeners
<1>3. UNCHANGED <<page, maxIdx>> => PagesInv'
  BY <1>1 DEF PagesInv
<1>4. UNCHANGED <<heap, subs, publishing>> => HeapTypes'
  BY <1>1 DEF HeapTypes, Within, Walking
<1>5. ASSUME NEW p \in Publisher, PublisherStep(p) PROVE TailInv'
  <2>1. UNCHANGED <<page, maxIdx, sub>>
    BY <1>5 DEF PublisherStep, Persist, CopyHeader, ReadSlot, Publish
  <2>2. TailTypes' /\ HeapTypes' /\ OffersInv' /\ UNCHANGED <<heap, subs, moving>>
    <3>1. CASE Persist(p)
      <4>1. TailTypes' /\ OffersInv'
        BY <1>1, <3>1, PersistSteps, PersistOffers
      <4>2. UNCHANGED <<heap, subs, moving>>
        BY <3>1 DEF Persist
      <4>3. ~Walking(p)'
        <5>1. publishing'[p] = [phase |-> "stored", event |-> <<p, stored[p] + 1>>]
          BY <1>1, <3>1, PersistSteps
        <5> QED
          BY <5>1 DEF Walking
      <4>4. \A q \in Publisher \ {p} : publishing'[q] = publishing[q]
        BY <1>1, <3>1, PersistSteps
      <4>5. HeapTypes'
        BY <1>1, <4>2, <4>3, <4>4, StaysWithin
      <4> QED
        BY <4>1, <4>2, <4>5
    <3>2. CASE CopyHeader(p)
      BY <1>1, <3>2, CopySteps, CopyOffers
    <3>3. CASE ReadSlot(p)
      BY <1>1, <3>3, ReadSteps, ReadOffers
    <3>4. CASE Publish(p)
      BY <1>1, <3>4, PublishSteps, PublishOffers
    <3> QED
      BY <1>5, <3>1, <3>2, <3>3, <3>4 DEF PublisherStep
  <2> QED
    BY <1>2, <1>3, <2>1, <2>2 DEF TailInv
<1>6. ASSUME NEW v \in Viewer, Load(v) PROVE TailInv'
  <2>1. TailTypes' /\ PagesInv' /\ sub[v] = "none" /\ sub' = [sub EXCEPT ![v] = "loaded"]
    BY <1>1, <1>6, LoadSteps
  <2>2. UNCHANGED <<stored, heap, subs, moving, publishing, sent, dropped>>
    BY <1>6 DEF Load
  <2>3. Listeners' = Listeners /\ \A u \in Viewer : sub[u] = "cancelled" => sub'[u] = "cancelled"
    BY <1>1, <2>1 DEF Listeners, TailTypes
  <2>4. ListInv' /\ HeapTypes' /\ OffersInv'
    BY <1>1, <1>4, <2>2, <2>3, ListStays, OffersStay
  <2> QED
    BY <2>1, <2>4 DEF TailInv
<1>7. ASSUME NEW v \in Viewer, Subscribe(v) PROVE TailInv'
  <2>1. UNCHANGED <<page, maxIdx>>
    BY <1>7 DEF Subscribe
  <2> QED
    BY <1>1, <1>3, <1>7, <2>1, SubscribeSteps, SubscribeOffers DEF TailInv
<1>8. ASSUME NEW v \in Viewer, Take(v) PROVE TailInv'
  <2>1. UNCHANGED <<stored, heap, subs, moving, publishing, sub, sent, dropped>>
    BY <1>8 DEF Take
  <2>2. OffersInv'
    BY <1>1, <2>1, OffersStay
  <2> QED
    BY <1>1, <1>2, <1>4, <1>8, <2>1, <2>2, TakeSteps DEF TailInv
<1>9. ASSUME NEW v \in Viewer, Cancel(v) PROVE TailInv'
  <2>1. UNCHANGED <<stored, heap, subs, moving, publishing, sent, dropped>>
        /\ sub' = [sub EXCEPT ![v] = "cancelled"] /\ sub[v] = "open"
    BY <1>9 DEF Cancel
  <2>2. Listeners' = Listeners /\ \A u \in Viewer : sub[u] = "cancelled" => sub'[u] = "cancelled"
    BY <1>1, <2>1 DEF Listeners, TailTypes
  <2>3. ListInv' /\ HeapTypes' /\ OffersInv'
    BY <1>1, <1>4, <2>1, <2>2, ListStays, OffersStay
  <2> QED
    BY <1>1, <1>9, <2>3, CancelSteps DEF TailInv
<1>10. ASSUME NEW v \in Viewer, BeginRemoval(v) PROVE TailInv'
  <2>1. UNCHANGED <<page, maxIdx>>
    BY <1>10 DEF BeginRemoval
  <2> QED
    BY <1>1, <1>3, <1>10, <2>1, BeginSteps, BeginOffers DEF TailInv
<1>11. ASSUME NEW v \in Viewer, moving.viewer = v, MoveSlot PROVE TailInv'
  <2>1. TailTypes' /\ HeapTypes' /\ ListInv' /\ ~MuFree
        /\ UNCHANGED <<stored, subs, publishing, sent, dropped>>
    BY <1>1, <1>11, MoveSteps
  <2>2. UNCHANGED <<page, maxIdx>>
    BY <1>11 DEF MoveSlot
  <2> QED
    BY <1>1, <1>3, <2>1, <2>2, RemovalOffers DEF TailInv
<1>12. ASSUME NEW v \in Viewer, EndRemoval(v) PROVE TailInv'
  <2>1. UNCHANGED <<page, maxIdx>>
    BY <1>12 DEF EndRemoval
  <2> QED
    BY <1>1, <1>3, <1>12, <2>1, EndSteps, RemovalOffers DEF TailInv
<1>13. ASSUME NEW v \in Viewer, CloseChannel(v) PROVE TailInv'
  <2>1. UNCHANGED <<stored, heap, subs, moving, publishing, buffer, page, maxIdx, sent, dropped>>
        /\ sub[v] = "removed" /\ sub' = [sub EXCEPT ![v] = "closed"]
    BY <1>13 DEF CloseChannel
  <2>2. Listeners' = Listeners /\ \A u \in Viewer : sub[u] = "cancelled" => sub'[u] = "cancelled"
    BY <1>1, <2>1 DEF Listeners, TailTypes
  <2>3. TailTypes'
    BY <1>1, <2>1 DEF TailTypes, Stage
  <2>4. ListInv' /\ HeapTypes' /\ OffersInv' /\ PagesInv'
    BY <1>1, <1>3, <1>4, <2>1, <2>2, ListStays, OffersStay
  <2> QED
    BY <2>3, <2>4 DEF TailInv
<1>14. CASE UNCHANGED tailVars
  <2>1. UNCHANGED <<stored, heap, subs, moving, publishing, sub, buffer, page, maxIdx, sent,
                    dropped>>
    BY <1>14 DEF tailVars
  <2>2. TailTypes'
    BY <1>1, <2>1 DEF TailTypes
  <2> QED
    BY <1>1, <1>2, <1>3, <1>4, <2>1, <2>2, OffersStay DEF TailInv
<1> QED
  BY <1>5, <1>6, <1>7, <1>8, <1>9, <1>10, <1>11, <1>12, <1>13, <1>14 DEF TailNext, Removal

\* With mu free the list holds every open subscription once, through growth in
\* place, reallocation and removal, and no page shows an event twice: for any
\* number of publishers, viewers and events.
THEOREM TailHolds == TailSpec => []TailIsSound
<1>1. TailInv => TailIsSound
  <2> SUFFICES ASSUME TailInv PROVE SubscribersListed /\ PageShowsOnce
    BY DEF TailIsSound
  <2>1. PageShowsOnce
    BY DEF TailInv, PagesInv, PageShowsOnce
  <2>2. ASSUME MuFree PROVE Holds(1 .. subs.len, Listeners)
    BY <2>2 DEF TailInv, ListInv
  <2>3. SubscribersListed
    BY <2>2 DEF SubscribersListed, Holds, Listeners
  <2> QED
    BY <2>1, <2>3
<1> QED
  BY <1>1, TailStarts, TailInvStep, PTL DEF TailSpec

\* A publish during which no slot was moved has offered its event once to each
\* viewer of its copy of the list when it ends.
THEOREM CalmPublishReaches == TailSpec => CalmPublishReachesAll
<1>1. ASSUME TailInv, [TailNext]_tailVars, NEW p \in Publisher, Walking(p), publishing[p].calm,
             publishing'[p] = Idle, NEW i \in 1 .. publishing[p].list.len
      PROVE  LET v == heap[publishing[p].list.array][i]
                 e == publishing[p].event
             IN  sent'[v][e] + (IF e \in dropped'[v] THEN 1 ELSE 0) = 1
  <2>1. TailTypes /\ HeapTypes /\ ListInv /\ OffersInv /\ OnceEach(p)
    BY <1>1 DEF TailInv, OffersInv, JobInv, Calm
  <2>2. publishing'[p] # publishing[p] /\ publishing[p].phase = "walking"
    BY <1>1 DEF Walking, Idle
  <2>3. Publish(p)
    <3>1. PICK q \in Publisher : PublisherStep(q)
      <4>1. \A v \in Viewer : ~(Load(v) \/ Subscribe(v) \/ Take(v) \/ Cancel(v))
        BY <2>2 DEF Load, Subscribe, Take, Cancel
      <4>2. \A v \in Viewer : ~BeginRemoval(v)
        <5> SUFFICES ASSUME NEW v \in Viewer, BeginRemoval(v) PROVE FALSE
          OBVIOUS
        <5> DEFINE job == publishing[p]
        <5>1. publishing'[p] = [job EXCEPT !.calm = FALSE] /\ job \in Job
          BY <2>1, <2>2, BeginSteps, JobParts
        <5> HIDE DEF job
        <5>2. job.phase = "walking"
          BY <2>2 DEF job
        <5>3. job \in [phase : {"walking"}, event : Event, list : Slice, at : Nat, to : Slots,
                       calm : BOOLEAN]
          BY <5>1, <5>2 DEF Job, Idle
        <5>4. publishing'[p].phase = "walking"
          BY <5>1, <5>3
        <5> QED
          BY <1>1, <5>4 DEF Idle
      <4>3. \A v \in Viewer : ~(MoveSlot \/ EndRemoval(v) \/ CloseChannel(v))
        BY <2>2 DEF MoveSlot, EndRemoval, CloseChannel
      <4>4. TailNext
        BY <1>1, <2>2 DEF tailVars
      <4> QED
        BY <4>1, <4>2, <4>3, <4>4 DEF TailNext, Removal
    <3>2. q = p
      <4>1. CASE Persist(q)
        BY <2>1, <2>2, <4>1, PersistSteps
      <4>2. CASE CopyHeader(q)
        BY <2>1, <2>2, <4>2, CopySteps
      <4>3. CASE ReadSlot(q)
        BY <2>1, <2>2, <4>3, ReadSteps
      <4>4. CASE Publish(q)
        BY <2>1, <2>2, <4>4, PublishSteps
      <4> QED
        BY <3>1, <4>1, <4>2, <4>3, <4>4 DEF PublisherStep
    <3>3. ~Persist(p) /\ ~CopyHeader(p)
      BY <2>2 DEF Persist, CopyHeader, Idle
    <3>4. ~ReadSlot(p)
      <4> SUFFICES ASSUME ReadSlot(p) PROVE FALSE
        OBVIOUS
      <4> DEFINE job == publishing[p]
                 x == heap[job.list.array][job.at]
      <4>1. publishing'[p] = [job EXCEPT !.to = x] /\ job \in Job
        BY <2>1, ReadSteps, JobParts
      <4> HIDE DEF job, x
      <4>2. job.phase = "walking"
        BY <2>2 DEF job
      <4>3. job \in [phase : {"walking"}, event : Event, list : Slice, at : Nat, to : Slots,
                     calm : BOOLEAN]
        BY <4>1, <4>2 DEF Job, Idle
      <4>4. publishing'[p].phase = "walking"
        BY <4>1, <4>3
      <4> QED
        BY <1>1, <4>4 DEF Idle
    <3> QED
      BY <3>1, <3>2, <3>3, <3>4 DEF PublisherStep
  <2> DEFINE job == publishing[p]
             on == [job EXCEPT !.at = job.at + 1, !.to = Nobody]
             a == job.list.array
             n == job.list.len
             at == job.at
  <2>4. /\ job.to \in Viewer
        /\ \/ UNCHANGED <<publishing, sent, dropped>>
           \/ /\ Offer(job.to, job.event)
              /\ publishing'[p] = IF job.at = job.list.len THEN Idle ELSE on
    BY <2>1, <2>3, PublishSteps
  <2>5. Offer(job.to, job.event) /\ publishing'[p] = IF job.at = job.list.len THEN Idle ELSE on
    BY <2>2, <2>4
  <2>6. job.event \in Event /\ job \in Job
    BY <2>1, <2>2, JobParts DEF Idle
  <2>7. job.at = job.list.len
    <3> SUFFICES ASSUME job.at # job.list.len PROVE FALSE
      OBVIOUS
    <3>1. publishing'[p] = on
      BY <2>5
    <3>2. job.phase = "walking"
      BY <2>2
    <3> HIDE DEF job
    <3>3. job \in [phase : {"walking"}, event : Event, list : Slice, at : Nat, to : Slots,
                   calm : BOOLEAN]
      BY <2>6, <3>2 DEF Job, Idle
    <3>4. on.phase = "walking"
      BY <3>3
    <3> HIDE DEF on
    <3>5. publishing'[p].phase = "walking"
      BY <3>1, <3>4
    <3>6. publishing'[p] = Idle
      BY <1>1
    <3> QED
      BY <3>5, <3>6 DEF Idle
  <2>8. PICK w \in Viewer : w = job.to
    BY <2>4
  <2>9. PICK d \in Event : d = job.event
    BY <2>6
  <2>10. /\ \A u \in Viewer, e \in Event : u # w \/ e # d => Offered(u, e)' = Offered(u, e)
         /\ Offered(w, d) = 0 => Offered(w, d)' = 1
    BY <2>1, <2>5, <2>8, <2>9, Offers
  <2>11. n \in Nat /\ at \in 1 .. n /\ \A j \in 1 .. n : heap[a][j] \in Viewer
    BY <1>1, <2>1, SlotsOf
  <2>12. /\ \A j, k \in 1 .. n : heap[a][j] = heap[a][k] => j = k
         /\ \A j \in 1 .. n : Offered(heap[a][j], d) = IF j < at THEN 1 ELSE 0
         /\ w \in {Nobody, heap[a][at]}
    BY <2>1, <2>8, <2>9 DEF OnceEach
  <2>13. w = heap[a][at] /\ i \in 1 .. n /\ at = n
    BY <1>1, <2>7, <2>8, <2>12, LiveTailAssumption
  <2>14. PICK u \in Viewer : u = heap[a][i]
    BY <2>11, <2>13
  <2> HIDE DEF a, n, at
  <2>15. Offered(u, d)' = 1
    <3>1. CASE i = at
      BY <2>10, <2>11, <2>12, <2>13, <2>14, <3>1
    <3>2. CASE i # at
      <4>1. u # w /\ i < at
        BY <2>11, <2>12, <2>13, <2>14, <3>2
      <4>2. Offered(u, d) = 1
        BY <2>12, <2>13, <2>14, <4>1
      <4> QED
        BY <2>10, <4>1, <4>2
    <3> QED
      BY <3>1, <3>2
  <2> QED
    BY <2>9, <2>14, <2>15 DEF Offered, a
<1>2. TailInv /\ [TailNext]_tailVars =>
        \A p \in Publisher :
           (Walking(p) /\ publishing[p].calm /\ publishing'[p] = Idle) =>
              \A i \in 1 .. publishing[p].list.len :
                  LET v == heap[publishing[p].list.array][i]
                      e == publishing[p].event
                  IN  sent'[v][e] + (IF e \in dropped'[v] THEN 1 ELSE 0) = 1
  BY <1>1
<1> QED
  BY <1>2, TailStarts, TailInvStep, PTL DEF TailSpec, CalmPublishReachesAll

----------------------------------------------------------------------------
(* The cgroup's watchers *)

WatchRecord ==
    [at : {"none", "add", "poll", "read", "reread", "closed", "refused"},
     cancelled : BOOLEAN, modified : BOOLEAN, woken : BOOLEAN]

\* Only the helper goroutine of a cancelled watch closes its pipe, and who gave
\* up has closed its channel.
WatchersInv ==
    /\ watch \in [Watch -> WatchRecord]
    /\ \A w \in Watch : watch[w].woken => watch[w].cancelled
    /\ \A w \in Watch : w \in broken => watch[w].at = "closed"

\* Where a watch goes when one of them moves.
LEMMA MovesWatch ==
    ASSUME WatchersInv, NEW w \in Watch, NEW to \in {"add", "poll", "read", "closed", "refused"},
           watch' = [watch EXCEPT ![w].at = to], watch[w].at # "closed",
           broken' \subseteq IF to = "closed" THEN broken \cup {w} ELSE broken
    PROVE  /\ WatchersInv'
           /\ \A v \in Watch : watch'[v].at = IF v = w THEN to ELSE watch[v].at
<1>1. watch' = [watch EXCEPT ![w] = [watch[w] EXCEPT !.at = to]]  OBVIOUS
<1>2. watch' \in [Watch -> WatchRecord]
  <2>1. [watch[w] EXCEPT !.at = to] \in WatchRecord  BY Zenon DEF WatchersInv, WatchRecord
  <2>2. QED  BY <1>1, <2>1, Zenon DEF WatchersInv
<1>3. \A v \in Watch :
         /\ watch'[v].at = IF v = w THEN to ELSE watch[v].at
         /\ watch'[v].woken = watch[v].woken /\ watch'[v].cancelled = watch[v].cancelled
  BY <1>1 DEF WatchersInv, WatchRecord
<1>4. QED  BY <1>2, <1>3 DEF WatchersInv

\* A watch is closed by its own goroutine, and by nothing else.
ClosesRightly ==
    \A w \in Watch :
        /\ Closed(w) => Closed(w)'
        /\ (~Closed(w) /\ Closed(w)') => \/ ~Populated \/ scope # "there" \/ watch[w].cancelled
                                         \/ w \in broken' \ broken

\* Every step keeps what is known of the pipes, and closes a watch for cause.
LEMMA WatchStep == WatchersInv /\ [ScopeNext]_scopeVars => WatchersInv' /\ ClosesRightly
<1> SUFFICES ASSUME WatchersInv, [ScopeNext]_scopeVars PROVE WatchersInv' /\ ClosesRightly
  OBVIOUS
<1>1. CASE watch' = watch /\ broken' = broken  BY <1>1 DEF WatchersInv, ClosesRightly, Closed
<1>2. ASSUME NEW w \in Watch, NEW to \in {"add", "poll", "read", "closed", "refused"},
             Moves(w, to), watch[w].at # "closed",
             to = "closed" => ~Populated \/ scope # "there" \/ watch[w].cancelled
      PROVE  WatchersInv' /\ ClosesRightly
  <2>1. watch' = [watch EXCEPT ![w].at = to] /\ broken' = broken  BY <1>2 DEF Moves, faultVars
  <2>2. broken' \subseteq IF to = "closed" THEN broken \cup {w} ELSE broken  BY <2>1
  <2>3. WatchersInv' /\ \A v \in Watch : watch'[v].at = IF v = w THEN to ELSE watch[v].at
    BY <1>2, <2>1, <2>2, MovesWatch
  <2>4. QED  BY <1>2, <2>3 DEF ClosesRightly, Closed
<1>3. ASSUME NEW w \in Watch, NEW new \in WatchRecord, watch' = [watch EXCEPT ![w] = new],
             broken' = broken, new.at # "closed", watch[w].at # "closed", new.woken => new.cancelled
      PROVE  WatchersInv' /\ ClosesRightly
  <2>1. watch' \in [Watch -> WatchRecord]
        /\ \A v \in Watch : watch'[v] = IF v = w THEN new ELSE watch[v]
    BY <1>3 DEF WatchersInv
  <2>2. WatchersInv'  BY <1>3, <2>1 DEF WatchersInv
  <2>3. QED  BY <1>3, <2>1, <2>2 DEF ClosesRightly, Closed
<1>4. CASE KernelTells
  <2>1. /\ watch' \in [Watch -> WatchRecord]
        /\ \A w \in Watch : /\ watch'[w].at = watch[w].at
                            /\ watch'[w].woken = watch[w].woken
                            /\ watch'[w].cancelled = watch[w].cancelled
    <3>1. watch' = [w \in Watch |->
                      IF Added(w) THEN [watch[w] EXCEPT !.modified = TRUE] ELSE watch[w]]
      BY <1>4 DEF KernelTells
    <3>2. ASSUME NEW w \in Watch
          PROVE  /\ [watch[w] EXCEPT !.modified = TRUE] \in WatchRecord
                 /\ watch'[w].at = watch[w].at
                 /\ watch'[w].woken = watch[w].woken /\ watch'[w].cancelled = watch[w].cancelled
      BY <3>1 DEF WatchersInv, WatchRecord
    <3>3. QED  BY <3>1, <3>2 DEF WatchersInv
  <2>2. broken' = broken  BY <1>4 DEF KernelTells, faultVars
  <2>3. QED  BY <2>1, <2>2 DEF WatchersInv, ClosesRightly, Closed
<1>5. ASSUME NEW w \in Watch, ReadInitial(w) \/ AddWatch(w) \/ PollReturns(w) \/ LookAgain(w)
      PROVE  WatchersInv' /\ ClosesRightly
  <2>1. watch[w].woken => watch[w].cancelled  BY DEF WatchersInv
  <2>2. CASE ReadInitial(w)  BY <1>2, <2>2 DEF ReadInitial
  <2>3. CASE AddWatch(w)  BY <1>2, <2>3 DEF AddWatch
  <2>4. CASE PollReturns(w)  BY <1>2, <2>1, <2>4 DEF PollReturns
  <2>5. CASE LookAgain(w)  BY <1>2, <2>5 DEF LookAgain
  <2>6. QED  BY <1>5, <2>2, <2>3, <2>4, <2>5
<1>6. ASSUME NEW w \in Watch, ReadEvents(w) \/ Wake(w) \/ CancelWatch(w)
      PROVE  WatchersInv' /\ ClosesRightly
  <2>1. watch[w] \in WatchRecord /\ (watch[w].woken => watch[w].cancelled)  BY DEF WatchersInv
  <2>2. /\ [watch[w] EXCEPT !.at = "reread", !.modified = FALSE] \in WatchRecord
        /\ [watch[w] EXCEPT !.woken = TRUE] \in WatchRecord
        /\ [watch[w] EXCEPT !.cancelled = TRUE] \in WatchRecord
    BY <2>1 DEF WatchRecord
  <2>3. CASE ReadEvents(w)
    <3>1. watch' = [watch EXCEPT ![w] = [watch[w] EXCEPT !.at = "reread", !.modified = FALSE]]
      BY <2>3 DEF ReadEvents, WatchersInv
    <3>2. QED  BY <1>3, <2>1, <2>2, <2>3, <3>1 DEF ReadEvents, WatchRecord
  <2>4. CASE Wake(w) /\ watch[w].at # "closed"
    <3>1. watch' = [watch EXCEPT ![w] = [watch[w] EXCEPT !.woken = TRUE]]
      BY <2>4 DEF Wake
    <3>2. QED  BY <1>3, <2>1, <2>2, <2>4, <3>1 DEF Wake, faultVars, WatchRecord
  <2>5. CASE CancelWatch(w)
    <3>1. watch' = [watch EXCEPT ![w] = [watch[w] EXCEPT !.cancelled = TRUE]]
      BY <2>5 DEF CancelWatch
    <3>2. QED  BY <1>3, <2>1, <2>2, <2>5, <3>1 DEF CancelWatch, faultVars, Added, WatchRecord
  <2>6. CASE Wake(w) /\ watch[w].at = "closed"
    <3>1. /\ watch' \in [Watch -> WatchRecord]
          /\ \A v \in Watch : /\ watch'[v].at = watch[v].at /\ watch'[v].cancelled = watch[v].cancelled
                              /\ watch'[v].woken = IF v = w THEN TRUE ELSE watch[v].woken
      <4>1. watch' = [watch EXCEPT ![w].woken = TRUE]  BY <2>6 DEF Wake
      <4>2. watch' = [watch EXCEPT ![w] = [watch[w] EXCEPT !.woken = TRUE]]  BY <4>1
      <4>3. QED  BY <2>2, <4>2 DEF WatchersInv, WatchRecord
    <3>2. broken' = broken  BY <2>6 DEF Wake, faultVars
    <3>3. QED  BY <2>6, <3>1, <3>2 DEF Wake, WatchersInv, ClosesRightly, Closed
  <2>7. QED  BY <1>6, <2>3, <2>4, <2>5, <2>6
<1>7. CASE \/ \E p, q \in Proc : Fork(p, q)
           \/ \E p \in Proc : ProcExits(p)
           \/ CreateScope \/ StartChild \/ AddProcess \/ DestroyScope
  BY <1>1, <1>7
     DEF Fork, ProcExits, CreateScope, StartChild, AddProcess, DestroyScope, faultVars
<1>8. CASE UNCHANGED scopeVars  BY <1>1, <1>8 DEF scopeVars, faultVars
<1>9. ASSUME NEW w \in Watch, WatcherFaults(w)  PROVE WatchersInv' /\ ClosesRightly
  <2>1. ASSUME NEW to \in {"poll", "refused"}, CallFails(w, to), broken' = broken,
               watch[w].at # "closed"
        PROVE  WatchersInv' /\ ClosesRightly
    <3>1. watch' = [watch EXCEPT ![w].at = to]  BY <2>1 DEF CallFails
    <3>2. broken' \subseteq IF to = "closed" THEN broken \cup {w} ELSE broken  BY <2>1
    <3>3. WatchersInv' /\ \A v \in Watch : watch'[v].at = IF v = w THEN to ELSE watch[v].at
      <4>1. to \in {"add", "poll", "read", "closed", "refused"}  OBVIOUS
      <4>2. QED  BY <2>1, <3>1, <3>2, <4>1, MovesWatch
    <3>4. QED  BY <2>1, <3>3 DEF ClosesRightly, Closed
  <2>2. ASSUME GivesUp(w), watch[w].at # "closed"  PROVE WatchersInv' /\ ClosesRightly
    <3>1. watch' = [watch EXCEPT ![w].at = "closed"] /\ broken' = broken \cup {w}
      BY <2>2 DEF GivesUp, CallFails
    <3>2. w \notin broken  BY <2>2 DEF WatchersInv
    <3>3. broken' \subseteq IF "closed" = "closed" THEN broken \cup {w} ELSE broken  BY <3>1
    <3>4. WatchersInv' /\ \A v \in Watch : watch'[v].at = IF v = w THEN "closed" ELSE watch[v].at
      BY <2>2, <3>1, <3>3, MovesWatch
    <3>5. QED  BY <2>2, <3>1, <3>2, <3>4 DEF ClosesRightly, Closed
  <2>3. CASE SetupFails(w)  BY <2>1, <2>3 DEF SetupFails
  <2>4. CASE PollFails(w) \/ ReadFails(w) \/ RereadFails(w)
    BY <2>2, <2>4 DEF PollFails, ReadFails, RereadFails
  <2>5. CASE ReadInterrupted(w)  BY <2>1, <2>5 DEF ReadInterrupted
  <2>6. CASE Misreads(w)  BY <2>1, <2>6 DEF Misreads
  <2>7. QED  BY <1>9, <2>3, <2>4, <2>5, <2>6 DEF WatcherFaults
<1>10. QED  BY <1>4, <1>5, <1>6, <1>7, <1>8, <1>9 DEF ScopeNext, WatcherSteps

\* watchCgroupEmpty closes its channel when it saw the scope empty or gone,
\* because its caller gave up, or because a call of its own failed at that very
\* step, and for nothing else; a closed channel stays so: for any number of
\* processes, watches, changes and failing calls.
THEOREM ClosesForCause == ScopeSpec => ClosedForCause
<1>1. ScopeInit => WatchersInv  BY DEF ScopeInit, NoWatch, WatchersInv, WatchRecord
<1>2. WatchersInv /\ [ScopeNext]_scopeVars => WatchersInv'  BY WatchStep
<1>3. WatchersInv /\ [ScopeNext]_scopeVars =>
        [\A w \in Watch :
            /\ Closed(w) => Closed(w)'
            /\ (~Closed(w) /\ Closed(w)')
                  => \/ ~Populated \/ scope # "there" \/ watch[w].cancelled
                     \/ w \in broken' \ broken]_scopeVars
  BY WatchStep DEF ClosesRightly
<1>4. QED  BY <1>1, <1>2, <1>3, PTL DEF ScopeSpec, ClosedForCause

----------------------------------------------------------------------------
(* The alert rules *)

RuleAlert ==
    [rule : {"new_domain", "sensitive_read", "burst"}, session : Session, host : Host,
     idx : Nat, at : Nat]

Escalation ==
    [rule : {"escalation"}, session : Session, read : Nat, domain : Nat, idx : Nat, at : Nat]

Entry  == [idx : Nat, at : Nat]
Stamp  == [n : Nat, at : Nat]
Firing == [rule : {"new_domain", "sensitive_read", "burst"}, session : Session, host : Host]
Pair   == [session : Session, read : Nat, domain : Nat]

Observation == [kind : Kind, session : Session, at : Nat]

AlertTypes ==
    /\ clock \in Nat
    /\ times \in [Session -> [Class -> SUBSET Stamp]]
    /\ burstArmed \in [Session -> [Class -> BOOLEAN]]
    /\ reads \in [Session -> SUBSET Entry] /\ domains \in [Session -> SUBSET Entry]
    /\ correlated \in [Session -> SUBSET (Nat \X Nat)]
    /\ alertIdx \in [Session -> Nat]
    /\ todo \in Seq(Firing) /\ pairs \subseteq Pair
    /\ alerts \in Seq(RuleAlert \cup Escalation)
    /\ observed \in Seq(Observation)
    /\ refused \subseteq Session

\* Alerts are stamped by the clock, and the indices of a session go up.
AlertsOrdered ==
    \A i \in DOMAIN alerts :
        /\ alerts[i].at <= clock /\ alerts[i].idx < alertIdx[alerts[i].session]
        /\ \A j \in DOMAIN alerts :
              i < j /\ alerts[i].session = alerts[j].session => alerts[i].idx < alerts[j].idx

EntryOf(i) == [idx |-> alerts[i].idx, at |-> alerts[i].at]

\* A side's list has alerts of its rule, and all that are still in the window.
Lists(L, rule) ==
    \A s \in Session :
        /\ \A e \in L[s] : \E i \in Of(s, rule) : e = EntryOf(i)
        /\ \A i \in Of(s, rule) : alerts[i].at + TrifectaWindow >= clock => EntryOf(i) \in L[s]

Near(r, d) ==
    alerts[r].at <= alerts[d].at + TrifectaWindow /\ alerts[d].at <= alerts[r].at + TrifectaWindow

PairOf(s, r, d) == [session |-> s, read |-> alerts[r].idx, domain |-> alerts[d].idx]

\* What the escalation x stands for.
Halves(s, x) == [session |-> s, read |-> alerts[x].read, domain |-> alerts[x].domain]

\* A pair that was escalated, or waits to be, is one of alerts near each other.
PairsHonest ==
    /\ \A p \in pairs :
          \E r \in Of(p.session, "sensitive_read"), d \in Of(p.session, "new_domain") :
              Near(r, d) /\ p = PairOf(p.session, r, d)
    /\ \A s \in Session : \A x \in Of(s, "escalation") :
          \E r \in Of(s, "sensitive_read"), d \in Of(s, "new_domain") :
              r < x /\ d < x /\ Near(r, d) /\ Halves(s, x) = PairOf(s, r, d)
    /\ \A p, q \in pairs : p.session = q.session

\* Unless the sink refused an alert, no pair is missed; none is escalated twice.
PairsComplete ==
    \A s \in Session :
        /\ \A x \in Of(s, "escalation") :
              /\ <<alerts[x].read, alerts[x].domain>> \in correlated[s]
              /\ \A y \in Of(s, "escalation") : Halves(s, x) = Halves(s, y) => x = y
        /\ s \notin refused =>
              /\ \A m \in correlated[s] :
                    \E x \in Of(s, "escalation") : m = <<alerts[x].read, alerts[x].domain>>
              /\ \A r \in Of(s, "sensitive_read"), d \in Of(s, "new_domain") : Near(r, d) =>
                    \/ PairOf(s, r, d) \in pairs
                    \/ \E x \in Of(s, "escalation") : Halves(s, x) = PairOf(s, r, d)

PairsInv ==
    /\ AlertsOrdered /\ Lists(reads, "sensitive_read") /\ Lists(domains, "new_domain")
    /\ PairsHonest /\ PairsComplete

\* The observed events that a burst of class c of session s is made of.
Own(s, c) == {i \in DOMAIN observed : observed[i].session = s /\ c \in BurstClassOf(observed[i].kind)}

StampOf(i) == [n |-> i, at |-> observed[i].at]

Over(i, s, c) == Rate(i, s, c) >= BurstThreshold

\* The window has events of its class, all that are still in it, and is armed
\* when the last of them found it under the threshold.
WindowsOK ==
    /\ \A i \in DOMAIN observed : observed[i].at <= clock
    /\ \A s \in Session, c \in Class :
          /\ \A e \in times[s][c] : \E i \in Own(s, c) : e = StampOf(i)
          /\ \A i \in Own(s, c) : observed[i].at + BurstWindow > clock => StampOf(i) \in times[s][c]
          /\ burstArmed[s][c] <=>
                \A i \in Own(s, c) : (\A k \in Own(s, c) : k <= i) => ~Over(i, s, c)

IsBurst(i, s) == todo[i].rule = "burst" /\ todo[i].session = s

Pending(s) == IF \E i \in DOMAIN todo : IsBurst(i, s) THEN 1 ELSE 0

\* A rise to the threshold is alerted, or the alert waits to be sunk.
BurstsCounted ==
    /\ \A i, j \in DOMAIN todo : todo[i].rule = "burst" /\ todo[j].rule = "burst" => i = j
    /\ \A i, j \in DOMAIN todo : todo[i].session = todo[j].session
    /\ \A p \in pairs, i \in DOMAIN todo : p.session = todo[i].session
    /\ \A s \in Session \ refused :
          Cardinality(Of(s, "burst")) + Pending(s)
            = Cardinality(Edges(s, "flow_dns")) + Cardinality(Edges(s, "fs.write_open"))

BurstsInv == WindowsOK /\ BurstsCounted

\* What is known of the sequence after an alert is appended to it.
LEMMA AlertAppended ==
    ASSUME AlertTypes, NEW a \in RuleAlert \cup Escalation, alerts' = Append(alerts, a)
    PROVE  /\ alerts' \in Seq(RuleAlert \cup Escalation)
           /\ Len(alerts) \in Nat /\ DOMAIN alerts = 1 .. Len(alerts)
           /\ DOMAIN alerts' = 1 .. Len(alerts) + 1
           /\ alerts'[Len(alerts) + 1] = a /\ \A i \in DOMAIN alerts : alerts'[i] = alerts[i]
           /\ \A s, rule : Of(s, rule)' = IF a.session = s /\ a.rule = rule
                                           THEN Of(s, rule) \cup {Len(alerts) + 1} ELSE Of(s, rule)
<1> DEFINE n == Len(alerts)
<1>1. alerts \in Seq(RuleAlert \cup Escalation)  BY DEF AlertTypes
<1>2. /\ alerts' \in Seq(RuleAlert \cup Escalation)
      /\ n \in Nat /\ DOMAIN alerts = 1 .. n /\ DOMAIN alerts' = 1 .. n + 1
      /\ alerts'[n + 1] = a /\ \A i \in DOMAIN alerts : alerts'[i] = alerts[i]
  BY <1>1
<1> HIDE DEF n
<1>3. \A s, rule : Of(s, rule)' = IF a.session = s /\ a.rule = rule
                                   THEN Of(s, rule) \cup {n + 1} ELSE Of(s, rule)
  <2> SUFFICES ASSUME NEW s, NEW rule
               PROVE  Of(s, rule)' = IF a.session = s /\ a.rule = rule
                                     THEN Of(s, rule) \cup {n + 1} ELSE Of(s, rule)
    OBVIOUS
  <2>1. ASSUME NEW i PROVE i \in Of(s, rule)' <=> \/ i \in Of(s, rule)
                                                  \/ i = n + 1 /\ a.session = s /\ a.rule = rule
    BY <1>2 DEF Of
  <2> HIDE DEF Of
  <2>2. QED  BY <2>1
<1>4. QED  BY <1>2, <1>3 DEF n

\* An alert among those of a rule is an alert.
LEMMA OfAlerts ==
    ASSUME AlertTypes, NEW s, NEW rule
    PROVE  /\ Of(s, rule) \subseteq DOMAIN alerts /\ DOMAIN alerts \subseteq Nat
           /\ \A i \in Of(s, rule) : /\ alerts[i].rule = rule /\ alerts[i].session = s
                                     /\ alerts[i] \in RuleAlert \cup Escalation
                                     /\ alerts[i].idx \in Nat /\ alerts[i].at \in Nat
                                     /\ EntryOf(i) \in Entry
<1>1. alerts \in Seq(RuleAlert \cup Escalation)  BY DEF AlertTypes
<1>2. \A i \in DOMAIN alerts : i \in Nat /\ alerts[i] \in RuleAlert \cup Escalation  BY <1>1
<1>3. \A a \in RuleAlert \cup Escalation : a.idx \in Nat /\ a.at \in Nat
  BY DEF RuleAlert, Escalation
<1>4. \A i \in Of(s, rule) : i \in DOMAIN alerts /\ alerts[i].rule = rule /\ alerts[i].session = s
  BY DEF Of
<1>5. QED  BY <1>2, <1>3, <1>4 DEF EntryOf, Entry

\* The firings of an event: of its session, and of a burst the last at most.
LEMMA FiringsShape ==
    ASSUME NEW ev \in [kind : Kind, session : Session, host : Host]
    PROVE  /\ Firings(ev) \in Seq(Firing)
           /\ \A i \in DOMAIN Firings(ev) :
                 /\ Firings(ev)[i].session = ev.session
                 /\ Firings(ev)[i].rule = "burst" <=> Bursts(ev) /\ i = Len(Firings(ev))
           /\ Bursts(ev) => Len(Firings(ev)) # 0
<1> DEFINE x == IF NewDomain(ev) THEN <<Alert("new_domain", ev)>> ELSE <<>>
           y == IF ev.kind = "fs.sensitive_read" THEN <<Alert("sensitive_read", ev)>> ELSE <<>>
           z == IF Bursts(ev) THEN <<Alert("burst", ev)>> ELSE <<>>
<1>1. \A rule \in {"new_domain", "sensitive_read", "burst"} :
         /\ Alert(rule, ev) \in Firing
         /\ Alert(rule, ev).session = ev.session /\ Alert(rule, ev).rule = rule
  BY DEF Alert, Firing
<1>2. /\ x \in Seq(Firing) /\ \A i \in DOMAIN x : x[i].session = ev.session /\ x[i].rule # "burst"
      /\ y \in Seq(Firing) /\ \A i \in DOMAIN y : y[i].session = ev.session /\ y[i].rule # "burst"
      /\ z \in Seq(Firing) /\ \A i \in DOMAIN z : z[i].session = ev.session /\ z[i].rule = "burst"
      /\ (Bursts(ev) => Len(z) = 1) /\ (~Bursts(ev) => Len(z) = 0)
      /\ Len(z) \in 0 .. 1
  BY <1>1
<1> HIDE DEF x, y, z
<1>3. Firings(ev) = (x \o y) \o z  BY DEF Firings, x, y, z
<1>4. /\ x \o y \in Seq(Firing)
      /\ \A i \in DOMAIN (x \o y) : (x \o y)[i].session = ev.session /\ (x \o y)[i].rule # "burst"
  BY <1>2
<1> DEFINE w == x \o y
<1> HIDE DEF w
<1>5. /\ w \in Seq(Firing) /\ Firings(ev) = w \o z
      /\ \A i \in DOMAIN w : w[i].session = ev.session /\ w[i].rule # "burst"
  BY <1>3, <1>4 DEF w
<1>6. /\ w \o z \in Seq(Firing)
      /\ Len(w \o z) = Len(w) + Len(z) /\ Len(w) \in Nat
      /\ \A i \in 1 .. Len(w) : (w \o z)[i] = w[i]
      /\ \A i \in 1 .. Len(z) : (w \o z)[Len(w) + i] = z[i]
      /\ DOMAIN w = 1 .. Len(w) /\ DOMAIN z = 1 .. Len(z) /\ DOMAIN (w \o z) = 1 .. Len(w \o z)
  <2>1. w \in Seq(Firing) /\ z \in Seq(Firing)  BY <1>2, <1>5
  <2>2. QED  BY <2>1, ConcatProperties
<1> DEFINE q == w \o z
<1> HIDE DEF q
<1>a. /\ Len(q) = Len(w) + Len(z) /\ DOMAIN q = 1 .. Len(q)
      /\ Len(w) \in Nat /\ Len(z) \in 0 .. 1
  BY <1>2, <1>6 DEF q
<1>b. (Bursts(ev) => Len(z) = 1) /\ (~Bursts(ev) => Len(z) = 0)  BY <1>2
<1>7. ASSUME NEW i \in DOMAIN q
      PROVE  q[i].session = ev.session /\ (q[i].rule = "burst" <=> Bursts(ev) /\ i = Len(q))
  <2>1. CASE i \in 1 .. Len(w)
    <3>1. q[i] = w[i] /\ i \in DOMAIN w  BY <1>6, <2>1 DEF q
    <3>2. Bursts(ev) => i # Len(q)  BY <1>a, <1>b, <2>1
    <3>3. QED  BY <1>5, <3>1, <3>2
  <2>2. CASE i \notin 1 .. Len(w)
    <3> DEFINE lw == Len(w)
               lz == Len(z)
               lq == Len(q)
    <3>0. lq = lw + lz /\ lw \in Nat /\ lz \in 0 .. 1 /\ i \in 1 .. lq /\ i \notin 1 .. lw
      BY <1>a, <1>7, <2>2
    <3> HIDE DEF lw, lz, lq
    <3>1. lz = 1 /\ i = lw + 1 /\ i = lq  BY <3>0
    <3> USE DEF lw, lz, lq
    <3>2. q[i] = z[1] /\ 1 \in DOMAIN z  BY <1>6, <3>1 DEF q
    <3>3. Bursts(ev)  BY <1>2, <3>1
    <3>4. q[i].session = ev.session /\ q[i].rule = "burst"  BY <1>2, <3>2
    <3>5. QED  BY <3>1, <3>3, <3>4
  <2>3. QED  BY <2>1, <2>2
<1>8. Bursts(ev) => Len(q) # 0  BY <1>2, <1>6 DEF q
<1>9. QED  BY <1>5, <1>6, <1>7, <1>8 DEF q

\* There are finitely many alerts.
LEMMA OfFinite == ASSUME AlertTypes, NEW s, NEW rule PROVE IsFiniteSet(Of(s, rule))
<1>1. alerts \in Seq(RuleAlert \cup Escalation)  BY DEF AlertTypes
<1>2. DOMAIN alerts = 1 .. Len(alerts) /\ Len(alerts) \in Nat  BY <1>1
<1>3. IsFiniteSet(DOMAIN alerts)  BY <1>2, FS_Interval
<1>4. Of(s, rule) \subseteq DOMAIN alerts  BY DEF Of
<1>5. QED  BY <1>3, <1>4, FS_Subset

\* What an alert that is sunk looks like.
LEMMA SunkAlert ==
    ASSUME AlertTypes, SinkAlert,
           NEW new, new = [rule |-> Head(todo).rule, session |-> Head(todo).session,
                           host |-> Head(todo).host, idx |-> alertIdx[Head(todo).session],
                           at |-> clock]
    PROVE  /\ alerts' = Append(alerts, new) /\ new \in RuleAlert /\ Head(todo) \in Firing
           /\ todo' = Tail(todo) /\ todo' \in Seq(Firing) /\ pairs = {}
           /\ new.rule = Head(todo).rule /\ new.session = Head(todo).session
           /\ new.idx = alertIdx[new.session] /\ new.at = clock
           /\ alertIdx' = [alertIdx EXCEPT ![new.session] = @ + 1]
           /\ Correlate(new, new.idx)
<1>1. todo \in Seq(Firing) /\ todo # <<>>  BY DEF AlertTypes, SinkAlert
<1>2. Head(todo) \in Firing /\ Tail(todo) \in Seq(Firing)  BY <1>1
<1>3. /\ Head(todo).rule \in {"new_domain", "sensitive_read", "burst"}
      /\ Head(todo).session \in Session /\ Head(todo).host \in Host
  BY <1>2 DEF Firing
<1>4. alertIdx[Head(todo).session] \in Nat /\ clock \in Nat  BY <1>3 DEF AlertTypes
<1>5. new \in RuleAlert  BY <1>3, <1>4 DEF RuleAlert
<1>6. /\ alerts' = Append(alerts, new) /\ todo' = Tail(todo) /\ pairs = {}
      /\ alertIdx' = [alertIdx EXCEPT ![Head(todo).session] = @ + 1]
      /\ Correlate(Head(todo), alertIdx[Head(todo).session])
  BY DEF SinkAlert, NextIdx
<1>7. /\ new.rule = Head(todo).rule /\ new.session = Head(todo).session
      /\ new.idx = alertIdx[Head(todo).session] /\ new.at = clock
  OBVIOUS
<1>8. Correlate(new, new.idx)
  BY <1>6, <1>7 DEF Correlate
<1>9. QED  BY <1>2, <1>5, <1>6, <1>7, <1>8

\* What Correlate does to the lists of its session, and the pairs it leaves.
LEMMA CorrelateEffect ==
    ASSUME AlertTypes, NEW a \in RuleAlert, pairs = {}, Correlate(a, a.idx), a.at = clock
    PROVE  /\ \A s \in Session :
                 /\ reads'[s] = IF a.rule = "sensitive_read" /\ s = a.session
                                THEN InWindow(reads[s] \cup {[idx |-> a.idx, at |-> a.at]})
                                ELSE reads[s]
                 /\ domains'[s] = IF a.rule = "new_domain" /\ s = a.session
                                  THEN InWindow(domains[s] \cup {[idx |-> a.idx, at |-> a.at]})
                                  ELSE domains[s]
           /\ pairs' = CASE a.rule = "sensitive_read" ->
                              {[session |-> a.session, read |-> a.idx, domain |-> d.idx] :
                                  d \in InWindow(domains[a.session])}
                         [] a.rule = "new_domain" ->
                              {[session |-> a.session, read |-> r.idx, domain |-> a.idx] :
                                  r \in InWindow(reads[a.session])}
                         [] OTHER -> {}
           /\ reads' \in [Session -> SUBSET Entry] /\ domains' \in [Session -> SUBSET Entry]
           /\ pairs' \subseteq Pair
<1>1. /\ reads \in [Session -> SUBSET Entry] /\ domains \in [Session -> SUBSET Entry]
      /\ a.session \in Session /\ a.idx \in Nat /\ a.at \in Nat
      /\ a.rule \in {"new_domain", "sensitive_read", "burst"}
  BY DEF AlertTypes, RuleAlert
<1>2. [idx |-> a.idx, at |-> a.at] \in Entry  BY <1>1 DEF Entry
<1>3. \A S \in SUBSET Entry : InWindow(S) \in SUBSET Entry  BY DEF InWindow
<1>4. \A e \in Entry : e.idx \in Nat  BY DEF Entry
<1>5. CASE a.rule = "sensitive_read"
  <2>1. /\ reads' = [reads EXCEPT ![a.session] = InWindow(@ \cup {[idx |-> a.idx, at |-> a.at]})]
        /\ pairs' = {[session |-> a.session, read |-> a.idx, domain |-> d.idx] :
                        d \in InWindow(domains[a.session])}
        /\ domains' = domains
    BY <1>5 DEF Correlate
  <2>2. pairs' \subseteq Pair  BY <1>1, <1>3, <1>4, <2>1 DEF Pair
  <2>3. InWindow(reads[a.session] \cup {[idx |-> a.idx, at |-> a.at]}) \in SUBSET Entry
    BY <1>1, <1>2, <1>3
  <2>4. QED  BY <1>1, <1>5, <2>1, <2>2, <2>3
<1>6. CASE a.rule = "new_domain"
  <2>1. /\ domains' = [domains EXCEPT ![a.session] = InWindow(@ \cup {[idx |-> a.idx, at |-> a.at]})]
        /\ pairs' = {[session |-> a.session, read |-> r.idx, domain |-> a.idx] :
                        r \in InWindow(reads[a.session])}
        /\ reads' = reads
    BY <1>6 DEF Correlate
  <2>2. pairs' \subseteq Pair  BY <1>1, <1>3, <1>4, <2>1 DEF Pair
  <2>3. InWindow(domains[a.session] \cup {[idx |-> a.idx, at |-> a.at]}) \in SUBSET Entry
    BY <1>1, <1>2, <1>3
  <2>4. QED  BY <1>1, <1>6, <2>1, <2>2, <2>3
<1>7. CASE a.rule = "burst"
  <2>1. reads' = reads /\ domains' = domains /\ pairs' = {}  BY <1>7 DEF Correlate
  <2>2. QED  BY <1>1, <1>7, <2>1
<1>8. QED  BY <1>1, <1>5, <1>6, <1>7

\* What is escalated is appended as an escalation.
LEMMA SunkEscalation ==
    ASSUME AlertTypes, NEW x \in pairs, SinkEscalation(x), ~Escalated(x),
           NEW new, new = [rule |-> "escalation", session |-> x.session, read |-> x.read,
                           domain |-> x.domain, idx |-> alertIdx[x.session], at |-> clock]
    PROVE  /\ alerts' = Append(alerts, new) /\ new \in Escalation
           /\ new.rule = "escalation" /\ new.session = x.session
           /\ new.read = x.read /\ new.domain = x.domain
           /\ new.idx = alertIdx[new.session] /\ new.at = clock
           /\ alertIdx' = [alertIdx EXCEPT ![new.session] = @ + 1]
           /\ correlated' = [correlated EXCEPT ![x.session] = @ \cup {<<x.read, x.domain>>}]
<1>1. x.session \in Session /\ x.read \in Nat /\ x.domain \in Nat  BY DEF AlertTypes, Pair
<1>2. alertIdx[x.session] \in Nat /\ clock \in Nat  BY <1>1 DEF AlertTypes
<1>3. new \in Escalation  BY <1>1, <1>2 DEF Escalation
<1>4. QED  BY <1>3 DEF SinkEscalation, NextIdx, Mark

\* Every step keeps the types of the alert engine.
LEMMA AlertTypesStep == AlertTypes /\ [AlertNext]_alertVars => AlertTypes'
<1> SUFFICES ASSUME AlertTypes, [AlertNext]_alertVars PROVE AlertTypes'
  OBVIOUS
<1> USE DEF AlertTypes
<1>1. ASSUME NEW s \in Session, alertIdx' = [alertIdx EXCEPT ![s] = @ + 1]
      PROVE  alertIdx' \in [Session -> Nat]
  BY <1>1
<1>2. ASSUME NEW x \in pairs, Mark(x) PROVE correlated' \in [Session -> SUBSET (Nat \X Nat)]
  <2>1. x.session \in Session /\ <<x.read, x.domain>> \in Nat \X Nat  BY DEF Pair
  <2>2. QED  BY <1>2, <2>1, Zenon DEF Mark
<1>3. ASSUME NEW k \in Kind, NEW s \in Session, NEW h \in HostsOf(k),
             Observe([kind |-> k, session |-> s, host |-> h])
      PROVE  AlertTypes'
  <2> DEFINE ev == [kind |-> k, session |-> s, host |-> h]
  <2>1. ev \in [kind : Kind, session : Session, host : Host] /\ ev.kind = k /\ ev.session = s
    BY AlertAssumption DEF HostsOf
  <2> HIDE DEF ev
  <2>2. todo' \in Seq(Firing)  BY <1>3, <2>1, FiringsShape DEF Observe, ev
  <2>3. observed' \in Seq(Observation)
    <3>1. [kind |-> k, session |-> s, at |-> clock] \in Observation  BY DEF Observation
    <3>2. observed' = Append(observed, [kind |-> k, session |-> s, at |-> clock])
      BY <1>3 DEF Observe
    <3>3. QED  BY <3>1, <3>2
  <2>4. times' \in [Session -> [Class -> SUBSET Stamp]]
    <3>1. \A c \in Class : Kept(ev, c) \in SUBSET Stamp
      BY <2>1 DEF Kept, InBurst, Stamp
    <3>2. times' = [times EXCEPT ![s] =
             [c \in Class |-> IF c \in BurstClassOf(ev.kind) THEN Kept(ev, c) ELSE @[c]]]
      BY <1>3, <2>1, Zenon DEF Observe, ev
    <3>3. [c \in Class |-> IF c \in BurstClassOf(ev.kind) THEN Kept(ev, c) ELSE times[s][c]]
             \in [Class -> SUBSET Stamp]
      BY <3>1
    <3>4. QED  BY <3>2, <3>3
  <2>5. burstArmed' \in [Session -> [Class -> BOOLEAN]]
    <3>1. burstArmed' = [burstArmed EXCEPT ![s] =
             [c \in Class |-> IF c \notin BurstClassOf(ev.kind) THEN @[c]
                              ELSE Cardinality(Kept(ev, c)) < BurstThreshold]]
      BY <1>3, <2>1, Zenon DEF Observe, ev
    <3>2. [c \in Class |-> IF c \notin BurstClassOf(ev.kind) THEN burstArmed[s][c]
                           ELSE Cardinality(Kept(ev, c)) < BurstThreshold]
             \in [Class -> BOOLEAN]
      <4> DEFINE under(c) == Cardinality(Kept(ev, c)) < BurstThreshold
      <4>1. \A c \in Class : burstArmed[s][c] \in BOOLEAN /\ under(c) \in BOOLEAN  OBVIOUS
      <4> HIDE DEF under
      <4>2. [c \in Class |-> IF c \notin BurstClassOf(ev.kind) THEN burstArmed[s][c]
                             ELSE under(c)] \in [Class -> BOOLEAN]
        BY <4>1, Zenon
      <4>3. QED  BY <4>2 DEF under
    <3>3. QED  BY <3>1, <3>2, Zenon
  <2>6. UNCHANGED <<clock, reads, domains, correlated, alertIdx, pairs, alerts, refused>>
    BY <1>3 DEF Observe
  <2>7. QED  BY <2>2, <2>3, <2>4, <2>5, <2>6
<1>4. CASE SinkAlert
  <2> DEFINE new == [rule |-> Head(todo).rule, session |-> Head(todo).session,
                     host |-> Head(todo).host, idx |-> alertIdx[Head(todo).session], at |-> clock]
  <2>1. /\ alerts' = Append(alerts, new) /\ new \in RuleAlert /\ todo' \in Seq(Firing)
        /\ pairs = {} /\ new.at = clock /\ Correlate(new, new.idx)
        /\ alertIdx' = [alertIdx EXCEPT ![new.session] = @ + 1]
    BY <1>4, SunkAlert
  <2> HIDE DEF new
  <2>2. /\ reads' \in [Session -> SUBSET Entry] /\ domains' \in [Session -> SUBSET Entry]
        /\ pairs' \subseteq Pair
    BY <2>1, CorrelateEffect
  <2>3. alerts' \in Seq(RuleAlert \cup Escalation)  BY <2>1, AlertAppended
  <2>4. alertIdx' \in [Session -> Nat]  BY <1>1, <2>1 DEF RuleAlert
  <2>5. UNCHANGED <<clock, times, burstArmed, correlated, observed, refused>>
    BY <1>4 DEF SinkAlert
  <2>6. QED  BY <2>1, <2>2, <2>3, <2>4, <2>5
<1>5. ASSUME NEW x \in pairs, SinkEscalation(x) PROVE AlertTypes'
  <2>1. CASE Escalated(x)  BY <1>5, <2>1 DEF SinkEscalation
  <2>2. CASE ~Escalated(x)
    <3> DEFINE new == [rule |-> "escalation", session |-> x.session, read |-> x.read,
                       domain |-> x.domain, idx |-> alertIdx[x.session], at |-> clock]
    <3>1. /\ alerts' = Append(alerts, new) /\ new \in Escalation
          /\ alertIdx' = [alertIdx EXCEPT ![new.session] = @ + 1]
      BY <1>5, <2>2, SunkEscalation
    <3> HIDE DEF new
    <3>2. alerts' \in Seq(RuleAlert \cup Escalation)  BY <3>1, AlertAppended
    <3>3. alertIdx' \in [Session -> Nat]  BY <1>1, <3>1 DEF Escalation
    <3>4. /\ Mark(x) /\ pairs' \subseteq pairs
          /\ UNCHANGED <<clock, times, burstArmed, reads, domains, todo, observed, refused>>
      BY <1>5, <2>2 DEF SinkEscalation
    <3>5. QED  BY <1>2, <3>2, <3>3, <3>4
  <2>3. QED  BY <2>1, <2>2
<1>6. ASSUME NEW s \in Session, Refuse(s), correlated' \in [Session -> SUBSET (Nat \X Nat)]
      PROVE  AlertTypes'
  BY <1>1, <1>6 DEF Refuse, NextIdx
<1>7. CASE AlertRefused
  <2>1. todo \in Seq(Firing) /\ todo # <<>>  BY <1>7 DEF AlertRefused
  <2>2. Head(todo) \in Firing  BY <2>1
  <2>3. Head(todo).session \in Session  BY <2>2 DEF Firing
  <2>4. QED  BY <1>6, <1>7, <2>3 DEF AlertRefused
<1>8. ASSUME NEW x \in pairs, EscalationRefused(x) PROVE AlertTypes'
  <2>1. x.session \in Session  BY DEF Pair
  <2>2. QED  BY <1>2, <1>6, <1>8, <2>1 DEF EscalationRefused
<1>9. CASE Elapse  BY <1>9 DEF Elapse
<1>10. CASE UNCHANGED alertVars  BY <1>10 DEF alertVars
<1>11. QED  BY <1>3, <1>4, <1>5, <1>7, <1>8, <1>9, <1>10 DEF AlertNext

\* No two alerts of a session have one index.
LEMMA IndicesDiffer ==
    ASSUME AlertTypes, AlertsOrdered, NEW s, NEW i \in DOMAIN alerts, NEW j \in DOMAIN alerts,
           alerts[i].session = s, alerts[j].session = s, alerts[i].idx = alerts[j].idx
    PROVE  i = j
<1>1. alerts \in Seq(RuleAlert \cup Escalation)  BY DEF AlertTypes
<1>2. i \in Nat /\ j \in Nat /\ alerts[i].idx \in Nat
  <2>1. i \in Nat /\ j \in Nat /\ alerts[i] \in RuleAlert \cup Escalation  BY <1>1
  <2>2. QED  BY <2>1 DEF RuleAlert, Escalation
<1>3. /\ i < j => alerts[i].idx < alerts[j].idx
      /\ j < i => alerts[j].idx < alerts[i].idx
  BY DEF AlertsOrdered
<1>4. QED  BY <1>2, <1>3

\* An alert with the next index keeps the order.
LEMMA OrderedAppended ==
    ASSUME AlertTypes, AlertsOrdered, NEW a \in RuleAlert \cup Escalation,
           alerts' = Append(alerts, a), a.idx = alertIdx[a.session], a.at = clock,
           alertIdx' = [alertIdx EXCEPT ![a.session] = @ + 1], clock' = clock
    PROVE  AlertsOrdered'
<1> DEFINE n == Len(alerts)
<1>1. /\ n \in Nat /\ DOMAIN alerts = 1 .. n /\ DOMAIN alerts' = 1 .. n + 1
      /\ alerts'[n + 1] = a /\ \A i \in DOMAIN alerts : alerts'[i] = alerts[i]
  BY AlertAppended
<1> HIDE DEF n
<1>2. alerts \in Seq(RuleAlert \cup Escalation)  BY DEF AlertTypes
<1>3. \A i \in DOMAIN alerts : alerts[i].session \in Session /\ alerts[i].idx \in Nat
  <2>1. \A i \in DOMAIN alerts : alerts[i] \in RuleAlert \cup Escalation  BY <1>2
  <2>2. QED  BY <2>1 DEF RuleAlert, Escalation
<1>4. a.session \in Session  BY DEF RuleAlert, Escalation
<1>5. clock \in Nat /\ \A s \in Session :
         alertIdx[s] \in Nat /\ alertIdx'[s] = IF s = a.session THEN alertIdx[s] + 1 ELSE alertIdx[s]
  BY <1>4 DEF AlertTypes
<1>6. ASSUME NEW i \in DOMAIN alerts'
      PROVE  alerts'[i].at <= clock' /\ alerts'[i].idx < alertIdx'[alerts'[i].session]
  <2>1. CASE i \in DOMAIN alerts  BY <1>1, <1>3, <1>5, <2>1 DEF AlertsOrdered
  <2>2. CASE i = n + 1  BY <1>1, <1>4, <1>5, <2>2
  <2>3. QED  BY <1>1, <1>6, <2>1, <2>2
<1>7. ASSUME NEW i \in DOMAIN alerts', NEW j \in DOMAIN alerts', i < j,
             alerts'[i].session = alerts'[j].session
      PROVE  alerts'[i].idx < alerts'[j].idx
  <2>1. i \in DOMAIN alerts  BY <1>1, <1>7
  <2>2. CASE j \in DOMAIN alerts  BY <1>1, <1>7, <2>1, <2>2 DEF AlertsOrdered
  <2>3. CASE j = n + 1
    <3>1. alerts[i].session = a.session /\ alerts'[i] = alerts[i] /\ alerts'[j] = a
      BY <1>1, <1>7, <2>1, <2>3
    <3>2. alerts[i].idx < alertIdx[a.session]  BY <2>1, <3>1 DEF AlertsOrdered
    <3>3. QED  BY <3>1, <3>2
  <2>4. QED  BY <1>1, <1>7, <2>2, <2>3
<1>8. QED  BY <1>6, <1>7 DEF AlertsOrdered

\* An alert that is appended, to its side's list too if it has that side's rule,
\* leaves that list what it is.
LEMMA ListAppended ==
    ASSUME AlertTypes, NEW a \in RuleAlert \cup Escalation, alerts' = Append(alerts, a),
           a.at = clock, clock' = clock, NEW rule, NEW L, NEW M, Lists(L, rule),
           \A s \in Session : M[s] = IF a.rule = rule /\ s = a.session
                                     THEN InWindow(L[s] \cup {[idx |-> a.idx, at |-> a.at]})
                                     ELSE L[s]
    PROVE  \A s \in Session :
              /\ \A e \in M[s] : \E i \in Of(s, rule)' : e = EntryOf(i)'
              /\ \A i \in Of(s, rule)' :
                    alerts'[i].at + TrifectaWindow >= clock' => EntryOf(i)' \in M[s]
<1> SUFFICES ASSUME NEW s \in Session
             PROVE  /\ \A e \in M[s] : \E i \in Of(s, rule)' : e = EntryOf(i)'
                    /\ \A i \in Of(s, rule)' :
                          alerts'[i].at + TrifectaWindow >= clock' => EntryOf(i)' \in M[s]
  OBVIOUS
<1> DEFINE n == Len(alerts)
           new == [idx |-> a.idx, at |-> a.at]
<1>1. /\ DOMAIN alerts = 1 .. n /\ n \in Nat
      /\ alerts'[n + 1] = a /\ \A i \in DOMAIN alerts : alerts'[i] = alerts[i]
      /\ Of(s, rule)' = IF a.session = s /\ a.rule = rule
                        THEN Of(s, rule) \cup {n + 1} ELSE Of(s, rule)
  BY AlertAppended
<1> HIDE DEF n
<1>2. /\ \A i : i = n + 1 => EntryOf(i)' = new
      /\ \A i \in Of(s, rule) : EntryOf(i)' = EntryOf(i) /\ alerts'[i] = alerts[i]
  <2>1. ASSUME NEW i, i = n + 1 PROVE EntryOf(i)' = new  BY <1>1, <2>1 DEF EntryOf
  <2>2. Of(s, rule) \subseteq DOMAIN alerts  BY DEF Of
  <2>3. ASSUME NEW i \in Of(s, rule) PROVE alerts'[i] = alerts[i] /\ EntryOf(i)' = EntryOf(i)
    <3>1. alerts'[i] = alerts[i]  BY <1>1, <2>2
    <3>2. QED  BY <3>1 DEF EntryOf
  <2>4. QED  BY <2>1, <2>3
<1>3. /\ \A e \in L[s] : \E i \in Of(s, rule) : e = EntryOf(i)
      /\ \A i \in Of(s, rule) : alerts[i].at + TrifectaWindow >= clock => EntryOf(i) \in L[s]
  BY DEF Lists
<1>4. CASE a.rule = rule /\ s = a.session
  <2>1. M[s] = InWindow(L[s] \cup {new}) /\ Of(s, rule)' = Of(s, rule) \cup {n + 1}
    BY <1>1, <1>4
  <2>2. \A e \in M[s] : \E i \in Of(s, rule)' : e = EntryOf(i)'
    <3> SUFFICES ASSUME NEW e \in M[s] PROVE \E i \in Of(s, rule)' : e = EntryOf(i)'
      OBVIOUS
    <3>1. e \in L[s] \/ e = new  BY <2>1 DEF InWindow
    <3> HIDE DEF new
    <3>2. CASE e \in L[s]
      <4>1. PICK i \in Of(s, rule) : e = EntryOf(i)  BY <1>3, <3>2
      <4>2. i \in Of(s, rule)' /\ e = EntryOf(i)'  BY <1>2, <2>1, <4>1
      <4>3. QED  BY <4>2
    <3>3. CASE e = new
      <4>1. PICK i : i = n + 1  OBVIOUS
      <4>2. i \in Of(s, rule)' /\ e = EntryOf(i)'  BY <1>2, <2>1, <3>3, <4>1
      <4>3. QED  BY <4>2
    <3>4. QED  BY <3>1, <3>2, <3>3
  <2>3. ASSUME NEW i \in Of(s, rule)', alerts'[i].at + TrifectaWindow >= clock'
        PROVE  EntryOf(i)' \in M[s]
    <3>1. EntryOf(i)' \in L[s] \cup {new}  BY <1>1, <1>2, <1>3, <2>1, <2>3
    <3>2. EntryOf(i)'.at = alerts'[i].at  BY DEF EntryOf
    <3>3. QED  BY <2>1, <2>3, <3>1, <3>2 DEF InWindow
  <2>4. QED  BY <2>2, <2>3
<1>5. CASE ~(a.rule = rule /\ s = a.session)
  <2>1. M[s] = L[s] /\ Of(s, rule)' = Of(s, rule)  BY <1>1, <1>5
  <2>2. ASSUME NEW e \in M[s] PROVE \E i \in Of(s, rule)' : e = EntryOf(i)'
    <3>1. PICK i \in Of(s, rule) : e = EntryOf(i)  BY <1>3, <2>1, <2>2
    <3>2. i \in Of(s, rule)' /\ e = EntryOf(i)'  BY <1>2, <2>1, <3>1
    <3>3. QED  BY <3>2
  <2>3. ASSUME NEW i \in Of(s, rule)', alerts'[i].at + TrifectaWindow >= clock'
        PROVE  EntryOf(i)' \in M[s]
    <3>1. i \in Of(s, rule)  BY <2>1, <2>3
    <3>2. alerts'[i] = alerts[i] /\ EntryOf(i)' = EntryOf(i)  BY <1>2, <3>1
    <3>3. EntryOf(i) \in L[s]  BY <1>3, <2>3, <3>1, <3>2
    <3>4. QED  BY <2>1, <3>2, <3>3
  <2>4. QED  BY <2>2, <2>3
<1>6. QED  BY <1>4, <1>5

\* Pairs of old alerts are what they were.
LEMMA OldPairs ==
    ASSUME NEW S, \A i \in S : alerts'[i] = alerts[i]
    PROVE  \A s : /\ \A r, d \in S : PairOf(s, r, d)' = PairOf(s, r, d) /\ Near(r, d)' = Near(r, d)
                  /\ \A x \in S : Halves(s, x)' = Halves(s, x)
BY DEF PairOf, Near, Halves

\* An alert of a rule joins its list and waits to be paired with all of the
\* other side that are near.
LEMMA SinkAlertPairs ==
    ASSUME AlertTypes, PairsInv, SinkAlert PROVE PairsInv'
<1> DEFINE n == Len(alerts)
<1>0. PICK a : a = [rule |-> Head(todo).rule, session |-> Head(todo).session,
                    host |-> Head(todo).host, idx |-> alertIdx[Head(todo).session],
                    at |-> clock]
  OBVIOUS
<1>1. /\ alerts' = Append(alerts, a) /\ a \in RuleAlert /\ pairs = {} /\ a.at = clock
      /\ Correlate(a, a.idx) /\ a.idx = alertIdx[a.session]
      /\ alertIdx' = [alertIdx EXCEPT ![a.session] = @ + 1]
      /\ UNCHANGED <<clock, correlated, refused>>
  BY <1>0, SunkAlert DEF SinkAlert
<1>2. /\ a.session \in Session /\ a.idx \in Nat /\ a.at \in Nat /\ clock \in Nat
      /\ a.rule \in {"new_domain", "sensitive_read", "burst"}
      /\ a \in RuleAlert \cup Escalation
  BY <1>1 DEF RuleAlert, AlertTypes
<1>3. PICK m : m = n + 1  OBVIOUS
<1>4. /\ n \in Nat /\ DOMAIN alerts = 1 .. n /\ DOMAIN alerts' = 1 .. m
      /\ alerts'[m] = a /\ \A i \in DOMAIN alerts : alerts'[i] = alerts[i]
      /\ \A s, rule : Of(s, rule)' = IF a.session = s /\ a.rule = rule
                                     THEN Of(s, rule) \cup {m} ELSE Of(s, rule)
  BY <1>1, <1>2, <1>3, AlertAppended
<1> HIDE DEF n
<1>5. \A s : Of(s, "escalation")' = Of(s, "escalation")  BY <1>2, <1>4
<1>6. \A s, rule : Of(s, rule) \subseteq DOMAIN alerts  BY DEF Of
<1>7. \A s : /\ \A r, d \in DOMAIN alerts : /\ PairOf(s, r, d)' = PairOf(s, r, d)
                                            /\ Near(r, d)' = Near(r, d)
             /\ \A x \in DOMAIN alerts : Halves(s, x)' = Halves(s, x) /\ alerts'[x] = alerts[x]
  BY <1>4, OldPairs
<1>8. AlertsOrdered'  BY <1>1, <1>2, OrderedAppended DEF PairsInv
<1>9. Lists(reads, "sensitive_read")' /\ Lists(domains, "new_domain")'
  <2>1. /\ \A s \in Session :
              /\ reads'[s] = IF a.rule = "sensitive_read" /\ s = a.session
                             THEN InWindow(reads[s] \cup {[idx |-> a.idx, at |-> a.at]})
                             ELSE reads[s]
              /\ domains'[s] = IF a.rule = "new_domain" /\ s = a.session
                               THEN InWindow(domains[s] \cup {[idx |-> a.idx, at |-> a.at]})
                               ELSE domains[s]
    BY <1>1, CorrelateEffect
  <2>2. Lists(reads, "sensitive_read")'
    <3>1. Lists(reads, "sensitive_read")  BY DEF PairsInv
    <3>2. QED  BY <1>1, <1>2, <2>1, <3>1, ListAppended, ZenonT(60) DEF Lists
  <2>3. Lists(domains, "new_domain")'
    <3>1. Lists(domains, "new_domain")  BY DEF PairsInv
    <3>2. QED  BY <1>1, <1>2, <2>1, <3>1, ListAppended, ZenonT(60) DEF Lists
  <2>4. QED  BY <2>2, <2>3
<1>10. pairs' = CASE a.rule = "sensitive_read" ->
                       {[session |-> a.session, read |-> a.idx, domain |-> d.idx] :
                           d \in InWindow(domains[a.session])}
                  [] a.rule = "new_domain" ->
                       {[session |-> a.session, read |-> r.idx, domain |-> a.idx] :
                           r \in InWindow(reads[a.session])}
                  [] OTHER -> {}
  BY <1>1, CorrelateEffect
<1>11. \A i \in DOMAIN alerts : alerts[i].at \in Nat /\ alerts[i].at <= clock
  <2>1. alerts \in Seq(RuleAlert \cup Escalation)  BY DEF AlertTypes
  <2>2. \A i \in DOMAIN alerts : alerts[i] \in RuleAlert \cup Escalation  BY <2>1
  <2>3. \A i \in DOMAIN alerts : alerts[i].at \in Nat  BY <2>2 DEF RuleAlert, Escalation
  <2>4. QED  BY <2>3 DEF PairsInv, AlertsOrdered
<1>12. TrifectaWindow \in Nat  BY AlertAssumption
\* The new alert against one of the other side.
<1>13. ASSUME NEW i \in DOMAIN alerts
       PROVE  /\ Near(m, i)' <=> alerts[i].at + TrifectaWindow >= clock
              /\ Near(i, m)' <=> alerts[i].at + TrifectaWindow >= clock
              /\ \A s : PairOf(s, m, i)' = [session |-> s, read |-> a.idx, domain |-> alerts[i].idx]
              /\ \A s : PairOf(s, i, m)' = [session |-> s, read |-> alerts[i].idx, domain |-> a.idx]
  <2>1. alerts'[m] = a /\ alerts'[i] = alerts[i]  BY <1>4
  <2>2. alerts[i].at \in Nat /\ alerts[i].at <= clock /\ a.at = clock /\ clock \in Nat
    BY <1>1, <1>2, <1>11
  <2>3. QED  BY <1>12, <2>1, <2>2 DEF Near, PairOf
<1>14. \A p \in pairs' :
          \E r \in Of(p.session, "sensitive_read")', d \in Of(p.session, "new_domain")' :
              Near(r, d)' /\ p = PairOf(p.session, r, d)'
  <2> SUFFICES ASSUME NEW p \in pairs'
               PROVE  \E r \in Of(p.session, "sensitive_read")', d \in Of(p.session, "new_domain")' :
                         Near(r, d)' /\ p = PairOf(p.session, r, d)'
    OBVIOUS
  <2>1. CASE a.rule = "sensitive_read"
    <3>1. PICK e \in InWindow(domains[a.session]) :
             p = [session |-> a.session, read |-> a.idx, domain |-> e.idx]
      BY <1>10, <2>1
    <3>2. e \in domains[a.session] /\ e.at + TrifectaWindow >= clock  BY DEF InWindow
    <3>3. PICK d \in Of(a.session, "new_domain") : e = EntryOf(d)
      BY <1>2, <3>2 DEF PairsInv, Lists
    <3>4. d \in DOMAIN alerts /\ e.idx = alerts[d].idx /\ e.at = alerts[d].at
      BY <1>6, <3>3 DEF EntryOf
    <3>5. m \in Of(a.session, "sensitive_read")' /\ d \in Of(a.session, "new_domain")'
      BY <1>4, <2>1
    <3>6. Near(m, d)' /\ PairOf(a.session, m, d)' = p  BY <1>13, <3>1, <3>2, <3>4
    <3>7. p.session = a.session  BY <3>1
    <3>8. QED  BY <3>5, <3>6, <3>7
  <2>2. CASE a.rule = "new_domain"
    <3>1. PICK e \in InWindow(reads[a.session]) :
             p = [session |-> a.session, read |-> e.idx, domain |-> a.idx]
      BY <1>10, <2>2
    <3>2. e \in reads[a.session] /\ e.at + TrifectaWindow >= clock  BY DEF InWindow
    <3>3. PICK r \in Of(a.session, "sensitive_read") : e = EntryOf(r)
      BY <1>2, <3>2 DEF PairsInv, Lists
    <3>4. r \in DOMAIN alerts /\ e.idx = alerts[r].idx /\ e.at = alerts[r].at
      BY <1>6, <3>3 DEF EntryOf
    <3>5. r \in Of(a.session, "sensitive_read")' /\ m \in Of(a.session, "new_domain")'
      BY <1>4, <2>2
    <3>6. Near(r, m)' /\ PairOf(a.session, r, m)' = p  BY <1>13, <3>1, <3>2, <3>4
    <3>7. p.session = a.session  BY <3>1
    <3>8. QED  BY <3>5, <3>6, <3>7
  <2>3. QED  BY <1>2, <1>10, <2>1, <2>2
<1>15. \A p \in pairs' : p.session = a.session  BY <1>2, <1>10
<1>16. ASSUME NEW s \in Session, NEW x \in Of(s, "escalation")'
       PROVE  \E r \in Of(s, "sensitive_read")', d \in Of(s, "new_domain")' :
                 r < x /\ d < x /\ Near(r, d)' /\ Halves(s, x)' = PairOf(s, r, d)'
  <2>1. x \in Of(s, "escalation")  BY <1>5, <1>16
  <2>2. PICK r \in Of(s, "sensitive_read"), d \in Of(s, "new_domain") :
           r < x /\ d < x /\ Near(r, d) /\ Halves(s, x) = PairOf(s, r, d)
    BY <2>1 DEF PairsInv, PairsHonest
  <2>3. x \in DOMAIN alerts /\ r \in DOMAIN alerts /\ d \in DOMAIN alerts  BY <1>6, <2>1
  <2>4. r \in Of(s, "sensitive_read")' /\ d \in Of(s, "new_domain")'  BY <1>4
  <2>5. Near(r, d)' /\ Halves(s, x)' = PairOf(s, r, d)'  BY <1>7, <2>2, <2>3
  <2>6. QED  BY <2>2, <2>4, <2>5
<1>17. PairsHonest'  BY <1>14, <1>15, <1>16 DEF PairsHonest
<1>18. ASSUME NEW s \in Session, NEW x \in Of(s, "escalation")'
       PROVE  /\ <<alerts'[x].read, alerts'[x].domain>> \in correlated'[s]
              /\ \A y \in Of(s, "escalation")' : Halves(s, x)' = Halves(s, y)' => x = y
  <2>1. x \in Of(s, "escalation") /\ alerts'[x] = alerts[x] /\ Halves(s, x)' = Halves(s, x)
    BY <1>4, <1>5, <1>6, <1>7, <1>18
  <2>2. \A y \in Of(s, "escalation")' : y \in Of(s, "escalation") /\ Halves(s, y)' = Halves(s, y)
    BY <1>5, <1>6, <1>7
  <2>3. QED  BY <1>1, <2>1, <2>2 DEF PairsInv, PairsComplete
<1>19. ASSUME NEW s \in Session, s \notin refused', NEW mark \in correlated'[s]
       PROVE  \E x \in Of(s, "escalation")' : mark = <<alerts'[x].read, alerts'[x].domain>>
  <2>1. PICK x \in Of(s, "escalation") : mark = <<alerts[x].read, alerts[x].domain>>
    BY <1>1, <1>19 DEF PairsInv, PairsComplete
  <2>2. x \in Of(s, "escalation")' /\ alerts'[x] = alerts[x]  BY <1>4, <1>5, <1>6
  <2>3. QED  BY <2>1, <2>2
<1>20. ASSUME NEW s \in Session, s \notin refused', NEW r \in Of(s, "sensitive_read")',
              NEW d \in Of(s, "new_domain")', Near(r, d)'
       PROVE  \/ PairOf(s, r, d)' \in pairs'
              \/ \E x \in Of(s, "escalation")' : Halves(s, x)' = PairOf(s, r, d)'
  <2>1. CASE r \in Of(s, "sensitive_read") /\ d \in Of(s, "new_domain")
    <3>1. Near(r, d) /\ PairOf(s, r, d)' = PairOf(s, r, d)  BY <1>6, <1>7, <1>20, <2>1
    <3>2. PICK x \in Of(s, "escalation") : Halves(s, x) = PairOf(s, r, d)
      BY <1>1, <1>20, <2>1, <3>1 DEF PairsInv, PairsComplete
    <3>3. x \in Of(s, "escalation")' /\ Halves(s, x)' = Halves(s, x)  BY <1>5, <1>6, <1>7
    <3>4. QED  BY <3>1, <3>2, <3>3
  <2>2. CASE r = m /\ a.rule = "sensitive_read" /\ a.session = s /\ d \in Of(s, "new_domain")
    <3>1. d \in DOMAIN alerts  BY <1>6, <2>2
    <3>2. alerts[d].at + TrifectaWindow >= clock  BY <1>13, <1>20, <2>2, <3>1
    <3>3. EntryOf(d) \in InWindow(domains[s])
      <4>1. EntryOf(d) \in domains[s]  BY <2>2, <3>2 DEF PairsInv, Lists
      <4>2. EntryOf(d).at = alerts[d].at  BY DEF EntryOf
      <4>3. QED  BY <3>2, <4>1, <4>2 DEF InWindow
    <3>4. EntryOf(d).idx = alerts[d].idx  BY DEF EntryOf
    <3>5. PairOf(s, r, d)' = [session |-> s, read |-> a.idx, domain |-> alerts[d].idx]
      BY <1>13, <2>2, <3>1
    <3>6. QED  BY <1>10, <2>2, <3>3, <3>4, <3>5
  <2>3. CASE d = m /\ a.rule = "new_domain" /\ a.session = s /\ r \in Of(s, "sensitive_read")
    <3>1. r \in DOMAIN alerts  BY <1>6, <2>3
    <3>2. alerts[r].at + TrifectaWindow >= clock  BY <1>13, <1>20, <2>3, <3>1
    <3>3. EntryOf(r) \in InWindow(reads[s])
      <4>1. EntryOf(r) \in reads[s]  BY <2>3, <3>2 DEF PairsInv, Lists
      <4>2. EntryOf(r).at = alerts[r].at  BY DEF EntryOf
      <4>3. QED  BY <3>2, <4>1, <4>2 DEF InWindow
    <3>4. EntryOf(r).idx = alerts[r].idx  BY DEF EntryOf
    <3>5. PairOf(s, r, d)' = [session |-> s, read |-> alerts[r].idx, domain |-> a.idx]
      BY <1>13, <2>3, <3>1
    <3>6. QED  BY <1>10, <2>3, <3>3, <3>4, <3>5
  <2>4. QED  BY <1>4, <1>20, <2>1, <2>2, <2>3
<1>21. PairsComplete'  BY <1>18, <1>19, <1>20 DEF PairsComplete
<1>22. QED  BY <1>8, <1>9, <1>17, <1>21 DEF PairsInv

\* An escalation is of a pair that was due, and of none twice.
LEMMA SinkEscalationPairs ==
    ASSUME AlertTypes, PairsInv, NEW p \in pairs, SinkEscalation(p), ~Escalated(p)
    PROVE  PairsInv'
<1> DEFINE n == Len(alerts)
<1>0. PICK a : a = [rule |-> "escalation", session |-> p.session, read |-> p.read,
                    domain |-> p.domain, idx |-> alertIdx[p.session], at |-> clock]
  OBVIOUS
<1>1. /\ alerts' = Append(alerts, a) /\ a \in Escalation /\ a.at = clock
      /\ a.rule = "escalation" /\ a.session = p.session
      /\ a.read = p.read /\ a.domain = p.domain /\ a.idx = alertIdx[a.session]
      /\ alertIdx' = [alertIdx EXCEPT ![a.session] = @ + 1]
      /\ correlated' = [correlated EXCEPT ![p.session] = @ \cup {<<p.read, p.domain>>}]
  BY <1>0, SunkEscalation
<1>2. pairs' = pairs \ {p} /\ UNCHANGED <<clock, reads, domains, refused>>
  BY DEF SinkEscalation
<1>3. /\ p \in Pair /\ p.session \in Session /\ a \in RuleAlert \cup Escalation
      /\ p = [session |-> p.session, read |-> a.read, domain |-> a.domain]
      /\ correlated \in [Session -> SUBSET (Nat \X Nat)]
  BY <1>1 DEF AlertTypes, Pair
<1>4. PICK m : m = n + 1  OBVIOUS
<1>5. /\ n \in Nat /\ DOMAIN alerts = 1 .. n /\ DOMAIN alerts' = 1 .. m
      /\ alerts'[m] = a /\ \A i \in DOMAIN alerts : alerts'[i] = alerts[i]
      /\ \A s, rule : Of(s, rule)' = IF a.session = s /\ a.rule = rule
                                     THEN Of(s, rule) \cup {m} ELSE Of(s, rule)
  BY <1>1, <1>3, <1>4, AlertAppended
<1> HIDE DEF n
<1>6. \A s : /\ Of(s, "sensitive_read")' = Of(s, "sensitive_read")
             /\ Of(s, "new_domain")' = Of(s, "new_domain")
             /\ Of(s, "escalation")' = IF s = p.session THEN Of(s, "escalation") \cup {m}
                                       ELSE Of(s, "escalation")
  BY <1>1, <1>5
<1>7. \A s, rule : Of(s, rule) \subseteq DOMAIN alerts  BY DEF Of
<1>8. \A s : /\ \A r, d \in DOMAIN alerts : /\ PairOf(s, r, d)' = PairOf(s, r, d)
                                            /\ Near(r, d)' = Near(r, d)
             /\ \A x \in DOMAIN alerts : Halves(s, x)' = Halves(s, x) /\ alerts'[x] = alerts[x]
  BY <1>5, OldPairs
<1>9. Halves(p.session, m)' = p /\ alerts'[m].read = p.read /\ alerts'[m].domain = p.domain
  BY <1>1, <1>3, <1>5 DEF Halves
<1>10. AlertsOrdered'  BY <1>1, <1>2, <1>3, OrderedAppended DEF PairsInv
<1>11. Lists(reads, "sensitive_read")' /\ Lists(domains, "new_domain")'
  <2>1. \A s \in Session, rule \in {"sensitive_read", "new_domain"} :
           /\ Of(s, rule)' = Of(s, rule)
           /\ \A i \in Of(s, rule) : alerts'[i] = alerts[i] /\ EntryOf(i)' = EntryOf(i)
    BY <1>6, <1>7, <1>8 DEF EntryOf
  <2>2. Lists(reads, "sensitive_read")'  BY <1>2, <2>1 DEF PairsInv, Lists
  <2>3. Lists(domains, "new_domain")'  BY <1>2, <2>1 DEF PairsInv, Lists
  <2>4. QED  BY <2>2, <2>3
<1>12. \A q \in pairs :
          \E r \in Of(q.session, "sensitive_read"), d \in Of(q.session, "new_domain") :
              Near(r, d)' /\ q = PairOf(q.session, r, d)'
  <2>1. ASSUME NEW q \in pairs
        PROVE  \E r \in Of(q.session, "sensitive_read"), d \in Of(q.session, "new_domain") :
                  Near(r, d)' /\ q = PairOf(q.session, r, d)'
    <3>1. PICK r \in Of(q.session, "sensitive_read"), d \in Of(q.session, "new_domain") :
             Near(r, d) /\ q = PairOf(q.session, r, d)
      BY DEF PairsInv, PairsHonest
    <3>2. r \in DOMAIN alerts /\ d \in DOMAIN alerts  BY <1>7
    <3>3. Near(r, d)' /\ q = PairOf(q.session, r, d)'  BY <1>8, <3>1, <3>2
    <3>4. QED  BY <3>3
  <2>2. QED  BY <2>1
<1>13. ASSUME NEW s \in Session, NEW x \in Of(s, "escalation")'
       PROVE  \E r \in Of(s, "sensitive_read")', d \in Of(s, "new_domain")' :
                 r < x /\ d < x /\ Near(r, d)' /\ Halves(s, x)' = PairOf(s, r, d)'
  <2>1. CASE x \in Of(s, "escalation")
    <3>1. PICK r \in Of(s, "sensitive_read"), d \in Of(s, "new_domain") :
             r < x /\ d < x /\ Near(r, d) /\ Halves(s, x) = PairOf(s, r, d)
      BY <2>1 DEF PairsInv, PairsHonest
    <3>2. x \in DOMAIN alerts /\ r \in DOMAIN alerts /\ d \in DOMAIN alerts  BY <1>7, <2>1
    <3>3. Near(r, d)' /\ Halves(s, x)' = PairOf(s, r, d)'  BY <1>8, <3>1, <3>2
    <3>4. QED  BY <1>6, <3>1, <3>3
  <2>2. CASE x = m /\ s = p.session
    <3>1. PICK r \in Of(s, "sensitive_read"), d \in Of(s, "new_domain") :
             Near(r, d)' /\ p = PairOf(s, r, d)'
      BY <1>12, <2>2
    <3>2. r < x /\ d < x  BY <1>4, <1>5, <1>7, <2>2
    <3>3. QED  BY <1>6, <1>9, <2>2, <3>1, <3>2
  <2>3. QED  BY <1>6, <1>13, <2>1, <2>2
<1>14. PairsHonest'  BY <1>2, <1>6, <1>12, <1>13 DEF PairsInv, PairsHonest
<1>15. \A s \in Session :
          correlated'[s] = IF s = p.session THEN correlated[s] \cup {<<p.read, p.domain>>}
                           ELSE correlated[s]
  BY <1>1, <1>3
<1>16. \A s \in Session : \A x \in Of(s, "escalation") :
          s = p.session => Halves(s, x) # p
  <2>1. ASSUME NEW x \in Of(p.session, "escalation"), Halves(p.session, x) = p PROVE FALSE
    <3>1. alerts[x].read = p.read /\ alerts[x].domain = p.domain  BY <1>3, <2>1 DEF Halves
    <3>2. <<alerts[x].read, alerts[x].domain>> \in correlated[p.session]
      BY <1>3 DEF PairsInv, PairsComplete
    <3>3. QED  BY <3>1, <3>2 DEF Escalated
  <2>2. QED  BY <2>1
<1>17. ASSUME NEW s \in Session, NEW x \in Of(s, "escalation")'
       PROVE  /\ <<alerts'[x].read, alerts'[x].domain>> \in correlated'[s]
              /\ \A y \in Of(s, "escalation")' : Halves(s, x)' = Halves(s, y)' => x = y
  <2>1. \A y \in Of(s, "escalation") : /\ y \in DOMAIN alerts /\ alerts'[y] = alerts[y]
                                       /\ Halves(s, y)' = Halves(s, y)
    BY <1>7, <1>8
  <2>2. CASE x \in Of(s, "escalation")
    <3>1. <<alerts'[x].read, alerts'[x].domain>> \in correlated'[s]
      BY <1>15, <2>1, <2>2 DEF PairsInv, PairsComplete
    <3>2. ASSUME NEW y \in Of(s, "escalation")', Halves(s, x)' = Halves(s, y)' PROVE x = y
      <4>1. CASE y \in Of(s, "escalation")
        BY <2>1, <2>2, <3>2, <4>1 DEF PairsInv, PairsComplete
      <4>2. CASE y = m /\ s = p.session  BY <1>9, <1>16, <2>1, <2>2, <3>2, <4>2
      <4>3. QED  BY <1>6, <3>2, <4>1, <4>2
    <3>3. QED  BY <3>1, <3>2
  <2>3. CASE x = m /\ s = p.session
    <3>1. <<alerts'[x].read, alerts'[x].domain>> \in correlated'[s]  BY <1>9, <1>15, <2>3
    <3>2. ASSUME NEW y \in Of(s, "escalation")', Halves(s, x)' = Halves(s, y)' PROVE x = y
      <4>1. CASE y \in Of(s, "escalation")  BY <1>9, <1>16, <2>1, <2>3, <3>2, <4>1
      <4>2. CASE y = m  BY <2>3, <4>2
      <4>3. QED  BY <1>6, <3>2, <4>1, <4>2
    <3>3. QED  BY <3>1, <3>2
  <2>4. QED  BY <1>6, <1>17, <2>2, <2>3
<1>18. ASSUME NEW s \in Session, s \notin refused', NEW mark \in correlated'[s]
       PROVE  \E x \in Of(s, "escalation")' : mark = <<alerts'[x].read, alerts'[x].domain>>
  <2>1. CASE mark \in correlated[s]
    <3>1. PICK x \in Of(s, "escalation") : mark = <<alerts[x].read, alerts[x].domain>>
      BY <1>2, <1>18, <2>1 DEF PairsInv, PairsComplete
    <3>2. x \in Of(s, "escalation")' /\ alerts'[x] = alerts[x]  BY <1>5, <1>6, <1>7
    <3>3. QED  BY <3>1, <3>2
  <2>2. CASE s = p.session /\ mark = <<p.read, p.domain>>  BY <1>6, <1>9, <2>2
  <2>3. QED  BY <1>15, <1>18, <2>1, <2>2
<1>19. ASSUME NEW s \in Session, s \notin refused', NEW r \in Of(s, "sensitive_read")',
              NEW d \in Of(s, "new_domain")', Near(r, d)'
       PROVE  \/ PairOf(s, r, d)' \in pairs'
              \/ \E x \in Of(s, "escalation")' : Halves(s, x)' = PairOf(s, r, d)'
  <2>1. /\ r \in Of(s, "sensitive_read") /\ d \in Of(s, "new_domain")
        /\ r \in DOMAIN alerts /\ d \in DOMAIN alerts
    BY <1>6, <1>7, <1>19
  <2>2. Near(r, d) /\ PairOf(s, r, d)' = PairOf(s, r, d)  BY <1>8, <1>19, <2>1
  <2>3. \/ PairOf(s, r, d) \in pairs
        \/ \E x \in Of(s, "escalation") : Halves(s, x) = PairOf(s, r, d)
    BY <1>2, <1>19, <2>1, <2>2 DEF PairsInv, PairsComplete
  <2>4. CASE PairOf(s, r, d) \in pairs \ {p}  BY <1>2, <2>2, <2>4
  <2>5. CASE PairOf(s, r, d) = p
    <3>1. p.session = s  BY <2>5 DEF PairOf
    <3>2. m \in Of(s, "escalation")' /\ Halves(s, m)' = p  BY <1>6, <1>9, <3>1
    <3>3. QED  BY <2>2, <2>5, <3>2
  <2>6. ASSUME NEW x \in Of(s, "escalation"), Halves(s, x) = PairOf(s, r, d)
        PROVE  \E y \in Of(s, "escalation")' : Halves(s, y)' = PairOf(s, r, d)'
    <3>1. x \in Of(s, "escalation")' /\ Halves(s, x)' = Halves(s, x)  BY <1>6, <1>7, <1>8
    <3>2. QED  BY <2>2, <2>6, <3>1
  <2>7. QED  BY <2>3, <2>4, <2>5, <2>6
<1>20. PairsComplete'  BY <1>17, <1>18, <1>19 DEF PairsComplete
<1>21. QED  BY <1>10, <1>11, <1>14, <1>20 DEF PairsInv

\* Nothing else disturbs the pairs.
LEMMA PairsStep == AlertTypes /\ PairsInv /\ [AlertNext]_alertVars => PairsInv'
<1> SUFFICES ASSUME AlertTypes, PairsInv, [AlertNext]_alertVars PROVE PairsInv'
  OBVIOUS
<1>1. ASSUME alerts' = alerts
      PROVE  /\ \A s, rule : Of(s, rule)' = Of(s, rule)
             /\ \A i : EntryOf(i)' = EntryOf(i)
             /\ \A r, d : Near(r, d)' = Near(r, d)
             /\ \A s, r, d : PairOf(s, r, d)' = PairOf(s, r, d)
             /\ \A s, x : Halves(s, x)' = Halves(s, x)
  BY <1>1 DEF Of, EntryOf, Near, PairOf, Halves
<1>2. ASSUME UNCHANGED <<clock, reads, domains, alerts>>
      PROVE  Lists(reads, "sensitive_read")' /\ Lists(domains, "new_domain")'
  BY <1>1, <1>2 DEF PairsInv, Lists
<1>3. CASE UNCHANGED <<clock, reads, domains, correlated, alertIdx, pairs, alerts, refused>>
  <2>1. AlertsOrdered'  BY <1>3 DEF PairsInv, AlertsOrdered
  <2>2. PairsHonest'  BY <1>1, <1>3 DEF PairsInv, PairsHonest
  <2>3. PairsComplete'  BY <1>1, <1>3 DEF PairsInv, PairsComplete
  <2>4. QED  BY <1>2, <1>3, <2>1, <2>2, <2>3 DEF PairsInv
<1>4. CASE Elapse
  <2>1. clock \in Nat /\ clock' = clock + 1
        /\ UNCHANGED <<reads, domains, correlated, alertIdx, pairs, alerts, refused>>
    BY <1>4 DEF Elapse, AlertTypes
  <2>2. \A i \in DOMAIN alerts : alerts[i].at \in Nat
    <3>1. alerts \in Seq(RuleAlert \cup Escalation)  BY DEF AlertTypes
    <3>2. \A i \in DOMAIN alerts : alerts[i] \in RuleAlert \cup Escalation  BY <3>1
    <3>3. QED  BY <3>2 DEF RuleAlert, Escalation
  <2>3. AlertsOrdered'  BY <2>1, <2>2 DEF PairsInv, AlertsOrdered
  <2>4. ASSUME NEW s, NEW rule, NEW i \in Of(s, rule), alerts[i].at + TrifectaWindow >= clock'
        PROVE  alerts[i].at + TrifectaWindow >= clock
    BY <2>1, <2>2, <2>4, AlertAssumption DEF Of
  <2>5. Lists(reads, "sensitive_read")'  BY <1>1, <2>1, <2>4 DEF PairsInv, Lists
  <2>6. Lists(domains, "new_domain")'  BY <1>1, <2>1, <2>4 DEF PairsInv, Lists
  <2>7. PairsHonest'  BY <1>1, <2>1 DEF PairsInv, PairsHonest
  <2>8. PairsComplete'  BY <1>1, <2>1 DEF PairsInv, PairsComplete
  <2>9. QED  BY <2>3, <2>5, <2>6, <2>7, <2>8 DEF PairsInv
<1>5. CASE SinkAlert  BY <1>5, SinkAlertPairs
<1>6. ASSUME NEW p \in pairs, SinkEscalation(p) PROVE PairsInv'
  <2>1. CASE ~Escalated(p)  BY <1>6, <2>1, SinkEscalationPairs
  <2>2. CASE Escalated(p)
    <3>1. pairs' = pairs \ {p}
          /\ UNCHANGED <<clock, reads, domains, correlated, alertIdx, alerts, refused>>
      BY <1>6, <2>2 DEF SinkEscalation
    <3>2. AlertsOrdered'  BY <3>1 DEF PairsInv, AlertsOrdered
    <3>3. PairsHonest'  BY <1>1, <3>1 DEF PairsInv, PairsHonest
    <3>4. ASSUME NEW s \in Session \ refused, NEW r, NEW d, PairOf(s, r, d) = p
          PROVE  \E x \in Of(s, "escalation") : Halves(s, x) = PairOf(s, r, d)
      <4>1. s = p.session /\ p = [session |-> s, read |-> p.read, domain |-> p.domain]
        BY <3>4 DEF PairOf
      <4>2. <<p.read, p.domain>> \in correlated[s]  BY <2>2, <4>1 DEF Escalated
      <4>3. PICK x \in Of(s, "escalation") : <<p.read, p.domain>> = <<alerts[x].read, alerts[x].domain>>
        BY <4>2 DEF PairsInv, PairsComplete
      <4>4. Halves(s, x) = p  BY <4>1, <4>3 DEF Halves
      <4>5. QED  BY <3>4, <4>4
    <3>5. PairsComplete'  BY <1>1, <3>1, <3>4 DEF PairsInv, PairsComplete
    <3>6. QED  BY <1>2, <3>1, <3>2, <3>3, <3>5 DEF PairsInv
  <2>3. QED  BY <2>1, <2>2
<1>7. ASSUME NEW s \in Session, Refuse(s),
             \A p \in pairs : p.session = s,
             \A t \in Session : correlated[t] \subseteq correlated'[t],
             \A t \in Session \ {s} : correlated'[t] = correlated[t]
      PROVE  PairsInv'
  <2>1. /\ alertIdx' = [alertIdx EXCEPT ![s] = @ + 1] /\ refused' = refused \cup {s}
        /\ pairs' = {} /\ UNCHANGED <<clock, reads, domains, alerts>>
    BY <1>7 DEF Refuse, NextIdx
  <2>2. AlertsOrdered'
    <3>1. \A t \in Session : alertIdx[t] \in Nat /\ alertIdx'[t] >= alertIdx[t]
      BY <2>1 DEF AlertTypes
    <3>2. \A i \in DOMAIN alerts : alerts[i].idx \in Nat /\ alerts[i].session \in Session
      <4>1. alerts \in Seq(RuleAlert \cup Escalation)  BY DEF AlertTypes
      <4>2. \A i \in DOMAIN alerts : alerts[i] \in RuleAlert \cup Escalation  BY <4>1
      <4>3. QED  BY <4>2 DEF RuleAlert, Escalation
    <3>3. alertIdx' \in [Session -> Nat]  BY <2>1 DEF AlertTypes
    <3>4. \A i \in DOMAIN alerts : alerts[i].idx < alertIdx'[alerts[i].session]
      BY <3>1, <3>2, <3>3 DEF PairsInv, AlertsOrdered
    <3>5. QED  BY <2>1, <3>4 DEF PairsInv, AlertsOrdered
  <2>3. PairsHonest'  BY <1>1, <2>1 DEF PairsInv, PairsHonest
  <2>4. \A t \in Session : \A r, d : t # s => PairOf(t, r, d) \notin pairs
    BY <1>7 DEF PairOf
  <2>5. PairsComplete'  BY <1>1, <1>7, <2>1, <2>4 DEF PairsInv, PairsComplete
  <2>6. QED  BY <1>2, <2>1, <2>2, <2>3, <2>5 DEF PairsInv
<1>8. CASE AlertRefused
  <2>1. todo \in Seq(Firing) /\ todo # <<>> /\ pairs = {}  BY <1>8 DEF AlertRefused, AlertTypes
  <2>2. Head(todo) \in Firing  BY <2>1
  <2>3. Head(todo).session \in Session  BY <2>2 DEF Firing
  <2>4. QED  BY <1>7, <1>8, <2>1, <2>3 DEF AlertRefused
<1>9. ASSUME NEW p \in pairs, EscalationRefused(p) PROVE PairsInv'
  <2>1. p.session \in Session  BY DEF AlertTypes, Pair
  <2>2. correlated' = [correlated EXCEPT ![p.session] = @ \cup {<<p.read, p.domain>>}]
    BY <1>9 DEF EscalationRefused, Mark
  <2>3. correlated \in [Session -> SUBSET (Nat \X Nat)]  BY DEF AlertTypes
  <2>4. \A q \in pairs : q.session = p.session  BY DEF PairsInv, PairsHonest
  <2>5. QED  BY <1>7, <1>9, <2>1, <2>2, <2>3, <2>4 DEF EscalationRefused
<1>10. CASE \E k \in Kind, s \in Session : \E h \in HostsOf(k) :
               Observe([kind |-> k, session |-> s, host |-> h])
  BY <1>3, <1>10 DEF Observe
<1>11. CASE UNCHANGED alertVars  BY <1>3, <1>11 DEF alertVars
<1>12. QED  BY <1>4, <1>5, <1>6, <1>8, <1>9, <1>10, <1>11 DEF AlertNext

\* With nothing left to do, the pairs that lie in the window are those escalated.
LEMMA PairsAreRight == AlertTypes /\ PairsInv => EscalationsRight
<1> SUFFICES ASSUME AlertTypes, PairsInv PROVE EscalationsRight
  OBVIOUS
<1> USE DEF PairsInv
<1>1. PairsEscalated
  <2> SUFFICES ASSUME NothingToSink, NEW s \in Session \ refused,
                      NEW r \in Of(s, "sensitive_read"), NEW d \in Of(s, "new_domain")
               PROVE  Cardinality({x \in Of(s, "escalation") :
                                     /\ alerts[x].read = alerts[r].idx
                                     /\ alerts[x].domain = alerts[d].idx})
                        = (IF Near(r, d) THEN 1 ELSE 0)
    BY DEF PairsEscalated, Near
  <2> DEFINE those == {x \in Of(s, "escalation") :
                         alerts[x].read = alerts[r].idx /\ alerts[x].domain = alerts[d].idx}
  <2>1. \A x \in Of(s, "escalation") : x \in those <=> Halves(s, x) = PairOf(s, r, d)
    BY DEF Halves, PairOf
  <2>2. those \subseteq Of(s, "escalation")  OBVIOUS
  <2> HIDE DEF those
  <2>3. CASE Near(r, d)
    <3>1. PairOf(s, r, d) \notin pairs  BY DEF NothingToSink
    <3>2. PICK x \in Of(s, "escalation") : Halves(s, x) = PairOf(s, r, d)
      BY <2>3, <3>1 DEF PairsComplete
    <3>3. \A y \in those : y = x
      <4>1. \A y \in Of(s, "escalation") : Halves(s, x) = Halves(s, y) => x = y
        BY <3>2 DEF PairsComplete
      <4>2. QED  BY <2>1, <2>2, <3>2, <4>1
    <3>4. those = {x}  BY <2>1, <3>2, <3>3
    <3>5. Cardinality(those) = 1  BY <3>4, FS_Singleton
    <3>6. QED  BY <2>3, <3>5 DEF those
  <2>4. CASE ~Near(r, d)
    <3>1. ASSUME NEW x \in those PROVE FALSE
      <4>1. PICK q \in Of(s, "sensitive_read"), e \in Of(s, "new_domain") :
               Near(q, e) /\ Halves(s, x) = PairOf(s, q, e)
        BY <2>2, <3>1 DEF PairsHonest
      <4>2. PairOf(s, q, e) = PairOf(s, r, d)  BY <2>1, <2>2, <4>1
      <4>3. alerts[q].idx = alerts[r].idx /\ alerts[e].idx = alerts[d].idx
        BY <4>2 DEF PairOf
      <4>4. q = r  BY <4>3, OfAlerts, IndicesDiffer
      <4>5. e = d  BY <4>3, OfAlerts, IndicesDiffer
      <4>6. QED  BY <2>4, <4>1, <4>4, <4>5
    <3>2. those = {}  BY <3>1
    <3>3. Cardinality(those) = 0  BY <3>2, FS_EmptySet
    <3>4. QED  BY <2>4, <3>3 DEF those
  <2>5. QED  BY <2>3, <2>4
<1>2. EscalationFollowsItsPair
  <2> SUFFICES ASSUME NEW s \in Session, NEW x \in Of(s, "escalation")
               PROVE  /\ \E r \in Of(s, "sensitive_read") : r < x /\ alerts[r].idx = alerts[x].read
                      /\ \E d \in Of(s, "new_domain") : d < x /\ alerts[d].idx = alerts[x].domain
    BY DEF EscalationFollowsItsPair
  <2>1. PICK r \in Of(s, "sensitive_read"), d \in Of(s, "new_domain") :
           r < x /\ d < x /\ Near(r, d) /\ Halves(s, x) = PairOf(s, r, d)
    BY DEF PairsHonest
  <2>2. alerts[r].idx = alerts[x].read /\ alerts[d].idx = alerts[x].domain
    BY <2>1 DEF Halves, PairOf
  <2>3. QED  BY <2>1, <2>2
<1>3. QED  BY <1>1, <1>2 DEF EscalationsRight

\* At the start there is no alert, and no pair.
LEMMA AlertsStart == AlertInit => AlertTypes /\ PairsInv
<1> SUFFICES ASSUME AlertInit PROVE AlertTypes /\ PairsInv
  OBVIOUS
<1> USE DEF AlertInit
<1>1. AlertTypes
  <2>1. /\ times \in [Session -> [Class -> SUBSET Stamp]]
        /\ burstArmed \in [Session -> [Class -> BOOLEAN]]
        /\ reads \in [Session -> SUBSET Entry] /\ domains \in [Session -> SUBSET Entry]
        /\ correlated \in [Session -> SUBSET (Nat \X Nat)]
        /\ alertIdx \in [Session -> Nat]
    OBVIOUS
  <2>2. QED  BY <2>1 DEF AlertTypes
<1>2. \A s, rule : Of(s, rule) = {}  BY DEF Of
<1>3. AlertsOrdered  BY DEF AlertsOrdered
<1>4. Lists(reads, "sensitive_read") /\ Lists(domains, "new_domain")  BY <1>2 DEF Lists
<1>5. PairsHonest /\ PairsComplete  BY <1>2 DEF PairsHonest, PairsComplete
<1>6. QED  BY <1>1, <1>3, <1>4, <1>5 DEF PairsInv

\* Whatever the sink refuses and however time passes between two of its calls,
\* a sensitive read and a new destination are escalated together exactly if they
\* were alerted within the window of each other, once, and behind both of them:
\* for any number of sessions and events, and any window.
THEOREM EscalationsHold == AlertSpec => []EscalationsRight
<1>1. AlertInit => AlertTypes /\ PairsInv  BY AlertsStart
<1>2. AlertTypes /\ PairsInv /\ [AlertNext]_alertVars => (AlertTypes /\ PairsInv)'
  BY AlertTypesStep, PairsStep
<1>3. AlertTypes /\ PairsInv => EscalationsRight  BY PairsAreRight
<1>4. QED  BY <1>1, <1>2, <1>3, PTL DEF AlertSpec

\* The events of class c that lie in the burst window that ends with the i-th.
InRate(i, s, c) ==
    {j \in 1 .. i : observed[j].session = s /\ c \in BurstClassOf(observed[j].kind)
                      /\ observed[j].at + BurstWindow > observed[i].at}

\* An event that is observed: it changes nothing of the rates before it.
LEMMA ObservedAppended ==
    ASSUME AlertTypes, NEW o \in Observation, observed' = Append(observed, o),
           NEW m, m = Len(observed) + 1
    PROVE  /\ m \in Nat \ {0} /\ DOMAIN observed = 1 .. m - 1 /\ DOMAIN observed' = 1 .. m
           /\ observed'[m] = o /\ \A i \in DOMAIN observed : observed'[i] = observed[i]
           /\ \A s, c : Own(s, c)' = IF o.session = s /\ c \in BurstClassOf(o.kind)
                                     THEN Own(s, c) \cup {m} ELSE Own(s, c)
           /\ \A s, c : \A i \in DOMAIN observed : Over(i, s, c)' = Over(i, s, c)
<1>1. observed \in Seq(Observation)  BY DEF AlertTypes
<1>2. /\ m \in Nat \ {0} /\ DOMAIN observed = 1 .. m - 1 /\ DOMAIN observed' = 1 .. m
      /\ observed'[m] = o /\ \A i \in DOMAIN observed : observed'[i] = observed[i]
  BY <1>1
<1>3. ASSUME NEW s, NEW c
      PROVE  Own(s, c)' = IF o.session = s /\ c \in BurstClassOf(o.kind)
                          THEN Own(s, c) \cup {m} ELSE Own(s, c)
  BY <1>2 DEF Own
<1>4. ASSUME NEW s, NEW c, NEW i \in DOMAIN observed PROVE Over(i, s, c)' = Over(i, s, c)
  <2>1. \A j \in 1 .. i : observed'[j] = observed[j]  BY <1>2
  <2>2. InRate(i, s, c)' = InRate(i, s, c)  BY <1>2, <2>1 DEF InRate
  <2>3. QED  BY <2>2 DEF Over, Rate, InRate
<1>5. QED  BY <1>2, <1>3, <1>4

\* The members of Edges, by name.
LEMMA EdgesAre ==
    ASSUME AlertTypes, NEW s, NEW c
    PROVE  /\ Edges(s, c) = {i \in Own(s, c) : Over(i, s, c) /\
                  \A j \in Own(s, c) :
                      (j < i /\ \A k \in Own(s, c) : ~(j < k /\ k < i)) => ~Over(j, s, c)}
           /\ IsFiniteSet(Edges(s, c)) /\ Edges(s, c) \subseteq DOMAIN observed
<1>1. Edges(s, c) = {i \in Own(s, c) : Over(i, s, c) /\
          \A j \in Own(s, c) :
              (j < i /\ \A k \in Own(s, c) : ~(j < k /\ k < i)) => ~Over(j, s, c)}
  BY DEF Edges, Over, Own
<1>2. observed \in Seq(Observation)  BY DEF AlertTypes
<1>3. DOMAIN observed = 1 .. Len(observed) /\ Len(observed) \in Nat  BY <1>2
<1>4. IsFiniteSet(DOMAIN observed)  BY <1>3, FS_Interval
<1>5. Edges(s, c) \subseteq DOMAIN observed  BY <1>1 DEF Own
<1>6. QED  BY <1>1, <1>4, <1>5, FS_Subset

\* What the rule counts in its window is the rate at the event it is asked about.
LEMMA KeptIsRate ==
    ASSUME AlertTypes, WindowsOK, NEW ev \in [kind : Kind, session : Session, host : Host],
           Observe(ev), NEW c \in BurstClassOf(ev.kind), NEW m, m = Len(observed) + 1
    PROVE  /\ Cardinality(Kept(ev, c)) \in Nat
           /\ Over(m, ev.session, c)' <=> Cardinality(Kept(ev, c)) >= BurstThreshold
<1>1. PICK o : o = [kind |-> ev.kind, session |-> ev.session, at |-> clock]  OBVIOUS
<1>2. clock \in Nat /\ clock' = clock /\ o \in Observation /\ observed' = Append(observed, o)
      /\ o.session = ev.session /\ o.kind = ev.kind /\ o.at = clock
  BY <1>1 DEF AlertTypes, Observe, Observation
<1>3. /\ m \in Nat \ {0} /\ DOMAIN observed = 1 .. m - 1 /\ DOMAIN observed' = 1 .. m
      /\ observed'[m] = o /\ \A i \in DOMAIN observed : observed'[i] = observed[i]
      /\ Own(ev.session, c)' = Own(ev.session, c) \cup {m}
  BY <1>2, ObservedAppended
<1>4. ev.session \in Session /\ c \in Class /\ BurstWindow \in Nat \ {0}
  BY AlertAssumption DEF Kind, BurstClassOf, Class
<1> DEFINE s == ev.session
           R == {j \in 1 .. m : observed'[j].session = s /\ c \in BurstClassOf(observed'[j].kind)
                                  /\ observed'[j].at + BurstWindow > clock}
           K == Kept(ev, c)
           stamp(j) == [n |-> j, at |-> observed'[j].at]
<1>5. Rate(m, s, c)' = Cardinality(R)  BY <1>2, <1>3 DEF Rate
<1>6. m \in R /\ stamp(m) = [n |-> Len(observed) + 1, at |-> clock]  BY <1>2, <1>3, <1>4
<1>7. ASSUME NEW j \in R, j # m
      PROVE  j \in Own(s, c) /\ observed[j].at + BurstWindow > clock /\ stamp(j) = StampOf(j)
  <2>1. j \in DOMAIN observed  BY <1>3, <1>7
  <2>2. observed'[j] = observed[j]  BY <1>3, <2>1
  <2>3. QED  BY <2>1, <2>2 DEF Own, StampOf
<1>8. \A j \in Own(s, c) : observed[j].at + BurstWindow > clock =>
         j \in R /\ stamp(j) = StampOf(j)
  BY <1>3 DEF Own, StampOf
<1>9. /\ \A e \in times[s][c] : \E i \in Own(s, c) : e = StampOf(i)
      /\ \A i \in Own(s, c) : observed[i].at + BurstWindow > clock => StampOf(i) \in times[s][c]
  BY <1>4 DEF WindowsOK
<1>10. K = {stamp(j) : j \in R}
  <2>1. ASSUME NEW e \in K PROVE \E j \in R : e = stamp(j)
    <3>1. CASE e = [n |-> Len(observed) + 1, at |-> clock]  BY <1>6, <3>1
    <3>2. CASE e \in times[s][c] /\ e.at + BurstWindow > clock
      <4>1. PICK i \in Own(s, c) : e = StampOf(i)  BY <1>9, <3>2
      <4>2. observed[i].at + BurstWindow > clock  BY <3>2, <4>1 DEF StampOf
      <4>3. QED  BY <1>8, <4>1, <4>2
    <3>3. QED  BY <2>1, <3>1, <3>2 DEF Kept, InBurst
  <2>2. ASSUME NEW j \in R PROVE stamp(j) \in K
    <3>1. CASE j = m  BY <1>6, <3>1 DEF Kept
    <3>2. CASE j # m
      <4>1. /\ StampOf(j) \in times[s][c] /\ stamp(j) = StampOf(j)
            /\ StampOf(j).at + BurstWindow > clock
        BY <1>7, <1>9, <3>2 DEF StampOf
      <4>2. QED  BY <4>1 DEF Kept, InBurst
    <3>3. QED  BY <3>1, <3>2
  <2>3. QED  BY <2>1, <2>2
<1>11. IsFiniteSet(R)
  <2>0. IsFiniteSet(1 .. m)  BY <1>3, FS_Interval
  <2>1. R \subseteq 1 .. m /\ IsFiniteSet(1 .. m)  BY <2>0
  <2>2. QED  BY <2>1, FS_Subset
<1> HIDE DEF R, K
<1>12. ExistsBijection(R, K)
  <2> DEFINE f == [j \in R |-> stamp(j)]
  <2>1. f \in [R -> K]  BY <1>10
  <2>2. \A j, k \in R : f[j] = f[k] => j = k  OBVIOUS
  <2>3. \A e \in K : \E j \in R : f[j] = e  BY <1>10
  <2>4. f \in Bijection(R, K)  BY <2>1, <2>2, <2>3 DEF Bijection, Injection, Surjection, IsInjective
  <2>5. QED  BY <2>4 DEF ExistsBijection
<1>13. Cardinality(K) = Cardinality(R) /\ Cardinality(K) \in Nat
  BY <1>11, <1>12, FS_Bijection, FS_CardinalityType
<1>14. QED  BY <1>5, <1>13 DEF Over, K

\* A new event is a rise to the threshold if it finds its rule armed and is over
\* the threshold; what the events before it were does not change.
LEMMA EdgesGrow ==
    ASSUME AlertTypes, WindowsOK, NEW ev \in [kind : Kind, session : Session, host : Host],
           Observe(ev), NEW m, m = Len(observed) + 1, NEW s \in Session, NEW c \in Class
    PROVE  Edges(s, c)' = IF /\ s = ev.session /\ c \in BurstClassOf(ev.kind)
                             /\ Over(m, s, c)' /\ burstArmed[s][c]
                          THEN Edges(s, c) \cup {m} ELSE Edges(s, c)
<1>1. PICK o : o = [kind |-> ev.kind, session |-> ev.session, at |-> clock]  OBVIOUS
<1>2. o \in Observation /\ observed' = Append(observed, o)
      /\ o.session = ev.session /\ o.kind = ev.kind
  BY <1>1 DEF AlertTypes, Observe, Observation
<1>3. /\ m \in Nat \ {0} /\ DOMAIN observed = 1 .. m - 1 /\ DOMAIN observed' = 1 .. m
      /\ Own(s, c)' = IF s = ev.session /\ c \in BurstClassOf(ev.kind)
                      THEN Own(s, c) \cup {m} ELSE Own(s, c)
      /\ \A i \in DOMAIN observed : Over(i, s, c)' = Over(i, s, c)
  BY <1>2, ObservedAppended
<1>4. Own(s, c) \subseteq 1 .. m - 1  BY <1>3 DEF Own
<1> DEFINE O == Own(s, c)
           P == Own(s, c)'
           First(i) == \A j \in O : (j < i /\ \A k \in O : ~(j < k /\ k < i)) => ~Over(j, s, c)
           FirstP(i) == \A j \in P : (j < i /\ \A k \in P : ~(j < k /\ k < i)) => ~Over(j, s, c)'
<1>5. Edges(s, c) = {i \in O : Over(i, s, c) /\ First(i)}  BY DEF Edges, Over, Own
<1>6. Edges(s, c)' = {i \in P : Over(i, s, c)' /\ FirstP(i)}  BY DEF Edges, Over, Own
<1>7. ASSUME NEW i \in 1 .. m - 1 PROVE i \in Edges(s, c)' <=> i \in Edges(s, c)
  <2>1. \A j \in P : j < i => j \in O  BY <1>3, <1>4, <1>7
  <2>2. O \subseteq P /\ (i \in P <=> i \in O)  BY <1>3, <1>7
  <2>3. \A j \in O : Over(j, s, c)' = Over(j, s, c)  BY <1>3, <1>4
  <2>4. \A j \in O : (\A k \in P : ~(j < k /\ k < i)) <=> (\A k \in O : ~(j < k /\ k < i))
    BY <2>1, <2>2
  <2> HIDE DEF O, P
  <2>5. First(i) <=> FirstP(i)  BY <2>1, <2>2, <2>3, <2>4
  <2>6. i \in O => Over(i, s, c)' = Over(i, s, c)  BY <2>3
  <2> HIDE DEF First, FirstP
  <2>7. QED  BY <1>5, <1>6, <2>2, <2>5, <2>6
<1>8. Edges(s, c)' \subseteq 1 .. m /\ Edges(s, c) \subseteq 1 .. m - 1
  <2>1. P \subseteq 1 .. m  BY <1>3, <1>4
  <2>2. QED  BY <1>4, <1>5, <1>6, <2>1
<1>9. ASSUME s = ev.session, c \in BurstClassOf(ev.kind)
      PROVE  FirstP(m) <=> burstArmed[s][c]
  <2>1. P = O \cup {m}  BY <1>3, <1>9
  <2>2. \A j \in O : (\A k \in P : ~(j < k /\ k < m)) <=> (\A k \in O : k <= j)
    BY <1>3, <1>4, <2>1
  <2>3. \A j \in O : j < m /\ Over(j, s, c)' = Over(j, s, c)  BY <1>3, <1>4
  <2>4. burstArmed[s][c] <=> \A j \in O : (\A k \in O : k <= j) => ~Over(j, s, c)
    BY DEF WindowsOK
  <2> HIDE DEF O, P
  <2>5. QED  BY <1>3, <2>1, <2>2, <2>3, <2>4
<1>10. m \in Edges(s, c)' <=> /\ s = ev.session /\ c \in BurstClassOf(ev.kind)
                              /\ Over(m, s, c)' /\ burstArmed[s][c]
  <2>1. m \in P <=> s = ev.session /\ c \in BurstClassOf(ev.kind)  BY <1>3, <1>4
  <2> HIDE DEF P, FirstP
  <2>2. QED  BY <1>6, <1>9, <2>1
<1> DEFINE E == Edges(s, c)
           F == Edges(s, c)'
           New == /\ s = ev.session /\ c \in BurstClassOf(ev.kind)
                  /\ Over(m, s, c)' /\ burstArmed[s][c]
<1> HIDE DEF E, F, New
<1>11. /\ \A i \in 1 .. m - 1 : i \in F <=> i \in E
       /\ F \subseteq 1 .. m /\ E \subseteq 1 .. m - 1 /\ m \in Nat \ {0} /\ (m \in F <=> New)
  BY <1>3, <1>7, <1>8, <1>10 DEF E, F, New
<1>12. F = IF New THEN E \cup {m} ELSE E
  <2>1. \A i \in F : i \in E \/ i = m  BY <1>11
  <2>2. \A i \in E : i \in F /\ i # m  BY <1>11
  <2>3. CASE New  BY <1>11, <2>1, <2>2, <2>3
  <2>4. CASE ~New
    <3>1. m \notin F  BY <1>11, <2>4
    <3>2. F = E  BY <2>1, <2>2, <3>1
    <3>3. QED  BY <2>4, <3>2
  <2>5. QED  BY <2>3, <2>4
<1>13. QED  BY <1>12 DEF E, F, New

\* The windows after an event was observed.
LEMMA ObserveWindows ==
    ASSUME AlertTypes, WindowsOK, NEW ev \in [kind : Kind, session : Session, host : Host],
           Observe(ev)
    PROVE  WindowsOK'
<1>0. PICK m : m = Len(observed) + 1  OBVIOUS
<1>1. PICK o : o = [kind |-> ev.kind, session |-> ev.session, at |-> clock]  OBVIOUS
<1>2. clock \in Nat /\ clock' = clock /\ o \in Observation /\ observed' = Append(observed, o)
      /\ o.session = ev.session /\ o.kind = ev.kind /\ o.at = clock
  BY <1>1 DEF AlertTypes, Observe, Observation
<1>3. /\ m \in Nat \ {0} /\ DOMAIN observed = 1 .. m - 1 /\ DOMAIN observed' = 1 .. m
      /\ observed'[m] = o /\ \A i \in DOMAIN observed : observed'[i] = observed[i]
      /\ \A s, c : Own(s, c)' = IF s = ev.session /\ c \in BurstClassOf(ev.kind)
                                THEN Own(s, c) \cup {m} ELSE Own(s, c)
      /\ \A s, c : \A i \in DOMAIN observed : Over(i, s, c)' = Over(i, s, c)
  BY <1>0, <1>2, ObservedAppended
<1>4. \A i \in DOMAIN observed' : observed'[i].at <= clock'
  BY <1>2, <1>3 DEF WindowsOK
<1>5. /\ \A s \in Session, c \in Class :
            times'[s][c] = IF s = ev.session /\ c \in BurstClassOf(ev.kind)
                           THEN Kept(ev, c) ELSE times[s][c]
      /\ \A s \in Session, c \in Class :
            burstArmed'[s][c] <=> IF s = ev.session /\ c \in BurstClassOf(ev.kind)
                                  THEN Cardinality(Kept(ev, c)) < BurstThreshold
                                  ELSE burstArmed[s][c]
  BY DEF Observe, AlertTypes
<1>6. ASSUME NEW s \in Session, NEW c \in Class
      PROVE  /\ \A i \in Own(s, c) : /\ i \in DOMAIN observed /\ i < m
                                     /\ observed'[i] = observed[i] /\ StampOf(i)' = StampOf(i)
             /\ \A i : i = m => StampOf(i)' = [n |-> Len(observed) + 1, at |-> clock]
  <2>1. Own(s, c) \subseteq DOMAIN observed  BY DEF Own
  <2>2. QED  BY <1>0, <1>2, <1>3, <2>1 DEF StampOf
<1>7. ASSUME NEW s \in Session, NEW c \in Class
      PROVE  /\ \A e \in times'[s][c] : \E i \in Own(s, c)' : e = StampOf(i)'
             /\ \A i \in Own(s, c)' : observed'[i].at + BurstWindow > clock' =>
                                         StampOf(i)' \in times'[s][c]
             /\ burstArmed'[s][c] <=>
                   \A i \in Own(s, c)' : (\A k \in Own(s, c)' : k <= i) => ~Over(i, s, c)'
  <2>1. /\ \A e \in times[s][c] : \E i \in Own(s, c) : e = StampOf(i)
        /\ \A i \in Own(s, c) : observed[i].at + BurstWindow > clock => StampOf(i) \in times[s][c]
        /\ burstArmed[s][c] <=>
              \A i \in Own(s, c) : (\A k \in Own(s, c) : k <= i) => ~Over(i, s, c)
    BY DEF WindowsOK
  <2>2. CASE s = ev.session /\ c \in BurstClassOf(ev.kind)
    <3>1. Own(s, c)' = Own(s, c) \cup {m} /\ times'[s][c] = Kept(ev, c)  BY <1>3, <1>5, <2>2
    <3>2. ASSUME NEW e \in times'[s][c] PROVE \E i \in Own(s, c)' : e = StampOf(i)'
      <4>1. e \in times[s][c] \/ e = [n |-> Len(observed) + 1, at |-> clock]
        BY <2>2, <3>1, <3>2 DEF Kept, InBurst
      <4>2. CASE e \in times[s][c]
        <5>1. PICK i \in Own(s, c) : e = StampOf(i)  BY <2>1, <4>2
        <5>2. i \in Own(s, c)' /\ e = StampOf(i)'  BY <1>6, <3>1, <5>1
        <5>3. QED  BY <5>2
      <4>3. CASE e = [n |-> Len(observed) + 1, at |-> clock]
        <5>1. m \in Own(s, c)'  BY <3>1
        <5>2. \A i : i = m => e = StampOf(i)'  BY <1>6, <4>3
        <5>3. QED  BY <5>1, <5>2
      <4>4. QED  BY <4>1, <4>2, <4>3
    <3>3. ASSUME NEW i \in Own(s, c)', observed'[i].at + BurstWindow > clock'
          PROVE  StampOf(i)' \in times'[s][c]
      <4>1. CASE i = m
        <5>1. StampOf(i)' = [n |-> Len(observed) + 1, at |-> clock]  BY <1>6, <4>1
        <5>2. QED  BY <3>1, <5>1 DEF Kept
      <4>2. CASE i \in Own(s, c)
        <5>1. observed[i].at + BurstWindow > clock /\ StampOf(i)' = StampOf(i)
          BY <1>2, <1>6, <3>3, <4>2
        <5>2. StampOf(i) \in times[s][c] /\ StampOf(i).at = observed[i].at
          BY <2>1, <4>2, <5>1 DEF StampOf
        <5>3. QED  BY <2>2, <3>1, <5>1, <5>2 DEF Kept, InBurst
      <4>3. QED  BY <3>1, <3>3, <4>1, <4>2
    <3>4. Over(m, s, c)' <=> Cardinality(Kept(ev, c)) >= BurstThreshold
      BY <1>0, <2>2, KeptIsRate
    <3>5. Cardinality(Kept(ev, c)) \in Nat /\ BurstThreshold \in Nat
      BY <2>2, KeptIsRate, AlertAssumption
    <3>6. burstArmed'[s][c] <=> ~Over(m, s, c)'  BY <1>5, <2>2, <3>4, <3>5
    <3>7. \A i \in Own(s, c)' : (\A k \in Own(s, c)' : k <= i) <=> i = m
      BY <1>3, <1>6, <3>1
    <3>8. m \in Own(s, c)'  BY <3>1
    <3>9. QED  BY <3>2, <3>3, <3>6, <3>7, <3>8
  <2>3. CASE ~(s = ev.session /\ c \in BurstClassOf(ev.kind))
    <3>1. /\ Own(s, c)' = Own(s, c) /\ times'[s][c] = times[s][c]
          /\ burstArmed'[s][c] <=> burstArmed[s][c]
      BY <1>3, <1>5, <2>3
    <3>2. \A i \in Own(s, c) : Over(i, s, c)' = Over(i, s, c)  BY <1>3, <1>6
    <3>3. QED  BY <1>2, <1>6, <2>1, <3>1, <3>2
  <2>4. QED  BY <2>2, <2>3
<1>8. QED  BY <1>4, <1>7 DEF WindowsOK

\* How many times the rate of a session rose to the threshold.
Rises(s) == Cardinality(Edges(s, "flow_dns")) + Cardinality(Edges(s, "fs.write_open"))

\* An event raises a rate exactly if it fires the rule.
LEMMA ObserveRises ==
    ASSUME AlertTypes, WindowsOK, NEW ev \in [kind : Kind, session : Session, host : Host],
           Observe(ev), NEW s \in Session
    PROVE  /\ Rises(s)' = IF s = ev.session /\ Bursts(ev) THEN Rises(s) + 1 ELSE Rises(s)
           /\ Rises(s) \in Nat
<1>0. PICK m : m = Len(observed) + 1  OBVIOUS
<1>1. m \notin DOMAIN observed
  <2>1. observed \in Seq(Observation)  BY DEF AlertTypes
  <2>2. QED  BY <1>0, <2>1
<1>2. \A c \in Class :
         /\ IsFiniteSet(Edges(s, c)) /\ Cardinality(Edges(s, c)) \in Nat
         /\ m \notin Edges(s, c)
  BY <1>1, EdgesAre, FS_CardinalityType
<1> DEFINE Up(c) == /\ s = ev.session /\ c \in BurstClassOf(ev.kind)
                    /\ Over(m, s, c)' /\ burstArmed[s][c]
<1>3. \A c \in Class : Edges(s, c)' = IF Up(c) THEN Edges(s, c) \cup {m} ELSE Edges(s, c)
  BY <1>0, EdgesGrow
<1>4. s = ev.session => (Bursts(ev) <=> \E c \in BurstClassOf(ev.kind) : Up(c))
  BY <1>0, KeptIsRate DEF Bursts
<1> HIDE DEF Up
<1>5. ASSUME NEW c \in Class
      PROVE  Cardinality(Edges(s, c)') = IF Up(c) THEN Cardinality(Edges(s, c)) + 1
                                         ELSE Cardinality(Edges(s, c))
  <2>1. CASE Up(c)
    <3>1. Edges(s, c)' = Edges(s, c) \cup {m}  BY <1>3, <2>1
    <3>2. QED  BY <1>2, <2>1, <3>1, FS_AddElement
  <2>2. CASE ~Up(c)  BY <1>3, <2>2
  <2>3. QED  BY <2>1, <2>2
<1>6. /\ "flow_dns" \in Class /\ "fs.write_open" \in Class
      /\ \A c \in BurstClassOf(ev.kind) : c = "flow_dns" \/ c = "fs.write_open"
      /\ ~("flow_dns" \in BurstClassOf(ev.kind) /\ "fs.write_open" \in BurstClassOf(ev.kind))
  BY DEF Class, Kind, BurstClassOf
<1>7. \A c : Up(c) => c \in BurstClassOf(ev.kind) /\ s = ev.session  BY DEF Up
<1>8. ~(Up("flow_dns") /\ Up("fs.write_open"))  BY <1>6, <1>7
<1>9. (s = ev.session /\ Bursts(ev)) <=> (Up("flow_dns") \/ Up("fs.write_open"))
  BY <1>4, <1>6, <1>7
<1>10. Rises(s)' = Cardinality(Edges(s, "flow_dns")') + Cardinality(Edges(s, "fs.write_open")')
  BY DEF Rises
<1>11. QED  BY <1>2, <1>5, <1>6, <1>8, <1>9, <1>10 DEF Rises

\* The firing of a rule waits behind the event that raised its rate.
LEMMA ObserveBursts ==
    ASSUME AlertTypes, BurstsInv, NEW ev \in [kind : Kind, session : Session, host : Host],
           Observe(ev)
    PROVE  BurstsInv'
<1>1. WindowsOK /\ BurstsCounted  BY DEF BurstsInv
<1>2. WindowsOK'  BY <1>1, ObserveWindows
<1>3. /\ todo = <<>> /\ pairs = {} /\ todo' = Firings(ev)
      /\ UNCHANGED <<pairs, alerts, refused>>
  BY DEF Observe, NothingToSink
<1> DEFINE F == Firings(ev)
           B == Bursts(ev)
<1>4. /\ F \in Seq(Firing)
      /\ \A i \in DOMAIN F : F[i].session = ev.session /\ (F[i].rule = "burst" <=> B /\ i = Len(F))
      /\ B => Len(F) # 0
  BY FiringsShape
<1> HIDE DEF F, B
<1>5. todo' = F  BY <1>3 DEF F
<1>6. DOMAIN F = 1 .. Len(F) /\ Len(F) \in Nat  BY <1>4
<1>7. ASSUME NEW s \in Session
      PROVE  Pending(s) = 0 /\ Pending(s)' = IF s = ev.session /\ B THEN 1 ELSE 0
  <2>1. Pending(s) = 0  BY <1>3 DEF Pending
  <2>2. (\E i \in DOMAIN F : F[i].rule = "burst" /\ F[i].session = s) <=> s = ev.session /\ B
    <3>1. CASE B
      <4>1. Len(F) \in DOMAIN F  BY <1>4, <1>6, <3>1
      <4>2. QED  BY <1>4, <3>1, <4>1
    <3>2. CASE ~B  BY <1>4, <3>2
    <3>3. QED  BY <3>1, <3>2
  <2>3. QED  BY <1>5, <2>1, <2>2 DEF Pending, IsBurst
<1>8. \A s : Of(s, "burst")' = Of(s, "burst")  BY <1>3 DEF Of
<1>9. \A s \in Session : Rises(s) \in Nat /\
         Rises(s)' = IF s = ev.session /\ B THEN Rises(s) + 1 ELSE Rises(s)
  BY <1>1, ObserveRises DEF B
<1>10. \A s \in Session \ refused : Cardinality(Of(s, "burst")) + Pending(s) = Rises(s)
  BY <1>1 DEF BurstsCounted, Rises
<1>11. ASSUME NEW s \in Session \ refused'
       PROVE  Cardinality(Of(s, "burst")') + Pending(s)' = Rises(s)'
  <2>1. s \in Session \ refused  BY <1>3
  <2>2. Of(s, "burst")' = Of(s, "burst")  BY <1>8
  <2>3. Cardinality(Of(s, "burst")) \in Nat
    <3>1. IsFiniteSet(Of(s, "burst"))  BY OfFinite
    <3>2. QED  BY <3>1, FS_CardinalityType
  <2>4. QED  BY <1>7, <1>9, <1>10, <2>1, <2>2, <2>3
<1>12. /\ \A i, j \in DOMAIN F : F[i].rule = "burst" /\ F[j].rule = "burst" => i = j
       /\ \A i, j \in DOMAIN F : F[i].session = F[j].session
  BY <1>4
<1>13. BurstsCounted'  BY <1>3, <1>5, <1>11, <1>12 DEF BurstsCounted, Rises
<1>14. QED  BY <1>2, <1>13 DEF BurstsInv

\* An alert leaves the queue and is there.
LEMMA SinkBursts ==
    ASSUME AlertTypes, BurstsCounted, SinkAlert PROVE BurstsCounted'
<1>0. PICK a : a = [rule |-> Head(todo).rule, session |-> Head(todo).session,
                    host |-> Head(todo).host, idx |-> alertIdx[Head(todo).session],
                    at |-> clock]
  OBVIOUS
<1>1. /\ alerts' = Append(alerts, a) /\ a \in RuleAlert /\ pairs = {} /\ a.at = clock
      /\ todo' = Tail(todo) /\ Correlate(a, a.idx)
      /\ a.rule = Head(todo).rule /\ a.session = Head(todo).session
      /\ UNCHANGED <<observed, refused>>
  BY <1>0, SunkAlert DEF SinkAlert
<1>2. todo \in Seq(Firing) /\ todo # <<>>  BY DEF AlertTypes, SinkAlert
<1> DEFINE T == todo'
           n == Len(todo)
<1>3. /\ n \in Nat \ {0} /\ DOMAIN todo = 1 .. n /\ Len(T) = n - 1 /\ DOMAIN T = 1 .. n - 1
      /\ a.rule = todo[1].rule /\ a.session = todo[1].session
      /\ \A i \in 1 .. n - 1 : T[i] = todo[i + 1] /\ i + 1 \in 1 .. n
  <2>1. Tail(todo) \in Seq(Firing) /\ Len(Tail(todo)) = n - 1 /\ n \in Nat \ {0}
    BY <1>2
  <2>2. \A i \in 1 .. n - 1 : Tail(todo)[i] = todo[i + 1] /\ i + 1 \in 1 .. n  BY <1>2
  <2>3. DOMAIN Tail(todo) = 1 .. n - 1 /\ DOMAIN todo = 1 .. n /\ Head(todo) = todo[1]
    BY <1>2, <2>1
  <2>4. QED  BY <1>1, <2>1, <2>2, <2>3
<1> HIDE DEF n, T
<1>4. /\ \A i, j \in DOMAIN todo : todo[i].rule = "burst" /\ todo[j].rule = "burst" => i = j
      /\ \A i, j \in DOMAIN todo : todo[i].session = todo[j].session
  BY DEF BurstsCounted
<1>5. \A i, j \in DOMAIN T : T[i].rule = "burst" /\ T[j].rule = "burst" => i = j
  BY <1>3, <1>4
<1>6. \A i, j \in DOMAIN T : T[i].session = T[j].session  BY <1>3, <1>4, SMTT(60)
<1>7. \A p \in pairs', i \in DOMAIN T : p.session = T[i].session
  <2>1. \A p \in pairs' : p.session = a.session
    <3>1. pairs' = CASE a.rule = "sensitive_read" ->
                         {[session |-> a.session, read |-> a.idx, domain |-> d.idx] :
                             d \in InWindow(domains[a.session])}
                    [] a.rule = "new_domain" ->
                         {[session |-> a.session, read |-> r.idx, domain |-> a.idx] :
                             r \in InWindow(reads[a.session])}
                    [] OTHER -> {}
      BY <1>1, CorrelateEffect
    <3>2. QED  BY <3>1
  <2>2. 1 \in DOMAIN todo  BY <1>3
  <2>3. QED  BY <1>3, <1>4, <2>1, <2>2
<1>8. ASSUME NEW s \in Session \ refused
      PROVE  Cardinality(Of(s, "burst")') + Pending(s)' = Rises(s)'
  <2>1. Rises(s)' = Rises(s)  BY <1>1 DEF Rises, Edges, Rate
  <2>2. Cardinality(Of(s, "burst")) + Pending(s) = Rises(s)  BY DEF BurstsCounted, Rises
  <2>3. /\ Of(s, "burst")' = IF a.session = s /\ a.rule = "burst"
                             THEN Of(s, "burst") \cup {Len(alerts) + 1} ELSE Of(s, "burst")
        /\ Len(alerts) + 1 \notin Of(s, "burst")
    <3>1. a \in RuleAlert \cup Escalation  BY <1>1
    <3>2. /\ Len(alerts) \in Nat /\ DOMAIN alerts = 1 .. Len(alerts)
          /\ Of(s, "burst")' = IF a.session = s /\ a.rule = "burst"
                               THEN Of(s, "burst") \cup {Len(alerts) + 1} ELSE Of(s, "burst")
      BY <1>1, <3>1, AlertAppended
    <3>3. QED  BY <3>2 DEF Of
  <2>4. IsFiniteSet(Of(s, "burst")) /\ Cardinality(Of(s, "burst")) \in Nat
    BY OfFinite, FS_CardinalityType
  <2>5. CASE a.session = s /\ a.rule = "burst"
    <3>1. Cardinality(Of(s, "burst")') = Cardinality(Of(s, "burst")) + 1
      BY <2>3, <2>4, <2>5, FS_AddElement
    <3>2. Pending(s) = 1
      <4>1. 1 \in DOMAIN todo /\ IsBurst(1, s)  BY <1>3, <2>5 DEF IsBurst
      <4>2. QED  BY <4>1 DEF Pending
    <3>3. Pending(s)' = 0
      <4>1. ASSUME NEW i \in DOMAIN T, T[i].rule = "burst" PROVE FALSE
        <5>1. i + 1 \in DOMAIN todo /\ todo[i + 1].rule = "burst" /\ i + 1 # 1
          BY <1>3, <4>1
        <5>2. 1 \in DOMAIN todo /\ todo[1].rule = "burst"  BY <1>3, <2>5
        <5>3. QED  BY <1>4, <5>1, <5>2
      <4>2. QED  BY <4>1 DEF Pending, IsBurst, T
    <3>4. QED  BY <2>1, <2>2, <2>4, <3>1, <3>2, <3>3
  <2>6. CASE ~(a.session = s /\ a.rule = "burst")
    <3>1. (\E i \in DOMAIN todo : todo[i].rule = "burst" /\ todo[i].session = s)
            <=> (\E i \in DOMAIN T : T[i].rule = "burst" /\ T[i].session = s)
      <4>1. ASSUME NEW i \in DOMAIN todo, todo[i].rule = "burst", todo[i].session = s
            PROVE  \E j \in DOMAIN T : T[j].rule = "burst" /\ T[j].session = s
        <5>1. i # 1 /\ i \in 1 .. n  BY <1>3, <2>6, <4>1
        <5>2. PICK j : j = i - 1  OBVIOUS
        <5>3. j \in 1 .. n - 1 /\ i = j + 1  BY <1>3, <5>1, <5>2
        <5>4. QED  BY <1>3, <4>1, <5>3
      <4>2. ASSUME NEW j \in DOMAIN T, T[j].rule = "burst", T[j].session = s
            PROVE  \E i \in DOMAIN todo : todo[i].rule = "burst" /\ todo[i].session = s
        BY <1>3, <4>2
      <4>3. QED  BY <4>1, <4>2
    <3>2. Pending(s)' = Pending(s)  BY <3>1 DEF Pending, IsBurst, T
    <3>3. Of(s, "burst")' = Of(s, "burst")  BY <2>3, <2>6
    <3>4. QED  BY <2>1, <2>2, <3>2, <3>3
  <2>7. QED  BY <2>5, <2>6
<1>9. QED  BY <1>1, <1>5, <1>6, <1>7, <1>8 DEF BurstsCounted, Rises, T

\* No step loses count of the rises.
LEMMA BurstsStep == AlertTypes /\ BurstsInv /\ [AlertNext]_alertVars => BurstsInv'
<1> SUFFICES ASSUME AlertTypes, BurstsInv, [AlertNext]_alertVars PROVE BurstsInv'
  OBVIOUS
<1>1. WindowsOK /\ BurstsCounted  BY DEF BurstsInv
<1>2. ASSUME UNCHANGED observed
      PROVE  /\ \A s, c : Own(s, c)' = Own(s, c)
             /\ \A i : StampOf(i)' = StampOf(i)
             /\ \A i, s, c : Over(i, s, c)' = Over(i, s, c)
             /\ \A s : Rises(s)' = Rises(s)
  BY <1>2 DEF Own, StampOf, Over, Rate, Rises, Edges
<1>3. ASSUME UNCHANGED <<times, burstArmed, observed>>, clock' \in Nat, clock' >= clock
      PROVE  WindowsOK'
  <2>1. clock \in Nat /\ \A i \in DOMAIN observed : observed[i].at \in Nat
    <3>1. observed \in Seq(Observation)  BY DEF AlertTypes
    <3>2. \A i \in DOMAIN observed : observed[i] \in Observation  BY <3>1
    <3>3. QED  BY <3>2 DEF AlertTypes, Observation
  <2>2. BurstWindow \in Nat  BY AlertAssumption
  <2>3. \A i \in DOMAIN observed' : observed'[i].at <= clock'
    BY <1>1, <1>3, <2>1 DEF WindowsOK
  <2>4. ASSUME NEW s \in Session, NEW c \in Class
        PROVE  /\ \A e \in times'[s][c] : \E i \in Own(s, c)' : e = StampOf(i)'
               /\ \A i \in Own(s, c)' : observed'[i].at + BurstWindow > clock' =>
                                           StampOf(i)' \in times'[s][c]
               /\ burstArmed'[s][c] <=>
                     \A i \in Own(s, c)' : (\A k \in Own(s, c)' : k <= i) => ~Over(i, s, c)'
    <3>1. /\ \A e \in times[s][c] : \E i \in Own(s, c) : e = StampOf(i)
          /\ \A i \in Own(s, c) : observed[i].at + BurstWindow > clock => StampOf(i) \in times[s][c]
          /\ burstArmed[s][c] <=>
                \A i \in Own(s, c) : (\A k \in Own(s, c) : k <= i) => ~Over(i, s, c)
      BY <1>1 DEF WindowsOK
    <3>2. \A i \in Own(s, c) : i \in DOMAIN observed  BY DEF Own
    <3>3. \A i \in Own(s, c) : observed[i].at + BurstWindow > clock' =>
                                  observed[i].at + BurstWindow > clock
      BY <1>3, <2>1, <2>2, <3>2
    <3>4. QED  BY <1>2, <1>3, <3>1, <3>3
  <2>5. QED  BY <2>3, <2>4 DEF WindowsOK
<1>4. clock \in Nat  BY DEF AlertTypes
<1>5. ASSUME UNCHANGED <<alerts, todo, pairs, refused, observed>> PROVE BurstsCounted'
  <2>1. \A s : Of(s, "burst")' = Of(s, "burst") /\ Pending(s)' = Pending(s)
    BY <1>5 DEF Of, Pending, IsBurst
  <2>2. QED  BY <1>1, <1>2, <1>5, <2>1 DEF BurstsCounted, Rises
<1>6. ASSUME NEW k \in Kind, NEW s \in Session, NEW h \in HostsOf(k),
             Observe([kind |-> k, session |-> s, host |-> h])
      PROVE  BurstsInv'
  <2>1. h \in Host  BY AlertAssumption DEF HostsOf
  <2>2. [kind |-> k, session |-> s, host |-> h] \in [kind : Kind, session : Session, host : Host]
    BY <2>1
  <2>3. QED  BY <1>6, <2>2, ObserveBursts
<1>7. CASE SinkAlert
  <2>1. UNCHANGED <<clock, times, burstArmed, observed>>  BY <1>7 DEF SinkAlert
  <2>2. QED  BY <1>1, <1>3, <1>4, <1>7, <2>1, SinkBursts DEF BurstsInv
<1>8. CASE Elapse
  <2>1. UNCHANGED <<times, burstArmed, observed, alerts, todo, pairs, refused>>
        /\ clock' \in Nat /\ clock' >= clock
    BY <1>4, <1>8 DEF Elapse
  <2>2. QED  BY <1>3, <1>5, <2>1 DEF BurstsInv
<1>9. ASSUME NEW p \in pairs, SinkEscalation(p) PROVE BurstsInv'
  <2>1. UNCHANGED <<clock, times, burstArmed, observed, todo, refused>> /\ pairs' \subseteq pairs
    BY <1>9 DEF SinkEscalation
  <2>2. \A s : Of(s, "burst")' = Of(s, "burst")
    <3>1. CASE Escalated(p)  BY <1>9, <3>1 DEF SinkEscalation, Of
    <3>2. CASE ~Escalated(p)
      <4>1. PICK a : a = [rule |-> "escalation", session |-> p.session, read |-> p.read,
                          domain |-> p.domain, idx |-> alertIdx[p.session], at |-> clock]
        OBVIOUS
      <4>2. alerts' = Append(alerts, a) /\ a \in Escalation /\ a.rule = "escalation"
        BY <1>9, <3>2, <4>1, SunkEscalation
      <4>3. a \in RuleAlert \cup Escalation  BY <4>2
      <4>4. QED  BY <4>2, <4>3, AlertAppended
    <3>3. QED  BY <3>1, <3>2
  <2>3. \A s : Pending(s)' = Pending(s)  BY <2>1 DEF Pending, IsBurst
  <2>4. BurstsCounted'  BY <1>1, <1>2, <2>1, <2>2, <2>3 DEF BurstsCounted, Rises
  <2>5. QED  BY <1>3, <1>4, <2>1, <2>4 DEF BurstsInv
<1>10. ASSUME NEW s \in Session, Refuse(s), \A i \in DOMAIN todo : todo[i].session = s
       PROVE  BurstsInv'
  <2>1. /\ refused' = refused \cup {s} /\ todo' = <<>> /\ pairs' = {}
        /\ UNCHANGED <<clock, times, burstArmed, alerts, observed>>
    BY <1>10 DEF Refuse
  <2>2. \A t : Of(t, "burst")' = Of(t, "burst") /\ Pending(t)' = 0
    BY <2>1 DEF Of, Pending
  <2>3. \A t \in Session \ refused' : Pending(t) = 0  BY <1>10, <2>1 DEF Pending, IsBurst
  <2>4. BurstsCounted'  BY <1>1, <1>2, <2>1, <2>2, <2>3 DEF BurstsCounted, Rises
  <2>5. QED  BY <1>3, <1>4, <2>1, <2>4 DEF BurstsInv
<1>11. CASE AlertRefused
  <2>1. todo \in Seq(Firing) /\ todo # <<>>  BY <1>11 DEF AlertRefused, AlertTypes
  <2>2. Head(todo) \in Firing /\ 1 \in DOMAIN todo /\ Head(todo) = todo[1]  BY <2>1
  <2>3. Head(todo).session \in Session  BY <2>2 DEF Firing
  <2>4. \A i \in DOMAIN todo : todo[i].session = Head(todo).session
    BY <1>1, <2>2 DEF BurstsCounted
  <2>5. QED  BY <1>10, <1>11, <2>3, <2>4 DEF AlertRefused
<1>12. ASSUME NEW p \in pairs, EscalationRefused(p) PROVE BurstsInv'
  <2>1. p.session \in Session  BY DEF AlertTypes, Pair
  <2>2. \A i \in DOMAIN todo : todo[i].session = p.session  BY <1>1 DEF BurstsCounted
  <2>3. QED  BY <1>10, <1>12, <2>1, <2>2 DEF EscalationRefused
<1>13. CASE UNCHANGED alertVars
  <2>1. UNCHANGED <<clock, times, burstArmed, observed, alerts, todo, pairs, refused>>
    BY <1>13 DEF alertVars
  <2>2. QED  BY <1>3, <1>4, <1>5, <2>1 DEF BurstsInv
<1>14. QED  BY <1>6, <1>7, <1>8, <1>9, <1>11, <1>12, <1>13 DEF AlertNext

\* Firing is edge-triggered: a session whose alerts the sink took has as many
\* burst alerts as times its rate rose to the threshold, for any threshold, any
\* window and any number of sessions and events.
THEOREM BurstsHold == AlertSpec => []BurstsAtEdges
<1>1. AlertInit => BurstsInv
  <2> SUFFICES ASSUME AlertInit PROVE BurstsInv
    OBVIOUS
  <2> USE DEF AlertInit
  <2>1. WindowsOK  BY DEF WindowsOK, Own
  <2>2. \A s : Of(s, "burst") = {} /\ Pending(s) = 0  BY DEF Of, Pending
  <2>3. \A s, c : Edges(s, c) = {}  BY DEF Edges
  <2>4. Cardinality({}) = 0  BY FS_EmptySet
  <2>6. \A s \in Session \ refused :
           Cardinality(Of(s, "burst")) + Pending(s)
             = Cardinality(Edges(s, "flow_dns")) + Cardinality(Edges(s, "fs.write_open"))
    BY <2>2, <2>3, <2>4
  <2>7. BurstsCounted  BY <2>6 DEF BurstsCounted
  <2>5. QED  BY <2>1, <2>7 DEF BurstsInv
<1>2. AlertInit => AlertTypes  BY AlertsStart
<1>3. AlertTypes /\ [AlertNext]_alertVars => AlertTypes'  BY AlertTypesStep
<1>4. AlertTypes /\ BurstsInv /\ [AlertNext]_alertVars => BurstsInv'  BY BurstsStep
<1>5. AlertTypes /\ BurstsInv => BurstsAtEdges
  <2> SUFFICES ASSUME AlertTypes, BurstsInv, NothingToSink, NEW s \in Session \ refused
               PROVE  Cardinality(Of(s, "burst"))
                        = Cardinality(Edges(s, "flow_dns")) + Cardinality(Edges(s, "fs.write_open"))
    BY DEF BurstsAtEdges
  <2>1. Pending(s) = 0  BY DEF Pending, NothingToSink
  <2>2. Cardinality(Of(s, "burst")) \in Nat  BY OfFinite, FS_CardinalityType
  <2>3. Cardinality(Of(s, "burst")) + Pending(s)
          = Cardinality(Edges(s, "flow_dns")) + Cardinality(Edges(s, "fs.write_open"))
    BY DEF BurstsInv, BurstsCounted
  <2>4. QED  BY <2>1, <2>2, <2>3
<1>6. QED  BY <1>1, <1>2, <1>3, <1>4, <1>5, PTL DEF AlertSpec

=============================================================================
