------------------------------ MODULE Governor ------------------------------
(***************************************************************************)
(* The admission controller of ranad (internal/collector/governor.go): per *)
(* session a token bucket in four priority tiers and the counts of what    *)
(* was lost.  Every operation runs under one mutex, so an operation is one *)
(* step.  FlushGaps is called by the outbound loop on each of its rounds,  *)
(* EndSession when a session has ended; both reset the counts they return, *)
(* so whatever they leave out is lost without trace.                       *)
(*                                                                         *)
(* A token is Whole parts and the buckets gain Rate parts per unit of time:*)
(* the code's float64 levels, on a grid.                                   *)
(***************************************************************************)
EXTENDS Integers, FiniteSets

CONSTANTS Session,
          NeverShed,       \* the never-shed classes
          Burst,           \* BurstSize, in tokens
          Whole,           \* parts of a token
          Rate,            \* RatePerSec, in parts per unit of time
          MaxCalls, MaxTime   \* bounds

\* The sheddable classes by their place in the shed order: fork/exit, fs
\* metadata, fs.write_open, flow/dns.
Tier == 0 .. 3

Class == NeverShed \cup Tier

Reason == {"governor", "ringbuf_full"}

ASSUME GovernorAssumption ==
    /\ NeverShed \cap Tier = {}
    /\ Burst \in Nat \ {0} /\ Whole \in Nat \ {0} /\ Rate \in Nat \ {0}
    /\ MaxCalls \in Nat /\ MaxTime \in Nat

VARIABLES
    bucket,      \* g.buckets
    shed,        \* g.shedState: counts of what was lost since they were last returned
    start,       \* g.intervalStart
    out,         \* the gap records the last call returned
    now,         \* the clock
    \* history
    offered,     \* events Admit was asked about or RecordRingbufDrop told of
    admitted,    \* events Admit let through
    reported,    \* counts returned in gap records
    firstLoss,   \* when the oldest loss not yet returned happened
    lastTo,      \* the end of the newest gap returned
    spent,       \* sheddable events admitted from the current bucket
    born,        \* when the current bucket was created
    calls

lossVars == <<shed, start, out>>
history  == <<offered, admitted, reported, firstLoss, lastTo, spent, born, calls>>
vars     == <<bucket, lossVars, now, history>>

Unset == -1

Full == Burst * Whole

Bucket == [known : BOOLEAN, tiers : [Tier -> 0 .. Full], last : Nat]

NoBucket == [known |-> FALSE, tiers |-> [t \in Tier |-> 0], last |-> 0]

Counts == [Class -> Nat]

NoCounts == [c \in Class |-> 0]

NoLoss == [r \in Reason |-> NoCounts]

GapRecord == [session : Session, reason : Reason, counts : Counts, from : Nat, to : Nat]

----------------------------------------------------------------------------
(* The bucket *)

NewBucket == [known |-> TRUE, tiers |-> [t \in Tier |-> Full], last |-> now]

Smaller(a, b) == IF a <= b THEN a ELSE b

\* mutant: the refill starts with the tier that is shed first.
RefilledUpwards(b) ==
    LET amount  == (now - b.last) * Rate
        Room(t) == Full - b.tiers[t]
        r1 == amount - Smaller(amount, Room(0))
        r2 == r1 - Smaller(r1, Room(1))
        r3 == r2 - Smaller(r2, Room(2))
        left == <<amount, r1, r2, r3>>
    IN  [b EXCEPT !.last = now,
                  !.tiers = [t \in Tier |-> @[t] + Smaller(Room(t), left[t + 1])]]

\* refill: the amount fills the last tier of the shed order first, what is
\* left of it the one before, and so on.
Refilled(b) ==
    LET amount  == (now - b.last) * Rate
        Room(t) == Full - b.tiers[t]
        r2 == amount - Smaller(amount, Room(3))
        r1 == r2 - Smaller(r2, Room(2))
        r0 == r1 - Smaller(r1, Room(1))
        left == <<r0, r1, r2, amount>>
    IN  [b EXCEPT !.last = now,
                  !.tiers = [t \in Tier |-> @[t] + Smaller(Room(t), left[t + 1])]]

\* bucketFor
BucketFor(s) == IF bucket[s].known THEN Refilled(bucket[s]) ELSE NewBucket

\* A new bucket also starts the session's interval, unless one is running.
StartFor(s) ==
    IF ~bucket[s].known /\ start[s] = Unset THEN now ELSE start[s]

----------------------------------------------------------------------------
(* Losses *)

Recorded(s, r, c, n) == [shed EXCEPT ![s][r][c] = @ + n]

NoteLoss(s) == firstLoss' = [firstLoss EXCEPT ![s] = IF @ = Unset THEN now ELSE @]

Began(s) == IF start[s] = Unset THEN now ELSE start[s]

Returned(s, r, c, G) ==
    LET M == {g \in G : g.session = s /\ g.reason = r}
    IN  IF M = {} THEN 0 ELSE (CHOOSE g \in M : TRUE).counts[c]

\* A call returned the gap records G.
Return(G) ==
    /\ out' = G
    /\ reported' = [s \in Session |-> [r \in Reason |-> [c \in Class |->
                       reported[s][r][c] + Returned(s, r, c, G)]]]
    /\ lastTo' = [s \in Session |-> IF \E g \in G : g.session = s THEN now ELSE lastTo[s]]

Called == calls < MaxCalls /\ calls' = calls + 1

----------------------------------------------------------------------------
(* Operations *)

AdmitNeverShed(s, c) ==
    /\ Called
    /\ c \in NeverShed
    /\ offered' = [offered EXCEPT ![s][c] = @ + 1]
    /\ admitted' = [admitted EXCEPT ![s][c] = @ + 1]
    /\ UNCHANGED <<bucket, lossVars, now, reported, firstLoss, lastTo, spent, born>>

\* A sheddable event finds a token in its tier, or is counted as shed.
Admit(s, c) ==
    /\ Called
    /\ c \in Tier
    /\ start' = [start EXCEPT ![s] = StartFor(s)]
    /\ offered' = [offered EXCEPT ![s][c] = @ + 1]
    /\ born' = [born EXCEPT ![s] = IF bucket[s].known THEN @ ELSE now]
    /\ LET b == BucketFor(s)
           spentSoFar == IF bucket[s].known THEN spent[s] ELSE 0
       IN  IF b.tiers[c] >= Whole
           THEN /\ bucket' = [bucket EXCEPT ![s] = [b EXCEPT !.tiers[c] = @ - Whole]]
                /\ admitted' = [admitted EXCEPT ![s][c] = @ + 1]
                /\ spent' = [spent EXCEPT ![s] = spentSoFar + 1]
                /\ UNCHANGED <<shed, firstLoss>>
           ELSE /\ bucket' = [bucket EXCEPT ![s] = b]
                /\ shed' = Recorded(s, "governor", c, 1)
                /\ NoteLoss(s)
                /\ spent' = [spent EXCEPT ![s] = spentSoFar]
                /\ UNCHANGED admitted
    /\ UNCHANGED <<out, now, reported, lastTo>>

RecordRingbufDrop(s, c, n) ==
    /\ Called
    /\ n # 0
    /\ start' = [start EXCEPT ![s] = Began(s)]
    /\ shed' = Recorded(s, "ringbuf_full", c, n)
    /\ offered' = [offered EXCEPT ![s][c] = @ + n]
    /\ NoteLoss(s)
    /\ UNCHANGED <<bucket, out, now, admitted, reported, lastTo, spent, born>>

\* mutant: the sessions without a bucket keep their old interval start.
IntervalKept(s, G) == IF bucket[s].known THEN now ELSE start[s]

\* FlushGaps restarts the interval of every session that has a bucket or
\* just returned a gap.
IntervalAfter(s, G) ==
    IF bucket[s].known \/ \E g \in G : g.session = s THEN now ELSE start[s]

\* FlushGaps: one record per session and reason with anything to report.
FlushGaps ==
    /\ Called
    /\ LET Lost == {p \in Session \X Reason : shed[p[1]][p[2]] # NoCounts}
           G    == {[session |-> p[1], reason |-> p[2], counts |-> shed[p[1]][p[2]],
                     from |-> Began(p[1]), to |-> now] : p \in Lost}
       IN  /\ Return(G)
           /\ start' = [s \in Session |-> IntervalAfter(s, G)]
    /\ shed' = [s \in Session |-> NoLoss]
    /\ firstLoss' = [s \in Session |-> Unset]
    /\ UNCHANGED <<bucket, now, offered, admitted, spent, born>>

\* mutant: an ending session reports the losses of one reason only.
FinalOfReason(s, r) == shed[s][r]

\* The counts of all reasons, added up.
FinalCounts(s, r) == [c \in Class |-> shed[s]["governor"][c] + shed[s]["ringbuf_full"][c]]

\* EndSession: the losses still pending go into one record, under whichever
\* reason the map iteration meets first; the session's state is dropped.
EndSession(s) ==
    /\ Called
    /\ LET Lost == {r \in Reason : shed[s][r] # NoCounts}
       IN  IF Lost = {}
           THEN Return({})
           ELSE \E r \in Lost :
                   Return({[session |-> s, reason |-> r, counts |-> FinalCounts(s, r),
                            from |-> Began(s), to |-> now]})
    /\ bucket' = [bucket EXCEPT ![s] = NoBucket]
    /\ shed' = [shed EXCEPT ![s] = NoLoss]
    /\ start' = [start EXCEPT ![s] = Unset]
    /\ firstLoss' = [firstLoss EXCEPT ![s] = Unset]
    /\ spent' = [spent EXCEPT ![s] = 0]
    /\ born' = [born EXCEPT ![s] = 0]
    /\ UNCHANGED <<now, offered, admitted>>

Tick ==
    /\ now < MaxTime
    /\ now' = now + 1
    /\ UNCHANGED <<bucket, lossVars, history>>

----------------------------------------------------------------------------

Init ==
    /\ bucket = [s \in Session |-> NoBucket]
    /\ shed = [s \in Session |-> NoLoss]
    /\ start = [s \in Session |-> Unset]
    /\ out = {}
    /\ now = 0
    /\ offered = [s \in Session |-> NoCounts] /\ admitted = [s \in Session |-> NoCounts]
    /\ reported = [s \in Session |-> NoLoss]
    /\ firstLoss = [s \in Session |-> Unset] /\ lastTo = [s \in Session |-> 0]
    /\ spent = [s \in Session |-> 0] /\ born = [s \in Session |-> 0]
    /\ calls = 0

Next ==
    \/ \E s \in Session, c \in Class :
          AdmitNeverShed(s, c) \/ Admit(s, c) \/ RecordRingbufDrop(s, c, 1)
    \/ FlushGaps
    \/ \E s \in Session : EndSession(s)
    \/ Tick

Spec == Init /\ [][Next]_vars

----------------------------------------------------------------------------
(* Properties *)

\* Every variable has its type; in particular no tier ever holds more than the
\* burst or less than nothing.
TypeOK ==
    /\ bucket \in [Session -> Bucket]
    /\ shed \in [Session -> [Reason -> Counts]]
    /\ reported \in [Session -> [Reason -> Counts]]
    /\ start \in [Session -> Nat \cup {Unset}]
    /\ firstLoss \in [Session -> Nat \cup {Unset}]
    /\ out \subseteq GapRecord
    /\ now \in Nat /\ calls \in Nat
    /\ offered \in [Session -> Counts] /\ admitted \in [Session -> Counts]
    /\ lastTo \in [Session -> Nat] /\ spent \in [Session -> Nat] /\ born \in [Session -> Nat]

\* Losses are never silent: an event that was not admitted is in exactly one
\* place, the pending counts or a gap record that was returned, whatever the
\* order of admissions, drops, flushes and session ends.
Accounted ==
    \A s \in Session, c \in Class :
        offered[s][c] = admitted[s][c]
                        + shed[s]["governor"][c] + shed[s]["ringbuf_full"][c]
                        + reported[s]["governor"][c] + reported[s]["ringbuf_full"][c]

\* A pending loss lies inside the interval that will be reported for it, and
\* the intervals of a session's successive gaps do not overlap.
IntervalsHonest ==
    \A s \in Session :
        /\ firstLoss[s] # Unset <=> shed[s] # NoLoss
        /\ firstLoss[s] # Unset => /\ start[s] # Unset
                                   /\ start[s] <= firstLoss[s]
                                   /\ lastTo[s] <= start[s]

\* The clock is ahead of everything it stamped, a bucket never stands without
\* a running interval, and an interval starts where the last gap ended or later.
Timely ==
    \A s \in Session :
        /\ bucket[s].last <= now
        /\ lastTo[s] <= now
        /\ bucket[s].known => start[s] # Unset
        /\ start[s] # Unset => lastTo[s] <= start[s] /\ start[s] <= now

\* Inductive: what every operation preserves.
GovInv == TypeOK /\ Timely /\ Accounted /\ IntervalsHonest

\* Over the life of a bucket no more is admitted than its four full tiers
\* held and the refill added: refills neither mint tokens nor count time twice.
TokensConserved ==
    \A s \in Session : bucket[s].known =>
        bucket[s].tiers[0] + bucket[s].tiers[1] + bucket[s].tiers[2] + bucket[s].tiers[3]
          + spent[s] * Whole <= 4 * Full + (bucket[s].last - born[s]) * Rate

\* A tier gains tokens only when every tier shed later is full (up to the
\* token the call itself takes): the waterfall of the frozen shed order.
LaterTiersFirst ==
    [][\A s \in Session : (bucket[s].known /\ bucket'[s].known) =>
          \A t, u \in Tier : (t < u /\ bucket'[s].tiers[t] > bucket[s].tiers[t])
                                => bucket'[s].tiers[u] \in {Full, Full - Whole}]_vars

\* The buckets hold what the refill gave them, in the order it gives.
BucketsRight == [](TypeOK /\ TokensConserved) /\ LaterTiersFirst

=============================================================================
