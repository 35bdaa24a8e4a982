--------------------------- MODULE GovernorProofs ---------------------------
(***************************************************************************)
(* What holds of the governor for any set of sessions, any burst and rate, *)
(* and any sequence of calls.                                              *)
(***************************************************************************)
EXTENDS Governor, TLAPS

----------------------------------------------------------------------------
(* The bucket *)

\* The capacity of a tier is a positive number of parts.
LEMMA FullType == Full \in Nat /\ Whole \in Nat /\ Full >= Whole
<1>1. Burst \in Nat /\ Whole \in Nat /\ Burst >= 1 /\ Whole >= 1
  BY GovernorAssumption
<1>2. Burst * Whole \in Nat /\ Burst * Whole >= Whole
  BY <1>1
<1> QED  BY <1>1, <1>2 DEF Full

\* A full bucket is a bucket.
LEMMA NewBucketType ==
    ASSUME now \in Nat
    PROVE  NewBucket \in Bucket
BY FullType DEF NewBucket, Bucket

\* A refill keeps every tier between nothing and the burst.
LEMMA RefilledType ==
    ASSUME NEW b \in Bucket, now \in Nat, b.last <= now
    PROVE  Refilled(b) \in Bucket /\ Refilled(b).known = b.known /\ Refilled(b).last = now
<1> DEFINE amount  == (now - b.last) * Rate
           Room(t) == Full - b.tiers[t]
           r2 == amount - Smaller(amount, Room(3))
           r1 == r2 - Smaller(r2, Room(2))
           r0 == r1 - Smaller(r1, Room(1))
           left == <<r0, r1, r2, amount>>
           tiers == [t \in Tier |-> b.tiers[t] + Smaller(Room(t), left[t + 1])]
<1>1. /\ b.known \in BOOLEAN /\ b.last \in Nat
      /\ b.tiers \in [Tier -> 0 .. Full]
      /\ \A t \in Tier : b.tiers[t] \in 0 .. Full
  BY DEF Bucket
<1>2. amount \in Nat
  <2>1. now - b.last \in Nat /\ Rate \in Nat
    BY <1>1, GovernorAssumption
  <2> QED  BY <2>1
<1>3. \A t \in Tier : Room(t) \in Nat /\ b.tiers[t] + Room(t) = Full
  BY <1>1, FullType
<1> HIDE DEF amount
<1>4. r2 \in Nat
  BY <1>2, <1>3 DEF Smaller, Tier
<1> HIDE DEF r2
<1>5. r1 \in Nat
  BY <1>4, <1>3 DEF Smaller, Tier
<1> HIDE DEF r1
<1>6. r0 \in Nat
  BY <1>5, <1>3 DEF Smaller, Tier
<1> HIDE DEF r0
<1>7. \A t \in Tier : left[t + 1] \in Nat
  BY <1>2, <1>4, <1>5, <1>6 DEF Tier
<1> HIDE DEF left
<1>8. \A t \in Tier : b.tiers[t] + Smaller(Room(t), left[t + 1]) \in 0 .. Full
  BY <1>1, <1>3, <1>7, FullType DEF Smaller
<1>9. tiers \in [Tier -> 0 .. Full]
  BY <1>8
<1>10. Refilled(b) = [b EXCEPT !.last = now, !.tiers = tiers]
  BY <1>1 DEF Refilled, Bucket, amount, r2, r1, r0, left
<1> HIDE DEF tiers
<1> QED  BY <1>1, <1>9, <1>10 DEF Bucket

\* bucketFor returns a bucket that is up to date.
LEMMA BucketForType ==
    ASSUME TypeOK, Timely, NEW s \in Session
    PROVE  BucketFor(s) \in Bucket /\ BucketFor(s).known /\ BucketFor(s).last = now
<1>1. bucket[s] \in Bucket /\ now \in Nat /\ bucket[s].last <= now
  BY DEF TypeOK, Timely
<1>2. CASE bucket[s].known
  BY <1>1, <1>2, RefilledType DEF BucketFor
<1>3. CASE ~bucket[s].known
  BY <1>1, <1>3, NewBucketType DEF BucketFor, NewBucket
<1> QED  BY <1>2, <1>3

\* Taking a token from a tier that has one leaves a bucket.
LEMMA TakenType ==
    ASSUME NEW b \in Bucket, NEW c \in Tier, b.tiers[c] >= Whole
    PROVE  /\ [b EXCEPT !.tiers[c] = @ - Whole] \in Bucket
           /\ [b EXCEPT !.tiers[c] = @ - Whole].known = b.known
           /\ [b EXCEPT !.tiers[c] = @ - Whole].last = b.last
<1>1. b.tiers[c] - Whole \in 0 .. Full
  BY FullType DEF Bucket
<1> QED  BY <1>1, Zenon DEF Bucket

----------------------------------------------------------------------------
(* The counts *)

Plus(f, s, c, n) == [f EXCEPT ![s][c] = @ + n]

\* Adding to the count of one session and class changes that count only.
LEMMA Bumped ==
    ASSUME NEW f \in [Session -> Counts], NEW s \in Session, NEW c \in Class, NEW n \in Nat
    PROVE  /\ Plus(f, s, c, n) \in [Session -> Counts]
           /\ \A x \in Session, y \in Class :
                 Plus(f, s, c, n)[x][y] = IF x = s /\ y = c THEN f[x][y] + n ELSE f[x][y]
<1>1. f[s] \in Counts /\ f[s][c] \in Nat
  BY DEF Counts
<1>2. f[s][c] + n \in Nat
  BY <1>1
<1>3. [f[s] EXCEPT ![c] = f[s][c] + n] \in Counts
  BY <1>1, <1>2 DEF Counts
<1> QED  BY <1>1, <1>3 DEF Counts, Plus

\* So does recording a loss, under its reason.
LEMMA RecordedType ==
    ASSUME shed \in [Session -> [Reason -> Counts]],
           NEW s \in Session, NEW r \in Reason, NEW c \in Class, NEW n \in Nat
    PROVE  /\ Recorded(s, r, c, n) \in [Session -> [Reason -> Counts]]
           /\ \A x \in Session, q \in Reason, y \in Class :
                 Recorded(s, r, c, n)[x][q][y]
                    = IF x = s /\ q = r /\ y = c THEN shed[x][q][y] + n ELSE shed[x][q][y]
           /\ \A x \in Session : x # s => Recorded(s, r, c, n)[x] = shed[x]
<1>1. shed[s] \in [Reason -> Counts] /\ shed[s][r] \in Counts /\ shed[s][r][c] \in Nat
  BY DEF Counts
<1>2. shed[s][r][c] + n \in Nat
  BY <1>1
<1> DEFINE d == [shed[s][r] EXCEPT ![c] = shed[s][r][c] + n]
           e == [shed[s] EXCEPT ![r] = d]
<1>3. d \in Counts /\ \A y \in Class : d[y] = IF y = c THEN shed[s][r][y] + n ELSE shed[s][r][y]
  BY <1>1, <1>2 DEF Counts
<1>4. e \in [Reason -> Counts] /\ \A q \in Reason : e[q] = IF q = r THEN d ELSE shed[s][q]
  BY <1>1, <1>3
<1>5. Recorded(s, r, c, n) = [shed EXCEPT ![s] = e]
  BY DEF Recorded
<1> HIDE DEF d, e
<1> QED  BY <1>1, <1>3, <1>4, <1>5

\* The losses of a session without any are all zero.
LEMMA NoLossZero ==
    /\ NoCounts \in Counts /\ NoLoss \in [Reason -> Counts]
    /\ \A r \in Reason : NoLoss[r] = NoCounts
    /\ \A c \in Class : NoCounts[c] = 0
BY DEF NoCounts, NoLoss, Counts

\* A positive count is a loss.
LEMMA LossSeen ==
    ASSUME NEW l \in [Reason -> Counts], NEW r \in Reason, NEW c \in Class, l[r][c] # 0
    PROVE  l # NoLoss /\ l[r] # NoCounts
BY NoLossZero

\* The counts in the records a call returns are added to those reported.
LEMMA ReturnedType ==
    ASSUME NEW G \in SUBSET GapRecord, NEW s \in Session, NEW r \in Reason, NEW c \in Class
    PROVE  Returned(s, r, c, G) \in Nat
<1> DEFINE M == {g \in G : g.session = s /\ g.reason = r}
<1>1. CASE M = {}
  BY <1>1 DEF Returned
<1>2. CASE M # {}
  <2>1. (CHOOSE g \in M : TRUE) \in GapRecord
    BY <1>2
  <2>2. (CHOOSE g \in M : TRUE).counts[c] \in Nat
    BY <2>1 DEF GapRecord, Counts
  <2> QED  BY <1>2, <2>2 DEF Returned
<1> QED  BY <1>1, <1>2

\* The same for the whole call.
LEMMA ReturnTypes ==
    ASSUME TypeOK, NEW G \in SUBSET GapRecord, Return(G)
    PROVE  /\ out' \subseteq GapRecord
           /\ reported' \in [Session -> [Reason -> Counts]]
           /\ lastTo' \in [Session -> Nat]
           /\ \A s \in Session, r \in Reason, c \in Class :
                 reported'[s][r][c] = reported[s][r][c] + Returned(s, r, c, G)
           /\ \A s \in Session :
                 lastTo'[s] = IF \E g \in G : g.session = s THEN now ELSE lastTo[s]
<1>1. \A s \in Session, r \in Reason, c \in Class :
         reported[s][r][c] \in Nat /\ Returned(s, r, c, G) \in Nat
  BY ReturnedType DEF TypeOK, Counts
<1>2. \A s \in Session, r \in Reason, c \in Class :
         reported[s][r][c] + Returned(s, r, c, G) \in Nat
  BY <1>1
<1>3. reported' \in [Session -> [Reason -> Counts]]
  BY <1>2, Zenon DEF Return, Counts
<1> QED  BY <1>3 DEF Return, TypeOK

----------------------------------------------------------------------------
(* The invariant, operation by operation *)

\* A new governor satisfies the invariant.
LEMMA InitInv == Init => GovInv
<1> SUFFICES ASSUME Init
             PROVE  GovInv
  OBVIOUS
<1>1. NoBucket \in Bucket
  BY FullType DEF NoBucket, Bucket
<1>2. TypeOK
  BY <1>1, NoLossZero DEF Init, TypeOK, Unset
<1>3. Timely
  BY DEF Init, Timely, NoBucket
<1>4. Accounted
  BY NoLossZero DEF Init, Accounted, Reason
<1>5. IntervalsHonest
  BY DEF Init, IntervalsHonest
<1> QED  BY <1>2, <1>3, <1>4, <1>5 DEF GovInv

\* A never-shed event is counted as admitted.
LEMMA AdmitNeverShedInv ==
    ASSUME GovInv, NEW s \in Session, NEW c \in Class, AdmitNeverShed(s, c)
    PROVE  GovInv'
<1> USE DEF GovInv
<1>1. /\ offered' \in [Session -> Counts] /\ admitted' \in [Session -> Counts]
      /\ \A x \in Session, y \in Class :
            /\ offered'[x][y] = IF x = s /\ y = c THEN offered[x][y] + 1 ELSE offered[x][y]
            /\ admitted'[x][y] = IF x = s /\ y = c THEN admitted[x][y] + 1 ELSE admitted[x][y]
  <2>1. offered' = Plus(offered, s, c, 1) /\ admitted' = Plus(admitted, s, c, 1)
    BY DEF AdmitNeverShed, Plus
  <2>2. offered \in [Session -> Counts] /\ admitted \in [Session -> Counts] /\ 1 \in Nat
    BY DEF TypeOK
  <2> QED  BY <2>1, <2>2, Bumped
<1>2. TypeOK'
  BY <1>1 DEF AdmitNeverShed, TypeOK, Called, lossVars
<1>3. Timely'
  BY DEF AdmitNeverShed, Timely, lossVars
<1>4. Accounted'
  <2> SUFFICES ASSUME NEW x \in Session, NEW y \in Class
               PROVE  offered'[x][y] = admitted'[x][y]
                        + shed'[x]["governor"][y] + shed'[x]["ringbuf_full"][y]
                        + reported'[x]["governor"][y] + reported'[x]["ringbuf_full"][y]
    BY DEF Accounted
  <2>1. shed' = shed /\ reported' = reported
    BY DEF AdmitNeverShed, lossVars
  <2>2. /\ offered[x][y] \in Nat /\ admitted[x][y] \in Nat
        /\ shed[x]["governor"][y] \in Nat /\ shed[x]["ringbuf_full"][y] \in Nat
        /\ reported[x]["governor"][y] \in Nat /\ reported[x]["ringbuf_full"][y] \in Nat
    BY DEF TypeOK, Counts, Reason
  <2>3. offered[x][y] = admitted[x][y]
                          + shed[x]["governor"][y] + shed[x]["ringbuf_full"][y]
                          + reported[x]["governor"][y] + reported[x]["ringbuf_full"][y]
    BY DEF Accounted
  <2> DEFINE k == IF x = s /\ y = c THEN 1 ELSE 0
  <2>4. offered'[x][y] = offered[x][y] + k /\ admitted'[x][y] = admitted[x][y] + k
    BY <1>1, <2>2
  <2>5. k \in Nat
    OBVIOUS
  <2> HIDE DEF k
  <2> QED  BY <2>1, <2>2, <2>3, <2>4, <2>5
<1>5. IntervalsHonest'
  BY DEF AdmitNeverShed, IntervalsHonest, lossVars
<1> QED  BY <1>2, <1>3, <1>4, <1>5

\* A loss is recorded inside a running interval.
LEMMA LossInv ==
    ASSUME GovInv, NEW s \in Session, NEW r \in Reason, NEW c \in Class, NEW n \in Nat, n # 0,
           shed' = Recorded(s, r, c, n), NoteLoss(s), now' = now, lastTo' = lastTo,
           start'[s] # Unset, start'[s] <= now, lastTo[s] <= start'[s],
           start[s] # Unset => start'[s] = start[s],
           \A x \in Session : x # s => start'[x] = start[x]
    PROVE  IntervalsHonest' /\ firstLoss' \in [Session -> Nat \cup {Unset}]
<1> USE DEF GovInv
<1>1. /\ shed' \in [Session -> [Reason -> Counts]]
      /\ shed'[s][r][c] = shed[s][r][c] + n /\ shed[s][r][c] \in Nat
      /\ \A x \in Session : x # s => shed'[x] = shed[x]
  BY RecordedType DEF TypeOK, Counts
<1>2. shed'[s] # NoLoss
  BY <1>1, LossSeen
<1>3. /\ firstLoss'[s] = IF firstLoss[s] = Unset THEN now ELSE firstLoss[s]
      /\ \A x \in Session : x # s => firstLoss'[x] = firstLoss[x]
      /\ firstLoss' \in [Session -> Nat \cup {Unset}]
  BY DEF NoteLoss, TypeOK
<1>4. now # Unset
  BY DEF TypeOK, Unset
<1>5. ASSUME NEW x \in Session, x # s
      PROVE  /\ firstLoss'[x] # Unset <=> shed'[x] # NoLoss
             /\ firstLoss'[x] # Unset => /\ start'[x] # Unset
                                         /\ start'[x] <= firstLoss'[x]
                                         /\ lastTo'[x] <= start'[x]
  BY <1>1, <1>3, <1>5 DEF IntervalsHonest
<1>6. /\ firstLoss'[s] # Unset <=> shed'[s] # NoLoss
      /\ firstLoss'[s] # Unset => /\ start'[s] # Unset
                                  /\ start'[s] <= firstLoss'[s]
                                  /\ lastTo'[s] <= start'[s]
  BY <1>2, <1>3, <1>4 DEF IntervalsHonest
<1>7. IntervalsHonest'
  BY <1>5, <1>6 DEF IntervalsHonest
<1> QED  BY <1>3, <1>7

\* A sheddable event is either admitted or counted as shed.
LEMMA AdmitInv ==
    ASSUME GovInv, NEW s \in Session, NEW c \in Class, Admit(s, c)
    PROVE  GovInv'
<1> USE DEF GovInv
<1> DEFINE b == BucketFor(s)
<1>1. b \in Bucket /\ b.known /\ b.last = now
  BY BucketForType
<1>2. /\ offered' \in [Session -> Counts]
      /\ \A x \in Session, y \in Class :
            offered'[x][y] = IF x = s /\ y = c THEN offered[x][y] + 1 ELSE offered[x][y]
  <2>1. offered' = Plus(offered, s, c, 1)
    BY DEF Admit, Plus
  <2>2. offered \in [Session -> Counts] /\ admitted \in [Session -> Counts] /\ 1 \in Nat
    BY DEF TypeOK
  <2> QED  BY <2>1, <2>2, Bumped
<1>3. /\ start' = [start EXCEPT ![s] = StartFor(s)]
      /\ start'[s] \in Nat /\ lastTo[s] <= start'[s] /\ start'[s] <= now /\ start'[s] # Unset
      /\ start[s] # Unset => start'[s] = start[s]
      /\ \A x \in Session : x # s => start'[x] = start[x]
      /\ start' \in [Session -> Nat \cup {Unset}]
  <2>1. start' = [start EXCEPT ![s] = StartFor(s)]
    BY DEF Admit
  <2>2. now \in Nat /\ lastTo[s] \in Nat /\ start[s] \in Nat \cup {Unset} /\ lastTo[s] <= now
    BY DEF TypeOK, Timely
  <2>3. StartFor(s) \in Nat /\ lastTo[s] <= StartFor(s) /\ StartFor(s) <= now
    BY <2>2 DEF StartFor, Timely, Unset
  <2>4. start[s] # Unset => StartFor(s) = start[s]
    BY DEF StartFor
  <2> QED  BY <2>1, <2>2, <2>3, <2>4 DEF TypeOK, Unset
<1>4. /\ out' = out /\ now' = now /\ reported' = reported
      /\ lastTo' = lastTo /\ calls' \in Nat /\ now \in Nat
  BY DEF Admit, Called, TypeOK
<1>5. born' \in [Session -> Nat] /\ spent' \in [Session -> Nat]
  <2>1. born' \in [Session -> Nat]
    BY DEF Admit, TypeOK
  <2>2. PICK k \in Nat : spent' = [spent EXCEPT ![s] = k]
    <3> DEFINE before == IF bucket[s].known THEN spent[s] ELSE 0
    <3>1. spent' = [spent EXCEPT ![s] = before + 1] \/ spent' = [spent EXCEPT ![s] = before]
      BY DEF Admit
    <3>2. before \in Nat /\ before + 1 \in Nat
      <4>1. spent[s] \in Nat
        BY DEF TypeOK
      <4> QED  BY <4>1
    <3> HIDE DEF before
    <3> QED  BY <3>1, <3>2
  <2> QED  BY <2>1, <2>2 DEF TypeOK
<1>6. c \in Tier
  BY DEF Admit
<1> HIDE DEF b
<1>7. CASE b.tiers[c] >= Whole
  <2> DEFINE d == [b EXCEPT !.tiers[c] = @ - Whole]
  <2>1. d \in Bucket /\ d.known /\ d.last = now
    BY <1>1, <1>6, <1>7, TakenType
  <2> HIDE DEF d
  <2>2. bucket' = [bucket EXCEPT ![s] = d] /\ shed' = shed /\ firstLoss' = firstLoss
    BY <1>7 DEF Admit, b, d
  <2>3. /\ admitted' \in [Session -> Counts]
        /\ \A x \in Session, y \in Class :
              admitted'[x][y] = IF x = s /\ y = c THEN admitted[x][y] + 1 ELSE admitted[x][y]
    <3>1. admitted' = Plus(admitted, s, c, 1)
      BY <1>7 DEF Admit, Plus, b
    <3>2. admitted \in [Session -> Counts] /\ 1 \in Nat
      BY DEF TypeOK
    <3> QED  BY <3>1, <3>2, Bumped
  <2>4. bucket' \in [Session -> Bucket]
    BY <2>1, <2>2 DEF TypeOK
  <2>5. TypeOK'
    BY <1>2, <1>3, <1>4, <1>5, <2>2, <2>3, <2>4 DEF TypeOK
  <2>6. Timely'
    BY <1>3, <1>4, <2>1, <2>2 DEF Timely, TypeOK
  <2>7. Accounted'
    <3> SUFFICES ASSUME NEW x \in Session, NEW y \in Class
                 PROVE  offered'[x][y] = admitted'[x][y]
                          + shed'[x]["governor"][y] + shed'[x]["ringbuf_full"][y]
                          + reported'[x]["governor"][y] + reported'[x]["ringbuf_full"][y]
      BY DEF Accounted
    <3>1. /\ offered[x][y] \in Nat /\ admitted[x][y] \in Nat
          /\ shed[x]["governor"][y] \in Nat /\ shed[x]["ringbuf_full"][y] \in Nat
          /\ reported[x]["governor"][y] \in Nat /\ reported[x]["ringbuf_full"][y] \in Nat
      BY DEF TypeOK, Counts, Reason
    <3>2. offered[x][y] = admitted[x][y]
                          + shed[x]["governor"][y] + shed[x]["ringbuf_full"][y]
                          + reported[x]["governor"][y] + reported[x]["ringbuf_full"][y]
      BY DEF Accounted
    <3> DEFINE k == IF x = s /\ y = c THEN 1 ELSE 0
    <3>3. /\ offered'[x][y] = offered[x][y] + k /\ admitted'[x][y] = admitted[x][y] + k
          /\ shed' = shed /\ reported' = reported
      BY <1>2, <1>4, <2>2, <2>3, <3>1
    <3>4. k \in Nat
      OBVIOUS
    <3> HIDE DEF k
    <3> QED  BY <3>1, <3>2, <3>3, <3>4
  <2>8. IntervalsHonest'
    BY <1>3, <1>4, <2>2 DEF IntervalsHonest
  <2> QED  BY <2>5, <2>6, <2>7, <2>8
<1>8. CASE ~(b.tiers[c] >= Whole)
  <2>1. /\ bucket' = [bucket EXCEPT ![s] = b] /\ admitted' = admitted
        /\ shed' = Recorded(s, "governor", c, 1) /\ NoteLoss(s)
    BY <1>8 DEF Admit, b
  <2>2. /\ shed' \in [Session -> [Reason -> Counts]]
        /\ \A x \in Session, y \in Class :
              /\ shed'[x]["governor"][y] = IF x = s /\ y = c THEN shed[x]["governor"][y] + 1
                                                             ELSE shed[x]["governor"][y]
              /\ shed'[x]["ringbuf_full"][y] = shed[x]["ringbuf_full"][y]
    <3>1. shed \in [Session -> [Reason -> Counts]] /\ 1 \in Nat
      BY DEF TypeOK
    <3>2. "governor" \in Reason /\ "ringbuf_full" \in Reason /\ "governor" # "ringbuf_full"
      BY DEF Reason
    <3> QED  BY <2>1, <3>1, <3>2, RecordedType
  <2>3. bucket' \in [Session -> Bucket]
    BY <1>1, <2>1 DEF TypeOK
  <2>4. IntervalsHonest' /\ firstLoss' \in [Session -> Nat \cup {Unset}]
    BY <1>3, <1>4, <2>1, LossInv DEF Reason
  <2>5. TypeOK'
    BY <1>2, <1>3, <1>4, <1>5, <2>1, <2>2, <2>3, <2>4 DEF TypeOK
  <2>6. Timely'
    BY <1>1, <1>3, <1>4, <2>1 DEF Timely, TypeOK
  <2>7. Accounted'
    <3> SUFFICES ASSUME NEW x \in Session, NEW y \in Class
                 PROVE  offered'[x][y] = admitted'[x][y]
                          + shed'[x]["governor"][y] + shed'[x]["ringbuf_full"][y]
                          + reported'[x]["governor"][y] + reported'[x]["ringbuf_full"][y]
      BY DEF Accounted
    <3>1. /\ offered[x][y] \in Nat /\ admitted[x][y] \in Nat
          /\ shed[x]["governor"][y] \in Nat /\ shed[x]["ringbuf_full"][y] \in Nat
          /\ reported[x]["governor"][y] \in Nat /\ reported[x]["ringbuf_full"][y] \in Nat
      BY DEF TypeOK, Counts, Reason
    <3>2. offered[x][y] = admitted[x][y]
                          + shed[x]["governor"][y] + shed[x]["ringbuf_full"][y]
                          + reported[x]["governor"][y] + reported[x]["ringbuf_full"][y]
      BY DEF Accounted
    <3> DEFINE k == IF x = s /\ y = c THEN 1 ELSE 0
    <3>3. /\ offered'[x][y] = offered[x][y] + k /\ admitted' = admitted
          /\ shed'[x]["governor"][y] = shed[x]["governor"][y] + k
          /\ shed'[x]["ringbuf_full"][y] = shed[x]["ringbuf_full"][y] /\ reported' = reported
      BY <1>2, <1>4, <2>1, <2>2, <3>1
    <3>4. k \in Nat
      OBVIOUS
    <3> HIDE DEF k
    <3> QED  BY <3>1, <3>2, <3>3, <3>4
  <2> QED  BY <2>4, <2>5, <2>6, <2>7
<1> QED  BY <1>7, <1>8

\* The pieces of the accounting equation are numbers, and it holds before the call.
LEMMA Balance ==
    ASSUME GovInv, NEW x \in Session, NEW y \in Class
    PROVE  /\ offered[x][y] \in Nat /\ admitted[x][y] \in Nat
           /\ shed[x]["governor"][y] \in Nat /\ shed[x]["ringbuf_full"][y] \in Nat
           /\ reported[x]["governor"][y] \in Nat /\ reported[x]["ringbuf_full"][y] \in Nat
           /\ offered[x][y] = admitted[x][y]
                 + shed[x]["governor"][y] + shed[x]["ringbuf_full"][y]
                 + reported[x]["governor"][y] + reported[x]["ringbuf_full"][y]
<1>1. /\ offered[x][y] \in Nat /\ admitted[x][y] \in Nat
      /\ shed[x]["governor"][y] \in Nat /\ shed[x]["ringbuf_full"][y] \in Nat
      /\ reported[x]["governor"][y] \in Nat /\ reported[x]["ringbuf_full"][y] \in Nat
  BY DEF GovInv, TypeOK, Counts, Reason
<1>2. offered[x][y] = admitted[x][y]
         + shed[x]["governor"][y] + shed[x]["ringbuf_full"][y]
         + reported[x]["governor"][y] + reported[x]["ringbuf_full"][y]
  BY DEF GovInv, Accounted
<1> QED  BY <1>1, <1>2

\* The running interval of a session starts in the past.
LEMMA BeganType ==
    ASSUME TypeOK, Timely, NEW s \in Session
    PROVE  Began(s) \in Nat /\ lastTo[s] <= Began(s) /\ Began(s) <= now
BY DEF TypeOK, Timely, Began, Unset

\* Drops the kernel reports are counted in full.
LEMMA RecordRingbufDropInv ==
    ASSUME GovInv, NEW s \in Session, NEW c \in Class, NEW n \in Nat, RecordRingbufDrop(s, c, n)
    PROVE  GovInv'
<1> USE DEF GovInv
<1>1. n # 0 /\ "ringbuf_full" \in Reason /\ "governor" \in Reason /\ "governor" # "ringbuf_full"
  BY DEF RecordRingbufDrop, Reason
<1>2. /\ shed' = Recorded(s, "ringbuf_full", c, n) /\ NoteLoss(s)
      /\ bucket' = bucket /\ out' = out /\ now' = now /\ admitted' = admitted
      /\ reported' = reported /\ lastTo' = lastTo /\ spent' = spent /\ born' = born
      /\ offered' = Plus(offered, s, c, n)
      /\ start' = [start EXCEPT ![s] = Began(s)]
  BY DEF RecordRingbufDrop, Plus
<1>3. calls' \in Nat
  BY DEF RecordRingbufDrop, Called, TypeOK
<1>4. offered \in [Session -> Counts]
  BY DEF TypeOK
<1>5. /\ offered' \in [Session -> Counts]
      /\ \A x \in Session, y \in Class :
            offered'[x][y] = IF x = s /\ y = c THEN offered[x][y] + n ELSE offered[x][y]
  BY <1>2, <1>4, Bumped
<1>6. /\ shed' \in [Session -> [Reason -> Counts]]
      /\ \A x \in Session, y \in Class :
            /\ shed'[x]["ringbuf_full"][y] = IF x = s /\ y = c THEN shed[x]["ringbuf_full"][y] + n
                                                               ELSE shed[x]["ringbuf_full"][y]
            /\ shed'[x]["governor"][y] = shed[x]["governor"][y]
  <2>1. shed \in [Session -> [Reason -> Counts]]
    BY DEF TypeOK
  <2> QED  BY <1>1, <1>2, <2>1, RecordedType
<1>7. /\ start'[s] \in Nat /\ start'[s] # Unset /\ start'[s] <= now /\ lastTo[s] <= start'[s]
      /\ start[s] # Unset => start'[s] = start[s]
      /\ \A x \in Session : x # s => start'[x] = start[x]
      /\ start' \in [Session -> Nat \cup {Unset}]
  <2>1. Began(s) \in Nat /\ lastTo[s] <= Began(s) /\ Began(s) <= now
    BY BeganType
  <2>2. start[s] # Unset => Began(s) = start[s]
    BY DEF Began
  <2>3. Began(s) # Unset
    BY <2>1 DEF Unset
  <2> QED  BY <1>2, <2>1, <2>2, <2>3 DEF TypeOK
<1>8. IntervalsHonest' /\ firstLoss' \in [Session -> Nat \cup {Unset}]
  BY <1>1, <1>2, <1>7, LossInv
<1>9. TypeOK'
  BY <1>2, <1>3, <1>5, <1>6, <1>7, <1>8 DEF TypeOK
<1>10. Timely'
  BY <1>2, <1>7 DEF Timely, TypeOK
<1>11. Accounted'
  <2> SUFFICES ASSUME NEW x \in Session, NEW y \in Class
               PROVE  offered'[x][y] = admitted'[x][y]
                        + shed'[x]["governor"][y] + shed'[x]["ringbuf_full"][y]
                        + reported'[x]["governor"][y] + reported'[x]["ringbuf_full"][y]
    BY DEF Accounted
  <2> DEFINE k == IF x = s /\ y = c THEN n ELSE 0
  <2>1. /\ offered[x][y] \in Nat /\ admitted[x][y] \in Nat
        /\ shed[x]["governor"][y] \in Nat /\ shed[x]["ringbuf_full"][y] \in Nat
        /\ reported[x]["governor"][y] \in Nat /\ reported[x]["ringbuf_full"][y] \in Nat
        /\ offered[x][y] = admitted[x][y]
              + shed[x]["governor"][y] + shed[x]["ringbuf_full"][y]
              + reported[x]["governor"][y] + reported[x]["ringbuf_full"][y]
    BY Balance
  <2>2. /\ offered'[x][y] = offered[x][y] + k /\ admitted' = admitted
        /\ shed'[x]["governor"][y] = shed[x]["governor"][y]
        /\ shed'[x]["ringbuf_full"][y] = shed[x]["ringbuf_full"][y] + k /\ reported' = reported
    BY <1>2, <1>5, <1>6, <2>1
  <2>3. k \in Nat
    OBVIOUS
  <2> HIDE DEF k
  <2> QED  BY <2>1, <2>2, <2>3
<1> QED  BY <1>8, <1>9, <1>10, <1>11

\* FlushGaps reports every pending loss, once, and nothing else.
LEMMA FlushGapsInv ==
    ASSUME GovInv, FlushGaps
    PROVE  GovInv'
<1> USE DEF GovInv
<1> DEFINE Lost == {p \in Session \X Reason : shed[p[1]][p[2]] # NoCounts}
           Gap(p) == [session |-> p[1], reason |-> p[2], counts |-> shed[p[1]][p[2]],
                      from |-> Began(p[1]), to |-> now]
           G == {Gap(p) : p \in Lost}
<1>1. /\ Return(G) /\ start' = [x \in Session |-> IntervalAfter(x, G)]
      /\ shed' = [x \in Session |-> NoLoss] /\ firstLoss' = [x \in Session |-> Unset]
      /\ bucket' = bucket /\ now' = now /\ offered' = offered /\ admitted' = admitted
      /\ spent' = spent /\ born' = born
  BY DEF FlushGaps
<1>2. calls' \in Nat
  BY DEF FlushGaps, Called, TypeOK
<1>3. \A p \in Lost : /\ p[1] \in Session /\ p[2] \in Reason
                      /\ Gap(p) \in GapRecord
                      /\ Gap(p).session = p[1] /\ Gap(p).reason = p[2]
                      /\ Gap(p).counts = shed[p[1]][p[2]]
  <2> SUFFICES ASSUME NEW p \in Lost
               PROVE  /\ p[1] \in Session /\ p[2] \in Reason
                      /\ Gap(p) \in GapRecord
                      /\ Gap(p).session = p[1] /\ Gap(p).reason = p[2]
                      /\ Gap(p).counts = shed[p[1]][p[2]]
    OBVIOUS
  <2>1. p[1] \in Session /\ p[2] \in Reason
    OBVIOUS
  <2>2. Began(p[1]) \in Nat /\ now \in Nat
    BY <2>1, BeganType DEF TypeOK
  <2>3. shed[p[1]][p[2]] \in Counts
    BY <2>1 DEF TypeOK
  <2> QED  BY <2>1, <2>2, <2>3 DEF GapRecord
<1>4. G \in SUBSET GapRecord
  BY <1>3
<1>5. \A x \in Session, r \in Reason, y \in Class : Returned(x, r, y, G) = shed[x][r][y]
  <2> SUFFICES ASSUME NEW x \in Session, NEW r \in Reason, NEW y \in Class
               PROVE  Returned(x, r, y, G) = shed[x][r][y]
    OBVIOUS
  <2> DEFINE M == {g \in G : g.session = x /\ g.reason = r}
  <2>1. CASE shed[x][r] = NoCounts
    <3>1. M = {}
      BY <1>3, <2>1
    <3>2. NoCounts[y] = 0
      BY NoLossZero
    <3> QED  BY <2>1, <3>1, <3>2 DEF Returned
  <2>2. CASE shed[x][r] # NoCounts
    <3>1. <<x, r>> \in Lost
      BY <2>2
    <3>2. Gap(<<x, r>>) \in M
      BY <1>3, <3>1
    <3>3. \A g \in M : g.counts = shed[x][r]
      BY <1>3
    <3> HIDE DEF Lost, Gap, G
    <3>4. (CHOOSE g \in M : TRUE) \in M
      BY <3>2
    <3> QED  BY <3>2, <3>3, <3>4 DEF Returned
  <2> QED  BY <2>1, <2>2
<1> HIDE DEF Lost, Gap, G
<1>6. /\ out' \subseteq GapRecord
      /\ reported' \in [Session -> [Reason -> Counts]]
      /\ lastTo' \in [Session -> Nat]
      /\ \A x \in Session, r \in Reason, y \in Class :
            reported'[x][r][y] = reported[x][r][y] + shed[x][r][y]
      /\ \A x \in Session :
            lastTo'[x] = IF \E g \in G : g.session = x THEN now ELSE lastTo[x]
  BY <1>1, <1>4, <1>5, ReturnTypes
<1>7. /\ start' \in [Session -> Nat \cup {Unset}]
      /\ \A x \in Session : start'[x] = IntervalAfter(x, G)
  <2>1. \A x \in Session : IntervalAfter(x, G) \in Nat \cup {Unset}
    BY DEF IntervalAfter, TypeOK
  <2> QED  BY <1>1, <2>1
<1>8. TypeOK'
  BY <1>1, <1>2, <1>6, <1>7, NoLossZero DEF TypeOK
<1>9. Timely'
  <2> SUFFICES ASSUME NEW x \in Session
               PROVE  /\ bucket'[x].last <= now'
                      /\ lastTo'[x] <= now'
                      /\ bucket'[x].known => start'[x] # Unset
                      /\ start'[x] # Unset => lastTo'[x] <= start'[x] /\ start'[x] <= now'
    BY DEF Timely
  <2>1. /\ now \in Nat /\ now # Unset /\ bucket[x].last <= now /\ lastTo[x] <= now
        /\ start[x] # Unset => lastTo[x] <= start[x] /\ start[x] <= now
        /\ lastTo[x] \in Nat
    BY DEF Timely, TypeOK, Unset
  <2>2. CASE bucket[x].known \/ \E g \in G : g.session = x
    <3>1. start'[x] = now
      BY <1>7, <2>2 DEF IntervalAfter
    <3>2. lastTo'[x] = now \/ lastTo'[x] = lastTo[x]
      BY <1>6
    <3> QED  BY <1>1, <2>1, <3>1, <3>2
  <2>3. CASE ~(bucket[x].known \/ \E g \in G : g.session = x)
    <3>1. start'[x] = start[x]
      BY <1>7, <2>3 DEF IntervalAfter
    <3>2. lastTo'[x] = lastTo[x]
      BY <1>6, <2>3
    <3> QED  BY <1>1, <2>1, <2>3, <3>1, <3>2
  <2> QED  BY <2>2, <2>3
<1>10. Accounted'
  <2> SUFFICES ASSUME NEW x \in Session, NEW y \in Class
               PROVE  offered'[x][y] = admitted'[x][y]
                        + shed'[x]["governor"][y] + shed'[x]["ringbuf_full"][y]
                        + reported'[x]["governor"][y] + reported'[x]["ringbuf_full"][y]
    BY DEF Accounted
  <2>1. /\ offered[x][y] \in Nat /\ admitted[x][y] \in Nat
        /\ shed[x]["governor"][y] \in Nat /\ shed[x]["ringbuf_full"][y] \in Nat
        /\ reported[x]["governor"][y] \in Nat /\ reported[x]["ringbuf_full"][y] \in Nat
        /\ offered[x][y] = admitted[x][y]
              + shed[x]["governor"][y] + shed[x]["ringbuf_full"][y]
              + reported[x]["governor"][y] + reported[x]["ringbuf_full"][y]
    BY Balance
  <2>2. /\ shed'[x]["governor"][y] = 0 /\ shed'[x]["ringbuf_full"][y] = 0
        /\ reported'[x]["governor"][y] = reported[x]["governor"][y] + shed[x]["governor"][y]
        /\ reported'[x]["ringbuf_full"][y]
              = reported[x]["ringbuf_full"][y] + shed[x]["ringbuf_full"][y]
    BY <1>1, <1>6, NoLossZero DEF Reason
  <2> QED  BY <1>1, <2>1, <2>2
<1>11. IntervalsHonest'
  BY <1>1 DEF IntervalsHonest
<1> QED  BY <1>8, <1>9, <1>10, <1>11

\* EndSession reports every pending loss of the session, under one reason.
LEMMA EndSessionInv ==
    ASSUME GovInv, NEW s \in Session, EndSession(s)
    PROVE  GovInv'
<1> USE DEF GovInv
<1>1. /\ bucket' = [bucket EXCEPT ![s] = NoBucket] /\ shed' = [shed EXCEPT ![s] = NoLoss]
      /\ start' = [start EXCEPT ![s] = Unset] /\ firstLoss' = [firstLoss EXCEPT ![s] = Unset]
      /\ spent' = [spent EXCEPT ![s] = 0] /\ born' = [born EXCEPT ![s] = 0]
      /\ now' = now /\ offered' = offered /\ admitted' = admitted
  BY DEF EndSession
<1>2. calls' \in Nat
  BY DEF EndSession, Called, TypeOK
<1>3. \A y \in Class : /\ shed[s]["governor"][y] \in Nat /\ shed[s]["ringbuf_full"][y] \in Nat
                       /\ shed[s]["governor"][y] + shed[s]["ringbuf_full"][y] \in Nat
  BY DEF TypeOK, Counts, Reason
<1>4. PICK G \in SUBSET GapRecord :
         /\ Return(G)
         /\ \A g \in G : g.session = s
         /\ \A y \in Class : Returned(s, "governor", y, G) + Returned(s, "ringbuf_full", y, G)
               = shed[s]["governor"][y] + shed[s]["ringbuf_full"][y]
  <2> DEFINE Lost == {r \in Reason : shed[s][r] # NoCounts}
             Final(r) == [session |-> s, reason |-> r, counts |-> FinalCounts(s, r),
                          from |-> Began(s), to |-> now]
  <2>1. CASE Lost = {}
    <3>1. Return({})
      BY <2>1 DEF EndSession
    <3>2. \A r \in Reason, y \in Class : shed[s][r][y] = 0
      BY <2>1, NoLossZero
    <3>3. \A r \in Reason, y \in Class : Returned(s, r, y, {}) = 0
      BY DEF Returned
    <3> QED  BY <3>1, <3>2, <3>3 DEF Reason
  <2>2. CASE Lost # {}
    <3>1. PICK r \in Reason : Return({Final(r)})
      BY <2>2 DEF EndSession
    <3>2. /\ \A y \in Class : FinalCounts(s, r)[y]
                = shed[s]["governor"][y] + shed[s]["ringbuf_full"][y]
          /\ FinalCounts(s, r) \in Counts
      BY <1>3 DEF FinalCounts, Counts
    <3>3. Began(s) \in Nat /\ now \in Nat
      BY BeganType DEF TypeOK
    <3>4. Final(r) \in GapRecord
      BY <3>2, <3>3 DEF GapRecord
    <3>5. Final(r).session = s /\ Final(r).reason = r /\ Final(r).counts = FinalCounts(s, r)
      OBVIOUS
    <3> HIDE DEF Final
    <3>6. ASSUME NEW y \in Class
          PROVE  Returned(s, r, y, {Final(r)}) = FinalCounts(s, r)[y]
      <4> DEFINE M == {g \in {Final(r)} : g.session = s /\ g.reason = r}
      <4>1. M = {Final(r)}
        BY <3>5
      <4>2. (CHOOSE g \in M : TRUE) = Final(r)
        BY <4>1
      <4> QED  BY <3>5, <4>1, <4>2 DEF Returned
    <3>7. ASSUME NEW q \in Reason, NEW y \in Class, q # r
          PROVE  Returned(s, q, y, {Final(r)}) = 0
      <4>1. {g \in {Final(r)} : g.session = s /\ g.reason = q} = {}
        BY <3>5, <3>7
      <4> QED  BY <4>1 DEF Returned
    <3>8. \A y \in Class :
             Returned(s, "governor", y, {Final(r)}) + Returned(s, "ringbuf_full", y, {Final(r)})
               = shed[s]["governor"][y] + shed[s]["ringbuf_full"][y]
      <4> SUFFICES ASSUME NEW y \in Class
                   PROVE  Returned(s, "governor", y, {Final(r)})
                             + Returned(s, "ringbuf_full", y, {Final(r)})
                          = shed[s]["governor"][y] + shed[s]["ringbuf_full"][y]
        OBVIOUS
      <4> DEFINE total == shed[s]["governor"][y] + shed[s]["ringbuf_full"][y]
      <4>1. total \in Nat /\ FinalCounts(s, r)[y] = total
        BY <1>3, <3>2
      <4> HIDE DEF total
      <4>2. CASE r = "governor"
        <5>1. Returned(s, "governor", y, {Final(r)}) = total
          BY <3>6, <4>1, <4>2
        <5>2. Returned(s, "ringbuf_full", y, {Final(r)}) = 0
          BY <3>7, <4>2 DEF Reason
        <5>3. total + 0 = total
          BY <4>1
        <5> QED  BY <5>1, <5>2, <5>3 DEF total
      <4>3. CASE r = "ringbuf_full"
        <5>1. Returned(s, "ringbuf_full", y, {Final(r)}) = total
          BY <3>6, <4>1, <4>3
        <5>2. Returned(s, "governor", y, {Final(r)}) = 0
          BY <3>7, <4>3 DEF Reason
        <5>3. 0 + total = total
          BY <4>1
        <5> QED  BY <5>1, <5>2, <5>3 DEF total
      <4> QED  BY <4>2, <4>3 DEF Reason
    <3> QED  BY <3>1, <3>4, <3>5, <3>8
  <2> QED  BY <2>1, <2>2
<1>5. /\ out' \subseteq GapRecord
      /\ reported' \in [Session -> [Reason -> Counts]]
      /\ lastTo' \in [Session -> Nat]
      /\ \A x \in Session, r \in Reason, y \in Class :
            reported'[x][r][y] = reported[x][r][y] + Returned(x, r, y, G)
      /\ \A x \in Session :
            lastTo'[x] = IF \E g \in G : g.session = x THEN now ELSE lastTo[x]
  BY <1>4, ReturnTypes
<1>6. \A x \in Session, r \in Reason, y \in Class :
         /\ x # s => Returned(x, r, y, G) = 0
         /\ Returned(x, r, y, G) \in Nat
  <2> SUFFICES ASSUME NEW x \in Session, NEW r \in Reason, NEW y \in Class
               PROVE  /\ x # s => Returned(x, r, y, G) = 0
                      /\ Returned(x, r, y, G) \in Nat
    OBVIOUS
  <2>1. x # s => {g \in G : g.session = x /\ g.reason = r} = {}
    BY <1>4
  <2> QED  BY <2>1, ReturnedType DEF Returned
<1>7. NoBucket \in Bucket /\ NoBucket.known = FALSE /\ NoBucket.last = 0
  BY FullType DEF NoBucket, Bucket
<1>8. TypeOK'
  BY <1>1, <1>2, <1>5, <1>7, NoLossZero DEF TypeOK
<1>9. Timely'
  <2> SUFFICES ASSUME NEW x \in Session
               PROVE  /\ bucket'[x].last <= now'
                      /\ lastTo'[x] <= now'
                      /\ bucket'[x].known => start'[x] # Unset
                      /\ start'[x] # Unset => lastTo'[x] <= start'[x] /\ start'[x] <= now'
    BY DEF Timely
  <2>1. /\ now \in Nat /\ bucket[x].last <= now /\ lastTo[x] <= now
        /\ bucket[x].known => start[x] # Unset
        /\ start[x] # Unset => lastTo[x] <= start[x] /\ start[x] <= now
    BY DEF Timely, TypeOK
  <2>2. CASE x = s
    <3>1. bucket'[x] = NoBucket /\ start'[x] = Unset
      BY <1>1, <2>2 DEF TypeOK
    <3>2. lastTo'[x] <= now
      BY <1>5, <2>1
    <3> QED  BY <1>1, <1>7, <2>1, <3>1, <3>2
  <2>3. CASE x # s
    <3>1. bucket'[x] = bucket[x] /\ start'[x] = start[x]
      BY <1>1, <2>3 DEF TypeOK
    <3>2. lastTo'[x] = lastTo[x]
      BY <1>4, <1>5, <2>3
    <3> QED  BY <1>1, <2>1, <3>1, <3>2
  <2> QED  BY <2>2, <2>3
<1>10. Accounted'
  <2> SUFFICES ASSUME NEW x \in Session, NEW y \in Class
               PROVE  offered'[x][y] = admitted'[x][y]
                        + shed'[x]["governor"][y] + shed'[x]["ringbuf_full"][y]
                        + reported'[x]["governor"][y] + reported'[x]["ringbuf_full"][y]
    BY DEF Accounted
  <2>1. /\ offered[x][y] \in Nat /\ admitted[x][y] \in Nat
        /\ shed[x]["governor"][y] \in Nat /\ shed[x]["ringbuf_full"][y] \in Nat
        /\ reported[x]["governor"][y] \in Nat /\ reported[x]["ringbuf_full"][y] \in Nat
        /\ offered[x][y] = admitted[x][y]
              + shed[x]["governor"][y] + shed[x]["ringbuf_full"][y]
              + reported[x]["governor"][y] + reported[x]["ringbuf_full"][y]
    BY Balance
  <2>2. /\ reported'[x]["governor"][y] = reported[x]["governor"][y] + Returned(x, "governor", y, G)
        /\ reported'[x]["ringbuf_full"][y]
              = reported[x]["ringbuf_full"][y] + Returned(x, "ringbuf_full", y, G)
        /\ Returned(x, "governor", y, G) \in Nat /\ Returned(x, "ringbuf_full", y, G) \in Nat
    BY <1>5, <1>6 DEF Reason
  <2>3. CASE x = s
    <3>1. shed'[x] = NoLoss
      BY <1>1, <2>3 DEF TypeOK
    <3>2. shed'[x]["governor"][y] = 0 /\ shed'[x]["ringbuf_full"][y] = 0
      BY <3>1, NoLossZero DEF Reason
    <3>3. Returned(x, "governor", y, G) + Returned(x, "ringbuf_full", y, G)
             = shed[x]["governor"][y] + shed[x]["ringbuf_full"][y]
      BY <1>4, <2>3
    <3>4. offered' = offered /\ admitted' = admitted
      BY <1>1
    <3> QED  BY <2>1, <2>2, <3>2, <3>3, <3>4
  <2>4. CASE x # s
    <3>1. shed'[x] = shed[x]
      BY <1>1, <2>4 DEF TypeOK
    <3>2. Returned(x, "governor", y, G) = 0 /\ Returned(x, "ringbuf_full", y, G) = 0
      BY <1>6, <2>4 DEF Reason
    <3> QED  BY <1>1, <2>1, <2>2, <3>1, <3>2
  <2> QED  BY <2>3, <2>4
<1>11. IntervalsHonest'
  <2> SUFFICES ASSUME NEW x \in Session
               PROVE  /\ firstLoss'[x] # Unset <=> shed'[x] # NoLoss
                      /\ firstLoss'[x] # Unset => /\ start'[x] # Unset
                                                  /\ start'[x] <= firstLoss'[x]
                                                  /\ lastTo'[x] <= start'[x]
    BY DEF IntervalsHonest
  <2>1. CASE x = s
    <3>1. firstLoss'[x] = Unset /\ shed'[x] = NoLoss
      BY <1>1, <2>1 DEF TypeOK
    <3> QED  BY <3>1
  <2>2. CASE x # s
    <3>1. firstLoss'[x] = firstLoss[x] /\ shed'[x] = shed[x] /\ start'[x] = start[x]
      BY <1>1, <2>2 DEF TypeOK
    <3>2. lastTo'[x] = lastTo[x]
      BY <1>4, <1>5, <2>2
    <3> QED  BY <3>1, <3>2 DEF IntervalsHonest
  <2> QED  BY <2>1, <2>2
<1> QED  BY <1>8, <1>9, <1>10, <1>11

\* Time passes.
LEMMA TickInv ==
    ASSUME GovInv, Tick
    PROVE  GovInv'
<1> USE DEF GovInv
<1>1. /\ now' = now + 1 /\ bucket' = bucket /\ start' = start /\ shed' = shed /\ out' = out
      /\ UNCHANGED history
  BY DEF Tick, lossVars
<1>2. TypeOK'
  BY <1>1 DEF TypeOK, history
<1>3. Timely'
  <2> SUFFICES ASSUME NEW x \in Session
               PROVE  /\ bucket'[x].last <= now'
                      /\ lastTo'[x] <= now'
                      /\ bucket'[x].known => start'[x] # Unset
                      /\ start'[x] # Unset => lastTo'[x] <= start'[x] /\ start'[x] <= now'
    BY DEF Timely
  <2>1. /\ now \in Nat /\ bucket[x] \in Bucket /\ lastTo[x] \in Nat
        /\ start[x] \in Nat \cup {Unset}
    BY DEF TypeOK
  <2>2. bucket[x].last \in Nat
    BY <2>1 DEF Bucket
  <2> QED  BY <1>1, <2>1, <2>2 DEF Timely, history
<1>4. Accounted'
  BY <1>1 DEF Accounted, history
<1>5. IntervalsHonest'
  BY <1>1 DEF IntervalsHonest, history
<1> QED  BY <1>2, <1>3, <1>4, <1>5

\* Every step preserves the invariant.
LEMMA NextInv == GovInv /\ [Next]_vars => GovInv'
<1> SUFFICES ASSUME GovInv, [Next]_vars
             PROVE  GovInv'
  OBVIOUS
<1>1. ASSUME NEW s \in Session, NEW c \in Class, AdmitNeverShed(s, c)
      PROVE  GovInv'
  BY <1>1, AdmitNeverShedInv
<1>2. ASSUME NEW s \in Session, NEW c \in Class, Admit(s, c)
      PROVE  GovInv'
  BY <1>2, AdmitInv
<1>3. ASSUME NEW s \in Session, NEW c \in Class, RecordRingbufDrop(s, c, 1)
      PROVE  GovInv'
  BY <1>3, RecordRingbufDropInv
<1>4. CASE FlushGaps
  BY <1>4, FlushGapsInv
<1>5. ASSUME NEW s \in Session, EndSession(s)
      PROVE  GovInv'
  BY <1>5, EndSessionInv
<1>6. CASE Tick
  BY <1>6, TickInv
<1>7. CASE UNCHANGED vars
  BY <1>7 DEF vars, lossVars, history, GovInv, TypeOK, Timely, Accounted, IntervalsHonest
<1> QED  BY <1>1, <1>2, <1>3, <1>4, <1>5, <1>6, <1>7 DEF Next

----------------------------------------------------------------------------
(* Tokens *)

\* The tokens of a bucket, all tiers together.
InAll(b) == b.tiers[0] + b.tiers[1] + b.tiers[2] + b.tiers[3]

\* A refill adds to the tiers no more than the time since the last one brought,
\* takes from none, and gives to a tier only when all behind it are full.
LEMMA RefillFlow ==
    ASSUME NEW b \in Bucket, now \in Nat, b.last <= now
    PROVE  /\ InAll(Refilled(b)) <= InAll(b) + (now - b.last) * Rate
           /\ \A t \in Tier : Refilled(b).tiers[t] >= b.tiers[t]
           /\ \A t, u \in Tier : t < u /\ Refilled(b).tiers[t] > b.tiers[t]
                                    => Refilled(b).tiers[u] = Full
<1> DEFINE amount  == (now - b.last) * Rate
           Room(t) == Full - b.tiers[t]
           r2 == amount - Smaller(amount, Room(3))
           r1 == r2 - Smaller(r2, Room(2))
           r0 == r1 - Smaller(r1, Room(1))
           left == <<r0, r1, r2, amount>>
           tiers == [t \in Tier |-> b.tiers[t] + Smaller(Room(t), left[t + 1])]
<1>1. b.last \in Nat /\ \A t \in Tier : b.tiers[t] \in Nat /\ b.tiers[t] <= Full
  BY FullType DEF Bucket
<1>2. amount \in Nat
  <2>1. now - b.last \in Nat /\ Rate \in Nat
    BY <1>1, GovernorAssumption
  <2> QED  BY <2>1
<1>3. Refilled(b).tiers = tiers
  <2>1. Refilled(b) = [b EXCEPT !.last = now, !.tiers = tiers]
    BY DEF Refilled, Bucket
  <2> HIDE DEF tiers
  <2> QED  BY <2>1 DEF Bucket
<1> HIDE DEF amount
<1>4. /\ tiers[0] = b.tiers[0] + Smaller(Room(0), r0)
      /\ tiers[1] = b.tiers[1] + Smaller(Room(1), r1)
      /\ tiers[2] = b.tiers[2] + Smaller(Room(2), r2)
      /\ tiers[3] = b.tiers[3] + Smaller(Room(3), amount)
  <2>1. left[1] = r0 /\ left[2] = r1 /\ left[3] = r2 /\ left[4] = amount
    OBVIOUS
  <2> HIDE DEF left, Room
  <2> QED  BY <2>1 DEF Tier
<1>5. 0 \in Tier /\ 1 \in Tier /\ 2 \in Tier /\ 3 \in Tier /\ Full \in Nat
  BY FullType DEF Tier
<1> HIDE DEF tiers
<1>6. /\ tiers[0] + tiers[1] + tiers[2] + tiers[3] <= InAll(b) + amount
      /\ \A t \in {0, 1, 2, 3} : tiers[t] >= b.tiers[t]
      /\ tiers[0] > b.tiers[0] => tiers[1] = Full /\ tiers[2] = Full /\ tiers[3] = Full
      /\ tiers[1] > b.tiers[1] => tiers[2] = Full /\ tiers[3] = Full
      /\ tiers[2] > b.tiers[2] => tiers[3] = Full
  BY <1>1, <1>2, <1>4, <1>5 DEF Smaller, InAll
<1>7. Tier = {0, 1, 2, 3}
  BY DEF Tier
<1>8. InAll(Refilled(b)) <= InAll(b) + amount
  BY <1>3, <1>6 DEF InAll
<1>9. ASSUME NEW t \in Tier, NEW u \in Tier, t < u, tiers[t] > b.tiers[t]
      PROVE  tiers[u] = Full
  BY <1>6, <1>7, <1>9
<1> QED  BY <1>3, <1>6, <1>7, <1>8, <1>9 DEF amount

\* A token is taken from a tier.
Taken(b, c) == [b EXCEPT !.tiers[c] = @ - Whole]

\* Taking a token lowers one tier by it and leaves the others.
LEMMA TakenTokens ==
    ASSUME NEW b \in Bucket, NEW c \in Tier
    PROVE  /\ InAll(Taken(b, c)) = InAll(b) - Whole
           /\ Taken(b, c).last = b.last
           /\ \A t \in Tier :
                 Taken(b, c).tiers[t] = IF t = c THEN b.tiers[t] - Whole ELSE b.tiers[t]
<1> DEFINE d == Taken(b, c)
<1>1. b.tiers \in [Tier -> 0 .. Full] /\ Whole \in Nat /\ Full \in Nat
  BY FullType DEF Bucket
<1>2. d.tiers = [b.tiers EXCEPT ![c] = @ - Whole] /\ d.last = b.last
  BY DEF Bucket, Taken
<1> HIDE DEF d
<1>3. \A t \in Tier : d.tiers[t] = IF t = c THEN b.tiers[t] - Whole ELSE b.tiers[t]
  BY <1>1, <1>2
<1>4. Tier = {0, 1, 2, 3} /\ \A t \in Tier : b.tiers[t] \in Nat
  BY <1>1 DEF Tier
<1>5. InAll(d) = InAll(b) - Whole
  BY <1>1, <1>3, <1>4 DEF InAll
<1> QED  BY <1>2, <1>3, <1>5 DEF d

\* A bucket that was just taken up to date holds, with what was admitted from
\* it, no more than it may.
LEMMA BucketForTokens ==
    ASSUME TypeOK, Timely, TokensConserved, NEW s \in Session,
           NEW k, k = (IF bucket[s].known THEN spent[s] ELSE 0),
           NEW a, a = (IF bucket[s].known THEN born[s] ELSE now)
    PROVE  InAll(BucketFor(s)) + k * Whole <= 4 * Full + (now - a) * Rate
<1>1. /\ bucket[s] \in Bucket /\ now \in Nat /\ spent[s] \in Nat /\ born[s] \in Nat
      /\ bucket[s].last \in Nat /\ bucket[s].last <= now
  BY DEF TypeOK, Timely, Bucket
<1>2. Rate \in Nat /\ Whole \in Nat /\ Full \in Nat
  BY GovernorAssumption, FullType
<1>3. CASE bucket[s].known
  <2> DEFINE l == bucket[s].last
             r == BucketFor(s)
  <2>1. InAll(r) <= InAll(bucket[s]) + (now - l) * Rate
    BY <1>1, <1>3, RefillFlow DEF BucketFor
  <2>2. InAll(bucket[s]) + spent[s] * Whole <= 4 * Full + (l - born[s]) * Rate
    BY <1>3 DEF TokensConserved, InAll
  <2>3. (now - l) * Rate + (l - born[s]) * Rate = (now - born[s]) * Rate
    <3>1. \A x, y, z \in Int : (x - y) * z + (y - a) * z = (x - a) * z
      BY <1>1, <1>3
    <3> QED  BY <1>1, <1>2, <1>3, <3>1
  <2>4. /\ InAll(r) \in Int /\ InAll(bucket[s]) \in Int /\ spent[s] * Whole \in Int
        /\ (now - l) * Rate \in Int /\ (l - born[s]) * Rate \in Int
    <3>1. r \in Bucket
      BY BucketForType
    <3>2. \A x \in Bucket : InAll(x) \in Int
      BY FullType DEF Bucket, InAll, Tier
    <3> QED  BY <1>1, <1>2, <3>1, <3>2
  <2>5. k = spent[s] /\ a = born[s]
    BY <1>3
  <2> HIDE DEF l, r
  <2> QED  BY <1>2, <2>1, <2>2, <2>3, <2>4, <2>5 DEF r
<1>4. CASE ~bucket[s].known
  <2>1. InAll(BucketFor(s)) = 4 * Full
    BY <1>2, <1>4 DEF BucketFor, NewBucket, InAll, Tier
  <2> QED  BY <1>1, <1>2, <1>4, <2>1
<1> QED  BY <1>3, <1>4

\* An admission pays for what it lets through.
LEMMA AdmitTokens ==
    ASSUME GovInv, TokensConserved, NEW s \in Session, NEW c \in Class, Admit(s, c)
    PROVE  TokensConserved'
<1> DEFINE b == BucketFor(s)
           k == IF bucket[s].known THEN spent[s] ELSE 0
           a == IF bucket[s].known THEN born[s] ELSE now
<1>1. /\ b \in Bucket /\ b.known /\ b.last = now
      /\ InAll(b) + k * Whole <= 4 * Full + (now - a) * Rate
  BY BucketForType, BucketForTokens DEF GovInv
<1>2. /\ bucket \in [Session -> Bucket] /\ spent \in [Session -> Nat] /\ born \in [Session -> Nat]
      /\ now \in Nat /\ c \in Tier /\ k \in Nat /\ Whole \in Nat
  BY FullType DEF GovInv, TypeOK, Admit
<1>3. /\ born'[s] = a
      /\ \A x \in Session \ {s} : /\ bucket'[x] = bucket[x] /\ born'[x] = born[x]
                                  /\ spent'[x] = spent[x]
  BY <1>2 DEF Admit
<1>4. CASE b.tiers[c] >= Whole
  <2> DEFINE d == Taken(b, c)
  <2>1. bucket'[s] = d /\ spent'[s] = k + 1
    BY <1>2, <1>4 DEF Admit, Taken
  <2>2. InAll(d) = InAll(b) - Whole /\ d.last = now
    BY <1>1, <1>2, TakenTokens
  <2>3. (k + 1) * Whole = k * Whole + Whole /\ k * Whole \in Nat
    BY <1>2
  <2>4. InAll(b) \in Int
    BY <1>1, FullType DEF Bucket, InAll, Tier
  <2>5. InAll(d) + (k + 1) * Whole <= 4 * Full + (now - a) * Rate
    <3> HIDE DEF d, k, a, b
    <3> QED  BY <1>1, <1>2, <2>2, <2>3, <2>4
  <2> QED  BY <1>3, <2>1, <2>2, <2>5 DEF TokensConserved, InAll
<1>5. CASE ~(b.tiers[c] >= Whole)
  <2>1. bucket'[s] = b /\ spent'[s] = k
    BY <1>2, <1>5 DEF Admit
  <2> QED  BY <1>1, <1>3, <2>1 DEF TokensConserved, InAll
<1> QED  BY <1>4, <1>5

\* No step mints a token.
LEMMA NextTokens == GovInv /\ TokensConserved /\ [Next]_vars => TokensConserved'
<1> SUFFICES ASSUME GovInv, TokensConserved, [Next]_vars
             PROVE  TokensConserved'
  OBVIOUS
<1>1. CASE UNCHANGED <<bucket, spent, born>>
  BY <1>1 DEF TokensConserved
<1>2. ASSUME NEW s \in Session, NEW c \in Class, Admit(s, c)
      PROVE  TokensConserved'
  BY <1>2, AdmitTokens
<1>3. ASSUME NEW s \in Session, EndSession(s)
      PROVE  TokensConserved'
  <2>1. /\ ~bucket'[s].known
        /\ \A x \in Session \ {s} : /\ bucket'[x] = bucket[x] /\ born'[x] = born[x]
                                    /\ spent'[x] = spent[x]
    BY <1>3 DEF EndSession, NoBucket, GovInv, TypeOK
  <2> QED  BY <2>1 DEF TokensConserved
<1>4. ASSUME NEW s \in Session, NEW c \in Class,
             AdmitNeverShed(s, c) \/ RecordRingbufDrop(s, c, 1)
      PROVE  TokensConserved'
  BY <1>1, <1>4 DEF AdmitNeverShed, RecordRingbufDrop
<1>5. CASE FlushGaps \/ Tick \/ UNCHANGED vars
  BY <1>1, <1>5 DEF FlushGaps, Tick, vars, history
<1> QED  BY <1>2, <1>3, <1>4, <1>5 DEF Next

\* What LaterTiersFirst says of one session and one step.
InOrder(s) ==
    (bucket[s].known /\ bucket'[s].known) =>
        \A t, u \in Tier : (t < u /\ bucket'[s].tiers[t] > bucket[s].tiers[t])
                              => bucket'[s].tiers[u] \in {Full, Full - Whole}

\* An admission refills in the shed order, and the token it takes is the last
\* change.
LEMMA AdmitOrder ==
    ASSUME GovInv, NEW s \in Session, NEW c \in Class, Admit(s, c)
    PROVE  InOrder(s)
<1> SUFFICES ASSUME bucket[s].known, NEW t \in Tier, NEW u \in Tier, t < u,
                    bucket'[s].tiers[t] > bucket[s].tiers[t]
             PROVE  bucket'[s].tiers[u] \in {Full, Full - Whole}
  BY DEF InOrder
<1> DEFINE b == BucketFor(s)
<1>1. /\ bucket[s] \in Bucket /\ now \in Nat /\ bucket[s].last <= now /\ b = Refilled(bucket[s])
      /\ bucket \in [Session -> Bucket] /\ c \in Tier /\ b \in Bucket
  BY BucketForType DEF GovInv, TypeOK, Timely, BucketFor, Admit
<1>2. b.tiers[t] > bucket[s].tiers[t] => b.tiers[u] = Full
  BY <1>1, RefillFlow
<1>3. /\ b.tiers[t] \in Nat /\ b.tiers[u] \in Nat /\ bucket[s].tiers[t] \in Nat
      /\ Whole \in Nat /\ Full \in Nat
  BY <1>1, FullType DEF Bucket
<1>4. CASE b.tiers[c] >= Whole
  <2> DEFINE d == Taken(b, c)
  <2>1. bucket'[s] = d
    BY <1>1, <1>4 DEF Admit, Taken
  <2>2. \A v \in Tier : d.tiers[v] = IF v = c THEN b.tiers[v] - Whole ELSE b.tiers[v]
    BY <1>1, TakenTokens
  <2> HIDE DEF b, d
  <2> QED  BY <1>2, <1>3, <2>1, <2>2
<1>5. CASE ~(b.tiers[c] >= Whole)
  <2>1. bucket'[s] = b
    BY <1>1, <1>5 DEF Admit
  <2> QED  BY <1>2, <2>1
<1> QED  BY <1>4, <1>5

\* Every step refills in the shed order.
LEMMA NextOrder == GovInv /\ [Next]_vars => \A s \in Session : InOrder(s)
<1> SUFFICES ASSUME GovInv, [Next]_vars, NEW s \in Session
             PROVE  InOrder(s)
  OBVIOUS
<1>1. bucket \in [Session -> Bucket] /\ \A t \in Tier : bucket[s].tiers[t] \in Nat
  BY FullType DEF GovInv, TypeOK, Bucket
<1>2. CASE bucket'[s] = bucket[s]
  BY <1>1, <1>2 DEF InOrder
<1>3. ASSUME NEW x \in Session, NEW c \in Class, Admit(x, c)
      PROVE  InOrder(s)
  <2>1. x # s => bucket'[s] = bucket[s]
    BY <1>1, <1>3 DEF Admit
  <2> QED  BY <1>2, <1>3, <2>1, AdmitOrder
<1>4. ASSUME NEW x \in Session, EndSession(x)
      PROVE  InOrder(s)
  <2>1. x = s => ~bucket'[s].known
    BY <1>1, <1>4 DEF EndSession, NoBucket
  <2>2. x # s => bucket'[s] = bucket[s]
    BY <1>1, <1>4 DEF EndSession
  <2> QED  BY <1>2, <2>1, <2>2 DEF InOrder
<1>5. ASSUME NEW x \in Session, NEW c \in Class,
             AdmitNeverShed(x, c) \/ RecordRingbufDrop(x, c, 1)
      PROVE  InOrder(s)
  BY <1>2, <1>5 DEF AdmitNeverShed, RecordRingbufDrop
<1>6. CASE FlushGaps \/ Tick \/ UNCHANGED vars
  BY <1>2, <1>6 DEF FlushGaps, Tick, vars
<1> QED  BY <1>3, <1>4, <1>5, <1>6 DEF Next

----------------------------------------------------------------------------
(* Theorems *)

\* The inductive invariant of the governor: types, the order of its time
\* stamps, the balance of its counts and the extent of its intervals.
THEOREM GovernorInvariant == Spec => []GovInv
BY InitInv, NextInv, PTL DEF Spec

\* In every state of the governor every tier lies between empty and the burst
\* and every count is a number, for any burst, rate and passage of time.
THEOREM TypeCorrect == Spec => []TypeOK
<1>1. GovInv => TypeOK
  BY DEF GovInv
<1> QED  BY <1>1, GovernorInvariant, PTL

\* Losses are loud: however Admit, RecordRingbufDrop, FlushGaps and EndSession
\* follow each other, an event was admitted, is in the pending counts, or is in
\* exactly one gap record that was returned.
THEOREM LossesAccounted == Spec => []Accounted
<1>1. GovInv => Accounted
  BY DEF GovInv
<1> QED  BY <1>1, GovernorInvariant, PTL

\* A loss is reported with an interval that contains it, and the intervals of a
\* session's gaps do not overlap.
THEOREM GapIntervals == Spec => []IntervalsHonest
<1>1. GovInv => IntervalsHonest
  BY DEF GovInv
<1> QED  BY <1>1, GovernorInvariant, PTL

\* A bucket lets through what its four tiers held and the clock brought, never
\* more, and the clock's tokens go to the tier that is shed last, then to the
\* one before it (Admit, refill), for any burst, rate and order of calls.
THEOREM BucketsHold == Spec => BucketsRight
<1>1. Init => TokensConserved
  BY DEF Init, NoBucket, TokensConserved
<1>2. Spec => []TokensConserved
  BY <1>1, NextTokens, GovernorInvariant, PTL DEF Spec
<1>3. GovInv => TypeOK
  BY DEF GovInv
<1>4. GovInv /\ [Next]_vars =>
         [\A s \in Session : (bucket[s].known /\ bucket'[s].known) =>
             \A t, u \in Tier : (t < u /\ bucket'[s].tiers[t] > bucket[s].tiers[t])
                                   => bucket'[s].tiers[u] \in {Full, Full - Whole}]_vars
  BY NextOrder DEF InOrder
<1> QED  BY <1>2, <1>3, <1>4, GovernorInvariant, PTL DEF Spec, BucketsRight, LaterTiersFirst

=============================================================================
