---------------------------- MODULE StorageProofs ----------------------------
(***************************************************************************)
(* What holds of what lies on disk.  Of the ledger under any number of     *)
(* collectors, a verification and an export, whatever is committed between *)
(* their queries: what GC nulls is in its archive, and both verifiers have *)
(* a reason for what they say.  Of the device's files for any number of    *)
(* runs and ranads, drawings, checkpoints and deaths: one key and one      *)
(* salt, a public key that verifies every checkpoint, one chain of them    *)
(* while one run at a time writes, one salt of ranad while one at a time   *)
(* starts, a mirror that returns what was written to it.                   *)
(***************************************************************************)
EXTENDS LedgerReaders, DeviceFiles, FiniteSetTheorems, SequenceTheorems, TLAPS

----------------------------------------------------------------------------
(* The ledger under its readers *)

Segment == [first : Nat, last : Nat, archived : BOOLEAN]
Commit == {"rows", "checkpoint", "gc"}
ReaderState ==
    [at : {"rest", "checkpoints", "events", "segments", "done", "over"}, touched : SUBSET Commit,
     events : SUBSET Nat, segs : Seq(Segment), ckpts : Seq(Nat), todo : SUBSET Nat,
     bad : BOOLEAN, code : {"none", "ok", "incomplete", "broken"}, tail : SUBSET Nat]
GcState == [at : {"rest", "read", "rename", "commit"}, targets : SUBSET Nat, seg : Nat,
            rows : SUBSET Nat]
ArchiveFile == [written : BOOLEAN, rows : SUBSET Nat]

\* The types the argument needs.
LedgerTypes ==
    /\ live \in Seq(BOOLEAN) /\ open \in Nat
    /\ sealed \in Seq(Segment) /\ signed \in Seq(Nat)
    /\ archive \in [1 .. MaxRows -> ArchiveFile]
    /\ gc \in [Collector -> GcState]
    /\ verify \in ReaderState /\ export \in ReaderState

\* The segments follow one another within the rows that are committed, and a
\* checkpoint's segment is committed before it.
SegmentsInPlace ==
    /\ open \in 1 .. Len(live) + 1
    /\ Len(sealed) <= Len(live) /\ Len(live) <= MaxRows
    /\ \A k \in 1 .. Len(sealed) :
          1 <= sealed[k].first /\ sealed[k].first <= sealed[k].last /\ sealed[k].last < open
    /\ \A j, k \in 1 .. Len(sealed) : j < k => sealed[j].last < sealed[k].first
    /\ \A i \in 1 .. Len(signed) : signed[i] <= Len(sealed)

\* Exactly the rows of archived segments are nulled.
NulledAreArchived ==
    \A r \in 1 .. Len(live) :
        ~live[r] <=> \E k \in 1 .. Len(sealed) : sealed[k].archived /\ r \in Rows(sealed[k])

\* GC has its segment among its targets, and those are segments.
TargetsInPlace ==
    \A c \in Collector :
        /\ gc[c].targets \subseteq 1 .. Len(sealed)
        /\ gc[c].at \in {"rename", "commit"} => gc[c].seg \in gc[c].targets

\* A segment that no two GCs had before them at once is not archived while one
\* has it: what is read of it, and then in its archive, is all of it.
HeldAlone(k) ==
    /\ \A c, d \in Collector : k \in gc[c].targets /\ k \in gc[d].targets => c = d
    /\ \A c \in Collector : k \in gc[c].targets =>
          /\ ~sealed[k].archived
          /\ gc[c].at = "rename" /\ gc[c].seg = k => gc[c].rows = Rows(sealed[k])
          /\ gc[c].at = "commit" /\ gc[c].seg = k => archive[k].rows = Rows(sealed[k])
    /\ sealed[k].archived => archive[k].rows = Rows(sealed[k])
ArchivesWhole == \A k \in (1 .. Len(sealed)) \ shared : HeldAlone(k)

\* While nothing but rows and seals came in between, Verify looks at a prefix of
\* the segments, as they are, with every checkpoint's among them, and has
\* found nothing; untouched, at all of them.
VerifyHonest ==
    /\ verify.at = "rest" => verify = Resting
    /\ verify.at \in {"checkpoints", "events"} /\ verify.touched \cap {"checkpoint", "gc"} = {} =>
          /\ Len(verify.segs) <= Len(sealed)
          /\ \A k \in 1 .. Len(verify.segs) : verify.segs[k] = sealed[k]
          /\ \A i \in 1 .. Len(signed) : signed[i] <= Len(verify.segs)
          /\ ~verify.bad
          /\ verify.touched = {} => Len(verify.segs) = Len(sealed)
          /\ verify.at = "events" =>
                /\ verify.ckpts = signed
                /\ \A k \in verify.todo : k \in 1 .. Len(verify.segs) /\ ~verify.segs[k].archived
    /\ QuietVerdict /\ BrokenOnlyByOverlap

\* An export nothing came between holds the ledger as it is.
ExportHonest ==
    /\ export.at = "rest" => export = Resting
    /\ export.at \in {"segments", "checkpoints"} /\ export.touched = {} =>
          /\ export.events = {r \in 1 .. Len(live) : live[r]}
          /\ export.at = "checkpoints" => export.segs = sealed
    /\ ExportVerdict

ReadersInv ==
    /\ LedgerTypes /\ SegmentsInPlace /\ NulledAreArchived
    /\ TargetsInPlace /\ ArchivesWhole
    /\ VerifyHonest /\ ExportHonest

----------------------------------------------------------------------------

\* How a reader takes note of what was committed beside it: openDB's snapshots
\* of a ledger that others write.
LEMMA TouchedReader ==
    ASSUME NEW r \in ReaderState, NEW what \in Commit
    PROVE  /\ Touched(r, what) \in ReaderState
           /\ Touched(r, what).at # "done"
           /\ r.at = "rest" => Touched(r, what) = r
           /\ Touched(r, what).at = "rest" => r.at = "rest"
           /\ Touched(r, what).at \in {"checkpoints", "events", "segments"} =>
                 Touched(r, what) = [r EXCEPT !.touched = @ \cup {what}]
<1>0. <<>> \in Seq(Segment) /\ <<>> \in Seq(Nat)
  OBVIOUS
<1>1. Resting \in ReaderState
  BY <1>0, Zenon DEF Resting, ReaderState, Commit
<1>2. [Resting EXCEPT !.at = "over"] \in ReaderState
  BY <1>1, Zenon DEF ReaderState
<1>3. [r EXCEPT !.touched = @ \cup {what}] \in ReaderState
  <2>1. r.touched \cup {what} \in SUBSET Commit
    BY Zenon DEF ReaderState
  <2> QED
    BY <2>1, Zenon DEF ReaderState
<1>4. [Resting EXCEPT !.at = "over"].at = "over"
  BY DEF Resting
<1>5. [r EXCEPT !.touched = @ \cup {what}].at = r.at
  BY DEF ReaderState
<1> QED
  BY <1>2, <1>3, <1>4, <1>5 DEF Touched

\* The same, field by field.
LEMMA TouchedFields ==
    ASSUME NEW r \in ReaderState, NEW what \in Commit,
           Touched(r, what).at \in {"checkpoints", "events", "segments"}
    PROVE  /\ Touched(r, what).touched = r.touched \cup {what}
           /\ Touched(r, what).at = r.at /\ Touched(r, what).events = r.events
           /\ Touched(r, what).segs = r.segs /\ Touched(r, what).ckpts = r.ckpts
           /\ Touched(r, what).todo = r.todo /\ Touched(r, what).bad = r.bad
<1>1. Touched(r, what) = [r EXCEPT !.touched = @ \cup {what}]
  BY TouchedReader
<1> QED
  BY <1>1 DEF ReaderState

\* The ledger as openDB makes it.
LEMMA ReadersStart == ReadersInit => ReadersInv
<1> SUFFICES ASSUME ReadersInit PROVE ReadersInv
  OBVIOUS
<1>0. <<>> \in Seq(Segment) /\ <<>> \in Seq(Nat) /\ <<>> \in Seq(BOOLEAN)
  OBVIOUS
<1>1. Resting \in ReaderState
  BY <1>0, Zenon DEF Resting, ReaderState, Commit
<1>2. NoFile \in ArchiveFile
  BY Zenon DEF NoFile, ArchiveFile
<1>3. NoTarget \in GcState
  BY DEF NoTarget, GcState
<1>4. archive \in [1 .. MaxRows -> ArchiveFile] /\ gc \in [Collector -> GcState]
  BY <1>2, <1>3, Zenon DEF ReadersInit
<1>5. LedgerTypes
  BY <1>0, <1>1, <1>4 DEF ReadersInit, LedgerTypes
<1>6. Len(sealed) = 0 /\ Len(live) = 0 /\ Len(signed) = 0 /\ open = 1
  BY DEF ReadersInit
<1>7. SegmentsInPlace /\ NulledAreArchived /\ ArchivesWhole
  BY <1>6, ReadersAssumption DEF SegmentsInPlace, NulledAreArchived, ArchivesWhole
<1>8. TargetsInPlace
  BY DEF ReadersInit, TargetsInPlace, NoTarget
<1>9. Resting.at = "rest"
  BY DEF Resting
<1>10. VerifyHonest /\ ExportHonest
  BY <1>9 DEF ReadersInit, VerifyHonest, ExportHonest, QuietVerdict, BrokenOnlyByOverlap,
     ExportVerdict
<1> QED
  BY <1>5, <1>7, <1>8, <1>10 DEF ReadersInv

----------------------------------------------------------------------------
(* What is on disk *)

\* A batch adds a row, with its seal a segment that ends with it, and its
\* checkpoint ends with that: commitBatchTx.
LEMMA BatchEffects ==
    ASSUME ReadersInv, NEW seals \in BOOLEAN, NEW signs \in BOOLEAN, NEW others \in BOOLEAN,
           CommitBatch(seals, signs, others)
    PROVE  /\ LedgerTypes'
           /\ Len(live') = Len(live) + 1 /\ Len(live') <= MaxRows
           /\ \A r \in 1 .. Len(live) : live'[r] = live[r]
           /\ live'[Len(live) + 1]
           /\ Len(sealed') = IF seals THEN Len(sealed) + 1 ELSE Len(sealed)
           /\ \A k \in 1 .. Len(sealed) : sealed'[k] = sealed[k]
           /\ seals => sealed'[Len(sealed) + 1] =
                          [first |-> open, last |-> Len(live) + 1, archived |-> FALSE]
           /\ open' = IF seals THEN Len(live) + 2 ELSE open
           /\ signs => seals
           /\ ~signs => signed' = signed
           /\ \A i \in 1 .. Len(signed') :
                 signed'[i] <= Len(sealed) \/ (signs /\ signed'[i] <= Len(sealed) + 1)
<1> USE DEF CommitBatch
<1>1. live \in Seq(BOOLEAN) /\ open \in Nat /\ sealed \in Seq(Segment) /\ signed \in Seq(Nat)
      /\ verify \in ReaderState /\ export \in ReaderState
      /\ archive \in [1 .. MaxRows -> ArchiveFile] /\ gc \in [Collector -> GcState]
  BY DEF ReadersInv, LedgerTypes
<1>2. Len(live) \in Nat /\ Len(sealed) \in Nat /\ Len(signed) \in Nat
  BY <1>1
<1>3. /\ live' \in Seq(BOOLEAN) /\ Len(live') = Len(live) + 1
      /\ \A r \in 1 .. Len(live) : live'[r] = live[r]
      /\ live'[Len(live) + 1]
  <2>1. live' = Append(live, TRUE)
    OBVIOUS
  <2>2. TRUE \in BOOLEAN
    OBVIOUS
  <2> QED
    BY <1>1, <2>1, <2>2, AppendProperties
<1>4. Len(live') <= MaxRows
  BY <1>2, <1>3, ReadersAssumption
<1> DEFINE new == [first |-> open, last |-> Len(live) + 1, archived |-> FALSE]
<1>5. new \in Segment
  BY <1>1, <1>2 DEF Segment
<1>6. seals => sealed' = Append(sealed, new) /\ open' = Len(live) + 2
  OBVIOUS
<1>7. ~seals => sealed' = sealed /\ open' = open
  OBVIOUS
<1> HIDE DEF new
<1>8. /\ sealed' \in Seq(Segment) /\ open' \in Nat
      /\ Len(sealed') = IF seals THEN Len(sealed) + 1 ELSE Len(sealed)
      /\ \A k \in 1 .. Len(sealed) : sealed'[k] = sealed[k]
      /\ seals => sealed'[Len(sealed) + 1] = new
  <2>1. CASE seals
    <3> DEFINE longer == Append(sealed, new)
    <3>1. /\ longer \in Seq(Segment) /\ Len(longer) = Len(sealed) + 1
          /\ \A k \in 1 .. Len(sealed) : longer[k] = sealed[k]
          /\ longer[Len(sealed) + 1] = new
      BY <1>1, <1>5, AppendProperties
    <3>2. sealed' = longer /\ open' = Len(live) + 2
      BY <1>6, <2>1
    <3> HIDE DEF longer
    <3> QED
      BY <1>2, <2>1, <3>1, <3>2
  <2>2. CASE ~seals
    BY <1>1, <1>7, <2>2
  <2> QED
    BY <2>1, <2>2
<1> DEFINE theirs == IF others THEN <<0>> ELSE <<>>
           ours == IF signs THEN <<Len(sealed) + 1>> ELSE <<>>
<1>9. theirs \in Seq(Nat) /\ ours \in Seq(Nat)
  <2>1. <<>> \in Seq(Nat) /\ <<0>> \in Seq(Nat)
    OBVIOUS
  <2>2. <<Len(sealed) + 1>> \in Seq(Nat)
    BY <1>2
  <2> QED
    BY <2>1, <2>2
<1>10. \A i \in 1 .. Len(theirs) : theirs[i] = 0
  OBVIOUS
<1>11. \A i \in 1 .. Len(ours) : signs /\ ours[i] = Len(sealed) + 1
  OBVIOUS
<1>12. ~signs => ~others /\ theirs = <<>> /\ ours = <<>>
  OBVIOUS
<1>13. signed' = signed \o theirs \o ours
  OBVIOUS
<1> HIDE DEF theirs, ours
<1>14. /\ signed \o theirs \in Seq(Nat) /\ Len(signed \o theirs) = Len(signed) + Len(theirs)
       /\ \A i \in 1 .. Len(signed) + Len(theirs) :
            (signed \o theirs)[i] = IF i <= Len(signed) THEN signed[i] ELSE theirs[i - Len(signed)]
  BY <1>1, <1>9, ConcatProperties
<1>15. \A i \in 1 .. Len(signed \o theirs) : (signed \o theirs)[i] <= Len(sealed)
  <2>1. Len(theirs) \in Nat
    BY <1>9
  <2>2. \A i \in 1 .. Len(signed) : signed[i] <= Len(sealed)
    BY DEF ReadersInv, SegmentsInPlace
  <2> SUFFICES ASSUME NEW i \in 1 .. Len(signed \o theirs)
               PROVE  (signed \o theirs)[i] <= Len(sealed)
    OBVIOUS
  <2>3. i \in 1 .. Len(signed) + Len(theirs)
    BY <1>14
  <2>4. CASE i <= Len(signed)
    BY <1>2, <1>14, <2>2, <2>3, <2>4
  <2>5. CASE i > Len(signed)
    <3>1. i - Len(signed) \in 1 .. Len(theirs)
      BY <1>2, <2>1, <2>3, <2>5
    <3>2. (signed \o theirs)[i] = theirs[i - Len(signed)]
      BY <1>2, <1>14, <2>3, <2>5
    <3> QED
      BY <1>2, <1>10, <3>1, <3>2
  <2> QED
    BY <1>2, <2>3, <2>4, <2>5
<1> DEFINE both == signed \o theirs
<1>20a. /\ both \in Seq(Nat) /\ signed' = both \o ours
        /\ \A i \in 1 .. Len(both) : both[i] <= Len(sealed)
  BY <1>13, <1>14, <1>15
<1> HIDE DEF both, CommitBatch
<1>16. /\ signed' \in Seq(Nat) /\ Len(signed') = Len(both) + Len(ours)
       /\ \A i \in 1 .. Len(both) + Len(ours) :
            signed'[i] = IF i <= Len(both) THEN both[i] ELSE ours[i - Len(both)]
  <2>1. /\ both \o ours \in Seq(Nat) /\ Len(both \o ours) = Len(both) + Len(ours)
        /\ \A i \in 1 .. Len(both) + Len(ours) :
              (both \o ours)[i] = IF i <= Len(both) THEN both[i] ELSE ours[i - Len(both)]
    BY <1>9, <1>20a, ConcatProperties
  <2> QED
    BY <1>20a, <2>1
<1>17. \A i \in 1 .. Len(signed') :
          signed'[i] <= Len(sealed) \/ (signs /\ signed'[i] <= Len(sealed) + 1)
  <2>1. Len(ours) \in Nat /\ Len(both) \in Nat
    BY <1>9, <1>20a
  <2> SUFFICES ASSUME NEW i \in 1 .. Len(signed')
               PROVE  signed'[i] <= Len(sealed) \/ (signs /\ signed'[i] <= Len(sealed) + 1)
    OBVIOUS
  <2>2. i \in 1 .. Len(both) + Len(ours)
    BY <1>16
  <2>3. CASE i <= Len(both)
    BY <1>20a, <1>16, <2>1, <2>2, <2>3
  <2>4. CASE i > Len(both)
    <3>1. i - Len(both) \in 1 .. Len(ours)
      BY <2>1, <2>2, <2>4
    <3>2. signed'[i] = ours[i - Len(both)]
      BY <1>16, <2>1, <2>2, <2>4
    <3> QED
      BY <1>2, <1>11, <3>1, <3>2
  <2> QED
    BY <2>1, <2>2, <2>3, <2>4
<1>18. ~signs => signed' = signed
  BY <1>1, <1>12, <1>13, ConcatEmptySeq
<1>19. verify' \in ReaderState /\ export' \in ReaderState
  BY <1>1, TouchedReader DEF Touch2, Commit, CommitBatch
<1>20. LedgerTypes'
  BY <1>1, <1>3, <1>8, <1>16, <1>19 DEF LedgerTypes, CommitBatch
<1>21. signs => seals
  BY DEF CommitBatch
<1> QED
  BY <1>3, <1>4, <1>6, <1>7, <1>8, <1>17, <1>18, <1>20, <1>21 DEF new

\* The segments and the rows behind a batch.
LEMMA BatchInPlace ==
    ASSUME ReadersInv, NEW seals \in BOOLEAN, NEW signs \in BOOLEAN, NEW others \in BOOLEAN,
           CommitBatch(seals, signs, others)
    PROVE  SegmentsInPlace' /\ NulledAreArchived'
<1>1. live \in Seq(BOOLEAN) /\ open \in Nat /\ sealed \in Seq(Segment) /\ signed \in Seq(Nat)
  BY DEF ReadersInv, LedgerTypes
<1>2. Len(live) \in Nat /\ Len(sealed) \in Nat /\ Len(signed) \in Nat /\ Len(signed') \in Nat
      /\ Len(live') \in Nat /\ Len(sealed') \in Nat
  BY <1>1, BatchEffects DEF LedgerTypes
<1>3. \A k \in 1 .. Len(sealed) : sealed[k] \in Segment
  BY <1>1
<1>4. SegmentsInPlace
  BY DEF ReadersInv
<1>5. open' \in 1 .. Len(live') + 1 /\ Len(sealed') <= Len(live') /\ Len(live') <= MaxRows
  BY <1>1, <1>2, <1>4, BatchEffects DEF SegmentsInPlace
<1>6. \A k \in 1 .. Len(sealed') :
        \/ k \in 1 .. Len(sealed) /\ sealed'[k] = sealed[k]
        \/ /\ seals /\ k = Len(sealed) + 1
           /\ sealed'[k].first = open /\ sealed'[k].last = Len(live) + 1 /\ ~sealed'[k].archived
  <2> SUFFICES ASSUME NEW k \in 1 .. Len(sealed'), k \notin 1 .. Len(sealed)
               PROVE  /\ seals /\ k = Len(sealed) + 1
                      /\ sealed'[k].first = open /\ sealed'[k].last = Len(live) + 1
                      /\ ~sealed'[k].archived
    BY BatchEffects
  <2>1. Len(sealed') = IF seals THEN Len(sealed) + 1 ELSE Len(sealed)
    BY BatchEffects
  <2>2. seals /\ k = Len(sealed) + 1
    BY <1>2, <2>1
  <2>3. sealed'[k] = [first |-> open, last |-> Len(live) + 1, archived |-> FALSE]
    BY <2>2, BatchEffects
  <2> QED
    BY <2>2, <2>3
<1>7. open <= open'
  BY <1>1, <1>2, <1>4, BatchEffects DEF SegmentsInPlace
<1>8. \A k \in 1 .. Len(sealed') : /\ 1 <= sealed'[k].first /\ sealed'[k].first <= sealed'[k].last
                                   /\ sealed'[k].last < open'
  <2> SUFFICES ASSUME NEW k \in 1 .. Len(sealed')
               PROVE  /\ 1 <= sealed'[k].first /\ sealed'[k].first <= sealed'[k].last
                      /\ sealed'[k].last < open'
    OBVIOUS
  <2>1. CASE k \in 1 .. Len(sealed) /\ sealed'[k] = sealed[k]
    <3>1. sealed[k].last \in Nat /\ sealed[k].last < open
      BY <1>3, <1>4, <2>1 DEF Segment, SegmentsInPlace
    <3>2. open \in Int /\ open' \in Int
      BY <1>2, <1>5, <1>1
    <3> QED
      BY <1>4, <1>7, <2>1, <3>1, <3>2 DEF SegmentsInPlace
  <2>2. CASE /\ seals /\ sealed'[k].first = open /\ sealed'[k].last = Len(live) + 1
    <3>1. open' = Len(live) + 2
      BY <2>2, BatchEffects
    <3> QED
      BY <1>1, <1>2, <1>4, <2>2, <3>1 DEF SegmentsInPlace
  <2> QED
    BY <1>6, <2>1, <2>2
<1>9. \A j, k \in 1 .. Len(sealed') : j < k => sealed'[j].last < sealed'[k].first
  <2> SUFFICES ASSUME NEW j \in 1 .. Len(sealed'), NEW k \in 1 .. Len(sealed'), j < k
               PROVE  sealed'[j].last < sealed'[k].first
    OBVIOUS
  <2>1. j \in 1 .. Len(sealed) /\ sealed'[j] = sealed[j]
    BY <1>2, <1>6
  <2> QED
    BY <1>4, <1>6, <2>1 DEF SegmentsInPlace
<1>10. \A i \in 1 .. Len(signed') : signed'[i] <= Len(sealed')
  <2> SUFFICES ASSUME NEW i \in 1 .. Len(signed') PROVE signed'[i] <= Len(sealed')
    OBVIOUS
  <2>1. signed'[i] \in Nat
    BY BatchEffects DEF LedgerTypes
  <2> QED
    BY <1>2, <2>1, BatchEffects
<1>11. SegmentsInPlace'
  BY <1>5, <1>8, <1>9, <1>10 DEF SegmentsInPlace
<1>12. NulledAreArchived'
  <2> SUFFICES ASSUME NEW r \in 1 .. Len(live')
               PROVE  ~live'[r] <=> \E k \in 1 .. Len(sealed') :
                                       /\ sealed'[k].archived
                                       /\ r \in sealed'[k].first .. sealed'[k].last
    BY DEF NulledAreArchived, Rows
  <2>1. CASE r \in 1 .. Len(live)
    <3>1. live'[r] = live[r]
      BY <2>1, BatchEffects
    <3>2. ~live[r] <=> \E k \in 1 .. Len(sealed) :
                          sealed[k].archived /\ r \in sealed[k].first .. sealed[k].last
      BY <2>1 DEF ReadersInv, NulledAreArchived, Rows
    <3>3. \A k \in 1 .. Len(sealed) : k \in 1 .. Len(sealed') /\ sealed'[k] = sealed[k]
      BY <1>2, BatchEffects
    <3> QED
      BY <1>6, <3>1, <3>2, <3>3
  <2>2. CASE r = Len(live) + 1
    <3>1. live'[r]
      BY <2>2, BatchEffects
    <3>2. \A k \in 1 .. Len(sealed) : sealed[k].last \in Nat /\ sealed[k].last <= Len(live)
      BY <1>1, <1>2, <1>3, <1>4 DEF Segment, SegmentsInPlace
    <3> QED
      BY <1>2, <1>6, <2>2, <3>1, <3>2
  <2>3. Len(live') = Len(live) + 1
    BY BatchEffects
  <2> QED
    BY <1>2, <2>1, <2>2, <2>3
<1> QED
  BY <1>11, <1>12

\* A function on 1 .. n is a sequence.
LEMMA FunctionIsSeq ==
    ASSUME NEW S, NEW n \in Nat, NEW f \in [1 .. n -> S] PROVE f \in Seq(S)
  BY SeqDef

\* GC's transaction nulls the rows of its segment and records the path:
\* nothing else of the ledger changes.
LEMMA ClearEffects ==
    ASSUME ReadersInv, NEW c \in Collector, ClearRows(c)
    PROVE  /\ gc[c].seg \in 1 .. Len(sealed) /\ gc[c].seg \in gc[c].targets
           /\ LedgerTypes'
           /\ Len(live') = Len(live) /\ Len(sealed') = Len(sealed)
           /\ \A r \in 1 .. Len(live) : live'[r] = (live[r] /\ r \notin Rows(sealed[gc[c].seg]))
           /\ \A k \in 1 .. Len(sealed) :
                /\ sealed'[k].first = sealed[k].first /\ sealed'[k].last = sealed[k].last
                /\ sealed'[k].archived = (sealed[k].archived \/ k = gc[c].seg)
           /\ gc'[c].targets = gc[c].targets \ {gc[c].seg} /\ gc'[c].at \in {"rest", "read"}
           /\ \A d \in Collector \ {c} : gc'[d] = gc[d]
<1> USE DEF ClearRows
<1>1. live \in Seq(BOOLEAN) /\ open \in Nat /\ sealed \in Seq(Segment) /\ signed \in Seq(Nat)
      /\ verify \in ReaderState /\ export \in ReaderState
      /\ archive \in [1 .. MaxRows -> ArchiveFile] /\ gc \in [Collector -> GcState]
  BY DEF ReadersInv, LedgerTypes
<1>2. gc[c] \in GcState
  BY <1>1
<1>3. gc[c].seg \in 1 .. Len(sealed) /\ gc[c].seg \in gc[c].targets
  <2>1. gc[c].at = "commit"
    OBVIOUS
  <2> QED
    BY <2>1 DEF ReadersInv, TargetsInPlace
<1> DEFINE seg == gc[c].seg
<1>4. /\ live' \in Seq(BOOLEAN) /\ Len(live') = Len(live)
      /\ \A r \in 1 .. Len(live) : live'[r] = (live[r] /\ r \notin Rows(sealed[seg]))
  <2>1. DOMAIN live = 1 .. Len(live) /\ Len(live) \in Nat
    BY <1>1
  <2>2. \A r \in 1 .. Len(live) : (live[r] /\ r \notin Rows(sealed[seg])) \in BOOLEAN
    OBVIOUS
  <2>3. live' = [r \in 1 .. Len(live) |-> live[r] /\ r \notin Rows(sealed[seg])]
    BY <2>1
  <2>4. live' \in [1 .. Len(live) -> BOOLEAN]
    BY <2>2, <2>3, Zenon
  <2>5. live' \in Seq(BOOLEAN)
    BY <2>1, <2>4, FunctionIsSeq, Zenon
  <2>6. DOMAIN live' = 1 .. Len(live') /\ Len(live') \in Nat
    BY <2>5, LenProperties
  <2>7. DOMAIN live' = 1 .. Len(live)
    BY <2>3, Zenon
  <2>8. Len(live') = Len(live)
    BY <2>1, <2>6, <2>7
  <2> QED
    BY <2>3, <2>5, <2>8, Zenon
<1>5. /\ sealed' \in Seq(Segment) /\ Len(sealed') = Len(sealed)
      /\ \A k \in 1 .. Len(sealed) :
            sealed'[k] = IF k = seg THEN [sealed[k] EXCEPT !.archived = TRUE] ELSE sealed[k]
  <2>1. sealed[seg] \in Segment
    BY <1>1, <1>3
  <2> DEFINE x == [sealed[seg] EXCEPT !.archived = TRUE]
  <2>2. x \in Segment
    BY <2>1, Zenon DEF Segment
  <2>3. sealed' = [sealed EXCEPT ![seg] = x]
    OBVIOUS
  <2>4. seg \in 1 .. Len(sealed)
    BY <1>3
  <2> HIDE DEF x, seg
  <2>5. /\ sealed' \in Seq(Segment) /\ Len(sealed') = Len(sealed)
        /\ \A k \in 1 .. Len(sealed) : sealed'[k] = IF k = seg THEN x ELSE sealed[k]
    <3>1. /\ [sealed EXCEPT ![seg] = x] \in Seq(Segment)
          /\ Len([sealed EXCEPT ![seg] = x]) = Len(sealed)
          /\ \A k \in 1 .. Len(sealed) :
                [sealed EXCEPT ![seg] = x][k] = IF k = seg THEN x ELSE sealed[k]
      BY <1>1, <2>2, <2>4, ExceptSeq
    <3> QED
      BY <2>3, <3>1
  <2> QED
    BY <2>5 DEF x
<1>6. \A k \in 1 .. Len(sealed) :
         /\ sealed'[k].first = sealed[k].first /\ sealed'[k].last = sealed[k].last
         /\ sealed'[k].archived = (sealed[k].archived \/ k = seg)
  <2> SUFFICES ASSUME NEW k \in 1 .. Len(sealed)
               PROVE  /\ sealed'[k].first = sealed[k].first /\ sealed'[k].last = sealed[k].last
                      /\ sealed'[k].archived = (sealed[k].archived \/ k = seg)
    OBVIOUS
  <2>1. sealed[k] \in Segment
    BY <1>1
  <2>2. /\ [sealed[k] EXCEPT !.archived = TRUE].first = sealed[k].first
        /\ [sealed[k] EXCEPT !.archived = TRUE].last = sealed[k].last
        /\ [sealed[k] EXCEPT !.archived = TRUE].archived = TRUE
    BY <2>1, Zenon DEF Segment
  <2>3. sealed[k].archived \in BOOLEAN
    BY <2>1 DEF Segment
  <2>4. sealed'[k] = IF k = seg THEN [sealed[k] EXCEPT !.archived = TRUE] ELSE sealed[k]
    BY <1>5
  <2> HIDE DEF seg
  <2>5. CASE k = seg
    <3>1. sealed'[k] = [sealed[k] EXCEPT !.archived = TRUE]
      BY <2>4, <2>5
    <3> QED
      BY <2>2, <2>5, <3>1
  <2>6. CASE k # seg
    <3>1. (sealed[k].archived \/ k = seg) = sealed[k].archived
      BY <2>3, <2>6
    <3> QED
      BY <2>4, <2>6, <3>1
  <2> QED
    BY <2>5, <2>6
<1>7. Proceed(c) \in GcState /\ Proceed(c).targets = gc[c].targets \ {seg}
      /\ Proceed(c).at \in {"rest", "read"}
  <2>1. gc[c].targets \ {seg} \subseteq Nat
    BY <1>2 DEF GcState
  <2> DEFINE left == gc[c].targets \ {seg}
             state == IF left = {} THEN "rest" ELSE "read"
  <2>2. Proceed(c) = [NoTarget EXCEPT !.at = state, !.targets = left]
    BY DEF Proceed
  <2>3. NoTarget \in GcState
    BY DEF NoTarget, GcState
  <2>4. state \in {"rest", "read"} /\ left \in SUBSET Nat
    BY <2>1
  <2> HIDE DEF left, state
  <2>5. Proceed(c) \in GcState
    BY <2>2, <2>3, <2>4, Zenon DEF GcState
  <2>6. Proceed(c).targets = left /\ Proceed(c).at = state
    BY <2>2 DEF NoTarget
  <2> QED
    BY <2>4, <2>5, <2>6 DEF left
<1>8. gc' = [gc EXCEPT ![c] = Proceed(c)]
  OBVIOUS
<1>9. /\ gc'[c] = Proceed(c) /\ (\A d \in Collector \ {c} : gc'[d] = gc[d])
      /\ gc' \in [Collector -> GcState]
  BY <1>1, <1>7, <1>8
<1>10. verify' \in ReaderState /\ export' \in ReaderState
  BY <1>1, TouchedReader DEF Touch2, Commit
<1>11. LedgerTypes'
  BY <1>1, <1>4, <1>5, <1>9, <1>10 DEF LedgerTypes
<1> QED
  BY <1>3, <1>4, <1>5, <1>6, <1>7, <1>9, <1>11

\* The segments and the rows behind it.
LEMMA ClearInPlace ==
    ASSUME ReadersInv, NEW c \in Collector, ClearRows(c)
    PROVE  SegmentsInPlace' /\ NulledAreArchived'
<1>1. open' = open /\ signed' = signed
  BY DEF ClearRows
<1>2. SegmentsInPlace'
  BY <1>1, ClearEffects DEF ReadersInv, SegmentsInPlace
<1>3. NulledAreArchived'
  <2> DEFINE seg == gc[c].seg
  <2> SUFFICES ASSUME NEW r \in 1 .. Len(live)
               PROVE  ~live'[r]
                      <=> \E k \in 1 .. Len(sealed) : sealed'[k].archived /\ r \in Rows(sealed'[k])
    BY ClearEffects DEF NulledAreArchived
  <2>1. \A k \in 1 .. Len(sealed) : Rows(sealed'[k]) = Rows(sealed[k])
    BY ClearEffects DEF Rows
  <2>2. ~live[r] <=> \E k \in 1 .. Len(sealed) : sealed[k].archived /\ r \in Rows(sealed[k])
    BY DEF ReadersInv, NulledAreArchived
  <2>3. live'[r] = (live[r] /\ r \notin Rows(sealed[seg])) /\ seg \in 1 .. Len(sealed)
    BY ClearEffects
  <2>4. \A k \in 1 .. Len(sealed) : sealed'[k].archived = (sealed[k].archived \/ k = seg)
    BY ClearEffects
  <2> HIDE DEF seg
  <2> QED
    BY <2>1, <2>2, <2>3, <2>4, Zenon
<1> QED
  BY <1>2, <1>3

----------------------------------------------------------------------------
(* GC *)

\* No row of a segment that is not archived is nulled: a query by its range
\* (readSegmentEvents) finds all of them.
LEMMA RowsOfUnarchived ==
    ASSUME ReadersInv, NEW k \in 1 .. Len(sealed), ~sealed[k].archived
    PROVE  InRange(sealed[k]) = Rows(sealed[k])
<1>1. live \in Seq(BOOLEAN) /\ open \in Nat /\ sealed \in Seq(Segment)
  BY DEF ReadersInv, LedgerTypes
<1>2. Len(live) \in Nat /\ Len(sealed) \in Nat
  BY <1>1
<1>3. \A j \in 1 .. Len(sealed) : sealed[j].first \in Nat /\ sealed[j].last \in Nat
  <2> SUFFICES ASSUME NEW j \in 1 .. Len(sealed)
               PROVE  sealed[j].first \in Nat /\ sealed[j].last \in Nat
    OBVIOUS
  <2>1. sealed[j] \in Segment
    BY <1>1
  <2> QED
    BY <2>1 DEF Segment
<1> SUFFICES ASSUME NEW r \in Rows(sealed[k]) PROVE live[r]
  BY DEF InRange
<1>4. SegmentsInPlace
  BY DEF ReadersInv
<1>5. r \in 1 .. Len(live)
  BY <1>1, <1>2, <1>3, <1>4 DEF Rows, SegmentsInPlace
<1> SUFFICES ASSUME NEW j \in 1 .. Len(sealed), sealed[j].archived, r \in Rows(sealed[j])
             PROVE  FALSE
  BY <1>5 DEF ReadersInv, NulledAreArchived
<1>6. j # k
  OBVIOUS
<1>7. CASE j < k
  BY <1>3, <1>4, <1>7 DEF Rows, SegmentsInPlace
<1>8. CASE j > k
  BY <1>3, <1>4, <1>8 DEF Rows, SegmentsInPlace
<1> QED
  BY <1>2, <1>6, <1>7, <1>8

\* What GC relies on stands while it, the archives and the segments do.
LEMMA GcUntouched ==
    ASSUME ReadersInv, UNCHANGED <<sealed, archive, gc, shared>>
    PROVE  TargetsInPlace' /\ ArchivesWhole'
<1>1. TargetsInPlace'
  BY DEF ReadersInv, TargetsInPlace
<1>2. \A k : HeldAlone(k) => HeldAlone(k)'
  BY DEF HeldAlone, Rows
<1>3. ArchivesWhole'
  BY <1>2 DEF ReadersInv, ArchivesWhole
<1> QED
  BY <1>1, <1>3

\* A segment that was just sealed is nobody's target.
LEMMA GcThroughBatch ==
    ASSUME ReadersInv, NEW seals \in BOOLEAN, NEW signs \in BOOLEAN, NEW others \in BOOLEAN,
           CommitBatch(seals, signs, others)
    PROVE  TargetsInPlace' /\ ArchivesWhole'
<1>0. archive' = archive /\ gc' = gc /\ shared' = shared
  BY DEF CommitBatch
<1>1. Len(sealed) \in Nat
  BY DEF ReadersInv, LedgerTypes
<1>2. Len(sealed') = IF seals THEN Len(sealed) + 1 ELSE Len(sealed)
  BY BatchEffects
<1>3. TargetsInPlace'
  BY <1>0, <1>1, <1>2 DEF ReadersInv, TargetsInPlace
<1>4. ArchivesWhole'
  <2> SUFFICES ASSUME NEW k \in (1 .. Len(sealed')) \ shared PROVE HeldAlone(k)'
    BY <1>0 DEF ArchivesWhole
  <2>1. CASE k \in 1 .. Len(sealed)
    <3>1. sealed'[k] = sealed[k]
      BY <2>1, BatchEffects
    <3>2. HeldAlone(k)
      BY <2>1 DEF ReadersInv, ArchivesWhole
    <3> QED
      BY <1>0, <3>1, <3>2 DEF HeldAlone, Rows
  <2>2. CASE k \notin 1 .. Len(sealed)
    <3>1. \A c \in Collector : k \notin gc[c].targets
      BY <2>2 DEF ReadersInv, TargetsInPlace
    <3>2. seals /\ k = Len(sealed) + 1
      BY <1>1, <1>2, <2>2
    <3>3. ~sealed'[k].archived
      <4>1. sealed'[k] = [first |-> open, last |-> Len(live) + 1, archived |-> FALSE]
        BY <3>2, BatchEffects
      <4> QED
        BY <4>1
    <3> QED
      BY <1>0, <3>1, <3>3 DEF HeldAlone
  <2> QED
    BY <2>1, <2>2
<1> QED
  BY <1>3, <1>4

\* GCAt's query.
LEMMA FindKeeps ==
    ASSUME ReadersInv, NEW c \in Collector, NEW m \in DOMAIN sealed, FindTargets(c, m)
    PROVE  LedgerTypes' /\ TargetsInPlace' /\ ArchivesWhole'
<1>1. LedgerTypes
  BY DEF ReadersInv
<1>2. m \in 1 .. Len(sealed) /\ Len(sealed) \in Nat
  BY <1>1 DEF LedgerTypes
<1> DEFINE found == {k \in 1 .. m : ~sealed[k].archived}
           state == [NoTarget EXCEPT !.at = "read", !.targets = found]
<1>3. /\ gc' = [gc EXCEPT ![c] = state]
      /\ shared' = shared \cup {k \in found : \E d \in Collector : k \in gc[d].targets}
      /\ UNCHANGED <<live, open, sealed, signed, archive, verify, export>>
  BY DEF FindTargets
<1>4. /\ found \in SUBSET Nat /\ found \subseteq 1 .. Len(sealed)
      /\ \A k \in found : ~sealed[k].archived
  BY <1>2
<1> HIDE DEF found
<1>5. NoTarget \in GcState
  BY DEF NoTarget, GcState
<1>6. state \in GcState
  BY <1>4, <1>5, Zenon DEF GcState
<1>7. state.targets = found /\ state.at = "read"
  BY DEF NoTarget
<1> HIDE DEF state
<1>8. /\ gc'[c] = state /\ (\A d \in Collector \ {c} : gc'[d] = gc[d])
      /\ gc' \in [Collector -> GcState]
  BY <1>1, <1>3, <1>6 DEF LedgerTypes
<1>9. LedgerTypes'
  BY <1>1, <1>3, <1>8 DEF LedgerTypes
<1>10. TargetsInPlace'
  BY <1>3, <1>4, <1>7, <1>8 DEF ReadersInv, TargetsInPlace
<1>11. ArchivesWhole'
  <2> SUFFICES ASSUME NEW k \in (1 .. Len(sealed)) \ shared' PROVE HeldAlone(k)'
    BY <1>3 DEF ArchivesWhole
  <2>1. HeldAlone(k)
    BY <1>3 DEF ReadersInv, ArchivesWhole
  <2>2. k \in found => \A d \in Collector : k \notin gc[d].targets
    BY <1>3
  <2>3. \A d \in Collector : k \in gc'[d].targets =>
           (d = c /\ k \in found) \/ (d # c /\ k \in gc[d].targets)
    <3> SUFFICES ASSUME NEW d \in Collector, k \in gc'[d].targets
                 PROVE  (d = c /\ k \in found) \/ (d # c /\ k \in gc[d].targets)
      OBVIOUS
    <3>1. CASE d = c
      <4>1. gc'[c].targets = found
        BY <1>7, <1>8
      <4> QED
        BY <3>1, <4>1
    <3>2. CASE d # c
      <4>1. gc'[d] = gc[d]
        BY <1>8, <3>2
      <4> QED
        BY <3>2, <4>1
    <3> QED
      BY <3>1, <3>2
  <2>4. \A d, e \in Collector : k \in gc'[d].targets /\ k \in gc'[e].targets => d = e
    BY <2>1, <2>2, <2>3 DEF HeldAlone
  <2>5. \A d \in Collector : k \in gc'[d].targets =>
          /\ ~sealed[k].archived
          /\ gc'[d].at = "rename" /\ gc'[d].seg = k => gc'[d].rows = Rows(sealed[k])
          /\ gc'[d].at = "commit" /\ gc'[d].seg = k => archive[k].rows = Rows(sealed[k])
    BY <1>4, <1>7, <1>8, <2>1, <2>3 DEF HeldAlone
  <2>6. sealed[k].archived => archive[k].rows = Rows(sealed[k])
    BY <2>1 DEF HeldAlone
  <2> QED
    BY <1>3, <2>4, <2>5, <2>6 DEF HeldAlone, Rows
<1> QED
  BY <1>9, <1>10, <1>11

\* archiveSegment reads its segment's rows.
LEMMA ReadKeeps ==
    ASSUME ReadersInv, NEW c \in Collector, ReadForArchive(c)
    PROVE  LedgerTypes' /\ TargetsInPlace' /\ ArchivesWhole'
<1>1. LedgerTypes /\ gc[c] \in GcState
  BY DEF ReadersInv, LedgerTypes
<1>2. PICK s \in gc[c].targets :
         gc' = [gc EXCEPT ![c].at = "rename", ![c].seg = s, ![c].rows = InRange(sealed[s])]
  BY DEF ReadForArchive
<1>3. UNCHANGED <<live, open, sealed, signed, archive, verify, export, shared>>
  BY DEF ReadForArchive
<1> DEFINE read == InRange(sealed[s])
           state == [gc[c] EXCEPT !.at = "rename", !.seg = s, !.rows = read]
<1>4. s \in 1 .. Len(sealed) /\ s \in Nat
  BY DEF ReadersInv, TargetsInPlace
<1>5. read \in SUBSET Nat
  <2>1. sealed[s] \in Segment
    BY <1>1, <1>4 DEF LedgerTypes
  <2> QED
    BY <2>1 DEF Segment, InRange, Rows
<1>6. gc' = [gc EXCEPT ![c] = state]
  BY <1>1, <1>2, Zenon DEF LedgerTypes
<1>7. ~sealed[s].archived => read = Rows(sealed[s])
  BY <1>4, RowsOfUnarchived
<1> HIDE DEF read
<1>8. state \in GcState
  BY <1>1, <1>4, <1>5, Zenon DEF GcState
<1>9. state.targets = gc[c].targets /\ state.at = "rename" /\ state.seg = s /\ state.rows = read
  BY <1>1, Zenon DEF GcState
<1> HIDE DEF state
<1>10. /\ gc'[c] = state /\ (\A d \in Collector \ {c} : gc'[d] = gc[d])
       /\ gc' \in [Collector -> GcState]
  BY <1>1, <1>6, <1>8 DEF LedgerTypes
<1>11. LedgerTypes'
  BY <1>1, <1>3, <1>10 DEF LedgerTypes
<1>12. TargetsInPlace'
  BY <1>3, <1>9, <1>10 DEF ReadersInv, TargetsInPlace
<1>13. ArchivesWhole'
  <2> SUFFICES ASSUME NEW k \in (1 .. Len(sealed)) \ shared PROVE HeldAlone(k)'
    BY <1>3 DEF ArchivesWhole
  <2>1. HeldAlone(k)
    BY DEF ReadersInv, ArchivesWhole
  <2>2. \A d \in Collector : gc'[d].targets = gc[d].targets
    BY <1>9, <1>10
  <2>3. \A d, e \in Collector : k \in gc'[d].targets /\ k \in gc'[e].targets => d = e
    BY <2>1, <2>2 DEF HeldAlone
  <2>4. \A d \in Collector : k \in gc'[d].targets =>
          /\ ~sealed[k].archived
          /\ gc'[d].at = "rename" /\ gc'[d].seg = k => gc'[d].rows = Rows(sealed[k])
          /\ gc'[d].at = "commit" /\ gc'[d].seg = k => archive[k].rows = Rows(sealed[k])
    BY <1>7, <1>9, <1>10, <2>1, <2>2 DEF HeldAlone
  <2>5. sealed[k].archived => archive[k].rows = Rows(sealed[k])
    BY <2>1 DEF HeldAlone
  <2> QED
    BY <1>3, <2>3, <2>4, <2>5 DEF HeldAlone, Rows
<1> QED
  BY <1>11, <1>12, <1>13

\* archiveSegment's file takes its name.
LEMMA RenameKeeps ==
    ASSUME ReadersInv, NEW c \in Collector, RenameArchive(c)
    PROVE  LedgerTypes' /\ TargetsInPlace' /\ ArchivesWhole'
<1>1. LedgerTypes /\ gc[c] \in GcState
  BY DEF ReadersInv, LedgerTypes
<1> DEFINE seg == gc[c].seg
           file == [written |-> TRUE, rows |-> gc[c].rows]
           state == [gc[c] EXCEPT !.at = "commit"]
<1>2. /\ archive' = [archive EXCEPT ![seg] = file]
      /\ gc' = [gc EXCEPT ![c] = state]
      /\ UNCHANGED <<live, open, sealed, signed, verify, export, shared>>
      /\ gc[c].at = "rename"
  BY Zenon DEF RenameArchive
<1>3. seg \in gc[c].targets /\ seg \in 1 .. Len(sealed)
  BY <1>2 DEF ReadersInv, TargetsInPlace
<1>4. seg \in 1 .. MaxRows
  <2>1. Len(sealed) \in Nat /\ Len(live) \in Nat
    BY <1>1 DEF LedgerTypes
  <2> QED
    BY <1>3, <2>1, ReadersAssumption DEF ReadersInv, SegmentsInPlace
<1>5. file \in ArchiveFile /\ file.rows = gc[c].rows
  BY <1>1 DEF GcState, ArchiveFile
<1>6. state \in GcState
  BY <1>1, Zenon DEF GcState
<1>7. state.targets = gc[c].targets /\ state.at = "commit" /\ state.seg = seg
  BY <1>1, Zenon DEF GcState
<1>8. gc[c].seg = seg
  OBVIOUS
<1> HIDE DEF state, file, seg
<1>9. /\ gc'[c] = state /\ (\A d \in Collector \ {c} : gc'[d] = gc[d])
      /\ gc' \in [Collector -> GcState]
  BY <1>1, <1>2, <1>6 DEF LedgerTypes
<1>10. /\ archive'[seg] = file /\ \A k \in (1 .. MaxRows) \ {seg} : archive'[k] = archive[k]
       /\ archive' \in [1 .. MaxRows -> ArchiveFile]
  BY <1>1, <1>2, <1>4, <1>5 DEF LedgerTypes
<1>11. LedgerTypes'
  BY <1>1, <1>2, <1>9, <1>10 DEF LedgerTypes
<1>12. TargetsInPlace'
  BY <1>2, <1>3, <1>7, <1>9 DEF ReadersInv, TargetsInPlace
<1>13. ArchivesWhole'
  <2> SUFFICES ASSUME NEW k \in (1 .. Len(sealed)) \ shared PROVE HeldAlone(k)'
    BY <1>2 DEF ArchivesWhole
  <2>1. HeldAlone(k)
    BY DEF ReadersInv, ArchivesWhole
  <2>2. \A d \in Collector : gc'[d].targets = gc[d].targets
    BY <1>7, <1>9
  <2>3. \A d, e \in Collector : k \in gc'[d].targets /\ k \in gc'[e].targets => d = e
    BY <2>1, <2>2 DEF HeldAlone
  <2>4. k \in 1 .. MaxRows
    <3>1. Len(sealed) \in Nat /\ Len(live) \in Nat
      BY <1>1 DEF LedgerTypes
    <3> QED
      BY <3>1, ReadersAssumption DEF ReadersInv, SegmentsInPlace
  <2>5. CASE k = seg
    <3>1. ~sealed[k].archived /\ gc[c].rows = Rows(sealed[k])
      BY <1>2, <1>3, <1>8, <2>1, <2>5 DEF HeldAlone
    <3>2. archive'[k].rows = Rows(sealed[k])
      BY <1>5, <1>10, <2>5, <3>1
    <3>3. \A d \in Collector : k \in gc'[d].targets => d = c
      BY <1>3, <2>1, <2>2, <2>5 DEF HeldAlone
    <3>4. gc'[c].at = "commit"
      BY <1>7, <1>9
    <3>5. \A d \in Collector : k \in gc'[d].targets =>
            /\ ~sealed[k].archived
            /\ gc'[d].at = "rename" /\ gc'[d].seg = k => gc'[d].rows = Rows(sealed[k])
            /\ gc'[d].at = "commit" /\ gc'[d].seg = k => archive'[k].rows = Rows(sealed[k])
      BY <3>1, <3>2, <3>3, <3>4
    <3> QED
      BY <1>2, <2>3, <3>1, <3>5 DEF HeldAlone, Rows
  <2>6. CASE k # seg
    <3>1. archive'[k] = archive[k]
      BY <1>10, <2>4, <2>6
    <3>2. \A d \in Collector : k \in gc'[d].targets =>
            /\ ~sealed[k].archived
            /\ gc'[d].at = "rename" /\ gc'[d].seg = k => gc'[d].rows = Rows(sealed[k])
            /\ gc'[d].at = "commit" /\ gc'[d].seg = k => archive'[k].rows = Rows(sealed[k])
      BY <1>7, <1>9, <2>1, <2>2, <2>6, <3>1 DEF HeldAlone
    <3>3. sealed[k].archived => archive'[k].rows = Rows(sealed[k])
      BY <2>1, <3>1 DEF HeldAlone
    <3> QED
      BY <1>2, <2>3, <3>2, <3>3 DEF HeldAlone, Rows
  <2> QED
    BY <2>5, <2>6
<1> QED
  BY <1>11, <1>12, <1>13

\* GCAt's transaction: the archive of the segment it nulls is whole.
LEMMA ClearKeeps ==
    ASSUME ReadersInv, NEW c \in Collector, ClearRows(c)
    PROVE  TargetsInPlace' /\ ArchivesWhole'
<1> DEFINE seg == gc[c].seg
<1>1. archive' = archive /\ shared' = shared /\ gc[c].at = "commit"
  BY DEF ClearRows
<1>2. /\ seg \in 1 .. Len(sealed) /\ seg \in gc[c].targets /\ Len(sealed') = Len(sealed)
      /\ \A k \in 1 .. Len(sealed) : sealed'[k].archived = (sealed[k].archived \/ k = seg)
      /\ gc'[c].targets = gc[c].targets \ {seg} /\ gc'[c].at \in {"rest", "read"}
      /\ \A d \in Collector \ {c} : gc'[d] = gc[d]
      /\ gc[c].seg = seg
  BY ClearEffects
<1>3. \A k \in 1 .. Len(sealed) : Rows(sealed'[k]) = Rows(sealed[k])
  BY ClearEffects DEF Rows
<1> HIDE DEF seg
<1>4. TargetsInPlace'
  BY <1>2 DEF ReadersInv, TargetsInPlace
<1>5. ArchivesWhole'
  <2> SUFFICES ASSUME NEW k \in (1 .. Len(sealed)) \ shared PROVE HeldAlone(k)'
    BY <1>1, <1>2 DEF ArchivesWhole
  <2>1. HeldAlone(k)
    BY DEF ReadersInv, ArchivesWhole
  <2>2. \A d \in Collector : k \in gc'[d].targets => k \in gc[d].targets
    BY <1>2
  <2>3. \A d, e \in Collector : k \in gc'[d].targets /\ k \in gc'[e].targets => d = e
    BY <2>1, <2>2 DEF HeldAlone
  <2>4. CASE k = seg
    <3>1. archive[k].rows = Rows(sealed[k])
      BY <1>1, <1>2, <2>1, <2>4 DEF HeldAlone
    <3>2. \A d \in Collector : k \notin gc'[d].targets
      BY <1>2, <2>1, <2>2, <2>4 DEF HeldAlone
    <3> QED
      BY <1>1, <1>3, <3>1, <3>2 DEF HeldAlone
  <2>5. CASE k # seg
    <3>1. sealed'[k].archived <=> sealed[k].archived
      BY <1>2, <2>5
    <3>2. \A d \in Collector : k \in gc'[d].targets =>
            /\ ~sealed'[k].archived
            /\ gc'[d].at = "rename" /\ gc'[d].seg = k => gc'[d].rows = Rows(sealed'[k])
            /\ gc'[d].at = "commit" /\ gc'[d].seg = k => archive'[k].rows = Rows(sealed'[k])
      <4> SUFFICES ASSUME NEW d \in Collector, k \in gc'[d].targets
                   PROVE  /\ ~sealed'[k].archived
                          /\ gc'[d].at = "rename" /\ gc'[d].seg = k =>
                                   gc'[d].rows = Rows(sealed'[k])
                          /\ gc'[d].at = "commit" /\ gc'[d].seg = k =>
                                   archive'[k].rows = Rows(sealed'[k])
        OBVIOUS
      <4>1. CASE d = c
        BY <1>2, <2>1, <2>2, <3>1, <4>1 DEF HeldAlone
      <4>2. CASE d # c
        BY <1>1, <1>2, <1>3, <2>1, <2>2, <3>1, <4>2 DEF HeldAlone
      <4> QED
        BY <4>1, <4>2
    <3>3. sealed'[k].archived => archive'[k].rows = Rows(sealed'[k])
      BY <1>1, <1>3, <2>1, <3>1 DEF HeldAlone
    <3> QED
      BY <2>3, <3>2, <3>3 DEF HeldAlone
  <2> QED
    BY <2>4, <2>5
<1> QED
  BY <1>4, <1>5

\* GC returns early or dies: it has no target any more.
LEMMA StopKeeps ==
    ASSUME ReadersInv, NEW c \in Collector, GcStops(c)
    PROVE  LedgerTypes' /\ TargetsInPlace' /\ ArchivesWhole'
<1>1. LedgerTypes
  BY DEF ReadersInv
<1>2. /\ gc' = [gc EXCEPT ![c] = NoTarget]
      /\ UNCHANGED <<live, open, sealed, signed, archive, verify, export, shared>>
  BY DEF GcStops
<1>3. NoTarget \in GcState /\ NoTarget.targets = {} /\ NoTarget.at = "rest"
  BY DEF NoTarget, GcState
<1>4. /\ gc'[c] = NoTarget /\ (\A d \in Collector \ {c} : gc'[d] = gc[d])
      /\ gc' \in [Collector -> GcState]
  BY <1>1, <1>2, <1>3 DEF LedgerTypes
<1>5. LedgerTypes'
  BY <1>1, <1>2, <1>4 DEF LedgerTypes
<1>6. TargetsInPlace'
  BY <1>2, <1>3, <1>4 DEF ReadersInv, TargetsInPlace
<1>7. ArchivesWhole'
  <2> SUFFICES ASSUME NEW k \in (1 .. Len(sealed)) \ shared PROVE HeldAlone(k)'
    BY <1>2 DEF ArchivesWhole
  <2>1. HeldAlone(k)
    BY DEF ReadersInv, ArchivesWhole
  <2>2. \A d \in Collector : k \in gc'[d].targets => d # c /\ gc'[d] = gc[d]
    BY <1>3, <1>4
  <2> QED
    BY <1>2, <2>1, <2>2 DEF HeldAlone, Rows
<1> QED
  BY <1>5, <1>6, <1>7

----------------------------------------------------------------------------
(* Verify *)

\* What Verify has read stands while the segments and checkpoints do.
LEMMA VerifyUntouched ==
    ASSUME ReadersInv, UNCHANGED <<sealed, signed, verify>> PROVE VerifyHonest'
  BY DEF ReadersInv, VerifyHonest, QuietVerdict, BrokenOnlyByOverlap, Archived

\* A verdict on a ledger that has changed since is no longer one.
LEMMA NoVerdict ==
    ASSUME verify.at # "done" PROVE QuietVerdict /\ BrokenOnlyByOverlap
  BY DEF QuietVerdict, BrokenOnlyByOverlap

\* A batch between Verify's queries: rows and seals leave what was read a
\* prefix, a checkpoint is noted.
LEMMA VerifyThroughBatch ==
    ASSUME ReadersInv, NEW seals \in BOOLEAN, NEW signs \in BOOLEAN, NEW others \in BOOLEAN,
           CommitBatch(seals, signs, others)
    PROVE  VerifyHonest'
<1> DEFINE what == IF signs THEN "checkpoint" ELSE "rows"
<1>1. verify \in ReaderState /\ what \in Commit /\ Len(sealed) \in Nat /\ Len(verify.segs) \in Nat
      /\ verify.touched \subseteq Commit
  BY DEF ReadersInv, LedgerTypes, Commit, ReaderState
<1>2. verify' = Touched(verify, what)
  BY DEF CommitBatch, Touch2
<1>3. VerifyHonest
  BY DEF ReadersInv
<1>4. (verify.at = "rest" => verify = Resting)'
  BY <1>1, <1>2, <1>3, TouchedReader DEF VerifyHonest
<1>5. verify'.at # "done"
  BY <1>1, <1>2, TouchedReader
<1>6. (QuietVerdict /\ BrokenOnlyByOverlap)'
  BY <1>5 DEF QuietVerdict, BrokenOnlyByOverlap
<1> SUFFICES ASSUME verify'.at \in {"checkpoints", "events"},
                    verify'.touched \cap {"checkpoint", "gc"} = {}
             PROVE  /\ Len(verify'.segs) <= Len(sealed')
                    /\ \A k \in 1 .. Len(verify'.segs) : verify'.segs[k] = sealed'[k]
                    /\ \A i \in 1 .. Len(signed') : signed'[i] <= Len(verify'.segs)
                    /\ ~verify'.bad
                    /\ verify'.touched = {} => Len(verify'.segs) = Len(sealed')
                    /\ verify'.at = "events" =>
                          /\ verify'.ckpts = signed'
                          /\ \A k \in verify'.todo :
                                k \in 1 .. Len(verify'.segs) /\ ~verify'.segs[k].archived
  BY <1>4, <1>6 DEF VerifyHonest
<1>7. /\ verify'.touched = verify.touched \cup {what} /\ verify'.at = verify.at
      /\ verify'.segs = verify.segs /\ verify'.ckpts = verify.ckpts
      /\ verify'.todo = verify.todo /\ verify'.bad = verify.bad
  BY <1>1, <1>2, TouchedFields
<1>8. ~signs /\ verify.touched \cap {"checkpoint", "gc"} = {} /\ verify'.touched # {}
  BY <1>7
<1>9. /\ Len(verify.segs) <= Len(sealed)
      /\ \A k \in 1 .. Len(verify.segs) : verify.segs[k] = sealed[k]
      /\ \A i \in 1 .. Len(signed) : signed[i] <= Len(verify.segs)
      /\ ~verify.bad
      /\ verify.at = "events" =>
            /\ verify.ckpts = signed
            /\ \A k \in verify.todo : k \in 1 .. Len(verify.segs) /\ ~verify.segs[k].archived
  BY <1>3, <1>7, <1>8 DEF VerifyHonest
<1>10. signed' = signed /\ (\A k \in 1 .. Len(sealed) : sealed'[k] = sealed[k])
  BY <1>8, BatchEffects
<1>11. Len(sealed') = IF seals THEN Len(sealed) + 1 ELSE Len(sealed)
  BY BatchEffects
<1> HIDE DEF what
<1> QED
  BY <1>1, <1>7, <1>8, <1>9, <1>10, <1>11

\* GC's transaction is noted.
LEMMA VerifyThroughClear ==
    ASSUME ReadersInv, NEW c \in Collector, ClearRows(c) PROVE VerifyHonest'
<1>1. verify \in ReaderState /\ "gc" \in Commit
  BY DEF ReadersInv, LedgerTypes, Commit
<1>2. verify' = Touched(verify, "gc")
  BY DEF ClearRows, Touch2
<1>3. (verify.at = "rest" => verify = Resting)'
  BY <1>1, <1>2, TouchedReader DEF ReadersInv, VerifyHonest
<1>4. verify'.at # "done"
  BY <1>1, <1>2, TouchedReader
<1>5. verify'.at \in {"checkpoints", "events"} => "gc" \in verify'.touched
  BY <1>1, <1>2, TouchedFields
<1> QED
  BY <1>3, <1>4, <1>5 DEF VerifyHonest, QuietVerdict, BrokenOnlyByOverlap

\* Verify's query for the segments.
LEMMA ReadSegmentsKeeps ==
    ASSUME ReadersInv, ReadSegments PROVE verify' \in ReaderState /\ VerifyHonest'
<1>1. sealed \in Seq(Segment) /\ verify \in ReaderState
  BY DEF ReadersInv, LedgerTypes
<1>2. verify = Resting
  BY DEF ReadSegments, ReadersInv, VerifyHonest
<1>3. verify' = [verify EXCEPT !.at = "checkpoints", !.segs = sealed]
  BY DEF ReadSegments
<1>4. verify' \in ReaderState
  BY <1>1, <1>3, Zenon DEF ReaderState
<1>5. /\ verify'.at = "checkpoints" /\ verify'.segs = sealed
      /\ verify'.bad = FALSE /\ verify'.touched = {}
  BY <1>2, <1>3 DEF Resting
<1>6. Len(sealed) \in Nat
  BY <1>1
<1>7. signed' = signed /\ sealed' = sealed
  BY DEF ReadSegments
<1>8. \A i \in 1 .. Len(signed) : signed[i] <= Len(sealed)
  BY DEF ReadersInv, SegmentsInPlace
<1>9. VerifyHonest'
  BY <1>5, <1>6, <1>7, <1>8 DEF VerifyHonest, QuietVerdict, BrokenOnlyByOverlap
<1> QED
  BY <1>4, <1>9

\* Its query for the checkpoints.
LEMMA ReadCheckpointsKeeps ==
    ASSUME ReadersInv, ReadCheckpoints PROVE verify' \in ReaderState /\ VerifyHonest'
<1> DEFINE todo == {k \in DOMAIN verify.segs : ~verify.segs[k].archived}
<1>1. signed \in Seq(Nat) /\ verify \in ReaderState /\ verify.segs \in Seq(Segment)
  BY DEF ReadersInv, LedgerTypes, ReaderState
<1>2. verify' = [verify EXCEPT !.at = "events", !.ckpts = signed, !.todo = todo]
  BY DEF ReadCheckpoints
<1>3. /\ todo \in SUBSET Nat
      /\ \A k \in todo : k \in 1 .. Len(verify.segs) /\ ~verify.segs[k].archived
  BY <1>1
<1> HIDE DEF todo
<1>4. verify' \in ReaderState
  BY <1>1, <1>2, <1>3, Zenon DEF ReaderState
<1>5. /\ verify'.at = "events" /\ verify'.segs = verify.segs /\ verify'.ckpts = signed
      /\ verify'.todo = todo /\ verify'.bad = verify.bad /\ verify'.touched = verify.touched
  BY <1>1, <1>2, Zenon DEF ReaderState
<1>6. signed' = signed /\ sealed' = sealed /\ verify.at = "checkpoints"
  BY DEF ReadCheckpoints
<1>7. VerifyHonest
  BY DEF ReadersInv
<1>8. VerifyHonest'
  BY <1>3, <1>5, <1>6, <1>7 DEF VerifyHonest, QuietVerdict, BrokenOnlyByOverlap
<1> QED
  BY <1>4, <1>8

\* verifySession, one segment: its rows are all there unless GC nulled them.
LEMMA CheckSegmentKeeps ==
    ASSUME ReadersInv, CheckSegment PROVE verify' \in ReaderState /\ VerifyHonest'
<1>1. verify \in ReaderState /\ verify.bad \in BOOLEAN /\ verify.todo \in SUBSET Nat
  BY DEF ReadersInv, LedgerTypes, ReaderState
<1>2. PICK k \in verify.todo :
         verify' = [verify EXCEPT !.todo = @ \ {k},
                                  !.bad = @ \/ InRange(verify.segs[k]) # Rows(verify.segs[k])]
  BY DEF CheckSegment
<1> DEFINE left == verify.todo \ {k}
           found == verify.bad \/ InRange(verify.segs[k]) # Rows(verify.segs[k])
<1>3. verify' = [verify EXCEPT !.todo = left, !.bad = found]
  BY <1>2
<1>4. left \in SUBSET Nat /\ left \subseteq verify.todo /\ found \in BOOLEAN
  BY <1>1
<1>5. signed' = signed /\ sealed' = sealed /\ verify.at = "events"
  BY DEF CheckSegment
<1>6. VerifyHonest
  BY DEF ReadersInv
<1>7. verify.touched \cap {"checkpoint", "gc"} = {} => ~found
  <2> SUFFICES ASSUME verify.touched \cap {"checkpoint", "gc"} = {} PROVE ~found
    OBVIOUS
  <2>1. k \in 1 .. Len(verify.segs) /\ ~verify.segs[k].archived /\ ~verify.bad
    BY <1>5, <1>6 DEF VerifyHonest
  <2>2. verify.segs[k] = sealed[k] /\ Len(verify.segs) <= Len(sealed)
    BY <1>5, <1>6, <2>1 DEF VerifyHonest
  <2>3. Len(sealed) \in Nat /\ Len(verify.segs) \in Nat
    BY <1>1 DEF ReadersInv, LedgerTypes, ReaderState
  <2>4. k \in 1 .. Len(sealed) /\ ~sealed[k].archived
    BY <2>1, <2>2, <2>3
  <2>5. InRange(sealed[k]) = Rows(sealed[k])
    BY <2>4, RowsOfUnarchived
  <2> QED
    BY <2>1, <2>2, <2>5
<1> HIDE DEF left, found
<1>8. verify' \in ReaderState
  BY <1>1, <1>3, <1>4, Zenon DEF ReaderState
<1>9. /\ verify'.at = verify.at /\ verify'.segs = verify.segs /\ verify'.ckpts = verify.ckpts
      /\ verify'.todo = left /\ verify'.bad = found /\ verify'.touched = verify.touched
  BY <1>1, <1>3, Zenon DEF ReaderState
<1>10. VerifyHonest'
  BY <1>4, <1>5, <1>6, <1>7, <1>9 DEF VerifyHonest, QuietVerdict, BrokenOnlyByOverlap
<1> QED
  BY <1>8, <1>10

\* Verify: its verdict is that of the ledger as it is when nothing came
\* between, and it is not BROKEN when only rows and seals did.
LEMMA VerdictKeeps ==
    ASSUME ReadersInv, Verdict PROVE verify' \in ReaderState /\ VerifyHonest'
<1>1. verify \in ReaderState /\ verify.bad \in BOOLEAN /\ verify.touched \in SUBSET Commit
      /\ verify.segs \in Seq(Segment) /\ sealed \in Seq(Segment) /\ signed \in Seq(Nat)
  BY DEF ReadersInv, LedgerTypes, ReaderState
<1> DEFINE old == {k \in DOMAIN verify.segs : verify.segs[k].archived}
           result == IF verify.bad \/ MissesSegment(verify.segs, verify.ckpts) THEN "broken"
                     ELSE IF old # {} THEN "incomplete" ELSE "ok"
           rest == TailAfter(verify.segs, verify.ckpts, 0) \ old
<1>2. verify' = [Resting EXCEPT !.at = "done", !.touched = verify.touched,
                                !.code = result, !.tail = rest]
  BY DEF Verdict
<1>3. result \in {"none", "ok", "incomplete", "broken"} /\ rest \in SUBSET Nat
  BY <1>1 DEF TailAfter
<1>4. Resting \in ReaderState
  <2>0. <<>> \in Seq(Segment) /\ <<>> \in Seq(Nat)
    OBVIOUS
  <2> QED
    BY <2>0, Zenon DEF Resting, ReaderState, Commit
<1>5. signed' = signed /\ sealed' = sealed /\ verify.at = "events"
  BY DEF Verdict
<1>6. VerifyHonest
  BY DEF ReadersInv
<1>7. verify.touched \cap {"checkpoint", "gc"} = {} => result # "broken"
  <2> SUFFICES ASSUME verify.touched \cap {"checkpoint", "gc"} = {} PROVE result # "broken"
    OBVIOUS
  <2>1. verify.at \in {"checkpoints", "events"}
    BY <1>5
  <2>2. /\ ~verify.bad /\ verify.ckpts = signed
        /\ \A i \in 1 .. Len(signed) : signed[i] <= Len(verify.segs)
    BY <1>5, <1>6, <2>1, Zenon DEF VerifyHonest
  <2>3. /\ DOMAIN signed = 1 .. Len(signed) /\ Len(verify.segs) \in Nat
        /\ \A i \in 1 .. Len(signed) : signed[i] \in Nat
    BY <1>1
  <2>4. \A i \in DOMAIN signed : ~(signed[i] > Len(verify.segs))
    BY <2>2, <2>3
  <2>5. ~MissesSegment(verify.segs, verify.ckpts)
    BY <2>2, <2>4, Zenon DEF MissesSegment
  <2>6. result = IF old # {} THEN "incomplete" ELSE "ok"
    BY <2>2, <2>5, Zenon
  <2> QED
    BY <2>6
<1>8. verify.touched = {} =>
         /\ result = (IF Archived # {} THEN "incomplete" ELSE "ok")
         /\ rest = {k \in DOMAIN sealed \ Archived :
                      \A i \in DOMAIN signed : signed[i] < k}
  <2> SUFFICES ASSUME verify.touched = {}
               PROVE  /\ result = (IF Archived # {} THEN "incomplete" ELSE "ok")
                      /\ rest = {k \in DOMAIN sealed \ Archived :
                                   \A i \in DOMAIN signed : signed[i] < k}
    OBVIOUS
  <2>1. Len(verify.segs) = Len(sealed) /\ verify.ckpts = signed
        /\ \A k \in 1 .. Len(verify.segs) : verify.segs[k] = sealed[k]
    BY <1>5, <1>6 DEF VerifyHonest
  <2>2. verify.segs = sealed
    BY <1>1, <2>1, SeqEqual
  <2>3. old = Archived
    BY <2>2 DEF Archived
  <2>4. rest = {k \in DOMAIN sealed \ Archived : \A i \in DOMAIN signed : signed[i] < k}
    <3>1. \A i \in DOMAIN signed : signed[i] \in Nat
      BY <1>1
    <3>2. DOMAIN sealed \subseteq Nat \ {0}
      BY <1>1
    <3> QED
      BY <2>1, <2>2, <2>3, <3>1, <3>2 DEF TailAfter
  <2>5. result # "broken"
    BY <1>7
  <2> QED
    BY <2>3, <2>4, <2>5
<1> HIDE DEF result, rest, old
<1>9. verify' \in ReaderState
  BY <1>1, <1>2, <1>3, <1>4, Zenon DEF ReaderState
<1>10. /\ verify'.at = "done" /\ verify'.touched = verify.touched
       /\ verify'.code = result /\ verify'.tail = rest
  BY <1>2 DEF Resting
<1>11. VerifyHonest'
  BY <1>5, <1>7, <1>8, <1>10 DEF VerifyHonest, QuietVerdict, BrokenOnlyByOverlap, Archived
<1> QED
  BY <1>9, <1>11

----------------------------------------------------------------------------
(* Export *)

\* The bounds of the segments are rows.
LEMMA SegmentBounds ==
    ASSUME ReadersInv, NEW k \in 1 .. Len(sealed)
    PROVE  /\ sealed[k].first \in Nat /\ sealed[k].last \in Nat
           /\ 1 <= sealed[k].first /\ sealed[k].first <= sealed[k].last
           /\ sealed[k].last <= Len(live) /\ Len(live) \in Nat
           /\ sealed[k].archived \in BOOLEAN
<1>1. sealed \in Seq(Segment) /\ live \in Seq(BOOLEAN)
  BY DEF ReadersInv, LedgerTypes
<1>2. sealed[k] \in Segment /\ Len(live) \in Nat
  BY <1>1
<1>3. sealed[k].first \in Nat /\ sealed[k].last \in Nat /\ sealed[k].archived \in BOOLEAN
  BY <1>2 DEF Segment
<1> QED
  BY <1>2, <1>3 DEF ReadersInv, SegmentsInPlace

\* The rows of the segments before one come before its own.
LEMMA RowsBefore ==
    ASSUME ReadersInv, NEW k \in 1 .. Len(sealed)
    PROVE  UNION {Rows(sealed[j]) : j \in 1 .. k - 1} \subseteq 1 .. sealed[k].first - 1
<1> SUFFICES ASSUME NEW j \in 1 .. k - 1, NEW r \in Rows(sealed[j])
             PROVE  r \in 1 .. sealed[k].first - 1
  OBVIOUS
<1>1. j \in 1 .. Len(sealed) /\ j < k
  BY DEF ReadersInv, LedgerTypes
<1>2. sealed[j].last < sealed[k].first
  BY <1>1 DEF ReadersInv, SegmentsInPlace
<1> QED
  BY <1>1, <1>2, SegmentBounds DEF Rows

\* While nothing is archived every row is in the export, at the place of its
\* number.
LEMMA AllInPlace ==
    ASSUME ReadersInv, Archived = {}
    PROVE  /\ {r \in 1 .. Len(live) : live[r]} = 1 .. Len(live)
           /\ \A r \in 1 .. Len(live) : Place(1 .. Len(live), r) = r
<1>1. live \in Seq(BOOLEAN) /\ sealed \in Seq(Segment)
  BY DEF ReadersInv, LedgerTypes
<1>2. Len(live) \in Nat /\ DOMAIN sealed = 1 .. Len(sealed)
  BY <1>1
<1>3. \A r \in 1 .. Len(live) : live[r]
  BY <1>2 DEF ReadersInv, NulledAreArchived, Archived
<1>4. ASSUME NEW r \in 1 .. Len(live) PROVE Place(1 .. Len(live), r) = r
  <2>1. {e \in 1 .. Len(live) : e <= r} = 1 .. r
    BY <1>2
  <2>2. Cardinality(1 .. r) = IF 1 > r THEN 0 ELSE r - 1 + 1
    BY <1>2, FS_Interval
  <2>3. Place(1 .. Len(live), r) = Cardinality(1 .. r)
    BY <2>1 DEF Place
  <2> QED
    BY <1>2, <2>2, <2>3
<1> QED
  BY <1>3, <1>4

\* verifySegments: the leaves of every segment match when nothing is archived
\* and no row was left out of the segments before the last.
LEMMA LeavesAllMatch ==
    ASSUME ReadersInv, Archived = {}, Orphans = {}, NEW k \in DOMAIN sealed
    PROVE  LeavesMatch(1 .. Len(live), sealed, k)
<1>1. live \in Seq(BOOLEAN) /\ sealed \in Seq(Segment)
  BY DEF ReadersInv, LedgerTypes
<1>2. Len(live) \in Nat /\ DOMAIN sealed = 1 .. Len(sealed) /\ DOMAIN live = 1 .. Len(live)
      /\ Len(sealed) \in Nat
  BY <1>1
<1> DEFINE first == sealed[k].first
           before == UNION {Rows(sealed[j]) : j \in 1 .. k - 1}
<1>3. first \in Nat /\ 1 <= first /\ first <= sealed[k].last /\ sealed[k].last <= Len(live)
      /\ sealed[k].last \in Nat
  BY <1>2, SegmentBounds
<1>4. before \subseteq 1 .. first - 1
  BY <1>2, RowsBefore
<1>5. ASSUME NEW r \in 1 .. first - 1 PROVE r \in before
  <2>1. r \in DOMAIN live /\ r < first
    BY <1>2, <1>3
  <2>2. PICK j \in DOMAIN sealed : r \in Rows(sealed[j])
    BY <2>1 DEF Orphans
  <2>3. sealed[j].first <= r /\ sealed[j].first \in Nat
    BY <1>2, <2>2, SegmentBounds DEF Rows
  <2>4. ~(k < j)
    <3> SUFFICES ASSUME k < j PROVE FALSE
      OBVIOUS
    <3>1. sealed[k].last < sealed[j].first
      BY <1>2 DEF ReadersInv, SegmentsInPlace
    <3> QED
      BY <1>3, <2>1, <2>3, <3>1
  <2>5. j # k
    BY <2>1, <2>3
  <2>6. j \in 1 .. k - 1
    BY <1>2, <2>4, <2>5
  <2> QED
    BY <2>2, <2>6
<1>6. before = 1 .. first - 1
  BY <1>4, <1>5
<1>7. Cursor(sealed, k) = first - 1
  <2>1. Cardinality(1 .. first - 1) = IF 1 > first - 1 THEN 0 ELSE first - 1 - 1 + 1
    <3>1. first - 1 \in Int
      BY <1>3
    <3> QED
      BY <3>1, FS_Interval
  <2>2. Cursor(sealed, k) = Cardinality(1 .. first - 1)
    BY <1>6 DEF Cursor
  <2> QED
    BY <1>3, <2>1, <2>2
<1>8. \A r \in Rows(sealed[k]) :
         r \in 1 .. Len(live) /\ Place(1 .. Len(live), r) = Cursor(sealed, k) + r - first + 1
  <2> SUFFICES ASSUME NEW r \in Rows(sealed[k])
               PROVE  /\ r \in 1 .. Len(live)
                      /\ Place(1 .. Len(live), r) = Cursor(sealed, k) + r - first + 1
    OBVIOUS
  <2>1. r \in 1 .. Len(live)
    BY <1>2, <1>3 DEF Rows
  <2>2. Place(1 .. Len(live), r) = r
    BY <2>1, AllInPlace
  <2> QED
    BY <1>2, <1>3, <1>7, <2>1, <2>2
<1> QED
  BY <1>8 DEF LeavesMatch

\* A segment behind a row that no segment covers does not match: its leaves
\* are taken from before it.
LEMMA OrphanMisplaces ==
    ASSUME ReadersInv, Archived = {}, Orphans # {}
    PROVE  \E k \in DOMAIN sealed : ~LeavesMatch(1 .. Len(live), sealed, k)
<1>1. live \in Seq(BOOLEAN) /\ sealed \in Seq(Segment)
  BY DEF ReadersInv, LedgerTypes
<1>2. Len(live) \in Nat /\ DOMAIN sealed = 1 .. Len(sealed) /\ DOMAIN live = 1 .. Len(live)
      /\ Len(sealed) \in Nat
  BY <1>1
<1>3. PICK r \in DOMAIN live, k \in DOMAIN sealed :
         r < sealed[k].first /\ \A j \in DOMAIN sealed : r \notin Rows(sealed[j])
  BY DEF Orphans
<1> DEFINE first == sealed[k].first
           before == UNION {Rows(sealed[j]) : j \in 1 .. k - 1}
<1>4. first \in Nat /\ 1 <= first /\ first <= sealed[k].last /\ sealed[k].last <= Len(live)
      /\ sealed[k].last \in Nat
  BY <1>2, SegmentBounds
<1>5. before \subseteq 1 .. first - 1
  BY <1>2, RowsBefore
<1>6. r \in 1 .. first - 1 /\ r \notin before
  <2>1. \A j \in 1 .. k - 1 : j \in DOMAIN sealed
    BY <1>2
  <2> QED
    BY <1>2, <1>3, <1>4, <2>1
<1>7. Cardinality(before) < first - 1
  <2> DEFINE all == 1 .. first - 1
  <2>1. IsFiniteSet(all) /\ Cardinality(all) = first - 1
    <3>1. first - 1 \in Int /\ first - 1 >= 1
      BY <1>4, <1>6
    <3>2. IsFiniteSet(all) /\ Cardinality(all) = IF 1 > first - 1 THEN 0 ELSE first - 1 - 1 + 1
      BY <3>1, FS_Interval
    <3> QED
      BY <1>4, <3>1, <3>2
  <2>2. before \in SUBSET all /\ before # all
    BY <1>5, <1>6
  <2> HIDE DEF all, before
  <2>3. IsFiniteSet(before) /\ Cardinality(before) <= Cardinality(all)
        /\ (Cardinality(all) = Cardinality(before) => all = before)
    BY <2>1, <2>2, FS_Subset
  <2>4. Cardinality(before) \in Nat
    BY <2>3, FS_CardinalityType
  <2> QED
    BY <1>4, <2>1, <2>2, <2>3, <2>4
<1>8. Cursor(sealed, k) < first - 1 /\ Cursor(sealed, k) \in Int
  <2>1. IsFiniteSet(1 .. first - 1)
    <3>1. first - 1 \in Int
      BY <1>4
    <3> QED
      BY <3>1, FS_Interval
  <2>2. IsFiniteSet(before)
    BY <1>5, <2>1, FS_Subset
  <2>3. Cardinality(before) \in Nat
    BY <2>2, FS_CardinalityType
  <2> QED
    BY <1>7, <2>3 DEF Cursor
<1>9. first \in Rows(sealed[k]) /\ first \in 1 .. Len(live)
  BY <1>2, <1>4 DEF Rows
<1>10. Place(1 .. Len(live), first) = first
  BY <1>9, AllInPlace
<1>11. Place(1 .. Len(live), first) # Cursor(sealed, k) + first - first + 1
  BY <1>4, <1>8, <1>10
<1>12. ~LeavesMatch(1 .. Len(live), sealed, k)
  BY <1>9, <1>11 DEF LeavesMatch
<1> QED
  BY <1>12

\* What VerifyExportFiles makes of the ledger as it is.
LEMMA ExportTold ==
    ASSUME ReadersInv
    PROVE  ExportCode({r \in 1 .. Len(live) : live[r]}, sealed, signed) =
              IF Archived \cup Orphans # {} \/ Interrupted(signed) THEN "broken" ELSE "ok"
<1> DEFINE events == {r \in 1 .. Len(live) : live[r]}
<1>1. sealed \in Seq(Segment) /\ signed \in Seq(Nat)
  BY DEF ReadersInv, LedgerTypes
<1>2. DOMAIN sealed = 1 .. Len(sealed) /\ Len(sealed) \in Nat
  BY <1>1
<1>3. ~MissesSegment(sealed, signed)
  BY <1>1 DEF MissesSegment, ReadersInv, SegmentsInPlace
<1>4. CASE Archived # {}
  <2>1. PICK k \in 1 .. Len(sealed) : sealed[k].archived
    BY <1>2, <1>4 DEF Archived
  <2>2. sealed[k].first \in Rows(sealed[k]) /\ sealed[k].first \in 1 .. Len(live)
    BY SegmentBounds DEF Rows
  <2>3. ~live[sealed[k].first]
    BY <2>1, <2>2 DEF ReadersInv, NulledAreArchived
  <2>4. ~LeavesMatch(events, sealed, k)
    BY <2>2, <2>3 DEF LeavesMatch
  <2> QED
    BY <1>2, <1>4, <2>4 DEF ExportCode
<1>5. CASE Archived = {} /\ Orphans # {}
  BY <1>5, AllInPlace, OrphanMisplaces DEF ExportCode
<1>6. CASE Archived = {} /\ Orphans = {}
  BY <1>3, <1>6, AllInPlace, LeavesAllMatch DEF ExportCode
<1> QED
  BY <1>4, <1>5, <1>6

\* What Export has read stands while the rows, segments and checkpoints do.
LEMMA ExportUntouched ==
    ASSUME ReadersInv, UNCHANGED <<live, sealed, signed, export>> PROVE ExportHonest'
<1>1. Archived' = Archived /\ Orphans' = Orphans
  BY DEF Archived, Orphans, Rows
<1>2. Interrupted(signed') <=> Interrupted(signed)
  OBVIOUS
<1> QED
  BY <1>1, <1>2 DEF ReadersInv, ExportHonest, ExportVerdict

\* Whatever is committed beside it is noted.
LEMMA ExportTouched ==
    ASSUME ReadersInv, NEW what \in Commit, export' = Touched(export, what)
    PROVE  ExportHonest'
<1>1. export \in ReaderState
  BY DEF ReadersInv, LedgerTypes
<1>2. (export.at = "rest" => export = Resting)'
  BY <1>1, TouchedReader DEF ReadersInv, ExportHonest
<1>3. export'.at # "done"
  BY <1>1, TouchedReader
<1>4. export'.at \in {"segments", "checkpoints"} => export'.touched # {}
  BY <1>1, TouchedFields
<1> QED
  BY <1>2, <1>3, <1>4 DEF ExportHonest, ExportVerdict

\* exportEvents, exportSegments.
LEMMA ExportReadsKeep ==
    ASSUME ReadersInv, ExportEvents \/ ExportSegments
    PROVE  export' \in ReaderState /\ ExportHonest'
<1>1. export \in ReaderState /\ live \in Seq(BOOLEAN) /\ sealed \in Seq(Segment)
  BY DEF ReadersInv, LedgerTypes
<1>2. ExportHonest
  BY DEF ReadersInv
<1>3. CASE ExportEvents
  <2> DEFINE events == {r \in DOMAIN live : live[r]}
  <2>1. export' = [export EXCEPT !.at = "segments", !.events = events] /\ export.at = "rest"
    BY <1>3 DEF ExportEvents
  <2>2. events \in SUBSET Nat /\ events = {r \in 1 .. Len(live) : live[r]}
    BY <1>1
  <2>3. live' = live
    BY <1>3 DEF ExportEvents
  <2> HIDE DEF events
  <2>4. export' \in ReaderState
    BY <1>1, <2>1, <2>2, Zenon DEF ReaderState
  <2>5. export'.at = "segments" /\ export'.events = events
    BY <1>1, <2>1, Zenon DEF ReaderState
  <2>6. ExportHonest'
    BY <2>2, <2>3, <2>5 DEF ExportHonest, ExportVerdict
  <2> QED
    BY <2>4, <2>6
<1>4. CASE ExportSegments
  <2>1. export' = [export EXCEPT !.at = "checkpoints", !.segs = sealed] /\ export.at = "segments"
    BY <1>4 DEF ExportSegments
  <2>2. live' = live /\ sealed' = sealed
    BY <1>4 DEF ExportSegments
  <2>3. export' \in ReaderState
    BY <1>1, <2>1, Zenon DEF ReaderState
  <2>4. /\ export'.at = "checkpoints" /\ export'.events = export.events
        /\ export'.segs = sealed /\ export'.touched = export.touched
    BY <1>1, <2>1, Zenon DEF ReaderState
  <2>5. ExportHonest'
    BY <1>2, <2>1, <2>2, <2>4 DEF ExportHonest, ExportVerdict
  <2> QED
    BY <2>3, <2>5
<1> QED
  BY <1>3, <1>4

\* exportCheckpoints, and what the standalone verifier makes of the files.
LEMMA ExportEndKeeps ==
    ASSUME ReadersInv, ExportCheckpoints
    PROVE  export' \in ReaderState /\ ExportHonest'
<1>1. export \in ReaderState /\ export.touched \in SUBSET Commit /\ export.segs \in Seq(Segment)
  BY DEF ReadersInv, LedgerTypes, ReaderState
<1> DEFINE result == ExportCode(export.events, export.segs, signed)
           rest == ExportTail(export.segs, signed)
<1>2. export' = [Resting EXCEPT !.at = "done", !.touched = export.touched,
                                !.code = result, !.tail = rest]
  BY DEF ExportCheckpoints
<1>3. UNCHANGED <<live, sealed, signed>> /\ export.at = "checkpoints"
  BY DEF ExportCheckpoints
<1>4. result \in {"none", "ok", "incomplete", "broken"} /\ rest \in SUBSET Nat
  BY <1>1 DEF ExportCode, ExportTail, TailAfter
<1>5. Resting \in ReaderState
  <2>0. <<>> \in Seq(Segment) /\ <<>> \in Seq(Nat)
    OBVIOUS
  <2> QED
    BY <2>0, Zenon DEF Resting, ReaderState, Commit
<1>6. export.touched = {} =>
         result = IF Archived \cup Orphans # {} \/ Interrupted(signed) THEN "broken" ELSE "ok"
  <2> SUFFICES ASSUME export.touched = {}
               PROVE  result = IF Archived \cup Orphans # {} \/ Interrupted(signed)
                               THEN "broken" ELSE "ok"
    OBVIOUS
  <2>1. export.events = {r \in 1 .. Len(live) : live[r]} /\ export.segs = sealed
    BY <1>3 DEF ReadersInv, ExportHonest
  <2> QED
    BY <2>1, ExportTold
<1>7. Archived' = Archived /\ Orphans' = Orphans
  BY <1>3 DEF Archived, Orphans, Rows
<1> HIDE DEF result, rest
<1>8. export' \in ReaderState
  BY <1>1, <1>2, <1>4, <1>5, Zenon DEF ReaderState
<1>9. export'.at = "done" /\ export'.touched = export.touched /\ export'.code = result
  BY <1>2 DEF Resting
<1>10. ExportHonest'
  BY <1>3, <1>6, <1>7, <1>9 DEF ExportHonest, ExportVerdict
<1> QED
  BY <1>8, <1>10

----------------------------------------------------------------------------

\* A step that leaves what is on disk alone leaves what is said of it alone.
LEMMA DiskUntouched ==
    ASSUME ReadersInv, UNCHANGED <<live, open, sealed, signed>>
    PROVE  SegmentsInPlace' /\ NulledAreArchived'
  BY DEF ReadersInv, SegmentsInPlace, NulledAreArchived, Rows

\* Every step of the writer, GC, Verify and Export keeps the invariant.
LEMMA ReadersKept == ReadersInv /\ [ReadersNext]_readerVars => ReadersInv'
<1> SUFFICES ASSUME ReadersInv, [ReadersNext]_readerVars PROVE ReadersInv'
  OBVIOUS
<1>1. CASE WriterCommits
  <2>1. PICK seals \in BOOLEAN, signs \in BOOLEAN, others \in BOOLEAN :
         CommitBatch(seals, signs, others)
    BY <1>1 DEF WriterCommits
  <2>2. \E what \in Commit : export' = Touched(export, what)
    BY <2>1 DEF CommitBatch, Touch2, Commit
  <2> QED
    BY <2>1, <2>2, BatchEffects, BatchInPlace, GcThroughBatch, VerifyThroughBatch, ExportTouched
       DEF ReadersInv
<1>2. CASE WriterRestarts
  <2>1. UNCHANGED <<live, sealed, signed, archive, gc, verify, export, shared>>
    BY <1>2 DEF WriterRestarts
  <2>2. open' = Len(live) + 1 /\ live \in Seq(BOOLEAN)
    BY <1>2 DEF WriterRestarts, ReadersInv, LedgerTypes
  <2>3. LedgerTypes'
    BY <2>1, <2>2 DEF ReadersInv, LedgerTypes
  <2>4. open \in 1 .. Len(live) + 1 /\ \A k \in 1 .. Len(sealed) : sealed[k].last \in Nat
    BY SegmentBounds DEF ReadersInv, SegmentsInPlace
  <2>5. \A k \in 1 .. Len(sealed) : sealed[k].last < open'
    BY <2>2, <2>4 DEF ReadersInv, SegmentsInPlace
  <2>6. SegmentsInPlace'
    BY <2>1, <2>2, <2>5 DEF ReadersInv, SegmentsInPlace
  <2>7. NulledAreArchived'
    BY <2>1 DEF ReadersInv, NulledAreArchived, Rows
  <2> QED
    BY <2>1, <2>3, <2>6, <2>7, GcUntouched, VerifyUntouched, ExportUntouched DEF ReadersInv
<1>3. ASSUME NEW c \in Collector, GcStep(c) PROVE ReadersInv'
  <2>1. CASE ClearRows(c)
    <3>1. export' = Touched(export, "gc") /\ "gc" \in Commit
      BY <2>1 DEF ClearRows, Touch2, Commit
    <3> QED
      BY <2>1, <3>1, ClearEffects, ClearInPlace, ClearKeeps, VerifyThroughClear, ExportTouched
         DEF ReadersInv
  <2>2. CASE \/ ReadForArchive(c) \/ RenameArchive(c) \/ GcStops(c)
             \/ \E m \in DOMAIN sealed : FindTargets(c, m)
    <3>1. LedgerTypes' /\ TargetsInPlace' /\ ArchivesWhole'
      BY <2>2, FindKeeps, ReadKeeps, RenameKeeps, StopKeeps
    <3>2. UNCHANGED <<live, open, sealed, signed, verify, export>>
      BY <2>2 DEF FindTargets, ReadForArchive, RenameArchive, GcStops
    <3> QED
      BY <3>1, <3>2, DiskUntouched, VerifyUntouched, ExportUntouched DEF ReadersInv
  <2> QED
    BY <1>3, <2>1, <2>2 DEF GcStep
<1>4. CASE VerifyStep
  <2>1. verify' \in ReaderState /\ VerifyHonest'
    BY <1>4, ReadSegmentsKeeps, ReadCheckpointsKeeps, CheckSegmentKeeps, VerdictKeeps DEF VerifyStep
  <2>2. UNCHANGED <<live, open, sealed, signed, archive, gc, export, shared>>
    BY <1>4 DEF VerifyStep, ReadSegments, ReadCheckpoints, CheckSegment, Verdict
  <2>3. LedgerTypes'
    BY <2>1, <2>2 DEF ReadersInv, LedgerTypes
  <2> QED
    BY <2>1, <2>2, <2>3, DiskUntouched, GcUntouched, ExportUntouched DEF ReadersInv
<1>5. CASE ExportStep
  <2>1. export' \in ReaderState /\ ExportHonest'
    BY <1>5, ExportReadsKeep, ExportEndKeeps DEF ExportStep
  <2>2. UNCHANGED <<live, open, sealed, signed, archive, gc, verify, shared>>
    BY <1>5 DEF ExportStep, ExportEvents, ExportSegments, ExportCheckpoints
  <2>3. LedgerTypes'
    BY <2>1, <2>2 DEF ReadersInv, LedgerTypes
  <2> QED
    BY <2>1, <2>2, <2>3, DiskUntouched, GcUntouched, VerifyUntouched DEF ReadersInv
<1>6. CASE UNCHANGED readerVars
  <2>1. UNCHANGED <<live, open, sealed, signed, archive, gc, verify, export, shared>>
    BY <1>6 DEF readerVars
  <2>2. LedgerTypes'
    BY <2>1 DEF ReadersInv, LedgerTypes
  <2> QED
    BY <2>1, <2>2, DiskUntouched, GcUntouched, VerifyUntouched, ExportUntouched DEF ReadersInv
<1> QED
  BY <1>1, <1>2, <1>3, <1>4, <1>5, <1>6 DEF ReadersNext

\* The ledger under its readers satisfies the invariant throughout.
LEMMA ReadersInvariant == ReadersSpec => []ReadersInv
  BY ReadersStart, ReadersKept, PTL DEF ReadersSpec

\* gc.go, archiveSegment: whatever GC nulled is in its archive, for any number
\* of collectors that die and start over, except where two had the segment at
\* once.
THEOREM ArchiveHolds == ReadersSpec => []ClearedIsArchived
<1>1. ReadersInv => ClearedIsArchived
  <2> SUFFICES ASSUME ReadersInv PROVE ClearedIsArchived
    OBVIOUS
  <2>1. DOMAIN sealed = 1 .. Len(sealed) /\ DOMAIN live = 1 .. Len(live)
    BY DEF ReadersInv, LedgerTypes
  <2>2. \A k \in Archived \ shared : archive[k].rows = Rows(sealed[k])
    BY <2>1 DEF ReadersInv, ArchivesWhole, HeldAlone, Archived
  <2>3. \A r \in DOMAIN live : ~live[r] => \E k \in Archived : r \in Rows(sealed[k])
    BY <2>1 DEF ReadersInv, NulledAreArchived, Archived
  <2> QED
    BY <2>2, <2>3 DEF ClearedIsArchived
<1> QED
  BY <1>1, ReadersInvariant, PTL

\* Verify, VerifyExportFiles: what each says of a ledger that nobody altered
\* has its reason, whatever the writer and the collectors commit meanwhile.
THEOREM VerdictsHold == ReadersSpec => []VerdictsJustified
<1>1. ReadersInv => VerdictsJustified
  BY DEF ReadersInv, VerifyHonest, ExportHonest, VerdictsJustified
<1> QED
  BY <1>1, ReadersInvariant, PTL

----------------------------------------------------------------------------
(* The device's files *)

Stage == {"down", "salt", "linkSalt", "key", "stat", "linkKey", "reload", "open", "meta", "up"}

RunState == [at : Stage, salt : Nat, key : Nat, prev : Nat]

RootSalt == Nat \cup {Empty}
DaemonState == [at : {"down", "create", "write", "up"}, salt : RootSalt]

\* The types the argument needs.
FileTypes ==
    /\ key \in [seed : Nat, wrapped : BOOLEAN]
    /\ salt \in Nat /\ rootSalt \in RootSalt /\ meta \in Nat /\ wrapper \in Nat /\ drawn \in Nat
    /\ ckpts \in Seq([by : Nat, prev : Nat])
    /\ runs \in [Run -> RunState]
    /\ daemons \in [Daemon -> DaemonState]

\* A salt or a key is in place before a run holds it for good, and meta has the
\* key before a run signs: what holds of the record of each run.
RunInPlace(r) ==
    /\ r.at = "linkSalt" => r.salt # 0
    /\ r.at = "linkKey" => r.key # 0
    /\ r.at \notin {"down", "salt", "linkSalt"} => salt # 0 /\ r.salt = salt
    /\ r.at \in {"open", "meta", "up"} => key.seed # 0 /\ r.key = key.seed
    /\ r.at = "up" => meta # 0

\* The strengthening of OneKeyOneSalt: what is in place stays.
InPlace ==
    /\ \A p \in Run : RunInPlace(runs[p])
    /\ wrapper # 0 => wrapper = key.seed

\* The strengthening of MetaVerifiesAll: meta's public key is that of the key
\* on disk, and is written before anything is signed.
MetaInPlace ==
    /\ meta # 0 => meta = key.seed
    /\ \A i \in DOMAIN ckpts : meta # 0 /\ ckpts[i].by = meta

\* While no two writers were open at once, there is at most one, and it
\* remembers the last checkpoint.
LastRemembered ==
    "writers" \notin overlapped =>
        /\ \A i \in DOMAIN ckpts : ckpts[i].prev = i - 1
        /\ \A p \in Writing : runs[p].prev = Len(ckpts)
        /\ \A p, q \in Writing : p = q

\* While no two ranads were up at once, one that is about to write a salt
\* writes the first.
RootInPlace ==
    /\ 0 \notin rootSalts
    /\ \A d \in Daemon : daemons[d].at \in {"create", "write"} => daemons[d].salt # 0
    /\ "daemons" \notin overlapped =>
        /\ \A d, e \in Daemon : daemons[d].at # "down" /\ daemons[e].at # "down" => d = e
        /\ \A d \in Daemon : daemons[d].at \in {"create", "write"} => rootSalts = {}
        /\ \A s \in rootSalts : s = rootSalt

FileInv == FileTypes /\ InPlace /\ MetaInPlace /\ LastRemembered /\ RootInPlace

----------------------------------------------------------------------------

\* The initial state: nothing on disk, nobody running.
LEMMA FilesStart == DeviceInit => FileInv
  BY DEF DeviceInit, FileInv, FileTypes, RunState, DaemonState, RootSalt, Stage, Down,
         InPlace, RunInPlace, MetaInPlace, LastRemembered, Writing, RootInPlace

----------------------------------------------------------------------------
(* What a step of a run does to the record of that run *)

\* Run p is now where r says, and every other run where it was.
Moved(p, r) ==
    /\ runs' \in [Run -> RunState] /\ runs'[p] = r
    /\ \A q \in Run \ {p} : runs'[q] = runs[q]

\* The run goes on to its next step.
LEMMA GoesOn ==
    ASSUME NEW p \in Run, runs \in [Run -> RunState], NEW a \in Stage,
           runs' = [runs EXCEPT ![p].at = a]
    PROVE  Moved(p, [runs[p] EXCEPT !.at = a])
  <1>1. runs' \in [Run -> RunState] BY Zenon DEF RunState
  <1>2. QED BY <1>1 DEF Moved, RunState

\* It goes on with a salt.
LEMMA GoesOnWithSalt ==
    ASSUME NEW p \in Run, runs \in [Run -> RunState], NEW a \in Stage, NEW n \in Nat,
           runs' = [runs EXCEPT ![p].at = a, ![p].salt = n]
    PROVE  Moved(p, [runs[p] EXCEPT !.at = a, !.salt = n])
  <1>1. runs' \in [Run -> RunState] BY Zenon DEF RunState
  <1>2. QED BY <1>1 DEF Moved, RunState

\* It goes on with a key.
LEMMA GoesOnWithKey ==
    ASSUME NEW p \in Run, runs \in [Run -> RunState], NEW a \in Stage, NEW n \in Nat,
           runs' = [runs EXCEPT ![p].at = a, ![p].key = n]
    PROVE  Moved(p, [runs[p] EXCEPT !.at = a, !.key = n])
  <1>1. runs' \in [Run -> RunState] BY Zenon DEF RunState
  <1>2. QED BY <1>1 DEF Moved, RunState

\* It goes on with the checkpoint it remembers.
LEMMA GoesOnWithPrev ==
    ASSUME NEW p \in Run, runs \in [Run -> RunState], NEW a \in Stage, NEW n \in Nat,
           runs' = [runs EXCEPT ![p].at = a, ![p].prev = n]
    PROVE  Moved(p, [runs[p] EXCEPT !.at = a, !.prev = n])
  <1>1. runs' \in [Run -> RunState] BY Zenon DEF RunState
  <1>2. QED BY <1>1 DEF Moved, RunState

\* It remembers another checkpoint.
LEMMA Remembers ==
    ASSUME NEW p \in Run, runs \in [Run -> RunState], NEW n \in Nat,
           runs' = [runs EXCEPT ![p].prev = n]
    PROVE  Moved(p, [runs[p] EXCEPT !.prev = n])
  <1>1. runs' \in [Run -> RunState] BY Zenon DEF RunState
  <1>2. QED BY <1>1 DEF Moved, RunState

\* It becomes another record altogether.
LEMMA Becoming ==
    ASSUME NEW p \in Run, runs \in [Run -> RunState], NEW r \in RunState,
           runs' = [runs EXCEPT ![p] = r]
    PROVE  Moved(p, r)
  BY DEF Moved

----------------------------------------------------------------------------
(* The steps of a run *)

\* A step that moves one run, and leaves the files and the other processes
\* alone, keeps the invariant when the run's new record is in place, and the
\* run is a writer only if it was.
LEMMA OnlyRunMoves ==
    ASSUME FileInv, NEW p \in Run, NEW r, Moved(p, r), RunInPlace(r),
           r.at \in {"meta", "up"} => p \in Writing /\ r.prev = runs[p].prev,
           UNCHANGED <<runFiles, rootFiles, wrapper, overlapped>>, drawn' \in Nat
    PROVE  FileInv'
  <1> USE DEF runFiles, rootFiles
  <1>1. FileTypes' BY DEF FileInv, FileTypes, Moved
  <1>2. InPlace'
    <2>1. \A q \in Run : RunInPlace(runs'[q]) BY DEF FileInv, InPlace, Moved
    <2>2. QED BY <2>1 DEF FileInv, InPlace, RunInPlace
  <1>3. MetaInPlace' BY DEF FileInv, MetaInPlace
  <1>4. Writing' \subseteq Writing /\ \A q \in Writing' : runs'[q].prev = runs[q].prev
    BY DEF Writing, Moved
  <1>5. LastRemembered' BY <1>4 DEF FileInv, LastRemembered
  <1>6. RootInPlace' BY DEF FileInv, RootInPlace
  <1>7. QED BY <1>1, <1>2, <1>3, <1>5, <1>6 DEF FileInv

LEMMA RunStepKeeps ==
    ASSUME FileInv, NEW p \in Run, RunStep(p)
    PROVE  FileInv'
  <1> USE DEF runFiles, rootFiles
  <1>a. /\ runs \in [Run -> RunState] /\ salt \in Nat /\ drawn \in Nat /\ meta \in Nat
        /\ key \in [seed : Nat, wrapped : BOOLEAN] /\ ckpts \in Seq([by : Nat, prev : Nat])
    BY DEF FileInv, FileTypes
  <1>b. RunInPlace(runs[p]) BY DEF FileInv, InPlace
  <1>c. runs[p] \in RunState BY <1>a
  <1>1. CASE RunStarts(p)
    <2>1. Moved(p, [runs[p] EXCEPT !.at = "salt"])
      BY <1>1, <1>a, GoesOn DEF RunStarts, Becomes, Stage
    <2>2. RunInPlace([runs[p] EXCEPT !.at = "salt"]) BY <1>c DEF RunInPlace, RunState
    <2>3. QED BY <1>1, <1>a, <1>c, <2>1, <2>2, OnlyRunMoves DEF RunStarts, RunState
  <1>2. CASE ReadSalt(p)
    <2>1. CASE salt # 0
      <3>1. Moved(p, [runs[p] EXCEPT !.at = "key", !.salt = salt])
        BY <1>2, <2>1, <1>a, GoesOnWithSalt DEF ReadSalt, Stage
      <3>2. RunInPlace([runs[p] EXCEPT !.at = "key", !.salt = salt])
        BY <1>c, <2>1 DEF RunInPlace, RunState
      <3>3. QED BY <1>2, <1>a, <1>c, <2>1, <3>1, <3>2, OnlyRunMoves DEF ReadSalt, RunState
    <2>2. CASE salt = 0
      <3>0. /\ drawn + 1 \in Nat /\ drawn' = drawn + 1
            /\ runs' = [runs EXCEPT ![p].at = "linkSalt", ![p].salt = drawn + 1]
        BY <1>2, <2>2, <1>a DEF ReadSalt, Draw
      <3>1. Moved(p, [runs[p] EXCEPT !.at = "linkSalt", !.salt = drawn + 1])
        BY <3>0, <1>a, GoesOnWithSalt DEF Stage
      <3>2. RunInPlace([runs[p] EXCEPT !.at = "linkSalt", !.salt = drawn + 1])
        BY <1>a, <1>c DEF RunInPlace, RunState
      <3>3. QED BY <1>2, <3>0, <1>c, <3>1, <3>2, OnlyRunMoves DEF ReadSalt, RunState
    <2>3. QED BY <2>1, <2>2
  <1>3. CASE LinkSalt(p)
    <2>1. salt' \in Nat /\ salt' # 0 /\ (salt # 0 => salt' = salt)
      BY <1>3, <1>a, <1>b, <1>c DEF LinkSalt, RunInPlace, RunState
    <2>2. Moved(p, [runs[p] EXCEPT !.at = "key", !.salt = salt'])
      BY <1>3, <1>a, <2>1, GoesOnWithSalt DEF LinkSalt, Stage
    <2>3. FileTypes' BY <1>3, <2>1, <2>2 DEF LinkSalt, FileInv, FileTypes, Moved
    <2>4. InPlace'
      <3>1. RunInPlace(runs[p])' BY <1>3, <1>c, <2>1, <2>2 DEF LinkSalt, RunInPlace, Moved, RunState
      <3>2. ASSUME NEW q \in Run \ {p} PROVE RunInPlace(runs[q])'
        BY <1>3, <2>1, <2>2 DEF LinkSalt, FileInv, InPlace, RunInPlace, Moved
      <3>3. QED BY <1>3, <3>1, <3>2 DEF LinkSalt, FileInv, InPlace
    <2>5. MetaInPlace' BY <1>3 DEF LinkSalt, FileInv, MetaInPlace
    <2>6. Writing' = Writing BY <1>3, <1>c, <2>2 DEF LinkSalt, Writing, Moved, RunState
    <2>7. \A q \in Writing : runs'[q].prev = runs[q].prev BY <1>c, <2>2 DEF Writing, Moved, RunState
    <2>8. LastRemembered' BY <1>3, <2>6, <2>7 DEF LinkSalt, FileInv, LastRemembered
    <2>9. RootInPlace' BY <1>3 DEF LinkSalt, FileInv, RootInPlace
    <2>10. QED BY <2>3, <2>4, <2>5, <2>8, <2>9 DEF FileInv
  <1>4. CASE ReadKey(p)
    <2>1. PICK a \in {"open", "stat"}, n \in Nat :
            /\ runs' = [runs EXCEPT ![p].at = a, ![p].key = n]
            /\ a = "open" => n # 0 /\ n = key.seed
      BY <1>4, <1>a DEF ReadKey, Loadable
    <2>2. Moved(p, [runs[p] EXCEPT !.at = a, !.key = n])
      BY <2>1, <1>a, GoesOnWithKey DEF Stage
    <2>3. RunInPlace([runs[p] EXCEPT !.at = a, !.key = n])
      BY <1>4, <1>b, <1>c, <2>1 DEF RunInPlace, RunState, ReadKey
    <2>4. QED BY <1>4, <1>a, <1>c, <2>1, <2>2, <2>3, OnlyRunMoves DEF ReadKey, RunState
  <1>5. CASE StatKey(p)
    <2>1. CASE key.seed # 0
      <3>1. Moved(p, [runs[p] EXCEPT !.at = "reload"])
        BY <1>5, <2>1, <1>a, GoesOn DEF StatKey, Becomes, Stage
      <3>2. RunInPlace([runs[p] EXCEPT !.at = "reload"])
        BY <1>5, <1>b, <1>c DEF RunInPlace, RunState, StatKey
      <3>3. QED BY <1>5, <1>a, <1>c, <2>1, <3>1, <3>2, OnlyRunMoves DEF StatKey, RunState
    <2>2. CASE key.seed = 0
      <3>0. /\ drawn + 1 \in Nat /\ drawn' = drawn + 1
            /\ runs' = [runs EXCEPT ![p].at = "linkKey", ![p].key = drawn + 1]
        BY <1>5, <2>2, <1>a DEF StatKey, Draw
      <3>1. Moved(p, [runs[p] EXCEPT !.at = "linkKey", !.key = drawn + 1])
        BY <3>0, <1>a, GoesOnWithKey DEF Stage
      <3>2. RunInPlace([runs[p] EXCEPT !.at = "linkKey", !.key = drawn + 1])
        BY <1>5, <1>a, <1>b, <1>c DEF RunInPlace, RunState, StatKey
      <3>3. QED BY <1>5, <3>0, <1>c, <3>1, <3>2, OnlyRunMoves DEF StatKey, RunState
    <2>3. QED BY <2>1, <2>2
  <1>6. CASE LinkKey(p)
    <2>1. /\ key' \in [seed : Nat, wrapped : BOOLEAN] /\ key'.seed # 0
          /\ key.seed # 0 => key' = key
          /\ key.seed = 0 => key'.seed = runs[p].key
      BY <1>6, <1>a, <1>b, <1>c DEF LinkKey, RunInPlace, RunState
    <2>2. PICK a \in {"open", "reload"} :
            /\ runs' = [runs EXCEPT ![p].at = a] /\ (a = "open" => key.seed = 0)
      BY <1>6, <1>a DEF LinkKey, Becomes
    <2>3. Moved(p, [runs[p] EXCEPT !.at = a]) BY <1>a, <2>2, GoesOn DEF Stage
    <2>4. FileTypes' BY <1>6, <2>1, <2>3 DEF LinkKey, FileInv, FileTypes, Moved
    <2>5. InPlace'
      <3>1. RunInPlace(runs[p])'
        BY <1>6, <1>b, <1>c, <2>1, <2>2, <2>3 DEF LinkKey, RunInPlace, Moved, RunState
      <3>2. ASSUME NEW q \in Run \ {p} PROVE RunInPlace(runs[q])'
        BY <1>6, <2>1, <2>3 DEF LinkKey, FileInv, InPlace, RunInPlace, Moved
      <3>3. wrapper # 0 => wrapper = key'.seed
        BY <2>1, <1>a DEF FileInv, InPlace, FileTypes
      <3>4. QED BY <1>6, <3>1, <3>2, <3>3 DEF LinkKey, FileInv, InPlace
    <2>6. MetaInPlace' BY <1>6, <2>1, <1>a DEF LinkKey, FileInv, MetaInPlace
    <2>7. Writing' = Writing BY <1>6, <1>c, <2>2, <2>3 DEF LinkKey, Writing, Moved, RunState
    <2>8. \A q \in Writing : runs'[q].prev = runs[q].prev BY <1>c, <2>3 DEF Writing, Moved, RunState
    <2>9. LastRemembered' BY <1>6, <2>7, <2>8 DEF LinkKey, FileInv, LastRemembered
    <2>10. RootInPlace' BY <1>6 DEF LinkKey, FileInv, RootInPlace
    <2>11. QED BY <2>4, <2>5, <2>6, <2>9, <2>10 DEF FileInv
  <1>7. CASE ReloadKey(p)
    <2>1. CASE Loadable
      <3>0. runs' = [runs EXCEPT ![p].at = "open", ![p].key = key.seed] 
        BY <1>7, <2>1 DEF ReloadKey
      <3>1. Moved(p, [runs[p] EXCEPT !.at = "open", !.key = key.seed])
        BY <3>0, <1>a, GoesOnWithKey DEF Stage
      <3>2. RunInPlace([runs[p] EXCEPT !.at = "open", !.key = key.seed])
        BY <1>7, <2>1, <1>b, <1>c DEF RunInPlace, RunState, ReloadKey, Loadable
      <3>3. QED BY <1>7, <1>a, <1>c, <2>1, <3>1, <3>2, OnlyRunMoves DEF ReloadKey, RunState
    <2>2. CASE ~Loadable
      <3>1. Moved(p, Down) BY <1>7, <2>2, <1>a, Becoming DEF ReloadKey, Down, RunState, Stage
      <3>2. RunInPlace(Down) BY DEF RunInPlace, Down
      <3>3. QED BY <1>7, <1>a, <3>1, <3>2, OnlyRunMoves DEF ReloadKey, Down
    <2>3. QED BY <2>1, <2>2
  <1>8. CASE OpenLedger(p)
    <2>1. Len(ckpts) \in Nat BY <1>a
    <2>2. Moved(p, [runs[p] EXCEPT !.at = "meta", !.prev = Len(ckpts)])
      BY <1>8, <1>a, <2>1, GoesOnWithPrev DEF OpenLedger, Stage
    <2>3. FileTypes' BY <1>8, <2>2 DEF OpenLedger, FileInv, FileTypes, Moved
    <2>4. InPlace'
      <3>1. RunInPlace(runs'[p])
        BY <1>8, <1>b, <1>c, <2>2 DEF OpenLedger, RunInPlace, Moved, RunState
      <3>2. ASSUME NEW q \in Run \ {p} PROVE RunInPlace(runs'[q])
        BY <2>2 DEF FileInv, InPlace, Moved
      <3>3. QED BY <1>8, <3>1, <3>2 DEF OpenLedger, FileInv, InPlace, RunInPlace
    <2>5. MetaInPlace' BY <1>8 DEF OpenLedger, FileInv, MetaInPlace
    <2>6. Writing' \subseteq Writing \cup {p} /\ runs'[p].prev = Len(ckpts)
      BY <1>c, <2>2 DEF Writing, Moved, RunState
    <2>7. "writers" \notin overlapped' => "writers" \notin overlapped /\ Writing = {}
      BY <1>8 DEF OpenLedger
    <2>8. LastRemembered' BY <1>8, <2>6, <2>7 DEF OpenLedger, FileInv, LastRemembered
    <2>9. RootInPlace' BY <1>8 DEF OpenLedger, FileInv, RootInPlace
    <2>10. QED BY <2>3, <2>4, <2>5, <2>8, <2>9 DEF FileInv
  <1>9. CASE EnsureMeta(p)
    <2>1. Moved(p, [runs[p] EXCEPT !.at = "up"])
      BY <1>9, <1>a, GoesOn DEF EnsureMeta, Becomes, Stage
    <2>2. /\ meta' \in Nat /\ meta' # 0 /\ meta' = key.seed
          /\ meta # 0 => meta' = meta
      BY <1>9, <1>a, <1>b, <1>c DEF EnsureMeta, RunInPlace, RunState, FileInv, MetaInPlace
    <2>3. FileTypes' BY <1>9, <2>1, <2>2 DEF EnsureMeta, FileInv, FileTypes, Moved
    <2>4. InPlace'
      <3>1. RunInPlace(runs[p])'
        BY <1>9, <1>b, <1>c, <2>1, <2>2 DEF EnsureMeta, RunInPlace, Moved, RunState
      <3>2. ASSUME NEW q \in Run \ {p} PROVE RunInPlace(runs[q])'
        BY <1>9, <2>1, <2>2 DEF EnsureMeta, FileInv, InPlace, RunInPlace, Moved
      <3>3. QED BY <1>9, <3>1, <3>2 DEF EnsureMeta, FileInv, InPlace
    <2>5. MetaInPlace' BY <1>9, <2>2 DEF EnsureMeta, FileInv, MetaInPlace
    <2>6. Writing' = Writing BY <1>9, <1>c, <2>1 DEF EnsureMeta, Writing, Moved, RunState
    <2>7. \A q \in Writing : runs'[q].prev = runs[q].prev BY <1>c, <2>1 DEF Writing, Moved, RunState
    <2>8. LastRemembered' BY <1>9, <2>6, <2>7 DEF EnsureMeta, FileInv, LastRemembered
    <2>9. RootInPlace' BY <1>9 DEF EnsureMeta, FileInv, RootInPlace
    <2>10. QED BY <2>3, <2>4, <2>5, <2>8, <2>9 DEF FileInv
  <1>10. CASE Sign(p)
    <2> DEFINE c == [by |-> runs[p].key, prev |-> runs[p].prev]
    <2>1. c \in [by : Nat, prev : Nat] /\ Len(ckpts) + 1 \in Nat BY <1>a, <1>c DEF RunState
    <2>2. Moved(p, [runs[p] EXCEPT !.prev = Len(ckpts) + 1])
      BY <1>10, <1>a, <2>1, Remembers DEF Sign
    <2>3. /\ ckpts' \in Seq([by : Nat, prev : Nat]) /\ Len(ckpts') = Len(ckpts) + 1
          /\ ckpts'[Len(ckpts) + 1] = c /\ DOMAIN ckpts' = DOMAIN ckpts \cup {Len(ckpts) + 1}
          /\ \A i \in DOMAIN ckpts : ckpts'[i] = ckpts[i]
      BY <1>10, <1>a, <2>1 DEF Sign
    <2>4. c.by = runs[p].key /\ c.prev = runs[p].prev OBVIOUS
    <2> HIDE DEF c
    <2>5. FileTypes' BY <1>10, <2>2, <2>3 DEF Sign, FileInv, FileTypes, Moved
    <2>6. InPlace'
      <3>1. RunInPlace(runs'[p])
        BY <1>10, <1>b, <1>c, <2>2 DEF Sign, RunInPlace, Moved, RunState
      <3>2. ASSUME NEW q \in Run \ {p} PROVE RunInPlace(runs'[q])
        BY <2>2 DEF FileInv, InPlace, Moved
      <3>3. QED BY <1>10, <3>1, <3>2 DEF Sign, FileInv, InPlace, RunInPlace
    <2>7. meta # 0 /\ runs[p].key = meta
      BY <1>10, <1>b DEF Sign, RunInPlace, FileInv, MetaInPlace
    <2>8. MetaInPlace' BY <1>10, <2>3, <2>4, <2>7 DEF Sign, FileInv, MetaInPlace
    <2>9. p \in Writing /\ Writing' = Writing
      BY <1>10, <1>c, <2>2 DEF Sign, Writing, Moved, RunState
    <2>10. LastRemembered'
      <3> SUFFICES ASSUME "writers" \notin overlapped
                   PROVE  /\ \A i \in DOMAIN ckpts' : ckpts'[i].prev = i - 1
                          /\ \A q \in Writing : runs'[q].prev = Len(ckpts')
                          /\ \A q, o \in Writing : q = o
        BY <1>10, <2>9 DEF Sign, LastRemembered
      <3>1. /\ runs[p].prev = Len(ckpts) /\ Writing = {p}
            /\ \A i \in DOMAIN ckpts : ckpts[i].prev = i - 1
        <4>1. \A q, o \in Writing : q = o BY DEF FileInv, LastRemembered
        <4>2. Writing = {p} BY <2>9, <4>1
        <4>3. /\ \A q \in Writing : runs[q].prev = Len(ckpts)
              /\ \A i \in DOMAIN ckpts : ckpts[i].prev = i - 1
          BY DEF FileInv, LastRemembered
        <4>4. QED BY <2>9, <4>2, <4>3
      <3>2. ASSUME NEW i \in DOMAIN ckpts' PROVE ckpts'[i].prev = i - 1
        <4>1. CASE i \in DOMAIN ckpts BY <2>3, <3>1, <4>1
        <4>2. CASE i = Len(ckpts) + 1
          <5>1. ckpts'[i].prev = Len(ckpts) BY <2>3, <2>4, <3>1, <4>2
          <5>2. Len(ckpts) \in Nat BY <1>a
          <5>3. QED BY <4>2, <5>1, <5>2
        <4>3. QED BY <2>3, <3>2, <4>1, <4>2
      <3>3. runs'[p].prev = Len(ckpts') BY <1>c, <2>2, <2>3 DEF Moved, RunState
      <3>4. QED BY <3>1, <3>2, <3>3
    <2>11. RootInPlace' BY <1>10 DEF Sign, FileInv, RootInPlace
    <2>12. QED BY <2>5, <2>6, <2>8, <2>10, <2>11 DEF FileInv
  <1>11. CASE RunEnds(p)
    <2>1. Moved(p, Down) BY <1>11, <1>a, Becoming DEF RunEnds, Down, RunState, Stage
    <2>2. RunInPlace(Down) BY DEF RunInPlace, Down
    <2>3. QED BY <1>11, <1>a, <2>1, <2>2, OnlyRunMoves DEF RunEnds, Down
  <1>12. QED BY <1>1, <1>2, <1>3, <1>4, <1>5, <1>6, <1>7, <1>8, <1>9, <1>10, <1>11 DEF RunStep

----------------------------------------------------------------------------
(* The steps of the wrapper and of ranad, and their sum *)

LEMMA WrapKeeps == FileInv /\ (WrapRead \/ WrapRename) => FileInv'
  <1> SUFFICES ASSUME FileInv, WrapRead \/ WrapRename PROVE FileInv'
    OBVIOUS
  <1> USE DEF runFiles, rootFiles
  <1>1. /\ key' \in [seed : Nat, wrapped : BOOLEAN] /\ key'.seed = key.seed
        /\ wrapper' \in Nat /\ (wrapper' # 0 => wrapper' = key.seed)
    <2>1. CASE WrapRead BY <2>1 DEF WrapRead, Loadable, FileInv, FileTypes, InPlace
    <2>2. CASE WrapRename BY <2>2 DEF WrapRename, Loadable, FileInv, FileTypes, InPlace
    <2>3. QED BY <2>1, <2>2
  <1>2. UNCHANGED <<salt, meta, ckpts, rootFiles, runs, drawn, overlapped>>
    BY DEF WrapRead, WrapRename
  <1>3. FileTypes' BY <1>1, <1>2 DEF FileInv, FileTypes
  <1>4. InPlace' BY <1>1, <1>2 DEF FileInv, InPlace, RunInPlace
  <1>5. MetaInPlace' BY <1>1, <1>2 DEF FileInv, MetaInPlace
  <1>6. LastRemembered' BY <1>2 DEF FileInv, LastRemembered, Writing
  <1>7. RootInPlace' BY <1>2 DEF FileInv, RootInPlace
  <1>8. QED BY <1>3, <1>4, <1>5, <1>6, <1>7 DEF FileInv

\* What a step of a ranad leaves alone keeps the rest of the invariant.
LEMMA RunsUntouched ==
    ASSUME FileInv, UNCHANGED <<runFiles, runs, wrapper>>,
           "writers" \notin overlapped' => "writers" \notin overlapped
    PROVE  InPlace' /\ MetaInPlace' /\ LastRemembered'
  <1> USE DEF runFiles
  <1>1. InPlace' BY DEF FileInv, InPlace, RunInPlace
  <1>2. MetaInPlace' BY DEF FileInv, MetaInPlace
  <1>3. LastRemembered' BY DEF FileInv, LastRemembered, Writing
  <1>4. QED BY <1>1, <1>2, <1>3

\* A ranad gets another record, or another step.
LEMMA DaemonBecomes ==
    ASSUME NEW d \in Daemon, daemons \in [Daemon -> DaemonState], NEW r \in DaemonState,
           daemons' = [daemons EXCEPT ![d] = r]
    PROVE  /\ daemons' \in [Daemon -> DaemonState] /\ daemons'[d] = r
           /\ \A e \in Daemon \ {d} : daemons'[e] = daemons[e]
  OBVIOUS

LEMMA DaemonGoesOn ==
    ASSUME NEW d \in Daemon, daemons \in [Daemon -> DaemonState], NEW a \in {"create", "write",
           "up"},
           daemons' = [daemons EXCEPT ![d].at = a]
    PROVE  /\ daemons' \in [Daemon -> DaemonState]
           /\ daemons'[d].at = a /\ daemons'[d].salt = daemons[d].salt
           /\ \A e \in Daemon \ {d} : daemons'[e] = daemons[e]
  <1>1. daemons' \in [Daemon -> DaemonState] BY Zenon DEF DaemonState
  <1>2. QED BY <1>1 DEF DaemonState

LEMMA DaemonStepKeeps ==
    ASSUME FileInv, NEW d \in Daemon, DaemonStep(d)
    PROVE  FileInv'
  <1> USE DEF runFiles
  <1>a. /\ daemons \in [Daemon -> DaemonState] /\ daemons[d] \in DaemonState
        /\ drawn \in Nat /\ rootSalt \in RootSalt
    BY DEF FileInv, FileTypes
  <1>b. UNCHANGED <<runFiles, runs, wrapper>> 
    BY DEF DaemonStep, DaemonStarts, TruncateSalt, WriteSalt, DaemonDies, AppendHead
  <1>c. "writers" \notin overlapped' => "writers" \notin overlapped
    BY DEF DaemonStep, DaemonStarts, TruncateSalt, WriteSalt, DaemonDies, AppendHead
  <1>d. InPlace' /\ MetaInPlace' /\ LastRemembered' BY <1>b, <1>c, RunsUntouched
  <1>e. ASSUME daemons' \in [Daemon -> DaemonState], drawn' \in Nat,
               rootSalt' \in RootSalt PROVE FileTypes'
    BY <1>b, <1>e DEF FileInv, FileTypes
  <1>1. CASE DaemonStarts(d)
    <2>1. "daemons" \notin overlapped' =>
            "daemons" \notin overlapped /\ \A e \in Daemon : daemons[e].at = "down"
      BY <1>1 DEF DaemonStarts
    <2>2. CASE rootSalt # 0
      <3>1. /\ daemons' = [daemons EXCEPT ![d] = [at |-> "up", salt |-> rootSalt]]
            /\ drawn' = drawn /\ rootSalt' = rootSalt /\ rootSalts' = rootSalts \cup {rootSalt}
        BY <1>1, <2>2 DEF DaemonStarts
      <3>2. [at |-> "up", salt |-> rootSalt] \in DaemonState BY <1>a DEF DaemonState
      <3>3. /\ daemons' \in [Daemon -> DaemonState]
            /\ daemons'[d] = [at |-> "up", salt |-> rootSalt]
            /\ \A e \in Daemon \ {d} : daemons'[e] = daemons[e]
        BY <1>a, <3>1, <3>2, DaemonBecomes
      <3>4. FileTypes' BY <1>a, <1>e, <3>1, <3>3
      <3>5. RootInPlace' BY <2>1, <2>2, <3>1, <3>3 DEF FileInv, RootInPlace
      <3>6. QED BY <1>d, <3>4, <3>5 DEF FileInv
    <2>3. CASE rootSalt = 0
      <3>1. /\ daemons' = [daemons EXCEPT ![d] = [at |-> "create", salt |-> drawn + 1]]
            /\ drawn' = drawn + 1 /\ rootSalt' = rootSalt /\ rootSalts' = rootSalts
        BY <1>1, <2>3 DEF DaemonStarts, Draw
      <3>2. drawn + 1 \in RootSalt /\ drawn + 1 \in Nat /\ drawn + 1 # 0 BY <1>a DEF RootSalt
      <3>3. [at |-> "create", salt |-> drawn + 1] \in DaemonState BY <3>2 DEF DaemonState
      <3>4. /\ daemons' \in [Daemon -> DaemonState]
            /\ daemons'[d] = [at |-> "create", salt |-> drawn + 1]
            /\ \A e \in Daemon \ {d} : daemons'[e] = daemons[e]
        BY <1>a, <3>1, <3>3, DaemonBecomes
      <3>5. FileTypes' BY <1>a, <1>e, <3>1, <3>2, <3>4
      <3>6. RootInPlace' BY <2>1, <2>3, <3>1, <3>2, <3>4 DEF FileInv, RootInPlace
      <3>7. QED BY <1>d, <3>5, <3>6 DEF FileInv
    <2>4. QED BY <2>2, <2>3
  <1>2. CASE TruncateSalt(d)
    <2>1. /\ daemons'[d].at = "write" /\ daemons'[d].salt = daemons[d].salt
          /\ daemons' \in [Daemon -> DaemonState]
          /\ \A e \in Daemon \ {d} : daemons'[e] = daemons[e]
      BY <1>2, <1>a, DaemonGoesOn DEF TruncateSalt
    <2>2. FileTypes' BY <1>2, <1>a, <1>e, <2>1 DEF TruncateSalt, RootSalt
    <2>3. RootInPlace' BY <1>2, <2>1 DEF TruncateSalt, FileInv, RootInPlace
    <2>4. QED BY <1>d, <2>2, <2>3 DEF FileInv
  <1>3. CASE WriteSalt(d)
    <2>1. /\ daemons'[d].at = "up" /\ daemons'[d].salt = daemons[d].salt
          /\ daemons' \in [Daemon -> DaemonState]
          /\ \A e \in Daemon \ {d} : daemons'[e] = daemons[e]
      BY <1>3, <1>a, DaemonGoesOn DEF WriteSalt
    <2>2. FileTypes' BY <1>3, <1>a, <1>e, <2>1 DEF WriteSalt, DaemonState
    <2>3. RootInPlace' BY <1>3, <2>1 DEF WriteSalt, FileInv, RootInPlace
    <2>4. QED BY <1>d, <2>2, <2>3 DEF FileInv
  <1>4. CASE DaemonDies(d)
    <2>1. [at |-> "down", salt |-> 0] \in DaemonState BY DEF DaemonState, RootSalt
    <2>2. /\ daemons'[d].at = "down"
          /\ daemons' \in [Daemon -> DaemonState]
          /\ \A e \in Daemon \ {d} : daemons'[e] = daemons[e]
      BY <1>4, <1>a, <2>1, DaemonBecomes DEF DaemonDies
    <2>3. FileTypes' BY <1>4, <1>a, <1>e, <2>2 DEF DaemonDies
    <2>4. RootInPlace' BY <1>4, <2>2 DEF DaemonDies, FileInv, RootInPlace
    <2>5. QED BY <1>d, <2>3, <2>4 DEF FileInv
  <1>5. CASE \E piece \in Pieces : AppendHead(d, piece)
    <2>1. UNCHANGED <<rootSalt, daemons, drawn, overlapped, rootSalts>> BY <1>5 DEF AppendHead
    <2>2. FileTypes' BY <1>a, <1>e, <2>1
    <2>3. RootInPlace' BY <2>1 DEF FileInv, RootInPlace
    <2>4. QED BY <1>d, <2>2, <2>3 DEF FileInv
  <1>6. QED BY <1>1, <1>2, <1>3, <1>4, <1>5 DEF DaemonStep

LEMMA FilesKept == FileInv /\ [DeviceNext]_deviceVars => FileInv'
  <1> SUFFICES ASSUME FileInv, [DeviceNext]_deviceVars PROVE FileInv'
    OBVIOUS
  <1>1. CASE UNCHANGED deviceVars
    <2>1. UNCHANGED <<runFiles, rootFiles, runs, wrapper, drawn, overlapped>>
      BY <1>1 DEF deviceVars, runFiles, rootFiles
    <2>2. InPlace' /\ MetaInPlace' /\ LastRemembered' BY <2>1, RunsUntouched
    <2>3. FileTypes' BY <2>1 DEF runFiles, rootFiles, FileInv, FileTypes
    <2>4. RootInPlace' BY <2>1 DEF rootFiles, FileInv, RootInPlace
    <2>5. QED BY <2>2, <2>3, <2>4 DEF FileInv
  <1>2. QED BY <1>1, RunStepKeeps, WrapKeeps, DaemonStepKeeps DEF DeviceNext

LEMMA FilesInvariant == DeviceSpec => []FileInv
  <1>1. FileInv /\ [DeviceNext]_deviceVars => FileInv' BY FilesKept
  <1>2. QED BY <1>1, FilesStart, PTL DEF DeviceSpec

----------------------------------------------------------------------------

\* Every run holds the key and the salt that are on disk, and ranad redacted
\* with no salt but the one on disk, in the order of LoadOrCreateSalt,
\* loadOrGenerateKey, Wrap and loadOrCreateSalt, however many of them are at
\* work and wherever they are killed.
THEOREM KeysKept == DeviceSpec => []KeysAndSaltsKept
  <1>1. FileInv => KeysAndSaltsKept
    BY DEF FileInv, InPlace, RunInPlace, RootInPlace, KeysAndSaltsKept, OneKeyOneSalt, RootSaltKept
  <1>2. QED BY <1>1, FilesInvariant, PTL

\* The key ensureMeta wrote verifies every checkpoint, and a checkpoint names
\* the one before it while writers follow one another.
THEOREM ChainKept == DeviceSpec => []ChainVerifies
  <1>1. FileInv => ChainVerifies
    BY DEF FileInv, MetaInPlace, LastRemembered, ChainVerifies, MetaVerifiesAll, OneChainAlone
  <1>2. QED BY <1>1, FilesInvariant, PTL

----------------------------------------------------------------------------
(* The mirror of the checkpoints *)

HeadLine == [ckpt : Nat, piece : Pieces]

\* The checkpoints in heads.log, and behind them those on their way to it,
\* rise: each is written at most once, in whatever number of pieces.
HeadsRise ==
    /\ sent \in Seq(Nat) /\ heads \in Seq(HeadLine)
    /\ \A i, j \in DOMAIN sent : i < j => sent[i] < sent[j]
    /\ \A i, j \in DOMAIN heads : i < j => heads[i].ckpt < heads[j].ckpt
    /\ \A i \in DOMAIN heads, j \in DOMAIN sent : heads[i].ckpt < sent[j]
    /\ \A i \in DOMAIN heads : heads[i].ckpt <= Len(ckpts)
    /\ \A j \in DOMAIN sent : sent[j] <= Len(ckpts)

\* The checkpoint of a line is a number.
LEMMA HeadNumbers ==
    ASSUME NEW lines \in Seq(HeadLine)
    PROVE  \A i \in DOMAIN lines : lines[i].ckpt \in Nat
  <1>1. \A i \in DOMAIN lines : lines[i] \in HeadLine OBVIOUS
  <1>2. QED BY <1>1 DEF HeadLine

\* A checkpoint that is signed is reported behind all others.
LEMMA SignRises ==
    ASSUME FileInv, HeadsRise, NEW p \in Run, Sign(p)
    PROVE  HeadsRise'
  <1>1. /\ ckpts \in Seq([by : Nat, prev : Nat]) /\ runs[p] \in RunState
    BY DEF FileInv, FileTypes
  <1>2. [by |-> runs[p].key, prev |-> runs[p].prev] \in [by : Nat, prev : Nat]
    BY <1>1 DEF RunState
  <1>3. Len(ckpts) \in Nat /\ Len(ckpts') = Len(ckpts) + 1
    BY <1>1, <1>2 DEF Sign
  <1>4. heads' = heads /\ (sent' = sent \/ sent' = Append(sent, Len(ckpts) + 1))
    BY DEF Sign
  <1>5. sent \in Seq(Nat) /\ heads \in Seq(HeadLine) /\ Len(sent) \in Nat
    BY DEF HeadsRise
  <1>6. \A i \in DOMAIN heads : heads[i].ckpt \in Nat
    BY <1>5, HeadNumbers
  <1>7. \A i \in DOMAIN sent : sent[i] \in Nat
    BY <1>5
  <1>8. CASE sent' = sent
    BY <1>3, <1>4, <1>5, <1>6, <1>7, <1>8 DEF HeadsRise
  <1>9. CASE sent' = Append(sent, Len(ckpts) + 1)
    <2>1. /\ sent' \in Seq(Nat) /\ DOMAIN sent' = 1 .. Len(sent) + 1
          /\ DOMAIN sent = 1 .. Len(sent)
          /\ sent'[Len(sent) + 1] = Len(ckpts) + 1
          /\ \A i \in 1 .. Len(sent) : sent'[i] = sent[i]
      BY <1>3, <1>5, <1>9
    <2>2. \A j \in DOMAIN sent' : sent'[j] <= Len(ckpts')
      <3>1. \A i \in 1 .. Len(sent) : sent[i] \in Nat /\ sent[i] <= Len(ckpts)
        BY <1>7, <2>1, Zenon DEF HeadsRise
      <3> SUFFICES ASSUME NEW j \in 1 .. Len(sent) + 1 PROVE sent'[j] <= Len(ckpts')
        BY <2>1, Zenon
      <3>2. CASE j \in 1 .. Len(sent)
        BY <1>3, <2>1, <3>1, <3>2
      <3>3. CASE j = Len(sent) + 1
        BY <1>3, <2>1, <3>3
      <3> QED
        BY <1>5, <3>2, <3>3
    <2>3. \A i, j \in DOMAIN sent' : i < j => sent'[i] < sent'[j]
      <3>1. /\ \A i, j \in 1 .. Len(sent) : i < j => sent[i] < sent[j]
            /\ \A i \in 1 .. Len(sent) : sent[i] <= Len(ckpts)
        BY <2>1, Zenon DEF HeadsRise
      <3> SUFFICES ASSUME NEW i \in 1 .. Len(sent) + 1, NEW j \in 1 .. Len(sent) + 1, i < j
                   PROVE  sent'[i] < sent'[j]
        BY <2>1, Zenon
      <3>2. i \in 1 .. Len(sent)
        BY <1>5
      <3>3. CASE j \in 1 .. Len(sent)
        BY <2>1, <3>1, <3>2, <3>3
      <3>4. CASE j = Len(sent) + 1
        <4>1. sent'[i] = sent[i] /\ sent[i] <= Len(ckpts) /\ sent[i] \in Nat
          BY <1>7, <2>1, <3>1, <3>2
        <4>2. QED BY <1>3, <2>1, <3>4, <4>1
      <3> QED
        BY <1>5, <3>3, <3>4
    <2>4. \A i \in DOMAIN heads, j \in DOMAIN sent' : heads[i].ckpt < sent'[j]
      <3>1. /\ \A i \in DOMAIN heads, j \in 1 .. Len(sent) : heads[i].ckpt < sent[j]
            /\ \A i \in DOMAIN heads : heads[i].ckpt <= Len(ckpts)
        BY <2>1, Zenon DEF HeadsRise
      <3> SUFFICES ASSUME NEW i \in DOMAIN heads, NEW j \in 1 .. Len(sent) + 1
                   PROVE  heads[i].ckpt < sent'[j]
        BY <2>1, Zenon
      <3>2. CASE j \in 1 .. Len(sent)
        BY <2>1, <3>1, <3>2
      <3>3. CASE j = Len(sent) + 1
        <4>1. heads[i].ckpt <= Len(ckpts) /\ heads[i].ckpt \in Nat
          BY <1>6, <3>1
        <4>2. QED BY <1>3, <2>1, <3>3, <4>1
      <3> QED
        BY <1>5, <3>2, <3>3
    <2>5. \A i \in DOMAIN heads : heads[i].ckpt <= Len(ckpts')
      BY <1>3, <1>6 DEF HeadsRise
    <2>6. \A i, j \in DOMAIN heads : i < j => heads[i].ckpt < heads[j].ckpt
      BY Zenon DEF HeadsRise
    <2>7. QED BY <1>4, <1>5, <2>1, <2>2, <2>3, <2>4, <2>5, <2>6, Zenon DEF HeadsRise
  <1>10. QED BY <1>4, <1>8, <1>9

\* A write to heads.log takes the first on its way; the rest stays behind it,
\* or is lost.
LEMMA AppendRises ==
    ASSUME HeadsRise, NEW d \in Daemon, NEW piece \in Pieces, AppendHead(d, piece)
    PROVE  HeadsRise'
  <1> DEFINE line == [ckpt |-> Head(sent), piece |-> piece]
  <1>1. /\ sent # <<>> /\ heads' = Append(heads, line) /\ ckpts' = ckpts
        /\ sent' = Tail(sent) \/ sent' = <<>>
    BY DEF AppendHead, runFiles
  <1>2. sent \in Seq(Nat) /\ heads \in Seq(HeadLine) /\ Len(sent) \in Nat /\ Len(heads) \in Nat
    BY DEF HeadsRise
  <1>3. /\ Head(sent) = sent[1] /\ 1 \in DOMAIN sent /\ sent[1] \in Nat
        /\ line \in HeadLine /\ line.ckpt = sent[1]
    BY <1>1, <1>2 DEF HeadLine
  <1>4. \A i \in DOMAIN heads : heads[i].ckpt \in Nat
    BY <1>2, HeadNumbers
  <1> HIDE DEF line
  <1>5. /\ heads' \in Seq(HeadLine) /\ DOMAIN heads' = 1 .. Len(heads) + 1
        /\ DOMAIN heads = 1 .. Len(heads)
        /\ heads'[Len(heads) + 1] = line
        /\ \A i \in 1 .. Len(heads) : heads'[i] = heads[i]
    BY <1>1, <1>2, <1>3
  <1>6. <<>> \in Seq(Nat)
    OBVIOUS
  <1>7. /\ sent' \in Seq(Nat)
        /\ \A j \in DOMAIN sent' : j + 1 \in DOMAIN sent /\ sent'[j] = sent[j + 1] /\ j \in Nat
    <2>1. CASE sent' = Tail(sent) BY <1>1, <1>2, <2>1
    <2>2. CASE sent' = <<>> BY <1>6, <2>2
    <2>3. QED BY <1>1, <2>1, <2>2
  <1>8. DOMAIN sent' \subseteq Nat /\ \A j \in DOMAIN sent' : 1 < j + 1
    <2>1. \A j \in DOMAIN sent' : j \in 1 .. Len(sent') BY <1>7
    <2>2. QED BY <1>7, <2>1
  <1>9. \A i, j \in DOMAIN sent' : i < j => sent'[i] < sent'[j]
    BY <1>7, <1>8 DEF HeadsRise
  <1>10. \A i, j \in DOMAIN heads' : i < j => heads'[i].ckpt < heads'[j].ckpt
    <2>1. ASSUME NEW i \in 1 .. Len(heads), NEW j \in 1 .. Len(heads), i < j
          PROVE  heads'[i].ckpt < heads'[j].ckpt
      BY <1>5, <2>1 DEF HeadsRise
    <2>2. ASSUME NEW i \in 1 .. Len(heads) PROVE heads'[i].ckpt < line.ckpt
      BY <1>3, <1>5, <2>2 DEF HeadsRise
    <2>3. QED BY <1>2, <1>5, <2>1, <2>2
  <1>11. \A i \in DOMAIN heads', j \in DOMAIN sent' : heads'[i].ckpt < sent'[j]
    <2>1. \A j \in DOMAIN sent' : line.ckpt < sent'[j]
      BY <1>3, <1>7, <1>8 DEF HeadsRise
    <2>2. \A i \in 1 .. Len(heads), j \in DOMAIN sent' : heads'[i].ckpt < sent'[j]
      BY <1>2, <1>5, <1>7 DEF HeadsRise
    <2>3. QED BY <1>2, <1>5, <2>1, <2>2
  <1>12. \A i \in DOMAIN heads' : heads'[i].ckpt <= Len(ckpts')
    BY <1>1, <1>2, <1>3, <1>5 DEF HeadsRise
  <1>13. \A j \in DOMAIN sent' : sent'[j] <= Len(ckpts')
    BY <1>1, <1>7 DEF HeadsRise
  <1>14. QED BY <1>5, <1>7, <1>9, <1>10, <1>11, <1>12, <1>13 DEF HeadsRise

\* All other steps leave the files alone, or lose what is on its way.
LEMMA HeadsKept == FileInv /\ HeadsRise /\ [DeviceNext]_deviceVars => HeadsRise'
  <1> SUFFICES ASSUME FileInv, HeadsRise, [DeviceNext]_deviceVars PROVE HeadsRise'
    OBVIOUS
  <1>0. <<>> \in Seq(Nat)
    OBVIOUS
  <1>1. ASSUME UNCHANGED <<heads, ckpts>>, sent' = sent \/ sent' = <<>> PROVE HeadsRise'
    <2>1. CASE sent' = sent BY <1>1, <2>1 DEF HeadsRise
    <2>2. CASE sent' = <<>>
      <3>1. sent' \in Seq(Nat) /\ DOMAIN sent' = {} BY <1>0, <2>2
      <3>2. QED BY <1>1, <3>1 DEF HeadsRise
    <2>3. QED BY <1>1, <2>1, <2>2
  <1>2. ASSUME NEW p \in Run, RunStep(p) PROVE HeadsRise'
    <2>1. CASE Sign(p) BY <2>1, SignRises
    <2>2. CASE ~Sign(p)
      <3>1. UNCHANGED <<heads, ckpts, sent>>
        BY <1>2, <2>2
           DEF RunStep, RunStarts, ReadSalt, LinkSalt, ReadKey, StatKey, LinkKey, ReloadKey,
            OpenLedger, EnsureMeta, RunEnds, runFiles, rootFiles
      <3>2. QED BY <1>1, <3>1
    <2>3. QED BY <2>1, <2>2
  <1>3. CASE WrapRead \/ WrapRename
    BY <1>1, <1>3 DEF WrapRead, WrapRename, runFiles, rootFiles
  <1>4. ASSUME NEW d \in Daemon, DaemonStep(d) PROVE HeadsRise'
    <2>1. CASE \E piece \in Pieces : AppendHead(d, piece) BY <2>1, AppendRises
    <2>2. CASE DaemonStarts(d) \/ TruncateSalt(d) \/ WriteSalt(d) \/ DaemonDies(d)
      BY <1>1, <2>2 DEF DaemonStarts, TruncateSalt, WriteSalt, DaemonDies, runFiles
    <2>3. QED BY <1>4, <2>1, <2>2 DEF DaemonStep
  <1>5. CASE UNCHANGED deviceVars
    BY <1>1, <1>5 DEF deviceVars
  <1>6. QED BY <1>2, <1>3, <1>4, <1>5 DEF DeviceNext

\* No head is returned that was not written to the end.
LEMMA HeadsReadBack == HeadsRise => MirrorReadsBack
  <1> SUFFICES ASSUME HeadsRise PROVE MirrorReadsBack
    OBVIOUS
  <1>1. /\ heads \in Seq(HeadLine) /\ Len(heads) \in Nat /\ DOMAIN heads = 1 .. Len(heads)
        /\ \A i \in DOMAIN heads : heads[i].ckpt \in Nat
    BY HeadNumbers DEF HeadsRise
  <1>2. ASSUME NEW i \in Lines, ~Parses(i), ~LastLine(i)
        PROVE  i \in Torn /\ Len(heads) >= i + 2
    <2>1. PICK j \in Lines : j > i
      BY <1>1, <1>2 DEF LastLine, Lines
    <2>2. i \in 1 .. Len(heads) /\ j \in 1 .. Len(heads) /\ heads[j - 1].piece = "line"
      BY <1>1, <2>1 DEF Lines, Opens
    <2>3. heads[i].piece # "line"
      BY <1>2, <2>1, <2>2 DEF Parses, Closes
    <2>4. j - 1 # i BY <2>2, <2>3
    <2>5. QED BY <1>1, <2>1, <2>2, <2>3, <2>4 DEF Torn
  <1>3. ASSUME NEW i \in DOMAIN heads, \A j \in Torn : i < j PROVE heads[i].ckpt \in ReadHeads
    <2>1. i \in 1 .. Len(heads) /\ heads[i].piece = "line"
      BY <1>1, <1>3 DEF Torn
    <2>2. i # 1 => heads[i - 1].piece = "line"
      BY <1>1, <1>3, <2>1 DEF Torn
    <2>3. i \in Lines /\ Parses(i)
      BY <1>1, <2>1, <2>2 DEF Lines, Opens, Parses, Closes
    <2>4. QED BY <2>3 DEF ReadHeads
  <1>4. ASSUME NEW i \in DOMAIN heads, heads[i].ckpt \in ReadHeads PROVE heads[i].piece # "part"
    <2>1. PICK j \in Lines : Parses(j) /\ heads[j].ckpt = heads[i].ckpt
      BY <1>4 DEF ReadHeads
    <2>2. j \in DOMAIN heads BY <2>1 DEF Lines
    <2>3. ~(i < j) /\ ~(j < i)
      BY <1>1, <2>1, <2>2 DEF HeadsRise
    <2>4. i = j BY <1>1, <2>2, <2>3
    <2>5. QED BY <2>1, <2>4 DEF Parses
  <1>5. CASE Unreadable
    <2>1. PICK i \in Lines : ~Parses(i) /\ ~LastLine(i)
      BY <1>5 DEF Unreadable
    <2>2. QED BY <1>2, <1>5, <2>1 DEF MirrorReadsBack
  <1>6. CASE ~Unreadable
    BY <1>3, <1>4, <1>6 DEF MirrorReadsBack
  <1>7. QED BY <1>5, <1>6

\* ReadHeads returns what AppendHead wrote to the end, all of it before the
\* first torn write, and refuses heads.log only for a torn write with two
\* behind it, however often ranads died or their disk was full, and with
\* several of them at work on the file.
THEOREM MirrorHolds == DeviceSpec => []MirrorReadsBack
  <1>0. <<>> \in Seq(Nat) /\ <<>> \in Seq(HeadLine)
    OBVIOUS
  <1>1. DeviceInit => HeadsRise
    BY <1>0 DEF DeviceInit, HeadsRise
  <1>2. FileInv /\ HeadsRise /\ [DeviceNext]_deviceVars => HeadsRise' BY HeadsKept
  <1>3. QED BY <1>1, <1>2, FilesInvariant, HeadsReadBack, PTL DEF DeviceSpec

=============================================================================
