-------------------------- MODULE EnrichmentProofs --------------------------
(***************************************************************************)
(* Proofs about the way from record to event, for any number of sessions,  *)
(* Pumps, addresses and names, and runs of any length.                     *)
(*                                                                         *)
(* Three accounts are kept: the cache has the answer observed last or was  *)
(* swept for a time at which it was dead (CacheOK); while a session is     *)
(* bound its next index is above every record's since it was bound         *)
(* (IdxOK); and a segment tracker knows the last number it gave out since  *)
(* it was new, how often, and since when (TrackersOK).                     *)
(***************************************************************************)
EXTENDS Enrichment, FiniteSetTheorems, TLAPS

----------------------------------------------------------------------------
(* Types *)

Number == [seg : Nat, at : Nat]
Tracker == [seg : Nat, count : Nat, first : Nat]
Answer == [qname : Qname, at : Nat, ttl : Nat]
Use == [idx : Nat, kind : {"record", "gap"}]

\* The types the argument needs.
EnrichTypes ==
    /\ time \in Nat /\ sweep \in Nat
    /\ bound \subseteq Cgid /\ nextIdx \in [Cgid -> Nat]
    /\ cache \in [Addr -> {Nothing} \cup Answer] /\ latest \in [Addr -> {Nothing} \cup Answer]
    /\ segs \in [Pump -> [Cgid -> Tracker]] /\ given \in [Pump -> [Cgid -> Seq(Number)]]
    /\ idxs \in [Cgid -> SUBSET Use] /\ DOMAIN job = Pump

\* The record a Pump is at, and whom it is charged to: by the rule that was
\* applied when it was taken, until it is applied again.
JobOK(j) ==
    /\ j.at \in {"idle", "enrich", "connect", "dns", "shed"}
    /\ j.at \in {"enrich", "connect", "dns"} => j.rec \in Records
    /\ j.at = "enrich" =>
          /\ j.knew \in BOOLEAN
          /\ j.charged = IF j.rec.kind # "migration" \/ j.knew THEN j.rec.cg ELSE j.rec.to
    /\ j.at \in {"connect", "dns"} =>
          /\ j.rec.kind = j.at /\ j.now \in Nat
          /\ j.ev.kind = j.at /\ j.ev.session = j.ev.charged

JobsOK == \A p \in Pump : JobOK(job[p])

\* What the fields of a record are.
LEMMA RecordFields ==
    ASSUME NEW r \in Records
    PROVE  /\ r.kind \in {"plain", "connect", "dns", "migration"} /\ r.cg \in Cgid
           /\ r.kind = "migration" => r.to \in Cgid
           /\ r.kind \in {"connect", "dns"} => r.addr \in Addr
           /\ r.kind = "dns" => r.qname \in Qname /\ r.ttl \in Nat
  <1>1. CASE r \in [kind : {"plain"}, cg : Cgid] BY <1>1
  <1>2. CASE r \in [kind : {"connect"}, cg : Cgid, addr : Addr] BY <1>2
  <1>3. CASE r \in [kind : {"dns"}, cg : Cgid, addr : Addr, qname : Qname, ttl : TTL]
    BY <1>3, EnrichAssumption
  <1>4. CASE r \in {[kind |-> "migration", cg |-> s, to |-> t] : s \in Cgid, t \in Cgid}
    BY <1>4
  <1>5. QED BY <1>1, <1>2, <1>3, <1>4 DEF Records

\* A tracker goes on.
LEMMA AfterTypes ==
    ASSUME EnrichTypes, NEW p \in Pump, NEW s \in Cgid
    PROVE  AfterCurrent(segs[p][s]) \in Tracker
  <1> DEFINE after == AfterCurrent(segs[p][s])
  <1>1. segs[p][s] \in Tracker /\ time \in Nat
    BY DEF EnrichTypes
  <1>2. CASE Advances(segs[p][s])
    BY <1>1, <1>2 DEF AfterCurrent, Tracker
  <1>3. CASE ~Advances(segs[p][s])
    <2>1. after = [segs[p][s] EXCEPT
                     !.count = segs[p][s].count + 1,
                     !.first = IF segs[p][s].count = 0 THEN time ELSE segs[p][s].first]
      BY <1>3 DEF AfterCurrent
    <2>2. segs[p][s].count + 1 \in Nat
          /\ (IF segs[p][s].count = 0 THEN time ELSE segs[p][s].first) \in Nat
      BY <1>1 DEF Tracker
    <2> HIDE DEF after
    <2>3. after \in Tracker BY <1>1, <2>1, <2>2, Zenon DEF Tracker
    <2>4. QED BY <2>3 DEF after
  <1>4. QED BY <1>2, <1>3

\* Its number is given out.
LEMMA CurrentTypes ==
    ASSUME EnrichTypes, NEW p \in Pump, NEW s \in Cgid, Current(p, s)
    PROVE  /\ AfterCurrent(segs[p][s]) \in Tracker
           /\ segs' = [segs EXCEPT ![p][s] = AfterCurrent(segs[p][s])]
           /\ given' = [given EXCEPT ![p][s] =
                          Append(given[p][s], [seg |-> AfterCurrent(segs[p][s]).seg, at |-> time])]
           /\ segs' \in [Pump -> [Cgid -> Tracker]] /\ given' \in [Pump -> [Cgid -> Seq(Number)]]
           /\ segs'[p][s] = AfterCurrent(segs[p][s])
  <1> DEFINE after == AfterCurrent(segs[p][s])
             number == [seg |-> after.seg, at |-> time]
  <1>1. time \in Nat /\ given[p][s] \in Seq(Number)
    BY DEF EnrichTypes
  <1>2. after \in Tracker
    BY AfterTypes
  <1>3. segs' = [segs EXCEPT ![p][s] = after]
    BY DEF Current
  <1>4. given' = [given EXCEPT ![p][s] =
                    Append(given[p][s], [seg |-> segs'[p][s].seg, at |-> time])]
    BY DEF Current
  <1>5. number \in Number
    BY <1>1, <1>2 DEF Tracker, Number
  <1> HIDE DEF after
  <1>6. segs' \in [Pump -> [Cgid -> Tracker]] /\ segs'[p][s] = after
    BY <1>2, <1>3 DEF EnrichTypes
  <1>7. given' = [given EXCEPT ![p][s] = Append(given[p][s], number)]
    BY <1>4, <1>6
  <1>8. Append(given[p][s], number) \in Seq(Number)
    BY <1>1, <1>5
  <1>9. given' \in [Pump -> [Cgid -> Seq(Number)]]
    BY <1>7, <1>8 DEF EnrichTypes
  <1>10. QED BY <1>2, <1>3, <1>6, <1>7, <1>9 DEF after

\* An index is noted.
LEMMA NumberedTypes ==
    ASSUME EnrichTypes, NEW s \in Cgid, NEW idx \in Nat, NEW kind \in {"record", "gap"},
           Numbered(s, idx, kind)
    PROVE  idxs' \in [Cgid -> SUBSET Use]
  <1>1. [idx |-> idx, kind |-> kind] \in Use BY DEF Use
  <1>2. idxs' = [idxs EXCEPT ![s] = @ \cup {[idx |-> idx, kind |-> kind]}] BY DEF Numbered
  <1>3. QED BY <1>1, <1>2 DEF EnrichTypes

\* Types at the start,
LEMMA EnrichStarts == EnrichInit => EnrichTypes /\ JobsOK
  <1> SUFFICES ASSUME EnrichInit PROVE EnrichTypes /\ JobsOK
    OBVIOUS
  <1>1. NoSeg \in Tracker BY DEF NoSeg, Tracker
  <1>2. <<>> \in Seq(Number) OBVIOUS
  <1>3. segs \in [Pump -> [Cgid -> Tracker]] /\ given \in [Pump -> [Cgid -> Seq(Number)]]
    BY <1>1, <1>2 DEF EnrichInit
  <1>4. EnrichTypes BY <1>3 DEF EnrichInit, EnrichTypes
  <1>5. JobsOK BY DEF EnrichInit, JobsOK, JobOK, Idle
  <1>6. QED BY <1>4, <1>5

\* and after every step.
LEMMA EnrichTypesKept == EnrichTypes /\ JobsOK /\ [EnrichNext]_enrichVars => EnrichTypes'
  <1> SUFFICES ASSUME EnrichTypes, JobsOK, [EnrichNext]_enrichVars PROVE EnrichTypes'
    OBVIOUS
  <1>1. ASSUME NEW p \in Pump, NEW r \in Records, TakeRecord(p, r) PROVE EnrichTypes'
    <2>1. r.cg \in Cgid /\ (r.kind = "migration" => r.to \in Cgid) BY RecordFields
    <2>2. ChargedTo(r) \in Cgid BY <2>1 DEF ChargedTo
    <2>3. Current(p, ChargedTo(r)) BY <1>1 DEF TakeRecord
    <2>4. segs' \in [Pump -> [Cgid -> Tracker]] /\ given' \in [Pump -> [Cgid -> Seq(Number)]]
      BY <2>2, <2>3, CurrentTypes
    <2>5. /\ UNCHANGED <<time, bound, nextIdx, cache, sweep, latest, idxs>>
          /\ DOMAIN job' = DOMAIN job
      BY <1>1 DEF TakeRecord
    <2>6. QED BY <2>4, <2>5 DEF EnrichTypes
  <1>2. ASSUME NEW p \in Pump, EnrichRecord(p) PROVE EnrichTypes'
    <2> DEFINE s == Attributed(job[p].rec)
    <2>1. job[p].rec \in Records
      BY <1>2 DEF JobsOK, JobOK, EnrichRecord
    <2>2. s \in Cgid
      BY <2>1, RecordFields DEF Attributed
    <2>3. UNCHANGED <<time, bound, cache, sweep, segs, given, latest>>
      BY <1>2 DEF EnrichRecord
    <2>4. DOMAIN job' = DOMAIN job
      BY <1>2 DEF EnrichRecord, Built
    <2>5. \/ UNCHANGED <<nextIdx, idxs>>
          \/ nextIdx' = AfterIdx(s) /\ Numbered(s, nextIdx[s], "record")
      BY <1>2 DEF EnrichRecord
    <2> HIDE DEF s
    <2>6. nextIdx' \in [Cgid -> Nat]
      <3>1. CASE UNCHANGED nextIdx BY <3>1 DEF EnrichTypes
      <3>2. CASE nextIdx' = AfterIdx(s) BY <2>2, <3>2 DEF EnrichTypes, AfterIdx
      <3>3. QED BY <2>5, <3>1, <3>2
    <2>7. idxs' \in [Cgid -> SUBSET Use]
      <3>1. CASE UNCHANGED idxs BY <3>1 DEF EnrichTypes
      <3>2. CASE Numbered(s, nextIdx[s], "record")
        BY <2>2, <3>2, NumberedTypes DEF EnrichTypes
      <3>3. QED BY <2>5, <3>1, <3>2
    <2>8. QED BY <2>3, <2>4, <2>6, <2>7 DEF EnrichTypes
  <1>3. ASSUME NEW p \in Pump, JoinQname(p) \/ ShedEvent(p) PROVE EnrichTypes'
    <2>1. DOMAIN job' = DOMAIN job
      BY <1>3 DEF JoinQname, ShedEvent, Built
    <2>2. QED BY <1>3, <2>1 DEF JoinQname, ShedEvent, EnrichTypes
  <1>4. ASSUME NEW p \in Pump, ObserveAnswer(p) PROVE EnrichTypes'
    <2> DEFINE r == job[p].rec
               o == [qname |-> r.qname, at |-> job[p].now, ttl |-> r.ttl]
    <2>1. job[p].rec \in Records /\ job[p].rec.kind = "dns" /\ job[p].now \in Nat
      BY <1>4 DEF JobsOK, JobOK, ObserveAnswer
    <2>2. o \in Answer
      BY <2>1, RecordFields DEF Answer
    <2>3. cache' = [cache EXCEPT ![r.addr] = o] /\ latest' = [latest EXCEPT ![r.addr] = o]
      BY <1>4 DEF ObserveAnswer
    <2> HIDE DEF o
    <2>4. cache' \in [Addr -> {Nothing} \cup Answer] /\ latest' \in [Addr -> {Nothing} \cup Answer]
      BY <2>2, <2>3 DEF EnrichTypes
    <2>5. UNCHANGED <<time, bound, nextIdx, sweep, segs, given, idxs>> /\ DOMAIN job' = DOMAIN job
      BY <1>4 DEF ObserveAnswer, Built
    <2>6. QED BY <2>4, <2>5 DEF EnrichTypes
  <1>5. ASSUME NEW p \in Pump, NEW s \in Cgid, FlushGap(p, s) PROVE EnrichTypes'
    <2>1. Current(p, s) /\ Numbered(s, segs'[p][s].seg, "gap")
      BY <1>5 DEF FlushGap
    <2>2. /\ segs' \in [Pump -> [Cgid -> Tracker]] /\ given' \in [Pump -> [Cgid -> Seq(Number)]]
      BY <2>1, CurrentTypes
    <2>3. segs'[p][s].seg \in Nat
      BY <2>2 DEF Tracker
    <2>4. idxs' \in [Cgid -> SUBSET Use]
      BY <2>1, <2>3, NumberedTypes
    <2>5. UNCHANGED <<time, bound, nextIdx, cache, sweep, job, latest>>
      BY <1>5 DEF FlushGap
    <2>6. QED BY <2>2, <2>4, <2>5 DEF EnrichTypes
  <1>6. ASSUME NEW p \in Pump, NEW s \in Cgid, SessionEnds(p, s) PROVE EnrichTypes'
    <2>1. /\ bound' = bound \ {s} /\ nextIdx' = [nextIdx EXCEPT ![s] = 0]
          /\ segs' = [segs EXCEPT ![p][s] = NoSeg] /\ given' = [given EXCEPT ![p][s] = <<>>]
          /\ UNCHANGED <<time, cache, sweep, job, latest>>
          /\ FinalGap(p, s) \/ UNCHANGED idxs
      BY <1>6 DEF SessionEnds
    <2>2. NoSeg \in Tracker /\ <<>> \in Seq(Number) BY DEF NoSeg, Tracker
    <2>3. segs' \in [Pump -> [Cgid -> Tracker]] /\ given' \in [Pump -> [Cgid -> Seq(Number)]]
      BY <2>1, <2>2 DEF EnrichTypes
    <2>4. bound' \subseteq Cgid /\ nextIdx' \in [Cgid -> Nat]
      BY <2>1 DEF EnrichTypes
    <2>5. idxs' \in [Cgid -> SUBSET Use]
      <3>1. CASE UNCHANGED idxs BY <3>1 DEF EnrichTypes
      <3>2. CASE FinalGap(p, s)
        <4>1. AfterCurrent(segs[p][s]).seg \in Nat BY AfterTypes DEF Tracker
        <4>2. Numbered(s, AfterCurrent(segs[p][s]).seg, "gap") BY <3>2 DEF FinalGap
        <4>3. QED BY <4>1, <4>2, NumberedTypes
      <3>3. QED BY <2>1, <3>1, <3>2
    <2>6. QED BY <2>1, <2>3, <2>4, <2>5 DEF EnrichTypes
  <1>7. ASSUME NEW s \in Cgid, Bind(s) PROVE EnrichTypes'
    <2>1. /\ bound' = bound \cup {s}
          /\ idxs' = idxs \/ idxs' = [idxs EXCEPT ![s] = {}]
          /\ UNCHANGED <<time, nextIdx, cache, sweep, segs, job, given, latest>>
      BY <1>7 DEF Bind
    <2>2. bound' \subseteq Cgid /\ idxs' \in [Cgid -> SUBSET Use] BY <2>1 DEF EnrichTypes
    <2>3. QED BY <2>1, <2>2 DEF EnrichTypes
  <1>8. CASE ReadSweepTime BY <1>8 DEF ReadSweepTime, EnrichTypes
  <1>9. CASE SweepCache
    <2>1. /\ sweep' = 0 /\ UNCHANGED <<time, bound, nextIdx, segs, job, given, latest, idxs>>
          /\ cache' = [a \in Addr |-> IF Expired(cache[a]) THEN Nothing ELSE cache[a]]
      BY <1>9 DEF SweepCache
    <2>2. cache' \in [Addr -> {Nothing} \cup Answer] BY <2>1 DEF EnrichTypes
    <2>3. QED BY <2>1, <2>2 DEF EnrichTypes
  <1>10. CASE Passes BY <1>10 DEF Passes, EnrichTypes
  <1>11. CASE UNCHANGED enrichVars BY <1>11 DEF enrichVars, EnrichTypes
  <1>12. CASE RanadDies
    <2>1. NoSeg \in Tracker /\ <<>> \in Seq(Number) BY DEF NoSeg, Tracker
    <2>2. segs' \in [Pump -> [Cgid -> Tracker]] /\ given' \in [Pump -> [Cgid -> Seq(Number)]]
      BY <1>12, <2>1 DEF RanadDies
    <2>3. /\ bound' \subseteq Cgid /\ nextIdx' \in [Cgid -> Nat] /\ sweep' \in Nat
          /\ cache' \in [Addr -> {Nothing} \cup Answer]
          /\ latest' \in [Addr -> {Nothing} \cup Answer] /\ DOMAIN job' = Pump
      BY <1>12 DEF RanadDies
    <2>4. UNCHANGED <<time, idxs>> BY <1>12 DEF RanadDies
    <2>5. QED BY <2>2, <2>3, <2>4 DEF EnrichTypes
  <1>13. QED
    BY <1>1, <1>2, <1>3, <1>4, <1>5, <1>6, <1>7, <1>8, <1>9, <1>10, <1>11, <1>12 DEF EnrichNext

----------------------------------------------------------------------------
(* Jobs, and the event *)

\* A Pump's job is what its own step makes of it.
LEMMA JobMoves ==
    ASSUME DOMAIN job = Pump, JobsOK, NEW p \in Pump, NEW j, JobOK(j),
           job' = [job EXCEPT ![p] = j]
    PROVE  JobsOK'
  <1>1. \A q \in Pump : job'[q] = IF q = p THEN j ELSE job[q] OBVIOUS
  <1>2. \A q \in Pump : JobOK(job'[q]) BY <1>1 DEF JobsOK
  <1>3. QED BY <1>2 DEF JobsOK, JobOK

\* A record whose event is built is let pass, or about to be shed.
LEMMA BuiltJob ==
    ASSUME DOMAIN job = Pump, JobsOK, NEW p \in Pump, NEW e, Built(p, e)
    PROVE  JobsOK'
  <1>1. PICK j \in {Idle, [at |-> "shed", charged |-> e.charged]} : job' = [job EXCEPT ![p] = j]
    BY DEF Built
  <1>2. JobOK(Idle) BY DEF JobOK, Idle
  <1>3. JobOK([at |-> "shed", charged |-> e.charged]) BY DEF JobOK
  <1>4. JobOK(j) BY <1>2, <1>3
  <1>5. QED BY <1>1, <1>4, JobMoves

\* The events built outside EnrichRecord carry one session.
LEMMA EnrichedOnce ==
    ASSUME EnrichTypes, JobsOK, NEW p \in Pump, EnrichRecord(p)
    PROVE  JobsOK' /\ (event' = NoEvent \/ event'.charged = event'.session
                         \/ (event'.kind = "migration" /\ event'.moved))
  <1> DEFINE r == job[p].rec
             s == Attributed(r)
             e == [kind |-> r.kind, session |-> s, charged |-> job[p].charged, seg |-> job[p].seg,
                   moved |-> job[p].knew # Bound(r.cg)]
  <1>1. /\ job[p].at = "enrich" /\ r \in Records /\ time \in Nat /\ DOMAIN job = Pump
        /\ job[p].knew \in BOOLEAN
        /\ job[p].charged = IF r.kind # "migration" \/ job[p].knew THEN r.cg ELSE r.to
    BY DEF EnrichRecord, JobsOK, JobOK, EnrichTypes
  <1>2. \/ job' = [job EXCEPT ![p] = Idle] /\ event' = NoEvent
        \/ Built(p, e) /\ event' = e
        \/ /\ r.kind \in {"connect", "dns"} /\ event' = NoEvent
           /\ job' = [job EXCEPT ![p] = [at |-> r.kind, rec |-> r, now |-> time, ev |-> e]]
    BY DEF EnrichRecord
  <1>3. /\ e.kind = r.kind /\ e.session = s /\ e.charged = job[p].charged
        /\ e.moved = (job[p].knew # Bound(r.cg))
    OBVIOUS
  <1>4. r.kind # "migration" => e.charged = e.session
    BY <1>1, <1>3 DEF Attributed
  <1>5. r.kind = "migration" /\ ~e.moved => e.charged = e.session
    BY <1>1, <1>3 DEF Attributed
  <1>6. e.moved \in BOOLEAN
    BY <1>3
  <1> HIDE DEF e, s
  <1>7. JobOK(Idle)
    BY DEF JobOK, Idle
  <1>8. r.kind \in {"connect", "dns"} => JobOK([at |-> r.kind, rec |-> r, now |-> time, ev |-> e])
    BY <1>1, <1>3, <1>4 DEF JobOK
  <1>9. JobsOK'
    BY <1>1, <1>2, <1>7, <1>8, JobMoves, BuiltJob
  <1>10. event' = NoEvent \/ event' = e
    BY <1>2
  <1>11. QED BY <1>3, <1>4, <1>5, <1>6, <1>9, <1>10

\* Jobs start and go on as they should.
LEMMA JobsKept == EnrichTypes /\ JobsOK /\ [EnrichNext]_enrichVars => JobsOK'
  <1> SUFFICES ASSUME EnrichTypes, JobsOK, [EnrichNext]_enrichVars PROVE JobsOK'
    OBVIOUS
  <1>0. DOMAIN job = Pump /\ JobOK(Idle) BY DEF EnrichTypes, JobOK, Idle
  <1>1. ASSUME NEW p \in Pump, NEW r \in Records, TakeRecord(p, r) PROVE JobsOK'
    <2> DEFINE j == [at |-> "enrich", rec |-> r, charged |-> ChargedTo(r),
                     seg |-> segs'[p][ChargedTo(r)].seg, knew |-> Bound(r.cg)]
    <2>1. job' = [job EXCEPT ![p] = j] BY <1>1 DEF TakeRecord
    <2>2. /\ j.at = "enrich" /\ j.rec = r /\ j.charged = ChargedTo(r) /\ j.knew = Bound(r.cg)
      OBVIOUS
    <2>3. j.knew \in BOOLEAN BY <2>2 DEF Bound
    <2> HIDE DEF j
    <2>4. JobOK(j) BY <2>2, <2>3 DEF JobOK, ChargedTo
    <2> QED BY <1>0, <2>1, <2>4, JobMoves
  <1>2. ASSUME NEW p \in Pump, EnrichRecord(p) PROVE JobsOK'
    BY <1>2, EnrichedOnce
  <1>3. ASSUME NEW p \in Pump, JoinQname(p) \/ ObserveAnswer(p) \/ ShedEvent(p) PROVE JobsOK'
    <2>1. Built(p, job[p].ev) \/ job' = [job EXCEPT ![p] = Idle]
      BY <1>3 DEF JoinQname, ObserveAnswer, ShedEvent
    <2>2. QED BY <1>0, <2>1, JobMoves, BuiltJob
  <1>4. ASSUME UNCHANGED job PROVE JobsOK'
    BY <1>4 DEF JobsOK, JobOK
  <1>5. ASSUME NEW p \in Pump, NEW s \in Cgid, FlushGap(p, s) \/ SessionEnds(p, s) PROVE JobsOK'
    BY <1>4, <1>5 DEF FlushGap, SessionEnds
  <1>6. ASSUME NEW s \in Cgid, Bind(s) PROVE JobsOK'
    BY <1>4, <1>6 DEF Bind
  <1>7. CASE ReadSweepTime \/ SweepCache \/ Passes \/ UNCHANGED enrichVars
    BY <1>4, <1>7 DEF ReadSweepTime, SweepCache, Passes, enrichVars
  <1>8. CASE RanadDies
    <2>1. job' = [p \in Pump |-> Idle] BY <1>8 DEF RanadDies
    <2>2. QED BY <1>0, <2>1 DEF JobsOK, JobOK
  <1>9. QED BY <1>1, <1>2, <1>3, <1>5, <1>6, <1>7, <1>8 DEF EnrichNext

\* Every step charges the event it builds to its session.
LEMMA ChargedKept ==
    EnrichTypes /\ JobsOK /\ ChargedToItsSession /\ [EnrichNext]_enrichVars => ChargedToItsSession'
  <1> SUFFICES ASSUME EnrichTypes, JobsOK, ChargedToItsSession, [EnrichNext]_enrichVars
               PROVE  ChargedToItsSession'
    OBVIOUS
  <1>1. ASSUME event' = NoEvent \/ event'.charged = event'.session
                 \/ (event'.kind = "migration" /\ event'.moved)
        PROVE  ChargedToItsSession'
    BY <1>1 DEF ChargedToItsSession, NoEvent
  <1>2. ASSUME NEW p \in Pump, EnrichRecord(p) PROVE ChargedToItsSession'
    BY <1>1, <1>2, EnrichedOnce
  <1>3. ASSUME NEW p \in Pump, JoinQname(p) \/ ObserveAnswer(p) PROVE ChargedToItsSession'
    <2>1. job[p].ev.session = job[p].ev.charged
      BY <1>3 DEF JoinQname, ObserveAnswer, JobsOK, JobOK
    <2>2. event'.charged = event'.session
      BY <1>3, <2>1 DEF JoinQname, ObserveAnswer
    <2>3. QED BY <1>1, <2>2
  <1>4. ASSUME NEW p \in Pump, NEW s \in Cgid, FlushGap(p, s) \/ SessionEnds(p, s)
        PROVE  ChargedToItsSession'
    <2>1. event' = NoEvent \/ event'.charged = event'.session
      BY <1>4 DEF FlushGap, SessionEnds, FinalGap, GapEvent
    <2>2. QED BY <1>1, <2>1
  <1>5. CASE \/ \E p \in Pump, r \in Records : TakeRecord(p, r)
             \/ \E p \in Pump : ShedEvent(p)
             \/ \E s \in Cgid : Bind(s)
             \/ ReadSweepTime \/ SweepCache \/ RanadDies \/ Passes
    BY <1>1, <1>5 DEF TakeRecord, ShedEvent, Bind, ReadSweepTime, SweepCache, RanadDies, Passes
  <1>6. CASE UNCHANGED enrichVars
    BY <1>6 DEF enrichVars, ChargedToItsSession
  <1>7. QED BY <1>2, <1>3, <1>4, <1>5, <1>6 DEF EnrichNext

----------------------------------------------------------------------------
(* The cache *)

\* The cache has the answer observed last, or that was swept for a time at
\* which it was dead.
CacheOK ==
    \A a \in Addr :
        \/ cache[a] = latest[a]
        \/ /\ cache[a] = Nothing /\ latest[a] # Nothing
           /\ \E w \in swept : w > latest[a].at + latest[a].ttl

\* An answer is remembered in both, and a sweep removes what is dead.
LEMMA CacheKept == EnrichTypes /\ JobsOK /\ CacheOK /\ [EnrichNext]_enrichVars => CacheOK'
  <1> SUFFICES ASSUME EnrichTypes, JobsOK, CacheOK, [EnrichNext]_enrichVars PROVE CacheOK'
    OBVIOUS
  <1>1. ASSUME UNCHANGED <<cache, latest, swept>> PROVE CacheOK'
    BY <1>1 DEF CacheOK
  <1>2. ASSUME NEW p \in Pump, ObserveAnswer(p) PROVE CacheOK'
    <2> DEFINE r == job[p].rec
               o == [qname |-> r.qname, at |-> job[p].now, ttl |-> r.ttl]
    <2>1. /\ cache' = [cache EXCEPT ![r.addr] = o] /\ latest' = [latest EXCEPT ![r.addr] = o]
          /\ swept' = swept
      BY <1>2 DEF ObserveAnswer
    <2> HIDE DEF o, r
    <2>2. \A a \in Addr : \/ cache'[a] = latest'[a]
                          \/ cache'[a] = cache[a] /\ latest'[a] = latest[a]
      BY <2>1 DEF EnrichTypes
    <2>3. QED BY <2>1, <2>2 DEF CacheOK
  <1>3. CASE SweepCache
    <2>1. /\ swept' = swept \cup {sweep} /\ latest' = latest
          /\ \A a \in Addr : cache'[a] = IF Expired(cache[a]) THEN Nothing ELSE cache[a]
      BY <1>3 DEF SweepCache
    <2>2. ASSUME NEW a \in Addr
          PROVE  \/ cache'[a] = latest'[a]
                 \/ /\ cache'[a] = Nothing /\ latest'[a] # Nothing
                    /\ \E w \in swept' : w > latest'[a].at + latest'[a].ttl
      <3>1. CASE Expired(cache[a])
        <4>1. cache[a] # Nothing /\ sweep > cache[a].at + cache[a].ttl BY <3>1 DEF Expired
        <4>2. cache[a] = latest[a] BY <4>1 DEF CacheOK
        <4>3. QED BY <2>1, <3>1, <4>1, <4>2
      <3>2. CASE ~Expired(cache[a])
        BY <2>1, <3>2 DEF CacheOK
      <3>3. QED BY <3>1, <3>2
    <2>3. QED BY <2>2 DEF CacheOK
  <1>4. ASSUME NEW p \in Pump,
               \/ \E r \in Records : TakeRecord(p, r)
               \/ EnrichRecord(p) \/ JoinQname(p) \/ ShedEvent(p)
               \/ \E s \in Cgid : FlushGap(p, s) \/ SessionEnds(p, s)
        PROVE  CacheOK'
    <2>1. UNCHANGED <<cache, latest, swept>>
      BY <1>4 DEF TakeRecord, EnrichRecord, JoinQname, ShedEvent, FlushGap, SessionEnds
    <2>2. QED BY <1>1, <2>1
  <1>5. CASE (\E s \in Cgid : Bind(s)) \/ ReadSweepTime \/ Passes \/ UNCHANGED enrichVars
    <2>1. UNCHANGED <<cache, latest, swept>>
      BY <1>5 DEF Bind, ReadSweepTime, Passes, enrichVars
    <2>2. QED BY <1>1, <2>1
  <1>6. CASE RanadDies BY <1>6 DEF RanadDies, CacheOK
  <1>7. QED BY <1>2, <1>3, <1>4, <1>5, <1>6 DEF EnrichNext

\* A connect is given the name it should have.
LEMMA JoinKept ==
    EnrichTypes /\ JobsOK /\ CacheOK /\ JoinHonest /\ [EnrichNext]_enrichVars => JoinHonest'
  <1> SUFFICES ASSUME EnrichTypes, JobsOK, CacheOK, JoinHonest, [EnrichNext]_enrichVars
               PROVE  JoinHonest'
    OBVIOUS
  <1>1. ASSUME event'.kind # "connect" PROVE JoinHonest'
    BY <1>1 DEF JoinHonest
  <1>2. ASSUME NEW p \in Pump, JoinQname(p) PROVE JoinHonest'
    <2> DEFINE a == job[p].rec.addr
               now == job[p].now
               o == latest[a]
               good == o # Nothing /\ now - o.at <= JoinWindow /\ now - o.at <= o.ttl
    <2>1. job[p].rec \in Records /\ job[p].rec.kind = "connect" /\ now \in Nat
      BY <1>2 DEF JoinQname, JobsOK, JobOK
    <2>2. a \in Addr BY <2>1, RecordFields
    <2>3. /\ event'.now = now /\ event'.latest = o /\ swept' = swept
          /\ event'.qname = IF Serves(cache[a], now) THEN cache[a].qname ELSE Nothing
      BY <1>2 DEF JoinQname
    <2>4. o # Nothing => o.at \in Nat /\ o.ttl \in Nat
      BY <2>2 DEF EnrichTypes, Answer
    <2>5. Serves(o, now) <=> good
      BY <2>1, <2>4, EnrichAssumption DEF Serves
    <2>6. CASE cache[a] = o
      <3>1. event'.qname = IF good THEN o.qname ELSE Nothing
        BY <2>3, <2>5, <2>6
      <3>2. QED BY <2>3, <3>1 DEF JoinHonest
    <2>7. CASE /\ cache[a] = Nothing /\ o # Nothing
               /\ \E w \in swept : w > o.at + o.ttl
      <3>1. event'.qname = Nothing
        BY <2>3, <2>7 DEF Serves
      <3>2. QED BY <2>3, <2>7, <3>1 DEF JoinHonest
    <2>8. QED BY <2>2, <2>6, <2>7 DEF CacheOK
  <1>3. ASSUME NEW p \in Pump, EnrichRecord(p) PROVE JoinHonest'
    <2>1. event' = NoEvent \/ event'.kind \notin {"connect", "dns"}
      BY <1>3 DEF EnrichRecord
    <2>2. QED BY <1>1, <2>1 DEF NoEvent
  <1>4. ASSUME NEW p \in Pump, ObserveAnswer(p) PROVE JoinHonest'
    <2>1. event'.kind = "dns"
      BY <1>4 DEF ObserveAnswer, JobsOK, JobOK
    <2>2. QED BY <1>1, <2>1
  <1>5. ASSUME NEW p \in Pump, NEW s \in Cgid, FlushGap(p, s) \/ SessionEnds(p, s)
        PROVE  JoinHonest'
    BY <1>1, <1>5 DEF FlushGap, SessionEnds, FinalGap, GapEvent, NoEvent
  <1>6. CASE \/ \E p \in Pump, r \in Records : TakeRecord(p, r)
             \/ \E p \in Pump : ShedEvent(p)
             \/ \E s \in Cgid : Bind(s)
             \/ ReadSweepTime \/ SweepCache \/ RanadDies \/ Passes
    BY <1>1, <1>6
       DEF TakeRecord, ShedEvent, Bind, ReadSweepTime, SweepCache, RanadDies, Passes, NoEvent
  <1>7. CASE UNCHANGED enrichVars
    BY <1>7 DEF enrichVars, JoinHonest
  <1>8. QED BY <1>2, <1>3, <1>4, <1>5, <1>6, <1>7 DEF EnrichNext

----------------------------------------------------------------------------
(* Indices *)

\* While a session is bound, no record's index since then is the next one.
IdxOK ==
    /\ \A s \in Cgid : Bound(s) =>
          \A u \in idxs[s] : u.kind = "record" => u.idx < nextIdx[s]
    /\ OnlyGapsRepeat

\* A gap is in every repeat it brings.
LEMMA GapNumbered ==
    ASSUME EnrichTypes, IdxOK, NEW s \in Cgid, NEW idx, Numbered(s, idx, "gap")
    PROVE  /\ OnlyGapsRepeat'
           /\ \A t \in Cgid : \A u \in idxs'[t] : u \in idxs[t] \/ u.kind = "gap"
  <1> DEFINE new == [idx |-> idx, kind |-> "gap"]
             sharers == {"gap"} \cup {u.kind : u \in {v \in idxs[s] : v.idx = idx}}
  <1>1. idxs' = [idxs EXCEPT ![s] = @ \cup {new}] /\ new.kind = "gap"
    BY DEF Numbered
  <1>2. repeats' = repeats \/ repeats' = repeats \cup {sharers}
    BY DEF Numbered
  <1>3. "gap" \in sharers OBVIOUS
  <1> HIDE DEF sharers, new
  <1>4. OnlyGapsRepeat' BY <1>2, <1>3 DEF IdxOK, OnlyGapsRepeat
  <1>5. \A t \in Cgid : idxs'[t] \subseteq idxs[t] \cup {new}
    BY <1>1 DEF EnrichTypes
  <1>6. QED BY <1>1, <1>4, <1>5

\* A record takes the next index of its session, a gap any.
LEMMA IndicesKept ==
    EnrichTypes /\ JobsOK /\ IdxOK /\ [EnrichNext]_enrichVars => IdxOK'
  <1> SUFFICES ASSUME EnrichTypes, JobsOK, IdxOK, [EnrichNext]_enrichVars PROVE IdxOK'
    OBVIOUS
  <1>1. ASSUME UNCHANGED <<nextIdx, idxs, repeats, bound>>  PROVE IdxOK'
    BY <1>1 DEF IdxOK, OnlyGapsRepeat, Bound
  <1>2. ASSUME NEW p \in Pump, EnrichRecord(p) PROVE IdxOK'
    <2> DEFINE s == Attributed(job[p].rec)
    <2>1. job[p].rec \in Records
      BY <1>2 DEF JobsOK, JobOK, EnrichRecord
    <2>2. s \in Cgid
      BY <2>1, RecordFields DEF Attributed
    <2>3. /\ bound' = bound
          /\ \/ UNCHANGED <<nextIdx, idxs, repeats>>
             \/ Bound(s) /\ nextIdx' = AfterIdx(s) /\ Numbered(s, nextIdx[s], "record")
      BY <1>2 DEF EnrichRecord
    <2> HIDE DEF s
    <2>4. CASE Bound(s) /\ nextIdx' = AfterIdx(s) /\ Numbered(s, nextIdx[s], "record")
      <3> DEFINE idx == nextIdx[s]
                 new == [idx |-> idx, kind |-> "record"]
                 sharers == {"record"} \cup {u.kind : u \in {v \in idxs[s] : v.idx = idx}}
      <3>1. /\ idx \in Nat /\ Bound(s)
            /\ \A t \in Cgid : nextIdx[t] \in Nat /\ idxs[t] \subseteq Use
        BY <2>2, <2>4 DEF EnrichTypes
      <3>2. /\ \A t \in Cgid \ {s} : nextIdx'[t] = nextIdx[t] /\ idxs'[t] = idxs[t]
            /\ nextIdx'[s] = idx + 1 /\ idxs'[s] = idxs[s] \cup {new}
        BY <2>2, <2>4 DEF EnrichTypes, AfterIdx, Numbered
      <3>3. repeats' = IF \E u \in idxs[s] : u.idx = idx THEN repeats \cup {sharers} ELSE repeats
        BY <2>4 DEF Numbered
      <3>4. ASSUME NEW u \in idxs[s], u.idx = idx PROVE "gap" \in sharers
        <4>1. u.kind # "record" BY <2>2, <3>1, <3>4 DEF IdxOK
        <4>2. u.kind = "gap" BY <2>2, <3>1, <3>4, <4>1 DEF Use
        <4>3. QED BY <3>4, <4>2
      <3> HIDE DEF sharers, idx
      <3>5. OnlyGapsRepeat'
        BY <3>3, <3>4 DEF IdxOK, OnlyGapsRepeat
      <3>6. ASSUME NEW t \in Cgid, Bound(t), NEW u \in idxs'[t], u.kind = "record"
            PROVE  u.idx < nextIdx'[t]
        <4>1. CASE t # s BY <2>3, <3>2, <3>6, <4>1 DEF IdxOK
        <4>2. CASE t = s /\ u \in idxs[s]
          <5>1. u.idx < nextIdx[s] /\ u.idx \in Nat
            BY <2>2, <3>1, <3>6, <4>2 DEF IdxOK, Use
          <5>2. QED BY <3>1, <3>2, <4>2, <5>1 DEF idx
        <4>3. CASE t = s /\ u = new
          BY <3>1, <3>2, <4>3
        <4>4. QED BY <3>2, <3>6, <4>1, <4>2, <4>3
      <3>7. QED BY <2>3, <3>5, <3>6 DEF IdxOK, Bound
    <2>5. QED BY <1>1, <2>3, <2>4
  <1>3. ASSUME NEW p \in Pump, NEW s \in Cgid, FlushGap(p, s) PROVE IdxOK'
    <2>1. Numbered(s, segs'[p][s].seg, "gap") /\ UNCHANGED <<bound, nextIdx>>
      BY <1>3 DEF FlushGap
    <2>2. QED BY <2>1, GapNumbered DEF IdxOK, Bound
  <1>4. ASSUME NEW p \in Pump, NEW s \in Cgid, SessionEnds(p, s) PROVE IdxOK'
    <2>1. /\ bound' = bound \ {s} /\ nextIdx' = [nextIdx EXCEPT ![s] = 0]
          /\ \/ Numbered(s, AfterCurrent(segs[p][s]).seg, "gap")
             \/ UNCHANGED <<idxs, repeats>>
      BY <1>4 DEF SessionEnds, FinalGap
    <2>2. \A t \in Cgid : Bound(t)' => t # s /\ Bound(t) /\ nextIdx'[t] = nextIdx[t]
      BY <2>1 DEF EnrichTypes, Bound
    <2>3. /\ OnlyGapsRepeat'
          /\ \A t \in Cgid : \A u \in idxs'[t] : u \in idxs[t] \/ u.kind = "gap"
      BY <2>1, GapNumbered DEF IdxOK, OnlyGapsRepeat
    <2>4. QED BY <2>2, <2>3 DEF IdxOK
  <1>5. ASSUME NEW s \in Cgid, Bind(s) PROVE IdxOK'
    <2>1. /\ bound' = bound \cup {s} /\ UNCHANGED <<nextIdx, repeats>>
          /\ idxs' = IF Bound(s) THEN idxs ELSE [idxs EXCEPT ![s] = {}]
      BY <1>5 DEF Bind
    <2>2. \A t \in Cgid : Bound(t)' => (Bound(t) /\ idxs'[t] = idxs[t]) \/ idxs'[t] = {}
      BY <2>1 DEF EnrichTypes, Bound
    <2>3. QED BY <2>1, <2>2 DEF IdxOK, OnlyGapsRepeat
  <1>6. ASSUME NEW p \in Pump,
               \/ \E r \in Records : TakeRecord(p, r)
               \/ JoinQname(p) \/ ObserveAnswer(p) \/ ShedEvent(p)
        PROVE  IdxOK'
    <2>1. UNCHANGED <<bound, nextIdx, idxs, repeats>>
      BY <1>6 DEF TakeRecord, JoinQname, ObserveAnswer, ShedEvent
    <2>2. QED BY <1>1, <2>1
  <1>7. CASE ReadSweepTime \/ SweepCache \/ Passes \/ UNCHANGED enrichVars
    <2>1. UNCHANGED <<bound, nextIdx, idxs, repeats>>
      BY <1>7 DEF ReadSweepTime, SweepCache, Passes, enrichVars
    <2>2. QED BY <1>1, <2>1
  <1>8. CASE RanadDies BY <1>8 DEF RanadDies, IdxOK, OnlyGapsRepeat, Bound
  <1>9. QED BY <1>2, <1>3, <1>4, <1>5, <1>6, <1>7, <1>8 DEF EnrichNext

------------------------------------------------------------------------------
(* Segment numbers *)

\* Where in a sequence of numbers n was given.
Of(g, n) == {i \in DOMAIN g : g[i].seg = n}

\* SegmentsHonest, of one tracker.
Honest(g) ==
    \A i \in DOMAIN g :
        /\ Cardinality(Of(g, g[i].seg)) <= SegEvents
        /\ \A j \in Of(g, g[i].seg) : j <= i => g[i].at - g[j].at < SegAge
        /\ i > 1 => g[i].seg \in {g[i - 1].seg, g[i - 1].seg + 1}
        /\ (i > 1 /\ g[i].seg # g[i - 1].seg) =>
              \/ Cardinality(Of(g, g[i - 1].seg)) = SegEvents
              \/ \E j \in Of(g, g[i - 1].seg) : g[i].at - g[j].at >= SegAge

\* The tracker knows the last number, how often it was given, and when first.
Tracked(g, st) ==
    /\ g = <<>> => st.seg = 0 /\ st.count = 0
    /\ g # <<>> => /\ st.seg = g[Len(g)].seg
                   /\ st.count = Cardinality(Of(g, st.seg))
                   /\ \E j \in Of(g, st.seg) : g[j].at = st.first
    /\ \A j \in DOMAIN g : g[j].seg <= st.seg /\ g[j].at <= time
    /\ \A j \in Of(g, st.seg) : st.first <= g[j].at

\* The places are finitely many.
LEMMA OfFinite ==
    ASSUME NEW g \in Seq(Number), NEW n
    PROVE  IsFiniteSet(Of(g, n)) /\ Cardinality(Of(g, n)) \in Nat
  <1>1. DOMAIN g = 1 .. Len(g) /\ Len(g) \in Nat OBVIOUS
  <1>2. IsFiniteSet(1 .. Len(g)) BY <1>1, FS_Interval
  <1>3. Of(g, n) \subseteq 1 .. Len(g) BY <1>1 DEF Of
  <1>4. IsFiniteSet(Of(g, n)) BY <1>2, <1>3, FS_Subset
  <1>5. QED BY <1>4, FS_CardinalityType

\* A number more is one place more for it, and for no other.
LEMMA OfAppend ==
    ASSUME NEW g \in Seq(Number), NEW x \in Number
    PROVE  /\ Of(Append(g, x), x.seg) = Of(g, x.seg) \cup {Len(g) + 1}
           /\ Len(g) + 1 \notin Of(g, x.seg)
           /\ Cardinality(Of(Append(g, x), x.seg)) = Cardinality(Of(g, x.seg)) + 1
           /\ \A n : n # x.seg => Of(Append(g, x), n) = Of(g, n)
  <1> DEFINE h == Append(g, x)
  <1>1. /\ Len(g) \in Nat /\ DOMAIN g = 1 .. Len(g) /\ DOMAIN h = 1 .. Len(g) + 1
        /\ h[Len(g) + 1] = x /\ \A i \in 1 .. Len(g) : h[i] = g[i]
    OBVIOUS
  <1> HIDE DEF h
  <1>2. Of(h, x.seg) = Of(g, x.seg) \cup {Len(g) + 1} BY <1>1 DEF Of
  <1>3. Len(g) + 1 \notin Of(g, x.seg) BY <1>1 DEF Of
  <1>4. \A n : n # x.seg => Of(h, n) = Of(g, n) BY <1>1 DEF Of
  <1>5. IsFiniteSet(Of(g, x.seg)) BY OfFinite
  <1>6. Cardinality(Of(g, x.seg) \cup {Len(g) + 1}) = Cardinality(Of(g, x.seg)) + 1
    BY <1>3, <1>5, FS_AddElement
  <1>7. QED BY <1>2, <1>3, <1>4, <1>6 DEF h

\* Current keeps its account, and hands out honest numbers.
LEMMA CurrentHonest ==
    ASSUME NEW g \in Seq(Number), NEW st \in Tracker, time \in Nat, Honest(g), Tracked(g, st),
           AfterCurrent(st) \in Tracker
    PROVE  LET h == Append(g, [seg |-> AfterCurrent(st).seg, at |-> time])
           IN  Honest(h) /\ Tracked(h, AfterCurrent(st))
  <1> DEFINE after == AfterCurrent(st)
             x == [seg |-> after.seg, at |-> time]
             h == Append(g, x)
             n == Len(g)
  <1>1. /\ st.seg \in Nat /\ st.count \in Nat /\ st.first \in Nat
        /\ after.seg \in Nat /\ after.count \in Nat /\ after.first \in Nat
        /\ SegEvents \in Nat /\ SegEvents # 0 /\ SegAge \in Nat /\ SegAge # 0
    BY EnrichAssumption DEF Tracker
  <1>2. x \in Number /\ x.seg = after.seg /\ x.at = time BY <1>1 DEF Number
  <1>3. \A i \in DOMAIN g : g[i] \in Number OBVIOUS
  <1>4. \A i \in DOMAIN g : g[i].seg \in Nat /\ g[i].at \in Nat BY <1>3 DEF Number
  <1>5. /\ Advances(st) => after.seg = st.seg + 1 /\ after.count = 1 /\ after.first = time
        /\ ~Advances(st) => /\ after.seg = st.seg /\ after.count = st.count + 1
                            /\ after.first = IF st.count = 0 THEN time ELSE st.first
    <2>1. CASE Advances(st) BY <2>1 DEF AfterCurrent
    <2>2. CASE ~Advances(st) BY <2>2 DEF AfterCurrent, Tracker
    <2>3. QED BY <2>1, <2>2
  <1> HIDE DEF after, x
  <1>6. /\ Of(h, x.seg) = Of(g, x.seg) \cup {n + 1} /\ n + 1 \notin Of(g, x.seg)
        /\ Cardinality(Of(h, x.seg)) = Cardinality(Of(g, x.seg)) + 1
        /\ \A m : m # x.seg => Of(h, m) = Of(g, m)
    BY <1>2, OfAppend
  <1>7. /\ n \in Nat /\ DOMAIN g = 1 .. n /\ DOMAIN h = 1 .. n + 1 /\ Len(h) = n + 1
        /\ h[n + 1] = x /\ \A i \in 1 .. n : h[i] = g[i]
    BY <1>2
  <1> HIDE DEF h, n
  <1>8. \A m : Cardinality(Of(g, m)) \in Nat BY OfFinite
  <1>9. \A m : Of(g, m) \subseteq 1 .. n BY <1>7 DEF Of
  \* what the tracker knows, of either kind of sequence
  <1>10. st.count = Cardinality(Of(g, st.seg))
    <2>1. CASE g = <<>>
      <3>1. Of(g, st.seg) = {} BY <2>1 DEF Of
      <3>2. QED BY <2>1, <3>1, FS_EmptySet DEF Tracked
    <2>2. CASE g # <<>> BY <2>2 DEF Tracked
    <2>3. QED BY <2>1, <2>2
  <1>11. st.count > 0 => g # <<>>
    BY <1>1 DEF Tracked
  <1>12. g # <<>> => n >= 1 /\ n \in DOMAIN g /\ st.seg = g[n].seg
    <2>1. g # <<>> => Len(g) # 0 OBVIOUS
    <2>2. QED BY <1>7, <2>1 DEF Tracked, n
  <1>13. st.count <= SegEvents
    <2>1. CASE g = <<>> BY <1>1, <2>1 DEF Tracked
    <2>2. CASE g # <<>> BY <1>10, <1>12, <2>2 DEF Honest
    <2>3. QED BY <2>1, <2>2
  <1>14. Of(g, st.seg + 1) = {}
    <2>1. ASSUME NEW j \in DOMAIN g PROVE g[j].seg # st.seg + 1
      BY <1>1, <1>4, <2>1 DEF Tracked
    <2>2. QED BY <2>1 DEF Of
  <1>15. /\ Cardinality(Of(h, x.seg)) = after.count /\ after.count <= SegEvents
    <2>1. CASE Advances(st)
      <3>1. Cardinality(Of(g, x.seg)) = 0 BY <1>2, <1>5, <1>14, <2>1, FS_EmptySet
      <3>2. QED BY <1>1, <1>5, <1>6, <2>1, <3>1
    <2>2. CASE ~Advances(st)
      <3>1. st.count < SegEvents BY <1>1, <2>2 DEF Advances
      <3>2. QED BY <1>1, <1>2, <1>5, <1>6, <1>10, <2>2, <3>1
    <2>3. QED BY <2>1, <2>2
  \* how old the number is
  <1>16. ASSUME NEW j \in Of(g, x.seg)
         PROVE  /\ after.first <= g[j].at /\ g[j].at <= time /\ time - g[j].at < SegAge
                /\ st.count > 0 /\ ~Advances(st)
    <2>1. ~Advances(st) BY <1>2, <1>5, <1>14, <1>16
    <2>2. j \in Of(g, st.seg) /\ j \in DOMAIN g BY <1>2, <1>5, <1>16, <2>1 DEF Of
    <2>3. g # <<>> BY <1>7, <2>2
    <2>4. st.count # 0
      <3>1. st.count = Cardinality(Of(g, st.seg)) /\ IsFiniteSet(Of(g, st.seg)) BY <1>10, OfFinite
      <3>2. Cardinality(Of(g, st.seg)) # 0 BY <2>2, <3>1, FS_EmptySet
      <3>3. QED BY <3>1, <3>2
    <2>5. time - st.first < SegAge BY <1>1, <2>1, <2>4 DEF Advances
    <2>6. st.first <= g[j].at /\ g[j].at <= time BY <2>2 DEF Tracked
    <2>7. QED BY <1>1, <1>4, <1>5, <2>1, <2>2, <2>4, <2>5, <2>6
  <1>17. Tracked(h, after)
    <2>1. h # <<>> /\ after.seg = h[Len(h)].seg BY <1>2, <1>7
    <2>2. after.count = Cardinality(Of(h, after.seg)) BY <1>2, <1>15
    <2>3. \E j \in Of(h, after.seg) : h[j].at = after.first
      <3>1. CASE Advances(st) \/ st.count = 0
        BY <1>2, <1>5, <1>6, <1>7, <3>1
      <3>2. CASE ~Advances(st) /\ st.count # 0
        <4>1. PICK j \in Of(g, st.seg) : g[j].at = st.first
          BY <1>1, <1>11, <3>2 DEF Tracked
        <4>2. j \in 1 .. n BY <1>9, <4>1
        <4>3. QED BY <1>2, <1>5, <1>6, <1>7, <3>2, <4>1, <4>2
      <3>3. QED BY <3>1, <3>2
    <2>4. ASSUME NEW j \in DOMAIN h PROVE h[j].seg <= after.seg /\ h[j].at <= time
      <3>1. CASE j = n + 1 BY <1>1, <1>2, <1>7, <3>1
      <3>2. CASE j \in 1 .. n
        <4>1. g[j].seg <= st.seg /\ g[j].at <= time BY <1>7, <3>2 DEF Tracked
        <4>2. QED BY <1>1, <1>4, <1>5, <1>7, <3>2, <4>1
      <3>3. QED BY <1>7, <2>4, <3>1, <3>2
    <2>5. ASSUME NEW j \in Of(h, after.seg) PROVE after.first <= h[j].at
      <3>1. CASE j = n + 1
        <4>1. PICK i \in Of(h, after.seg) : h[i].at = after.first BY <2>3
        <4>2. after.first <= time BY <2>4, <4>1 DEF Of
        <4>3. QED BY <1>2, <1>7, <3>1, <4>2
      <3>2. CASE j \in Of(g, x.seg) BY <1>7, <1>9, <1>16, <3>2
      <3>3. QED BY <1>2, <1>6, <2>5, <3>1, <3>2
    <2>6. QED BY <2>1, <2>2, <2>3, <2>4, <2>5 DEF Tracked
  <1>18. Honest(h)
    <2>1. ASSUME NEW i \in 1 .. n PROVE
            /\ Cardinality(Of(h, h[i].seg)) <= SegEvents
            /\ \A j \in Of(h, h[i].seg) : j <= i => h[i].at - h[j].at < SegAge
            /\ i > 1 => h[i].seg \in {h[i - 1].seg, h[i - 1].seg + 1}
            /\ (i > 1 /\ h[i].seg # h[i - 1].seg) =>
                  \/ Cardinality(Of(h, h[i - 1].seg)) = SegEvents
                  \/ \E j \in Of(h, h[i - 1].seg) : h[i].at - h[j].at >= SegAge
      <3>1. /\ h[i] = g[i] /\ i \in DOMAIN g /\ i \in Nat
            /\ i > 1 => h[i - 1] = g[i - 1] /\ i - 1 \in 1 .. n
        BY <1>7
      <3>2. Cardinality(Of(h, h[i].seg)) <= SegEvents
        BY <1>6, <1>15, <3>1 DEF Honest
      <3>3. ASSUME NEW j \in Of(h, h[i].seg), j <= i PROVE h[i].at - h[j].at < SegAge
        <4>1. j # n + 1 BY <1>7, <3>1, <3>3
        <4>2. j \in Of(g, g[i].seg) BY <1>6, <3>1, <3>3, <4>1
        <4>3. j \in 1 .. n BY <1>9, <4>2
        <4>4. QED BY <1>7, <3>1, <3>3, <4>2, <4>3 DEF Honest
      <3>4. i > 1 => h[i].seg \in {h[i - 1].seg, h[i - 1].seg + 1}
        BY <3>1 DEF Honest
      <3>5. ASSUME i > 1, h[i].seg # h[i - 1].seg
            PROVE  \/ Cardinality(Of(h, h[i - 1].seg)) = SegEvents
                   \/ \E j \in Of(h, h[i - 1].seg) : h[i].at - h[j].at >= SegAge
        <4>1. /\ g[i - 1].seg \in Nat /\ g[i].seg = g[i - 1].seg + 1 /\ g[i].seg <= st.seg
              /\ st.seg <= x.seg
          <5>1. g[i - 1].seg \in Nat /\ g[i].seg = g[i - 1].seg + 1
            BY <1>4, <1>7, <3>1, <3>4, <3>5
          <5>2. g[i].seg <= st.seg BY <3>1 DEF Tracked
          <5>3. st.seg <= x.seg BY <1>1, <1>2, <1>5
          <5>4. QED BY <5>1, <5>2, <5>3
        <4>2. g[i - 1].seg # x.seg BY <1>1, <1>2, <4>1
        <4>3. Of(h, h[i - 1].seg) = Of(g, g[i - 1].seg) BY <1>6, <3>1, <3>5, <4>2
        <4>4. \/ Cardinality(Of(g, g[i - 1].seg)) = SegEvents
              \/ \E j \in Of(g, g[i - 1].seg) : g[i].at - g[j].at >= SegAge
          BY <3>1, <3>5 DEF Honest
        <4>5. \A j \in Of(g, g[i - 1].seg) : h[j] = g[j] BY <1>7, <1>9
        <4>6. QED BY <3>1, <4>3, <4>4, <4>5
      <3>6. QED BY <3>2, <3>3, <3>4, <3>5
    <2>2. ASSUME NEW j \in Of(h, x.seg) PROVE x.at - h[j].at < SegAge
      <3>1. CASE j = n + 1 BY <1>1, <1>2, <1>7, <3>1
      <3>2. CASE j \in Of(g, x.seg) BY <1>2, <1>7, <1>9, <1>16, <3>2
      <3>3. QED BY <1>6, <2>2, <3>1, <3>2
    <2>3. ASSUME n >= 1 PROVE
            /\ x.seg \in {h[n].seg, h[n].seg + 1}
            /\ x.seg # h[n].seg => \/ Cardinality(Of(h, h[n].seg)) = SegEvents
                                   \/ \E j \in Of(h, h[n].seg) : x.at - h[j].at >= SegAge
      <3>1. g # <<>> /\ h[n] = g[n] /\ st.seg = g[n].seg
        BY <1>7, <1>12, <2>3 DEF n
      <3>2. x.seg \in {h[n].seg, h[n].seg + 1} BY <1>2, <1>5, <3>1
      <3>3. ASSUME x.seg # h[n].seg
            PROVE  \/ Cardinality(Of(h, h[n].seg)) = SegEvents
                   \/ \E j \in Of(h, h[n].seg) : x.at - h[j].at >= SegAge
        <4>1. Advances(st) BY <1>2, <1>5, <3>1, <3>3
        <4>2. Of(h, h[n].seg) = Of(g, st.seg) BY <1>6, <3>1, <3>3
        <4>3. CASE st.count >= SegEvents
          BY <1>1, <1>10, <1>13, <4>2, <4>3
        <4>4. CASE st.count > 0 /\ time - st.first >= SegAge
          <5>1. PICK j \in Of(g, st.seg) : g[j].at = st.first BY <3>1 DEF Tracked
          <5>2. h[j] = g[j] BY <1>7, <1>9, <5>1
          <5>3. QED BY <1>2, <4>2, <4>4, <5>1, <5>2
        <4>5. QED BY <4>1, <4>3, <4>4 DEF Advances
      <3>4. QED BY <3>2, <3>3
    <2>4. ASSUME NEW i \in DOMAIN h, i = n + 1 PROVE
            /\ Cardinality(Of(h, h[i].seg)) <= SegEvents
            /\ \A j \in Of(h, h[i].seg) : j <= i => h[i].at - h[j].at < SegAge
            /\ i > 1 => h[i].seg \in {h[i - 1].seg, h[i - 1].seg + 1}
            /\ (i > 1 /\ h[i].seg # h[i - 1].seg) =>
                  \/ Cardinality(Of(h, h[i - 1].seg)) = SegEvents
                  \/ \E j \in Of(h, h[i - 1].seg) : h[i].at - h[j].at >= SegAge
      <3>1. h[i] = x /\ i - 1 = n /\ (i > 1 => n >= 1) BY <1>7, <2>4
      <3>2. QED BY <1>15, <2>2, <2>3, <3>1
    <2>5. \A i \in DOMAIN h : i \in 1 .. n \/ i = n + 1 BY <1>7
    <2>6. QED BY <2>1, <2>4, <2>5 DEF Honest
  <1>19. QED BY <1>17, <1>18 DEF after, x, h

\* Every Pump's numbers for every session, since its tracker was new.
TrackersOK ==
    \A p \in Pump, s \in Cgid : Honest(given[p][s]) /\ Tracked(given[p][s], segs[p][s])

\* A tracker that is new has given out nothing.
LEMMA NewTracker == Honest(<<>>) /\ Tracked(<<>>, NoSeg)
  <1>1. NoSeg.seg = 0 /\ NoSeg.count = 0 BY DEF NoSeg
  <1>2. Of(<<>>, NoSeg.seg) = {} BY DEF Of
  <1>3. QED BY <1>1, <1>2 DEF Honest, Tracked

\* A step in which one Pump takes a number for a session.
LEMMA NumberTaken ==
    ASSUME EnrichTypes, TrackersOK, NEW p \in Pump, NEW s \in Cgid, Current(p, s), time' = time
    PROVE  TrackersOK'
  <1> DEFINE after == AfterCurrent(segs[p][s])
             x == [seg |-> after.seg, at |-> time]
             h == Append(given[p][s], x)
  <1>1. /\ after \in Tracker
        /\ segs' = [segs EXCEPT ![p][s] = after] /\ given' = [given EXCEPT ![p][s] = h]
    BY CurrentTypes
  <1>2. /\ given[p][s] \in Seq(Number) /\ segs[p][s] \in Tracker /\ time \in Nat
    BY DEF EnrichTypes
  <1>3. Honest(given[p][s]) /\ Tracked(given[p][s], segs[p][s])
    BY DEF TrackersOK
  <1>4. Honest(h) /\ Tracked(h, after)
    BY <1>1, <1>2, <1>3, CurrentHonest
  <1> HIDE DEF after, h
  <1>5. /\ segs'[p][s] = after /\ given'[p][s] = h
        /\ \A q \in Pump, t \in Cgid : <<q, t>> # <<p, s>> =>
              segs'[q][t] = segs[q][t] /\ given'[q][t] = given[q][t]
    BY <1>1 DEF EnrichTypes
  <1>6. ASSUME NEW q \in Pump, NEW t \in Cgid
        PROVE  Honest(given'[q][t]) /\ Tracked(given'[q][t], segs'[q][t])
    <2>1. CASE q = p /\ t = s BY <1>4, <1>5, <2>1
    <2>2. CASE q # p \/ t # s BY <1>5, <2>2 DEF TrackersOK
    <2>3. QED BY <2>1, <2>2
  <1>7. ASSUME NEW q \in Pump, NEW t \in Cgid
        PROVE  Honest(given[q][t])' /\ Tracked(given[q][t], segs[q][t])'
    BY <1>6 DEF Honest, Tracked
  <1>8. QED BY <1>7 DEF TrackersOK

\* The other steps give out no number that is counted; a Pump that handles the
\* end of a session has a new tracker for it, and so has everyone in a new ranad.
LEMMA TrackersKept == EnrichTypes /\ TrackersOK /\ [EnrichNext]_enrichVars => TrackersOK'
  <1> SUFFICES ASSUME EnrichTypes, TrackersOK, [EnrichNext]_enrichVars PROVE TrackersOK'
    OBVIOUS
  <1>1. ASSUME UNCHANGED <<segs, given, time>>  PROVE TrackersOK'
    BY <1>1 DEF TrackersOK, Honest, Tracked
  <1>2. ASSUME NEW p \in Pump, NEW r \in Records, TakeRecord(p, r) PROVE TrackersOK'
    <2>1. r.cg \in Cgid /\ (r.kind = "migration" => r.to \in Cgid) BY RecordFields
    <2>2. ChargedTo(r) \in Cgid BY <2>1 DEF ChargedTo
    <2>3. Current(p, ChargedTo(r)) /\ time' = time
      BY <1>2 DEF TakeRecord
    <2>4. QED BY <2>2, <2>3, NumberTaken
  <1>3. ASSUME NEW p \in Pump, NEW s \in Cgid, FlushGap(p, s) PROVE TrackersOK'
    BY <1>3, NumberTaken DEF FlushGap
  <1>4. ASSUME NEW p \in Pump, NEW s \in Cgid, SessionEnds(p, s) PROVE TrackersOK'
    <2>1. /\ segs' = [segs EXCEPT ![p][s] = NoSeg] /\ given' = [given EXCEPT ![p][s] = <<>>]
          /\ time' = time
      BY <1>4 DEF SessionEnds
    <2>2. /\ segs'[p][s] = NoSeg /\ given'[p][s] = <<>>
          /\ \A q \in Pump, t \in Cgid : <<q, t>> # <<p, s>> =>
                segs'[q][t] = segs[q][t] /\ given'[q][t] = given[q][t]
      BY <2>1 DEF EnrichTypes
    <2>3. ASSUME NEW q \in Pump, NEW t \in Cgid
          PROVE  Honest(given'[q][t]) /\ Tracked(given'[q][t], segs'[q][t])
      <3>1. CASE q = p /\ t = s BY <2>2, <3>1, NewTracker
      <3>2. CASE q # p \/ t # s BY <2>2, <3>2 DEF TrackersOK
      <3>3. QED BY <3>1, <3>2
    <2>4. ASSUME NEW q \in Pump, NEW t \in Cgid
          PROVE  Honest(given[q][t])' /\ Tracked(given[q][t], segs[q][t])'
      <3>1. Honest(given[q][t])' BY <2>3 DEF Honest
      <3>2. Tracked(given'[q][t], segs'[q][t]) BY <2>3
      <3>3. Tracked(given[q][t], segs[q][t])' BY <2>1, <3>2 DEF Tracked
      <3>4. QED BY <3>1, <3>3
    <2>5. QED BY <2>4 DEF TrackersOK
  <1>5. CASE RanadDies
    <2>1. /\ segs' = [p \in Pump |-> [s \in Cgid |-> NoSeg]]
          /\ given' = [p \in Pump |-> [s \in Cgid |-> <<>>]] /\ time' = time
      BY <1>5 DEF RanadDies
    <2>2. \A p \in Pump, s \in Cgid : Honest(given'[p][s]) /\ Tracked(given'[p][s], segs'[p][s])
      BY <2>1, NewTracker
    <2>3. ASSUME NEW q \in Pump, NEW t \in Cgid
          PROVE  Honest(given[q][t])' /\ Tracked(given[q][t], segs[q][t])'
      BY <2>1, <2>2 DEF Honest, Tracked
    <2>4. QED BY <2>3 DEF TrackersOK
  <1>6. ASSUME NEW p \in Pump,
               EnrichRecord(p) \/ JoinQname(p) \/ ObserveAnswer(p) \/ ShedEvent(p)
        PROVE  TrackersOK'
    <2>1. UNCHANGED <<segs, given, time>>
      BY <1>6 DEF EnrichRecord, JoinQname, ObserveAnswer, ShedEvent
    <2>2. QED BY <1>1, <2>1
  <1>7. CASE (\E s \in Cgid : Bind(s)) \/ ReadSweepTime \/ SweepCache \/ UNCHANGED enrichVars
    <2>1. UNCHANGED <<segs, given, time>>
      BY <1>7 DEF Bind, ReadSweepTime, SweepCache, enrichVars
    <2>2. QED BY <1>1, <2>1
  <1>8. CASE Passes
    <2>1. time' = time + 1 /\ UNCHANGED <<segs, given>>
      BY <1>8 DEF Passes
    <2>2. ASSUME NEW p \in Pump, NEW s \in Cgid
          PROVE  Tracked(given[p][s], segs[p][s])'
      <3>1. given[p][s] \in Seq(Number) /\ time \in Nat BY DEF EnrichTypes
      <3>2. \A j \in DOMAIN given[p][s] : given[p][s][j] \in Number BY <3>1
      <3>3. Tracked(given[p][s], segs[p][s]) BY DEF TrackersOK
      <3>4. \A j \in DOMAIN given[p][s] : given[p][s][j].at <= time'
        <4>1. ASSUME NEW j \in DOMAIN given[p][s] PROVE given[p][s][j].at <= time'
          <5>1. given[p][s][j].at \in Nat /\ given[p][s][j].at <= time
            BY <3>2, <3>3 DEF Number, Tracked
          <5>2. QED BY <2>1, <3>1, <5>1
        <4>2. QED BY <4>1
      <3>5. QED BY <2>1, <3>3, <3>4 DEF Tracked
    <2>3. QED BY <2>1, <2>2 DEF TrackersOK, Honest
  <1>9. QED BY <1>2, <1>3, <1>4, <1>5, <1>6, <1>7, <1>8 DEF EnrichNext

----------------------------------------------------------------------------
(* The theorems *)

EnrichInv ==
    /\ EnrichTypes /\ JobsOK /\ ChargedToItsSession
    /\ CacheOK /\ JoinHonest /\ IdxOK /\ TrackersOK

\* What the three theorems follow from.
LEMMA EnrichInvariant == EnrichSpec => []EnrichInv
  <1>1. EnrichInit => EnrichInv
    <2> SUFFICES ASSUME EnrichInit PROVE EnrichInv
      OBVIOUS
    <2>1. EnrichTypes /\ JobsOK BY EnrichStarts
    <2>2. ChargedToItsSession /\ JoinHonest
      BY DEF EnrichInit, ChargedToItsSession, JoinHonest, NoEvent
    <2>3. CacheOK BY DEF EnrichInit, CacheOK
    <2>4. IdxOK BY DEF EnrichInit, IdxOK, OnlyGapsRepeat
    <2>5. \A p \in Pump, s \in Cgid : given[p][s] = <<>> /\ segs[p][s] = NoSeg
      BY DEF EnrichInit
    <2>6. QED BY <2>1, <2>2, <2>3, <2>4, <2>5, NewTracker DEF EnrichInv, TrackersOK
  <1>2. EnrichInv /\ [EnrichNext]_enrichVars => EnrichInv'
    BY EnrichTypesKept, JobsKept, ChargedKept, CacheKept, JoinKept, IndicesKept, TrackersKept
       DEF EnrichInv
  <1>3. QED BY <1>1, <1>2, PTL DEF EnrichSpec

\* Join and GC (dnscache.go): a connect has the name of the answer observed
\* last for its address exactly when that was alive and in the window at the
\* time it read, whatever other Pumps observed and the sweeper removed between.
THEOREM NamesAreHonest == EnrichSpec => []JoinHonest
  <1>1. EnrichInv => JoinHonest BY DEF EnrichInv
  <1>2. QED BY <1>1, EnrichInvariant, PTL

\* processRecord and EnrichMigration look the session up one after the other:
\* they agree, but for a migration whose cgroup's binding changed between.
THEOREM ChargesAreRight == EnrichSpec => []ChargedToItsSession
  <1>1. EnrichInv => ChargedToItsSession BY DEF EnrichInv
  <1>2. QED BY <1>1, EnrichInvariant, PTL

\* segTracker.Current and nextIdxFor: any number of Pumps at work on a session
\* give segment numbers that go up by one, when full or old and never else, as
\* long as they do not hear of its end, and no two records an index, until the
\* session has ended or ranad died and a SessionStart has bound it again.
THEOREM NumbersAreHonest == EnrichSpec => []NumbersHonest
  <1>1. EnrichInv => NumbersHonest
    <2> SUFFICES ASSUME EnrichInv PROVE NumbersHonest
      OBVIOUS
    <2>1. \A p \in Pump, s \in Cgid : Honest(given[p][s]) BY DEF EnrichInv, TrackersOK
    <2>2. SegmentsHonest BY <2>1 DEF SegmentsHonest, Honest, Of
    <2>3. QED BY <2>2 DEF EnrichInv, IdxOK, NumbersHonest
  <1>2. QED BY <1>1, EnrichInvariant, PTL

=============================================================================
