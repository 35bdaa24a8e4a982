----------------------------- MODULE Enrichment -----------------------------
(***************************************************************************)
(* How ranad turns a record into an event: processRecord's enrich in the   *)
(* outbound goroutine of each Pump, over the enricher and the DNS cache    *)
(* that all Pumps share.  An ended connection's Pump may still be at work  *)
(* beside the current one; the inbound goroutines bind cgroups, whenever a *)
(* SessionStart is sent again; another one sweeps the cache.  Locks are    *)
(* taken and left between the steps.  ranad may die at any time and forget *)
(* all of it.                                                              *)
(*                                                                         *)
(* A session is its cgroup.  A record is a net.dns with one answer, a      *)
(* net.connect, a migration between two cgroups, or plain: every other.    *)
(***************************************************************************)
EXTENDS Naturals, Sequences, FiniteSets

CONSTANTS Cgid,                   \* the sessions, each by its cgroup
          Pump, Addr, Qname, Nothing,
          TTL,                    \* the times to live a DNS answer may have
          JoinWindow,             \* DNSJoinWindow
          SegEvents, SegAge,      \* segTracker: maxEvents, maxAge
          MaxRecords, MaxSeconds, MaxSweeps, MaxDeaths   \* bounds

ASSUME EnrichAssumption ==
    /\ TTL \subseteq Nat /\ JoinWindow \in Nat
    /\ SegEvents \in Nat \ {0} /\ SegAge \in Nat \ {0}

VARIABLES
    time,       \* the clock
    bound,      \* cgidToSession: the sessions whose cgroup is bound
    nextIdx,    \* Enricher.nextIdx
    cache,      \* DNSCache.byIP
    sweep,      \* the time the sweeping goroutine has read (0: none)
    segs,       \* each Pump's segTracker
    job,        \* the record each Pump is at
    owed,       \* the sessions of which the governor has something to report
    numbers, deaths,    \* (bounds)
    event,      \* ours: the event the last step built
    given,      \* ours: the numbers a segment tracker gave out since it was new, and when
    latest,     \* ours: the answer this ranad observed last for each address
    idxs,       \* ours: the indices of a session since it was bound, and what used them
    repeats,    \* ours: for each index used again, what used it
    swept       \* ours: the times the cache was swept for

enrichVars == <<time, bound, nextIdx, cache, sweep, segs, job, owed, numbers, deaths, event,
                given, latest, idxs, repeats, swept>>

NoSeg == [seg |-> 0, count |-> 0, first |-> 0]
Idle == [at |-> "idle"]
NoEvent == [kind |-> "none"]

EnrichInit ==
    /\ time = 1 /\ bound = {} /\ nextIdx = [s \in Cgid |-> 0]
    /\ cache = [a \in Addr |-> Nothing] /\ sweep = 0
    /\ segs = [p \in Pump |-> [s \in Cgid |-> NoSeg]]
    /\ job = [p \in Pump |-> Idle] /\ owed = {} /\ numbers = 0 /\ deaths = 0 /\ event = NoEvent
    /\ given = [p \in Pump |-> [s \in Cgid |-> <<>>]] /\ latest = [a \in Addr |-> Nothing]
    /\ idxs = [s \in Cgid |-> {}] /\ repeats = {} /\ swept = {}

Bound(s) == s \in bound

----------------------------------------------------------------------------
(* The segment tracker *)

\* Current: a segment number is left when it is full or old.
Advances(st) == st.count >= SegEvents \/ (st.count > 0 /\ time - st.first >= SegAge)

AfterCurrent(st) ==
    IF Advances(st) THEN [seg |-> st.seg + 1, count |-> 1, first |-> time]
    ELSE [st EXCEPT !.count = @ + 1, !.first = IF st.count = 0 THEN time ELSE @]

Current(p, s) ==
    /\ numbers < MaxRecords /\ numbers' = numbers + 1
    /\ segs' = [segs EXCEPT ![p][s] = AfterCurrent(@)]
    /\ given' = [given EXCEPT ![p][s] = Append(@, [seg |-> segs'[p][s].seg, at |-> time])]

----------------------------------------------------------------------------
(* A record, from the ring buffer to the event *)

Records ==
    [kind : {"plain"}, cg : Cgid]
      \cup [kind : {"connect"}, cg : Cgid, addr : Addr]
      \cup [kind : {"dns"}, cg : Cgid, addr : Addr, qname : Qname, ttl : TTL]
      \cup {[kind |-> "migration", cg |-> s, to |-> t] : s \in Cgid, t \in Cgid}

\* EnrichMigration: the session left if it is known, else the one entered.
Attributed(r) == IF r.kind = "migration" /\ ~Bound(r.cg) THEN r.to ELSE r.cg

\* mutant: the session entered is charged
ChargedToEntered(r) == IF r.kind = "migration" /\ Bound(r.to) THEN r.to ELSE r.cg

\* processRecord repeats that rule, to know whom to charge.
ChargedTo(r) == IF Bound(r.cg) \/ r.kind # "migration" THEN r.cg ELSE r.to

\* SessionForCgid and Current; the record of an unknown cgroup is dropped.
TakeRecord(p, r) ==
    /\ job[p] = Idle /\ Bound(ChargedTo(r)) /\ (r.kind = "migration" => r.cg # r.to)
    /\ Current(p, ChargedTo(r))
    /\ job' = [job EXCEPT ![p] = [at |-> "enrich", rec |-> r, charged |-> ChargedTo(r),
                                  seg |-> segs'[p][ChargedTo(r)].seg, knew |-> Bound(r.cg)]]
    /\ event' = NoEvent
    /\ UNCHANGED <<time, bound, nextIdx, cache, sweep, owed, deaths, latest, idxs, repeats, swept>>

\* An index is used, by a record or by a gap.
Numbered(s, idx, kind) ==
    LET sharers == {kind} \cup {u.kind : u \in {v \in idxs[s] : v.idx = idx}}
    IN  /\ idxs' = [idxs EXCEPT ![s] = @ \cup {[idx |-> idx, kind |-> kind]}]
        /\ repeats' = IF \E u \in idxs[s] : u.idx = idx THEN repeats \cup {sharers} ELSE repeats

\* mutant: the index given out is not counted
IdxKept(s) == nextIdx

\* nextIdxFor
AfterIdx(s) == [nextIdx EXCEPT ![s] = @ + 1]

\* The event is built: Governor.Admit lets it pass, which changes nothing here,
\* or is about to shed it.
Built(p, e) ==
    \/ job' = [job EXCEPT ![p] = Idle]
    \/ /\ e.kind \in {"plain", "dns"}
       /\ job' = [job EXCEPT ![p] = [at |-> "shed", charged |-> e.charged]]

\* EnrichXxx under the enricher's lock: the cgroup is looked up again.  A
\* connect or an answer goes on to the cache with the time it reads now.
EnrichRecord(p) ==
    /\ job[p].at = "enrich"
    /\ LET r == job[p].rec
           s == Attributed(r)
           e == [kind |-> r.kind, session |-> s, charged |-> job[p].charged, seg |-> job[p].seg,
                 moved |-> job[p].knew # Bound(r.cg)]
       IN  IF ~Bound(s)
           THEN /\ job' = [job EXCEPT ![p] = Idle] /\ event' = NoEvent
                /\ UNCHANGED <<nextIdx, idxs, repeats>>
           ELSE /\ nextIdx' = AfterIdx(s)
                /\ Numbered(s, nextIdx[s], "record")
                /\ IF r.kind \in {"connect", "dns"}
                   THEN job' = [job EXCEPT ![p] = [at |-> r.kind, rec |-> r, now |-> time, ev |-> e]]
                        /\ event' = NoEvent
                   ELSE Built(p, e) /\ event' = e
    /\ UNCHANGED <<time, bound, cache, sweep, segs, owed, numbers, deaths, given, latest, swept>>

\* mutant: the window is not looked at
ServesForTTL(entry, now) == entry # Nothing /\ now <= entry.at + entry.ttl

\* DNSCache.Join: an entry serves while it lives, and within the window.
Serves(entry, now) ==
    /\ entry # Nothing
    /\ now <= entry.at + entry.ttl /\ now <= entry.at + JoinWindow

JoinQname(p) ==
    /\ job[p].at = "connect"
    /\ LET a == job[p].rec.addr
       IN  event' = [kind |-> "connect", session |-> job[p].ev.session, charged |-> job[p].ev.charged,
                     moved |-> FALSE, now |-> job[p].now,
                     qname |-> IF Serves(cache[a], job[p].now) THEN cache[a].qname ELSE Nothing,
                     latest |-> latest[a]]
    /\ Built(p, job[p].ev)
    /\ UNCHANGED <<time, bound, nextIdx, cache, sweep, segs, owed, numbers, deaths, given, latest,
                   idxs, repeats, swept>>

\* DNSCache.Observe: the answer that comes last is kept.
ObserveAnswer(p) ==
    /\ job[p].at = "dns"
    /\ LET r == job[p].rec
           o == [qname |-> r.qname, at |-> job[p].now, ttl |-> r.ttl]
       IN  cache' = [cache EXCEPT ![r.addr] = o] /\ latest' = [latest EXCEPT ![r.addr] = o]
    /\ event' = job[p].ev /\ Built(p, job[p].ev)
    /\ UNCHANGED <<time, bound, nextIdx, sweep, segs, owed, numbers, deaths, given, idxs, repeats,
                   swept>>

\* It has something to report of the session the record was charged to, which
\* may have ended by now.
ShedEvent(p) ==
    /\ job[p].at = "shed" /\ job' = [job EXCEPT ![p] = Idle] /\ event' = NoEvent
    /\ owed' = owed \cup {job[p].charged}
    /\ UNCHANGED <<time, bound, nextIdx, cache, sweep, segs, numbers, deaths, given, latest, idxs,
                   repeats, swept>>

GapEvent(s, seg) == [kind |-> "gap", session |-> s, charged |-> s, seg |-> seg, moved |-> FALSE]

\* FlushGaps: the segment number is taken for the gap's index as well.
FlushGap(p, s) ==
    /\ job[p] = Idle /\ s \in owed /\ owed' = owed \ {s}
    /\ Current(p, s) /\ Numbered(s, segs'[p][s].seg, "gap")
    /\ event' = GapEvent(s, segs'[p][s].seg)
    /\ UNCHANGED <<time, bound, nextIdx, cache, sweep, job, deaths, latest, swept>>

----------------------------------------------------------------------------
(* What goes on beside the Pumps' work *)

\* An inbound goroutine: SessionStart, of a session that is new, known, or has
\* ended, as late as it comes.  The indices of one that was not bound count anew.
Bind(s) ==
    /\ bound' = bound \cup {s} /\ event' = NoEvent
    /\ idxs' = IF Bound(s) THEN idxs ELSE [idxs EXCEPT ![s] = {}]
    /\ UNCHANGED <<time, nextIdx, cache, sweep, segs, job, owed, numbers, deaths, given, latest,
                   repeats, swept>>

\* The governor's last gap of an ended session.
FinalGap(p, s) ==
    LET seg == AfterCurrent(segs[p][s]).seg
    IN  Numbered(s, seg, "gap") /\ event' = GapEvent(s, seg)

\* DrainEndedSessions, between two records of its Pump; the other Pump may be
\* within one, and have heard of the end or not.
SessionEnds(p, s) ==
    /\ job[p] = Idle /\ bound' = bound \ {s} /\ nextIdx' = [nextIdx EXCEPT ![s] = 0]
    /\ segs' = [segs EXCEPT ![p][s] = NoSeg] /\ given' = [given EXCEPT ![p][s] = <<>>]
    /\ owed' = owed \ {s}
    /\ IF s \in owed THEN FinalGap(p, s) ELSE event' = NoEvent /\ UNCHANGED <<idxs, repeats>>
    /\ UNCHANGED <<time, cache, sweep, job, numbers, deaths, latest, swept>>

\* ranad is gone and starts again: with an enricher, a governor and a cache
\* that know nothing, and other Pumps.
RanadDies ==
    /\ deaths < MaxDeaths /\ deaths' = deaths + 1
    /\ bound' = {} /\ nextIdx' = [s \in Cgid |-> 0] /\ owed' = {}
    /\ cache' = [a \in Addr |-> Nothing] /\ latest' = [a \in Addr |-> Nothing] /\ sweep' = 0
    /\ segs' = [p \in Pump |-> [s \in Cgid |-> NoSeg]]
    /\ given' = [p \in Pump |-> [s \in Cgid |-> <<>>]]
    /\ job' = [p \in Pump |-> Idle] /\ event' = NoEvent
    /\ UNCHANGED <<time, numbers, idxs, repeats, swept>>

\* runDNSCacheGC reads the clock, then GC takes the lock.
ReadSweepTime ==
    /\ sweep = 0 /\ Cardinality(swept) < MaxSweeps /\ sweep' = time /\ event' = NoEvent
    /\ UNCHANGED <<time, bound, nextIdx, cache, segs, job, owed, numbers, deaths, given, latest, idxs,
                   repeats, swept>>

Expired(entry) == entry # Nothing /\ sweep > entry.at + entry.ttl

SweepCache ==
    /\ sweep # 0 /\ sweep' = 0 /\ swept' = swept \cup {sweep} /\ event' = NoEvent
    /\ cache' = [a \in Addr |-> IF Expired(cache[a]) THEN Nothing ELSE cache[a]]
    /\ UNCHANGED <<time, bound, nextIdx, segs, job, owed, numbers, deaths, given, latest, idxs, repeats>>

Passes ==
    /\ time < MaxSeconds /\ time' = time + 1 /\ event' = NoEvent
    /\ UNCHANGED <<bound, nextIdx, cache, sweep, segs, job, owed, numbers, deaths, given, latest, idxs,
                   repeats, swept>>

EnrichNext ==
    \/ \E p \in Pump :
          \/ \E r \in Records : TakeRecord(p, r)
          \/ EnrichRecord(p) \/ JoinQname(p) \/ ObserveAnswer(p) \/ ShedEvent(p)
          \/ \E s \in Cgid : FlushGap(p, s) \/ SessionEnds(p, s)
    \/ \E s \in Cgid : Bind(s)
    \/ ReadSweepTime \/ SweepCache \/ RanadDies \/ Passes

EnrichSpec == EnrichInit /\ [][EnrichNext]_enrichVars

----------------------------------------------------------------------------
(* Properties *)

\* A connect carries the name of the latest answer this ranad observed for the
\* address exactly when that answer still lived at the time the connect read and
\* lay in the window, whatever else was observed or swept in between; a sweep
\* costs a join only if it ran for a time at which the answer was dead.
JoinHonest ==
    event.kind = "connect" =>
        LET o == event.latest
            good == o # Nothing /\ event.now - o.at <= JoinWindow /\ event.now - o.at <= o.ttl
        IN  \/ event.qname = (IF good THEN o.qname ELSE Nothing)
            \/ event.qname = Nothing /\ good /\ (\E w \in swept : w > o.at + o.ttl)

\* From one end of a session that a Pump handles to the next, its numbers go up
\* by one, a number is used for at most SegEvents events of less than SegAge,
\* and is left for no other reason.
SegmentsHonest ==
    \A p \in Pump, s \in Cgid :
        LET g == given[p][s]
            Of(n) == {i \in DOMAIN g : g[i].seg = n}
        IN  \A i \in DOMAIN g :
                /\ Cardinality(Of(g[i].seg)) <= SegEvents
                /\ \A j \in Of(g[i].seg) : j <= i => g[i].at - g[j].at < SegAge
                /\ i > 1 => g[i].seg \in {g[i - 1].seg, g[i - 1].seg + 1}
                /\ (i > 1 /\ g[i].seg # g[i - 1].seg) =>
                      \/ Cardinality(Of(g[i - 1].seg)) = SegEvents
                      \/ \E j \in Of(g[i - 1].seg) : g[i].at - g[j].at >= SegAge

\* The governor charges a record to the session its event belongs to.  Only
\* a migration looked up twice may be charged to the other session, when the
\* binding of the cgroup it left changed in between.
ChargedToItsSession ==
    (event.kind # "none" /\ event.charged # event.session) => event.kind = "migration" /\ event.moved

\* Whatever the Pumps do at once, and whoever of them hears of an end and when,
\* no record's event has the index of another event, unless that is a gap or of
\* a binding before: an index comes again only when a SessionStart arrives after
\* the session's end or ranad's death, and never before it does.
OnlyGapsRepeat == \A users \in repeats : "gap" \in users

\* The two numbers an event is given, of its segment and of itself.
NumbersHonest == SegmentsHonest /\ OnlyGapsRepeat

\* collector: every Idx is monotonic per session, none is used again (not even
\* for a gap, and within one binding).
IdxIdentifies == repeats = {}

=============================================================================
