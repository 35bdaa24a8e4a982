---------------------------- MODULE AlertEngine ----------------------------
(***************************************************************************)
(* The alert rules: Engine.Observe, called for every event that was        *)
(* appended, with the new_domain, sensitive_read, escape and burst rules   *)
(* and the correlation of a sensitive read with a new destination.         *)
(* Each call of the sink (the service's appendAndPublish) may fail, and    *)
(* time may pass before each.  One goroutine is in Observe at a time: the  *)
(* engine has no lock, and what two would do to its maps is undefined.     *)
(***************************************************************************)
EXTENDS Naturals, Sequences, FiniteSets

CONSTANTS Session, Host,
          BurstThreshold, BurstWindow, TrifectaWindow,
          MaxObserved, MaxNow        \* bounds

\* An event counts in its own burst: the window of bursts has a length.
ASSUME AlertAssumption ==
    /\ Host # {}
    /\ BurstThreshold \in Nat /\ BurstWindow \in Nat \ {0} /\ TrifectaWindow \in Nat
    /\ MaxObserved \in Nat /\ MaxNow \in Nat

VARIABLES
    clock,
    seen,        \* newDomainRule.seen: hosts per session
    times,       \* burstRule.times: per session and class, numbered
    burstArmed,  \* burstRule.armed
    reads,       \* recentSensitiveReads
    domains,     \* recentNewDomains
    correlated,  \* pairs of indices already escalated
    alertIdx,    \* Engine.nextIdx
    todo,        \* the firings Observe has still to sink
    pairs,       \* the pairs correlateTrifecta has still to escalate
    alerts,      \* the alert events in the ledger
    observed,    \* ours: every event observed, with its time
    refused      \* ours: sessions of which the sink refused an alert

alertVars == <<clock, seen, times, burstArmed, reads, domains, correlated,
               alertIdx, todo, pairs, alerts, observed, refused>>

----------------------------------------------------------------------------

Kind == {"net.dns", "net.connect", "fs.sensitive_read", "fs.write_open", "alert.cgroup_escape"}

\* Only events of the network have a host that matters.
HostsOf(kind) == IF kind \in {"net.dns", "net.connect"} THEN Host ELSE {CHOOSE h \in Host : TRUE}

Class == {"flow_dns", "fs.write_open"}

\* burstClassOf, for the kinds above.
BurstClassOf(kind) ==
    CASE kind = "net.dns" -> {"flow_dns"}
      [] kind = "fs.write_open" -> {"fs.write_open"}
      [] OTHER -> {}

AlertInit ==
    /\ clock = 0 /\ alerts = <<>> /\ todo = <<>> /\ pairs = {} /\ observed = <<>> /\ refused = {}
    /\ seen = [s \in Session |-> {}]
    /\ times = [s \in Session |-> [c \in Class |-> {}]]
    /\ burstArmed = [s \in Session |-> [c \in Class |-> TRUE]]
    /\ reads = [s \in Session |-> {}]
    /\ domains = [s \in Session |-> {}]
    /\ correlated = [s \in Session |-> {}]
    /\ alertIdx = [s \in Session |-> 0]

----------------------------------------------------------------------------
(* The rules *)

\* newDomainRule.check: names and addresses are keys of one set.
NewDomain(ev) ==
    /\ ev.kind \in {"net.dns", "net.connect"}
    /\ ev.host \notin seen[ev.session]

\* What is left of the window at time t: burst windows are open at their far end.
InBurst(S, t) == {u \in S : u.at + BurstWindow > t}

\* Times may be equal, so that each has the number of its event.
Kept(ev, c) ==
    InBurst(times[ev.session][c], clock) \cup {[n |-> Len(observed) + 1, at |-> clock]}

\* mutant: every event over the threshold fires
BurstsLevel(ev) ==
    \E c \in BurstClassOf(ev.kind) : Cardinality(Kept(ev, c)) >= BurstThreshold

\* burstRule.check: only the first event at or over the threshold fires.
Bursts(ev) ==
    \E c \in BurstClassOf(ev.kind) :
        Cardinality(Kept(ev, c)) >= BurstThreshold /\ burstArmed[ev.session][c]

Alert(rule, ev) == [rule |-> rule, session |-> ev.session, host |-> ev.host]

\* The firings of Observe, in the order of its rules.  The escape rule only
\* notifies.
Firings(ev) ==
    (IF NewDomain(ev) THEN <<Alert("new_domain", ev)>> ELSE <<>>)
    \o (IF ev.kind = "fs.sensitive_read" THEN <<Alert("sensitive_read", ev)>> ELSE <<>>)
    \o (IF Bursts(ev) THEN <<Alert("burst", ev)>> ELSE <<>>)

NothingToSink == todo = <<>> /\ pairs = {}

Observe(ev) ==
    /\ NothingToSink /\ Len(observed) < MaxObserved
    /\ observed' = Append(observed, [kind |-> ev.kind, session |-> ev.session, at |-> clock])
    /\ seen' = IF NewDomain(ev) THEN [seen EXCEPT ![ev.session] = @ \cup {ev.host}] ELSE seen
    /\ times' = [times EXCEPT ![ev.session] =
         [c \in Class |-> IF c \in BurstClassOf(ev.kind) THEN Kept(ev, c) ELSE @[c]]]
    /\ burstArmed' = [burstArmed EXCEPT ![ev.session] =
         [c \in Class |->
            IF c \notin BurstClassOf(ev.kind) THEN @[c]
            ELSE Cardinality(Kept(ev, c)) < BurstThreshold]]
    /\ todo' = Firings(ev)
    /\ UNCHANGED <<clock, reads, domains, correlated, alertIdx, pairs, alerts, refused>>

----------------------------------------------------------------------------
(* The sink, and the correlation behind it *)

NextIdx(s) == alertIdx' = [alertIdx EXCEPT ![s] = @ + 1]

\* mutant: the window is open at its far end
InOpenWindow(S) == {e \in S : e.at + TrifectaWindow > clock}

\* pruneTrifecta and inWindowTrifecta: closed at the far end.
InWindow(S) == {e \in S : e.at + TrifectaWindow >= clock}

\* correlateTrifecta: what is sunk joins its side and is paired with everything
\* on the other side that is still in the window.
Correlate(a, idx) ==
    LET s == a.session
        e == [idx |-> idx, at |-> clock]
    IN  CASE a.rule = "sensitive_read" ->
               /\ reads' = [reads EXCEPT ![s] = InWindow(@ \cup {e})]
               /\ pairs' = {[session |-> s, read |-> idx, domain |-> d.idx] :
                               d \in InWindow(domains[s])}
               /\ UNCHANGED domains
          [] a.rule = "new_domain" ->
               /\ domains' = [domains EXCEPT ![s] = InWindow(@ \cup {e})]
               /\ pairs' = {[session |-> s, read |-> r.idx, domain |-> idx] :
                               r \in InWindow(reads[s])}
               /\ UNCHANGED reads
          [] OTHER -> UNCHANGED <<reads, domains, pairs>>

\* The next alert of a rule is appended, and correlated.
SinkAlert ==
    /\ todo # <<>> /\ pairs = {}
    /\ LET a == Head(todo) IN
        /\ alerts' = Append(alerts, [rule |-> a.rule, session |-> a.session, host |-> a.host,
                                     idx |-> alertIdx[a.session], at |-> clock])
        /\ NextIdx(a.session)
        /\ Correlate(a, alertIdx[a.session])
    /\ todo' = Tail(todo)
    /\ UNCHANGED <<clock, seen, times, burstArmed, correlated, observed, refused>>

\* The pair whose older half came first: the lists are in the order of time.
NextPair(x) == x \in pairs /\ \A y \in pairs : x.read <= y.read /\ x.domain <= y.domain

Escalated(x) == <<x.read, x.domain>> \in correlated[x.session]

Mark(x) == correlated' = [correlated EXCEPT ![x.session] = @ \cup {<<x.read, x.domain>>}]

\* emitTrifectaEscalation: a pair is marked, then its alert appended.
SinkEscalation(x) ==
    /\ NextPair(x)
    /\ IF Escalated(x) THEN UNCHANGED <<correlated, alertIdx, alerts>>
       ELSE /\ Mark(x)
            /\ NextIdx(x.session)
            /\ alerts' = Append(alerts, [rule |-> "escalation", session |-> x.session, read |-> x.read,
                                         domain |-> x.domain, idx |-> alertIdx[x.session], at |-> clock])
    /\ pairs' = pairs \ {x}
    /\ UNCHANGED <<clock, seen, times, burstArmed, reads, domains, todo, observed, refused>>

\* The sink refused an alert of session s: Observe returns, what else it had to
\* sink is dropped.
Refuse(s) ==
    /\ NextIdx(s)
    /\ refused' = refused \cup {s}
    /\ todo' = <<>> /\ pairs' = {}
    /\ UNCHANGED <<clock, seen, times, burstArmed, reads, domains, alerts, observed>>

AlertRefused ==
    /\ todo # <<>> /\ pairs = {}
    /\ Refuse(Head(todo).session) /\ UNCHANGED correlated

EscalationRefused(x) == NextPair(x) /\ ~Escalated(x) /\ Mark(x) /\ Refuse(x.session)

Elapse ==
    /\ clock < MaxNow /\ clock' = clock + 1
    /\ UNCHANGED <<seen, times, burstArmed, reads, domains, correlated, alertIdx, todo, pairs, alerts,
                   observed, refused>>

AlertNext ==
    \/ \E k \in Kind, s \in Session : \E h \in HostsOf(k) :
          Observe([kind |-> k, session |-> s, host |-> h])
    \/ SinkAlert \/ AlertRefused \/ Elapse
    \/ \E x \in pairs : SinkEscalation(x) \/ EscalationRefused(x)

AlertSpec == AlertInit /\ [][AlertNext]_alertVars

----------------------------------------------------------------------------
(* Properties *)

Of(s, rule) == {i \in DOMAIN alerts : alerts[i].session = s /\ alerts[i].rule = rule}

\* Exactly the pairs of a read and a new destination of one session that were
\* alerted within the window of each other are escalated, each once, whichever
\* came first and whatever was pruned in between.
PairsEscalated ==
    NothingToSink =>
        \A s \in Session \ refused : \A r \in Of(s, "sensitive_read"), d \in Of(s, "new_domain") :
            Cardinality({x \in Of(s, "escalation") :
                           alerts[x].read = alerts[r].idx /\ alerts[x].domain = alerts[d].idx})
              = (IF /\ alerts[r].at <= alerts[d].at + TrifectaWindow
                    /\ alerts[d].at <= alerts[r].at + TrifectaWindow THEN 1 ELSE 0)

\* An escalation stands behind both of its alerts, of its own session, even
\* when the sink refuses alerts.
EscalationFollowsItsPair ==
    \A s \in Session : \A x \in Of(s, "escalation") :
        /\ \E r \in Of(s, "sensitive_read") : r < x /\ alerts[r].idx = alerts[x].read
        /\ \E d \in Of(s, "new_domain") : d < x /\ alerts[d].idx = alerts[x].domain

\* Every pair that lies in the window is escalated, and nothing else.
EscalationsRight == PairsEscalated /\ EscalationFollowsItsPair

\* Events of class c of session s up to the i-th observed one, i included,
\* that lie in the burst window that ends with it.
Rate(i, s, c) ==
    Cardinality({j \in 1 .. i : observed[j].session = s /\ c \in BurstClassOf(observed[j].kind)
                                  /\ observed[j].at + BurstWindow > observed[i].at})

\* The events at which the rate has come to the threshold: not those at which
\* it stays there.
Edges(s, c) ==
    LET own == {i \in DOMAIN observed : observed[i].session = s /\ c \in BurstClassOf(observed[i].kind)}
        Over(i) == Rate(i, s, c) >= BurstThreshold
    IN  {i \in own : Over(i) /\ \A j \in own : (j < i /\ \A k \in own : ~(j < k /\ k < i)) => ~Over(j)}

\* rules.go, burstRule: firing is edge-triggered.  There are as many burst
\* alerts as times the rate rose to the threshold.
BurstsAtEdges ==
    NothingToSink =>
        \A s \in Session \ refused :
            Cardinality(Of(s, "burst")) = Cardinality(Edges(s, "flow_dns")) + Cardinality(Edges(s, "fs.write_open"))

=============================================================================
