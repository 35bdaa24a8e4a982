---------------------------- MODULE SessionScope ----------------------------
(***************************************************************************)
(* The cgroup of a session and those who use it through the cgroup driver: *)
(* the run that creates it, puts its child in and removes it, and watchers *)
(* waiting for it to become empty (WatchEmpty).  The processes in it fork  *)
(* and exit as they like; the kernel tells inotify of a change of          *)
(* "populated" some time after it.                                         *)
(***************************************************************************)
EXTENDS Naturals, FiniteSets

CONSTANTS Proc, Child,      \* processes; the one the run starts
          Watch,            \* calls of WatchEmpty
          MaxFlips,         \* bound: changes of "populated"
          MaxFaults         \* bound: system calls of the watches that fail

ASSUME ScopeAssumption == Child \in Proc /\ MaxFaults \in Nat

VARIABLES
    scope,      \* the directory: "none", "there", "removed"
    members,    \* cgroup.procs
    alive,      \* the processes that exist
    changed,    \* the kernel has a change of "populated" to tell
    flips,      \* (bound)
    run,        \* the run's step
    watch,      \* each watch: where it is, its inotify events, its pipe
    faults,     \* (bound)
    \* history
    emptied,    \* the watches whose scope became empty since they were added
    broken,     \* the watches that gave up when a call of theirs failed
    misread     \* the watches whose last look at cgroup.events told nothing

faultVars == <<faults, broken, misread>>
scopeVars == <<scope, members, alive, changed, flips, run, watch, emptied, faultVars>>

Populated == members # {}

NoWatch == [at |-> "none", cancelled |-> FALSE, modified |-> FALSE, woken |-> FALSE]

ScopeInit ==
    /\ scope = "none" /\ members = {} /\ alive = {} /\ changed = FALSE /\ flips = 0
    /\ run = "start" /\ watch = [w \in Watch |-> NoWatch] /\ emptied = {}
    /\ faults = 0 /\ broken = {} /\ misread = {}

----------------------------------------------------------------------------
(* The kernel *)

Added(w) == watch[w].at \in {"poll", "read", "reread"}

\* A change of the members, and of "populated" with it.
Becomes(procs) ==
    /\ members' = procs
    /\ IF Populated = (procs # {}) THEN UNCHANGED <<changed, flips, emptied>>
       ELSE /\ flips < MaxFlips /\ flips' = flips + 1 /\ changed' = TRUE
            /\ emptied' = IF procs = {} THEN emptied \cup {w \in Watch : Added(w)} ELSE emptied

Fork(p, q) ==
    /\ p \in alive /\ q \notin alive \cup {Child} /\ alive' = alive \cup {q}
    /\ IF p \in members THEN Becomes(members \cup {q})
       ELSE UNCHANGED <<members, changed, flips, emptied>>
    /\ UNCHANGED <<scope, run, watch, faultVars>>

ProcExits(p) ==
    /\ p \in alive /\ alive' = alive \ {p} /\ Becomes(members \ {p})
    /\ UNCHANGED <<scope, run, watch, faultVars>>

\* IN_MODIFY, for the watches there are by now.
KernelTells ==
    /\ changed /\ changed' = FALSE
    /\ watch' = [w \in Watch |-> IF Added(w) THEN [watch[w] EXCEPT !.modified = TRUE] ELSE watch[w]]
    /\ UNCHANGED <<scope, members, alive, flips, run, emptied, faultVars>>

----------------------------------------------------------------------------
(* The run: CreateScope, cmd.Start, AddProcess, cmd.Wait, DestroyScope *)

CreateScope ==
    /\ run = "start" /\ scope = "none" /\ scope' = "there" /\ run' = "spawn"
    /\ UNCHANGED <<members, alive, changed, flips, watch, emptied, faultVars>>

StartChild ==
    /\ run = "spawn" /\ alive' = alive \cup {Child} /\ run' = "add"
    /\ UNCHANGED <<scope, members, changed, flips, watch, emptied, faultVars>>

\* A child that is gone by now is no error of the run.
AddProcess ==
    /\ run = "add" /\ run' = "wait"
    /\ Becomes(IF Child \in alive THEN members \cup {Child} ELSE members)
    /\ UNCHANGED <<scope, alive, watch, faultVars>>

\* rmdir is refused while anything is in the cgroup; the run leaves it then.
DestroyScope ==
    /\ run = "wait" /\ Child \notin alive /\ run' = "over"
    /\ scope' = IF Populated THEN scope ELSE "removed"
    /\ UNCHANGED <<members, alive, changed, flips, watch, emptied, faultVars>>

----------------------------------------------------------------------------
(* WatchEmpty *)

Moves(w, to) ==
    /\ watch' = [watch EXCEPT ![w].at = to]
    /\ UNCHANGED <<scope, members, alive, changed, flips, run, emptied, faultVars>>

\* The first read of cgroup.events; an empty scope is told at once.
ReadInitial(w) ==
    /\ watch[w].at = "none" /\ scope = "there" /\ ~watch[w].cancelled
    /\ Moves(w, IF Populated THEN "add" ELSE "closed")

\* inotify_add_watch and the goroutines; an error if the scope has gone.
AddWatch(w) ==
    /\ watch[w].at = "add" /\ Moves(w, IF scope = "there" THEN "poll" ELSE "refused")

\* poll returns with an event, or because the pipe was closed.
PollReturns(w) ==
    /\ watch[w].at = "poll" /\ (watch[w].modified \/ watch[w].woken)
    /\ Moves(w, IF watch[w].cancelled \/ watch[w].woken THEN "closed" ELSE "read")

\* read takes the events off the inotify descriptor.
ReadEvents(w) ==
    /\ watch[w].at = "read"
    /\ watch' = [watch EXCEPT ![w].at = "reread", ![w].modified = FALSE]
    /\ misread' = misread \ {w}
    /\ UNCHANGED <<scope, members, alive, changed, flips, run, emptied, faults, broken>>

\* mutant: the goroutine looks once and returns
LookOnce(w) ==
    /\ watch[w].at = "reread"
    /\ Moves(w, IF scope # "there" \/ ~Populated THEN "closed" ELSE "returned")

\* mutant: any event is taken for the last process leaving
LookAtNothing(w) == watch[w].at = "reread" /\ Moves(w, "closed")

\* cgroup.events again; that of a scope that is gone cannot be read.
LookAgain(w) ==
    /\ watch[w].at = "reread"
    /\ Moves(w, IF scope # "there" \/ ~Populated THEN "closed" ELSE "poll")

\* The caller's context; the helper goroutine closes the pipe later.
CancelWatch(w) ==
    /\ Added(w) /\ ~watch[w].cancelled /\ watch' = [watch EXCEPT ![w].cancelled = TRUE]
    /\ UNCHANGED <<scope, members, alive, changed, flips, run, emptied, faultVars>>

Wake(w) ==
    /\ watch[w].cancelled /\ ~watch[w].woken /\ watch' = [watch EXCEPT ![w].woken = TRUE]
    /\ UNCHANGED <<scope, members, alive, changed, flips, run, emptied, faultVars>>

(* Calls that fail *)

CallFails(w, to) ==
    /\ faults < MaxFaults /\ faults' = faults + 1
    /\ watch' = [watch EXCEPT ![w].at = to]
    /\ UNCHANGED <<scope, members, alive, changed, flips, run, emptied>>

\* The first read, its parsing, inotify or the pipe: WatchEmpty returns the
\* error, and nobody watches.
SetupFails(w) ==
    /\ watch[w].at = "add" \/ (watch[w].at = "none" /\ scope = "there" /\ ~watch[w].cancelled)
    /\ CallFails(w, "refused")
    /\ UNCHANGED <<broken, misread>>

\* The goroutine closes the channel and gives up.
GivesUp(w) ==
    /\ CallFails(w, "closed")
    /\ broken' = broken \cup {w}
    /\ UNCHANGED misread

\* poll, not because of a signal ...
PollFails(w) == watch[w].at = "poll" /\ GivesUp(w)

\* ... read, not for want of events or because of a signal ...
ReadFails(w) == watch[w].at = "read" /\ GivesUp(w)

\* ... and reading cgroup.events, of a scope that is still there.
RereadFails(w) == watch[w].at = "reread" /\ GivesUp(w)

\* No events after all, or a signal: back to poll with nothing taken.
ReadInterrupted(w) ==
    /\ watch[w].at = "read"
    /\ CallFails(w, "poll")
    /\ UNCHANGED <<broken, misread>>

\* cgroup.events is not understood: back to poll, the events have been taken.
Misreads(w) ==
    /\ watch[w].at = "reread"
    /\ CallFails(w, "poll")
    /\ misread' = misread \cup {w}
    /\ UNCHANGED broken

WatcherFaults(w) ==
    SetupFails(w) \/ PollFails(w) \/ ReadFails(w) \/ RereadFails(w) \/ ReadInterrupted(w) \/ Misreads(w)

----------------------------------------------------------------------------

WatcherSteps(w) == AddWatch(w) \/ PollReturns(w) \/ ReadEvents(w) \/ LookAgain(w) \/ Wake(w)

ScopeNext ==
    \/ \E p, q \in Proc : Fork(p, q)
    \/ \E p \in Proc : ProcExits(p)
    \/ KernelTells \/ CreateScope \/ StartChild \/ AddProcess \/ DestroyScope
    \/ \E w \in Watch : ReadInitial(w) \/ WatcherSteps(w) \/ CancelWatch(w) \/ WatcherFaults(w)

\* The kernel tells what it has to, and goroutines run.
ScopeFairness ==
    /\ WF_scopeVars(KernelTells)
    /\ \A w \in Watch : WF_scopeVars(WatcherSteps(w))

ScopeSpec == ScopeInit /\ [][ScopeNext]_scopeVars /\ ScopeFairness

----------------------------------------------------------------------------
(* Properties *)

Closed(w) == watch[w].at = "closed"

\* watchCgroupEmpty: a scope that becomes empty once the watch is added, and
\* stays so, is told, whatever else the watcher was woken for before and
\* whichever of its calls fail; but not to a watcher whose last look at
\* cgroup.events told it nothing, which waits for another change.
EmptiedIsTold ==
    \A w \in Watch :
        (w \in emptied /\ ~Populated) ~> (Closed(w) \/ Populated \/ w \in misread)

\* ctx cancellation closes the channel, wherever the watcher is.
CancelledWatchCloses == \A w \in Watch : watch[w].cancelled ~> Closed(w)

\* The channel is closed when the scope is empty, or gone, or nobody waits, or
\* the watcher gives up because a call of its own has just failed (so that the
\* caller is not blocked for ever), for no event of anybody else's, and never
\* opens again.
ClosedForCause ==
    [][\A w \in Watch :
          /\ Closed(w) => Closed(w)'
          /\ (~Closed(w) /\ Closed(w)')
                 => \/ ~Populated \/ scope # "there" \/ watch[w].cancelled
                    \/ w \in broken' \ broken]_scopeVars

\* A watcher that has something to hear hears it.
WatchersAreTold == EmptiedIsTold /\ CancelledWatchCloses

\* "closes the moment populated reads 0": a scope that is empty for good is
\* told to everyone who watches it.
EmptyIsTold == \A w \in Watch : [](Added(w) => ((~Populated) ~> (Closed(w) \/ Populated)))

=============================================================================
