------------------------------ MODULE LiveTail ------------------------------
(***************************************************************************)
(* The live tail of one session: LedgerDataSource.Stream and PublishLive,  *)
(* the service's append-then-publish, and the page that reads the tail.    *)
(*                                                                         *)
(* The subscribers are a Go slice.  PublishLive copies its header under    *)
(* the mutex and walks it without: the backing array is shared with later  *)
(* appends, which fill free slots in place, and with removals, which move  *)
(* the slots down in place.                                                *)
(***************************************************************************)
EXTENDS Naturals, Sequences

CONSTANTS Publisher,     \* goroutines that append: HandleConn, digest worker
          Viewer,        \* pages, one subscription each
          Nobody,        \* not a viewer: an empty slot
          TailBuffer,    \* streamBufferSize
          MaxPublished   \* bound: events per publisher

ASSUME LiveTailAssumption ==
    Nobody \notin Viewer /\ TailBuffer \in Nat \ {0} /\ MaxPublished \in Nat

VARIABLES
    stored,      \* per publisher: how many of its events are rows of the ledger
    heap,        \* backing arrays, oldest first
    subs,        \* the slice header: which array, and how long
    moving,      \* a removal that holds mu: the viewer, the slots still to move
    publishing,  \* per publisher: its event, its copy of the header, its place in it
    sub,         \* per viewer: where its subscription stands
    buffer,      \* per viewer: its channel
    page,        \* per viewer: how often the page shows an event
    maxIdx,      \* per viewer: the page's maxIdx
    sent,        \* per viewer: how often its channel was given an event
    dropped,     \* per viewer: what found its channel full
    panicked     \* a send on a closed channel has ended the process

pubVars  == <<stored, publishing>>
subVars  == <<heap, subs, moving>>
tailVars == <<stored, heap, subs, moving, publishing, sub, buffer, page,
              maxIdx, sent, dropped, panicked>>

----------------------------------------------------------------------------

Event == Publisher \X (1 .. MaxPublished)

\* idx.go: events of the service itself are numbered from svcIdxBase, those of
\* ranad from 0.  Publishers are interchangeable otherwise.
KernelFirst == CHOOSE p \in Publisher : TRUE
Idx(e) == IF e[1] = KernelFirst THEN e[2] - 1 ELSE MaxPublished + e[2] - 1

NoSlice == [array |-> 0, len |-> 0]

\* append(list, ch): in place while the array has room, else into a new array
\* of twice the length.
HasRoom(s) == s.array # 0 /\ s.len < Len(heap[s.array])
Grown(s, v) ==
    [i \in 1 .. (IF s.len = 0 THEN 1 ELSE 2 * s.len) |->
        IF i <= s.len THEN heap[s.array][i] ELSE IF i = s.len + 1 THEN v ELSE Nobody]

MuFree == moving.viewer = Nobody
Idle == [phase |-> "idle"]
Walking(p) == publishing[p].phase = "walking"
Never == [e \in Event |-> 0]

TailInit ==
    /\ stored = [p \in Publisher |-> 0] /\ heap = <<>> /\ subs = NoSlice
    /\ moving = [viewer |-> Nobody, left |-> {}, from |-> 0]
    /\ publishing = [p \in Publisher |-> Idle]
    /\ sub = [v \in Viewer |-> "none"]
    /\ buffer = [v \in Viewer |-> <<>>]
    /\ page = [v \in Viewer |-> Never]
    /\ maxIdx = [v \in Viewer |-> 0]
    /\ sent = [v \in Viewer |-> Never]
    /\ dropped = [v \in Viewer |-> {}]
    /\ panicked = FALSE

----------------------------------------------------------------------------
(* The publishers *)

\* appendAndPublish: the writer has taken the event; PublishLive follows.
Persist(p) ==
    /\ publishing[p] = Idle /\ stored[p] < MaxPublished
    /\ stored' = [stored EXCEPT ![p] = @ + 1]
    /\ publishing' = [publishing EXCEPT ![p] = [phase |-> "stored", event |-> <<p, stored[p] + 1>>]]
    /\ UNCHANGED <<heap, subs, moving, sub, buffer, page, maxIdx, sent, dropped, panicked>>

\* subs := ds.subs[ev.Session], under mu.  calm is ours: no slot has moved since.
CopyHeader(p) ==
    /\ publishing[p].phase = "stored" /\ MuFree
    /\ publishing' = [publishing EXCEPT ![p] =
         IF subs.len = 0 THEN Idle
         ELSE [phase |-> "walking", event |-> publishing[p].event, list |-> subs, at |-> 1,
               to |-> Nobody, calm |-> TRUE]]
    /\ UNCHANGED <<stored, heap, subs, moving, sub, buffer, page, maxIdx, sent, dropped, panicked>>

\* The next iteration reads a slot, whatever it holds by now.
ReadSlot(p) ==
    /\ Walking(p) /\ publishing[p].to = Nobody
    /\ publishing' = [publishing EXCEPT ![p].to = heap[publishing[p].list.array][publishing[p].at]]
    /\ UNCHANGED <<stored, heap, subs, moving, sub, buffer, page, maxIdx, sent, dropped, panicked>>

HasSpace(v) == Len(buffer[v]) < TailBuffer

\* What the non-blocking select does with a channel: true when it sends.
Offer(v, e) ==
    IF HasSpace(v)
    THEN /\ buffer' = [buffer EXCEPT ![v] = Append(@, e)]
         /\ sent' = [sent EXCEPT ![v][e] = @ + 1]
         /\ UNCHANGED dropped
    ELSE /\ dropped' = [dropped EXCEPT ![v] = @ \cup {e}]
         /\ UNCHANGED <<buffer, sent>>

\* mutant: the first full channel ends the loop
PublishStops(p) ==
    /\ Walking(p) /\ publishing[p].to # Nobody
    /\ LET job == publishing[p] IN
       IF sub[job.to] = "closed"
       THEN panicked' = TRUE /\ UNCHANGED <<publishing, buffer, sent, dropped>>
       ELSE /\ Offer(job.to, job.event)
            /\ publishing' = [publishing EXCEPT ![p] =
                 IF job.at = job.list.len \/ ~HasSpace(job.to) THEN Idle ELSE [job EXCEPT !.at = @ + 1, !.to = Nobody]]
            /\ UNCHANGED panicked
    /\ UNCHANGED <<stored, heap, subs, moving, sub, page, maxIdx>>

\* mutant: the send waits for space
PublishWaits(p) ==
    /\ Walking(p) /\ publishing[p].to # Nobody
    /\ HasSpace(publishing[p].to) /\ Offer(publishing[p].to, publishing[p].event)
    /\ publishing' = [publishing EXCEPT ![p] =
         IF @.at = @.list.len THEN Idle ELSE [@ EXCEPT !.at = @ + 1, !.to = Nobody]]
    /\ UNCHANGED <<stored, heap, subs, moving, sub, page, maxIdx, panicked>>

\* One send of PublishLive: a closed channel panics, full or not.
Publish(p) ==
    /\ Walking(p) /\ publishing[p].to # Nobody
    /\ LET job == publishing[p] IN
       IF sub[job.to] = "closed"
       THEN panicked' = TRUE /\ UNCHANGED <<publishing, buffer, sent, dropped>>
       ELSE /\ Offer(job.to, job.event)
            /\ publishing' = [publishing EXCEPT ![p] =
                 IF job.at = job.list.len THEN Idle ELSE [job EXCEPT !.at = @ + 1, !.to = Nobody]]
            /\ UNCHANGED panicked
    /\ UNCHANGED <<stored, heap, subs, moving, sub, page, maxIdx>>

PublisherStep(p) == Persist(p) \/ CopyHeader(p) \/ ReadSlot(p) \/ Publish(p)

----------------------------------------------------------------------------
(* The viewers *)

\* app.ts, select: the page loads Events(session, after = 0), which asks for
\* idx > after, and only then opens the stream.
Load(v) ==
    /\ sub[v] = "none"
    /\ LET rows == {e \in Event : e[2] <= stored[e[1]] /\ Idx(e) > 0}
       IN  /\ page' = [page EXCEPT ![v] = [e \in Event |-> IF e \in rows THEN 1 ELSE 0]]
           /\ \E m \in {0} \cup {Idx(e) : e \in rows} :
                 (\A e \in rows : Idx(e) <= m) /\ maxIdx' = [maxIdx EXCEPT ![v] = m]
    /\ sub' = [sub EXCEPT ![v] = "loaded"]
    /\ UNCHANGED <<stored, heap, subs, moving, publishing, buffer, sent, dropped, panicked>>

\* Stream.
Subscribe(v) ==
    /\ sub[v] = "loaded" /\ MuFree
    /\ IF HasRoom(subs)
       THEN /\ heap' = [heap EXCEPT ![subs.array][subs.len + 1] = v]
            /\ subs' = [subs EXCEPT !.len = @ + 1]
       ELSE /\ heap' = Append(heap, Grown(subs, v))
            /\ subs' = [array |-> Len(heap) + 1, len |-> subs.len + 1]
    /\ sub' = [sub EXCEPT ![v] = "open"]
    /\ UNCHANGED <<stored, moving, publishing, buffer, page, maxIdx, sent, dropped, panicked>>

\* onmessage: what is not beyond the page's maxIdx is not shown.
Shows(v, e) == page[v] = Never \/ Idx(e) > maxIdx[v]

\* serveStream reads the next event, for a page that may have been left.
Take(v) ==
    /\ sub[v] \in {"open", "cancelled", "removed"} /\ buffer[v] # <<>>
    /\ LET e == Head(buffer[v]) IN
       IF sub[v] = "open" /\ Shows(v, e)
       THEN /\ page' = [page EXCEPT ![v][e] = @ + 1]
            /\ maxIdx' = [maxIdx EXCEPT ![v] = IF Idx(e) > @ THEN Idx(e) ELSE @]
       ELSE UNCHANGED <<page, maxIdx>>
    /\ buffer' = [buffer EXCEPT ![v] = Tail(@)]
    /\ UNCHANGED <<stored, heap, subs, moving, publishing, sub, sent, dropped, panicked>>

\* The page is left, and gone with what it showed: its request's context is done.
Cancel(v) ==
    /\ sub[v] = "open"
    /\ sub' = [sub EXCEPT ![v] = "cancelled"]
    /\ page' = [page EXCEPT ![v] = Never] /\ maxIdx' = [maxIdx EXCEPT ![v] = 0]
    /\ UNCHANGED <<stored, heap, subs, moving, publishing, buffer, sent, dropped, panicked>>

Place(v) == CHOOSE i \in 1 .. subs.len : heap[subs.array][i] = v

\* The goroutine Stream started: it finds the channel, moves the slots behind
\* it down one by one, and shortens the slice.
BeginRemoval(v) ==
    /\ sub[v] = "cancelled" /\ MuFree
    /\ moving' = [viewer |-> v, left |-> Place(v) .. (subs.len - 1), from |-> subs.array]
    /\ publishing' = [p \in Publisher |->
         IF Walking(p) THEN [publishing[p] EXCEPT !.calm = FALSE] ELSE publishing[p]]
    /\ UNCHANGED <<stored, heap, subs, sub, buffer, page, maxIdx, sent, dropped, panicked>>

MoveSlot ==
    /\ moving.left # {}
    /\ LET i == CHOOSE j \in moving.left : \A k \in moving.left : j <= k
       IN  /\ heap' = [heap EXCEPT ![moving.from][i] = heap[moving.from][i + 1]]
           /\ moving' = [moving EXCEPT !.left = @ \ {i}]
    /\ UNCHANGED <<stored, subs, publishing, sub, buffer, page, maxIdx, sent, dropped, panicked>>

\* mutant: the slice keeps its length
EndRemovalKept(v) ==
    /\ moving.viewer = v /\ moving.left = {}
    /\ moving' = [viewer |-> Nobody, left |-> {}, from |-> 0]
    /\ sub' = [sub EXCEPT ![v] = "removed"]
    /\ UNCHANGED <<stored, heap, subs, publishing, buffer, page, maxIdx, sent, dropped, panicked>>

EndRemoval(v) ==
    /\ moving.viewer = v /\ moving.left = {}
    /\ subs' = [subs EXCEPT !.len = @ - 1]
    /\ moving' = [viewer |-> Nobody, left |-> {}, from |-> 0]
    /\ sub' = [sub EXCEPT ![v] = "removed"]
    /\ UNCHANGED <<stored, heap, publishing, buffer, page, maxIdx, sent, dropped, panicked>>

CloseChannel(v) ==
    /\ sub[v] = "removed"
    /\ sub' = [sub EXCEPT ![v] = "closed"]
    /\ UNCHANGED <<stored, heap, subs, moving, publishing, buffer, page, maxIdx, sent, dropped, panicked>>

Removal(v) == BeginRemoval(v) \/ (moving.viewer = v /\ MoveSlot) \/ EndRemoval(v) \/ CloseChannel(v)

----------------------------------------------------------------------------

\* After a panic there is no process.
TailNext ==
    /\ ~panicked
    /\ \/ \E p \in Publisher : PublisherStep(p)
       \/ \E v \in Viewer : Load(v) \/ Subscribe(v) \/ Take(v) \/ Cancel(v) \/ Removal(v)

TailSpec == TailInit /\ [][TailNext]_tailVars

\* Publishers and removals are scheduled.  No reader has to read, no page to be left.
TailFairness ==
    /\ \A p \in Publisher : WF_tailVars(~panicked /\ (CopyHeader(p) \/ ReadSlot(p) \/ Publish(p)))
    /\ \A v \in Viewer : WF_tailVars(~panicked /\ Removal(v))

----------------------------------------------------------------------------
(* Properties *)

\* With mu free the slice holds every subscription that was opened and not yet
\* removed, each once, through growth in place, reallocation and removal.
SubscribersListed ==
    MuFree =>
        /\ \A i \in 1 .. subs.len : sub[heap[subs.array][i]] \in {"open", "cancelled"}
        /\ \A v \in Viewer : sub[v] \in {"open", "cancelled"} =>
              \E i \in 1 .. subs.len : \A j \in 1 .. subs.len : heap[subs.array][j] = v <=> j = i

\* The page shows no event twice: not one that is both in the rows it loaded
\* and in the tail, nor one the tail delivers twice.
PageShowsOnce ==
    \A v \in Viewer, e \in Event : page[v][e] <= 1

\* A PublishLive that no removal overlapped has offered its event once to every
\* subscriber of its copy of the list, and to each either sent or dropped it.
CalmPublishReachesAll ==
    [][\A p \in Publisher :
         (Walking(p) /\ publishing[p].calm /\ publishing'[p] = Idle) =>
            \A i \in 1 .. publishing[p].list.len :
                LET v == heap[publishing[p].list.array][i]
                    e == publishing[p].event
                IN  sent'[v][e] + (IF e \in dropped'[v] THEN 1 ELSE 0) = 1]_tailVars

\* PublishLive ends whatever the readers do (or the process has died).
PublishNeverWaits == \A p \in Publisher : (publishing[p] # Idle) ~> (publishing[p] = Idle \/ panicked)

\* Stream closes its channel once the context is done.
CancelledIsClosed == \A v \in Viewer : (sub[v] = "cancelled") ~> (sub[v] = "closed" \/ panicked)

\* Both ends of the tail are sound: the list of subscribers, and the page.
TailIsSound == SubscribersListed /\ PageShowsOnce

\* Nobody is left waiting: neither the publisher nor a page that was left.
TailServes == PublishNeverWaits /\ CancelledIsClosed

\* CONTRACTS.md: a slow reader can only hurt itself.
TailIsInert == ~panicked

=============================================================================
