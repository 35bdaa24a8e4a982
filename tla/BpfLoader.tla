----------------------------- MODULE BpfLoader ------------------------------
(***************************************************************************)
(* The loader of ranad's kernel programs: NewLoader, from the list of pins *)
(* a previous ranad left to the ring buffer reader, with every statement   *)
(* that can fail and a death between any two.  Attachments end with the    *)
(* process; pins stay until somebody removes them or the machine restarts. *)
(*                                                                         *)
(* One ranad runs at a time.  Each may be of another version of the        *)
(* program, with hooks of its own.                                         *)
(***************************************************************************)
EXTENDS Integers, FiniteSets

CONSTANTS Hook,             \* the mandatory programs of all versions
          ExecHook, NetHook,      \* those of the exec and of the net group
          LsmHook,          \* rana_socket_connect
          Baseline,         \* for each version, its baselineProgramNames
          DurableMap,       \* durablePinMapNames
          Kernel,           \* kernel releases, <<major, minor>>
          MaxStarts, MaxReboots     \* bounds

ASSUME LoaderAssumption ==
    /\ LsmHook \notin Hook \cup DurableMap /\ Hook \cap DurableMap = {}
    /\ IsFiniteSet(Hook) /\ Baseline \subseteq SUBSET Hook
    /\ Kernel \subseteq Nat \X (0 .. 255) /\ MaxStarts \in Nat /\ MaxReboots \in Nat

VARIABLES
    kernel,     \* the running kernel
    reboots,    \* bound
    starts,     \* the number of ranads started
    pins,       \* /sys/fs/bpf/rana: what is pinned by which start (0: nothing)
    loader,     \* the current ranad's
    recorded,   \* ours: how many loaders came up since the machine started
    gapGiven,   \* ours: whether the current loader returned a gap
    torn        \* ours: how many ranads ended between removing the pin of a program
                \* and pinning it again, since the machine started

loaderVars == <<kernel, reboots, starts, pins, loader, recorded, gapGiven, torn>>

Program == Hook \cup {LsmHook}
Down == [at |-> "down"]

Older(k, floor) == k[1] < floor[1] \/ (k[1] = floor[1] /\ k[2] < floor[2])

\* mutant: minor numbers compared whatever the major ones
TierForMinor(k) ==
    IF ~Older(k, <<6, 6>>) THEN 3 ELSE IF k[2] >= 18 THEN 2
    ELSE IF ~Older(k, <<5, 15>>) THEN 1 ELSE 0

TierForKernel(k) ==
    IF ~Older(k, <<6, 6>>) THEN 3 ELSE IF ~Older(k, <<5, 18>>) THEN 2
    ELSE IF ~Older(k, <<5, 15>>) THEN 1 ELSE 0

\* Features.LSMSocketConnect
WantsLsm(tier) == tier >= 2

WantedPrograms(baseline, tier) ==
    IF tier = 0 THEN {} ELSE baseline \cup (IF WantsLsm(tier) THEN {LsmHook} ELSE {})

Stale(pinned, wanted) == pinned \ wanted

LoaderInit ==
    /\ kernel \in Kernel /\ reboots = 0 /\ starts = 0
    /\ pins = [x \in Program \cup DurableMap |-> 0]
    /\ loader = Down /\ recorded = 0 /\ gapGiven = FALSE /\ torn = 0

PinnedProgramNames == {p \in Program : pins[p] # 0}

\* Past the checks, with the pins listed.
StartLoader(baseline) ==
    /\ loader = Down /\ starts < MaxStarts /\ TierForKernel(kernel) >= 1
    /\ starts' = starts + 1
    /\ loader' = [at |-> "exec", baseline |-> baseline,
                  wanted |-> WantedPrograms(baseline, TierForKernel(kernel)),
                  prevPinned |-> PinnedProgramNames, progs |-> {}, links |-> {}, degraded |-> FALSE,
                  toPin |-> {}, pinning |-> {}]
    /\ UNCHANGED <<kernel, reboots, pins, recorded, gapGiven, torn>>

Goes(change) ==
    loader' = change /\ UNCHANGED <<kernel, reboots, starts, recorded, gapGiven, torn>>

Loaded(progs, next) == [loader EXCEPT !.progs = @ \cup progs, !.at = next]

\* The groups, one collection after another.
LoadExec ==
    /\ loader.at = "exec" /\ Goes(Loaded(loader.baseline \cap ExecHook, "net")) /\ UNCHANGED pins

\* loadNetGroup: without the LSM hook when the tier does not want it, or when
\* the kernel refused the group with it.
LoadNet ==
    /\ loader.at = "net" /\ UNCHANGED pins
    /\ LET net == loader.baseline \cap NetHook
       IN  \/ LsmHook \in loader.wanted /\ Goes(Loaded(net \cup {LsmHook}, "rest"))
           \/ Goes([Loaded(net, "rest") EXCEPT !.degraded = LsmHook \in loader.wanted])

LoadRest ==
    /\ loader.at = "rest" /\ UNCHANGED pins
    /\ Goes(Loaded(loader.baseline \ (ExecHook \cup NetHook), "attach"))

\* In WantedPrograms' order, in which the LSM hook is the last.
ToAttach == loader.wanted \ loader.links

AttachOne(p) ==
    /\ loader.at = "attach" /\ p \in ToAttach \cap loader.progs
    /\ (p = LsmHook => ToAttach = {LsmHook} /\ ~loader.degraded)
    /\ Goes([loader EXCEPT !.links = @ \cup {p}]) /\ UNCHANGED pins

\* The LSM hook may be refused where every other program must attach.
AttachRefused ==
    /\ loader.at = "attach" /\ ToAttach = {LsmHook} /\ LsmHook \in loader.progs /\ ~loader.degraded
    /\ Goes([loader EXCEPT !.degraded = TRUE]) /\ UNCHANGED pins

UnpinStale ==
    /\ loader.at = "attach" /\ (ToAttach = {} \/ (ToAttach = {LsmHook} /\ loader.degraded))
    /\ pins' = [x \in DOMAIN pins |-> IF x \in Stale(loader.prevPinned, loader.wanted) THEN 0 ELSE pins[x]]
    /\ Goes([loader EXCEPT !.at = "progs", !.toPin = loader.progs])

\* pinProgram, pinMap: what is pinned by the name is removed first.
RemovePin(x) ==
    /\ loader.at \in {"progs", "maps"} /\ loader.pinning = {} /\ x \in loader.toPin
    /\ pins' = [pins EXCEPT ![x] = 0]
    /\ Goes([loader EXCEPT !.pinning = {x}])

Pin(x) ==
    /\ loader.at \in {"progs", "maps"} /\ x \in loader.pinning
    /\ pins' = [pins EXCEPT ![x] = starts]
    /\ Goes([loader EXCEPT !.pinning = {}, !.toPin = @ \ {x}])

PinMaps ==
    /\ loader.at = "progs" /\ loader.toPin = {}
    /\ Goes([loader EXCEPT !.at = "maps", !.toPin = DurableMap]) /\ UNCHANGED pins

\* The ring buffer reader; the gap, when anything was pinned at the start.
ComeUp ==
    /\ loader.at = "maps" /\ loader.toPin = {}
    /\ loader' = [loader EXCEPT !.at = "up"] /\ recorded' = recorded + 1
    /\ gapGiven' = (loader.prevPinned # {})
    /\ UNCHANGED <<kernel, reboots, starts, pins, torn>>

\* An error return (Close by the deferred call), a death, or a shutdown: the
\* attachments go, the pins stay.
LoaderEnds ==
    /\ loader # Down /\ loader' = Down
    /\ torn' = IF loader.pinning \cap Program = {} THEN torn ELSE torn + 1
    /\ UNCHANGED <<kernel, reboots, starts, pins, recorded, gapGiven>>

Reboot ==
    /\ reboots < MaxReboots /\ reboots' = reboots + 1
    /\ kernel' \in Kernel /\ pins' = [x \in DOMAIN pins |-> 0] /\ loader' = Down
    /\ recorded' = 0 /\ gapGiven' = FALSE /\ torn' = 0 /\ UNCHANGED starts

LoaderNext ==
    \/ \E baseline \in Baseline : StartLoader(baseline)
    \/ LoadExec \/ LoadNet \/ LoadRest
    \/ \E p \in Program : AttachOne(p)
    \/ AttachRefused \/ UnpinStale
    \/ \E x \in Program \cup DurableMap : RemovePin(x) \/ Pin(x)
    \/ PinMaps \/ ComeUp \/ LoaderEnds \/ Reboot

LoaderSpec == LoaderInit /\ [][LoaderNext]_loaderVars

----------------------------------------------------------------------------
(* Properties *)

Up == loader.at = "up"

\* NewLoader returns a loader only when every hook of its version is attached,
\* and on a kernel of 5.18 or newer the LSM hook as well or the reason it is not.
UpIsComplete ==
    Up => /\ loader.links \ {LsmHook} = loader.baseline
          /\ (LsmHook \in loader.links \/ loader.degraded)
                 <=> 1000 * kernel[1] + kernel[2] >= 5018

\* Under a running loader lies nothing of an older one, however often older
\* ones failed or died half way: each durable map and program is pinned by
\* this start.  Only the LSM hook of an older start, wanted still but refused
\* this time, is left.
PinsAreOwn ==
    Up => /\ \A m \in DurableMap : pins[m] = starts
          /\ {p \in Program : pins[p] = starts} = loader.progs
          /\ PinnedProgramNames \ loader.progs \subseteq (IF loader.degraded THEN {LsmHook} ELSE {})

\* The hooks of every version.
CommonHook == {h \in Hook : \A v \in Baseline : h \in v}

\* NewLoader: that recording stopped and resumed is told by every loader that
\* comes up after another did, whatever failed or died in between -- unless
\* ranads ended in the middle of replacing a program's pin as often as there
\* are such hooks: the order is a Go map's, so each may take another pin down.
RestartIsTold == (Up /\ recorded > 1 /\ torn < Cardinality(CommonHook)) => gapGiven

\* A loader that is up is whole, alone, and has told of those before it.
UpIsSound == UpIsComplete /\ PinsAreOwn /\ RestartIsTold

=============================================================================
