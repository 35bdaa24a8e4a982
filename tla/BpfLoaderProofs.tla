--------------------------- MODULE BpfLoaderProofs ---------------------------
(***************************************************************************)
(* Proofs about the loader of ranad's kernel programs, for any versions,   *)
(* hooks, maps and kernels and any number of starts and restarts.          *)
(*                                                                         *)
(* LoaderIsSound rests on an invariant in four parts: the types, what is   *)
(* loaded and attached after each statement of NewLoader (LoadOK), whose   *)
(* pins are there (PinOK), and how many of the common hooks can be without *)
(* a pin (ToldOK), which counts the ranads that ended while replacing one. *)
(***************************************************************************)
EXTENDS BpfLoader, FiniteSetTheorems, TLAPS

----------------------------------------------------------------------------
(* The kernel's tier *)

\* The LSM hook is wanted from 5.18 on, whatever the major number.
LEMMA TierBoundary ==
    ASSUME NEW k \in Nat \X (0 .. 255)
    PROVE  WantsLsm(TierForKernel(k)) <=> 1000 * k[1] + k[2] >= 5018
<1>1. k[1] \in Nat /\ k[2] \in 0 .. 255
  OBVIOUS
<1>2. ~Older(k, <<5, 18>>) <=> 1000 * k[1] + k[2] >= 5018
  BY <1>1 DEF Older
<1>3. Older(k, <<5, 15>>) => Older(k, <<5, 18>>)
  BY <1>1 DEF Older
<1>4. ~Older(k, <<6, 6>>) => ~Older(k, <<5, 18>>)
  BY <1>1 DEF Older
<1> QED  BY <1>2, <1>3, <1>4 DEF WantsLsm, TierForKernel

----------------------------------------------------------------------------
(* Type correctness *)

Pinnable == Program \cup DurableMap

LoaderState ==
    [at : {"exec", "net", "rest", "attach", "progs", "maps", "up"}, baseline : Baseline,
     wanted : SUBSET Program, prevPinned : SUBSET Program, progs : SUBSET Program,
     links : SUBSET Program, degraded : BOOLEAN, toPin : SUBSET Pinnable,
     pinning : SUBSET Pinnable]

LoaderTypeOK ==
    /\ kernel \in Kernel /\ reboots \in Nat /\ starts \in Nat /\ recorded \in Nat
    /\ torn \in Nat /\ gapGiven \in BOOLEAN
    /\ pins \in [Pinnable -> Nat]
    /\ loader \in {Down} \cup LoaderState

\* A loader that runs is told from none.
LEMMA Running ==
    ASSUME loader \in {Down} \cup LoaderState
    PROVE  /\ loader = Down <=> loader.at = "down"
           /\ loader # Down <=> loader \in LoaderState
  BY DEF Down, LoaderState

\* Types at the start,
LEMMA InitLoaderType == LoaderInit => LoaderTypeOK
<1> SUFFICES ASSUME LoaderInit PROVE LoaderTypeOK
  OBVIOUS
<1>1. /\ kernel \in Kernel /\ reboots = 0 /\ starts = 0 /\ recorded = 0 /\ gapGiven = FALSE
      /\ torn = 0 /\ loader = Down /\ pins = [x \in Pinnable |-> 0]
  BY DEF LoaderInit, Pinnable
<1>2. pins \in [Pinnable -> Nat]
  BY <1>1
<1> QED  BY <1>1, <1>2 DEF LoaderTypeOK

\* and after every step.
LEMMA NextLoaderType == LoaderTypeOK /\ [LoaderNext]_loaderVars => LoaderTypeOK'
<1> SUFFICES ASSUME LoaderTypeOK, [LoaderNext]_loaderVars PROVE LoaderTypeOK'
  OBVIOUS
<1>0. /\ kernel \in Kernel /\ reboots \in Nat /\ starts \in Nat /\ recorded \in Nat
      /\ torn \in Nat /\ gapGiven \in BOOLEAN
      /\ pins \in [Pinnable -> Nat]
      /\ loader \in {Down} \cup LoaderState
  BY DEF LoaderTypeOK
<1>G. ASSUME NEW change \in LoaderState, Goes(change), pins' \in [Pinnable -> Nat]
      PROVE  LoaderTypeOK'
  BY <1>0, <1>G DEF Goes, LoaderTypeOK
<1>B. ASSUME NEW b \in Baseline PROVE b \in SUBSET Program
  BY <1>B, LoaderAssumption DEF Program
<1>L. LsmHook \in Program /\ Program \subseteq Pinnable
  BY DEF Program, Pinnable
<1>1. ASSUME NEW b \in Baseline, StartLoader(b) PROVE LoaderTypeOK'
  <2>1. WantedPrograms(b, TierForKernel(kernel)) \in SUBSET Program
    BY <1>B, <1>L DEF WantedPrograms
  <2>2. PinnedProgramNames \in SUBSET Program
    BY DEF PinnedProgramNames
  <2>3. loader' \in LoaderState
    BY <1>1, <2>1, <2>2 DEF StartLoader, LoaderState
  <2>4. starts' = starts + 1 /\ UNCHANGED <<kernel, reboots, pins, recorded, gapGiven, torn>>
    BY <1>1 DEF StartLoader
  <2> QED  BY <1>0, <2>3, <2>4 DEF LoaderTypeOK
<1>2. CASE LoadExec \/ LoadNet \/ LoadRest
  <2>1. loader \in LoaderState /\ pins' = pins
    BY <1>0, <1>2 DEF LoadExec, LoadNet, LoadRest, Down
  <2>2. loader.baseline \in SUBSET Program
    BY <1>B, <2>1 DEF LoaderState
  <2>3. CASE LoadExec
    <3>1. Loaded(loader.baseline \cap ExecHook, "net") \in LoaderState
      BY <2>1, <2>2 DEF LoaderState, Loaded
    <3> QED  BY <1>0, <1>G, <2>1, <2>3, <3>1 DEF LoadExec
  <2>4. CASE LoadNet
    <3> DEFINE net == loader.baseline \cap NetHook
    <3>1. Loaded(net \cup {LsmHook}, "rest") \in LoaderState
      BY <1>L, <2>1, <2>2 DEF LoaderState, Loaded
    <3>3. Loaded(net, "rest") \in LoaderState
      BY <2>1, <2>2 DEF LoaderState, Loaded
    <3>4. (LsmHook \in loader.wanted) \in BOOLEAN
      <4>1. CASE LsmHook \in loader.wanted
        <5>1. (LsmHook \in loader.wanted) = TRUE
          BY <4>1
        <5> QED  BY <5>1
      <4>2. CASE LsmHook \notin loader.wanted
        <5>1. (LsmHook \in loader.wanted) = FALSE
          BY <4>2
        <5> QED  BY <5>1
      <4> QED  BY <4>1, <4>2
    <3>5. [Loaded(net, "rest") EXCEPT !.degraded = LsmHook \in loader.wanted] \in LoaderState
      BY <3>3, <3>4, Zenon DEF LoaderState
    <3>2. \/ Goes(Loaded(net \cup {LsmHook}, "rest"))
          \/ Goes([Loaded(net, "rest") EXCEPT !.degraded = LsmHook \in loader.wanted])
      BY <2>4 DEF LoadNet
    <3> HIDE DEF net
    <3> QED  BY <1>0, <1>G, <2>1, <3>1, <3>5, <3>2
  <2>5. CASE LoadRest
    <3>1. Loaded(loader.baseline \ (ExecHook \cup NetHook), "attach") \in LoaderState
      BY <2>1, <2>2 DEF LoaderState, Loaded
    <3> QED  BY <1>0, <1>G, <2>1, <2>5, <3>1 DEF LoadRest
  <2> QED  BY <1>2, <2>3, <2>4, <2>5
<1>3. ASSUME NEW p \in Program, AttachOne(p) PROVE LoaderTypeOK'
  <2>1. loader \in LoaderState /\ pins' = pins
    BY <1>0, <1>3 DEF AttachOne, Down
  <2>2. [loader EXCEPT !.links = @ \cup {p}] \in LoaderState
    BY <2>1 DEF LoaderState
  <2> QED  BY <1>0, <1>G, <1>3, <2>1, <2>2 DEF AttachOne
<1>4. CASE AttachRefused
  <2>1. loader \in LoaderState /\ pins' = pins
    BY <1>0, <1>4 DEF AttachRefused, Down
  <2>2. [loader EXCEPT !.degraded = TRUE] \in LoaderState
    BY <2>1 DEF LoaderState
  <2> QED  BY <1>0, <1>G, <1>4, <2>1, <2>2 DEF AttachRefused
<1>5. CASE UnpinStale
  <2>1. loader \in LoaderState
    BY <1>0, <1>5 DEF UnpinStale, Down
  <2>2. pins' \in [Pinnable -> Nat]
    BY <1>0, <1>5 DEF UnpinStale
  <2>3. loader.progs \in SUBSET Pinnable
    BY <1>L, <2>1 DEF LoaderState
  <2>4. [loader EXCEPT !.at = "progs", !.toPin = loader.progs] \in LoaderState
    BY <2>1, <2>3 DEF LoaderState
  <2> QED  BY <1>G, <1>5, <2>2, <2>4 DEF UnpinStale
<1>6. ASSUME NEW x \in Pinnable, RemovePin(x) \/ Pin(x) PROVE LoaderTypeOK'
  <2>1. loader \in LoaderState
    BY <1>0, <1>6 DEF RemovePin, Pin, Down
  <2>2. pins' \in [Pinnable -> Nat]
    BY <1>0, <1>6 DEF RemovePin, Pin
  <2>3. /\ [loader EXCEPT !.pinning = {x}] \in LoaderState
        /\ [loader EXCEPT !.pinning = {}, !.toPin = @ \ {x}] \in LoaderState
    BY <2>1 DEF LoaderState
  <2> QED  BY <1>G, <1>6, <2>2, <2>3 DEF RemovePin, Pin
<1>7. CASE PinMaps
  <2>1. loader \in LoaderState /\ pins' = pins
    BY <1>0, <1>7 DEF PinMaps, Down
  <2>2. [loader EXCEPT !.at = "maps", !.toPin = DurableMap] \in LoaderState
    BY <2>1 DEF LoaderState, Pinnable
  <2> QED  BY <1>0, <1>G, <1>7, <2>1, <2>2 DEF PinMaps
<1>8. CASE ComeUp
  <2>1. loader \in LoaderState
    BY <1>0, <1>8 DEF ComeUp, Down
  <2>2. loader' \in LoaderState
    BY <1>8, <2>1 DEF ComeUp, LoaderState
  <2>3. /\ recorded' = recorded + 1 /\ gapGiven' \in BOOLEAN
        /\ UNCHANGED <<kernel, reboots, starts, pins, torn>>
    BY <1>8 DEF ComeUp
  <2> QED  BY <1>0, <2>2, <2>3 DEF LoaderTypeOK
<1>9. CASE LoaderEnds
  <2>1. /\ loader' = Down /\ torn' \in Nat
        /\ UNCHANGED <<kernel, reboots, starts, pins, recorded, gapGiven>>
    BY <1>0, <1>9 DEF LoaderEnds
  <2>2. loader' \in {Down} \cup LoaderState
    BY <2>1
  <2> QED  BY <1>0, <2>1, <2>2 DEF LoaderTypeOK
<1>10. CASE Reboot
  <2>1. /\ loader' = Down /\ torn' = 0 /\ recorded' = 0 /\ gapGiven' = FALSE /\ starts' = starts
        /\ kernel' \in Kernel /\ reboots' = reboots + 1 /\ pins' \in [Pinnable -> Nat]
    BY <1>0, <1>10 DEF Reboot
  <2>2. loader' \in {Down} \cup LoaderState
    BY <2>1
  <2>3. reboots' \in Nat /\ recorded' \in Nat /\ torn' \in Nat /\ starts' \in Nat
    BY <1>0, <2>1
  <2>4. gapGiven' \in BOOLEAN
    BY <2>1, Zenon
  <2> QED  BY <2>1, <2>2, <2>3, <2>4, Zenon DEF LoaderTypeOK
<1>11. CASE UNCHANGED loaderVars
  BY <1>0, <1>11 DEF loaderVars, LoaderTypeOK
<1> QED  BY <1>1, <1>2, <1>3, <1>4, <1>5, <1>6, <1>7, <1>8, <1>9, <1>10, <1>11
         DEF LoaderNext, Pinnable

----------------------------------------------------------------------------
(* What is loaded and attached *)

\* The mandatory programs of the loader's version, and the LSM hook by tier.
WantsRight(l) ==
    /\ l.wanted \ {LsmHook} = l.baseline
    /\ LsmHook \in l.wanted <=> 1000 * kernel[1] + kernel[2] >= 5018

\* After each group, what is loaded so far; the LSM hook comes with the second
\* or is degraded, and is attached or degraded at the end of attaching.
LoadsRight(l) ==
    /\ l.at = "exec" => l.progs = {}
    /\ l.at = "net" => l.progs = l.baseline \cap ExecHook
    /\ l.at = "rest" => l.progs \ {LsmHook} = l.baseline \cap (ExecHook \cup NetHook)
    /\ l.at \notin {"exec", "net", "rest"} => l.progs \ {LsmHook} = l.baseline
    /\ l.at \in {"exec", "net"} => ~l.degraded
    /\ l.at \notin {"exec", "net"} =>
          (LsmHook \in l.wanted <=> LsmHook \in l.progs \/ l.degraded)
    /\ l.links \subseteq l.wanted
    /\ l.at \in {"progs", "maps", "up"} =>
          l.wanted \ l.links = {} \/ (l.wanted \ l.links = {LsmHook} /\ l.degraded)

LoadOK == loader # Down => WantsRight(loader) /\ LoadsRight(loader)

\* The groups are disjoint from the LSM hook.
LEMMA LsmAside == \A b \in Baseline : b \subseteq Hook /\ LsmHook \notin b
  BY LoaderAssumption

\* No loader runs at the start,
LEMMA InitLoad == LoaderInit => LoadOK
  BY DEF LoaderInit, LoadOK

\* and every step loads and attaches what it should.
LEMMA NextLoad == LoaderTypeOK /\ LoadOK /\ [LoaderNext]_loaderVars => LoadOK'
<1> SUFFICES ASSUME LoaderTypeOK, LoadOK, [LoaderNext]_loaderVars PROVE LoadOK'
  OBVIOUS
<1>0. kernel \in Kernel /\ loader \in {Down} \cup LoaderState
  BY DEF LoaderTypeOK
<1>G. ASSUME loader # Down, NEW change, Goes(change), loader \in LoaderState,
             change.wanted = loader.wanted, change.baseline = loader.baseline,
             LoadsRight(change)
      PROVE  LoadOK'
  <2>1. loader' = change /\ kernel' = kernel
    BY <1>G DEF Goes
  <2>2. WantsRight(loader)'
    BY <1>G, <2>1 DEF LoadOK, WantsRight
  <2>3. LoadsRight(loader)'
    BY <1>G, <2>1 DEF LoadsRight
  <2> QED  BY <2>2, <2>3 DEF LoadOK
<1>L. ASSUME loader # Down
      PROVE  /\ loader \in LoaderState /\ loader.baseline \in Baseline /\ LoadsRight(loader)
             /\ LsmHook \notin loader.baseline /\ loader.baseline = loader.wanted \ {LsmHook}
  BY <1>0, <1>L, LsmAside DEF LoadOK, WantsRight, LoaderState
<1>1. ASSUME NEW b \in Baseline, StartLoader(b) PROVE LoadOK'
  <2>1. /\ loader'.at = "exec" /\ loader'.baseline = b
        /\ loader'.wanted = WantedPrograms(b, TierForKernel(kernel))
        /\ loader'.progs = {} /\ loader'.links = {} /\ loader'.degraded = FALSE
        /\ kernel' = kernel /\ TierForKernel(kernel) >= 1
    BY <1>1 DEF StartLoader
  <2>2. kernel \in Nat \X (0 .. 255)
    BY <1>0, LoaderAssumption
  <2>3. WantsLsm(TierForKernel(kernel)) <=> 1000 * kernel[1] + kernel[2] >= 5018
    BY <2>2, TierBoundary
  <2>4. TierForKernel(kernel) # 0
    BY <2>1 DEF TierForKernel
  <2>5. /\ loader'.wanted \ {LsmHook} = b
        /\ LsmHook \in loader'.wanted <=> WantsLsm(TierForKernel(kernel))
    BY <2>1, <2>4, LsmAside DEF WantedPrograms
  <2>6. WantsRight(loader)'
    BY <2>1, <2>3, <2>5 DEF WantsRight
  <2>7. LoadsRight(loader)'
    BY <2>1 DEF LoadsRight
  <2> QED  BY <2>6, <2>7 DEF LoadOK
<1>2. CASE LoadExec
  <2> DEFINE change == Loaded(loader.baseline \cap ExecHook, "net")
  <2>1. loader # Down /\ loader.at = "exec" /\ Goes(change)
    BY <1>2 DEF LoadExec, Down
  <2>2. /\ change.at = "net" /\ change.progs = loader.progs \cup (loader.baseline \cap ExecHook)
        /\ change.wanted = loader.wanted /\ change.baseline = loader.baseline
        /\ change.links = loader.links /\ change.degraded = loader.degraded
    BY <1>L, <2>1 DEF Loaded, LoaderState
  <2> HIDE DEF change
  <2>3. LoadsRight(change)
    BY <1>L, <2>1, <2>2 DEF LoadsRight
  <2> QED  BY <1>G, <1>L, <2>1, <2>2, <2>3
<1>3. CASE LoadNet
  <2> DEFINE net == loader.baseline \cap NetHook
             with == Loaded(net \cup {LsmHook}, "rest")
             without == [Loaded(net, "rest") EXCEPT !.degraded = LsmHook \in loader.wanted]
  <2>1. /\ loader # Down /\ loader.at = "net"
        /\ (LsmHook \in loader.wanted /\ Goes(with)) \/ Goes(without)
    BY <1>3 DEF LoadNet, Down
  <2>2. CASE LsmHook \in loader.wanted /\ Goes(with)
    <3>1. /\ with.at = "rest" /\ with.progs = loader.progs \cup net \cup {LsmHook}
          /\ with.wanted = loader.wanted /\ with.baseline = loader.baseline
          /\ with.links = loader.links /\ with.degraded = loader.degraded
      BY <1>L, <2>1 DEF Loaded, LoaderState
    <3> HIDE DEF with
    <3>2. LoadsRight(with)
      BY <1>L, <2>1, <2>2, <3>1 DEF LoadsRight
    <3> QED  BY <1>G, <1>L, <2>1, <2>2, <3>1, <3>2
  <2>3. CASE Goes(without)
    <3>1. /\ without.at = "rest" /\ without.progs = loader.progs \cup net
          /\ without.wanted = loader.wanted /\ without.baseline = loader.baseline
          /\ without.links = loader.links /\ without.degraded = (LsmHook \in loader.wanted)
      BY <1>L, <2>1 DEF Loaded, LoaderState
    <3> HIDE DEF without
    <3>2. LoadsRight(without)
      BY <1>L, <2>1, <3>1 DEF LoadsRight
    <3> QED  BY <1>G, <1>L, <2>1, <2>3, <3>1, <3>2
  <2> QED  BY <2>1, <2>2, <2>3
<1>4. CASE LoadRest
  <2> DEFINE change == Loaded(loader.baseline \ (ExecHook \cup NetHook), "attach")
  <2>1. loader # Down /\ loader.at = "rest" /\ Goes(change)
    BY <1>4 DEF LoadRest, Down
  <2>2. /\ change.at = "attach"
        /\ change.progs = loader.progs \cup (loader.baseline \ (ExecHook \cup NetHook))
        /\ change.wanted = loader.wanted /\ change.baseline = loader.baseline
        /\ change.links = loader.links /\ change.degraded = loader.degraded
    BY <1>L, <2>1 DEF Loaded, LoaderState
  <2> HIDE DEF change
  <2>3. LoadsRight(change)
    BY <1>L, <2>1, <2>2 DEF LoadsRight
  <2> QED  BY <1>G, <1>L, <2>1, <2>2, <2>3
<1>5. ASSUME NEW p \in Program, AttachOne(p) PROVE LoadOK'
  <2> DEFINE change == [loader EXCEPT !.links = @ \cup {p}]
  <2>1. loader # Down /\ loader.at = "attach" /\ Goes(change) /\ p \in loader.wanted
    BY <1>5 DEF AttachOne, Down, ToAttach
  <2>2. /\ change.at = "attach" /\ change.progs = loader.progs
        /\ change.wanted = loader.wanted /\ change.baseline = loader.baseline
        /\ change.links = loader.links \cup {p} /\ change.degraded = loader.degraded
    BY <1>L, <2>1 DEF LoaderState
  <2> HIDE DEF change
  <2>3. LoadsRight(change)
    BY <1>L, <2>1, <2>2 DEF LoadsRight
  <2> QED  BY <1>G, <1>L, <2>1, <2>2, <2>3
<1>6. CASE AttachRefused
  <2> DEFINE change == [loader EXCEPT !.degraded = TRUE]
  <2>1. /\ loader # Down /\ loader.at = "attach" /\ Goes(change)
        /\ LsmHook \in loader.wanted
    BY <1>6 DEF AttachRefused, Down, ToAttach
  <2>2. /\ change.at = "attach" /\ change.progs = loader.progs
        /\ change.wanted = loader.wanted /\ change.baseline = loader.baseline
        /\ change.links = loader.links /\ change.degraded = TRUE
    BY <1>L, <2>1 DEF LoaderState
  <2> HIDE DEF change
  <2>3. LoadsRight(change)
    BY <1>L, <2>1, <2>2 DEF LoadsRight
  <2> QED  BY <1>G, <1>L, <2>1, <2>2, <2>3
<1>7. CASE UnpinStale
  <2> DEFINE change == [loader EXCEPT !.at = "progs", !.toPin = loader.progs]
  <2>1. /\ loader # Down /\ loader.at = "attach" /\ Goes(change)
        /\ \/ loader.wanted \ loader.links = {}
           \/ loader.wanted \ loader.links = {LsmHook} /\ loader.degraded
    BY <1>7 DEF UnpinStale, Down, ToAttach
  <2>2. /\ change.at = "progs" /\ change.progs = loader.progs
        /\ change.wanted = loader.wanted /\ change.baseline = loader.baseline
        /\ change.links = loader.links /\ change.degraded = loader.degraded
    BY <1>L, <2>1 DEF LoaderState
  <2> HIDE DEF change
  <2>3. LoadsRight(change)
    BY <1>L, <2>1, <2>2 DEF LoadsRight
  <2> QED  BY <1>G, <1>L, <2>1, <2>2, <2>3
<1>8. ASSUME NEW x \in Pinnable, RemovePin(x) \/ Pin(x) PROVE LoadOK'
  <2>1. PICK change :
          /\ change \in {[loader EXCEPT !.pinning = {x}],
                         [loader EXCEPT !.pinning = {}, !.toPin = @ \ {x}]}
          /\ Goes(change)
    BY <1>8 DEF RemovePin, Pin
  <2>2. loader # Down
    BY <1>8 DEF RemovePin, Pin, Down
  <2>3. /\ change.at = loader.at /\ change.progs = loader.progs
        /\ change.wanted = loader.wanted /\ change.baseline = loader.baseline
        /\ change.links = loader.links /\ change.degraded = loader.degraded
    BY <1>L, <2>1, <2>2 DEF LoaderState
  <2>4. LoadsRight(change)
    BY <1>L, <2>2, <2>3 DEF LoadsRight
  <2> QED  BY <1>G, <1>L, <2>1, <2>2, <2>3, <2>4
<1>9. CASE PinMaps
  <2> DEFINE change == [loader EXCEPT !.at = "maps", !.toPin = DurableMap]
  <2>1. loader # Down /\ loader.at = "progs" /\ Goes(change)
    BY <1>9 DEF PinMaps, Down
  <2>2. /\ change.at = "maps" /\ change.progs = loader.progs
        /\ change.wanted = loader.wanted /\ change.baseline = loader.baseline
        /\ change.links = loader.links /\ change.degraded = loader.degraded
    BY <1>L, <2>1 DEF LoaderState
  <2> HIDE DEF change
  <2>3. LoadsRight(change)
    BY <1>L, <2>1, <2>2 DEF LoadsRight
  <2> QED  BY <1>G, <1>L, <2>1, <2>2, <2>3
<1>10. CASE ComeUp
  <2>1. loader # Down /\ loader.at = "maps" /\ kernel' = kernel
    BY <1>10 DEF ComeUp, Down
  <2>2. /\ loader'.at = "up" /\ loader'.progs = loader.progs
        /\ loader'.wanted = loader.wanted /\ loader'.baseline = loader.baseline
        /\ loader'.links = loader.links /\ loader'.degraded = loader.degraded
    BY <1>10, <1>L, <2>1 DEF ComeUp, LoaderState
  <2>3. LoadsRight(loader)'
    BY <1>L, <2>1, <2>2 DEF LoadsRight
  <2>4. WantsRight(loader)'
    BY <2>1, <2>2 DEF LoadOK, WantsRight
  <2> QED  BY <2>3, <2>4 DEF LoadOK
<1>11. CASE LoaderEnds \/ Reboot
  BY <1>11 DEF LoaderEnds, Reboot, LoadOK, Down
<1>12. CASE UNCHANGED loaderVars
  <2>1. loader' = loader /\ kernel' = kernel
    BY <1>12 DEF loaderVars
  <2> QED  BY <2>1 DEF LoadOK, WantsRight, LoadsRight, Down
<1> QED  BY <1>1, <1>2, <1>3, <1>4, <1>5, <1>6, <1>7, <1>8, <1>9, <1>10, <1>11, <1>12
         DEF LoaderNext, Pinnable

\* A loader that is up is complete.
LEMMA LoadIsComplete == LoaderTypeOK /\ LoadOK => UpIsComplete
<1> SUFFICES ASSUME LoaderTypeOK, LoadOK, Up PROVE UpIsComplete
  BY DEF UpIsComplete
<1>1. loader # Down /\ loader \in LoaderState /\ loader.at = "up"
  BY DEF Up, LoaderTypeOK, Down
<1>2. WantsRight(loader) /\ LoadsRight(loader)
  BY <1>1 DEF LoadOK
<1>3. loader.links \ {LsmHook} = loader.baseline
  BY <1>1, <1>2 DEF WantsRight, LoadsRight
<1>4. LsmHook \in loader.links \/ loader.degraded <=> LsmHook \in loader.wanted
  BY <1>1, <1>2 DEF LoadsRight
<1> QED  BY <1>2, <1>3, <1>4 DEF UpIsComplete, WantsRight

----------------------------------------------------------------------------
(* Whose pins are there *)

Loading == {"exec", "net", "rest", "attach"}

\* While it loads, nothing is pinned by this start.
NotYet(l) ==
    l.at \in Loading =>
        /\ \A x \in Pinnable : pins[x] < starts
        /\ l.toPin = {} /\ l.pinning = {} /\ l.prevPinned = PinnedProgramNames

\* Of what it still has to pin, only what it is pinning now is removed, and
\* nothing is of this start.
OnItsWay(l) ==
    l.at \notin Loading =>
        /\ l.pinning \subseteq l.toPin
        /\ \A x, y \in l.pinning : x = y
        /\ \A x \in l.pinning : pins[x] = 0

\* First the programs, then the maps; what is left of an older start beside
\* the programs is wanted.
ByThisStart(l) ==
    /\ l.at = "progs" =>
          /\ l.toPin \subseteq l.progs
          /\ \A m \in DurableMap : pins[m] < starts
          /\ \A p \in Program : pins[p] = starts <=> p \in l.progs \ l.toPin
    /\ l.at \in {"maps", "up"} =>
          /\ l.toPin \subseteq DurableMap
          /\ \A m \in DurableMap : pins[m] = starts <=> m \notin l.toPin
          /\ \A p \in Program : pins[p] = starts <=> p \in l.progs
    /\ l.at \notin Loading => \A p \in Program \ l.progs : pins[p] # 0 => p \in l.wanted
    /\ l.at = "up" => l.toPin = {}

PinOK ==
    /\ \A x \in Pinnable : pins[x] <= starts
    /\ loader # Down =>
          starts > 0 /\ NotYet(loader) /\ OnItsWay(loader) /\ ByThisStart(loader)

\* No pin is both a program's and a map's.
LEMMA ProgramsAside == Program \cap DurableMap = {}
  BY LoaderAssumption DEF Program

\* Nothing is pinned at the start,
LEMMA InitPin == LoaderInit => PinOK
<1> SUFFICES ASSUME LoaderInit PROVE PinOK
  OBVIOUS
<1>1. loader = Down /\ starts = 0 /\ pins = [x \in Pinnable |-> 0]
  BY DEF LoaderInit, Pinnable
<1> QED  BY <1>1 DEF PinOK

\* and every step pins and unpins what it should.
LEMMA NextPin == LoaderTypeOK /\ PinOK /\ [LoaderNext]_loaderVars => PinOK'
<1> SUFFICES ASSUME LoaderTypeOK, PinOK, [LoaderNext]_loaderVars PROVE PinOK'
  OBVIOUS
<1>0. /\ loader \in {Down} \cup LoaderState /\ starts \in Nat /\ pins \in [Pinnable -> Nat]
      /\ \A x \in Pinnable : pins[x] \in Nat /\ pins[x] <= starts
  BY DEF LoaderTypeOK, PinOK
<1>P. Program \subseteq Pinnable /\ DurableMap \subseteq Pinnable /\ Program \cap DurableMap = {}
  BY ProgramsAside DEF Pinnable
<1>L. ASSUME loader # Down
      PROVE  /\ loader \in LoaderState /\ starts > 0 /\ loader.progs \subseteq Program
             /\ NotYet(loader) /\ OnItsWay(loader) /\ ByThisStart(loader)
  BY <1>0, <1>L DEF PinOK, LoaderState
<1>G. ASSUME loader # Down, starts' = starts,
             \A x \in Pinnable : pins'[x] \in {0, starts, pins[x]},
             NotYet(loader)', OnItsWay(loader)', ByThisStart(loader)'
      PROVE  PinOK'
  <2>1. \A x \in Pinnable : pins'[x] <= starts'
    BY <1>0, <1>G
  <2> QED  BY <1>G, <1>L, <2>1 DEF PinOK
<1>S. ASSUME loader # Down, loader.at \in Loading, NEW change, Goes(change), pins' = pins,
             change.at \in Loading, change.toPin = loader.toPin,
             change.pinning = loader.pinning, change.prevPinned = loader.prevPinned
      PROVE  PinOK'
  <2>1. \A x \in Pinnable : pins'[x] \in {0, starts, pins[x]}
    BY <1>S
  <2>2. /\ starts' = starts /\ PinnedProgramNames' = PinnedProgramNames
        /\ loader' = change
    BY <1>S DEF Goes, PinnedProgramNames
  <2>3. NotYet(loader)'
    BY <1>L, <1>S, <2>2 DEF NotYet
  <2>4. OnItsWay(loader)' /\ ByThisStart(loader)'
    BY <1>S, <2>2 DEF OnItsWay, ByThisStart, Loading
  <2> QED  BY <1>G, <1>S, <2>1, <2>2, <2>3, <2>4
<1>1. ASSUME NEW b \in Baseline, StartLoader(b) PROVE PinOK'
  <2>1. /\ loader'.at = "exec" /\ loader'.toPin = {} /\ loader'.pinning = {}
        /\ loader'.prevPinned = PinnedProgramNames /\ starts' = starts + 1 /\ pins' = pins
    BY <1>1 DEF StartLoader
  <2>2. PinnedProgramNames' = PinnedProgramNames
    BY <2>1 DEF PinnedProgramNames
  <2>3. \A x \in Pinnable : pins'[x] < starts'
    BY <1>0, <2>1
  <2>4. NotYet(loader)'
    BY <2>1, <2>2, <2>3 DEF NotYet
  <2>5. OnItsWay(loader)' /\ ByThisStart(loader)'
    BY <2>1 DEF OnItsWay, ByThisStart, Loading
  <2>6. starts' > 0 /\ \A x \in Pinnable : pins'[x] <= starts'
    BY <1>0, <2>1
  <2> QED  BY <2>4, <2>5, <2>6 DEF PinOK
<1>2. CASE LoadExec
  <2> DEFINE change == Loaded(loader.baseline \cap ExecHook, "net")
  <2>1. loader # Down /\ loader.at \in Loading /\ Goes(change) /\ pins' = pins
    BY <1>2 DEF LoadExec, Down, Loading
  <2>2. /\ change.at \in Loading /\ change.toPin = loader.toPin
        /\ change.pinning = loader.pinning /\ change.prevPinned = loader.prevPinned
    BY <1>L, <2>1 DEF Loaded, LoaderState, Loading
  <2> HIDE DEF change
  <2> QED  BY <1>S, <2>1, <2>2
<1>3. CASE LoadNet
  <2> DEFINE net == loader.baseline \cap NetHook
             with == Loaded(net \cup {LsmHook}, "rest")
             without == [Loaded(net, "rest") EXCEPT !.degraded = LsmHook \in loader.wanted]
  <2>1. /\ loader # Down /\ loader.at \in Loading /\ pins' = pins
        /\ Goes(with) \/ Goes(without)
    BY <1>3 DEF LoadNet, Down, Loading
  <2>2. /\ with.at \in Loading /\ with.toPin = loader.toPin
        /\ with.pinning = loader.pinning /\ with.prevPinned = loader.prevPinned
    BY <1>L, <2>1 DEF Loaded, LoaderState, Loading
  <2>3. /\ without.at \in Loading /\ without.toPin = loader.toPin
        /\ without.pinning = loader.pinning /\ without.prevPinned = loader.prevPinned
    BY <1>L, <2>1 DEF Loaded, LoaderState, Loading
  <2> HIDE DEF with, without
  <2> QED  BY <1>S, <2>1, <2>2, <2>3
<1>4. CASE LoadRest
  <2> DEFINE change == Loaded(loader.baseline \ (ExecHook \cup NetHook), "attach")
  <2>1. loader # Down /\ loader.at \in Loading /\ Goes(change) /\ pins' = pins
    BY <1>4 DEF LoadRest, Down, Loading
  <2>2. /\ change.at \in Loading /\ change.toPin = loader.toPin
        /\ change.pinning = loader.pinning /\ change.prevPinned = loader.prevPinned
    BY <1>L, <2>1 DEF Loaded, LoaderState, Loading
  <2> HIDE DEF change
  <2> QED  BY <1>S, <2>1, <2>2
<1>5. ASSUME NEW p \in Program, AttachOne(p) PROVE PinOK'
  <2> DEFINE change == [loader EXCEPT !.links = @ \cup {p}]
  <2>1. loader # Down /\ loader.at \in Loading /\ Goes(change) /\ pins' = pins
    BY <1>5 DEF AttachOne, Down, Loading
  <2>2. /\ change.at \in Loading /\ change.toPin = loader.toPin
        /\ change.pinning = loader.pinning /\ change.prevPinned = loader.prevPinned
    BY <1>L, <2>1 DEF LoaderState
  <2> HIDE DEF change
  <2> QED  BY <1>S, <2>1, <2>2
<1>6. CASE AttachRefused
  <2> DEFINE change == [loader EXCEPT !.degraded = TRUE]
  <2>1. loader # Down /\ loader.at \in Loading /\ Goes(change) /\ pins' = pins
    BY <1>6 DEF AttachRefused, Down, Loading
  <2>2. /\ change.at \in Loading /\ change.toPin = loader.toPin
        /\ change.pinning = loader.pinning /\ change.prevPinned = loader.prevPinned
    BY <1>L, <2>1 DEF LoaderState
  <2> HIDE DEF change
  <2> QED  BY <1>S, <2>1, <2>2
<1>7. CASE UnpinStale
  <2> DEFINE change == [loader EXCEPT !.at = "progs", !.toPin = loader.progs]
             stale == loader.prevPinned \ loader.wanted
  <2>1. loader # Down /\ loader.at = "attach" /\ Goes(change)
    BY <1>7 DEF UnpinStale, Down
  <2>2. \A x \in Pinnable : pins'[x] = IF x \in stale THEN 0 ELSE pins[x]
    BY <1>0, <1>7 DEF UnpinStale, Stale
  <2>3. starts' = starts
    BY <2>1 DEF Goes
  <2>4. /\ loader.pinning = {} /\ loader.prevPinned = PinnedProgramNames
        /\ \A x \in Pinnable : pins[x] < starts
    BY <1>L, <2>1 DEF NotYet, Loading
  <2>5. /\ loader'.at = "progs" /\ loader'.progs = loader.progs /\ loader'.toPin = loader.progs
        /\ loader'.pinning = {} /\ loader'.wanted = loader.wanted
    BY <1>L, <2>1, <2>4 DEF LoaderState, Goes
  <2>6. \A x \in Pinnable : pins'[x] < starts' /\ pins'[x] # starts'
    <3>1. ASSUME NEW x \in Pinnable PROVE pins'[x] < starts' /\ pins'[x] # starts'
      BY <1>0, <1>L, <2>1, <2>2, <2>3, <2>4
    <3> QED  BY <3>1
  <2>7. \A p \in Program : pins'[p] # 0 => p \in loader.wanted
    BY <1>P, <2>2, <2>4 DEF PinnedProgramNames
  <2> HIDE DEF change, stale
  <2>8. NotYet(loader)'
    BY <2>5 DEF NotYet, Loading
  <2>9. OnItsWay(loader)'
    BY <2>5 DEF OnItsWay
  <2>10. ByThisStart(loader)'
    BY <1>P, <2>5, <2>6, <2>7 DEF ByThisStart
  <2>11. \A x \in Pinnable : pins'[x] \in {0, starts, pins[x]}
    BY <2>2
  <2> QED  BY <1>G, <2>1, <2>3, <2>8, <2>9, <2>10, <2>11
<1>8. ASSUME NEW x \in Pinnable, RemovePin(x) PROVE PinOK'
  <2> DEFINE change == [loader EXCEPT !.pinning = {x}]
  <2>1. /\ loader # Down /\ loader.at \in {"progs", "maps"} /\ Goes(change)
        /\ loader.pinning = {} /\ x \in loader.toPin
    BY <1>8 DEF RemovePin, Down
  <2>2. \A y \in Pinnable : pins'[y] = IF y = x THEN 0 ELSE pins[y]
    BY <1>0, <1>8 DEF RemovePin
  <2>3. starts' = starts /\ starts # 0
    BY <1>L, <2>1 DEF Goes
  <2>4. /\ loader'.at = loader.at /\ loader'.progs = loader.progs /\ loader'.toPin = loader.toPin
        /\ loader'.pinning = {x} /\ loader'.wanted = loader.wanted
    BY <1>L, <2>1 DEF LoaderState, Goes
  <2>5. \A y \in Pinnable : pins'[y] \in {0, starts, pins[y]}
    BY <2>2
  <2>6. pins[x] # starts
    BY <1>0, <1>L, <1>P, <2>1 DEF ByThisStart
  <2>7. \A y \in Pinnable : /\ pins'[y] = starts' <=> pins[y] = starts
                            /\ pins'[y] # 0 => pins[y] # 0
                            /\ pins[y] < starts => pins'[y] < starts'
    <3>1. ASSUME NEW y \in Pinnable
          PROVE  /\ pins'[y] = starts' <=> pins[y] = starts
                 /\ pins'[y] # 0 => pins[y] # 0
                 /\ pins[y] < starts => pins'[y] < starts'
      BY <1>0, <2>2, <2>3, <2>6
    <3> QED  BY <3>1
  <2> HIDE DEF change
  <2>8. NotYet(loader)'
    BY <2>1, <2>4 DEF NotYet, Loading
  <2>9. OnItsWay(loader)'
    BY <2>1, <2>2, <2>4 DEF OnItsWay
  <2>10. ByThisStart(loader)'
    <3>1. ByThisStart(loader)
      BY <1>L, <2>1
    <3> QED  BY <1>P, <2>1, <2>4, <2>7, <3>1 DEF ByThisStart, Loading
  <2> QED  BY <1>G, <2>1, <2>3, <2>5, <2>8, <2>9, <2>10
<1>9. ASSUME NEW x \in Pinnable, Pin(x) PROVE PinOK'
  <2> DEFINE change == [loader EXCEPT !.pinning = {}, !.toPin = @ \ {x}]
  <2>1. /\ loader # Down /\ loader.at \in {"progs", "maps"} /\ Goes(change)
        /\ x \in loader.pinning
    BY <1>9 DEF Pin, Down
  <2>2. \A y \in Pinnable : pins'[y] = IF y = x THEN starts ELSE pins[y]
    BY <1>0, <1>9 DEF Pin
  <2>3. starts' = starts /\ starts # 0 /\ x \in loader.toPin
    BY <1>L, <2>1 DEF Goes, OnItsWay, Loading
  <2>4. /\ loader'.at = loader.at /\ loader'.progs = loader.progs
        /\ loader'.toPin = loader.toPin \ {x}
        /\ loader'.pinning = {} /\ loader'.wanted = loader.wanted
    BY <1>L, <2>1 DEF LoaderState, Goes
  <2>5. \A y \in Pinnable : pins'[y] \in {0, starts, pins[y]}
    BY <2>2
  <2> HIDE DEF change
  <2>6. NotYet(loader)'
    BY <2>1, <2>4 DEF NotYet, Loading
  <2>7. OnItsWay(loader)'
    BY <2>4 DEF OnItsWay
  <2>8. ByThisStart(loader) /\ loader.progs \subseteq Program
    BY <1>L, <2>1
  <2>9. ASSUME loader.at = "progs" PROVE ByThisStart(loader)'
    <3>1. x \in loader.progs /\ x \in Program /\ x \notin DurableMap
      BY <1>P, <2>3, <2>8, <2>9 DEF ByThisStart
    <3>2. \A m \in DurableMap : pins'[m] < starts'
      BY <1>P, <2>2, <2>3, <2>8, <2>9, <3>1 DEF ByThisStart
    <3>3. \A p \in Program : pins'[p] = starts' <=> p \in loader'.progs \ loader'.toPin
      BY <1>P, <2>2, <2>3, <2>4, <2>8, <2>9, <3>1 DEF ByThisStart
    <3>4. \A p \in Program \ loader'.progs : pins'[p] # 0 => p \in loader'.wanted
      BY <1>P, <2>2, <2>4, <2>8, <2>9, <3>1 DEF ByThisStart, Loading
    <3>5. loader'.at = "progs" /\ loader'.toPin \subseteq loader'.progs
      BY <2>4, <2>8, <2>9 DEF ByThisStart
    <3> QED  BY <3>2, <3>3, <3>4, <3>5 DEF ByThisStart
  <2>10. ASSUME loader.at = "maps" PROVE ByThisStart(loader)'
    <3>1. x \in DurableMap /\ x \notin Program
      BY <1>P, <2>3, <2>8, <2>10 DEF ByThisStart
    <3>2. \A m \in DurableMap : pins'[m] = starts' <=> m \notin loader'.toPin
      BY <1>P, <2>2, <2>3, <2>4, <2>8, <2>10, <3>1 DEF ByThisStart
    <3>3. \A p \in Program : pins'[p] = starts' <=> p \in loader'.progs
      BY <1>P, <2>2, <2>3, <2>4, <2>8, <2>10, <3>1 DEF ByThisStart
    <3>4. \A p \in Program \ loader'.progs : pins'[p] # 0 => p \in loader'.wanted
      BY <1>P, <2>2, <2>4, <2>8, <2>10, <3>1 DEF ByThisStart, Loading
    <3>5. loader'.at = "maps" /\ loader'.toPin \subseteq DurableMap
      BY <2>4, <2>8, <2>10 DEF ByThisStart
    <3> QED  BY <3>2, <3>3, <3>4, <3>5 DEF ByThisStart
  <2> QED  BY <1>G, <2>1, <2>3, <2>5, <2>6, <2>7, <2>9, <2>10
<1>10. CASE PinMaps
  <2> DEFINE change == [loader EXCEPT !.at = "maps", !.toPin = DurableMap]
  <2>1. loader # Down /\ loader.at = "progs" /\ Goes(change) /\ loader.toPin = {} /\ pins' = pins
    BY <1>10 DEF PinMaps, Down
  <2>2. starts' = starts
    BY <2>1 DEF Goes
  <2>3. loader.pinning = {}
    BY <1>L, <2>1 DEF OnItsWay, Loading
  <2>4. /\ loader'.at = "maps" /\ loader'.progs = loader.progs /\ loader'.toPin = DurableMap
        /\ loader'.pinning = {} /\ loader'.wanted = loader.wanted
    BY <1>L, <2>1, <2>3 DEF LoaderState, Goes
  <2>5. \A m \in DurableMap : pins[m] # starts
    BY <1>0, <1>L, <1>P, <2>1 DEF ByThisStart
  <2> HIDE DEF change
  <2>6. NotYet(loader)' /\ OnItsWay(loader)'
    BY <2>4 DEF NotYet, OnItsWay, Loading
  <2>7. ByThisStart(loader)
    BY <1>L, <2>1
  <2>8. ByThisStart(loader)'
    BY <2>1, <2>2, <2>4, <2>5, <2>7 DEF ByThisStart, Loading
  <2>9. \A y \in Pinnable : pins'[y] \in {0, starts, pins[y]}
    BY <2>1
  <2> QED  BY <1>G, <2>1, <2>2, <2>6, <2>8, <2>9
<1>11. CASE ComeUp
  <2>1. /\ loader # Down /\ loader.at = "maps" /\ loader.toPin = {}
        /\ pins' = pins /\ starts' = starts
    BY <1>11 DEF ComeUp, Down
  <2>2. /\ loader'.at = "up" /\ loader'.progs = loader.progs /\ loader'.toPin = {}
        /\ loader'.pinning = loader.pinning /\ loader'.wanted = loader.wanted
    BY <1>11, <1>L, <2>1 DEF ComeUp, LoaderState
  <2>3. NotYet(loader)' /\ OnItsWay(loader)'
    BY <1>L, <2>1, <2>2 DEF NotYet, OnItsWay, Loading
  <2>4. ByThisStart(loader)'
    BY <1>L, <2>1, <2>2 DEF ByThisStart, Loading
  <2>5. \A x \in Pinnable : pins'[x] <= starts'
    BY <1>0, <2>1
  <2> QED  BY <1>L, <2>1, <2>3, <2>4, <2>5 DEF PinOK
<1>12. CASE LoaderEnds
  <2>1. loader' = Down /\ pins' = pins /\ starts' = starts
    BY <1>12 DEF LoaderEnds
  <2> QED  BY <1>0, <2>1 DEF PinOK, Down
<1>13. CASE Reboot
  <2>1. loader' = Down /\ starts' = starts /\ \A x \in Pinnable : pins'[x] = 0
    BY <1>0, <1>13 DEF Reboot
  <2>2. \A x \in Pinnable : pins'[x] <= starts'
    BY <1>0, <2>1
  <2> QED  BY <2>1, <2>2 DEF PinOK, Down
<1>14. CASE UNCHANGED loaderVars
  <2>1. loader' = loader /\ starts' = starts /\ pins' = pins
    BY <1>14 DEF loaderVars
  <2> QED  BY <2>1 DEF PinOK, NotYet, OnItsWay, ByThisStart, PinnedProgramNames, Down
<1> QED  BY <1>1, <1>2, <1>3, <1>4, <1>5, <1>6, <1>7, <1>8, <1>9, <1>10, <1>11, <1>12, <1>13,
            <1>14 DEF LoaderNext, Pinnable

\* Under a running loader lies what is its own.
LEMMA PinsAreItsOwn == LoaderTypeOK /\ LoadOK /\ PinOK => PinsAreOwn
<1> SUFFICES ASSUME LoaderTypeOK, LoadOK, PinOK, Up PROVE PinsAreOwn
  BY DEF PinsAreOwn
<1>1. loader # Down /\ loader \in LoaderState /\ loader.at = "up"
  BY DEF Up, LoaderTypeOK, Down
<1>2. WantsRight(loader) /\ LoadsRight(loader) /\ ByThisStart(loader)
      /\ loader.progs \subseteq Program
  BY <1>1 DEF LoadOK, PinOK, LoaderState
<1>3. \A m \in DurableMap : pins[m] = starts
  BY <1>1, <1>2 DEF ByThisStart
<1>4. {p \in Program : pins[p] = starts} = loader.progs
  BY <1>1, <1>2 DEF ByThisStart
<1>5. ASSUME NEW p \in PinnedProgramNames \ loader.progs PROVE p = LsmHook /\ loader.degraded
  <2>1. p \in loader.wanted \ loader.progs
    BY <1>1, <1>2 DEF ByThisStart, Loading, PinnedProgramNames
  <2>2. loader.wanted \ {LsmHook} = loader.progs \ {LsmHook}
    BY <1>1, <1>2 DEF WantsRight, LoadsRight
  <2>3. p = LsmHook
    BY <2>1, <2>2
  <2> QED  BY <1>1, <1>2, <2>1, <2>3 DEF LoadsRight
<1> QED  BY <1>3, <1>4, <1>5 DEF PinsAreOwn

----------------------------------------------------------------------------
(* Whom a restart is told *)

Unpinned == {h \in CommonHook : pins[h] = 0}

\* Whether the pin of a common hook is off at the moment.
Tear == IF loader # Down /\ loader.pinning \cap CommonHook # {} THEN 1 ELSE 0

\* Once a loader came up, every common hook is pinned but for those whose
\* replacement was cut short; a loader that found nothing at its start, though
\* one came up before it, came after as many such ends as there are hooks.
ToldOK ==
    /\ recorded > 0 => Cardinality(Unpinned) <= torn + Tear
    /\ loader # Down /\ loader.prevPinned = {} /\ recorded > (IF loader.at = "up" THEN 1 ELSE 0) =>
          Cardinality(CommonHook) <= torn
    /\ loader.at = "up" => gapGiven = (loader.prevPinned # {})

\* The common hooks are finitely many programs, and some are in every version.
LEMMA CommonHooks ==
    /\ IsFiniteSet(CommonHook) /\ CommonHook \subseteq Program /\ LsmHook \notin CommonHook
    /\ \A b \in Baseline : CommonHook \subseteq b
    /\ IsFiniteSet(Unpinned) /\ Cardinality(Unpinned) \in Nat /\ Cardinality(CommonHook) \in Nat
<1>1. CommonHook \subseteq Hook /\ Unpinned \subseteq Hook /\ IsFiniteSet(Hook)
  BY LoaderAssumption DEF CommonHook, Unpinned
<1>2. IsFiniteSet(CommonHook) /\ IsFiniteSet(Unpinned)
  BY <1>1, FS_Subset
<1>3. Cardinality(Unpinned) \in Nat /\ Cardinality(CommonHook) \in Nat
  BY <1>2, FS_CardinalityType
<1>4. CommonHook \subseteq Program /\ LsmHook \notin CommonHook
  BY <1>1, LoaderAssumption DEF Program
<1>5. \A b \in Baseline : CommonHook \subseteq b
  BY DEF CommonHook
<1> QED  BY <1>2, <1>3, <1>4, <1>5

\* One hook more, at most, when one pin is taken off.
LEMMA OneMore ==
    ASSUME NEW S, NEW T, IsFiniteSet(S), NEW x, T \subseteq S \cup {x}
    PROVE  IsFiniteSet(T) /\ Cardinality(T) \in Nat /\ Cardinality(T) <= Cardinality(S) + 1
<1>1. /\ IsFiniteSet(S \cup {x}) /\ Cardinality(S) \in Nat
      /\ Cardinality(S \cup {x}) = IF x \in S THEN Cardinality(S) ELSE Cardinality(S) + 1
  BY FS_AddElement, FS_CardinalityType
<1>2. IsFiniteSet(T) /\ Cardinality(T) <= Cardinality(S \cup {x}) /\ Cardinality(T) \in Nat
  BY <1>1, FS_Subset, FS_CardinalityType
<1> QED  BY <1>1, <1>2

\* The same hooks, the same number.
LEMMA NoMore ==
    ASSUME NEW S, NEW T, IsFiniteSet(S), T \subseteq S
    PROVE  IsFiniteSet(T) /\ Cardinality(T) \in Nat /\ Cardinality(T) <= Cardinality(S)
  BY FS_Subset, FS_CardinalityType

\* No loader came up at the start,
LEMMA InitTold == LoaderInit => ToldOK
<1> SUFFICES ASSUME LoaderInit PROVE ToldOK
  OBVIOUS
<1>1. recorded = 0 /\ loader = Down
  BY DEF LoaderInit
<1> QED  BY <1>1 DEF ToldOK, Down

\* and every step keeps the account of the hooks' pins.
LEMMA NextTold ==
    LoaderTypeOK /\ LoadOK /\ PinOK /\ ToldOK /\ [LoaderNext]_loaderVars => ToldOK'
<1> SUFFICES ASSUME LoaderTypeOK, LoadOK, PinOK, ToldOK, [LoaderNext]_loaderVars
             PROVE  ToldOK'
  OBVIOUS
<1>0. /\ loader \in {Down} \cup LoaderState /\ pins \in [Pinnable -> Nat]
      /\ recorded \in Nat /\ torn \in Nat /\ Tear \in {0, 1}
  BY DEF LoaderTypeOK, Tear
<1>C. /\ CommonHook \subseteq Program /\ CommonHook \subseteq Pinnable
      /\ CommonHook \cap DurableMap = {} /\ CommonHook' = CommonHook
      /\ Unpinned \subseteq CommonHook
      /\ IsFiniteSet(Unpinned) /\ Cardinality(Unpinned) \in Nat
  BY CommonHooks, ProgramsAside DEF Pinnable, CommonHook, Unpinned
<1>L. ASSUME loader # Down
      PROVE  loader \in LoaderState /\ loader.at # "down"
  BY <1>0, <1>L DEF LoaderState
<1>S. ASSUME loader # Down, UNCHANGED <<recorded, torn, gapGiven>>,
             loader'.at # "up", loader'.at # "down", loader.at # "up",
             loader'.prevPinned = loader.prevPinned,
             recorded > 0 => Cardinality(Unpinned') <= torn + Tear'
      PROVE  ToldOK'
  BY <1>S DEF ToldOK, Down
<1>K. ASSUME loader # Down, UNCHANGED <<recorded, torn, gapGiven>>,
             loader'.at # "up", loader'.at # "down", loader.at # "up",
             loader'.prevPinned = loader.prevPinned, loader'.pinning = loader.pinning,
             \A h \in CommonHook : pins'[h] = pins[h]
      PROVE  ToldOK'
  <2>1. Unpinned' = Unpinned
    BY <1>C, <1>K DEF Unpinned
  <2>2. Tear' = Tear
    BY <1>C, <1>K DEF Tear, Down
  <2>3. recorded > 0 => Cardinality(Unpinned') <= torn + Tear'
    BY <2>1, <2>2 DEF ToldOK
  <2> QED  BY <1>K, <1>S, <2>3
<1>1. ASSUME NEW b \in Baseline, StartLoader(b) PROVE ToldOK'
  <2>1. /\ loader = Down /\ loader'.at = "exec" /\ loader'.prevPinned = PinnedProgramNames
        /\ loader'.pinning = {} /\ UNCHANGED <<pins, recorded, torn, gapGiven>>
    BY <1>1 DEF StartLoader
  <2>2. Tear = 0 /\ Tear' = 0 /\ Unpinned' = Unpinned
    BY <1>C, <2>1 DEF Tear, Unpinned
  <2>3. recorded > 0 => Cardinality(Unpinned') <= torn' + Tear'
    BY <1>0, <2>1, <2>2 DEF ToldOK
  <2>4. ASSUME loader'.prevPinned = {}, recorded > 0 PROVE Cardinality(CommonHook) <= torn
    <3>1. Unpinned = CommonHook
      BY <1>C, <2>1, <2>4 DEF Unpinned, PinnedProgramNames
    <3> QED  BY <1>0, <2>2, <2>4, <3>1 DEF ToldOK
  <2> QED  BY <1>C, <2>1, <2>3, <2>4 DEF ToldOK
<1>2. CASE LoadExec \/ LoadNet \/ LoadRest
  <2>1. /\ loader # Down /\ loader.at \in {"exec", "net", "rest"} /\ pins' = pins
        /\ UNCHANGED <<recorded, torn, gapGiven>>
    BY <1>2 DEF LoadExec, LoadNet, LoadRest, Down, Goes
  <2>2. CASE LoadExec
    <3>1. loader' = Loaded(loader.baseline \cap ExecHook, "net")
      BY <2>2 DEF LoadExec, Goes
    <3>2. /\ loader'.at = "net" /\ loader'.prevPinned = loader.prevPinned
          /\ loader'.pinning = loader.pinning
      BY <1>L, <2>1, <3>1 DEF Loaded, LoaderState
    <3> QED  BY <1>K, <2>1, <3>2
  <2>3. CASE LoadNet
    <3>1. /\ loader'.at = "rest" /\ loader'.prevPinned = loader.prevPinned
          /\ loader'.pinning = loader.pinning
      <4> DEFINE net == loader.baseline \cap NetHook
                 with == Loaded(net \cup {LsmHook}, "rest")
                 without == [Loaded(net, "rest") EXCEPT !.degraded = LsmHook \in loader.wanted]
      <4>1. loader' = with \/ loader' = without
        BY <2>3 DEF LoadNet, Goes
      <4>2. /\ with.at = "rest" /\ with.prevPinned = loader.prevPinned
            /\ with.pinning = loader.pinning
        BY <1>L, <2>1 DEF Loaded, LoaderState
      <4>3. /\ without.at = "rest" /\ without.prevPinned = loader.prevPinned
            /\ without.pinning = loader.pinning
        BY <1>L, <2>1 DEF Loaded, LoaderState
      <4> HIDE DEF with, without
      <4> QED  BY <4>1, <4>2, <4>3
    <3> QED  BY <1>K, <2>1, <3>1
  <2>4. CASE LoadRest
    <3>1. loader' = Loaded(loader.baseline \ (ExecHook \cup NetHook), "attach")
      BY <2>4 DEF LoadRest, Goes
    <3>2. /\ loader'.at = "attach" /\ loader'.prevPinned = loader.prevPinned
          /\ loader'.pinning = loader.pinning
      BY <1>L, <2>1, <3>1 DEF Loaded, LoaderState
    <3> QED  BY <1>K, <2>1, <3>2
  <2> QED  BY <1>2, <2>2, <2>3, <2>4
<1>3. ASSUME NEW p \in Program, AttachOne(p) PROVE ToldOK'
  <2>1. /\ loader # Down /\ loader.at = "attach" /\ pins' = pins
        /\ UNCHANGED <<recorded, torn, gapGiven>>
        /\ loader' = [loader EXCEPT !.links = @ \cup {p}]
    BY <1>3 DEF AttachOne, Down, Goes
  <2>2. /\ loader'.at = "attach" /\ loader'.prevPinned = loader.prevPinned
        /\ loader'.pinning = loader.pinning
    BY <1>L, <2>1 DEF LoaderState
  <2> QED  BY <1>K, <2>1, <2>2
<1>4. CASE AttachRefused
  <2>1. /\ loader # Down /\ loader.at = "attach" /\ pins' = pins
        /\ UNCHANGED <<recorded, torn, gapGiven>>
        /\ loader' = [loader EXCEPT !.degraded = TRUE]
    BY <1>4 DEF AttachRefused, Down, Goes
  <2>2. /\ loader'.at = "attach" /\ loader'.prevPinned = loader.prevPinned
        /\ loader'.pinning = loader.pinning
    BY <1>L, <2>1 DEF LoaderState
  <2> QED  BY <1>K, <2>1, <2>2
<1>5. CASE UnpinStale
  <2>1. /\ loader # Down /\ loader.at = "attach"
        /\ UNCHANGED <<recorded, torn, gapGiven>>
        /\ loader' = [loader EXCEPT !.at = "progs", !.toPin = loader.progs]
    BY <1>5 DEF UnpinStale, Down, Goes
  <2>2. /\ loader'.at = "progs" /\ loader'.prevPinned = loader.prevPinned
        /\ loader'.pinning = loader.pinning
    BY <1>L, <2>1 DEF LoaderState
  <2>3. CommonHook \subseteq loader.wanted
    <3>1. loader.baseline \in Baseline /\ loader.wanted \ {LsmHook} = loader.baseline
      BY <1>L, <2>1 DEF LoadOK, WantsRight, LoaderState
    <3> QED  BY <3>1, CommonHooks
  <2>4. \A h \in CommonHook : pins'[h] = pins[h]
    BY <1>0, <1>5, <1>C, <2>3 DEF UnpinStale, Stale
  <2> QED  BY <1>K, <2>1, <2>2, <2>4
<1>6. ASSUME NEW x \in Pinnable, RemovePin(x) PROVE ToldOK'
  <2>1. /\ loader # Down /\ loader.at \in {"progs", "maps"} /\ loader.pinning = {}
        /\ UNCHANGED <<recorded, torn, gapGiven>>
        /\ loader' = [loader EXCEPT !.pinning = {x}]
        /\ pins' = [pins EXCEPT ![x] = 0]
    BY <1>6 DEF RemovePin, Down, Goes
  <2>2. /\ loader'.at = loader.at /\ loader'.prevPinned = loader.prevPinned
        /\ loader'.pinning = {x} /\ loader' # Down
    BY <1>L, <2>1 DEF LoaderState, Down
  <2>3. Tear = 0
    BY <2>1 DEF Tear
  <2>4. CASE x \in CommonHook
    <3>1. Unpinned' \subseteq Unpinned \cup {x}
      BY <1>0, <1>C, <2>1 DEF Unpinned
    <3>2. Cardinality(Unpinned') \in Nat /\ Cardinality(Unpinned') <= Cardinality(Unpinned) + 1
      BY <1>C, <3>1, OneMore
    <3>3. Tear' = 1
      BY <1>C, <2>2, <2>4 DEF Tear, Down
    <3>4. recorded > 0 => Cardinality(Unpinned') <= torn + Tear'
      BY <1>0, <1>C, <2>3, <3>2, <3>3 DEF ToldOK
    <3> QED  BY <1>S, <2>1, <2>2, <3>4
  <2>5. CASE x \notin CommonHook
    <3>1. Unpinned' = Unpinned
      BY <1>0, <1>C, <2>1, <2>5 DEF Unpinned
    <3>2. Tear' = 0
      BY <1>C, <2>2, <2>5 DEF Tear
    <3>3. recorded > 0 => Cardinality(Unpinned') <= torn + Tear'
      BY <2>3, <3>1, <3>2 DEF ToldOK
    <3> QED  BY <1>S, <2>1, <2>2, <3>3
  <2> QED  BY <2>4, <2>5
<1>7. ASSUME NEW x \in Pinnable, Pin(x) PROVE ToldOK'
  <2>1. /\ loader # Down /\ loader.at \in {"progs", "maps"} /\ x \in loader.pinning
        /\ UNCHANGED <<recorded, torn, gapGiven, starts>>
        /\ loader' = [loader EXCEPT !.pinning = {}, !.toPin = @ \ {x}]
        /\ pins' = [pins EXCEPT ![x] = starts]
    BY <1>7 DEF Pin, Down, Goes
  <2>2. /\ loader'.at = loader.at /\ loader'.prevPinned = loader.prevPinned
        /\ loader'.pinning = {}
    BY <1>L, <2>1 DEF LoaderState
  <2>3. /\ \A y \in loader.pinning : y = x
        /\ pins[x] = 0 /\ starts # 0
    <3>1. OnItsWay(loader) /\ starts > 0
      BY <2>1 DEF PinOK
    <3> QED  BY <2>1, <3>1 DEF OnItsWay, Loading, LoaderTypeOK
  <2>4. Tear' = 0
    BY <1>C, <2>2 DEF Tear
  <2>5. CASE x \in CommonHook
    <3>1. Unpinned' = Unpinned \ {x} /\ x \in Unpinned
      BY <1>0, <1>C, <2>1, <2>3, <2>5 DEF Unpinned
    <3>2. Cardinality(Unpinned \ {x}) = Cardinality(Unpinned) - 1
      BY <1>C, <3>1, FS_RemoveElement
    <3>3. recorded > 0 => Cardinality(Unpinned') <= torn + Tear'
      BY <1>0, <1>C, <2>4, <3>1, <3>2 DEF ToldOK
    <3> QED  BY <1>S, <2>1, <2>2, <3>3
  <2>6. CASE x \notin CommonHook
    <3>1. Unpinned' = Unpinned
      BY <1>0, <1>C, <2>1, <2>6 DEF Unpinned
    <3>2. Tear = 0
      BY <2>3, <2>6 DEF Tear
    <3>3. recorded > 0 => Cardinality(Unpinned') <= torn + Tear'
      BY <2>4, <3>1, <3>2 DEF ToldOK
    <3> QED  BY <1>S, <2>1, <2>2, <3>3
  <2> QED  BY <2>5, <2>6
<1>8. CASE PinMaps
  <2>1. /\ loader # Down /\ loader.at = "progs" /\ pins' = pins
        /\ UNCHANGED <<recorded, torn, gapGiven>>
        /\ loader' = [loader EXCEPT !.at = "maps", !.toPin = DurableMap]
    BY <1>8 DEF PinMaps, Down, Goes
  <2>2. /\ loader'.at = "maps" /\ loader'.prevPinned = loader.prevPinned
        /\ loader'.pinning = loader.pinning
    BY <1>L, <2>1 DEF LoaderState
  <2> QED  BY <1>K, <2>1, <2>2
<1>9. CASE ComeUp
  <2>1. /\ loader # Down /\ loader.at = "maps" /\ loader.toPin = {}
        /\ recorded' = recorded + 1 /\ gapGiven' = (loader.prevPinned # {})
        /\ UNCHANGED <<starts, pins, torn>> /\ loader' = [loader EXCEPT !.at = "up"]
    BY <1>9 DEF ComeUp, Down
  <2>2. loader'.at = "up" /\ loader'.prevPinned = loader.prevPinned
    BY <1>L, <2>1 DEF LoaderState
  <2>3. Unpinned' = {}
    <3>1. WantsRight(loader) /\ LoadsRight(loader) /\ ByThisStart(loader) /\ starts > 0
      BY <2>1 DEF LoadOK, PinOK
    <3>2. loader.baseline \in Baseline
      BY <1>L, <2>1 DEF LoaderState
    <3>3. CommonHook \subseteq loader.progs
      BY <2>1, <3>1, <3>2, CommonHooks DEF LoadsRight
    <3>4. \A h \in CommonHook : pins[h] = starts
      BY <1>C, <2>1, <3>1, <3>3 DEF ByThisStart
    <3>5. starts # 0
      BY <3>1 DEF LoaderTypeOK
    <3> QED  BY <1>C, <2>1, <3>4, <3>5 DEF Unpinned
  <2>4. Cardinality(Unpinned') = 0
    BY <2>3, FS_EmptySet
  <2>5. Tear' \in {0, 1}
    BY DEF Tear
  <2>6. Cardinality(Unpinned') <= torn' + Tear'
    BY <1>0, <2>1, <2>4, <2>5
  <2>7. loader.prevPinned = {} /\ recorded' > 1 => Cardinality(CommonHook) <= torn
    BY <1>0, <2>1 DEF ToldOK
  <2> QED  BY <1>C, <2>1, <2>2, <2>6, <2>7 DEF ToldOK
<1>10. CASE LoaderEnds
  <2>1. /\ loader # Down /\ loader' = Down /\ UNCHANGED <<pins, recorded>>
        /\ torn' = IF loader.pinning \cap Program = {} THEN torn ELSE torn + 1
    BY <1>10 DEF LoaderEnds
  <2>2. Unpinned' = Unpinned /\ Tear' = 0
    BY <1>C, <2>1 DEF Unpinned, Tear, Down
  <2>3. torn' >= torn + Tear
    BY <1>0, <1>C, <2>1 DEF Tear
  <2>4. torn' \in Nat
    BY <1>0, <2>1
  <2>5. recorded > 0 => Cardinality(Unpinned') <= torn' + Tear'
    BY <1>0, <1>C, <2>2, <2>3, <2>4 DEF ToldOK
  <2>6. loader'.at # "up"
    BY <2>1 DEF Down
  <2> QED  BY <2>1, <2>5, <2>6 DEF ToldOK, Down
<1>11. CASE Reboot
  <2>1. loader' = Down /\ recorded' = 0
    BY <1>11 DEF Reboot
  <2> QED  BY <2>1 DEF ToldOK, Down
<1>12. CASE UNCHANGED loaderVars
  <2>1. UNCHANGED <<loader, pins, recorded, torn, gapGiven>>
    BY <1>12 DEF loaderVars
  <2>2. Unpinned' = Unpinned /\ Tear' = Tear
    BY <1>C, <2>1 DEF Unpinned, Tear, Down
  <2> QED  BY <1>C, <2>1, <2>2 DEF ToldOK, Down
<1> QED  BY <1>1, <1>2, <1>3, <1>4, <1>5, <1>6, <1>7, <1>8, <1>9, <1>10, <1>11, <1>12
         DEF LoaderNext, Pinnable

----------------------------------------------------------------------------
(* The theorem *)

LoaderInv == LoaderTypeOK /\ LoadOK /\ PinOK /\ ToldOK

\* The invariant makes a running loader sound.
LEMMA LoaderInvIsSound == LoaderInv => UpIsSound
<1> SUFFICES ASSUME LoaderInv PROVE UpIsSound
  OBVIOUS
<1>1. UpIsComplete /\ PinsAreOwn
  BY LoadIsComplete, PinsAreItsOwn DEF LoaderInv
<1>2. ASSUME Up, recorded > 1, torn < Cardinality(CommonHook) PROVE gapGiven
  <2>1. loader # Down /\ loader.at = "up"
    BY <1>2 DEF Up, Down
  <2>2. loader.prevPinned # {}
    <3>1. Cardinality(CommonHook) \in Nat /\ torn \in Nat
      BY CommonHooks DEF LoaderInv, LoaderTypeOK
    <3> QED  BY <1>2, <2>1, <3>1 DEF LoaderInv, ToldOK
  <2> QED  BY <2>1, <2>2 DEF LoaderInv, ToldOK
<1> QED  BY <1>1, <1>2 DEF UpIsSound, RestartIsTold

\* NewLoader (loader_attach.go) returns a loader only with every hook of its
\* version attached and, from 5.18 on, the LSM hook as well or the reason it is
\* not; beneath it are pinned its own programs and maps and, of older ones, the
\* LSM hook at most; and it has told of the interruption when another loader
\* came up before it, unless ranads died replacing a pin as often as there are
\* hooks: however many ranads of whatever versions were started, failed or
\* died, between any two statements, before it.
THEOREM LoaderIsSound == LoaderSpec => []UpIsSound
<1>1. LoaderInit => LoaderInv
  BY InitLoaderType, InitLoad, InitPin, InitTold DEF LoaderInv
<1>2. LoaderInv /\ [LoaderNext]_loaderVars => LoaderInv'
  BY NextLoaderType, NextLoad, NextPin, NextTold DEF LoaderInv
<1> QED  BY <1>1, <1>2, LoaderInvIsSound, PTL DEF LoaderSpec

=============================================================================
