----------------------------- MODULE MCCollector ----------------------------
(***************************************************************************)
(* The parts of ranad beside the link, on small instances.  They share no  *)
(* state: each behaviour exercises one of them, its scene, and leaves the  *)
(* others as they start.                                                   *)
(***************************************************************************)
EXTENDS Enrichment, BpfLoader, Governor, TLC

CONSTANTS exec, connect, file      \* hooks and classes, named for their groups

VARIABLE scene

collectorVars == <<scene, enrichVars, loaderVars, vars>>

\* Two versions of the program, the second with a hook the first has not.
TwoVersions == {{exec, connect}, {exec, connect, file}}

\* A release of every tier, and one past the minor number of a later one.
Releases == {<<5, 10>>, <<5, 15>>, <<5, 18>>, <<6, 1>>, <<6, 6>>}

\* The cache and the numbers share only the record at hand: one scene has the
\* records that use the cache, the sweeps and ranad's death, another has the
\* other records, the gaps, the ends of sessions and ranad's death.  Nor does
\* the cache know of sessions: one is bound beside it.
OfKinds(kinds) ==
    \A p \in {q \in Pump : job'[q].at \in {"enrich", "connect", "dns"}} : job'[p].rec.kind \in kinds

Names ==
    /\ EnrichNext /\ OfKinds({"connect", "dns"}) /\ \A p \in Pump : job'[p].at # "shed"
    /\ bound \subseteq bound' \/ deaths' # deaths
    /\ Cardinality(bound') <= 1
Numbers == EnrichNext /\ OfKinds({"plain", "migration"}) /\ sweep' = 0

CollectorInit ==
    /\ scene \in {"names", "numbers", "loader", "governor"} /\ EnrichInit /\ LoaderInit /\ Init
    /\ scene # "loader" => kernel = <<6, 6>>

CollectorNext ==
    /\ UNCHANGED scene
    /\ \/ scene = "names" /\ Names /\ UNCHANGED <<loaderVars, vars>>
       \/ scene = "numbers" /\ Numbers /\ UNCHANGED <<loaderVars, vars>>
       \/ scene = "loader" /\ LoaderNext /\ UNCHANGED <<enrichVars, vars>>
       \/ scene = "governor" /\ Next /\ UNCHANGED <<enrichVars, loaderVars>>

CollectorSpec == CollectorInit /\ [][CollectorNext]_collectorVars

\* Cgroups and pumps are told apart by nothing but their name.
Alike == Permutations(Cgid) \cup Permutations(Pump)

=============================================================================
