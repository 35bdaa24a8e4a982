------------------------------ MODULE MCService ------------------------------
(***************************************************************************)
(* The parts of the session service beside the writer and the link, the    *)
(* session's cgroup, and the connection below its frames, on small         *)
(* instances.  They share no state: each behaviour exercises one of them,  *)
(* its scene, and leaves the others as they start or, if they would not    *)
(* rest there, as they end.                                                *)
(***************************************************************************)
EXTENDS LiveTail, DigestWorker, AlertEngine, SessionScope, Framing, Backpressure

VARIABLE scene

frameVars   == <<framingVars, pressureVars>>
serviceVars == <<scene, tailVars, digestVars, alertVars, scopeVars, frameVars>>

ServiceInit ==
    /\ scene \in {"tail", "digest", "alerts", "scope", "framing", "pressure"}
    /\ TailInit /\ DigestInit /\ AlertInit /\ ScopeInit
    /\ IF scene = "framing" THEN FramingInit ELSE FramingOver
    /\ IF scene = "pressure" THEN PressureInit ELSE PressureOver

ServiceNext ==
    /\ UNCHANGED scene
    /\ \/ scene = "tail" /\ TailNext /\ UNCHANGED <<digestVars, alertVars, scopeVars, frameVars>>
       \/ scene = "digest" /\ DigestNext /\ UNCHANGED <<tailVars, alertVars, scopeVars, frameVars>>
       \/ scene = "alerts" /\ AlertNext /\ UNCHANGED <<tailVars, digestVars, scopeVars, frameVars>>
       \/ scene = "scope" /\ ScopeNext /\ UNCHANGED <<tailVars, digestVars, alertVars, frameVars>>
       \/ /\ scene = "framing" /\ FramingNext
          /\ UNCHANGED <<tailVars, digestVars, alertVars, scopeVars, pressureVars>>
       \/ /\ scene = "pressure" /\ PressureNext
          /\ UNCHANGED <<tailVars, digestVars, alertVars, scopeVars, framingVars>>

ServiceSpec ==
    /\ ServiceInit /\ [][ServiceNext]_serviceVars
    /\ TailFairness /\ DigestFairness /\ ScopeFairness /\ FramingFairness /\ PressureFairness

=============================================================================
