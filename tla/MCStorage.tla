------------------------------ MODULE MCStorage ------------------------------
(***************************************************************************)
(* What lies on disk, on small instances: the ledger under its readers and *)
(* its collector, and the files beside it.  They share no state: each      *)
(* behaviour is about one of them, its scene, and leaves the other alone.  *)
(* Verify and Export change nothing the other could see: a scene for each. *)
(***************************************************************************)
EXTENDS LedgerReaders, DeviceFiles, TLC

VARIABLE scene

storageVars == <<scene, readerVars, deviceVars>>

StorageInit == scene \in {"verify", "export", "files"} /\ ReadersInit /\ DeviceInit

StorageNext ==
    /\ UNCHANGED scene
    /\ \/ scene = "verify" /\ ReadersNext /\ UNCHANGED <<export, deviceVars>>
       \/ scene = "export" /\ ReadersNext /\ UNCHANGED <<verify, deviceVars>>
       \/ scene = "files" /\ DeviceNext /\ UNCHANGED readerVars

StorageSpec == StorageInit /\ [][StorageNext]_storageVars

\* Collectors and runs are told apart by nothing but their name.
Alike == Permutations(Collector) \cup Permutations(Run)

=============================================================================
