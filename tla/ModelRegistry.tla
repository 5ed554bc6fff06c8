--------------------------- MODULE ModelRegistry ---------------------------
(***************************************************************************)
(* The model registry (finguard/model_registry.py) as the files it writes: *)
(* the bundle and the sidecar of each version and the pointer `current`.   *)
(* Opening a file for writing empties it, and the process that writes may  *)
(* die before it is whole again.                                           *)
(*                                                                         *)
(* A version names its contents, so a file is absent, torn or whole.  One  *)
(* process at a time publishes or rolls back.                              *)
(***************************************************************************)
EXTENDS Integers

CONSTANTS
    Versions,     \* "v_<hash of params and metrics>"
    NoPointer,    \* there is no file `current`
    MaxWrites     \* bound on the calls of publish and rollback

EmptyPointer == "empty"

ASSUME RegistryAssumption ==
    /\ NoPointer \notin Versions /\ EmptyPointer \notin Versions
    /\ MaxWrites \in Nat

VARIABLES
    bundle,    \* v_<hash>.pkl
    sidecar,   \* v_<hash>.json
    current,   \* the pointer
    writer,    \* the call under way
    writes,    \* number of calls so far
    spoiled    \* history: versions whose latest bundle write was cut off

registryVars == <<bundle, sidecar, current, writer, writes, spoiled>>

Files == {"absent", "torn", "whole"}
NoCall == [step |-> "none"]
Calls == [step : {"dump", "sidecar", "dump sidecar", "point", "name"},
          version : Versions, make_current : BOOLEAN]

RegistryTypeOK ==
    /\ bundle \in [Versions -> Files] /\ sidecar \in [Versions -> Files]
    /\ current \in Versions \cup {NoPointer, EmptyPointer}
    /\ writer \in Calls \cup {NoCall}
    /\ writes \in 0 .. MaxWrites
    /\ spoiled \subseteq Versions

RegistryInit ==
    /\ bundle = [v \in Versions |-> "absent"]
    /\ sidecar = [v \in Versions |-> "absent"]
    /\ current = NoPointer
    /\ writer = NoCall
    /\ writes = 0
    /\ spoiled = {}

-----------------------------------------------------------------------------
GoTo(step) == writer' = [writer EXCEPT !.step = step]

Call(step, v, make_current) ==
    /\ writer = NoCall
    /\ writes < MaxWrites
    /\ writes' = writes + 1
    /\ writer' = [step |-> step, version |-> v, make_current |-> make_current]

(* publish: open(..., "wb") truncates the bundle of a version that may     *)
(* have been published, and pointed at, before.                            *)
Publish(v, make_current) ==
    /\ Call("dump", v, make_current)
    /\ bundle' = [bundle EXCEPT ![v] = "torn"]
    /\ UNCHANGED <<sidecar, current, spoiled>>

DumpBundle ==
    /\ writer.step = "dump"
    /\ bundle' = [bundle EXCEPT ![writer.version] = "whole"]
    /\ spoiled' = spoiled \ {writer.version}
    /\ GoTo("sidecar")
    /\ UNCHANGED <<sidecar, current, writes>>

OpenSidecar ==
    /\ writer.step = "sidecar"
    /\ sidecar' = [sidecar EXCEPT ![writer.version] = "torn"]
    /\ GoTo("dump sidecar")
    /\ UNCHANGED <<bundle, current, writes, spoiled>>

DumpSidecar ==
    /\ writer.step = "dump sidecar"
    /\ sidecar' = [sidecar EXCEPT ![writer.version] = "whole"]
    /\ IF writer.make_current THEN GoTo("point") ELSE writer' = NoCall
    /\ UNCHANGED <<bundle, current, writes, spoiled>>

(* rollback is set_current.                                                *)
Rollback(v) ==
    /\ Call("point", v, TRUE)
    /\ UNCHANGED <<bundle, sidecar, current, spoiled>>

(* Mutant of OpenPointer: the version is not looked up first.              *)
OpenPointerUnchecked ==
    /\ writer.step = "point"
    /\ current' = EmptyPointer
    /\ GoTo("name")
    /\ UNCHANGED <<bundle, sidecar, writes, spoiled>>

(* set_current checks that the bundle exists, torn or not; write_text then *)
(* empties the pointer before it writes the name.                          *)
OpenPointer ==
    /\ writer.step = "point"
    /\ bundle[writer.version] # "absent"
    /\ current' = EmptyPointer
    /\ GoTo("name")
    /\ UNCHANGED <<bundle, sidecar, writes, spoiled>>

(* FileNotFoundError.                                                      *)
VersionMissing ==
    /\ writer.step = "point"
    /\ bundle[writer.version] = "absent"
    /\ writer' = NoCall
    /\ UNCHANGED <<bundle, sidecar, current, writes, spoiled>>

NameVersion ==
    /\ writer.step = "name"
    /\ current' = writer.version
    /\ writer' = NoCall
    /\ UNCHANGED <<bundle, sidecar, writes, spoiled>>

(* The process that publishes or rolls back dies, or its write fails.      *)
WriterDies ==
    /\ writer # NoCall
    /\ spoiled' = IF writer.step = "dump" THEN spoiled \cup {writer.version} ELSE spoiled
    /\ writer' = NoCall
    /\ UNCHANGED <<bundle, sidecar, current, writes>>

RegistryNext ==
    \/ \E v \in Versions, make_current \in BOOLEAN : Publish(v, make_current)
    \/ \E v \in Versions : Rollback(v)
    \/ DumpBundle \/ OpenSidecar \/ DumpSidecar
    \/ OpenPointer \/ VersionMissing \/ NameVersion
    \/ WriterDies

-----------------------------------------------------------------------------
(* A version that an operator can see (list_versions reads the sidecars)   *)
(* or that `current` names can be loaded, unless its own bundle is being   *)
(* rewritten or a publish of it was cut off: no other call, in any order,  *)
(* takes a published version away (model_registry.py, publish: bundle,     *)
(* then sidecar, then pointer).                                            *)
OnlyCutOffPublishSpoils ==
    \A v \in Versions :
        (sidecar[v] # "absent" \/ current = v) /\ bundle[v] # "whole" =>
            v \in spoiled \/ (writer.step = "dump" /\ writer.version = v)
=============================================================================
