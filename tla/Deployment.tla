----------------------------- MODULE Deployment -----------------------------
(***************************************************************************)
(* The registry and the stream consumer together: a consumer that starts   *)
(* first loads the model the registry points at (ScoringEngine.__init__),  *)
(* reading the pointer and the bundle one after the other, while training  *)
(* publishes and an operator rolls back; it then serves that model until   *)
(* it stops.                                                               *)
(***************************************************************************)
EXTENDS ModelRegistry, KafkaConsumer

CONSTANT Pilot    \* the bundle at cfg.model_path, baked into the image

ASSUME PilotAssumption == Pilot \notin Versions

VARIABLES
    loading,    \* the model the starting process is about to load
    model       \* the model of the running process

vars == <<registryVars, consumerVars, queueVars, loading, model>>

(* The types of all variables; in particular a process only ever loads a   *)
(* version or the pilot, whatever state the pointer file is in (scoring.py,*)
(* ScoringEngine.__init__, current_path() or cfg.model_path).              *)
TypeOK ==
    /\ RegistryTypeOK /\ ConsumerTypeOK
    /\ loading \in Versions \cup {Pilot, None}
    /\ model \in Versions \cup {Pilot, None}

Init == RegistryInit /\ ConsumerInit /\ loading = None /\ model = None

-----------------------------------------------------------------------------
(* current_path() or cfg.model_path: no pointer and an empty one are alike.*)
ReadPointer ==
    /\ ~up /\ loading = None
    /\ loading' = IF current \in Versions THEN current ELSE Pilot
    /\ UNCHANGED <<registryVars, consumerVars, queueVars, model>>

Loadable(m) == IF m = Pilot THEN TRUE ELSE bundle[m] = "whole"

(* The bundle is loaded and the consumer subscribes.                       *)
Start ==
    /\ loading # None
    /\ Loadable(loading)
    /\ model' = loading
    /\ loading' = None
    /\ Subscribe
    /\ UNCHANGED registryVars

(* A torn bundle raises in the constructor, outside the loop's try.        *)
StartFails ==
    /\ loading # None
    /\ ~Loadable(loading)
    /\ loading' = None
    /\ UNCHANGED <<registryVars, consumerVars, queueVars, model>>

Registry == RegistryNext /\ UNCHANGED <<consumerVars, queueVars, loading, model>>

Consumer ==
    /\ ConsumerNext
    /\ model' = IF up' THEN model ELSE None
    /\ UNCHANGED <<registryVars, loading>>

(* Everything the bounds allow has been polled.                            *)
Finished == position = MaxMessages /\ job = NoJob /\ UNCHANGED vars

Next == ReadPointer \/ Start \/ StartFails \/ Registry \/ Consumer \/ Finished

(* The loop runs as long as the process does; the broker, the timer, the   *)
(* operators and restarts are not fair.                                    *)
Fairness == WF_vars((Poll \/ LoopBody) /\ UNCHANGED <<registryVars, loading, model>>)

Spec == Init /\ [][Next]_vars /\ Fairness
=============================================================================
