---------------------------- MODULE MCAlertQueue ----------------------------
(***************************************************************************)
(* AlertQueue with a history of what the analysts decided, to compare with *)
(* the prior disposition the audit trail reports.                          *)
(***************************************************************************)
EXTENDS AlertQueue

CONSTANT MaxAudit   \* bound on the length of the audit trail

VARIABLE decided    \* per existing alert, the latest disposition given to it

Push_H(id, payload) == Push(id, payload) /\ UNCHANGED decided

Disposition_H(id, label, analyst) ==
    /\ Len(audit) < MaxAudit
    /\ Disposition(id, label, analyst)
    /\ decided' = IF alerts[id] = NoAlert THEN decided
                  ELSE [decided EXCEPT ![id] = label]

Init_H == QueueInit /\ decided = [id \in AlertIds |-> Null]

Next_H ==
    \/ \E id \in AlertIds, payload \in Payloads : Push_H(id, payload)
    \/ \E id \in AlertIds, label \in Labels, analyst \in Analysts :
           Disposition_H(id, label, analyst)

Spec_H == Init_H /\ [][Next_H]_<<alerts, audit, decided>>

(* The audit row of an override shows the disposition it overrides, however*)
(* many calls came in between (tests/test_engine_and_contract.py, "override*)
(* is visible").  A second score of the same transaction id replaces the   *)
(* row and loses it.                                                       *)
OverrideVisible ==
    [][\A id \in AlertIds :
          (audit' # audit /\ audit'[Len(audit')].alert = id)
              => audit'[Len(audit')].prior = decided[id]]_<<alerts, audit, decided>>
=============================================================================
