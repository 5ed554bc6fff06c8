----------------------------- MODULE AlertQueue -----------------------------
(***************************************************************************)
(* What the investigator queue (AlertQueue, finguard/scoring.py) promises, *)
(* one whole call per step: the table `alerts`, keyed by alert id, and the *)
(* table `disposition_audit`, which only INSERTs touch.                    *)
(*                                                                         *)
(* An alert's payload is abstracted to the fields the service reads back   *)
(* from it.  The three confirmed_fraud labels are one: the code only looks *)
(* at the prefix.                                                          *)
(***************************************************************************)
EXTENDS Sequences, Integers

CONSTANTS
    AlertIds,    \* "alert_<transaction_id>"
    Payloads,    \* the alert dictionaries
    Analysts,    \* analyst identities that are not blank
    NoAlert,     \* no row with this id
    Null         \* SQL NULL: no disposition

Labels == {"confirmed_fraud", "confirmed_legitimate", "unresolved"}

Rows == [payload : Payloads, disposition : Labels \cup {Null}]
AuditRows == [alert : AlertIds, disposition : Labels, analyst : Analysts,
              prior : Labels \cup {Null}]

VARIABLES
    alerts,   \* [AlertIds -> Rows \cup {NoAlert}]
    audit     \* the rows of disposition_audit in order of seq

queueVars == <<alerts, audit>>

QueueTypeOK ==
    /\ alerts \in [AlertIds -> Rows \cup {NoAlert}]
    /\ audit \in Seq(AuditRows)

QueueInit == alerts = [id \in AlertIds |-> NoAlert] /\ audit = <<>>

-----------------------------------------------------------------------------
(* INSERT OR REPLACE ... NULL: the new row has no disposition, whatever a  *)
(* row with the same id had.                                               *)
WithAlert(table, id, payload) ==
    [table EXCEPT ![id] = [payload |-> payload, disposition |-> Null]]

(* SELECT disposition: NULL and a missing row look the same.               *)
PriorIn(table, id) == IF table[id] = NoAlert THEN Null ELSE table[id].disposition

(* UPDATE ... WHERE alert_id=?: no row, no change.                         *)
WithDisposition(table, id, label) ==
    IF table[id] = NoAlert THEN table
    ELSE [table EXCEPT ![id].disposition = label]

AuditRow(id, label, analyst, prior) ==
    [alert |-> id, disposition |-> label, analyst |-> analyst, prior |-> prior]

Push(id, payload) ==
    /\ alerts' = WithAlert(alerts, id, payload)
    /\ UNCHANGED audit

(* The call succeeds for an id no alert has.  An unknown label (ValueError)*)
(* or a blank analyst (PermissionError) changes nothing: no step.          *)
Disposition(id, label, analyst) ==
    /\ alerts' = WithDisposition(alerts, id, label)
    /\ audit' = Append(audit, AuditRow(id, label, analyst, PriorIn(alerts, id)))

QueueNext ==
    \/ \E id \in AlertIds, payload \in Payloads : Push(id, payload)
    \/ \E id \in AlertIds, label \in Labels, analyst \in Analysts :
           Disposition(id, label, analyst)

QueueSpec == QueueInit /\ [][QueueNext]_queueVars
=============================================================================
