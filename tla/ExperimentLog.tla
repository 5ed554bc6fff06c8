---------------------------- MODULE ExperimentLog ----------------------------
(***************************************************************************)
(* The experiment registry (finguard/experiments.py): one file to which    *)
(* every training and evaluation program appends a line when it is done.   *)
(* A record is the program's kind and what its parameters and metrics tell *)
(* apart; run_id is left out: it is the kind and the second, and nothing   *)
(* but the command line looks runs up by it.                               *)
(***************************************************************************)
EXTENDS Sequences

VARIABLE log

LogInit == log = <<>>

LogRun(record) == log' = Append(log, record)

LoadRuns == {log[i] : i \in DOMAIN log}
=============================================================================
