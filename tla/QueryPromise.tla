----------------------------- MODULE QueryPromise -----------------------------
(***************************************************************************)
(* What a query promises whoever asks it, with or without the extension:   *)
(* it returns, and it returns the join of its tables.  The README of the   *)
(* extension: "Queries return identical results".                          *)
(***************************************************************************)
EXTENDS TransferGraph

VARIABLES
    classes,     \* the sets of columns the query's conditions equate
    data,        \* the rows of each table
    status,      \* "idle", "asked", "answered"
    answer       \* the rows of the result, as functions from tables to rows

qvars == <<classes, data, status, answer>>

QInit == status = "idle" /\ answer = {}

\* The tables have whatever rows they have when the query starts.
Ask == status = "idle" /\ status' = "asked" /\ UNCHANGED <<classes, answer>>

Answer ==
    /\ status = "asked"
    /\ status' = "answered"
    /\ answer' = JoinOf(data, classes)
    /\ UNCHANGED <<classes, data>>

Close == status = "answered" /\ status' = "idle" /\ answer' = {} /\ UNCHANGED classes

QNext == Ask \/ Answer \/ Close

QSpec == QInit /\ [][QNext]_qvars /\ WF_qvars(Answer)
QSafety == QInit /\ [][QNext]_qvars
=============================================================================
