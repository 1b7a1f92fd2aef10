---------------------------- MODULE MCTraceChain ----------------------------
(***************************************************************************)
(* TLC instances of TraceChain, and its refinement of AuditLog: the linear *)
(* log is the concatenation of the day files in date order.                *)
(***************************************************************************)
EXTENDS TraceChain, SequencesExt

EventsOf(f) == [i \in 1..Len(f) |-> f[i].ev]

Linear == INSTANCE AuditLog WITH
    Event <- Events,
    log <- FlattenSeq([d \in Days |-> EventsOf(files[d])]),
    acknowledged <- returned

(* The day files, read in date order, are one append-only log, and a       *)
(* returned event stays in it.                                             *)
ImplementsAuditLog == Linear!Spec
=============================================================================
