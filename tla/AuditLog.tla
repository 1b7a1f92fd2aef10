------------------------------ MODULE AuditLog ------------------------------
(***************************************************************************)
(* What the audit trail promises its readers (verifyAuditChain, the        *)
(* chain-head anchors): one linear log of events that only grows at its    *)
(* end, and events acknowledged to a caller are in it for good.            *)
(***************************************************************************)
EXTENDS Naturals, Sequences

CONSTANT Event      \* every event that can be recorded

VARIABLES
    log,            \* events in chain order
    acknowledged    \* events whose writer was told "ok"

Init == log = <<>> /\ acknowledged = {}

(* An event becomes the new chain head. *)
Record(e) ==
    /\ \A i \in 1..Len(log) : log[i] # e
    /\ log' = Append(log, e)
    /\ UNCHANGED acknowledged

(* The writer of a recorded event is told so. *)
Acknowledge(e) ==
    /\ \E i \in 1..Len(log) : log[i] = e
    /\ acknowledged' = acknowledged \cup {e}
    /\ UNCHANGED log

Next == \E e \in Event : Record(e) \/ Acknowledge(e)

Spec == Init /\ [][Next]_<<log, acknowledged>>
=============================================================================
