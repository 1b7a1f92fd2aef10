------------------------------ MODULE MCSpool ------------------------------
EXTENDS Spool
CONSTANTS b1, b2, tenant, w1, o1, e1, e2

\* The second is no page of the wiki, and a report all the same.
MCContents ==
    {[type |-> "concept", size |-> "fits", body |-> b1], [type |-> None, size |-> "fits", body |-> b2]}

Given == [scope |-> "all", tenant |-> tenant, out |-> None,
          bulk |-> FALSE, dry |-> FALSE, reconcile |-> TRUE]

MCInvocations ==
    {Given, [Given EXCEPT !.out = "outside"], [Given EXCEPT !.dry = TRUE]}
=============================================================================
