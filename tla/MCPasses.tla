------------------------------ MODULE MCPasses ------------------------------
EXTENDS Passes
CONSTANTS s1, s2, t1, t2, t3, f1, f2

\* "a.b", "a b" and "ab": one key and two file names, two keys and one name.
MCKey == t1 :> 1 @@ t2 :> 1 @@ t3 :> 2
MCSlug == t1 :> f1 @@ t2 :> f2 @@ t3 :> f1

MCDrafts ==
    {[title |-> t1, form |-> "page", cites |-> "shown", links |-> {f2}],
     [title |-> t2, form |-> "entity", cites |-> "others", links |-> {}],
     [title |-> t1, form |-> "bare", cites |-> "none", links |-> {}],
     [title |-> t3, form |-> "husk", cites |-> "none", links |-> {}]}
=============================================================================
