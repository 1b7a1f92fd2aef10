------------------------------ MODULE MCRecall ------------------------------
EXTENDS Recall
CONSTANTS g1, g2, t1, t2, c1, p1, p2

MCSymmetry == Permutations({p1, p2})

MCBase == g1 :> "a" @@ g2 :> "a"      \* concepts/a.md and topics/a.md
MCMatching == t1 :> {g1, g2} @@ t2 :> {}
MCSlug == t1 :> <<"t">> @@ t2 :> <<>> @@ c1 :> <<"c">>

MCResponses ==
    {[cards |-> <<>>, quiz |-> <<>>],
     [cards |-> <<[concept |-> c1, cites |-> <<g1>>], [concept |-> c1, cites |-> <<Phantom>>]>>,
      quiz |-> <<[cites |-> <<g2, g1>>], [cites |-> <<Phantom>>]>>]}
=============================================================================
