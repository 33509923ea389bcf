----------------------------- MODULE MCStorage -----------------------------
EXTENDS Storage, TLC

ProcessSymmetry == Permutations(Processes)

\* Two processes; an old release, the present one and a fork of it.
MCStatementsOf == [catalog |-> 1, stock |-> 2, other |-> 1]
MCReleases == {<<"catalog">>, <<"catalog", "stock">>, <<"catalog", "other">>}

\* Two products at once, again with a quantity that is refused at the second,
\* and a negative quantity.
MCWorks ==
    LET item(p, q) == [id |-> p, quantity |-> q] IN
    {<<item("p1", 1), item("p2", 0)>>, <<item("p2", 1), item("p1", 2)>>,
     <<item("p2", -1)>>}
=============================================================================
