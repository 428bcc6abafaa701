----------------------------- MODULE MCRanking ------------------------------
EXTENDS Ranking

MCItem(base, category, advertiser, created, expires) ==
    [base |-> base, category |-> category, advertiser |-> advertiser,
     created |-> created, expires |-> expires]

\* At time 2: two plain items of one category, one old, one from the future, one
\* of another category, one switched off, one that has just expired.
MCItems ==
    {MCItem(2, "a", "x", 2, Never), MCItem(2, "a", "y", 2, 3), MCItem(4, "a", "x", 1, Never),
     MCItem(2, "b", "x", 3, Never), MCItem(1, "c", "y", 2, Never),
     MCItem(0, "a", "y", 2, Never), MCItem(4, "b", "y", 0, 2)}

MCInventories == [1 .. 4 -> MCItems]

MCAffinity(category, weight) == [category |-> category, weight |-> weight]

MCSignals ==
    {[affinities |-> <<MCAffinity("a", 5), MCAffinity("b", 10), MCAffinity("a", 9)>>,
      excluded |-> {}],
     [affinities |-> <<>>, excluded |-> {"b"}]}
=============================================================================
