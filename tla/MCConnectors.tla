--------------------------- MODULE MCConnectors ---------------------------
EXTENDS Connectors, TLC

CONSTANTS a, b, price, stock

\* No filter, one of every operator, and two of those that make a
\* range, a pair, or a pair of which a connector drops or turns round one.
MCFilterLists ==
  LET Filter(t, o, v) == [field |-> t, operator |-> o, value |-> v]
      One == {Filter(price, o, v) : o \in Operators, v \in Values}
      Two == {Filter(t, o, 1) : t \in Fields, o \in {"gte", "lt", "ne", "like"}}
  IN {<<>>} \cup {<<f>> : f \in One} \cup {<<f, g>> : f \in Two, g \in Two}
MCSymmetry == Permutations(Ids)
MCAllKinds == AllKinds
MCValues == 0..1
MCLimits == 0..2
=============================================================================
