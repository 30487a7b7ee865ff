--------------------------- MODULE MCLwanContext ----------------------------
EXTENDS LwanContext

Context(t) == [ctx |-> TRUE, type |-> t]
Other == [ctx |-> FALSE, type |-> 0]

\* All contexts, among other lines; some; none; one that is not known
SomeListings ==
    { <<Context(0), Other, Context(1)>>, <<Context(1)>>, <<Other>>,
      <<Context(0), Context(2), Context(1)>> }
=============================================================================
