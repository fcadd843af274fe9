------------------------------- MODULE MCGraphs -------------------------------
EXTENDS GraphFacts

Up   == [n \in Nodes |-> n % 3]
Down == [n \in Nodes |-> (N - 1 - n) % 3]

\* draws that rank the components one way or the other
MCDraws == {<<Up, Down>>, <<Down, Up>>}
==========================================================================
