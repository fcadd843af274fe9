------------------------------ MODULE MCDeps ------------------------------
(***************************************************************************)
(* Instances of Deps for TLC: a behaviour is about one client, which makes *)
(* so many nodes and edges and gives only some spaces.                     *)
(***************************************************************************)
EXTENDS Deps

CONSTANT Clients

VARIABLE client

Lists == [n \in Ids |-> [d \in Dirs |-> node[n][d].conns]]

MCInit == Init /\ client \in Clients
MCNext ==
    /\ Operate(client.spaces, client.answers) \/ BeginWave \/ EndWave \/ Clear
    /\ count' <= client.nodes /\ (Lists' = Lists \/ Connections' <= 2 * client.edges)
    /\ UNCHANGED client

MCSpec == MCInit /\ [][MCNext]_<<vars, client>>
MCFairSpec == MCSpec /\ WF_vars(BeginWave) /\ WF_vars(EndWave)

\* Nodes that wait for one thing, forward only.
OneWay ==
    [nodes |-> 3, edges |-> 2, spaces |-> {<<Space(0, 2), Space(2, 2)>>},
     answers |-> {Space(0, 2), Space(2, 2)}]

\* Nodes that pass through an intermediate phase; any answer.
Phased ==
    [nodes |-> 2, edges |-> 2,
     spaces |-> {<<Space(0, 1), Space(2, 2)>>, <<Space(1, 2), Space(2, 2)>>},
     answers |-> CanonicalSpaces]

\* Nodes that wait in both directions; an answer may be triggered.
BothWays ==
    [nodes |-> 2, edges |-> 1, spaces |-> {<<Space(0, 2), Space(0, 2)>>},
     answers |-> {Space(0, 2), Space(2, 2), Space(0, 0)}]

\* Nodes that wait for different phases in both directions; no answer is
\* triggered.
Careful ==
    [nodes |-> 2, edges |-> 1,
     spaces |-> {<<Space(0, 1), Space(0, 2)>>, <<Space(1, 2), Space(1, 2)>>},
     answers |-> {s \in CanonicalSpaces : ~Triggered(s)}]

Everyone == {OneWay, Phased, BothWays}
OnlyCareful == {Careful}
==========================================================================
