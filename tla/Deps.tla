------------------------------- MODULE Deps -------------------------------
(***************************************************************************)
(* The phased dependency scheduler, basic_dependency_graph_base_t          *)
(* (graph/deps.hpp, described in graph/scheduler.md).                      *)
(*                                                                         *)
(* Every node is ordered twice, forward and backward; an edge makes one    *)
(* node depend on the other forward and the other on it backward.  In each *)
(* direction a node has a phase "current" and waits, in "trigger", for its *)
(* dependencies to reach the phase it needs.  When they have, it fires: it *)
(* is listed for the next wave, the wave runs it, and the client answers   *)
(* with defuse, which gives it new phases and tells its dependants.        *)
(*                                                                         *)
(* The connection lists are bags (two nodes may be joined twice); their    *)
(* order decides only the order inside a wave.  The operations on lists    *)
(* (make_edges, seed_all_nodes, a defuse of both directions) are loops of  *)
(* the ones here.                                                          *)
(***************************************************************************)
EXTENDS Integers, FiniteSets

CONSTANTS
    MaxNodes,       \* bound: nodes 1 .. MaxNodes
    MaxEdges,       \* bound: edges of the graph
    Omega           \* max_invalid_state_v

Space(c, t) == [current |-> c, trigger |-> t]
Spaces      == [current : 0 .. Omega, trigger : 0 .. Omega]

ASSUME BoundsAssumption ==
    /\ MaxNodes \in Nat \ {0}
    /\ MaxEdges \in Nat
    /\ Omega \in Nat \ {0}

VARIABLES
    count,      \* node_count()
    node,       \* node[n][d]: node n in direction d
    apply,      \* m_apply_list, as a bag: the nodes of the next wave
    applied     \* m_applied_list: the nodes of the wave that is running

vars == <<count, node, apply, applied>>

Ids   == 1 .. MaxNodes
Nodes == 1 .. count
Dirs  == {"forward", "backward"}
Opposite(d) == IF d = "forward" THEN "backward" ELSE "forward"

Bag == [Ids -> Nat]
EmptyBag == [n \in Ids |-> 0]

\* The entries of a bag are <<element, k>>, k counting its occurrences; no
\* element occurs more often than there are connections.
Entries(bag) == {e \in Ids \X (1 .. 2 * MaxEdges) : e[2] <= bag[e[1]]}
Size(bag)    == Cardinality(Entries(bag))
SizeOf(bag, P(_)) == Cardinality({e \in Entries(bag) : P(e[1])})

\* "active" counts the dependencies that are far enough; while the node has
\* fired it is latched to one of two tags.
ACTIVE  == -1
PASSIVE == -2
NodeDir == [current : 0 .. Omega, trigger : 0 .. Omega, active : Int, conns : Bag]

Absent == [current |-> 0, trigger |-> 0, active |-> 0, conns |-> EmptyBag]

--------------------------------------------------------------------------
(* base_state_space_t: what the two phases of a node say. *)

Incomplete(s)    == s.current < Omega \/ s.trigger < Omega
Unrecoverable(s) == Incomplete(s) /\ s.current = Omega
Triggered(s)     == s.trigger <= s.current /\ s.current < Omega
Errored(s)       == [s EXCEPT !.trigger = Omega - 1, !.current = Omega]

\* canonicalize leaves exactly these
Canonical(s) == s.trigger >= s.current \/ Unrecoverable(s)

\* What a client can give a node, at its creation and after a wave.
CanonicalSpaces == {s \in Spaces : Canonical(s)}
NewSpaces == CanonicalSpaces \X CanonicalSpaces

\* mutant: a step back in phase is not an error
RefreshedAnyway(s, fresh) ==
    IF Unrecoverable(s) THEN s
    ELSE [s EXCEPT !.current = fresh.current, !.trigger = fresh.trigger]

\* refresh: take fresh over, unless that goes back in phase
Refreshed(s, fresh) ==
    CASE Unrecoverable(s)          -> s
      [] ~Unrecoverable(s) /\ fresh.current < s.current -> Errored(s)
      [] OTHER -> [s EXCEPT !.current = fresh.current, !.trigger = fresh.trigger]

(* directed_state_space_t: a node in one direction. *)

\* mutant: fires without its dependencies
CanTriggerEarly(s) == ~Unrecoverable(s) /\ ~Triggered(s) /\ Incomplete(s)

CanTrigger(s) ==
    /\ ~Unrecoverable(s) /\ ~Triggered(s) /\ Incomplete(s)
    /\ s.active = Size(s.conns)

\* defuse: a triggered answer is an error, which leaves the tag on; any other
\* takes it off.
Defused(s, fresh) ==
    IF Triggered(fresh) THEN Errored(s)
    ELSE Refreshed([s EXCEPT !.active = 0], fresh)

\* actively_trigger
Fire(s) == [s EXCEPT !.active = ACTIVE, !.trigger = s.current]

\* dec_zero_in_dgree, k times
Counted(s, k) == IF Triggered(s) THEN s ELSE [s EXCEPT !.active = @ + k]

\* Does dependency "dep" count for a node that waits for "trigger"?
FarEnough(dep, trigger) ==
    ~Unrecoverable(dep) /\ (Incomplete(dep) => dep.current >= trigger)
Behind(dep, s) ==
    ~Unrecoverable(dep) /\ Incomplete(dep) /\ dep.current < s.current

\* make_dependency
Depend(s, dep) ==
    CASE Behind(dep, s)                               -> Errored(s)
      [] ~Behind(dep, s) /\ FarEnough(dep, s.trigger) -> Counted(s, 1)
      [] OTHER                                        -> s
DependOk(s, dep) == ~Unrecoverable(dep) /\ ~Behind(dep, s)

--------------------------------------------------------------------------
Init ==
    /\ count = 0
    /\ node = [n \in Ids |-> [d \in Dirs |-> Absent]]
    /\ apply = EmptyBag
    /\ applied = {}

\* the entries of all lists; a whole edge has two
Connections ==
    Cardinality({c \in Ids \X Dirs \X Ids \X (1 .. 2 * MaxEdges) :
                    c[4] <= node[c[1]][c[2]].conns[c[3]]})

\* make_node_temp_impl: a default node defused with the space
NewNode(space) == Defused(Absent, space)

MakeNode(fs, bs) ==
    /\ count < MaxNodes
    /\ count' = count + 1
    /\ node' = [node EXCEPT ![count + 1] =
                   [d \in Dirs |-> NewNode(IF d = "forward" THEN fs ELSE bs)]]
    /\ UNCHANGED <<apply, applied>>

\* make_edge_impl2, on the nodes nd: dependant depends on dependency
HalfEdge(nd, d, dependency, dependant) ==
    LET dep == nd[dependency][d]
        s   == nd[dependant][d]
    IN  [nd EXCEPT ![dependant][d] =
            IF DependOk(s, dep)
            THEN [Depend(s, dep) EXCEPT !.conns[dependency] = @ + 1]
            ELSE Depend(s, dep)]

\* make_edge (d = forward) and one turn of make_edges (either): the second
\* half is only tried when the first succeeds, and the first stays when the
\* second fails.
MakeEdge(d, dependency, dependant) ==
    LET first  == HalfEdge(node, d, dependency, dependant)
        second == HalfEdge(first, Opposite(d), dependant, dependency)
    IN  /\ dependency # dependant
        /\ Connections + 2 <= 2 * MaxEdges
        /\ node' = IF DependOk(node[dependant][d], node[dependency][d])
                   THEN second ELSE first
        /\ UNCHANGED <<count, apply, applied>>

--------------------------------------------------------------------------
\* make_resolution_query_impl_: a node that fires is listed, unless it is
\* already because it fired in the other direction
Listed(n, d) == IF node[n][Opposite(d)].active = ACTIVE THEN 0 ELSE 1

\* mutant: the fired node is not listed
QueryUnlisted(n, d) ==
    /\ CanTrigger(node[n][d])
    /\ node' = [node EXCEPT ![n][d] = Fire(@)]
    /\ UNCHANGED <<count, apply, applied>>

Query(n, d) ==
    /\ CanTrigger(node[n][d])
    /\ node' = [node EXCEPT ![n][d] = Fire(@)]
    /\ apply' = [apply EXCEPT ![n] = @ + Listed(n, d)]
    /\ UNCHANGED <<count, applied>>

\* mutants: the dependencies are not counted again; not looked at for phases
Uncounted(s, deps, d) ==
    IF \E m \in Ids : deps[m] > 0 /\ Behind(node[m][d], s) THEN Errored(s) ELSE s
RecountedBlind(s, deps, d) ==
    LET Far(m) == FarEnough(node[m][d], s.trigger)
    IN  [s EXCEPT !.active = SizeOf(deps, Far)]

\* a fired node with its new phases, and its count taken afresh from its
\* dependencies (the count of a node in error is never read again)
Recounted(s, deps, d) ==
    LET Far(m) == FarEnough(node[m][d], s.trigger)
    IN  IF \E m \in Ids : deps[m] > 0 /\ Behind(node[m][d], s)
        THEN Errored(s)
        ELSE [s EXCEPT !.active = SizeOf(deps, Far)]

\* Does the step of a dependency from phase "old" to "fresh" fire dependant s,
\* which lists it k times?
Passes(s, old, fresh) == old < s.trigger /\ s.trigger <= fresh
Fires(s, old, fresh, k) ==
    /\ k > 0 /\ Passes(s, old, fresh)
    /\ s.active < Size(s.conns) /\ Size(s.conns) <= s.active + k
    /\ ~Unrecoverable(s) /\ ~Triggered(s) /\ Incomplete(s)

\* defuse_resolution_impl1: fresh are the phases the client gives node n,
\* me and deps whether n itself and its dependants may fire.
Defuse(n, d, fresh, me, deps) ==
    LET s      == node[n][d]
        old    == s.current
        given  == Defused(s, fresh)
        mine   == Recounted(given, s.conns, d)
        refire == me /\ CanTrigger(mine)
        outs   == node[n][Opposite(d)].conns
        Hit(m) == deps /\ m # n /\ Fires(node[m][d], old, fresh.current, outs[m])
        After(m) == CASE Hit(m) -> Fire(node[m][d])
                      [] ~Hit(m) /\ Passes(node[m][d], old, fresh.current)
                            -> Counted(node[m][d], outs[m])
                      [] OTHER -> node[m][d]
    IN  /\ s.active = PASSIVE
        /\ IF Unrecoverable(given) \/ Unrecoverable(mine)
           THEN /\ node' = [node EXCEPT ![n][d] =
                               IF Unrecoverable(given) THEN given ELSE mine]
                /\ UNCHANGED apply
           ELSE /\ node' = [m \in Ids |-> [node[m] EXCEPT ![d] =
                               CASE m = n /\ refire  -> Fire(mine)
                                 [] m = n /\ ~refire -> mine
                                 [] OTHER            -> After(m)]]
                /\ apply' = [m \in Ids |-> apply[m] +
                               (IF (m = n /\ refire) \/ Hit(m) THEN Listed(m, d) ELSE 0)]
        /\ UNCHANGED <<count, applied>>

--------------------------------------------------------------------------
(* run_resolution_queries: the listed nodes become the wave, and passive,  *)
(* before the callback runs; the list of the wave is cleared after it.     *)

BeginWave ==
    /\ applied = {} /\ apply # EmptyBag
    /\ applied' = {n \in Ids : apply[n] > 0}
    /\ apply' = EmptyBag
    /\ node' = [n \in Ids |-> [d \in Dirs |->
                   IF apply[n] > 0 /\ node[n][d].active = ACTIVE
                   THEN [node[n][d] EXCEPT !.active = PASSIVE]
                   ELSE node[n][d]]]
    /\ UNCHANGED count

\* mutant: the list of the wave is kept
EndWaveKeeps ==
    /\ applied # {}
    /\ UNCHANGED vars

EndWave ==
    /\ applied # {}
    /\ applied' = {}
    /\ UNCHANGED <<count, node, apply>>

\* clear
Clear ==
    /\ applied = {} /\ count > 0
    /\ count' = 0
    /\ node' = [n \in Ids |-> [d \in Dirs |-> Absent]]
    /\ apply' = EmptyBag
    /\ UNCHANGED applied

\* A client that makes nodes with these spaces and gives these answers.
Operate(spaces, answers) ==
    \/ \E sp \in spaces : MakeNode(sp[1], sp[2])
    \/ \E d \in Dirs, n \in Nodes :
          \/ Query(n, d)
          \/ \E m \in Nodes : MakeEdge(d, n, m)
          \/ \E fresh \in answers, me \in BOOLEAN, deps \in BOOLEAN :
                Defuse(n, d, fresh, me, deps)

Next == Operate(NewSpaces, CanonicalSpaces) \/ BeginWave \/ EndWave \/ Clear

Spec == Init /\ [][Next]_vars

\* The client keeps running waves and every callback returns.
FairSpec == Spec /\ WF_vars(BeginWave) /\ WF_vars(EndWave)

--------------------------------------------------------------------------
\* Every variable stays within its type; phases never leave 0 .. Omega.
TypeOK ==
    /\ count \in 0 .. MaxNodes
    /\ node \in [Ids -> [Dirs -> NodeDir]]
    /\ apply \in Bag
    /\ applied \subseteq Ids

\* <<direction, dependency, dependant>>
Edges == {e \in Dirs \X Nodes \X Nodes : node[e[3]][e[1]].conns[e[2]] > 0}

\* THE RULE of scheduler.md: a node's current phase never exceeds that of a
\* node it depends on, unless it is in error.
TheRule ==
    \A e \in Edges : LET dep == node[e[2]][e[1]]  s == node[e[3]][e[1]]
                     IN  s.current <= dep.current \/ Unrecoverable(s)

\* An edge both nodes know of: the second half of make_edge did not fail.
Whole(m, d) == \A n \in Ids : node[m][d].conns[n] = node[n][Opposite(d)].conns[m]
Waiting(s) == Incomplete(s) /\ ~Unrecoverable(s) /\ ~Triggered(s)
Dependencies(m, d, P(_)) == SizeOf(node[m][d].conns, P)

\* scheduler.md "|actives| = for all Ds count_of(N.T <= D.C)": what defuse
\* counts step by step (Kahn's algorithm) is the number of dependencies that
\* are far enough.  A dependency in error has D.C = Omega; it is counted if it
\* was far enough before.
CountsDependencies(m, d) ==
    LET Far(n)     == FarEnough(node[n][d], node[m][d].trigger)
        Reached(n) == node[n][d].current >= node[m][d].trigger
    IN  /\ Dependencies(m, d, Far) <= node[m][d].active
        /\ node[m][d].active <= Dependencies(m, d, Reached)
KahnCount ==
    \A m \in Nodes, d \in Dirs :
        Waiting(node[m][d]) /\ Whole(m, d) => CountsDependencies(m, d)

\* The same of every node, as scheduler.md has it.
ActivesIsCount ==
    \A m \in Nodes, d \in Dirs :
        Waiting(node[m][d]) => CountsDependencies(m, d)

\* The assertions of is_actively_triggered and is_passively_triggered, and the
\* comment on active_connections: a node is latched to a tag only while it is
\* triggered.
TagMeansTriggered ==
    \A m \in Nodes, d \in Dirs :
        node[m][d].active \in {ACTIVE, PASSIVE} => Triggered(node[m][d])

\* The assertion of run_resolution_queries, and its converse: a node that is
\* in error in neither direction is in the list once if it fired in either,
\* and not otherwise.
Faultless(n) == \A d \in Dirs : ~Unrecoverable(node[n][d])
ListIsFired ==
    \A n \in Ids : Faultless(n) =>
        apply[n] = IF \E d \in Dirs : node[n][d].active = ACTIVE THEN 1 ELSE 0

\* A node fires only when every dependency has reached the phase it waits
\* for ("b will never lookup prematurely", scheduler.md), however waves, edges
\* and defuses mix.
FiresWhenReady ==
    \A m \in Nodes, d \in Dirs :
        (/\ node[m][d].active # ACTIVE
         /\ node'[m][d].active = ACTIVE /\ ~Unrecoverable(node'[m][d])
         /\ Whole(m, d)) =>
            \A n \in Ids : node[m][d].conns[n] > 0 =>
                node'[n][d].current >= IF node[m][d].active = PASSIVE
                                       THEN node'[m][d].current + 1
                                       ELSE node[m][d].trigger
NoEarlyFiring == [][FiresWhenReady]_vars

\* "is_unrecoverable: latch forever error", and phases never go back, until
\* the graph is cleared.
OnlyForward ==
    \A m \in Nodes, d \in Dirs : count' > 0 =>
        /\ node[m][d].current <= node'[m][d].current
        /\ Unrecoverable(node[m][d]) => Unrecoverable(node'[m][d])
PhasesOnlyAdvance == [][OnlyForward]_vars

\* A listed node is run by a wave, or the graph is cleared.
FiredNodesRun ==
    \A n \in Ids : (apply[n] > 0) ~> (n \in applied \/ count = 0)
==========================================================================
