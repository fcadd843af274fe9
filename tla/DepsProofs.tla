----------------------------- MODULE DepsProofs -----------------------------
(* Theorems about Deps, for any numbers of nodes, edges and phases. *)
EXTENDS Deps, FiniteSetTheorems, TLAPS

(* The operators on the two phases, on one node in one direction. *)

\* A count of dependencies is a natural number.
LEMMA SizeType ==
    ASSUME NEW bag, NEW P(_)
    PROVE  Size(bag) \in Nat /\ SizeOf(bag, P) \in Nat
<1>1. IsFiniteSet(Ids) /\ IsFiniteSet(1 .. 2 * MaxEdges)
  BY BoundsAssumption, FS_Interval DEF Ids
<1>2. IsFiniteSet(Ids \X (1 .. 2 * MaxEdges))
  BY <1>1, FS_Product
<1>3. IsFiniteSet(Entries(bag)) /\ IsFiniteSet({e \in Entries(bag) : P(e[1])})
  BY <1>2, FS_Subset DEF Entries
<1>4. QED
  BY <1>3, FS_CardinalityType DEF Size, SizeOf

\* error(): in error, nothing else changed.
LEMMA ErroredNode ==
    ASSUME NEW s \in NodeDir
    PROVE  /\ Errored(s) \in NodeDir
           /\ Unrecoverable(Errored(s)) /\ ~Triggered(Errored(s))
           /\ Errored(s).current = Omega
           /\ Errored(s).active = s.active /\ Errored(s).conns = s.conns
<1>1. Omega \in 0 .. Omega /\ Omega - 1 \in 0 .. Omega
  BY BoundsAssumption
<1>2. /\ Errored(s) \in NodeDir
      /\ Errored(s).current = Omega /\ Errored(s).trigger = Omega - 1
      /\ Errored(s).active = s.active /\ Errored(s).conns = s.conns
  BY <1>1 DEF NodeDir, Errored
<1>3. QED
  BY <1>2, BoundsAssumption DEF Unrecoverable, Incomplete, Triggered

\* actively_trigger() of a node that may fire.
LEMMA FireNode ==
    ASSUME NEW s \in NodeDir, ~Unrecoverable(s), Incomplete(s)
    PROVE  /\ Fire(s) \in NodeDir
           /\ Triggered(Fire(s)) /\ Fire(s).active = ACTIVE
           /\ Fire(s).current = s.current /\ Fire(s).conns = s.conns
<1>1. ACTIVE \in Int
  BY DEF ACTIVE
<1>2. /\ Fire(s) \in NodeDir
      /\ Fire(s).current = s.current /\ Fire(s).trigger = s.current
      /\ Fire(s).active = ACTIVE /\ Fire(s).conns = s.conns
  BY <1>1 DEF NodeDir, Fire
<1>3. s.current < Omega
  BY BoundsAssumption DEF NodeDir, Unrecoverable, Incomplete
<1>4. QED
  BY <1>2, <1>3, BoundsAssumption DEF NodeDir, Triggered

\* dec_zero_in_dgree(): a fired node is left alone, any other counted up.
LEMMA CountedNode ==
    ASSUME NEW s \in NodeDir, NEW k \in Nat
    PROVE  /\ Counted(s, k) \in NodeDir
           /\ Counted(s, k).current = s.current
           /\ Counted(s, k).trigger = s.trigger
           /\ Counted(s, k).conns = s.conns
           /\ Counted(s, k).active =
                  IF Triggered(s) THEN s.active ELSE s.active + k
BY DEF NodeDir, Counted

\* refresh(): in error if the answer goes back in phase, else the answer.
LEMMA RefreshedNode ==
    ASSUME NEW s \in NodeDir, NEW fresh \in Spaces
    PROVE  /\ Refreshed(s, fresh) \in NodeDir
           /\ Refreshed(s, fresh).active = s.active
           /\ Refreshed(s, fresh).conns = s.conns
           /\ \/ Unrecoverable(Refreshed(s, fresh))
              \/ /\ Refreshed(s, fresh).current = fresh.current
                 /\ Refreshed(s, fresh).trigger = fresh.trigger
           /\ s.current <= Refreshed(s, fresh).current
           /\ Unrecoverable(s) => Unrecoverable(Refreshed(s, fresh))
<1>1. CASE Unrecoverable(s)
  BY <1>1, BoundsAssumption DEF Refreshed, NodeDir
<1>2. CASE ~Unrecoverable(s) /\ fresh.current < s.current
  BY <1>2, ErroredNode, BoundsAssumption DEF Refreshed, NodeDir
<1>3. CASE ~Unrecoverable(s) /\ ~(fresh.current < s.current)
  <2>1. Refreshed(s, fresh)
          = [s EXCEPT !.current = fresh.current, !.trigger = fresh.trigger]
    BY <1>3 DEF Refreshed
  <2>2. /\ Refreshed(s, fresh) \in NodeDir
        /\ Refreshed(s, fresh).active = s.active
        /\ Refreshed(s, fresh).conns = s.conns
        /\ Refreshed(s, fresh).current = fresh.current
        /\ Refreshed(s, fresh).trigger = fresh.trigger
    BY <2>1 DEF NodeDir, Spaces
  <2>3. QED
    BY <2>2, <1>3, BoundsAssumption DEF NodeDir, Spaces
<1>4. QED
  BY <1>1, <1>2, <1>3

\* defuse(): in error with its tag still on if the answer is triggered, else
\* refreshed without a tag.
LEMMA DefusedNode ==
    ASSUME NEW s \in NodeDir, NEW fresh \in Spaces
    PROVE  /\ Defused(s, fresh) \in NodeDir
           /\ Defused(s, fresh).conns = s.conns
           /\ \/ Unrecoverable(Defused(s, fresh)) /\ Defused(s, fresh).active = s.active
              \/ Defused(s, fresh).active = 0
           /\ \/ Unrecoverable(Defused(s, fresh))
              \/ /\ Defused(s, fresh).current = fresh.current
                 /\ Defused(s, fresh).trigger = fresh.trigger
           /\ s.current <= Defused(s, fresh).current
           /\ Unrecoverable(s) => Unrecoverable(Defused(s, fresh))
<1> DEFINE zero == [s EXCEPT !.active = 0]
<1>1. CASE Triggered(fresh)
  <2>1. Defused(s, fresh) = Errored(s)
    BY <1>1 DEF Defused
  <2>2. QED
    BY <2>1, ErroredNode, BoundsAssumption DEF NodeDir
<1>2. CASE ~Triggered(fresh)
  <2>1. Defused(s, fresh) = Refreshed(zero, fresh)
    BY <1>2 DEF Defused
  <2>2. /\ zero \in NodeDir /\ zero.active = 0 /\ zero.conns = s.conns
        /\ zero.current = s.current /\ (Unrecoverable(s) => Unrecoverable(zero))
    BY DEF NodeDir, Unrecoverable, Incomplete
  <2> HIDE DEF zero
  <2>3. QED
    BY <2>1, <2>2, RefreshedNode
<1>3. QED
  BY <1>1, <1>2

\* The recount of a defused node: its phases stay, unless a dependency is
\* behind it.
LEMMA RecountedNode ==
    ASSUME NEW s \in NodeDir, s.active = 0, NEW deps, NEW d
    PROVE  /\ Recounted(s, deps, d) \in NodeDir
           /\ Recounted(s, deps, d).active \in Nat
           /\ Recounted(s, deps, d).conns = s.conns
           /\ \/ Unrecoverable(Recounted(s, deps, d))
              \/ /\ Recounted(s, deps, d).current = s.current
                 /\ Recounted(s, deps, d).trigger = s.trigger
                 /\ \A m \in Ids : deps[m] > 0 => ~Behind(node[m][d], s)
           /\ s.current <= Recounted(s, deps, d).current
           /\ Unrecoverable(s) => Unrecoverable(Recounted(s, deps, d))
<1> DEFINE Far(m) == FarEnough(node[m][d], s.trigger)
           behind == \E m \in Ids : deps[m] > 0 /\ Behind(node[m][d], s)
<1>1. CASE behind
  <2>1. Recounted(s, deps, d) = Errored(s)
    BY <1>1 DEF Recounted
  <2>2. QED
    BY <2>1, ErroredNode, BoundsAssumption DEF NodeDir
<1>2. CASE ~behind
  <2>1. SizeOf(deps, Far) \in Nat
    BY SizeType
  <2>2. Recounted(s, deps, d) = [s EXCEPT !.active = SizeOf(deps, Far)]
    BY <1>2 DEF Recounted
  <2> HIDE DEF Far
  <2>3. /\ Recounted(s, deps, d) \in NodeDir
        /\ Recounted(s, deps, d).active \in Nat
        /\ Recounted(s, deps, d).conns = s.conns
        /\ Recounted(s, deps, d).current = s.current
        /\ Recounted(s, deps, d).trigger = s.trigger
    BY <2>1, <2>2 DEF NodeDir
  <2>4. QED
    BY <2>3, <1>2, BoundsAssumption DEF NodeDir, Unrecoverable, Incomplete
<1>3. QED
  BY <1>1, <1>2

--------------------------------------------------------------------------
(* What the operations do to each node, in each direction. *)

NodeMap == [Ids -> [Dirs -> NodeDir]]

\* One half of an edge, seen from the dependant s: in error if it is ahead of
\* dependency k, otherwise listing it and perhaps counting it.
EdgeStep(s, dep, k, r) ==
    \/ Behind(dep, s) /\ r = Errored(s)
    \/ /\ ~Behind(dep, s)
       /\ r.current = s.current /\ r.trigger = s.trigger
       /\ r.active = s.active \/ (~Triggered(s) /\ r.active = s.active + 1)
       /\ r.conns = s.conns \/ (~Unrecoverable(dep)
                                /\ r.conns = [s.conns EXCEPT ![k] = @ + 1])

\* make_edge_impl2 changes the dependant, in one direction.
LEMMA HalfEdgeNodes ==
    ASSUME NEW nd \in NodeMap, NEW d \in Dirs, NEW a \in Ids, NEW b \in Ids
    PROVE  LET r == HalfEdge(nd, d, a, b)
           IN  /\ r \in NodeMap
               /\ \A m \in Ids, e \in Dirs : ~(m = b /\ e = d) => r[m][e] = nd[m][e]
               /\ EdgeStep(nd[b][d], nd[a][d], a, r[b][d])
<1> DEFINE dep == nd[a][d]
           s   == nd[b][d]
           n   == IF DependOk(s, dep)
                  THEN [Depend(s, dep) EXCEPT !.conns[a] = @ + 1]
                  ELSE Depend(s, dep)
<1>1. dep \in NodeDir /\ s \in NodeDir
  BY DEF NodeMap
<1>2. Depend(s, dep) \in NodeDir
  BY <1>1, ErroredNode, CountedNode DEF Depend
<1>3. n \in NodeDir /\ EdgeStep(s, dep, a, n)
  <2>1. CASE Behind(dep, s)
    <3>1. Depend(s, dep) = Errored(s) /\ ~DependOk(s, dep)
      BY <2>1 DEF Depend, DependOk
    <3>2. QED
      BY <3>1, <2>1, <1>2 DEF EdgeStep
  <2>2. CASE ~Behind(dep, s)
    <3>1. /\ Depend(s, dep).current = s.current
          /\ Depend(s, dep).trigger = s.trigger
          /\ Depend(s, dep).conns = s.conns
          /\ \/ Depend(s, dep).active = s.active
             \/ ~Triggered(s) /\ Depend(s, dep).active = s.active + 1
      BY <2>2, <1>1, CountedNode DEF Depend
    <3>2. CASE ~DependOk(s, dep)
      BY <3>1, <3>2, <2>2, <1>2 DEF EdgeStep
    <3>3. CASE DependOk(s, dep)
      <4>1. /\ n \in NodeDir
            /\ n.current = Depend(s, dep).current
            /\ n.trigger = Depend(s, dep).trigger
            /\ n.active = Depend(s, dep).active
            /\ n.conns = [Depend(s, dep).conns EXCEPT ![a] = @ + 1]
        <5> HIDE DEF dep, s
        <5>1. n = [Depend(s, dep) EXCEPT !.conns[a] = @ + 1]
          BY <3>3
        <5> DEFINE x == Depend(s, dep)
        <5>2. x \in NodeDir
          BY <1>2
        <5> HIDE DEF x, n
        <5>3. x.conns[a] + 1 \in Nat
          BY <5>2 DEF NodeDir, Bag
        <5>4. [x.conns EXCEPT ![a] = @ + 1] \in Bag
          BY <5>2, <5>3 DEF NodeDir, Bag
        <5>5. n = [x EXCEPT !.conns = [x.conns EXCEPT ![a] = @ + 1]]
          BY <5>1 DEF x
        <5>6. QED
          BY <5>2, <5>4, <5>5 DEF NodeDir, x
      <4> HIDE DEF n
      <4>2. QED
        BY <4>1, <3>1, <2>2, <3>3 DEF EdgeStep, DependOk
    <3>4. QED
      BY <3>2, <3>3
  <2>3. QED
    BY <2>1, <2>2
<1>4. HalfEdge(nd, d, a, b) = [nd EXCEPT ![b][d] = n]
  BY DEF HalfEdge
<1> HIDE DEF n, dep, s
<1>5. QED
  BY <1>3, <1>4 DEF NodeMap, dep, s

\* A node listed by another is one of the graph, and so is the other.
ListsNodes ==
    \A m, k \in Ids, d \in Dirs :
        node[m][d].conns[k] > 0 => m \in Nodes /\ k \in Nodes

\* The graph's nodes are among the identifiers.
LEMMA NodesAreIds == TypeOK => Nodes \subseteq Ids
BY BoundsAssumption DEF TypeOK, Nodes, Ids

\* How a step may change a node in one direction.
Same(m, d) == node'[m][d] = node[m][d]
NewEdge(m, d) ==
    \E k \in Nodes \ {m} :
        /\ m \in Nodes
        /\ EdgeStep(node[m][d], node[k][d], k, node'[m][d])
CountedUp(m, d) ==
    ~Triggered(node[m][d]) /\ \E k \in Nat : node'[m][d] = Counted(node[m][d], k)
Fired(m, d) ==
    /\ m \in Nodes
    /\ ~Unrecoverable(node[m][d]) /\ ~Triggered(node[m][d]) /\ Incomplete(node[m][d])
    /\ node'[m][d] = Fire(node[m][d])
Answered(m, d) ==
    LET s == node[m][d]  r == node'[m][d]
    IN  /\ m \in Nodes /\ s.active = PASSIVE
        /\ r.conns = s.conns
        /\ s.current <= r.current
        /\ Unrecoverable(s) => Unrecoverable(r)
        /\ \/ Unrecoverable(r)
           \/ \A k \in Ids : s.conns[k] > 0 =>
                  \/ Unrecoverable(node[k][d]) \/ ~Incomplete(node[k][d])
                  \/ r.current <= node[k][d].current
        /\ \/ r.active \in Nat
           \/ r.active = ACTIVE /\ Triggered(r)
           \/ r.active = PASSIVE /\ Unrecoverable(r)

\* make_edge: the dependant lists the dependency and, in the other
\* direction, the dependency the dependant.
LEMMA MakeEdgeNodes ==
    ASSUME TypeOK, NEW d \in Dirs, NEW a \in Nodes, NEW b \in Nodes,
           MakeEdge(d, a, b)
    PROVE  /\ node' \in NodeMap
           /\ \A m \in Ids, e \in Dirs : Same(m, e) \/ NewEdge(m, e)
<1> DEFINE o == Opposite(d)
           first  == HalfEdge(node, d, a, b)
           second == HalfEdge(first, o, b, a)
<1>1. /\ a \in Ids /\ b \in Ids /\ a # b /\ node \in NodeMap
      /\ o \in Dirs /\ o # d
  BY NodesAreIds DEF MakeEdge, TypeOK, NodeMap, Opposite, Dirs
<1>2. node' \in {first, second}
  BY DEF MakeEdge
<1> HIDE DEF o
<1>3. /\ first \in NodeMap
      /\ \A m \in Ids, e \in Dirs : ~(m = b /\ e = d) => first[m][e] = node[m][e]
      /\ EdgeStep(node[b][d], node[a][d], a, first[b][d])
  BY <1>1, HalfEdgeNodes
<1> HIDE DEF first
<1>4. /\ second \in NodeMap
      /\ \A m \in Ids, e \in Dirs : ~(m = a /\ e = o) => second[m][e] = first[m][e]
      /\ EdgeStep(first[a][o], first[b][o], b, second[a][o])
  BY <1>1, <1>3, HalfEdgeNodes
<1> HIDE DEF second
<1>5. ASSUME NEW m \in Ids, NEW e \in Dirs
      PROVE  Same(m, e) \/ NewEdge(m, e)
  <2>1. CASE m = b /\ e = d
    <3>1. node'[b][d] = first[b][d]
      BY <1>1, <1>2, <1>4
    <3>2. QED
      BY <2>1, <3>1, <1>1, <1>2, <1>3 DEF NewEdge
  <2>2. CASE m = a /\ e = o
    <3>1. first[a][o] = node[a][o] /\ first[b][o] = node[b][o]
      BY <1>1, <1>3
    <3>2. node'[a][o] = node[a][o] \/ EdgeStep(node[a][o], node[b][o], b, node'[a][o])
      BY <1>2, <1>4, <3>1
    <3>3. QED
      BY <2>2, <3>2, <1>1, <1>2 DEF NewEdge, Same
  <2>3. CASE ~(m = b /\ e = d) /\ ~(m = a /\ e = o)
    BY <2>3, <1>2, <1>3, <1>4 DEF Same
  <2>4. QED
    BY <2>1, <2>2, <2>3
<1>6. QED
  BY <1>2, <1>3, <1>4, <1>5

\* make_node: a fresh node that waits, or is in error.
LEMMA NewNodeType ==
    ASSUME NEW space \in Spaces
    PROVE  /\ NewNode(space) \in NodeDir /\ Absent \in NodeDir
           /\ NewNode(space).active = 0 /\ Absent.active = 0
           /\ NewNode(space).conns = EmptyBag /\ Absent.conns = EmptyBag
<1>1. Absent \in NodeDir /\ Absent.active = 0 /\ Absent.conns = EmptyBag
  BY BoundsAssumption DEF Absent, NodeDir, Bag, EmptyBag
<1>2. QED
  BY <1>1, DefusedNode DEF NewNode

\* The entries a step adds to the list of the next wave.
ListedOnce(m, d) == apply'[m] = apply[m] + Listed(m, d)
NotListed(m)     == apply'[m] = apply[m]

\* defuse: the node takes the answer and is counted afresh, and may fire; its
\* dependants are counted up or fire; the other direction is left alone.
LEMMA DefuseNodes ==
    ASSUME TypeOK, ListsNodes,
           NEW n \in Nodes, NEW d \in Dirs, NEW fresh \in CanonicalSpaces,
           NEW me \in BOOLEAN, NEW deps \in BOOLEAN, Defuse(n, d, fresh, me, deps)
    PROVE  /\ node' \in NodeMap /\ apply' \in Bag
           /\ \A m \in Ids, e \in Dirs \ {d} : Same(m, e)
           /\ \A m \in Ids \ {n} :
                  \/ (Same(m, d) \/ CountedUp(m, d)) /\ NotListed(m)
                  \/ Fired(m, d) /\ ListedOnce(m, d)
           /\ Answered(n, d)
           /\ \/ node'[n][d].active # ACTIVE /\ NotListed(n)
              \/ node'[n][d].active = ACTIVE /\ ListedOnce(n, d)
<1> DEFINE s     == node[n][d]
           given == Defused(s, fresh)
           mine  == Recounted(given, s.conns, d)
           refire == me /\ CanTrigger(mine)
           outs   == node[n][Opposite(d)].conns
           Hit(m) == deps /\ m # n /\ Fires(node[m][d], s.current, fresh.current, outs[m])
           After(m) == CASE Hit(m) -> Fire(node[m][d])
                         [] ~Hit(m) /\ Passes(node[m][d], s.current, fresh.current)
                               -> Counted(node[m][d], outs[m])
                         [] OTHER -> node[m][d]
           value(m) == CASE m = n /\ refire  -> Fire(mine)
                         [] m = n /\ ~refire -> mine
                         [] OTHER            -> After(m)
           plus(m) == IF (m = n /\ refire) \/ Hit(m) THEN Listed(m, d) ELSE 0
<1>1. /\ n \in Ids /\ s \in NodeDir /\ fresh \in Spaces
      /\ node \in NodeMap /\ apply \in Bag
      /\ Opposite(d) \in Dirs /\ outs \in Bag
  BY NodesAreIds DEF TypeOK, NodeMap, CanonicalSpaces, Opposite, Dirs, NodeDir
<1>2. /\ given \in NodeDir /\ given.conns = s.conns
      /\ given.active = 0 \/ (Unrecoverable(given) /\ given.active = s.active)
      /\ s.current <= given.current
      /\ Unrecoverable(s) => Unrecoverable(given)
  BY <1>1, DefusedNode
<1>3. ASSUME ~Unrecoverable(given)
      PROVE  /\ mine \in NodeDir /\ mine.active \in Nat /\ mine.conns = s.conns
             /\ given.current <= mine.current
             /\ \/ Unrecoverable(mine)
                \/ /\ mine.current = given.current
                   /\ \A k \in Ids : s.conns[k] > 0 => ~Behind(node[k][d], given)
  BY <1>2, <1>3, RecountedNode
<1>5. /\ s.active = PASSIVE
      /\ IF Unrecoverable(given) \/ Unrecoverable(mine)
         THEN /\ node' = [node EXCEPT ![n][d] =
                             IF Unrecoverable(given) THEN given ELSE mine]
              /\ UNCHANGED apply
         ELSE /\ node' = [m \in Ids |-> [node[m] EXCEPT ![d] = value(m)]]
              /\ apply' = [m \in Ids |-> apply[m] + plus(m)]
  BY DEF Defuse
<1>6. \A m \in Ids : Listed(m, d) \in Nat /\ plus(m) \in Nat
  BY DEF Listed
<1>7. ACTIVE \notin Nat /\ (\A x \in Nat : x # ACTIVE) /\ PASSIVE # ACTIVE
  BY DEF ACTIVE, PASSIVE
<1> HIDE DEF given, mine
<1>8. CASE Unrecoverable(given) \/ Unrecoverable(mine)
  <2> DEFINE r == IF Unrecoverable(given) THEN given ELSE mine
  <2>1. /\ r \in NodeDir /\ Unrecoverable(r)
        /\ r.active \in Nat \/ r.active = PASSIVE
        /\ r.conns = s.conns /\ s.current <= r.current
    <3>1. CASE Unrecoverable(given)
      BY <1>2, <1>5, <3>1
    <3>2. CASE ~Unrecoverable(given)
      BY <1>1, <1>2, <1>3, <1>8, <3>2, BoundsAssumption DEF NodeDir
    <3>3. QED
      BY <3>1, <3>2
  <2>2. node' = [node EXCEPT ![n][d] = r] /\ apply' = apply
    BY <1>5, <1>8
  <2> HIDE DEF r
  <2>3. node' \in NodeMap /\ node'[n][d] = r
    BY <2>1, <2>2, <1>1 DEF NodeMap
  <2>4. \A m \in Ids, e \in Dirs : ~(m = n /\ e = d) => Same(m, e)
    BY <2>2, <1>1 DEF NodeMap, Same
  <2>5. Answered(n, d)
    BY <2>1, <2>3, <1>5 DEF Answered
  <2>6. QED
    BY <2>1, <2>2, <2>3, <2>4, <2>5, <1>1, <1>7 DEF NotListed
<1>9. CASE ~(Unrecoverable(given) \/ Unrecoverable(mine))
  <2>0. /\ mine \in NodeDir /\ mine.active \in Nat /\ mine.conns = s.conns
        /\ mine.current = given.current
        /\ \A k \in Ids : s.conns[k] > 0 => ~Behind(node[k][d], given)
    BY <1>3, <1>9
  <2>1. /\ node' = [m \in Ids |-> [node[m] EXCEPT ![d] = value(m)]]
        /\ apply' = [m \in Ids |-> apply[m] + plus(m)]
    BY <1>5, <1>9
  <2>2. ASSUME NEW m \in Ids \ {n}
        PROVE  /\ value(m) \in NodeDir
               /\ \/ /\ \/ value(m) = node[m][d]
                        \/ /\ ~Triggered(node[m][d])
                           /\ \E k \in Nat : value(m) = Counted(node[m][d], k)
                     /\ plus(m) = 0
                  \/ /\ m \in Nodes
                     /\ ~Unrecoverable(node[m][d]) /\ ~Triggered(node[m][d])
                     /\ Incomplete(node[m][d])
                     /\ value(m) = Fire(node[m][d])
                     /\ plus(m) = Listed(m, d)
    <3>1. node[m][d] \in NodeDir /\ outs[m] \in Nat
      BY <1>1 DEF NodeMap, Bag
    <3>2. CASE Hit(m)
      <4>1. value(m) = Fire(node[m][d]) /\ plus(m) = Listed(m, d)
        BY <3>2
      <4>2. /\ outs[m] > 0
            /\ ~Unrecoverable(node[m][d]) /\ ~Triggered(node[m][d])
            /\ Incomplete(node[m][d])
        BY <3>2 DEF Fires
      <4>3. m \in Nodes
        BY <4>2, <1>1 DEF ListsNodes
      <4>4. QED
        BY <4>1, <4>2, <4>3, <3>1, FireNode
    <3>3. CASE ~Hit(m)
      <4>1. plus(m) = 0 /\ value(m) \in {node[m][d], Counted(node[m][d], outs[m])}
        BY <3>3
      <4>2. CASE Triggered(node[m][d])
        BY <4>1, <4>2, <3>1 DEF Counted
      <4>3. CASE ~Triggered(node[m][d])
        BY <4>1, <4>3, <3>1, CountedNode
      <4>4. QED
        BY <4>2, <4>3
    <3>4. QED
      BY <3>2, <3>3
  <2>3. /\ value(n) \in NodeDir
        /\ value(n).conns = s.conns
        /\ value(n).current = mine.current
        /\ \/ value(n).active \in Nat /\ plus(n) = 0
           \/ /\ value(n).active = ACTIVE /\ Triggered(value(n))
              /\ plus(n) = Listed(n, d)
    <3>1. CASE refire
      <4>1. value(n) = Fire(mine) /\ plus(n) = Listed(n, d)
        BY <3>1
      <4>2. ~Unrecoverable(mine) /\ Incomplete(mine)
        BY <3>1 DEF CanTrigger
      <4>3. QED
        BY <4>1, <4>2, <2>0, FireNode
    <3>2. CASE ~refire
      <4>1. value(n) = mine /\ plus(n) = 0
        BY <3>2
      <4>2. QED
        BY <4>1, <2>0
    <3>3. QED
      BY <3>1, <3>2
  <2> HIDE DEF value, plus
  <2>4. \A m \in Ids : value(m) \in NodeDir
    BY <2>2, <2>3
  <2>5. node' \in NodeMap /\ apply' \in Bag
    BY <2>1, <2>4, <1>1, <1>6 DEF NodeMap, Bag
  <2>6. /\ \A m \in Ids : node'[m][d] = value(m) /\ apply'[m] = apply[m] + plus(m)
        /\ \A m \in Ids, e \in Dirs \ {d} : Same(m, e)
    BY <2>1, <1>1 DEF NodeMap, Same
  <2>7. \A m \in Ids : apply[m] + 0 = apply[m]
    BY <1>1 DEF Bag
  <2>8. \A m \in Ids \ {n} :
            \/ (Same(m, d) \/ CountedUp(m, d)) /\ NotListed(m)
            \/ Fired(m, d) /\ ListedOnce(m, d)
    BY <2>2, <2>6, <2>7 DEF Same, CountedUp, NotListed, Fired, ListedOnce
  <2>9. Answered(n, d)
    <3>2. ASSUME NEW k \in Ids, s.conns[k] > 0
          PROVE  \/ Unrecoverable(node[k][d]) \/ ~Incomplete(node[k][d])
                 \/ mine.current <= node[k][d].current
      <4>1. node[k][d] \in NodeDir
        BY <1>1 DEF NodeMap
      <4>2. QED
        BY <4>1, <2>0, <3>2, <1>2, BoundsAssumption DEF Behind, NodeDir
    <3>3. s.current <= value(n).current
      BY <2>3, <2>0, <1>2
    <3>4. ~Unrecoverable(s)
      BY <1>2, <1>9
    <3>5. QED
      BY <2>3, <2>6, <3>2, <3>3, <3>4, <1>1, <1>5 DEF Answered
  <2>10. /\ \/ node'[n][d].active # ACTIVE /\ NotListed(n)
            \/ node'[n][d].active = ACTIVE /\ ListedOnce(n, d)
    BY <2>3, <2>6, <2>7, <1>1, <1>7 DEF NotListed, ListedOnce
  <2>11. QED
    BY <2>5, <2>6, <2>8, <2>9, <2>10
<1>10. QED
  BY <1>8, <1>9

--------------------------------------------------------------------------
(* What a step does to the nodes. *)

Ran(m, d) ==
    /\ node[m][d].active = ACTIVE
    /\ node'[m][d] = [node[m][d] EXCEPT !.active = PASSIVE]
Made(m, d) ==
    /\ m \notin Nodes /\ m \in Nodes'
    /\ node'[m][d].active = 0 /\ node'[m][d].conns = EmptyBag

Changed(m, d) ==
    \/ Same(m, d) \/ NewEdge(m, d) \/ CountedUp(m, d) \/ Fired(m, d)
    \/ Answered(m, d) \/ Ran(m, d) \/ Made(m, d)

\* query: the node fires and is listed.
LEMMA QueryNodes ==
    ASSUME TypeOK, NEW n \in Nodes, NEW d \in Dirs, Query(n, d)
    PROVE  /\ node' \in NodeMap /\ apply' \in Bag
           /\ Fired(n, d) /\ ListedOnce(n, d)
           /\ \A m \in Ids, e \in Dirs : ~(m = n /\ e = d) => Same(m, e)
           /\ \A m \in Ids \ {n} : NotListed(m)
<1>1. /\ n \in Ids /\ node \in NodeMap /\ apply \in Bag /\ node[n][d] \in NodeDir
      /\ Listed(n, d) \in Nat
  BY NodesAreIds DEF TypeOK, NodeMap, Listed
<1>2. Fire(node[n][d]) \in NodeDir
  BY <1>1, FireNode DEF Query, CanTrigger
<1>3. node' = [node EXCEPT ![n][d] = Fire(@)] /\ apply' = [apply EXCEPT ![n] = @ + Listed(n, d)]
  BY DEF Query
<1>4. node' \in NodeMap /\ apply' \in Bag
  BY <1>1, <1>2, <1>3 DEF NodeMap, Bag
<1>5. /\ node'[n][d] = Fire(node[n][d])
      /\ \A m \in Ids, e \in Dirs : ~(m = n /\ e = d) => Same(m, e)
      /\ ListedOnce(n, d) /\ \A m \in Ids \ {n} : NotListed(m)
  BY <1>1, <1>3 DEF NodeMap, Bag, Same, ListedOnce, NotListed
<1>6. Fired(n, d)
  BY <1>5 DEF Query, CanTrigger, Fired
<1>7. QED
  BY <1>4, <1>5, <1>6

\* A wave begins: the fired nodes that are listed become passive.
LEMMA WaveNodes ==
    ASSUME TypeOK, BeginWave
    PROVE  /\ node' \in NodeMap /\ apply' = EmptyBag
           /\ \A m \in Ids, d \in Dirs :
                  \/ Ran(m, d) /\ apply[m] > 0
                  \/ Same(m, d) /\ ~(apply[m] > 0 /\ node[m][d].active = ACTIVE)
<1>1. node \in NodeMap /\ PASSIVE \in Int
  BY DEF TypeOK, NodeMap, PASSIVE
<1> DEFINE value(n, d) == IF apply[n] > 0 /\ node[n][d].active = ACTIVE
                          THEN [node[n][d] EXCEPT !.active = PASSIVE]
                          ELSE node[n][d]
<1>2. node' = [n \in Ids |-> [d \in Dirs |-> value(n, d)]] /\ apply' = EmptyBag
  BY DEF BeginWave
<1>3. \A n \in Ids, d \in Dirs : value(n, d) \in NodeDir
  BY <1>1 DEF NodeMap, NodeDir
<1> HIDE DEF value
<1>4. node' \in NodeMap /\ \A m \in Ids, d \in Dirs : node'[m][d] = value(m, d)
  BY <1>2, <1>3 DEF NodeMap
<1>5. QED
  BY <1>2, <1>4 DEF value, Ran, Same

\* make_node: one node more.
LEMMA MakeNodeNodes ==
    ASSUME TypeOK, NEW sp \in NewSpaces, MakeNode(sp[1], sp[2])
    PROVE  /\ node' \in NodeMap
           /\ count + 1 \in Ids /\ count + 1 \notin Nodes /\ Nodes \subseteq Nodes'
           /\ \A m \in Ids \ {count + 1}, d \in Dirs : Same(m, d)
           /\ \A d \in Dirs : Made(count + 1, d)
<1>1. /\ sp[1] \in Spaces /\ sp[2] \in Spaces
      /\ node \in NodeMap
      /\ count + 1 \in Ids /\ count + 1 \notin Nodes /\ Nodes \subseteq Nodes'
      /\ count + 1 \in Nodes'
  BY BoundsAssumption DEF NewSpaces, CanonicalSpaces, TypeOK, NodeMap, Ids, Nodes, MakeNode
<1> DEFINE new == [d \in Dirs |-> NewNode(IF d = "forward" THEN sp[1] ELSE sp[2])]
<1>2. /\ new \in [Dirs -> NodeDir]
      /\ \A d \in Dirs : new[d].active = 0 /\ new[d].conns = EmptyBag
  BY <1>1, NewNodeType
<1>3. node' = [node EXCEPT ![count + 1] = new]
  BY DEF MakeNode
<1> HIDE DEF new
<1>4. QED
  BY <1>1, <1>2, <1>3 DEF NodeMap, Same, Made

\* Every step is one of these, or clears the graph.
LEMMA NodesChange ==
    ASSUME TypeOK, ListsNodes, Next
    PROVE  /\ node' \in NodeMap /\ apply' \in Bag
           /\ \/ /\ Nodes \subseteq Nodes'
                 /\ \A m \in Ids, d \in Dirs : Changed(m, d)
              \/ /\ Clear /\ count' = 0
                 /\ \A m \in Ids, d \in Dirs : node'[m][d] = Absent
<1> USE DEF Changed
<1>1. node \in NodeMap /\ apply \in Bag /\ EmptyBag \in Bag
  BY DEF TypeOK, NodeMap, Bag, EmptyBag
<1>2. ASSUME NEW sp \in NewSpaces, MakeNode(sp[1], sp[2])
      PROVE  /\ node' \in NodeMap /\ apply' \in Bag /\ Nodes \subseteq Nodes'
             /\ \A m \in Ids, d \in Dirs : Changed(m, d)
  BY <1>1, <1>2, MakeNodeNodes DEF MakeNode
<1>3. ASSUME NEW d \in Dirs, NEW n \in Nodes, Query(n, d)
      PROVE  /\ node' \in NodeMap /\ apply' \in Bag /\ Nodes \subseteq Nodes'
             /\ \A m \in Ids, e \in Dirs : Changed(m, e)
  BY <1>3, QueryNodes DEF Query, Nodes
<1>4. ASSUME NEW d \in Dirs, NEW n \in Nodes, NEW m \in Nodes, MakeEdge(d, n, m)
      PROVE  /\ node' \in NodeMap /\ apply' \in Bag /\ Nodes \subseteq Nodes'
             /\ \A x \in Ids, e \in Dirs : Changed(x, e)
  BY <1>1, <1>4, MakeEdgeNodes DEF MakeEdge, Nodes
<1>5. ASSUME NEW d \in Dirs, NEW n \in Nodes, NEW fresh \in CanonicalSpaces,
             NEW me \in BOOLEAN, NEW deps \in BOOLEAN, Defuse(n, d, fresh, me, deps)
      PROVE  /\ node' \in NodeMap /\ apply' \in Bag /\ Nodes \subseteq Nodes'
             /\ \A x \in Ids, e \in Dirs : Changed(x, e)
  <2>1. /\ node' \in NodeMap /\ apply' \in Bag
        /\ \A m \in Ids, e \in Dirs \ {d} : Same(m, e)
        /\ \A m \in Ids \ {n} : Same(m, d) \/ CountedUp(m, d) \/ Fired(m, d)
        /\ Answered(n, d)
    BY <1>5, DefuseNodes
  <2>2. count' = count
    BY <1>5 DEF Defuse
  <2>3. QED
    BY <2>1, <2>2 DEF Nodes
<1>6. CASE BeginWave
  BY <1>1, <1>6, WaveNodes DEF BeginWave, Nodes
<1>7. CASE EndWave
  BY <1>1, <1>7 DEF EndWave, Nodes, Same
<1>8. CASE Clear
  <2>1. count' = 0 /\ apply' = EmptyBag /\ node' = [n \in Ids |-> [d \in Dirs |-> Absent]]
    BY <1>8 DEF Clear
  <2>2. Absent \in NodeDir
    BY BoundsAssumption DEF Absent, NodeDir, Bag, EmptyBag
  <2>3. QED
    BY <1>1, <1>8, <2>1, <2>2 DEF NodeMap
<1>9. QED
  BY <1>2, <1>3, <1>4, <1>5, <1>6, <1>7, <1>8 DEF Next, Operate

--------------------------------------------------------------------------
(* Types and phases. *)

Shape == TypeOK /\ ListsNodes

\* A changed node lists nodes of the graph.
LEMMA ListsStep ==
    ASSUME Shape, NEW m \in Ids, NEW d \in Dirs, NEW k \in Ids, Changed(m, d),
           node'[m][d].conns[k] > 0
    PROVE  node[m][d].conns[k] > 0 \/ (k \in Nodes \ {m} /\ m \in Nodes /\ NewEdge(m, d)
                    /\ ~Unrecoverable(node[k][d])
                    /\ EdgeStep(node[m][d], node[k][d], k, node'[m][d]))
<1>1. node[m][d] \in NodeDir
  BY DEF Shape, TypeOK
<1>2. CASE Same(m, d)
  BY <1>2 DEF Same
<1>3. CASE NewEdge(m, d)
  <2>1. PICK x \in Nodes \ {m} : m \in Nodes /\ EdgeStep(node[m][d], node[x][d], x, node'[m][d])
    BY <1>3 DEF NewEdge
  <2>2. x \in Ids
    BY NodesAreIds DEF Shape
  <2>3. \/ node'[m][d].conns = node[m][d].conns
        \/ /\ ~Unrecoverable(node[x][d])
           /\ node'[m][d].conns = [node[m][d].conns EXCEPT ![x] = @ + 1]
    BY <1>1, <2>1, ErroredNode DEF EdgeStep
  <2>4. node[m][d].conns \in Bag
    BY <1>1 DEF NodeDir
  <2>5. CASE x = k
    BY <2>1, <2>3, <2>5, <1>3
  <2>6. CASE x # k
    BY <2>2, <2>3, <2>4, <2>6 DEF Bag
  <2>7. QED
    BY <2>5, <2>6
<1>4. CASE CountedUp(m, d)
  BY <1>1, <1>4, CountedNode DEF CountedUp
<1>5. CASE Fired(m, d)
  BY <1>1, <1>5, FireNode DEF Fired
<1>6. CASE Answered(m, d)
  BY <1>6 DEF Answered
<1>7. CASE Ran(m, d)
  BY <1>1, <1>7 DEF Ran, NodeDir
<1>8. CASE Made(m, d)
  BY <1>8 DEF Made, EmptyBag
<1>9. QED
  BY <1>2, <1>3, <1>4, <1>5, <1>6, <1>7, <1>8 DEF Changed

\* Every step keeps the types, and the lists name only nodes of the graph.
LEMMA ShapeStep == Shape /\ [Next]_vars => Shape'
<1> SUFFICES ASSUME Shape, [Next]_vars PROVE Shape'
  OBVIOUS
<1>1. CASE UNCHANGED vars
  BY <1>1 DEF vars, Shape, TypeOK, ListsNodes, Nodes
<1>2. CASE Next
  <2>1. /\ node' \in NodeMap /\ apply' \in Bag
        /\ \/ /\ Nodes \subseteq Nodes'
              /\ \A m \in Ids, d \in Dirs : Changed(m, d)
           \/ /\ count' = 0
              /\ \A m \in Ids, d \in Dirs : node'[m][d] = Absent
    BY <1>2, NodesChange DEF Shape
  <2>2. count' \in 0 .. MaxNodes /\ applied' \subseteq Ids
    <3>1. count \in 0 .. MaxNodes /\ applied \subseteq Ids
      BY DEF Shape, TypeOK
    <3>2. ASSUME NEW fs, NEW bs, MakeNode(fs, bs)
          PROVE  count' \in 0 .. MaxNodes /\ applied' \subseteq Ids
      <4>1. count < MaxNodes /\ count' = count + 1 /\ applied' = applied
        BY <3>2 DEF MakeNode
      <4>2. QED
        BY <3>1, <4>1, BoundsAssumption
    <3>3. ASSUME NEW d, NEW n, NEW m, MakeEdge(d, n, m)
          PROVE  count' = count /\ applied' = applied
      BY <3>3 DEF MakeEdge
    <3>4. ASSUME NEW d, NEW n, Query(n, d)
          PROVE  count' = count /\ applied' = applied
      BY <3>4 DEF Query
    <3>5. ASSUME NEW d, NEW n, NEW fresh, NEW me, NEW deps, Defuse(n, d, fresh, me, deps)
          PROVE  count' = count /\ applied' = applied
      BY <3>5 DEF Defuse
    <3>6. CASE BeginWave
      BY <3>1, <3>6 DEF BeginWave
    <3>7. CASE EndWave \/ Clear
      <4>1. count' \in {count, 0} /\ applied' \in {applied, {}}
        BY <3>7 DEF EndWave, Clear
      <4>2. QED
        BY <3>1, <4>1, BoundsAssumption
    <3>8. QED
      BY <1>2, <3>1, <3>2, <3>3, <3>4, <3>5, <3>6, <3>7 DEF Next, Operate
  <2>3. TypeOK'
    BY <2>1, <2>2 DEF TypeOK, NodeMap, NodeDir, Bag, Ids, Dirs
  <2>4. ListsNodes'
    <3>1. ASSUME NEW m \in Ids, NEW k \in Ids, NEW d \in Dirs,
                 node'[m][d].conns[k] > 0
          PROVE  m \in Nodes' /\ k \in Nodes'
      <4>1. node'[m][d] # Absent
        BY <3>1 DEF Absent, EmptyBag
      <4>2. Nodes \subseteq Nodes' /\ Changed(m, d)
        BY <2>1, <4>1
      <4>3. m \in Nodes /\ k \in Nodes
        BY <3>1, <4>2, ListsStep DEF Shape, ListsNodes
      <4>4. QED
        BY <4>2, <4>3
    <3>2. QED
      BY <3>1 DEF ListsNodes, Ids, Dirs
  <2>5. QED
    BY <2>3, <2>4 DEF Shape
<1>3. QED
  BY <1>1, <1>2

\* The empty graph has the shape.
LEMMA ShapeInit == Init => Shape
<1> SUFFICES ASSUME Init PROVE Shape
  OBVIOUS
<1>1. Absent \in NodeDir /\ EmptyBag \in Bag
  BY BoundsAssumption DEF Absent, NodeDir, Bag, EmptyBag
<1>2. TypeOK
  BY <1>1, BoundsAssumption DEF Init, TypeOK
<1>3. ListsNodes
  BY DEF Init, ListsNodes, Absent, EmptyBag
<1>4. QED
  BY <1>2, <1>3 DEF Shape

\* Every variable keeps its type; no phase leaves 0 .. max_invalid_state_v.
THEOREM TypeCorrect == Spec => []TypeOK
<1>1. Shape => TypeOK
  BY DEF Shape
<1>2. QED
  BY <1>1, ShapeInit, ShapeStep, PTL DEF Spec

\* A changed node of the graph goes forward in phase, and stays in error.
LEMMA ForwardStep ==
    ASSUME Shape, NEW m \in Ids, NEW d \in Dirs, Changed(m, d), ~Made(m, d)
    PROVE  /\ node[m][d].current <= node'[m][d].current
           /\ Unrecoverable(node[m][d]) => Unrecoverable(node'[m][d])
<1>1. node[m][d] \in NodeDir /\ node[m][d].current <= node[m][d].current
  BY DEF Shape, TypeOK, NodeDir
<1>2. CASE Same(m, d)
  BY <1>1, <1>2 DEF Same
<1>3. CASE NewEdge(m, d)
  BY <1>1, <1>3, ErroredNode, BoundsAssumption
     DEF NewEdge, EdgeStep, NodeDir, Unrecoverable, Incomplete
<1>4. CASE CountedUp(m, d)
  BY <1>1, <1>4, CountedNode DEF CountedUp, Unrecoverable, Incomplete
<1>5. CASE Fired(m, d)
  BY <1>1, <1>5, FireNode DEF Fired
<1>6. CASE Answered(m, d)
  BY <1>6 DEF Answered
<1>7. CASE Ran(m, d)
  <2>1. /\ node'[m][d].current = node[m][d].current
        /\ node'[m][d].trigger = node[m][d].trigger
    BY <1>1, <1>7 DEF Ran, NodeDir
  <2>2. QED
    BY <1>1, <2>1 DEF Unrecoverable, Incomplete
<1>8. QED
  BY <1>2, <1>3, <1>4, <1>5, <1>6, <1>7 DEF Changed

\* Until the graph is cleared phases never go back and an error stays one.
THEOREM PhasesCorrect == Spec => PhasesOnlyAdvance
<1>1. Shape /\ [Next]_vars => [OnlyForward]_vars
  <2> SUFFICES ASSUME Shape, Next, NEW m \in Nodes, NEW d \in Dirs, count' > 0
               PROVE  /\ node[m][d].current <= node'[m][d].current
                      /\ Unrecoverable(node[m][d]) => Unrecoverable(node'[m][d])
    BY DEF OnlyForward
  <2>1. m \in Ids /\ ~Made(m, d)
    BY NodesAreIds DEF Shape, Made
  <2>2. Changed(m, d)
    BY <2>1, NodesChange DEF Shape
  <2>3. QED
    BY <2>1, <2>2, ForwardStep
<1>2. QED
  BY <1>1, ShapeInit, ShapeStep, PTL DEF Spec, PhasesOnlyAdvance

--------------------------------------------------------------------------
(* The Rule. *)

\* TheRule, of one edge.
Ruled(d, k, m) ==
    node[m][d].current <= node[k][d].current \/ Unrecoverable(node[m][d])

\* TheRule holds when it holds of every listed dependency.
LEMMA RuleOfEdges ==
    TheRule <=> \A d \in Dirs, k, m \in Nodes : node[m][d].conns[k] > 0 => Ruled(d, k, m)
<1>1. \A e \in Dirs \X Nodes \X Nodes : e = <<e[1], e[2], e[3]>>
  OBVIOUS
<1>2. ASSUME TheRule, NEW d \in Dirs, NEW k \in Nodes, NEW m \in Nodes,
             node[m][d].conns[k] > 0
      PROVE  Ruled(d, k, m)
  <2>1. <<d, k, m>> \in Edges
    BY <1>2 DEF Edges
  <2>2. QED
    BY <1>2, <2>1 DEF TheRule, Ruled
<1>3. ASSUME \A d \in Dirs, k, m \in Nodes : node[m][d].conns[k] > 0 => Ruled(d, k, m)
      PROVE  TheRule
  BY <1>3 DEF TheRule, Edges, Ruled
<1>4. QED
  BY <1>2, <1>3

\* After a step a node does not exceed what its dependency was before it.
LEMMA RuleChanged ==
    ASSUME Shape, TheRule, NEW d \in Dirs, NEW m \in Ids, NEW k \in Ids,
           node' \in NodeMap, Changed(m, d), node'[m][d].conns[k] > 0
    PROVE  \/ node'[m][d].current <= node[k][d].current
           \/ Unrecoverable(node'[m][d])
<1> DEFINE s == node[m][d]  r == node'[m][d]  dep == node[k][d]
<1>1. /\ s \in NodeDir /\ dep \in NodeDir
      /\ \A x \in Ids : node[x][d] \in NodeDir
  BY DEF Shape, TypeOK
<1>2. ASSUME s.conns[k] > 0 PROVE s.current <= dep.current \/ Unrecoverable(s)
  BY <1>2, RuleOfEdges DEF Shape, ListsNodes, Ruled
<1>3. CASE Made(m, d)
  BY <1>3 DEF Made, EmptyBag
<1>4. CASE NewEdge(m, d)
  <2>1. PICK x \in Nodes \ {m} : EdgeStep(s, node[x][d], x, r)
    BY <1>4 DEF NewEdge
  <2>2. CASE r = Errored(s)
    BY <2>2, <1>1, ErroredNode
  <2>3. CASE r # Errored(s)
    <3>1. r.current = s.current /\ r.trigger = s.trigger
      BY <2>1, <2>3 DEF EdgeStep
    <3>2. CASE s.conns[k] > 0
      BY <3>1, <3>2, <1>2 DEF Unrecoverable, Incomplete
    <3>3. CASE ~(s.conns[k] > 0)
      <4>1. x = k /\ ~Unrecoverable(dep) /\ ~Behind(dep, s)
        <5>1. x \in Ids /\ s.conns \in Bag
          BY NodesAreIds, <1>1 DEF Shape, NodeDir
        <5>2. ~(r.conns = s.conns)
          BY <3>3
        <5>3. /\ r.conns = [s.conns EXCEPT ![x] = @ + 1]
              /\ ~Unrecoverable(node[x][d]) /\ ~Behind(node[x][d], s)
          BY <5>2, <2>1, <2>3 DEF EdgeStep
        <5>4. x = k
          BY <5>1, <5>3, <3>3 DEF Bag
        <5>5. QED
          BY <5>3, <5>4
      <4>2. s.current <= dep.current
        BY <4>1, <1>1, BoundsAssumption DEF Behind, NodeDir, Incomplete
      <4>3. QED
        BY <3>1, <4>2
    <3>4. QED
      BY <3>2, <3>3
  <2>4. QED
    BY <2>2, <2>3
<1>5. CASE Answered(m, d)
  <2>1. s.conns[k] > 0
    BY <1>5 DEF Answered
  <2>2. Unrecoverable(r) \/ Unrecoverable(dep) \/ ~Incomplete(dep) \/ r.current <= dep.current
    BY <1>5, <2>1 DEF Answered
  <2>3. r.current \in 0 .. Omega
    BY DEF NodeMap, NodeDir
  <2>4. QED
    BY <2>2, <2>3, <1>1, BoundsAssumption DEF Unrecoverable, Incomplete, NodeDir
<1>6. CASE Same(m, d) \/ CountedUp(m, d) \/ Fired(m, d) \/ Ran(m, d)
  <2>1. r.conns = s.conns /\ r.current = s.current
    BY <1>1, <1>6, CountedNode, FireNode DEF Same, CountedUp, Fired, Ran, NodeDir
  <2>2. ~Made(m, d) \/ Made(m, d)
    OBVIOUS
  <2>3. CASE ~Made(m, d)
    BY <2>1, <2>3, <1>2, ForwardStep
  <2>4. QED
    BY <2>3, <1>3
<1>7. QED
  BY <1>3, <1>4, <1>5, <1>6 DEF Changed

\* The Rule of scheduler.md, for every client.
THEOREM RuleCorrect == Spec => []TheRule
<1>1. Init => TheRule
  BY RuleOfEdges DEF Init, Absent, EmptyBag, Nodes
<1>2. Shape /\ TheRule /\ [Next]_vars => TheRule'
  <2> SUFFICES ASSUME Shape, TheRule, [Next]_vars PROVE TheRule'
    OBVIOUS
  <2>1. CASE UNCHANGED vars
    BY <2>1 DEF vars, TheRule, Edges, Nodes
  <2>2. CASE Next
    <3>1. Shape'
      BY ShapeStep
    <3>2. ASSUME NEW d \in Dirs, NEW k \in Nodes', NEW m \in Nodes',
                 node'[m][d].conns[k] > 0
          PROVE  node'[m][d].current <= node'[k][d].current \/ Unrecoverable(node'[m][d])
      <4>1. m \in Ids /\ k \in Ids
        BY <3>1, BoundsAssumption DEF Shape, TypeOK, Nodes, Ids
      <4>2. node'[m][d] # Absent
        BY <3>2, <4>1 DEF Absent, EmptyBag
      <4>3. Changed(m, d) /\ Changed(k, d) /\ node' \in NodeMap
        BY <2>2, <4>1, <4>2, NodesChange DEF Shape
      <4>4. k \in Nodes
        BY <4>1, <4>3, <3>2, ListsStep DEF Shape, ListsNodes
      <4>5. node[k][d].current <= node'[k][d].current
        BY <4>1, <4>3, <4>4, ForwardStep DEF Made
      <4>6. \/ node'[m][d].current <= node[k][d].current
            \/ Unrecoverable(node'[m][d])
        BY <4>1, <4>3, <3>2, RuleChanged
      <4>7. /\ node'[m][d].current \in Int /\ node[k][d].current \in Int
            /\ node'[k][d].current \in Int
        BY <4>1, <4>3 DEF Shape, TypeOK, NodeMap, NodeDir
      <4>8. QED
        BY <4>5, <4>6, <4>7
    <3>3. QED
      BY <3>2 DEF TheRule, Edges
  <2>3. QED
    BY <2>1, <2>2
<1>3. QED
  BY <1>1, <1>2, ShapeInit, ShapeStep, PTL DEF Spec

--------------------------------------------------------------------------
(* Tags and the list. *)

\* "active" is a count, or a tag of a node that has fired, except in a node in
\* error.
TagInv ==
    \A m \in Ids, d \in Dirs :
        \/ node[m][d].active \in Nat
        \/ node[m][d].active \in {ACTIVE, PASSIVE} /\ Triggered(node[m][d])
        \/ Unrecoverable(node[m][d])

\* Only nodes of the graph have fired or are in error.
OthersAreFresh ==
    \A m \in Ids, d \in Dirs :
        node[m][d].active = ACTIVE \/ Unrecoverable(node[m][d]) => m \in Nodes

Latched == Shape /\ TagInv /\ OthersAreFresh

\* The tags are no counts.
LEMMA TagsDistinct == ACTIVE \notin Nat /\ PASSIVE \notin Nat /\ ACTIVE # PASSIVE
BY DEF ACTIVE, PASSIVE

\* A changed node keeps to TagInv.
LEMMA TagChanged ==
    ASSUME Shape, TagInv, NEW m \in Ids, NEW d \in Dirs, Changed(m, d)
    PROVE  \/ node'[m][d].active \in Nat
           \/ node'[m][d].active \in {ACTIVE, PASSIVE} /\ Triggered(node'[m][d])
           \/ Unrecoverable(node'[m][d])
<1> DEFINE s == node[m][d]  r == node'[m][d]
<1>0. Unrecoverable(s) => Made(m, d) \/ Unrecoverable(r)
  BY ForwardStep
<1>1. /\ s \in NodeDir
      /\ \/ s.active \in Nat
         \/ s.active \in {ACTIVE, PASSIVE} /\ Triggered(s)
         \/ Unrecoverable(s)
  BY DEF Shape, TypeOK, TagInv
<1>2. CASE Same(m, d)
  BY <1>1, <1>2 DEF Same
<1>3. CASE NewEdge(m, d)
  <2>1. PICK k \in Nodes \ {m} : EdgeStep(s, node[k][d], k, r)
    BY <1>3 DEF NewEdge
  <2>2. CASE Behind(node[k][d], s)
    BY <2>1, <2>2, <1>1, ErroredNode DEF EdgeStep
  <2>3. CASE ~Behind(node[k][d], s)
    <3>1. /\ r.current = s.current /\ r.trigger = s.trigger
          /\ r.active = s.active \/ (~Triggered(s) /\ r.active = s.active + 1)
      BY <2>1, <2>3 DEF EdgeStep
    <3>2. Triggered(r) <=> Triggered(s)
      BY <3>1 DEF Triggered
    <3>3. Unrecoverable(r) <=> Unrecoverable(s)
      BY <3>1 DEF Unrecoverable, Incomplete
    <3>4. QED
      BY <3>1, <3>2, <3>3, <1>1
  <2>4. QED
    BY <2>2, <2>3
<1>4. CASE CountedUp(m, d)
  <2>1. PICK k \in Nat : ~Triggered(s) /\ r = Counted(s, k)
    BY <1>4 DEF CountedUp
  <2>2. r.active = s.active + k
    BY <1>1, <2>1, CountedNode
  <2>3. CASE Unrecoverable(s)
    BY <1>0, <1>4, <2>3, CountedNode, <1>1, <2>1 DEF Unrecoverable, Incomplete
  <2>4. CASE ~Unrecoverable(s)
    BY <1>1, <2>1, <2>2, <2>4
  <2>5. QED
    BY <2>3, <2>4
<1>5. CASE Fired(m, d)
  BY <1>1, <1>5, FireNode DEF Fired
<1>6. CASE Answered(m, d)
  BY <1>6 DEF Answered
<1>7. CASE Ran(m, d)
  <2>1. /\ r.active = PASSIVE /\ s.active = ACTIVE
        /\ r.current = s.current /\ r.trigger = s.trigger
    BY <1>1, <1>7 DEF Ran, NodeDir
  <2>2. Triggered(s) \/ Unrecoverable(s)
    BY <1>1, <2>1, TagsDistinct
  <2>3. QED
    BY <2>1, <2>2 DEF Triggered, Unrecoverable, Incomplete
<1>8. CASE Made(m, d)
  BY <1>8 DEF Made
<1>9. QED
  BY <1>2, <1>3, <1>4, <1>5, <1>6, <1>7, <1>8 DEF Changed

\* A node that is neither triggered nor in error has no tag.
LEMMA UntriggeredUntagged ==
    ASSUME TagInv, NEW m \in Ids, NEW d \in Dirs,
           ~Triggered(node[m][d]), ~Unrecoverable(node[m][d])
    PROVE  node[m][d].active \in Nat /\ node[m][d].active # ACTIVE
BY TagsDistinct DEF TagInv

\* A new edge or a count neither fires a node nor ends its firing, unless it
\* is in error.
LEMMA CountKeepsTag ==
    ASSUME Shape, TagInv, NEW m \in Ids, NEW d \in Dirs,
           Same(m, d) \/ NewEdge(m, d) \/ CountedUp(m, d),
           ~Unrecoverable(node'[m][d])
    PROVE  node'[m][d].active = ACTIVE <=> node[m][d].active = ACTIVE
<1> DEFINE s == node[m][d]  r == node'[m][d]
<1>1. s \in NodeDir
  BY DEF Shape, TypeOK
<1>2. CASE Same(m, d)
  BY <1>2 DEF Same
<1>3. CASE NewEdge(m, d)
  <2>1. PICK k : EdgeStep(s, node[k][d], k, r)
    BY <1>3 DEF NewEdge
  <2>2. r # Errored(s)
    BY <1>1, ErroredNode
  <2>3. /\ r.current = s.current /\ r.trigger = s.trigger
        /\ r.active = s.active \/ (~Triggered(s) /\ r.active = s.active + 1)
    BY <2>1, <2>2 DEF EdgeStep
  <2>4. CASE r.active = s.active
    BY <2>4
  <2>5. CASE ~Triggered(s) /\ r.active = s.active + 1
    <3>1. ~Unrecoverable(s)
      BY <2>3 DEF Unrecoverable, Incomplete
    <3>2. QED
      BY <2>5, <3>1, UntriggeredUntagged, TagsDistinct
  <2>6. QED
    BY <2>3, <2>4, <2>5
<1>4. CASE CountedUp(m, d)
  <2>1. PICK k \in Nat : ~Triggered(s) /\ r = Counted(s, k)
    BY <1>4 DEF CountedUp
  <2>2. r.active = s.active + k /\ r.current = s.current /\ r.trigger = s.trigger
    BY <1>1, <2>1, CountedNode
  <2>3. ~Unrecoverable(s)
    BY <2>2 DEF Unrecoverable, Incomplete
  <2>4. QED
    BY <2>1, <2>2, <2>3, UntriggeredUntagged, TagsDistinct
<1>5. QED
  BY <1>2, <1>3, <1>4

\* Every step keeps the latch.
LEMMA LatchedStep == Latched /\ [Next]_vars => Latched'
<1> SUFFICES ASSUME Latched, [Next]_vars PROVE Latched'
  OBVIOUS
<1>1. Shape'
  BY ShapeStep DEF Latched
<1>2. CASE UNCHANGED vars
  BY <1>1, <1>2 DEF Latched, TagInv, OthersAreFresh, vars, Nodes
<1>3. CASE Next
  <2>1. \/ /\ Nodes \subseteq Nodes'
           /\ \A m \in Ids, d \in Dirs : Changed(m, d)
        \/ \A m \in Ids, d \in Dirs : node'[m][d] = Absent
    BY <1>3, NodesChange DEF Latched, Shape
  <2>2. Absent.active = 0 /\ 0 \in Nat /\ 0 # ACTIVE /\ ~Unrecoverable(Absent)
    BY TagsDistinct, BoundsAssumption DEF Absent, Unrecoverable
  <2>3. TagInv'
    BY <2>1, <2>2, TagChanged
       DEF Latched, TagInv, Triggered, Unrecoverable, Incomplete, Ids, Dirs, ACTIVE, PASSIVE
  <2>4. ASSUME NEW m \in Ids, NEW d \in Dirs,
               node'[m][d].active = ACTIVE \/ Unrecoverable(node'[m][d])
        PROVE  m \in Nodes'
    <3>1. Changed(m, d) /\ Nodes \subseteq Nodes'
      BY <2>1, <2>2, <2>4
    <3>2. CASE Same(m, d)
      BY <2>4, <3>1, <3>2 DEF Same, Latched, OthersAreFresh
    <3>3. CASE NewEdge(m, d)
      BY <3>1, <3>3 DEF NewEdge
    <3>4. CASE CountedUp(m, d)
      <4>1. PICK k \in Nat : node'[m][d] = Counted(node[m][d], k)
        BY <3>4 DEF CountedUp
      <4>2. /\ node'[m][d].current = node[m][d].current
            /\ node'[m][d].trigger = node[m][d].trigger
        BY <4>1, CountedNode DEF Latched, Shape, TypeOK
      <4>3. Unrecoverable(node'[m][d]) <=> Unrecoverable(node[m][d])
        BY <4>2 DEF Unrecoverable, Incomplete
      <4>4. node[m][d].active = ACTIVE \/ Unrecoverable(node[m][d])
        BY <2>4, <3>4, <4>3, CountKeepsTag DEF Latched
      <4>5. QED
        BY <3>1, <4>4 DEF Latched, OthersAreFresh
    <3>5. CASE Fired(m, d)
      BY <3>1, <3>5 DEF Fired
    <3>6. CASE Answered(m, d)
      BY <3>1, <3>6 DEF Answered
    <3>7. CASE Ran(m, d)
      BY <3>1, <3>7 DEF Ran, Latched, OthersAreFresh
    <3>8. CASE Made(m, d)
      BY <3>8 DEF Made
    <3>9. QED
      BY <3>1, <3>2, <3>3, <3>4, <3>5, <3>6, <3>7, <3>8 DEF Changed
  <2>5. QED
    BY <1>1, <2>3, <2>4
       DEF Latched, OthersAreFresh, Unrecoverable, Incomplete, Ids, Dirs, ACTIVE
<1>4. QED
  BY <1>2, <1>3

\* The empty graph has no tags and an empty list.
LEMMA LatchedInit == Init => Latched /\ ListIsFired
<1> SUFFICES ASSUME Init PROVE Latched /\ ListIsFired
  OBVIOUS
<1>1. /\ \A m \in Ids, d \in Dirs : node[m][d].active = 0
      /\ \A m \in Ids : apply[m] = 0
  BY DEF Init, Absent, EmptyBag
<1>2. QED
  BY <1>1, ShapeInit, TagsDistinct, BoundsAssumption
     DEF Latched, TagInv, OthersAreFresh, ListIsFired, Init, Absent, Unrecoverable

\* ListIsFired, of one node.
ListedRight(m) ==
    apply[m] = IF \E d \in Dirs : node[m][d].active = ACTIVE THEN 1 ELSE 0

\* A node that fires in one direction is listed, unless it is already because
\* it fired in the other (duplicate_event_request).
LEMMA ListedStep ==
    ASSUME NEW m \in Ids, NEW d \in Dirs, ListedRight(m),
           node[m][d].active # ACTIVE, Same(m, Opposite(d)),
           \/ node'[m][d].active = ACTIVE /\ ListedOnce(m, d)
           \/ node'[m][d].active # ACTIVE /\ NotListed(m)
    PROVE  ListedRight(m)'
<1>1. /\ Opposite(d) \in Dirs /\ Opposite(d) # d
      /\ \A e \in Dirs : e = d \/ e = Opposite(d)
  BY DEF Opposite, Dirs
<1>2. apply[m] = IF node[m][Opposite(d)].active = ACTIVE THEN 1 ELSE 0
  BY <1>1 DEF ListedRight
<1>3. apply'[m] = IF node'[m][d].active = ACTIVE \/ node'[m][Opposite(d)].active = ACTIVE
                  THEN 1 ELSE 0
  BY <1>2 DEF ListedOnce, NotListed, Listed, Same
<1>4. QED
  BY <1>1, <1>3 DEF ListedRight, Dirs, ACTIVE

\* Where nothing fires or stops to, the list stays.
LEMMA UnlistedStep ==
    ASSUME NEW m \in Ids, ListedRight(m), NotListed(m),
           \A d \in Dirs : node'[m][d].active = ACTIVE <=> node[m][d].active = ACTIVE
    PROVE  ListedRight(m)'
BY DEF ListedRight, NotListed, Dirs, ACTIVE

\* The list of the next wave holds each fired node once and no other, as
\* run_resolution_queries asserts in part, for the nodes that are not in error.
THEOREM ListCorrect == Spec => []ListIsFired
<1>1. Latched /\ ListIsFired /\ [Next]_vars /\ ~Clear => ListIsFired'
  <2> SUFFICES ASSUME Latched, ListIsFired, [Next]_vars, ~Clear,
                      NEW m \in Ids, Faultless(m)'
               PROVE  ListedRight(m)'
    BY DEF ListIsFired, ListedRight, Ids, Dirs, ACTIVE
  <2>0. /\ TypeOK /\ ListsNodes /\ TagInv /\ Shape
        /\ \A d \in Dirs : ~Unrecoverable(node'[m][d])
    BY DEF Latched, Shape, Faultless, Unrecoverable, Incomplete, Dirs
  <2>1. ListedRight(m) /\ TypeOK /\ ListsNodes /\ TagInv /\ Shape
    <3>1. \A d \in Dirs : Changed(m, d)
      BY <2>0, NodesChange DEF Changed, Same, vars
    <3>2. ASSUME NEW d \in Dirs PROVE ~Unrecoverable(node[m][d])
      BY <2>0, <3>1, ForwardStep DEF Made, Latched, OthersAreFresh
    <3>3. QED
      BY <2>0, <3>2 DEF ListIsFired, ListedRight, Faultless
  <2>2. \A d \in Dirs : Opposite(d) \in Dirs /\ Opposite(d) # d
    BY DEF Opposite, Dirs
  <2>3. ASSUME \A d \in Dirs : Same(m, d), NotListed(m)
        PROVE  ListedRight(m)'
    BY <2>1, <2>3, UnlistedStep DEF Same
  <2>4. ASSUME NEW sp \in NewSpaces, MakeNode(sp[1], sp[2])
        PROVE  ListedRight(m)'
    <3>1. NotListed(m)
      BY <2>4 DEF MakeNode, NotListed
    <3>2. CASE m # count + 1
      BY <2>1, <2>3, <2>4, <3>1, <3>2, MakeNodeNodes
    <3>3. CASE m = count + 1
      <4>1. m \notin Nodes /\ \A d \in Dirs : Made(m, d)
        BY <2>1, <2>4, <3>3, MakeNodeNodes
      <4>2. \A d \in Dirs : node[m][d].active # ACTIVE /\ node'[m][d].active # ACTIVE
        BY <4>1, TagsDistinct DEF Latched, OthersAreFresh, Made
      <4>3. QED
        BY <2>1, <3>1, <4>2, UnlistedStep
    <3>4. QED
      BY <3>2, <3>3
  <2>5. ASSUME NEW d \in Dirs, NEW n \in Nodes, Query(n, d)
        PROVE  ListedRight(m)'
    <3>1. CASE m # n
      BY <2>1, <2>3, <2>5, <3>1, QueryNodes
    <3>2. CASE m = n
      <4>1. Fired(m, d) /\ ListedOnce(m, d) /\ Same(m, Opposite(d))
        BY <2>1, <2>2, <2>5, <3>2, QueryNodes
      <4>2. node[m][d].active # ACTIVE
        BY <2>1, <4>1, UntriggeredUntagged DEF Fired
      <4>3. node'[m][d].active = ACTIVE
        BY <2>1, <4>1, FireNode DEF Fired, TypeOK
      <4>4. QED
        BY <2>1, <4>1, <4>2, <4>3, ListedStep
    <3>3. QED
      BY <3>1, <3>2
  <2>6. ASSUME NEW d \in Dirs, NEW a \in Nodes, NEW b \in Nodes, MakeEdge(d, a, b)
        PROVE  ListedRight(m)'
    <3>1. NotListed(m)
      BY <2>6 DEF MakeEdge, NotListed
    <3>2. \A e \in Dirs : node'[m][e].active = ACTIVE <=> node[m][e].active = ACTIVE
      BY <2>0, <2>1, <2>6, MakeEdgeNodes, CountKeepsTag
    <3>3. QED
      BY <2>1, <3>1, <3>2, UnlistedStep
  <2>7. ASSUME NEW d \in Dirs, NEW n \in Nodes, NEW fresh \in CanonicalSpaces,
               NEW me \in BOOLEAN, NEW deps \in BOOLEAN, Defuse(n, d, fresh, me, deps)
        PROVE  ListedRight(m)'
    <3>1. /\ Same(m, Opposite(d))
          /\ m # n => \/ (Same(m, d) \/ CountedUp(m, d)) /\ NotListed(m)
                      \/ Fired(m, d) /\ ListedOnce(m, d)
          /\ m = n => /\ node[m][d].active = PASSIVE
                      /\ \/ node'[m][d].active # ACTIVE /\ NotListed(m)
                         \/ node'[m][d].active = ACTIVE /\ ListedOnce(m, d)
      BY <2>1, <2>2, <2>7, DefuseNodes DEF Answered
    <3>2. CASE m = n
      BY <2>1, <3>1, <3>2, ListedStep, TagsDistinct
    <3>3. CASE (Same(m, d) \/ CountedUp(m, d)) /\ NotListed(m)
      <4>1. node'[m][d].active = ACTIVE <=> node[m][d].active = ACTIVE
        BY <2>0, <2>1, <3>3, CountKeepsTag
      <4>2. \A e \in Dirs : e = d \/ e = Opposite(d)
        BY DEF Dirs, Opposite
      <4>3. QED
        BY <2>1, <3>1, <3>3, <4>1, <4>2, UnlistedStep DEF Same
    <3>4. CASE Fired(m, d) /\ ListedOnce(m, d)
      <4>1. node[m][d].active # ACTIVE
        BY <2>1, <3>4, UntriggeredUntagged DEF Fired
      <4>2. node'[m][d].active = ACTIVE
        BY <2>1, <3>4, FireNode DEF Fired, TypeOK
      <4>3. QED
        BY <2>1, <3>1, <3>4, <4>1, <4>2, ListedStep
    <3>5. QED
      BY <3>1, <3>2, <3>3, <3>4
  <2>8. CASE BeginWave
    <3>1. apply'[m] = 0
      BY <2>1, <2>8, WaveNodes DEF EmptyBag
    <3>2. \A d \in Dirs : node'[m][d].active # ACTIVE
      <4> SUFFICES ASSUME NEW d \in Dirs PROVE node'[m][d].active # ACTIVE
        OBVIOUS
      <4>1. node[m][d] \in NodeDir
        BY <2>1 DEF TypeOK
      <4>2. node[m][d].active = ACTIVE => apply[m] > 0
        BY <2>1 DEF ListedRight
      <4>3. CASE Ran(m, d)
        BY <4>1, <4>3, TagsDistinct DEF Ran, NodeDir
      <4>4. CASE Same(m, d) /\ ~(apply[m] > 0 /\ node[m][d].active = ACTIVE)
        BY <4>2, <4>4 DEF Same
      <4>5. QED
        BY <2>1, <2>8, <4>3, <4>4, WaveNodes
    <3>3. QED
      BY <3>1, <3>2 DEF ListedRight, Dirs, ACTIVE
  <2>9. CASE EndWave \/ UNCHANGED vars
    BY <2>3, <2>9 DEF EndWave, vars, Same, NotListed
  <2>10. QED
    BY <2>4, <2>5, <2>6, <2>7, <2>8, <2>9 DEF Next, Operate
<1>2. Clear => ListIsFired'
  <2>1. Clear => \A m \in Ids : apply'[m] = 0 /\ \A d \in Dirs : node'[m][d].active = 0
    BY DEF Clear, EmptyBag, Absent
  <2>2. QED
    BY <2>1, TagsDistinct DEF ListIsFired, Ids, Dirs, ACTIVE
<1>3. QED
  BY <1>1, <1>2, LatchedInit, LatchedStep, PTL DEF Spec
--------------------------------------------------------------------------
(* The count of dependencies (Kahn's algorithm). *)

\* What dependency k says of node m, and why an edge from it is not counted:
\* it stays in error, is not far enough yet, or does not know of all of m's.
Knows(k, d, m) == node[k][Opposite(d)].conns[m]
Missed(m, d, k) ==
    \/ Unrecoverable(node[k][d])
    \/ node[k][d].current < node[m][d].trigger
    \/ Knows(k, d, m) < node[m][d].conns[k]

\* "active" counts the entries of C: all of them are far enough, and those
\* left out are missed for a reason.
Tally(m, d, C) ==
    /\ node[m][d].active = Cardinality(C)
    /\ \A e \in C : node[e[1]][d].current >= node[m][d].trigger
    /\ \A e \in Entries(node[m][d].conns) \ C : Missed(m, d, e[1])
Tallied(m, d) ==
    Waiting(node[m][d]) => \E C \in SUBSET Entries(node[m][d].conns) : Tally(m, d, C)

\* A dependency that lists m more often than m lists it met an error.
Balanced == \A m, k \in Ids, d \in Dirs :
    Knows(k, d, m) > node[m][d].conns[k] =>
        Unrecoverable(node[k][d]) \/ Unrecoverable(node[m][d])

\* No node lists itself, and no bag overflows its entries.
Sparse == \A m, k \in Ids, d \in Dirs :
    node[m][d].conns[k] <= 2 * MaxEdges /\ node[m][d].conns[m] = 0

KahnInv == Shape /\ Sparse /\ Balanced /\ \A m \in Ids, d \in Dirs : Tallied(m, d)

\* The entries of a list are finitely many; one more makes one entry more.
LEMMA EntriesFinite ==
    ASSUME NEW bag
    PROVE  IsFiniteSet(Entries(bag))
<1>1. IsFiniteSet(Ids) /\ IsFiniteSet(1 .. 2 * MaxEdges)
  BY BoundsAssumption, FS_Interval DEF Ids
<1>2. IsFiniteSet(Ids \X (1 .. 2 * MaxEdges))
  BY <1>1, FS_Product
<1>3. QED
  BY <1>2, FS_Subset DEF Entries

\* An entry names a dependency.
LEMMA EntryOf ==
    ASSUME NEW bag \in Bag, NEW e \in Entries(bag)
    PROVE  e[1] \in Ids /\ e[2] \in 1 .. 2 * MaxEdges /\ e[2] <= bag[e[1]] /\ bag[e[1]] > 0
           /\ e = <<e[1], e[2]>>
<1>1. e \in Ids \X (1 .. 2 * MaxEdges) /\ e[2] <= bag[e[1]]
  BY DEF Entries
<1>2. e[1] \in Ids /\ e[2] \in 1 .. 2 * MaxEdges /\ e = <<e[1], e[2]>>
  BY <1>1
<1>3. bag[e[1]] \in Nat
  BY <1>2 DEF Bag
<1>4. QED
  BY <1>1, <1>2, <1>3, BoundsAssumption

LEMMA EntryAdded ==
    ASSUME NEW bag \in Bag, NEW k \in Ids, bag[k] + 1 <= 2 * MaxEdges
    PROVE  LET e == <<k, bag[k] + 1>>
           IN  /\ Entries([bag EXCEPT ![k] = @ + 1]) = Entries(bag) \cup {e}
               /\ e \notin Entries(bag)
<1>1. bag[k] \in Nat /\ bag[k] + 1 \in 1 .. 2 * MaxEdges
  BY BoundsAssumption DEF Bag
<1> DEFINE new == [bag EXCEPT ![k] = @ + 1]
<1>2. ASSUME NEW e \in Ids \X (1 .. 2 * MaxEdges)
      PROVE  e[2] <= new[e[1]] <=> e[2] <= bag[e[1]] \/ e = <<k, bag[k] + 1>>
  <2>1. e[1] \in Ids /\ e[2] \in 1 .. 2 * MaxEdges /\ e = <<e[1], e[2]>>
    OBVIOUS
  <2>2. bag[e[1]] \in Nat /\ e[2] \in Int
    BY <2>1, BoundsAssumption DEF Bag
  <2>3. new[e[1]] = IF e[1] = k THEN bag[k] + 1 ELSE bag[e[1]]
    BY <2>1 DEF Bag
  <2>4. CASE e[1] = k
    <3>1. e = <<k, bag[k] + 1>> <=> e[2] = bag[k] + 1
      BY <2>1, <2>4
    <3>2. QED
      BY <1>1, <2>2, <2>3, <2>4, <3>1
  <2>5. CASE e[1] # k
    <3>1. e # <<k, bag[k] + 1>>
      BY <2>5
    <3>2. QED
      BY <2>3, <2>5, <3>1
  <2>6. QED
    BY <2>4, <2>5
<1>3. <<k, bag[k] + 1>> \in Ids \X (1 .. 2 * MaxEdges)
  BY <1>1
<1>4. <<k, bag[k] + 1>> \notin Entries(bag)
  BY <1>1 DEF Entries
<1> HIDE DEF new
<1>5. Entries(new) = Entries(bag) \cup {<<k, bag[k] + 1>>}
  BY <1>2, <1>3 DEF Entries
<1>6. QED
  BY <1>4, <1>5 DEF new

\* The first n entries of a dependency that is listed at least as often.
LEMMA EntriesOfOne ==
    ASSUME NEW bag \in Bag, NEW k \in Ids, NEW n \in Nat, n <= bag[k], bag[k] <= 2 * MaxEdges
    PROVE  LET E == {e \in Entries(bag) : e[1] = k /\ e[2] <= n}
           IN  IsFiniteSet(E) /\ Cardinality(E) = n
<1> DEFINE E == {e \in Entries(bag) : e[1] = k /\ e[2] <= n}
           f == [i \in 1 .. n |-> <<k, i>>]
<1>1. IsFiniteSet(E)
  BY EntriesFinite, FS_Subset
<1>2. E = {<<k, i>> : i \in 1 .. n}
  <2>0. bag[k] \in Nat
    BY DEF Bag
  <2>1. ASSUME NEW e \in E PROVE e \in {<<k, i>> : i \in 1 .. n}
    <3>1. e[2] \in 1 .. n /\ e = <<k, e[2]>>
      BY EntryOf, BoundsAssumption
    <3>2. QED
      BY <3>1
  <2>2. ASSUME NEW i \in 1 .. n PROVE <<k, i>> \in E
    <3>1. i \in 1 .. 2 * MaxEdges /\ i <= bag[k]
      BY <2>0, BoundsAssumption
    <3>2. QED
      BY <3>1 DEF Entries
  <2>3. QED
    BY <2>1, <2>2
<1>3. f \in Injection(1 .. n, E) /\ f \in Surjection(1 .. n, E)
  <2>1. f \in [1 .. n -> E]
    BY <1>2
  <2>2. \A i, j \in 1 .. n : f[i] = f[j] => i = j
    OBVIOUS
  <2>3. \A e \in E : \E i \in 1 .. n : f[i] = e
    BY <1>2
  <2> HIDE DEF f, E
  <2>4. QED
    BY <2>1, <2>2, <2>3 DEF Injection, Surjection, IsInjective
<1>4. Cardinality(1 .. n) = Cardinality(E)
  BY <1>1, <1>3, FS_Injection
<1>5. Cardinality(1 .. n) = n
  BY FS_Interval
<1>6. QED
  BY <1>1, <1>4, <1>5

\* A list is no longer than all the lists together.
LEMMA ListInConnections ==
    ASSUME TypeOK, NEW m \in Ids, NEW k \in Ids, NEW d \in Dirs,
           node[m][d].conns[k] <= 2 * MaxEdges
    PROVE  Connections \in Nat /\ node[m][d].conns[k] <= Connections
<1> DEFINE n == node[m][d].conns[k]
           All == Ids \X Dirs \X Ids \X (1 .. 2 * MaxEdges)
           S == {c \in All : c[4] <= node[c[1]][c[2]].conns[c[3]]}
           f == [i \in 1 .. n |-> <<m, d, k, i>>]
<1>1. n \in Nat
  BY DEF TypeOK, NodeDir, Bag
<1>2. IsFiniteSet(S)
  <2>1. IsFiniteSet(Ids) /\ IsFiniteSet(1 .. 2 * MaxEdges) /\ IsFiniteSet(Dirs)
    <3>1. Dirs = {"forward"} \cup {"backward"}
      BY DEF Dirs
    <3>2. IsFiniteSet({"forward"}) /\ IsFiniteSet({"backward"})
      BY FS_Singleton
    <3>3. IsFiniteSet(Dirs)
      BY <3>1, <3>2, FS_Union
    <3>4. IsFiniteSet(Ids) /\ IsFiniteSet(1 .. 2 * MaxEdges)
      BY BoundsAssumption, FS_Interval DEF Ids
    <3>5. QED
      BY <3>3, <3>4
  <2>2. IsFiniteSet(Ids \X Dirs) /\ IsFiniteSet(Ids \X (1 .. 2 * MaxEdges))
    BY <2>1, FS_Product
  <2>3. IsFiniteSet((Ids \X Dirs) \X (Ids \X (1 .. 2 * MaxEdges)))
    BY <2>2, FS_Product
  <2> DEFINE g == [p \in (Ids \X Dirs) \X (Ids \X (1 .. 2 * MaxEdges)) |->
                      <<p[1][1], p[1][2], p[2][1], p[2][2]>>]
  <2>4. \A c \in All : \E p \in (Ids \X Dirs) \X (Ids \X (1 .. 2 * MaxEdges)) : g[p] = c
    <3>1. SUFFICES ASSUME NEW c \in All
                   PROVE  \E p \in (Ids \X Dirs) \X (Ids \X (1 .. 2 * MaxEdges)) : g[p] = c
      OBVIOUS
    <3>2. WITNESS <<<<c[1], c[2]>>, <<c[3], c[4]>>>> \in (Ids \X Dirs) \X (Ids \X (1 .. 2 * MaxEdges))
    <3>3. QED
      OBVIOUS
  <2>5. g \in Surjection((Ids \X Dirs) \X (Ids \X (1 .. 2 * MaxEdges)), All)
    <3>1. g \in [(Ids \X Dirs) \X (Ids \X (1 .. 2 * MaxEdges)) -> All]
      OBVIOUS
    <3> HIDE DEF g, All
    <3>2. QED
      BY <2>4, <3>1 DEF Surjection
  <2>6. IsFiniteSet(All)
    BY <2>3, <2>5, FS_Surjection
  <2>7. QED
    BY <2>6, FS_Subset
<1>3. f \in Injection(1 .. n, S)
  <2>1. ASSUME NEW i \in 1 .. n PROVE <<m, d, k, i>> \in S
    <3>1. i \in 1 .. 2 * MaxEdges /\ i <= n
      BY <1>1, BoundsAssumption
    <3>2. QED
      BY <3>1
  <2>2. f \in [1 .. n -> S] /\ \A i, j \in 1 .. n : f[i] = f[j] => i = j
    BY <2>1
  <2> HIDE DEF f, S
  <2>3. QED
    BY <2>2 DEF Injection, IsInjective
<1>4. Cardinality(1 .. n) <= Cardinality(S) /\ Cardinality(S) \in Nat
  <2> HIDE DEF f, S, n
  <2>1. Cardinality(S) \in Nat
    BY <1>2, FS_CardinalityType
  <2>2. Cardinality(1 .. n) <= Cardinality(S)
    BY <1>2, <1>3, FS_Injection
  <2>3. QED
    BY <2>1, <2>2
<1>5. Cardinality(1 .. n) = n
  <2> HIDE DEF f, S, All, n
  <2>1. Cardinality(1 .. n) = IF 1 > n THEN 0 ELSE n - 1 + 1
    BY <1>1, FS_Interval
  <2>2. QED
    BY <1>1, <2>1
<1>6. Connections = Cardinality(S)
  BY DEF Connections
<1>7. QED
  BY <1>4, <1>5, <1>6

\* As many entries as the list is long are all of them.
LEMMA FullCount ==
    ASSUME NEW bag \in Bag, NEW C \in SUBSET Entries(bag), Cardinality(C) >= Size(bag),
           NEW k \in Ids, bag[k] > 0, bag[k] <= 2 * MaxEdges
    PROVE  <<k, 1>> \in C
<1>1. /\ IsFiniteSet(Entries(bag)) /\ IsFiniteSet(C)
      /\ Cardinality(C) \in Nat /\ Size(bag) \in Nat
  BY EntriesFinite, FS_Subset, FS_CardinalityType DEF Size
<1>2. C = Entries(bag)
  BY <1>1, FS_Subset DEF Size
<1>3. bag[k] \in Nat /\ 1 \in 1 .. 2 * MaxEdges /\ 1 <= bag[k]
  BY BoundsAssumption DEF Bag
<1>4. QED
  BY <1>2, <1>3 DEF Entries

\* The two directions.
LEMMA Opposites ==
    \A d \in Dirs : /\ Opposite(d) \in Dirs /\ Opposite(d) # d /\ Opposite(Opposite(d)) = d
                    /\ \A e \in Dirs : e = d \/ e = Opposite(d)
BY DEF Opposite, Dirs

\* A step of dependency k that leaves m's count right: k has nothing to do
\* with m, or met an error, or stays on its side of m's trigger.
Quiet(m, d, k) ==
    \/ node[m][d].conns[k] = 0 /\ Knows(k, d, m)' = 0
    \/ /\ node[k][d].current <= node'[k][d].current
       /\ Unrecoverable(node[k][d]) => Unrecoverable(node'[k][d])
       /\ \/ Unrecoverable(node'[k][d])
          \/ /\ Knows(k, d, m)' = Knows(k, d, m)
             /\ node[k][d].current < node[m][d].trigger
                   => node'[k][d].current < node[m][d].trigger

\* Where all dependencies are quiet the same entries stay counted.
LEMMA QuietTally ==
    ASSUME KahnInv, node' \in NodeMap, NEW m \in Ids, NEW d \in Dirs,
           Waiting(node'[m][d]) => /\ Waiting(node[m][d])
                                   /\ node'[m][d].active = node[m][d].active
                                   /\ node'[m][d].trigger = node[m][d].trigger
                                   /\ node'[m][d].conns = node[m][d].conns,
           \A k \in Ids : Quiet(m, d, k)
    PROVE  Tallied(m, d)'
<1> SUFFICES ASSUME Waiting(node'[m][d])
             PROVE  \E C \in SUBSET Entries(node'[m][d].conns) : Tally(m, d, C)'
  BY DEF Tallied
<1>1. /\ node'[m][d].active = node[m][d].active
      /\ node'[m][d].trigger = node[m][d].trigger
      /\ node'[m][d].conns = node[m][d].conns
  OBVIOUS
<1>2. PICK C \in SUBSET Entries(node[m][d].conns) : Tally(m, d, C)
  BY DEF KahnInv, Tallied
<1>3. /\ node[m][d].conns \in Bag
      /\ \A k \in Ids : /\ node[k][d].current \in Int /\ node'[k][d].current \in Int
                        /\ node[m][d].trigger \in Int
  BY DEF KahnInv, Shape, TypeOK, NodeMap, NodeDir
<1>4. \A e \in Entries(node[m][d].conns) :
          e[1] \in Ids /\ ~(node[m][d].conns[e[1]] = 0)
  BY <1>3, EntryOf
<1>5. ASSUME NEW e \in C
      PROVE  node'[e[1]][d].current >= node[m][d].trigger
  <2>1. e[1] \in Ids /\ node[e[1]][d].current >= node[m][d].trigger
    BY <1>2, <1>4 DEF Tally
  <2>2. node[e[1]][d].current <= node'[e[1]][d].current
    BY <1>4, <2>1 DEF Quiet
  <2>3. QED
    BY <1>3, <2>1, <2>2
<1>6. ASSUME NEW e \in Entries(node[m][d].conns) \ C
      PROVE  Missed(m, d, e[1])'
  <2>1. e[1] \in Ids /\ Missed(m, d, e[1])
    BY <1>2, <1>4 DEF Tally
  <2>2. QED
    BY <1>1, <1>4, <2>1 DEF Quiet, Missed
<1>7. Tally(m, d, C)'
  BY <1>1, <1>2, <1>5, <1>6 DEF Tally
<1>8. QED
  BY <1>1, <1>7

\* Lists that stay keep their balance.
LEMMA KeptBalance ==
    ASSUME KahnInv,
           \A m \in Ids, d \in Dirs :
               /\ node'[m][d].conns = node[m][d].conns
               /\ Unrecoverable(node[m][d]) => Unrecoverable(node'[m][d])
    PROVE  Sparse' /\ Balanced'
<1>1. Sparse'
  BY DEF KahnInv, Sparse, Ids, Dirs
<1>2. \A m, k \in Ids, d \in Dirs : Knows(k, d, m)' = Knows(k, d, m)
  BY Opposites DEF Knows
<1>3. Balanced'
  BY <1>2 DEF KahnInv, Balanced, Ids, Dirs
<1>4. QED
  BY <1>1, <1>3

\* One half of an edge, exactly: the dependant is in error, or the dependency
\* is and nothing happens, or the dependency is listed, and counted if it is
\* far enough and the dependant waits.
EdgeExactly(s, dep, k, r) ==
    \/ Unrecoverable(r) /\ r.conns = s.conns /\ s.current <= r.current
    \/ Unrecoverable(dep) /\ r = s
    \/ /\ ~Unrecoverable(dep)
       /\ r.current = s.current /\ r.trigger = s.trigger
       /\ r.conns = [s.conns EXCEPT ![k] = @ + 1]
       /\ r.active = IF FarEnough(dep, s.trigger) /\ ~Triggered(s)
                     THEN s.active + 1 ELSE s.active

LEMMA HalfEdgeExactly ==
    ASSUME NEW nd \in NodeMap, NEW d \in Dirs, NEW a \in Ids, NEW b \in Ids
    PROVE  LET r == HalfEdge(nd, d, a, b)[b][d]
           IN  /\ EdgeExactly(nd[b][d], nd[a][d], a, r)
               /\ r.conns = IF DependOk(nd[b][d], nd[a][d])
                            THEN [nd[b][d].conns EXCEPT ![a] = @ + 1]
                            ELSE nd[b][d].conns
<1> DEFINE dep == nd[a][d]
           s   == nd[b][d]
           x   == Depend(s, dep)
           n   == IF DependOk(s, dep) THEN [x EXCEPT !.conns[a] = @ + 1] ELSE x
<1>1. dep \in NodeDir /\ s \in NodeDir
  BY DEF NodeMap
<1>2. HalfEdge(nd, d, a, b)[b][d] = n
  BY DEF HalfEdge, NodeMap
<1> HIDE DEF s, dep
<1>3. CASE Behind(dep, s)
  <2>1. n = Errored(s) /\ ~DependOk(s, dep)
    BY <1>3 DEF DependOk, Depend
  <2>2. s.current <= Omega
    BY <1>1, BoundsAssumption DEF NodeDir
  <2>3. Unrecoverable(n) /\ n.conns = s.conns /\ s.current <= n.current
    BY <1>1, <2>1, <2>2, ErroredNode
  <2> HIDE DEF n, x
  <2>4. EdgeExactly(s, dep, a, n)
    BY <2>3 DEF EdgeExactly
  <2>5. QED
    BY <1>2, <2>1, <2>3, <2>4 DEF s, dep
<1>4. CASE ~Behind(dep, s) /\ Unrecoverable(dep)
  <2>1. n = s /\ ~DependOk(s, dep)
    BY <1>4 DEF DependOk, Depend, FarEnough
  <2> HIDE DEF n, x
  <2>2. QED
    BY <1>2, <1>4, <2>1 DEF EdgeExactly, s, dep
<1>5. CASE ~Behind(dep, s) /\ ~Unrecoverable(dep)
  <2>1. DependOk(s, dep) /\ n = [x EXCEPT !.conns[a] = @ + 1]
    BY <1>5 DEF DependOk
  <2>2. x = IF FarEnough(dep, s.trigger) THEN Counted(s, 1) ELSE s
    BY <1>5 DEF Depend
  <2>3. /\ x \in NodeDir
        /\ x.current = s.current /\ x.trigger = s.trigger /\ x.conns = s.conns
        /\ x.active = IF FarEnough(dep, s.trigger) /\ ~Triggered(s)
                      THEN s.active + 1 ELSE s.active
    <3>1. CASE FarEnough(dep, s.trigger)
      BY <1>1, <2>2, <3>1, CountedNode
    <3>2. CASE ~FarEnough(dep, s.trigger)
      BY <1>1, <2>2, <3>2
    <3>3. QED
      BY <3>1, <3>2
  <2> HIDE DEF x, n
  <2>4. n = [x EXCEPT !.conns = [x.conns EXCEPT ![a] = @ + 1]]
    BY <2>1
  <2>5. /\ n.current = x.current /\ n.trigger = x.trigger /\ n.active = x.active
        /\ n.conns = [x.conns EXCEPT ![a] = @ + 1]
    BY <2>3, <2>4 DEF NodeDir
  <2>6. EdgeExactly(s, dep, a, n)
    BY <1>5, <2>3, <2>5 DEF EdgeExactly
  <2>7. QED
    BY <1>2, <2>1, <2>3, <2>5, <2>6 DEF s, dep
<1>6. QED
  BY <1>3, <1>4, <1>5

\* A new edge keeps the count of the dependant.
LEMMA EdgeTally ==
    ASSUME KahnInv, node' \in NodeMap, NEW m \in Ids, NEW d \in Dirs, NEW k \in Ids, k # m,
           node[m][d].conns[k] + 1 <= 2 * MaxEdges,
           EdgeExactly(node[m][d], node[k][d], k, node'[m][d]),
           node'[k][d] = node[k][d],
           \A x \in Ids \ {m, k} : Quiet(m, d, x),
           Knows(m, d, m)' = 0,
           \/ Knows(k, d, m)' = Knows(k, d, m)
           \/ Knows(k, d, m)' = Knows(k, d, m) + 1 /\ node'[m][d].conns # node[m][d].conns
           \/ Unrecoverable(node[k][d])
           \/ Unrecoverable(node'[m][d])
    PROVE  Tallied(m, d)'
<1> DEFINE s == node[m][d]  dep == node[k][d]  r == node'[m][d]
<1>1. /\ s \in NodeDir /\ dep \in NodeDir /\ r \in NodeDir /\ s.conns \in Bag
      /\ \A x \in Ids : /\ node[x][d].current \in 0 .. Omega /\ node'[x][d].current \in 0 .. Omega
                        /\ Knows(x, d, m) \in Nat /\ s.conns[x] \in Nat
      /\ s.trigger \in 0 .. Omega
  BY Opposites DEF KahnInv, Shape, TypeOK, NodeMap, NodeDir, Knows, Bag
<1>2. s.conns[m] = 0
  BY DEF KahnInv, Sparse
<1>3. CASE Unrecoverable(r)
  BY <1>3 DEF Tallied, Waiting
<1>4. CASE Unrecoverable(dep) /\ r = s
  <2>1. Quiet(m, d, k)
    BY <1>1, <1>4, BoundsAssumption DEF Quiet
  <2>2. Quiet(m, d, m)
    BY <1>2 DEF Quiet
  <2>3. QED
    BY <1>4, <2>1, <2>2, QuietTally
<1>5. CASE /\ ~Unrecoverable(dep) /\ ~Unrecoverable(r)
           /\ r.current = s.current /\ r.trigger = s.trigger
           /\ r.conns = [s.conns EXCEPT ![k] = @ + 1]
           /\ r.active = IF FarEnough(dep, s.trigger) /\ ~Triggered(s)
                         THEN s.active + 1 ELSE s.active
  <2> SUFFICES ASSUME Waiting(r)
               PROVE  \E C \in SUBSET Entries(r.conns) : Tally(m, d, C)'
    BY DEF Tallied
  <2>1. Waiting(s) /\ ~Triggered(s)
    BY <1>5 DEF Waiting, Triggered, Incomplete, Unrecoverable
  <2>2. PICK C \in SUBSET Entries(s.conns) : Tally(m, d, C)
    BY <2>1 DEF KahnInv, Tallied
  <2> DEFINE new == <<k, s.conns[k] + 1>>
             far == FarEnough(dep, s.trigger)
             D   == IF far THEN C \cup {new} ELSE C
  <2>3. /\ Entries(r.conns) = Entries(s.conns) \cup {new}
        /\ new \notin Entries(s.conns) /\ D \subseteq Entries(r.conns)
    <3>1. s.conns \in Bag /\ s.conns[k] + 1 <= 2 * MaxEdges
      BY <1>1
    <3>2. /\ Entries([s.conns EXCEPT ![k] = @ + 1]) = Entries(s.conns) \cup {new}
          /\ new \notin Entries(s.conns)
      BY <3>1, EntryAdded
    <3>3. QED
      BY <1>5, <3>2
  <2>4. \A e \in Entries(s.conns) : e[1] \in Ids \ {m} /\ s.conns[e[1]] > 0
    BY <1>1, <1>2, EntryOf
  <2>5. \A e \in Entries(s.conns) : e[1] # k => Quiet(m, d, e[1]) /\ ~(s.conns[e[1]] = 0)
    BY <1>1, <2>4
  <2>6. r.active = Cardinality(D)
    <3>1. IsFiniteSet(C)
      BY EntriesFinite, FS_Subset
    <3>2. far => Cardinality(D) = Cardinality(C) + 1
      BY <2>3, <3>1, FS_AddElement
    <3>3. QED
      BY <1>5, <2>1, <2>2, <3>2 DEF Tally
  <2>7. ASSUME NEW e \in D
        PROVE  node'[e[1]][d].current >= r.trigger
    <3>1. CASE e = new /\ far
      BY <1>1, <1>5, <3>1, BoundsAssumption DEF FarEnough, Incomplete
    <3>2. CASE e \in C
      <4>1. node[e[1]][d].current >= s.trigger
        BY <2>2, <3>2 DEF Tally
      <4>2. node[e[1]][d].current <= node'[e[1]][d].current
        BY <1>1, <2>4, <2>5, <3>2 DEF Quiet
      <4>3. QED
        BY <1>1, <1>5, <2>4, <3>2, <4>1, <4>2
    <3>3. QED
      BY <3>1, <3>2
  <2>8. ASSUME NEW e \in Entries(r.conns) \ D
        PROVE  Missed(m, d, e[1])'
    <3>1. CASE e = new
      <4>1. ~far /\ e[1] = k
        BY <3>1
      <4>2. dep.current < s.trigger
        BY <1>1, <1>5, <4>1, BoundsAssumption DEF FarEnough, Incomplete
      <4>3. QED
        BY <1>5, <4>1, <4>2 DEF Missed
    <3>2. CASE e # new
      <4>1. e \in Entries(s.conns) \ C
        BY <2>3, <3>2
      <4>2. Missed(m, d, e[1])
        BY <2>2, <4>1 DEF Tally
      <4>3. CASE e[1] # k
        <5>1. Quiet(m, d, e[1]) /\ ~(s.conns[e[1]] = 0) /\ e[1] \in Ids
          BY <2>4, <2>5, <4>1, <4>3
        <5>2. r.conns[e[1]] = s.conns[e[1]]
          BY <1>1, <1>5, <4>3, <5>1 DEF Bag
        <5>3. QED
          BY <1>5, <4>2, <5>1, <5>2 DEF Quiet, Missed
      <4>4. CASE e[1] = k
        <5>1. dep.current < s.trigger \/ Knows(k, d, m) < s.conns[k]
          BY <1>5, <4>2, <4>4 DEF Missed
        <5>2. r.conns[k] = s.conns[k] + 1
          BY <1>1, <1>5 DEF Bag
        <5>3. Knows(k, d, m)' = Knows(k, d, m) \/ Knows(k, d, m)' = Knows(k, d, m) + 1
          BY <1>5
        <5>4. dep.current < r.trigger \/ Knows(k, d, m)' < r.conns[k]
          BY <1>1, <1>5, <5>1, <5>2, <5>3
        <5>5. QED
          BY <4>4, <5>4 DEF Missed
      <4>5. QED
        BY <4>3, <4>4
    <3>3. QED
      BY <3>1, <3>2
  <2>9. PICK E \in SUBSET Entries(r.conns) : E = D
    BY <2>3
  <2> HIDE DEF D, new, far
  <2>10. Tally(m, d, E)'
    BY <2>6, <2>7, <2>8, <2>9 DEF Tally
  <2>11. QED
    BY <2>9, <2>10
<1>6. QED
  BY <1>3, <1>4, <1>5 DEF EdgeExactly

\* make_edge keeps the counts of all nodes.
LEMMA MakeEdgeTally ==
    ASSUME KahnInv, NEW d \in Dirs, NEW a \in Nodes, NEW b \in Nodes, MakeEdge(d, a, b)
    PROVE  Sparse' /\ Balanced' /\ \A m \in Ids, e \in Dirs : Tallied(m, e)'
<1> DEFINE o == Opposite(d)
           first  == HalfEdge(node, d, a, b)
           second == HalfEdge(first, o, b, a)
           ok     == DependOk(node[b][d], node[a][d])
<1>1. /\ a \in Ids /\ b \in Ids /\ a # b /\ node \in NodeMap
      /\ o \in Dirs /\ o # d /\ Opposite(o) = d
      /\ \A e \in Dirs : e = d \/ e = o
      /\ TypeOK
  BY NodesAreIds, Opposites DEF MakeEdge, KahnInv, Shape, TypeOK, NodeMap
<1>2. node' = IF ok THEN second ELSE first
  BY DEF MakeEdge
<1>3. node' \in NodeMap
  BY <1>1, MakeEdgeNodes
<1> HIDE DEF o
<1>4. /\ first \in NodeMap
      /\ \A m \in Ids, e \in Dirs : ~(m = b /\ e = d) => first[m][e] = node[m][e]
      /\ EdgeExactly(node[b][d], node[a][d], a, first[b][d])
      /\ first[b][d].conns = IF ok THEN [node[b][d].conns EXCEPT ![a] = @ + 1]
                             ELSE node[b][d].conns
  BY <1>1, HalfEdgeNodes, HalfEdgeExactly
<1> HIDE DEF first
<1>5. /\ second \in NodeMap
      /\ \A m \in Ids, e \in Dirs : ~(m = a /\ e = o) => second[m][e] = first[m][e]
      /\ EdgeExactly(first[a][o], first[b][o], b, second[a][o])
  <2>1. first \in NodeMap /\ o \in Dirs /\ a \in Ids /\ b \in Ids
    BY <1>1, <1>4
  <2>2. /\ second \in NodeMap
        /\ \A m \in Ids, e \in Dirs : ~(m = a /\ e = o) => second[m][e] = first[m][e]
    BY <2>1, HalfEdgeNodes
  <2>3. EdgeExactly(first[a][o], first[b][o], b, second[a][o])
    BY <2>1, HalfEdgeExactly
  <2>4. QED
    BY <2>2, <2>3
<1> HIDE DEF second, ok
<1>6. \A m \in Ids, e \in Dirs :
          ~(m = b /\ e = d) /\ ~(m = a /\ e = o) => node'[m][e] = node[m][e]
  BY <1>2, <1>4, <1>5
<1>7. EdgeExactly(node[b][d], node[a][d], a, node'[b][d])
  BY <1>1, <1>2, <1>4, <1>5
<1>8. \/ /\ ~ok /\ node'[a][o] = node[a][o]
         /\ node'[b][d].conns = node[b][d].conns
      \/ /\ ok /\ EdgeExactly(node[a][o], node[b][o], b, node'[a][o])
         /\ node'[b][d].conns = [node[b][d].conns EXCEPT ![a] = @ + 1]
  <2>1. first[a][o] = node[a][o] /\ first[b][o] = node[b][o]
    BY <1>1, <1>4
  <2>2. second[b][d] = first[b][d]
    BY <1>1, <1>5
  <2>3. QED
    BY <1>2, <1>4, <1>5, <2>1, <2>2
<1> HIDE DEF ok
<1>9. \A m, k \in Ids, e \in Dirs : /\ node[m][e] \in NodeDir /\ node'[m][e] \in NodeDir
                                    /\ node[m][e].conns[k] \in Nat
                                    /\ node[m][e].current \in Int
  BY <1>1, <1>3 DEF NodeMap, NodeDir, Bag
<1>10. ASSUME NEW s \in NodeDir, NEW dep \in NodeDir, NEW k \in Ids, NEW r \in NodeDir,
              EdgeExactly(s, dep, k, r)
       PROVE  /\ s.current <= r.current
              /\ Unrecoverable(s) => Unrecoverable(r)
              /\ Unrecoverable(r) \/ r.current = s.current
              /\ r.conns[k] \in {s.conns[k], s.conns[k] + 1}
              /\ \A x \in Ids \ {k} : r.conns[x] = s.conns[x]
              /\ Unrecoverable(r) \/ Unrecoverable(dep) \/ r.conns[k] = s.conns[k] + 1
  BY <1>10, BoundsAssumption DEF EdgeExactly, NodeDir, Bag, Unrecoverable, Incomplete
<1>11. \A m \in Ids, e \in Dirs :
          /\ node[m][e].current <= node'[m][e].current
          /\ Unrecoverable(node[m][e]) => Unrecoverable(node'[m][e])
          /\ Unrecoverable(node'[m][e]) \/ node'[m][e].current = node[m][e].current
  <2> SUFFICES ASSUME NEW m \in Ids, NEW e \in Dirs
               PROVE  /\ node[m][e].current <= node'[m][e].current
                      /\ Unrecoverable(node[m][e]) => Unrecoverable(node'[m][e])
                      /\ Unrecoverable(node'[m][e]) \/ node'[m][e].current = node[m][e].current
    OBVIOUS
  <2>1. CASE node'[m][e] = node[m][e]
    BY <1>9, <2>1
  <2>2. CASE m = b /\ e = d
    BY <1>1, <1>7, <1>9, <1>10, <2>2
  <2>3. CASE m = a /\ e = o
    <3>1. CASE node'[a][o] = node[a][o]
      BY <2>1, <2>3, <3>1
    <3>2. CASE EdgeExactly(node[a][o], node[b][o], b, node'[a][o])
      BY <1>1, <1>9, <1>10, <2>3, <3>2
    <3>3. QED
      BY <1>8, <3>1, <3>2
  <2>4. QED
    BY <1>6, <2>1, <2>2, <2>3
<1>12. \A m, k \in Ids, e \in Dirs :
          \/ m = b /\ e = d /\ k = a
          \/ m = a /\ e = o /\ k = b
          \/ node'[m][e].conns[k] = node[m][e].conns[k]
  <2> SUFFICES ASSUME NEW m \in Ids, NEW k \in Ids, NEW e \in Dirs
               PROVE  \/ m = b /\ e = d /\ k = a
                      \/ m = a /\ e = o /\ k = b
                      \/ node'[m][e].conns[k] = node[m][e].conns[k]
    OBVIOUS
  <2>1. CASE node'[m][e] = node[m][e]
    BY <2>1
  <2>2. CASE m = b /\ e = d
    BY <1>1, <1>7, <1>9, <1>10, <2>2
  <2>3. CASE m = a /\ e = o
    <3>1. CASE node'[a][o] = node[a][o]
      BY <2>1, <2>3, <3>1
    <3>2. CASE EdgeExactly(node[a][o], node[b][o], b, node'[a][o])
      BY <1>1, <1>9, <1>10, <2>3, <3>2
    <3>3. QED
      BY <1>8, <3>1, <3>2
  <2>4. QED
    BY <1>6, <2>1, <2>2, <2>3
<1>13. /\ node'[b][d].conns[a] = node[b][d].conns[a] + (IF ok THEN 1 ELSE 0)
       /\ \/ /\ node'[a][o].conns[b] = node[a][o].conns[b]
             /\ ~ok \/ Unrecoverable(node'[a][o]) \/ Unrecoverable(node[b][o])
          \/ /\ ok
             /\ node'[a][o].conns[b] = node[a][o].conns[b] + 1
  <2>1. node[b][d].conns \in Bag /\ node[b][d].conns[a] \in Nat
    BY <1>1, <1>9 DEF NodeDir
  <2>2. node'[b][d].conns[a] = node[b][d].conns[a] + (IF ok THEN 1 ELSE 0)
    BY <1>1, <1>8, <2>1 DEF Bag
  <2>3. CASE ~ok
    BY <1>8, <2>2, <2>3
  <2>4. CASE ok
    <3>1. EdgeExactly(node[a][o], node[b][o], b, node'[a][o])
      BY <1>8, <2>4
    <3>2. QED
      BY <1>1, <1>9, <1>10, <2>2, <2>4, <3>1
  <2>5. QED
    BY <2>3, <2>4
<1>14. node[b][d].conns[a] + 1 <= 2 * MaxEdges /\ node[a][o].conns[b] + 1 <= 2 * MaxEdges
  <2>1. Connections + 2 <= 2 * MaxEdges
    BY DEF MakeEdge
  <2>2. /\ Connections \in Nat
        /\ node[b][d].conns[a] <= Connections /\ node[a][o].conns[b] <= Connections
    BY <1>1, ListInConnections DEF KahnInv, Sparse
  <2>3. QED
    BY <1>1, <1>9, <2>1, <2>2, BoundsAssumption
<1>15. Sparse'
  <2>1. ASSUME NEW m \in Ids, NEW k \in Ids, NEW e \in Dirs
        PROVE  node'[m][e].conns[k] <= 2 * MaxEdges /\ node'[m][e].conns[m] = 0
    <3>1. node[m][e].conns[k] <= 2 * MaxEdges /\ node[m][e].conns[m] = 0
      BY DEF KahnInv, Sparse
    <3>2. node'[m][e].conns[m] = node[m][e].conns[m]
      BY <1>1, <1>12
    <3>3. CASE m = b /\ e = d /\ k = a
      BY <1>1, <1>9, <1>13, <1>14, <3>1, <3>2, <3>3, BoundsAssumption
    <3>4. CASE m = a /\ e = o /\ k = b
      BY <1>1, <1>9, <1>13, <1>14, <3>1, <3>2, <3>4, BoundsAssumption
    <3>5. CASE node'[m][e].conns[k] = node[m][e].conns[k]
      BY <3>1, <3>2, <3>5
    <3>6. QED
      BY <1>12, <3>3, <3>4, <3>5
  <2>2. QED
    BY <2>1 DEF Sparse, Ids, Dirs
<1>16. Balanced'
  <2>1. ASSUME NEW m \in Ids, NEW k \in Ids, NEW e \in Dirs,
               node'[k][Opposite(e)].conns[m] > node'[m][e].conns[k]
        PROVE  Unrecoverable(node'[k][e]) \/ Unrecoverable(node'[m][e])
    <3>1. Opposite(e) \in Dirs
      BY Opposites
    <3>2. node[k][Opposite(e)].conns[m] > node[m][e].conns[k] =>
              Unrecoverable(node[k][e]) \/ Unrecoverable(node[m][e])
      BY DEF KahnInv, Balanced, Knows
    <3>3. CASE m = b /\ e = d /\ k = a
      <4>1. Opposite(e) = o
        BY <3>3 DEF o
      <4>2. node[a][o].conns[b] > node[b][d].conns[a]
        <5>1. node'[a][o].conns[b] > node'[b][d].conns[a]
          BY <2>1, <3>3, <4>1
        <5>2. node[a][o].conns[b] \in Nat /\ node[b][d].conns[a] \in Nat
          BY <1>1, <1>9
        <5>3. QED
          BY <1>13, <5>1, <5>2
      <4>3. QED
        BY <1>1, <1>11, <3>2, <3>3, <4>1, <4>2
    <3>4. CASE m = a /\ e = o /\ k = b
      <4>1. Opposite(e) = d
        BY <1>1, <3>4
      <4>2. CASE node[b][d].conns[a] > node[a][o].conns[b]
        BY <1>1, <1>11, <3>2, <3>4, <4>1, <4>2
      <4>3. CASE ~(node[b][d].conns[a] > node[a][o].conns[b])
        <5>1. Unrecoverable(node'[a][o]) \/ Unrecoverable(node[b][o])
          BY <1>1, <1>9, <1>13, <2>1, <3>4, <4>1, <4>3
        <5>2. QED
          BY <1>1, <1>11, <3>4, <5>1
      <4>4. QED
        BY <4>2, <4>3
    <3>5. CASE ~(m = b /\ e = d /\ k = a) /\ ~(m = a /\ e = o /\ k = b)
      <4>1. /\ node'[m][e].conns[k] = node[m][e].conns[k]
            /\ node'[k][Opposite(e)].conns[m] = node[k][Opposite(e)].conns[m]
        BY <1>1, <1>12, <3>1, <3>5, Opposites
      <4>2. QED
        BY <1>11, <2>1, <3>2, <4>1
    <3>6. QED
      BY <3>3, <3>4, <3>5
  <2>2. QED
    BY <2>1 DEF Balanced, Knows, Ids, Dirs
<1>17. \A m \in Ids, e \in Dirs : node[m][e].conns[m] = 0 /\ node'[m][e].conns[m] = 0
  BY <1>15 DEF KahnInv, Sparse, Ids, Dirs
<1>18. ASSUME NEW m \in Ids, NEW e \in Dirs PROVE Tallied(m, e)'
  <2>1. Opposite(e) \in Dirs
    BY Opposites
  <2>2. ASSUME NEW k \in Ids, ~(m = b /\ e = d /\ k = a),
               ok => ~(m = a /\ e = o /\ k = b)
        PROVE  Quiet(m, e, k)
    <3>1. Knows(k, e, m)' = Knows(k, e, m)
      <4>1. CASE m = a /\ e = o /\ k = b
        BY <1>1, <1>8, <2>2, <4>1 DEF Knows
      <4>2. CASE ~(m = a /\ e = o /\ k = b)
        BY <1>1, <1>12, <2>1, <2>2, <4>2, Opposites DEF Knows
      <4>3. QED
        BY <4>1, <4>2
    <3>2. QED
      BY <1>11, <3>1 DEF Quiet
  <2>3. CASE m = b /\ e = d
    <3>1. Knows(b, d, b)' = 0
      BY <1>1, <1>17 DEF Knows, o
    <3>2. \/ Knows(a, d, b)' = Knows(a, d, b)
          \/ Knows(a, d, b)' = Knows(a, d, b) + 1 /\ node'[b][d].conns # node[b][d].conns
      <4>1. Knows(a, d, b)' = node'[a][o].conns[b] /\ Knows(a, d, b) = node[a][o].conns[b]
        BY DEF Knows, o
      <4>2. ok => node'[b][d].conns # node[b][d].conns
        BY <1>1, <1>9, <1>13
      <4>3. ok \/ ~ok
        OBVIOUS
      <4>4. \/ node'[a][o].conns[b] = node[a][o].conns[b]
            \/ ok /\ node'[a][o].conns[b] = node[a][o].conns[b] + 1
        BY <1>13
      <4>5. QED
        BY <4>1, <4>2, <4>4
    <3>3. \A x \in Ids \ {b, a} : Quiet(b, d, x)
      BY <1>1, <2>2, <2>3
    <3>4. node'[a][d] = node[a][d]
      BY <1>1, <1>6
    <3>5. QED
      BY <1>1, <1>3, <1>7, <1>14, <2>3, <3>1, <3>2, <3>3, <3>4, EdgeTally
  <2>4. CASE m = a /\ e = o /\ ok
    <3>1. Knows(a, o, a)' = 0
      BY <1>1, <1>17 DEF Knows
    <3>2. \/ Knows(b, o, a)' = Knows(b, o, a) + 1 /\ node'[a][o].conns # node[a][o].conns
          \/ Unrecoverable(node[b][o]) \/ Unrecoverable(node'[a][o])
      <4>1. Knows(b, o, a)' = node'[b][d].conns[a] /\ Knows(b, o, a) = node[b][d].conns[a]
        BY <1>1 DEF Knows
      <4>2. QED
        BY <1>1, <1>9, <1>13, <2>4, <4>1
    <3>3. \A x \in Ids \ {a, b} : Quiet(a, o, x)
      BY <1>1, <2>2, <2>4
    <3>4. node'[b][o] = node[b][o] /\ EdgeExactly(node[a][o], node[b][o], b, node'[a][o])
      BY <1>1, <1>6, <1>8, <2>4
    <3>5. QED
      BY <1>1, <1>3, <1>14, <2>4, <3>1, <3>2, <3>3, <3>4, EdgeTally
  <2>5. CASE ~(m = b /\ e = d) /\ ~(m = a /\ e = o /\ ok)
    <3>1. node'[m][e] = node[m][e]
      BY <1>6, <1>8, <2>5
    <3>2. \A k \in Ids : Quiet(m, e, k)
      BY <2>2, <2>5
    <3>3. QED
      BY <1>3, <3>1, <3>2, QuietTally
  <2>6. QED
    BY <2>3, <2>4, <2>5
<1>19. QED
  BY <1>15, <1>16, <1>18

\* What defuse does to a dependant m of the defused node n.
Shifted(m, d, n) ==
    LET s   == node[m][d]
        old == node[n][d].current
        new == node'[n][d].current
    IN  \/ Fires(s, old, new, Knows(n, d, m)) /\ node'[m][d] = Fire(s)
        \/ Passes(s, old, new) /\ node'[m][d] = Counted(s, Knows(n, d, m))
        \/ ~Passes(s, old, new) /\ node'[m][d] = s

\* The entries of n's list that are far enough for a trigger t.
FarEntries(n, d, t) == {e \in Entries(node[n][d].conns) : FarEnough(node[e[1]][d], t)}

\* What defuse does to the defused node: it counts the dependencies that are
\* far enough, or fires because all of them are beyond it.
Renewed(n, d) ==
    LET s == node[n][d]
        r == node'[n][d]
    IN  /\ ~Unrecoverable(s) /\ s.current <= r.current /\ r.conns = s.conns
        /\ \/ r.active = Cardinality(FarEntries(n, d, r.trigger))
           \/ /\ Triggered(r) /\ r.active = ACTIVE
              /\ \E t \in 0 .. Omega : /\ r.current < t
                                       /\ Cardinality(FarEntries(n, d, t)) = Size(s.conns)

LEMMA DefuseExactly ==
    ASSUME TypeOK, NEW n \in Nodes, NEW d \in Dirs, NEW fresh \in CanonicalSpaces,
           NEW me \in BOOLEAN, NEW deps \in BOOLEAN, Defuse(n, d, fresh, me, deps)
    PROVE  /\ \A m \in Ids, e \in Dirs \ {d} : Same(m, e)
           /\ node[n][d].active = PASSIVE
           /\ \/ /\ \A m \in Ids \ {n} : Same(m, d)
                 /\ Unrecoverable(node'[n][d])
                 /\ node[n][d].current <= node'[n][d].current
                 /\ node'[n][d].conns = node[n][d].conns
                 /\ node'[n][d].active # ACTIVE
              \/ /\ \A m \in Ids \ {n} : Shifted(m, d, n)
                 /\ Renewed(n, d)
<1> DEFINE s     == node[n][d]
           given == Defused(s, fresh)
           mine  == Recounted(given, s.conns, d)
           refire == me /\ CanTrigger(mine)
           outs   == node[n][Opposite(d)].conns
           Hit(m) == deps /\ m # n /\ Fires(node[m][d], s.current, fresh.current, outs[m])
           After(m) == CASE Hit(m) -> Fire(node[m][d])
                         [] ~Hit(m) /\ Passes(node[m][d], s.current, fresh.current)
                               -> Counted(node[m][d], outs[m])
                         [] OTHER -> node[m][d]
           value(m) == CASE m = n /\ refire  -> Fire(mine)
                         [] m = n /\ ~refire -> mine
                         [] OTHER            -> After(m)
<1>1. /\ n \in Ids /\ s \in NodeDir /\ fresh \in Spaces /\ node \in NodeMap
  BY NodesAreIds DEF TypeOK, NodeMap, CanonicalSpaces
<1>2. /\ given \in NodeDir /\ given.conns = s.conns
      /\ given.active = 0 \/ (Unrecoverable(given) /\ given.active = s.active)
      /\ s.current <= given.current
      /\ Unrecoverable(s) => Unrecoverable(given)
      /\ Unrecoverable(given) \/ given.current = fresh.current
  BY <1>1, DefusedNode
<1>3. ASSUME ~Unrecoverable(given)
      PROVE  /\ mine \in NodeDir /\ mine.active \in Nat /\ mine.conns = s.conns
             /\ given.current <= mine.current
             /\ \/ Unrecoverable(mine)
                \/ /\ mine.current = given.current /\ mine.trigger = given.trigger
                   /\ ~\E m \in Ids : s.conns[m] > 0 /\ Behind(node[m][d], given)
  BY <1>2, <1>3, RecountedNode
<1>4. \A x \in Nat : x # ACTIVE /\ PASSIVE # ACTIVE
  BY DEF ACTIVE, PASSIVE
<1>5. /\ s.active = PASSIVE
      /\ IF Unrecoverable(given) \/ Unrecoverable(mine)
         THEN node' = [node EXCEPT ![n][d] = IF Unrecoverable(given) THEN given ELSE mine]
         ELSE node' = [m \in Ids |-> [node[m] EXCEPT ![d] = value(m)]]
  BY DEF Defuse
<1>6. ~Unrecoverable(given) /\ ~Unrecoverable(mine)
         => mine.active = Cardinality(FarEntries(n, d, mine.trigger))
  <2> SUFFICES ASSUME ~Unrecoverable(given), ~Unrecoverable(mine)
               PROVE  mine.active = Cardinality(FarEntries(n, d, mine.trigger))
    OBVIOUS
  <2> DEFINE Far(m) == FarEnough(node[m][d], given.trigger)
  <2>1. mine.trigger = given.trigger /\ ~\E m \in Ids : s.conns[m] > 0 /\ Behind(node[m][d], given)
    BY <1>3
  <2>2. mine = [given EXCEPT !.active = SizeOf(s.conns, Far)]
    BY <2>1 DEF Recounted
  <2>3. SizeOf(s.conns, Far) = Cardinality(FarEntries(n, d, given.trigger))
    BY DEF SizeOf, FarEntries
  <2> HIDE DEF Far, mine, given
  <2>4. mine.active = SizeOf(s.conns, Far)
    BY <1>2, <2>2 DEF NodeDir
  <2>5. QED
    BY <2>1, <2>3, <2>4
<1> HIDE DEF given, mine
<1>7. CASE Unrecoverable(given) \/ Unrecoverable(mine)
  <2> DEFINE r == IF Unrecoverable(given) THEN given ELSE mine
  <2>1. /\ Unrecoverable(r) /\ r.conns = s.conns /\ s.current <= r.current
        /\ r.active # ACTIVE
    <3>1. CASE Unrecoverable(given)
      BY <1>2, <1>4, <1>5, <3>1
    <3>2. CASE ~Unrecoverable(given)
      BY <1>1, <1>2, <1>3, <1>4, <1>7, <3>2, BoundsAssumption DEF NodeDir
    <3>3. QED
      BY <3>1, <3>2
  <2>2. node' = [node EXCEPT ![n][d] = r]
    BY <1>5, <1>7
  <2> HIDE DEF r
  <2>3. /\ node'[n][d] = r
        /\ \A m \in Ids, e \in Dirs : ~(m = n /\ e = d) => Same(m, e)
    BY <1>1, <2>2 DEF NodeMap, Same
  <2>4. QED
    BY <1>5, <2>1, <2>3
<1>8. CASE ~(Unrecoverable(given) \/ Unrecoverable(mine))
  <2>1. node' = [m \in Ids |-> [node[m] EXCEPT ![d] = value(m)]]
    BY <1>5, <1>8
  <2>2. /\ value(n) = IF refire THEN Fire(mine) ELSE mine
        /\ \A m \in Ids \ {n} : value(m) = After(m)
    BY <1>1
  <2>3. \A m \in Ids \ {n} :
            \/ /\ Fires(node[m][d], s.current, fresh.current, outs[m])
               /\ After(m) = Fire(node[m][d])
            \/ /\ Passes(node[m][d], s.current, fresh.current)
               /\ After(m) = Counted(node[m][d], outs[m])
            \/ /\ ~Passes(node[m][d], s.current, fresh.current)
               /\ After(m) = node[m][d]
    <3> SUFFICES ASSUME NEW m \in Ids \ {n}
                 PROVE  \/ /\ Fires(node[m][d], s.current, fresh.current, outs[m])
                           /\ After(m) = Fire(node[m][d])
                        \/ /\ Passes(node[m][d], s.current, fresh.current)
                           /\ After(m) = Counted(node[m][d], outs[m])
                        \/ /\ ~Passes(node[m][d], s.current, fresh.current)
                           /\ After(m) = node[m][d]
      OBVIOUS
    <3>1. CASE Hit(m)
      BY <3>1
    <3>2. CASE ~Hit(m)
      BY <3>2
    <3>3. QED
      BY <3>1, <3>2
  <2> HIDE DEF After, value
  <2>4. /\ \A m \in Ids : node'[m][d] = value(m)
        /\ \A m \in Ids, e \in Dirs \ {d} : Same(m, e)
    BY <1>1, <2>1 DEF NodeMap, Same
  <2>5. /\ mine.current = fresh.current /\ mine.trigger = given.trigger
        /\ s.current <= mine.current /\ ~Unrecoverable(s)
        /\ mine \in NodeDir /\ mine.conns = s.conns
    BY <1>2, <1>3, <1>8
  <2>6. /\ node'[n][d].current = fresh.current /\ node'[n][d].conns = s.conns
        /\ \/ node'[n][d].active = Cardinality(FarEntries(n, d, node'[n][d].trigger))
           \/ /\ Triggered(node'[n][d]) /\ node'[n][d].active = ACTIVE
              /\ mine.current < mine.trigger
              /\ Cardinality(FarEntries(n, d, mine.trigger)) = Size(s.conns)
    <3>1. CASE refire
      <4>1. /\ ~Unrecoverable(mine) /\ ~Triggered(mine) /\ Incomplete(mine)
            /\ mine.active = Size(s.conns)
        BY <2>5, <3>1 DEF CanTrigger
      <4>2. mine.current < mine.trigger
        BY <2>5, <4>1, BoundsAssumption DEF NodeDir, Triggered, Unrecoverable, Incomplete
      <4>3. node'[n][d] = Fire(mine)
        BY <1>1, <2>2, <2>4, <3>1
      <4>4. QED
        BY <1>6, <1>8, <2>5, <4>1, <4>2, <4>3, FireNode
    <3>2. CASE ~refire
      <4>1. node'[n][d] = mine
        BY <1>1, <2>2, <2>4, <3>2
      <4>2. QED
        BY <1>6, <1>8, <2>5, <4>1
    <3>3. QED
      BY <3>1, <3>2
  <2>7. Renewed(n, d)
    <3>1. mine.trigger \in 0 .. Omega
      BY <2>5 DEF NodeDir
    <3>2. QED
      BY <2>5, <2>6, <3>1 DEF Renewed
  <2>8. \A m \in Ids \ {n} : Shifted(m, d, n)
    <3> SUFFICES ASSUME NEW m \in Ids \ {n} PROVE Shifted(m, d, n)
      OBVIOUS
    <3>1. node'[m][d] = After(m) /\ outs[m] = Knows(n, d, m)
      BY <2>2, <2>4 DEF Knows
    <3>2. QED
      BY <2>3, <2>6, <3>1 DEF Shifted
  <2>9. QED
    BY <1>5, <2>4, <2>7, <2>8
<1>9. QED
  BY <1>7, <1>8

\* A dependency n that passes the trigger of m brings its entries to the count.
LEMMA PassTally ==
    ASSUME KahnInv, node' \in NodeMap, NEW m \in Ids, NEW n \in Ids, NEW d \in Dirs,
           Waiting(node[m][d]), ~Unrecoverable(node[n][d]),
           Passes(node[m][d], node[n][d].current, node'[n][d].current),
           Knows(n, d, m)' = Knows(n, d, m),
           \A k \in Ids \ {n} : Quiet(m, d, k)
    PROVE  \E D \in SUBSET Entries(node[m][d].conns) :
               /\ Cardinality(D) = node[m][d].active + Knows(n, d, m)
               /\ \A e \in D : node'[e[1]][d].current >= node[m][d].trigger
               /\ node'[m][d].conns = node[m][d].conns /\ node'[m][d].trigger = node[m][d].trigger
                     => \A e \in Entries(node[m][d].conns) \ D : Missed(m, d, e[1])'
<1> DEFINE s == node[m][d]
           k == Knows(n, d, m)
           E == {e \in Entries(s.conns) : e[1] = n /\ e[2] <= k}
<1>1. /\ s.conns \in Bag /\ s.trigger \in Int /\ s.conns[n] \in Nat /\ k \in Nat
      /\ \A x \in Ids : node[x][d].current \in Int /\ node'[x][d].current \in Int
  BY Opposites DEF KahnInv, Shape, TypeOK, NodeMap, NodeDir, Knows, Bag
<1>2. PICK C \in SUBSET Entries(s.conns) : Tally(m, d, C)
  BY DEF KahnInv, Tallied
<1>3. k <= s.conns[n] /\ s.conns[n] <= 2 * MaxEdges
  BY <1>1 DEF KahnInv, Sparse, Balanced, Waiting
<1>4. IsFiniteSet(E) /\ Cardinality(E) = k
  BY <1>1, <1>3, EntriesOfOne, ZenonT(30)
<1>5. \A e \in Entries(s.conns) : e[1] \in Ids /\ ~(s.conns[e[1]] = 0) /\ e[2] \in Nat
  BY <1>1, EntryOf, BoundsAssumption
<1>6. C \cap E = {}
  <2>1. node[n][d].current < s.trigger
    BY DEF Passes
  <2>2. \A e \in C : node[e[1]][d].current >= s.trigger
    BY <1>2 DEF Tally
  <2>3. QED
    BY <1>1, <2>1, <2>2
<1>7. Cardinality(C \cup E) = s.active + k
  <2>1. IsFiniteSet(C) /\ Cardinality(C) \in Nat /\ Cardinality(C) = s.active
    BY <1>2, EntriesFinite, FS_Subset, FS_CardinalityType DEF Tally
  <2>2. Cardinality(C \cup E) = Cardinality(C) + Cardinality(E) - Cardinality(C \cap E)
    BY <1>4, <2>1, FS_Union
  <2>3. Cardinality(C \cap E) = 0
    BY <1>6, FS_EmptySet
  <2>4. QED
    BY <1>1, <1>4, <2>1, <2>2, <2>3
<1>8. ASSUME NEW e \in C \cup E
      PROVE  node'[e[1]][d].current >= s.trigger
  <2>1. CASE e[1] = n
    BY <2>1 DEF Passes
  <2>2. CASE e[1] # n
    <3>1. /\ e[1] \in Ids \ {n} /\ ~(s.conns[e[1]] = 0)
          /\ node[e[1]][d].current >= s.trigger
      BY <1>2, <1>5, <2>2 DEF Tally
    <3>2. node[e[1]][d].current <= node'[e[1]][d].current
      BY <3>1 DEF Quiet
    <3>3. QED
      BY <1>1, <3>1, <3>2
  <2>3. QED
    BY <2>1, <2>2
<1>9. ASSUME NEW e \in Entries(s.conns) \ (C \cup E),
             node'[m][d].conns = s.conns, node'[m][d].trigger = s.trigger
      PROVE  Missed(m, d, e[1])'
  <2>1. e[1] \in Ids /\ ~(s.conns[e[1]] = 0) /\ Missed(m, d, e[1])
    BY <1>2, <1>5 DEF Tally
  <2>2. CASE e[1] = n
    <3>1. ~(e[2] <= k) /\ e[2] <= s.conns[n] /\ e[2] \in Nat
      BY <1>1, <1>5, <2>2, EntryOf
    <3>2. k < s.conns[n]
      BY <1>1, <3>1
    <3>3. QED
      BY <1>9, <2>2, <3>2 DEF Missed
  <2>3. CASE e[1] # n
    BY <1>9, <2>1, <2>3 DEF Quiet, Missed
  <2>4. QED
    BY <2>2, <2>3
<1>10. PICK D : D = C \cup E
  OBVIOUS
<1>11. D \in SUBSET Entries(s.conns)
  BY <1>10
<1> HIDE DEF E, k
<1>12. QED
  BY <1>7, <1>8, <1>9, <1>10, <1>11 DEF k

\* A healthy defuse keeps the phases of the other nodes, and all lists.
LEMMA DefuseKeeps ==
    ASSUME TypeOK, NEW n \in Nodes, NEW d \in Dirs,
           \A m \in Ids, e \in Dirs \ {d} : Same(m, e),
           \A m \in Ids \ {n} : Same(m, d) \/ Shifted(m, d, n),
           node'[n][d].conns = node[n][d].conns
    PROVE  /\ \A m \in Ids, e \in Dirs : node'[m][e].conns = node[m][e].conns
           /\ \A m, k \in Ids, e \in Dirs : Knows(k, e, m)' = Knows(k, e, m)
           /\ \A m \in Ids, e \in Dirs : ~(m = n /\ e = d) =>
                  /\ node'[m][e].current = node[m][e].current
                  /\ Unrecoverable(node[m][e]) => Unrecoverable(node'[m][e])
           /\ \A m, k \in Ids, e \in Dirs : ~(k = n /\ e = d) => Quiet(m, e, k)
<1>1. \A m \in Ids, e \in Dirs : node[m][e] \in NodeDir /\ node[m][e].conns \in Bag
  BY DEF TypeOK, NodeDir
<1>2. \A m, k \in Ids, e \in Dirs : Knows(k, e, m) \in Nat
  BY <1>1, Opposites DEF Knows, Bag
<1>3. ASSUME NEW m \in Ids, NEW e \in Dirs, ~(m = n /\ e = d)
      PROVE  /\ node'[m][e].conns = node[m][e].conns
             /\ node'[m][e].current = node[m][e].current
             /\ Unrecoverable(node[m][e]) => Unrecoverable(node'[m][e])
  <2>1. CASE Same(m, e)
    BY <2>1 DEF Same
  <2>2. CASE Fires(node[m][e], node[n][d].current, node'[n][d].current, Knows(n, d, m))
             /\ node'[m][e] = Fire(node[m][e])
    BY <1>1, <2>2, FireNode DEF Fires
  <2>3. CASE node'[m][e] = Counted(node[m][e], Knows(n, d, m))
    <3>1. n \in Ids
      BY NodesAreIds
    <3>2. Knows(n, d, m) \in Nat /\ node[m][e] \in NodeDir
      BY <1>1, <1>2, <3>1
    <3>3. /\ node'[m][e].conns = node[m][e].conns
          /\ node'[m][e].current = node[m][e].current
          /\ node'[m][e].trigger = node[m][e].trigger
      BY <2>3, <3>2, CountedNode
    <3>4. QED
      BY <3>3 DEF Unrecoverable, Incomplete
  <2>4. QED
    BY <1>3, <2>1, <2>2, <2>3 DEF Shifted, Same
<1>4. \A m \in Ids, e \in Dirs : node'[m][e].conns = node[m][e].conns
  BY <1>3
<1>5. \A m, k \in Ids, e \in Dirs : Knows(k, e, m)' = Knows(k, e, m)
  BY <1>4, Opposites DEF Knows
<1>6. ASSUME NEW m \in Ids, NEW k \in Ids, NEW e \in Dirs, ~(k = n /\ e = d)
      PROVE  Quiet(m, e, k)
  <2>1. node[k][e].current \in Int
    BY <1>1 DEF NodeDir
  <2>2. QED
    BY <1>3, <1>5, <1>6, <2>1 DEF Quiet
<1>7. QED
  BY <1>3, <1>4, <1>5, <1>6


\* defuse keeps the counts of all nodes.
LEMMA DefuseTally ==
    ASSUME KahnInv, NEW n \in Nodes, NEW d \in Dirs, NEW fresh \in CanonicalSpaces,
           NEW me \in BOOLEAN, NEW deps \in BOOLEAN, Defuse(n, d, fresh, me, deps)
    PROVE  Sparse' /\ Balanced' /\ \A m \in Ids, e \in Dirs : Tallied(m, e)'
<1>1. /\ TypeOK /\ ListsNodes /\ n \in Ids
      /\ \A m \in Ids, e \in Dirs : node[m][e] \in NodeDir
  BY NodesAreIds DEF KahnInv, Shape, TypeOK
<1>2. node' \in NodeMap
  BY <1>1, DefuseNodes
<1>3. /\ \A m \in Ids, e \in Dirs \ {d} : Same(m, e)
      /\ \/ /\ \A m \in Ids \ {n} : Same(m, d)
            /\ Unrecoverable(node'[n][d])
            /\ node[n][d].current <= node'[n][d].current
            /\ node'[n][d].conns = node[n][d].conns
         \/ /\ \A m \in Ids \ {n} : Shifted(m, d, n)
            /\ Renewed(n, d)
  BY <1>1, DefuseExactly
<1>4. node'[n][d].conns = node[n][d].conns /\ node[n][d].current <= node'[n][d].current
  BY <1>3 DEF Renewed
<1>5. /\ \A m \in Ids, e \in Dirs : node'[m][e].conns = node[m][e].conns
      /\ \A m, k \in Ids, e \in Dirs : Knows(k, e, m)' = Knows(k, e, m)
      /\ \A m \in Ids, e \in Dirs : ~(m = n /\ e = d) =>
             /\ node'[m][e].current = node[m][e].current
             /\ Unrecoverable(node[m][e]) => Unrecoverable(node'[m][e])
      /\ \A m, k \in Ids, e \in Dirs : ~(k = n /\ e = d) => Quiet(m, e, k)
  BY <1>1, <1>3, <1>4, DefuseKeeps
<1>6. Sparse' /\ Balanced'
  <2>1. Unrecoverable(node[n][d]) => Unrecoverable(node'[n][d])
    BY <1>3 DEF Renewed
  <2>2. QED
    BY <1>5, <2>1, KeptBalance
<1>7. ASSUME NEW m \in Ids, NEW e \in Dirs, Same(m, e), Quiet(m, e, n)
      PROVE  Tallied(m, e)'
  <2>1. \A k \in Ids : Quiet(m, e, k)
    BY <1>5, <1>7
  <2>2. QED
    BY <1>2, <1>7, <2>1, QuietTally DEF Same
<1>8. \A m \in Ids : Tallied(m, d)'
  <2>1. CASE Unrecoverable(node'[n][d]) /\ \A m \in Ids \ {n} : Same(m, d)
    <3>1. Tallied(n, d)'
      BY <2>1 DEF Tallied, Waiting
    <3>2. \A m \in Ids : Quiet(m, d, n)
      BY <1>4, <2>1 DEF Quiet
    <3>3. QED
      BY <1>7, <2>1, <3>1, <3>2
  <2>2. CASE Renewed(n, d) /\ \A m \in Ids \ {n} : Shifted(m, d, n)
    <3>1. ASSUME NEW m \in Ids \ {n} PROVE Tallied(m, d)'
      <4>1. CASE ~Passes(node[m][d], node[n][d].current, node'[n][d].current)
        <5>1. Same(m, d)
          BY <2>2, <4>1 DEF Shifted, Fires, Same
        <5>2. Quiet(m, d, n)
          <6>1. /\ node[n][d].current \in Int /\ node'[n][d].current \in Int
                /\ node[m][d].trigger \in Int
            BY <1>1, <1>2 DEF NodeMap, NodeDir
          <6>2. node[n][d].current < node[m][d].trigger
                   => node'[n][d].current < node[m][d].trigger
            BY <4>1, <6>1 DEF Passes
          <6>3. QED
            BY <1>1, <1>4, <1>5, <2>2, <6>2 DEF Quiet, Renewed
        <5>3. QED
          BY <1>7, <5>1, <5>2
      <4>2. CASE node'[m][d] = Fire(node[m][d]) /\ Incomplete(node[m][d])
                 /\ ~Unrecoverable(node[m][d])
        BY <1>1, <4>2, FireNode DEF Tallied, Waiting
      <4>3. CASE node'[m][d] = Counted(node[m][d], Knows(n, d, m))
                 /\ Passes(node[m][d], node[n][d].current, node'[n][d].current)
        <5> SUFFICES ASSUME Waiting(node'[m][d])
                     PROVE  \E D \in SUBSET Entries(node'[m][d].conns) : Tally(m, d, D)'
          BY DEF Tallied
        <5>1. node[m][d] \in NodeDir /\ Knows(n, d, m) \in Nat
          BY <1>1, Opposites DEF Knows, NodeDir, Bag
        <5>2. /\ node'[m][d].current = node[m][d].current
              /\ node'[m][d].trigger = node[m][d].trigger
              /\ node'[m][d].conns = node[m][d].conns
              /\ node'[m][d].active = IF Triggered(node[m][d]) THEN node[m][d].active
                                      ELSE node[m][d].active + Knows(n, d, m)
          BY <4>3, <5>1, CountedNode
        <5>3. Waiting(node[m][d])
          BY <5>2 DEF Waiting, Triggered, Incomplete, Unrecoverable
        <5>4. \A k \in Ids \ {n} : Quiet(m, d, k)
          BY <1>5
        <5>5. /\ ~Unrecoverable(node[n][d]) /\ Knows(n, d, m)' = Knows(n, d, m)
              /\ Passes(node[m][d], node[n][d].current, node'[n][d].current)
          BY <1>1, <1>5, <2>2, <4>3 DEF Renewed
        <5>6. \E D \in SUBSET Entries(node[m][d].conns) :
               /\ Cardinality(D) = node[m][d].active + Knows(n, d, m)
               /\ \A e \in D : node'[e[1]][d].current >= node[m][d].trigger
               /\ node'[m][d].conns = node[m][d].conns /\ node'[m][d].trigger = node[m][d].trigger
                     => \A e \in Entries(node[m][d].conns) \ D : Missed(m, d, e[1])'
          BY <1>1, <1>2, <5>3, <5>4, <5>5, PassTally
        <5>7. PICK D \in SUBSET Entries(node[m][d].conns) :
                  /\ Cardinality(D) = node[m][d].active + Knows(n, d, m)
                  /\ \A e \in D : node'[e[1]][d].current >= node[m][d].trigger
                  /\ \A e \in Entries(node[m][d].conns) \ D : Missed(m, d, e[1])'
          BY <5>2, <5>6
        <5>8. Tally(m, d, D)'
          BY <5>2, <5>3, <5>7 DEF Tally, Waiting
        <5>9. QED
          BY <5>2, <5>8
      <4>4. QED
        BY <2>2, <4>1, <4>2, <4>3 DEF Shifted, Fires
    <3>2. Tallied(n, d)'
      <4> SUFFICES ASSUME Waiting(node'[n][d])
                   PROVE  \E D \in SUBSET Entries(node'[n][d].conns) : Tally(n, d, D)'
        BY DEF Tallied
      <4>1. node'[n][d].active = Cardinality(FarEntries(n, d, node'[n][d].trigger))
        BY <2>2 DEF Renewed, Waiting
      <4>2. PICK D : D = FarEntries(n, d, node'[n][d].trigger)
        OBVIOUS
      <4>3. \A e \in Entries(node[n][d].conns) : e[1] \in Ids \ {n}
        <5>1. node[n][d].conns \in Bag /\ node[n][d].conns[n] = 0
          BY <1>1 DEF NodeDir, KahnInv, Sparse
        <5>2. QED
          BY <5>1, EntryOf
      <4>4. D \subseteq Entries(node[n][d].conns)
        BY <4>2 DEF FarEntries
      <4>5. ASSUME NEW k \in Ids \ {n}
            PROVE  /\ node[k][d].current \in 0 .. Omega /\ node'[k][d].current = node[k][d].current
                   /\ Unrecoverable(node[k][d]) => Unrecoverable(node'[k][d])
                   /\ node'[n][d].trigger \in 0 .. Omega
        BY <1>1, <1>2, <1>5 DEF NodeMap, NodeDir
      <4>6. ASSUME NEW e \in D
            PROVE  node'[e[1]][d].current >= node'[n][d].trigger
        <5>1. FarEnough(node[e[1]][d], node'[n][d].trigger) /\ e[1] \in Ids \ {n}
          BY <4>2, <4>3, <4>4 DEF FarEntries
        <5>2. QED
          BY <4>5, <5>1, BoundsAssumption DEF FarEnough, Incomplete
      <4>7. ASSUME NEW e \in Entries(node[n][d].conns) \ D
            PROVE  Missed(n, d, e[1])'
        <5>1. ~FarEnough(node[e[1]][d], node'[n][d].trigger) /\ e[1] \in Ids \ {n}
          BY <4>2, <4>3 DEF FarEntries
        <5>2. QED
          BY <4>5, <5>1, BoundsAssumption DEF FarEnough, Incomplete, Missed
      <4>8. Tally(n, d, D)'
        BY <1>4, <4>1, <4>2, <4>6, <4>7 DEF Tally
      <4>9. QED
        BY <1>4, <4>4, <4>8
    <3>3. QED
      BY <3>1, <3>2
  <2>3. QED
    BY <1>3, <2>1, <2>2
<1>9. \A m \in Ids, e \in Dirs \ {d} : Tallied(m, e)'
  BY <1>1, <1>3, <1>5, <1>7
<1>10. QED
  BY <1>6, <1>8, <1>9

\* The count of a waiting node is a natural number.
LEMMA TallyNat ==
    ASSUME KahnInv, NEW m \in Ids, NEW d \in Dirs, Waiting(node[m][d])
    PROVE  node[m][d].active \in Nat
<1>1. PICK C \in SUBSET Entries(node[m][d].conns) : Tally(m, d, C)
  BY DEF KahnInv, Tallied
<1>2. IsFiniteSet(C)
  BY EntriesFinite, FS_Subset
<1>3. QED
  BY <1>1, <1>2, FS_CardinalityType DEF Tally

\* Steps that change neither phases nor lists of waiting nodes keep the counts.
LEMMA CalmTally ==
    ASSUME KahnInv, node' \in NodeMap,
           \A m \in Ids, d \in Dirs :
               /\ node'[m][d].conns = node[m][d].conns
               /\ node'[m][d].current = node[m][d].current
               /\ Unrecoverable(node[m][d]) => Unrecoverable(node'[m][d])
               /\ Waiting(node'[m][d]) => Same(m, d)
    PROVE  Sparse' /\ Balanced' /\ \A m \in Ids, d \in Dirs : Tallied(m, d)'
<1>1. \A m, k \in Ids, d \in Dirs : Knows(k, d, m)' = Knows(k, d, m)
  BY Opposites DEF Knows
<1>2. \A k \in Ids, d \in Dirs : node[k][d].current \in Int
  BY DEF KahnInv, Shape, TypeOK, NodeDir
<1>3. \A m, k \in Ids, d \in Dirs : Quiet(m, d, k)
  BY <1>1, <1>2 DEF Quiet
<1>4. ASSUME NEW m \in Ids, NEW d \in Dirs PROVE Tallied(m, d)'
  <2>1. CASE Waiting(node'[m][d])
    BY <1>3, <2>1, QuietTally DEF Same
  <2>2. CASE ~Waiting(node'[m][d])
    BY <2>2 DEF Tallied
  <2>3. QED
    BY <2>1, <2>2
<1>5. Sparse' /\ Balanced'
  BY KeptBalance
<1>6. QED
  BY <1>4, <1>5

\* Every step keeps the counts.
LEMMA KahnStep == KahnInv /\ [Next]_vars => KahnInv'
<1> SUFFICES ASSUME KahnInv, [Next]_vars
             PROVE  Sparse' /\ Balanced' /\ \A m \in Ids, d \in Dirs : Tallied(m, d)'
  BY ShapeStep DEF KahnInv, Ids, Dirs
<1>1. /\ TypeOK /\ ListsNodes /\ Shape'
      /\ \A m \in Ids, d \in Dirs : node[m][d] \in NodeDir
  BY ShapeStep DEF KahnInv, Shape, TypeOK
<1>2. node' \in NodeMap
  BY <1>1 DEF Shape, TypeOK, NodeMap, NodeDir, Bag, Ids, Dirs
<1>3. CASE UNCHANGED vars \/ EndWave
  <2>1. node' = node
    BY <1>3 DEF vars, EndWave
  <2>2. QED
    BY <1>2, <2>1, CalmTally DEF Same
<1>4. ASSUME NEW sp \in NewSpaces, MakeNode(sp[1], sp[2])
      PROVE  Sparse' /\ Balanced' /\ \A m \in Ids, d \in Dirs : Tallied(m, d)'
  <2> DEFINE new == count + 1
  <2>1. /\ new \in Ids /\ new \notin Nodes
        /\ \A m \in Ids \ {new}, d \in Dirs : Same(m, d)
        /\ \A d \in Dirs : node'[new][d].active = 0 /\ node'[new][d].conns = EmptyBag
    BY <1>1, <1>4, MakeNodeNodes DEF Made
  <2> HIDE DEF new
  <2>2. \A m, k \in Ids, d \in Dirs :
            node[m][d].conns[k] \in Nat /\ (m = new \/ k = new => node[m][d].conns[k] = 0)
    BY <1>1, <2>1 DEF ListsNodes, NodeDir, Bag
  <2>3. \A m, k \in Ids, d \in Dirs : node'[m][d].conns[k] = node[m][d].conns[k]
    BY <2>1, <2>2 DEF Same, EmptyBag
  <2>4. Sparse'
    BY <2>3 DEF KahnInv, Sparse, Ids, Dirs
  <2>5. \A m, k \in Ids, d \in Dirs :
            Knows(k, d, m)' = Knows(k, d, m) /\ (m = new \/ k = new => Knows(k, d, m) = 0)
    BY <2>2, <2>3, Opposites DEF Knows
  <2>6. Balanced'
    <3>1. ASSUME NEW m \in Ids, NEW k \in Ids, NEW d \in Dirs,
                 Knows(k, d, m)' > node'[m][d].conns[k]
          PROVE  Unrecoverable(node'[k][d]) \/ Unrecoverable(node'[m][d])
      <4>1. Knows(k, d, m) > node[m][d].conns[k]
        BY <2>3, <2>5, <3>1
      <4>2. m # new /\ k # new
        BY <2>2, <2>5, <4>1
      <4>3. QED
        BY <2>1, <4>1, <4>2 DEF KahnInv, Balanced, Same
    <3>2. QED
      BY <3>1 DEF Balanced, Ids, Dirs
  <2>7. \A m, k \in Ids, d \in Dirs : Quiet(m, d, k)
    <3> SUFFICES ASSUME NEW m \in Ids, NEW k \in Ids, NEW d \in Dirs PROVE Quiet(m, d, k)
      OBVIOUS
    <3>1. CASE k = new
      BY <2>2, <2>5, <3>1 DEF Quiet
    <3>2. CASE k # new
      BY <1>1, <2>1, <2>5, <3>2 DEF Quiet, Same, NodeDir
    <3>3. QED
      BY <3>1, <3>2
  <2>8. ASSUME NEW m \in Ids, NEW d \in Dirs PROVE Tallied(m, d)'
    <3>1. CASE m # new
      BY <1>2, <2>1, <2>7, <3>1, QuietTally DEF Same
    <3>2. CASE m = new
      <4>1. \A e \in Entries(EmptyBag) : FALSE
        BY BoundsAssumption DEF Entries, EmptyBag
      <4>2. Cardinality({}) = 0
        BY FS_EmptySet
      <4>3. Tally(m, d, {})'
        BY <2>1, <3>2, <4>1, <4>2 DEF Tally
      <4>4. QED
        BY <4>3 DEF Tallied
    <3>3. QED
      BY <3>1, <3>2
  <2>9. QED
    BY <2>4, <2>6, <2>8
<1>5. ASSUME NEW d \in Dirs, NEW n \in Nodes, Query(n, d)
      PROVE  Sparse' /\ Balanced' /\ \A m \in Ids, e \in Dirs : Tallied(m, e)'
  <2>1. /\ Fired(n, d) /\ n \in Ids
        /\ \A m \in Ids, e \in Dirs : ~(m = n /\ e = d) => Same(m, e)
    BY <1>1, <1>5, QueryNodes, NodesAreIds
  <2>2. /\ node'[n][d].conns = node[n][d].conns
        /\ node'[n][d].current = node[n][d].current
        /\ ~Unrecoverable(node[n][d]) /\ Triggered(node'[n][d])
    BY <1>1, <2>1, FireNode DEF Fired
  <2>3. \A m \in Ids, e \in Dirs :
            /\ node'[m][e].conns = node[m][e].conns
            /\ node'[m][e].current = node[m][e].current
            /\ Unrecoverable(node[m][e]) => Unrecoverable(node'[m][e])
            /\ Waiting(node'[m][e]) => Same(m, e)
    BY <2>1, <2>2 DEF Same, Waiting
  <2>4. QED
    BY <1>2, <2>3, CalmTally
<1>6. CASE BeginWave
  <2>1. ASSUME NEW m \in Ids, NEW d \in Dirs
        PROVE  /\ node'[m][d].conns = node[m][d].conns
               /\ node'[m][d].current = node[m][d].current
               /\ Unrecoverable(node[m][d]) => Unrecoverable(node'[m][d])
               /\ Waiting(node'[m][d]) => Same(m, d)
    <3>1. CASE Same(m, d)
      BY <3>1 DEF Same
    <3>2. CASE Ran(m, d)
      <4>1. /\ node'[m][d].conns = node[m][d].conns
            /\ node'[m][d].current = node[m][d].current
            /\ node'[m][d].trigger = node[m][d].trigger
            /\ node[m][d].active = ACTIVE
        BY <1>1, <3>2 DEF Ran, NodeDir
      <4>2. ~Waiting(node[m][d])
        BY <4>1, TallyNat, TagsDistinct
      <4>3. QED
        BY <4>1, <4>2 DEF Waiting, Triggered, Unrecoverable, Incomplete
    <3>3. QED
      BY <1>1, <1>6, <3>1, <3>2, WaveNodes
  <2>2. QED
    BY <1>2, <2>1, CalmTally
<1>7. CASE Clear
  <2>1. \A m \in Ids, d \in Dirs : node'[m][d] = Absent
    BY <1>7 DEF Clear
  <2>2. ~Waiting(Absent) /\ \A k \in Ids : Absent.conns[k] = 0
    BY BoundsAssumption DEF Waiting, Triggered, Absent, EmptyBag
  <2>3. Sparse'
    BY <2>1, <2>2, BoundsAssumption DEF Sparse, Ids, Dirs
  <2>4. \A m, k \in Ids, d \in Dirs : Knows(k, d, m)' = 0 /\ node'[m][d].conns[k] = 0
    BY <2>1, <2>2, Opposites DEF Knows
  <2>5. Balanced'
    <3>1. \A m, k \in Ids, d \in Dirs : ~(Knows(k, d, m)' > node'[m][d].conns[k])
      BY <2>4
    <3>2. QED
      BY <3>1 DEF Balanced, Ids, Dirs
  <2>6. QED
    BY <2>1, <2>2, <2>3, <2>5 DEF Tallied
<1>8. QED
  BY <1>3, <1>4, <1>5, <1>6, <1>7, MakeEdgeTally, DefuseTally DEF Next, Operate

\* The empty graph.
LEMMA KahnInit == Init => KahnInv
<1> SUFFICES ASSUME Init PROVE KahnInv
  OBVIOUS
<1>1. \A m \in Ids, d \in Dirs : node[m][d] = Absent
  BY DEF Init
<1>2. ~Waiting(Absent) /\ \A k \in Ids : Absent.conns[k] = 0
  BY BoundsAssumption DEF Waiting, Triggered, Absent, EmptyBag
<1>3. Sparse
  BY <1>1, <1>2, BoundsAssumption DEF Sparse
<1>4. \A m, k \in Ids, d \in Dirs : ~(Knows(k, d, m) > node[m][d].conns[k])
  BY <1>1, <1>2, Opposites DEF Knows
<1>5. QED
  BY <1>1, <1>2, <1>3, <1>4, ShapeInit DEF KahnInv, Balanced, Tallied

\* What make_edges, query and defuse count step by step is the number of
\* dependencies that are far enough, at every node all edges of which both
\* ends know of.
THEOREM KahnCorrect == Spec => []KahnCount
<1>1. KahnInv => KahnCount
  <2> SUFFICES ASSUME KahnInv, NEW m \in Nodes, NEW d \in Dirs,
                      Waiting(node[m][d]), Whole(m, d)
               PROVE  CountsDependencies(m, d)
    BY DEF KahnCount
  <2> DEFINE s == node[m][d]
             Far(n) == FarEnough(node[n][d], node[m][d].trigger)
             Reached(n) == node[n][d].current >= node[m][d].trigger
             F == {e \in Entries(s.conns) : Far(e[1])}
             R == {e \in Entries(s.conns) : Reached(e[1])}
  <2>1. /\ m \in Ids /\ s.conns \in Bag /\ s.trigger \in 0 .. Omega
        /\ \A k \in Ids : node[k][d].current \in 0 .. Omega /\ s.conns[k] \in Nat
    BY NodesAreIds DEF KahnInv, Shape, TypeOK, NodeDir, Bag
  <2>2. PICK C \in SUBSET Entries(s.conns) : Tally(m, d, C)
    BY <2>1 DEF KahnInv, Tallied
  <2>3. F \subseteq C
    <3> SUFFICES ASSUME NEW e \in F, e \notin C PROVE FALSE
      OBVIOUS
    <3>1. e[1] \in Ids /\ Missed(m, d, e[1])
      BY <2>1, <2>2, EntryOf DEF Tally
    <3>2. ~Unrecoverable(node[e[1]][d]) /\ ~(node[e[1]][d].current < s.trigger)
      BY <2>1, <3>1, BoundsAssumption DEF FarEnough, Incomplete
    <3>3. Knows(e[1], d, m) = s.conns[e[1]]
      BY <3>1 DEF Whole, Knows
    <3>4. QED
      BY <2>1, <3>1, <3>2, <3>3 DEF Missed
  <2>4. C \subseteq R
    BY <2>2 DEF Tally
  <2>5. IsFiniteSet(C) /\ IsFiniteSet(R)
    BY EntriesFinite, FS_Subset
  <2>6. Cardinality(F) <= Cardinality(C) /\ Cardinality(C) <= Cardinality(R)
    BY <2>3, <2>4, <2>5, FS_Subset
  <2>7. /\ Dependencies(m, d, Far) = Cardinality(F)
        /\ Dependencies(m, d, Reached) = Cardinality(R)
        /\ s.active = Cardinality(C)
    BY <2>2 DEF Dependencies, SizeOf, Tally
  <2> HIDE DEF F, R
  <2>8. QED
    BY <2>6, <2>7 DEF CountsDependencies
<1>2. QED
  BY <1>1, KahnInit, KahnStep, PTL DEF Spec

\* A node that defuse fires has its dependencies where it needs them.
LEMMA DefuseFires ==
    ASSUME KahnInv, TagInv,
           NEW n \in Nodes, NEW d \in Dirs, NEW fresh \in CanonicalSpaces,
           NEW me \in BOOLEAN, NEW deps \in BOOLEAN, Defuse(n, d, fresh, me, deps),
           NEW m \in Ids, node[m][d].active # ACTIVE,
           node'[m][d].active = ACTIVE, ~Unrecoverable(node'[m][d]),
           NEW k \in Ids, node[m][d].conns[k] > 0
    PROVE  node'[k][d].current >= IF node[m][d].active = PASSIVE
                                  THEN node'[m][d].current + 1
                                  ELSE node[m][d].trigger
<1>1. /\ TypeOK /\ ListsNodes /\ n \in Ids
      /\ \A x \in Ids, e \in Dirs : node[x][e] \in NodeDir
      /\ node[m][d].conns \in Bag
      /\ node[m][d].conns[k] <= 2 * MaxEdges /\ k # m
  BY NodesAreIds DEF KahnInv, Shape, TypeOK, NodeDir, Sparse
<1>2. node' \in NodeMap
  BY <1>1, DefuseNodes
<1>3. /\ \A x \in Ids, e \in Dirs \ {d} : Same(x, e)
      /\ node[n][d].active = PASSIVE
      /\ \/ /\ \A x \in Ids \ {n} : Same(x, d)
            /\ node'[n][d].active # ACTIVE
         \/ /\ \A x \in Ids \ {n} : Shifted(x, d, n)
            /\ Renewed(n, d)
  BY <1>1, DefuseExactly
<1>4. Renewed(n, d) /\ \A x \in Ids \ {n} : Shifted(x, d, n)
  BY <1>3, TagsDistinct DEF Same
<1>5. /\ \A x, y \in Ids, e \in Dirs : Knows(y, e, x)' = Knows(y, e, x)
      /\ \A x \in Ids \ {n} : node'[x][d].current = node[x][d].current
      /\ \A x, y \in Ids, e \in Dirs : ~(y = n /\ e = d) => Quiet(x, e, y)
  BY <1>1, <1>3, <1>4, DefuseKeeps DEF Renewed
<1>6. CASE m = n
  <2>1. node'[n][d].active \notin Nat
    BY <1>6, TagsDistinct
  <2>2. Cardinality(FarEntries(n, d, node'[n][d].trigger)) \in Nat
    BY EntriesFinite, FS_Subset, FS_CardinalityType DEF FarEntries
  <2>3. PICK t \in 0 .. Omega : /\ node'[n][d].current < t
                                /\ Cardinality(FarEntries(n, d, t)) = Size(node[n][d].conns)
    BY <1>4, <2>1, <2>2 DEF Renewed
  <2>4. /\ FarEntries(n, d, t) \in SUBSET Entries(node[n][d].conns)
        /\ Size(node[n][d].conns) \in Nat
    BY EntriesFinite, FS_CardinalityType DEF FarEntries, Size
  <2>5. <<k, 1>> \in FarEntries(n, d, t)
    BY <1>1, <1>6, <2>3, <2>4, FullCount
  <2>6. FarEnough(node[k][d], t)
    BY <2>5 DEF FarEntries
  <2>7. /\ node[k][d].current \in 0 .. Omega /\ node'[n][d].current \in Int
        /\ node'[k][d].current = node[k][d].current
    BY <1>1, <1>2, <1>5, <1>6 DEF NodeMap, NodeDir
  <2>8. node[k][d].current >= t
    BY <2>6, <2>7, BoundsAssumption DEF FarEnough, Incomplete
  <2>9. QED
    BY <1>3, <1>6, <2>3, <2>7, <2>8
<1>7. CASE m # n
  <2>1. Shifted(m, d, n) /\ ~Unrecoverable(node[n][d])
    BY <1>4, <1>7 DEF Renewed
  <2>2. node[m][d] \in NodeDir /\ Knows(n, d, m) \in Nat
    BY <1>1, Opposites DEF Knows, NodeDir, Bag
  <2>3. Fires(node[m][d], node[n][d].current, node'[n][d].current, Knows(n, d, m))
    <3>1. CASE node'[m][d] = Counted(node[m][d], Knows(n, d, m))
      <4>1. Same(m, d) \/ CountedUp(m, d)
        BY <2>2, <3>1 DEF Same, CountedUp, Counted
      <4>2. Shape
        BY DEF KahnInv
      <4>3. node'[m][d].active = ACTIVE <=> node[m][d].active = ACTIVE
        BY <4>1, <4>2, CountKeepsTag
      <4>4. QED
        BY <4>3
    <3>2. CASE node'[m][d] = node[m][d]
      BY <3>2
    <3>3. QED
      BY <2>1, <3>1, <3>2 DEF Shifted
  <2>4. /\ Waiting(node[m][d])
        /\ Passes(node[m][d], node[n][d].current, node'[n][d].current)
        /\ Size(node[m][d].conns) <= node[m][d].active + Knows(n, d, m)
    BY <2>3 DEF Fires, Waiting
  <2>5. PICK D \in SUBSET Entries(node[m][d].conns) :
            /\ Cardinality(D) = node[m][d].active + Knows(n, d, m)
            /\ \A e \in D : node'[e[1]][d].current >= node[m][d].trigger
    BY <1>1, <1>2, <1>5, <2>1, <2>4, PassTally
  <2>6. node[m][d].active \in Nat /\ Size(node[m][d].conns) \in Nat
    BY <2>4, TallyNat, EntriesFinite, FS_CardinalityType DEF Size
  <2>7. Cardinality(D) >= Size(node[m][d].conns)
    BY <2>2, <2>4, <2>5, <2>6
  <2>8. <<k, 1>> \in D
    BY <1>1, <2>7, FullCount
  <2>9. node'[k][d].current >= node[m][d].trigger
    BY <2>5, <2>8
  <2>10. QED
    BY <2>6, <2>9, TagsDistinct
<1>8. QED
  BY <1>6, <1>7

\* A node fires only when every dependency has reached the phase it waits for
\* ("b will never lookup prematurely"), unless it is in error.
THEOREM FiringCorrect == Spec => NoEarlyFiring
<1>1. KahnInv /\ Latched /\ [Next]_vars => [FiresWhenReady]_vars
  <2> SUFFICES ASSUME KahnInv, Latched, Next,
                      NEW m \in Nodes, NEW d \in Dirs,
                      node[m][d].active # ACTIVE,
                      node'[m][d].active = ACTIVE, ~Unrecoverable(node'[m][d]),
                      NEW k \in Ids, node[m][d].conns[k] > 0
               PROVE  node'[k][d].current >= IF node[m][d].active = PASSIVE
                                             THEN node'[m][d].current + 1
                                             ELSE node[m][d].trigger
    BY DEF FiresWhenReady
  <2>1. /\ m \in Ids /\ TypeOK /\ ListsNodes /\ TagInv /\ Shape
        /\ \A x \in Ids, e \in Dirs : node[x][e] \in NodeDir
        /\ node[m][d].conns \in Bag /\ node[m][d].conns[k] <= 2 * MaxEdges /\ k # m
    BY NodesAreIds DEF KahnInv, Latched, Shape, TypeOK, NodeDir, Sparse
  <2>2. ~Same(m, d)
    BY DEF Same
  <2>3. ASSUME NEW sp \in NewSpaces, MakeNode(sp[1], sp[2]) PROVE FALSE
    BY <2>1, <2>2, <2>3, MakeNodeNodes
  <2>4. ASSUME NEW e \in Dirs, NEW n \in Nodes, Query(n, e)
        PROVE  node'[k][d].current >= IF node[m][d].active = PASSIVE
                                      THEN node'[m][d].current + 1
                                      ELSE node[m][d].trigger
    <3>1. m = n /\ d = e /\ Same(k, d)
      BY <2>1, <2>2, <2>4, QueryNodes
    <3>2. Waiting(node[m][d]) /\ node[m][d].active = Size(node[m][d].conns)
      BY <2>4, <3>1 DEF Query, CanTrigger, Waiting
    <3>3. PICK C \in SUBSET Entries(node[m][d].conns) : Tally(m, d, C)
      BY <2>1, <3>2 DEF KahnInv, Tallied
    <3>4. Size(node[m][d].conns) \in Nat
      BY EntriesFinite, FS_CardinalityType DEF Size
    <3>5. Cardinality(C) >= Size(node[m][d].conns)
      BY <3>2, <3>3, <3>4 DEF Tally
    <3>6. <<k, 1>> \in C
      BY <2>1, <3>5, FullCount
    <3>7. node[k][d].current >= node[m][d].trigger
      BY <3>3, <3>6 DEF Tally
    <3>8. QED
      BY <3>1, <3>2, <3>4, <3>7, TagsDistinct DEF Same
  <2>5. ASSUME NEW e \in Dirs, NEW a \in Nodes, NEW b \in Nodes, MakeEdge(e, a, b)
        PROVE  FALSE
    BY <2>1, <2>2, <2>5, MakeEdgeNodes, CountKeepsTag
  <2>6. ASSUME NEW e \in Dirs, NEW n \in Nodes, NEW fresh \in CanonicalSpaces,
               NEW me \in BOOLEAN, NEW deps \in BOOLEAN, Defuse(n, e, fresh, me, deps)
        PROVE  node'[k][d].current >= IF node[m][d].active = PASSIVE
                                      THEN node'[m][d].current + 1
                                      ELSE node[m][d].trigger
    <3>1. d = e
      BY <2>1, <2>2, <2>6, DefuseExactly
    <3>2. QED
      BY <2>1, <2>6, <3>1, DefuseFires
  <2>7. CASE BeginWave
    BY <2>1, <2>2, <2>7, WaveNodes DEF Ran
  <2>8. CASE EndWave
    BY <2>2, <2>8 DEF EndWave, Same
  <2>9. CASE Clear
    <3>1. node'[m][d] = Absent
      BY <2>1, <2>9 DEF Clear
    <3>2. QED
      BY <3>1, TagsDistinct DEF Absent
  <2>10. QED
    BY <2>3, <2>4, <2>5, <2>6, <2>7, <2>8, <2>9 DEF Next, Operate
<1>2. QED
  BY <1>1, LatchedInit, LatchedStep, KahnInit, KahnStep, PTL DEF Spec, NoEarlyFiring
============================================================================
