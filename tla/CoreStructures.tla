------------------------------ MODULE CoreStructures ------------------------------
(* kron's containers. Progression, an ordered list that may repeat an id, with the
   set of its members beside it; Flow, items and the named progressions that refer
   to them; Session, whose branches are the progressions of its messages; Graph,
   whose adjacency tables are kept beside the edges, and its searches; and
   OperationGraphBuilder.                                                        *)
EXTENDS Integers, Sequences, FiniteSets, SequencesExt, Relation, TLC

CONSTANTS
    Messages, BranchNames,
    MaxOrder           \* longest progression

VARIABLES
    stored,            \* Flow.items
    branches,          \* name -> [order, members]
    defaultBranch,     \* default_branch_id, by name
    repeated           \* messages that some branch once listed twice

branchVars == <<stored, branches, defaultBranch, repeated>>

Main == "main"

-----------------------------------------------------------------------------
(* Progression *)

NewProgression(order) == [order |-> order, members |-> ToSet(order)]

Added(p, m) == [order |-> Append(p.order, m), members |-> p.members \cup {m}]

\* An id leaves the members with its last occurrence.
Drop(p, i) ==
    LET rest == RemoveAt(p.order, i)
    IN  [order |-> rest,
         members |-> IF p.order[i] \in ToSet(rest) THEN p.members ELSE p.members \ {p.order[i]}]

FirstAt(p, m) == CHOOSE i \in DOMAIN p.order :
                    p.order[i] = m /\ \A j \in 1..(i - 1) : p.order[j] # m

TakeOut(p, m) == IF m \in p.members THEN Drop(p, FirstAt(p, m)) ELSE p

\* __setitem__ with an index: the old id leaves unless it is elsewhere, the new one joins.
SetItem(p, i, m) ==
    LET order == ReplaceAt(p.order, i, m)
        kept == IF p.order[i] \in ToSet(order) THEN p.members ELSE p.members \ {p.order[i]}
    IN  [order |-> order, members |-> kept \cup {m}]

Include(p, m) == IF m \in p.members THEN p ELSE Added(p, m)

Extend(p, ms) == [order |-> p.order \o ms, members |-> p.members \cup ToSet(ms)]

Swap(p, i, j) == [p EXCEPT !.order[i] = p.order[j], !.order[j] = p.order[i]]

\* The target counts places before the item is taken out; one past the end is allowed.
Move(p, i, j) ==
    LET rest == RemoveAt(p.order, i)
    IN  [p EXCEPT !.order = InsertAt(rest, IF i < j THEN j - 1 ELSE j, p.order[i])]

Reordered(p) ==
    {[p EXCEPT !.order = Reverse(p.order)]}
        \cup {Swap(p, i, j) : i, j \in DOMAIN p.order}
        \cup {Move(p, i, j) : i \in DOMAIN p.order, j \in 1..(Len(p.order) + 1)}
-----------------------------------------------------------------------------
(* Flow and Session *)

\* Session.__init__ creates the default branch.
BranchInit ==
    /\ stored = {} /\ branches = (Main :> NewProgression(<<>>))
    /\ defaultBranch = Main /\ repeated = {}

Twice(order) == {m \in ToSet(order) : Cardinality({i \in DOMAIN order : order[i] = m}) > 1}

SetBranches(bs) ==
    /\ branches' = bs
    /\ repeated' = repeated \cup UNION {Twice(bs[n].order) : n \in DOMAIN bs}

\* create_branch, and add_progression behind it: a free name, and only stored messages.
CreateBranch(name, order) ==
    /\ name \notin DOMAIN branches /\ ToSet(order) \subseteq stored
    /\ SetBranches(branches @@ (name :> NewProgression(order)))
    /\ UNCHANGED <<stored, defaultBranch>>

fork(source, name) == source \in DOMAIN branches /\ CreateBranch(name, branches[source].order)

create_branch(name) == \E order \in BoundedSeq(stored, 2) : CreateBranch(name, order)

\* add_item resolves every progression before it stores anything.
add_message(m, names) ==
    /\ m \notin stored /\ ToSet(names) \subseteq DOMAIN branches
    /\ stored' = stored \cup {m}
    /\ SetBranches([n \in DOMAIN branches |->
            Extend(branches[n], [i \in 1..Cardinality({k \in DOMAIN names : names[k] = n}) |-> m])])
    /\ UNCHANGED defaultBranch

\* remove_item takes one occurrence out of each progression, then the item out of
\* the store; an item that is not stored raises after the progressions have changed.
remove_item(m) ==
    /\ SetBranches([n \in DOMAIN branches |-> TakeOut(branches[n], m)])
    /\ stored' = stored \ {m}
    /\ UNCHANGED defaultBranch

remove_progression(name) ==
    /\ name \in DOMAIN branches
    /\ SetBranches([n \in DOMAIN branches \ {name} |-> branches[n]])
    /\ UNCHANGED <<stored, defaultBranch>>

set_default_branch(name) ==
    /\ name \in DOMAIN branches /\ defaultBranch' = name
    /\ UNCHANGED <<stored, branches, repeated>>

\* A branch is itself a Progression and can be edited directly, within what is stored.
Edit(name) ==
    /\ name \in DOMAIN branches
    /\ LET p == branches[name]
       IN  \E q \in Reordered(p) \cup {Drop(p, i) : i \in DOMAIN p.order}
                    \cup {Include(p, m) : m \in stored} \cup {NewProgression(<<>>)}
                    \cup {SetItem(p, i, m) : i \in DOMAIN p.order, m \in stored} :
                SetBranches([branches EXCEPT ![name] = q])
    /\ UNCHANGED <<stored, defaultBranch>>

BranchBound == \A n \in DOMAIN branches : Len(branches[n].order) <= MaxOrder

BranchNext ==
    /\ \/ \E name \in BranchNames \cup {Main} :
            \/ create_branch(name) \/ remove_progression(name) \/ set_default_branch(name) \/ Edit(name)
            \/ \E source \in BranchNames \cup {Main} : fork(source, name)
       \/ \E m \in Messages :
            \/ remove_item(m)
            \/ \E names \in BoundedSeq(BranchNames \cup {Main}, 2) : add_message(m, names)
    /\ BranchBound'
-----------------------------------------------------------------------------
(* Progression's member set, which answers "in", is the set of the listed ids, with
   ids that are listed several times and taken out one by one.                     *)
MembersExact == \A n \in DOMAIN branches : branches[n].members = ToSet(branches[n].order)

(* Flow's referential integrity: a branch lists a message that is no longer stored
   only when that message had been listed twice; forking such a branch is refused.  *)
OnlyRepeatsDangle ==
    \A n \in DOMAIN branches : ToSet(branches[n].order) \ stored \subseteq repeated

(* Moving, swapping and reversing lose and duplicate nothing, at either end too.    *)
ReorderingKeeps ==
    \A n \in DOMAIN branches : \A q \in Reordered(branches[n]) :
        /\ Len(q.order) = Len(branches[n].order)
        /\ \A m \in Messages : Cardinality({i \in DOMAIN q.order : q.order[i] = m})
                             = Cardinality({i \in DOMAIN branches[n].order : branches[n].order[i] = m})

-----------------------------------------------------------------------------
(* Graph *)

CONSTANTS
    GraphNodes,
    MaxEdges           \* edge ids

VARIABLES
    nodes, edges,          \* node ids; edge id -> [head, tail]
    outEdges, inEdges,     \* _out_edges, _in_edges: node -> edge ids
    built,                 \* builder: names in the order they were added
    heads,                 \* builder: _current_heads
    linked                 \* builder: depends_on() was called

graphVars == <<nodes, edges, outEdges, inEdges>>
builderVars == <<built, heads, linked>>

GraphInit ==
    /\ nodes = {} /\ edges = <<>> /\ outEdges = <<>> /\ inEdges = <<>>
    /\ built = {} /\ heads = {} /\ linked = FALSE

EdgeIds == 1..MaxEdges

Without(f, k) == [x \in DOMAIN f \ {k} |-> f[x]]

add_node(n) ==
    /\ n \notin nodes /\ nodes' = nodes \cup {n}
    /\ outEdges' = outEdges @@ (n :> {}) /\ inEdges' = inEdges @@ (n :> {})
    /\ UNCHANGED <<edges, builderVars>>

\* add_edge and remove_edge on a state [edges, out, in]; an id serves one edge at a time.
AddEdge(g, e, h, t) ==
    [edges |-> g.edges @@ (e :> [head |-> h, tail |-> t]),
     out |-> [g.out EXCEPT ![h] = @ \cup {e}],
     in |-> [g.in EXCEPT ![t] = @ \cup {e}]]

Now == [edges |-> edges, out |-> outEdges, in |-> inEdges]

\* _rebuild_adjacency: the tables of a graph made from its nodes and edges.
Rebuilt ==
    [out |-> [n \in nodes |-> {e \in DOMAIN edges : edges[e].head = n}],
     in |-> [n \in nodes |-> {e \in DOMAIN edges : edges[e].tail = n}]]

Become(g) == edges' = g.edges /\ outEdges' = g.out /\ inEdges' = g.in

FreeIds == SetToSortSeq(EdgeIds \ DOMAIN edges, <)

add_edge(h, t) ==
    /\ {h, t} \subseteq nodes /\ FreeIds # <<>>
    /\ Become(AddEdge(Now, FreeIds[1], h, t))
    /\ UNCHANGED <<nodes, builderVars>>

RemoveEdge(g, e) ==
    [edges |-> Without(g.edges, e),
     out |-> [g.out EXCEPT ![g.edges[e].head] = @ \ {e}],
     in |-> [g.in EXCEPT ![g.edges[e].tail] = @ \ {e}]]

remove_edge(e) == e \in DOMAIN edges /\ Become(RemoveEdge(Now, e)) /\ UNCHANGED <<nodes, builderVars>>

RemoveAll(g, es) == FoldSet(LAMBDA e, h : RemoveEdge(h, e), g, es)

\* The outgoing edges are listed after the incoming ones are gone, so that an edge
\* from the node to itself is removed once.
remove_node_InOnly(n) ==
    /\ n \in nodes
    /\ LET g == RemoveAll(Now, inEdges[n])
       IN  Become([g EXCEPT !.out = Without(g.out, n), !.in = Without(g.in, n)])
    /\ nodes' = nodes \ {n} /\ UNCHANGED builderVars

remove_node(n) ==
    /\ n \in nodes
    /\ LET g == RemoveAll(Now, inEdges[n])
           h == RemoveAll(g, g.out[n])
       IN  Become([h EXCEPT !.out = Without(h.out, n), !.in = Without(h.in, n)])
    /\ nodes' = nodes \ {n} /\ UNCHANGED builderVars
-----------------------------------------------------------------------------
(* The searches *)

Successors(n) == {edges[e].tail : e \in outEdges[n]}

\* is_acyclic: depth first with three colours; grey nodes are on the path.
RECURSIVE dfs(_, _), dfsAll(_, _)
dfs(s, n) ==
    LET inner == dfsAll([s EXCEPT !.grey = @ \cup {n}], Successors(n))
    IN  [inner EXCEPT !.grey = @ \ {n}, !.black = @ \cup {n}]
dfsAll(s, ns) ==
    IF ns = {} \/ ~s.ok THEN s
    ELSE LET n == CHOOSE x \in ns : TRUE
         IN  dfsAll(IF n \in s.grey THEN [s EXCEPT !.ok = FALSE]
                    ELSE IF n \in s.black THEN s ELSE dfs(s, n), ns \ {n})

is_acyclic == dfsAll([ok |-> TRUE, grey |-> {}, black |-> {}], nodes).ok

\* topological_sort: Kahn's algorithm; a node is queued when its last incoming edge is counted.
RECURSIVE kahn(_, _, _)
kahn(queue, degree, result) ==
    IF queue = <<>> THEN result
    ELSE LET n == Head(queue)
             left == [m \in nodes |-> degree[m] - Cardinality({e \in outEdges[n] : edges[e].tail = m})]
             ready == {m \in nodes : left[m] = 0 /\ degree[m] > 0}
         IN  kahn(Tail(queue) \o SetToSeq(ready), left, Append(result, n))

topological_sort ==
    LET degree == [n \in nodes |-> Cardinality(inEdges[n])]
    IN  kahn(SetToSeq({n \in nodes : degree[n] = 0}), degree, <<>>)

\* find_path: breadth first; the answer is the edges of a path, or none.
RECURSIVE bfs(_, _, _)
bfs(queue, paths, end) ==
    IF queue = <<>> THEN {}
    ELSE LET n == Head(queue)
             found == Successors(n) \ DOMAIN paths
             via(m) == CHOOSE e \in outEdges[n] : edges[e].tail = m
         IN  IF n = end THEN {paths[n]}
             ELSE bfs(Tail(queue) \o SetToSeq(found),
                      paths @@ [m \in found |-> Append(paths[n], via(m))], end)

find_path(start, end) == bfs(<<start>>, start :> <<>>, end)
-----------------------------------------------------------------------------
(* OperationGraphBuilder *)

\* add() links a new operation to its dependencies in turn; an unknown one raises
\* with the node, and the edges before it, already in the graph.
AddOperation(n, deps) ==
    /\ nodes' = nodes \cup {n} /\ built' = built \cup {n}
    /\ LET unknown == SelectInSeq(deps, LAMBDA d : d \notin built')
           links == IF unknown = 0 THEN deps ELSE SubSeq(deps, 1, unknown - 1)
           fresh == [Now EXCEPT !.out = @ @@ (n :> {}), !.in = @ @@ (n :> {})]
       IN  /\ Len(links) <= Len(FreeIds)
           /\ Become(FoldSet(LAMBDA i, g : AddEdge(g, FreeIds[i], links[i], n), fresh, DOMAIN links))
           /\ heads' = IF unknown = 0 THEN {n} ELSE heads
    /\ UNCHANGED linked

add(n, deps) == n \notin built /\ AddOperation(n, deps)

\* Without depends_on the operation follows the current head.
AddSequential(n) == add(n, SetToSeq(heads))

depends_on(target, dep) ==
    /\ {target, dep} \subseteq built /\ FreeIds # <<>>
    /\ Become(AddEdge(Now, FreeIds[1], dep, target))
    /\ linked' = TRUE /\ UNCHANGED <<nodes, built, heads>>

clear ==
    /\ nodes' = {} /\ edges' = <<>> /\ outEdges' = <<>> /\ inEdges' = <<>>
    /\ built' = {} /\ heads' = {} /\ linked' = FALSE

GraphNext ==
    \/ \E n \in GraphNodes : add_node(n) \/ remove_node(n)
    \/ \E h, t \in GraphNodes : add_edge(h, t)
    \/ \E e \in EdgeIds : remove_edge(e)

BuilderNext ==
    \/ \E n \in GraphNodes : AddSequential(n) \/ \E deps \in BoundedSeq(GraphNodes, 2) : add(n, deps)
    \/ \E t, d \in GraphNodes : depends_on(t, d)
    \/ clear
-----------------------------------------------------------------------------
Reach(n) == Successors(n) \cup UNION {Successors(m) : m \in Successors(n)}
                \cup UNION {UNION {Successors(k) : k \in Successors(m)} : m \in Successors(n)}

(* The adjacency tables, maintained edge by edge through removals, parallel edges
   and edges from a node to itself, are those _rebuild_adjacency would compute, and
   no edge is left at a removed node.                                              *)
AdjacencyExact ==
    /\ outEdges = Rebuilt.out /\ inEdges = Rebuilt.in
    /\ \A e \in DOMAIN edges : edges[e].head \in nodes /\ edges[e].tail \in nodes

(* is_acyclic finds a cycle exactly when some node reaches itself; of an acyclic
   graph topological_sort lists every node once, the head of each edge first.       *)
SortExact ==
    /\ is_acyclic <=> \A n \in nodes : n \notin Reach(n)
    /\ is_acyclic =>
        LET order == topological_sort
        IN  /\ ToSet(order) = nodes /\ Len(order) = Cardinality(nodes)
            /\ \A i, j \in DOMAIN order : order[j] \in Successors(order[i]) => i < j

(* find_path returns a path of edges from start to end when there is one, and none
   that is longer than it need be.                                                 *)
PathExact ==
    \A s, t \in nodes :
        /\ find_path(s, t) = {} <=> s # t /\ t \notin Reach(s)
        /\ \A p \in find_path(s, t) :
            /\ p = <<>> <=> s = t
            /\ p # <<>> => /\ edges[p[1]].head = s /\ edges[p[Len(p)]].tail = t
                           /\ \A i \in 1..(Len(p) - 1) : edges[p[i]].tail = edges[p[i + 1]].head
                           /\ t \in Successors(s) => Len(p) = 1
                           /\ IsInjective([i \in DOMAIN p |-> edges[p[i]].head])

(* A builder on which only add() was called, unknown dependencies included, has no
   cycle but that of an operation declared to depend on itself.                     *)
AddAloneIsAcyclic ==
    ~linked /\ nodes = built => \A n \in nodes : n \in Reach(n) => n \in Successors(n)

(* The containers stay consistent through any sequence of their operations: members of
   a progression, references of a flow, adjacency tables of a graph, and what the
   searches and the builder make of them.                                          *)
StructuresConsistent ==
    /\ MembersExact /\ OnlyRepeatsDangle /\ ReorderingKeeps
    /\ AdjacencyExact /\ SortExact /\ PathExact /\ AddAloneIsAcyclic
=============================================================================
