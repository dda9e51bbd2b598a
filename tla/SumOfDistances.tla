----------------------------- MODULE SumOfDistances -----------------------------
(***************************************************************************)
(* sumOfDistancesInTree(n, edges) of dsa/sum-of-distances-in-tree: for     *)
(* every node of a tree the sum of its distances to all others, by one     *)
(* traversal that counts subtrees and one that moves the root along each   *)
(* edge.                                                                   *)
(*                                                                         *)
(* A traversal is given by its calls (node, parent).  The second one may   *)
(* visit the children in any order; the code's order is one of them.       *)
(***************************************************************************)
EXTENDS Integers, FiniteSetsExt, Functions

CONSTANT MaxNodes   \* bound: the largest n

ASSUME SumOfDistancesAssumption == MaxNodes \in Nat

VARIABLES
    nodes,         \* the argument n
    edges,         \* the argument edges, a set of pairs {u, v}
    subtreeSize,   \* subtreeSize[u] once the first traversal is over
    ans            \* the entries of the result that are computed

treeVars == <<nodes, edges, subtreeSize, ans>>

Nodes == 0 .. nodes - 1

\* S and the nodes one edge away from it.
Grown(S, es) == S \cup UNION {e \in es : e \cap S # {}}

\* Ball(u, es)[d]: the nodes that d edges reach from u.
Ball(u, es) == LET B[d \in Nat] == IF d = 0 THEN {u} ELSE Grown(B[d - 1], es) IN B

\* All trees on n labelled nodes.
Trees(n) ==
    {es \in kSubset(n - 1, kSubset(2, 0 .. n - 1)) : Ball(0, es)[n] = 0 .. n - 1}

TreeInit ==
    /\ nodes \in 1 .. MaxNodes
    /\ edges \in Trees(nodes)
    /\ subtreeSize = <<>>
    /\ ans = <<>>

adj(u) == {v \in Nodes : {u, v} \in edges /\ u # v}

Child(c) == {<<v, c[1]>> : v \in adj(c[1]) \ {c[2]}}

\* Level[d]: the calls a traversal makes from node 0, d calls deep.
Level[d \in Nat] == IF d = 0 THEN {<<0, -1>>} ELSE UNION {Child(c) : c \in Level[d - 1]}

Calls == UNION {Level[d] : d \in 0 .. nodes}

\* What a call adds up: subtreeSize[node], and the sum that it returns.
size[c \in Calls] == 1 + SumFunction([b \in Child(c) |-> size[b]])

sumOfChildDist[c \in Calls] ==
    SumFunction([b \in Child(c) |-> sumOfChildDist[b] + size[b]])

\* dfsCountAndSum(0, -1)
dfsCountAndSum ==
    /\ ans = <<>>
    /\ subtreeSize' = [u \in Nodes |-> size[CHOOSE c \in Calls : c[1] = u]]
    /\ ans' = [u \in {0} |-> sumOfChildDist[<<0, -1>>]]
    /\ UNCHANGED <<nodes, edges>>

\* A slip: the nodes of the subtree come nearer, and nothing gets farther.
RerootedNearer(u, parent) == ans[parent] - subtreeSize[u]

\* The root moves from the parent to u.
Rerooted(u, parent) == ans[parent] + (nodes - subtreeSize[u]) - subtreeSize[u]

\* dfsReroot(u, parent) for u other than 0, after the parent's turn.
dfsReroot(u, parent) ==
    /\ <<u, parent>> \in Calls
    /\ parent \in DOMAIN ans
    /\ u \notin DOMAIN ans
    /\ ans' = [v \in DOMAIN ans \cup {u} |-> IF v = u THEN Rerooted(u, parent) ELSE ans[v]]
    /\ UNCHANGED <<nodes, edges, subtreeSize>>

TreeNext ==
    \/ dfsCountAndSum
    \/ \E u, parent \in Nodes : dfsReroot(u, parent)

TreeSpec == TreeInit /\ [][TreeNext]_treeVars

--------------------------------------------------------------------------------

\* The least number of edges from u to v.
Distance(u, v) == Min({d \in 0 .. nodes : v \in Ball(u, edges)[d]})

\* Every entry is the sum of the node's distances in the tree, as soon as it is
\* written, although only node 0's is ever added up along the edges.
AnswersAreDistances ==
    \A u \in DOMAIN ans : ans[u] = SumFunction([v \in Nodes |-> Distance(u, v)])

================================================================================
