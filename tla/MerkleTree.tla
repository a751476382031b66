----------------------------- MODULE MerkleTree -----------------------------
(***************************************************************************)
(* The immutable Merkle tree of starkware_utils/commitment_tree/merkle_tree *)
(* over its append-only fact store: empty_tree, update (a calculation tree *)
(* planned from the old tree and evaluated bottom-up), get_children,       *)
(* get_node and dump_tree_diff.                                            *)
(*                                                                         *)
(* A hash is a term: LeafHash(v) for a leaf fact, NodeHash(l, r) for the   *)
(* MerkleNodeFact (l, r).  Terms are equal only when their preimages are,  *)
(* which is the collision resistance the code relies on.  A node fact is   *)
(* stored under its hash, so the store is the set of hashes written: a     *)
(* node hash in `facts` can be read back as its two children.              *)
(***************************************************************************)
EXTENDS Integers, FiniteSets, Sequences

CONSTANTS
  Height,      \* height of the trees (vault 31, order 251 in the code)
  LeafValues,  \* leaf facts
  EmptyLeaf,   \* leaf_fact.empty()
  MaxMods,     \* most modifications of one update
  MaxTrees,    \* bound on the number of trees returned
  MaxFailures  \* bound on the number of calls that raise midway

ASSUME Height \in Nat /\ EmptyLeaf \in LeafValues

VARIABLES
  facts,  \* the hashes whose facts are written to the store
  trees,  \* history: every tree returned, with the leaves it should hold
  failures \* number of calls that raised so far

vars == <<facts, trees, failures>>

Idx == 0 .. 2^Height - 1

-----------------------------------------------------------------------------
(* Hashing *)

\* LeafFact._hash.  OrderState._hash is to_bytes(fulfilled_amount), not a
\* hash, but amounts are below 2^63 and so never equal a Pedersen output.
LeafHash(v) == <<v>>

\* MerkleNodeFact._hash: hash_func(left_node, right_node).
NodeHash(l, r) == <<l, r>>

\* Every hash of a subtree of height h.
RECURSIVE HashesOfHeight(_)
HashesOfHeight(h) ==
  IF h = 0 THEN {LeafHash(v) : v \in LeafValues}
  ELSE {NodeHash(l, r) : l, r \in HashesOfHeight(h - 1)}

Node(root, height) == [root |-> root, height |-> height]

-----------------------------------------------------------------------------
(* Reading the tree *)

\* get_children: read_node_fact fails unless the node fact is stored.
Readable(node) == node.root \in facts

GetChildren(node) ==
  <<Node(node.root[1], node.height - 1), Node(node.root[2], node.height - 1)>>

\* get_node: descend along the bits of index after its leading 1; Failed
\* when a node fact on the way is missing.
Failed == Node(<<>>, -1)

RECURSIVE GetNode(_, _)

\* Mutant: get_node enforces get_children's precondition height > 0.
GetNodeHeightGuarded(node, index) ==
  IF index = 1 THEN node
  ELSE LET parent == GetNode(node, index \div 2)
       IN IF parent = Failed \/ parent.height <= 0 \/ ~Readable(parent) THEN Failed
          ELSE GetChildren(parent)[(index % 2) + 1]

GetNode(node, index) ==
  IF index = 1 THEN node
  ELSE LET parent == GetNode(node, index \div 2)
       IN IF parent = Failed \/ ~Readable(parent) THEN Failed
          ELSE GetChildren(parent)[(index % 2) + 1]

\* The leaf fact a leaf node points to (get_or_fail(suffix=node.root)).
LeafOf(node) == node.root[1]

-----------------------------------------------------------------------------
(* Empty trees *)

\* empty_tree_roots: E[0] is the empty leaf's hash, E[h] = hash(E[h-1], E[h-1]);
\* E[h] is element h + 1 of the sequence.
RECURSIVE empty_tree_roots(_, _)
empty_tree_roots(max_height, leaf) ==
  IF max_height = 0 THEN <<LeafHash(leaf)>>
  ELSE LET roots == empty_tree_roots(max_height - 1, leaf)
       IN Append(roots, NodeHash(roots[max_height], roots[max_height]))

\* The facts empty_tree writes: the leaf fact, then one node per layer.
EmptyTreeFacts(height, leaf) ==
  {empty_tree_roots(height, leaf)[i] : i \in 1 .. height + 1}

-----------------------------------------------------------------------------
(* Calculation nodes *)

ConstantCalculation(value) == [kind |-> "constant", value |-> value]
LeafFactCalculation(fact) == [kind |-> "leaf", fact |-> fact]
BinaryCalculation(left, right) == [kind |-> "binary", left |-> left, right |-> right]

\* Mutant: combine keeps the children's height.
combineSameHeight(left, right) ==
  [root_calculation |-> BinaryCalculation(left.root_calculation, right.root_calculation),
   height |-> left.height]

\* MerkleCalculationNode.create_from_node / create_from_fact / combine.
create_from_node(node) == [root_calculation |-> ConstantCalculation(node.root), height |-> node.height]
create_from_fact(fact) == [root_calculation |-> LeafFactCalculation(fact), height |-> 0]
combine(left, right) ==
  [root_calculation |-> BinaryCalculation(left.root_calculation, right.root_calculation),
   height |-> left.height + 1]

\* Evaluation: the hash a calculation produces ...
RECURSIVE CalcHash(_)
CalcHash(c) ==
  CASE c.kind = "constant" -> c.value
    [] c.kind = "leaf"     -> LeafHash(c.fact)
    [] c.kind = "binary"   -> NodeHash(CalcHash(c.left), CalcHash(c.right))

RECURSIVE CalcFacts(_)

\* Mutant: the new leaf facts are not written, only the node facts.
CalcFactsNoLeaves(c) ==
  CASE c.kind = "constant" -> {}
    [] c.kind = "leaf"     -> {}
    [] c.kind = "binary"   -> {CalcHash(c)} \cup CalcFacts(c.left) \cup CalcFacts(c.right)

\* ... and the facts it writes: each leaf fact and each new node fact.
\* (The leaf and constant cases are LeafFactCalculation and ConstantCalculation
\* of commitment_tree/calculation.py, which the repository does not include.)
CalcFacts(c) ==
  CASE c.kind = "constant" -> {}
    [] c.kind = "leaf"     -> {LeafHash(c.fact)}
    [] c.kind = "binary"   -> {CalcHash(c)} \cup CalcFacts(c.left) \cup CalcFacts(c.right)

RECURSIVE Plan(_, _, _)

\* Mutant: the right child's first leaf is offset by the parent's width.
PlanRightOffset(node, first, mods) ==
  IF \A i \in DOMAIN mods : i < first \/ i >= first + 2^node.height
    THEN create_from_node(node)
  ELSE IF node.height = 0
    THEN create_from_fact(mods[first])
  ELSE LET ch == GetChildren(node)
       IN combine(Plan(ch[1], first, mods), Plan(ch[2], first + 2^node.height, mods))

\* update_tree's plan: a subtree without modifications is carried forward as
\* a constant; a modified leaf becomes its new fact; any other node is the
\* combination of its children's plans.  first is the subtree's first leaf.
Plan(node, first, mods) ==
  IF \A i \in DOMAIN mods : i < first \/ i >= first + 2^node.height
    THEN create_from_node(node)
  ELSE IF node.height = 0
    THEN create_from_fact(mods[first])
  ELSE LET ch == GetChildren(node)
       IN combine(Plan(ch[1], first, mods), Plan(ch[2], first + 2^(node.height - 1), mods))

\* Every subtree the plan descends into must be readable.
RECURSIVE PlanReadable(_, _, _)
PlanReadable(node, first, mods) ==
  IF (\A i \in DOMAIN mods : i < first \/ i >= first + 2^node.height) \/ node.height = 0
    THEN TRUE
  ELSE /\ Readable(node)
       /\ PlanReadable(GetChildren(node)[1], first, mods)
       /\ PlanReadable(GetChildren(node)[2], first + 2^(node.height - 1), mods)

-----------------------------------------------------------------------------
(* dump_tree_diff *)

RECURSIVE DumpFrom(_, _, _)

\* Mutant: a leaf is written before the empty-tree check.
DumpFromLeafFirst(index, node, empty_trees) ==
  IF node.height = 0
    THEN [nodes |-> {<<index, node.root>>}, leaves |-> {<<index - 2^Height, LeafOf(node)>>}]
  ELSE IF node.root \in empty_trees
    THEN [nodes |-> {<<index, node.root>>}, leaves |-> {}]
  ELSE LET ch == GetChildren(node)
           l == DumpFrom(2 * index, ch[1], empty_trees)
           r == DumpFrom(2 * index + 1, ch[2], empty_trees)
       IN [nodes |-> {<<index, node.root>>} \cup l.nodes \cup r.nodes,
           leaves |-> l.leaves \cup r.leaves]

\* process_node from index: every node visited is written to the nodes file;
\* a node whose root is an empty-tree root is not descended into, a leaf is
\* written to the leaves file as (index - 2^tree.height, leaf).
DumpFrom(index, node, empty_trees) ==
  IF node.root \in empty_trees
    THEN [nodes |-> {<<index, node.root>>}, leaves |-> {}]
  ELSE IF node.height = 0
    THEN [nodes |-> {<<index, node.root>>}, leaves |-> {<<index - 2^Height, LeafOf(node)>>}]
  ELSE LET ch == GetChildren(node)
           l == DumpFrom(2 * index, ch[1], empty_trees)
           r == DumpFrom(2 * index + 1, ch[2], empty_trees)
       IN [nodes |-> {<<index, node.root>>} \cup l.nodes \cup r.nodes,
           leaves |-> l.leaves \cup r.leaves]

dump_tree_diff(tree, node_idx, default_leaf) ==
  LET roots == empty_tree_roots(tree.height, default_leaf)
  IN DumpFrom(node_idx, GetNode(tree, node_idx), {roots[i] : i \in 1 .. tree.height + 1})

\* dump_trees vaults: dump_vaults_tree from the root (index 1) into a nodes
\* file and a vaults file, with VaultState.empty() as the empty leaf.
dump_vaults_tree(tree) == dump_tree_diff(tree, 1, EmptyLeaf)

\* dump_trees orders --order_node_idx: dump_orders_tree from the given node
\* with no nodes file (nodes_file None), OrderState.empty() as the empty leaf.
dump_orders_tree(tree, node_idx) ==
  [nodes |-> {}, leaves |-> dump_tree_diff(tree, node_idx, EmptyLeaf).leaves]

\* MainHandler.dump_info: order_subtree_roots, the roots of the 2^d order
\* subtrees at depth d, read with get_node from order_tree(0), a tree whose
\* height field is 0 whatever the order tree's height.
order_subtree_roots(root, d) ==
  [i \in 2^d .. 2^(d + 1) - 1 |-> GetNode(Node(root, 0), i).root]

-----------------------------------------------------------------------------
(* Reference definitions, from the leaves alone *)

\* The root of the subtree of height h whose first leaf is first.
RECURSIVE RefRoot(_, _, _)
RefRoot(content, h, first) ==
  IF h = 0 THEN LeafHash(content[first])
  ELSE NodeHash(RefRoot(content, h - 1, first), RefRoot(content, h - 1, first + 2^(h - 1)))

\* Depth, height and leaves of the node at array index `index`.
RECURSIVE Depth(_)
Depth(index) == IF index = 1 THEN 0 ELSE 1 + Depth(index \div 2)
LeavesUnder(index) ==
  LET h == Height - Depth(index)
      first == (index - 2^Depth(index)) * 2^h
  IN first .. first + 2^h - 1

\* What a dump from index should write: the subtree's root, and below it
\* only subtrees holding a non-empty leaf; the leaves file holds exactly the
\* non-empty leaves.
RECURSIVE RefDump(_, _)
RefDump(content, index) ==
  LET first == (index - 2^Depth(index)) * 2^(Height - Depth(index))
      here == <<index, RefRoot(content, Height - Depth(index), first)>>
  IN IF \A i \in LeavesUnder(index) : content[i] = EmptyLeaf
       THEN [nodes |-> {here}, leaves |-> {}]
     ELSE IF Depth(index) = Height
       THEN [nodes |-> {here}, leaves |-> {<<i, content[i]>> : i \in LeavesUnder(index)}]
     ELSE LET l == RefDump(content, 2 * index)
              r == RefDump(content, 2 * index + 1)
          IN [nodes |-> {here} \cup l.nodes \cup r.nodes, leaves |-> l.leaves \cup r.leaves]

-----------------------------------------------------------------------------
(* The store and the trees returned *)

Mods == UNION {[D -> LeafValues] : D \in {D \in SUBSET Idx : Cardinality(D) <= MaxMods}}

Init ==
  /\ facts = {}
  /\ trees = {}
  /\ failures = 0

\* empty_tree(Height, EmptyLeaf): writes the leaf fact and one node per layer.
EmptyTree ==
  /\ Cardinality(trees) < MaxTrees
  /\ facts' = facts \cup EmptyTreeFacts(Height, EmptyLeaf)
  /\ trees' = trees \cup {[tree |-> Node(empty_tree_roots(Height, EmptyLeaf)[Height + 1], Height),
                           content |-> [i \in Idx |-> EmptyLeaf]]}
  /\ UNCHANGED failures

\* empty_tree raises after its first k writes.
EmptyTreeFails(k) ==
  /\ failures < MaxFailures
  /\ failures' = failures + 1
  /\ facts' = facts \cup {empty_tree_roots(Height, EmptyLeaf)[i] : i \in 1 .. k}
  /\ UNCHANGED trees

\* The new leaves of t after mods.
Updated(t, mods) == [i \in Idx |-> IF i \in DOMAIN mods THEN mods[i] ELSE t.content[i]]

\* update(tree, mods) of a tree returned earlier: plan, evaluate, write every
\* new fact, return the new root.  The plan reads the old tree's node facts;
\* a missing one raises before anything is written.
Update(t, mods) ==
  /\ Cardinality(trees) < MaxTrees
  /\ PlanReadable(t.tree, 0, mods)
  /\ LET calc == Plan(t.tree, 0, mods)
     IN /\ facts' = facts \cup CalcFacts(calc.root_calculation)
        /\ trees' = trees \cup {[tree |-> Node(CalcHash(calc.root_calculation), calc.height),
                                 content |-> Updated(t, mods)]}
  /\ UNCHANGED failures

\* update raises after writing some of its new facts: no root is returned.
UpdateFails(t, mods) ==
  /\ failures < MaxFailures
  /\ PlanReadable(t.tree, 0, mods)
  /\ \E written \in SUBSET (CalcFacts(Plan(t.tree, 0, mods).root_calculation) \ facts) :
       facts' = facts \cup written
  /\ failures' = failures + 1
  /\ UNCHANGED trees

Next ==
  \/ EmptyTree
  \/ \E k \in 0 .. Height : EmptyTreeFails(k)
  \/ \E t \in trees, mods \in Mods : Update(t, mods)
  \/ \E t \in trees, mods \in Mods : UpdateFails(t, mods)

Spec == Init /\ [][Next]_vars

-----------------------------------------------------------------------------
(* Properties *)

TypeOK ==
  /\ facts \subseteq UNION {HashesOfHeight(h) : h \in 0 .. Height}
  /\ trees \subseteq [tree : [root : HashesOfHeight(Height), height : {Height}],
                      content : [Idx -> LeafValues]]
  /\ failures \in 0 .. MaxFailures

\* Update is a function of the leaves (spec 8, update-is-a-function, no-op
\* update, structural sharing): the root update returns after any chain of
\* updates, each planned from the stored old tree, is the root computed
\* from scratch from the leaves the tree should hold.
UpdateMatchesReference ==
  \A t \in trees : t.tree.root = RefRoot(t.content, Height, 0)

\* The fact store keeps every tree navigable: after any interleaving of
\* updates, failed updates and empty_tree calls, get_node reaches every leaf
\* of every tree ever returned and the leaf fact it points to is stored.
HistoricTreesReadable ==
  \A t \in trees, i \in Idx :
    LET leaf == GetNode(t.tree, 2^Height + i)
    IN leaf # Failed /\ leaf.root \in facts /\ LeafOf(leaf) = t.content[i]

\* dump_info's comment "0 is not the height of the tree, but it has no
\* effect": the order_subtree_roots it records from order_tree(0), for any
\* order_node_depth, are the roots of the subtrees the order dump tasks of
\* dump_state start from.
DumpInfoRootsExact ==
  \A t \in trees, d \in 0 .. Height :
    order_subtree_roots(t.tree.root, d) =
      [i \in 2^d .. 2^(d + 1) - 1 |-> RefRoot(t.content, Height - d, (i - 2^d) * 2^(Height - d))]

\* dump_tree_diff, as dump_trees vaults runs it from the root and dump_trees
\* orders from any node index (the dump tasks of dump_state use 2^d ..
\* 2^(d+1) - 1), writes exactly the non-empty leaves under that node, with
\* their ids, and (vaults) exactly the nodes not below an empty subtree.
DumpExact ==
  \A t \in trees :
    /\ dump_vaults_tree(t.tree) = RefDump(t.content, 1)
    /\ \A index \in 1 .. 2^(Height + 1) - 1 :
         dump_orders_tree(t.tree, index) = [nodes |-> {}, leaves |-> RefDump(t.content, index).leaves]

=============================================================================
