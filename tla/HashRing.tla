------------------------------ MODULE HashRing ------------------------------
(***************************************************************************)
(* The consistent hash (util/consistentHash): a ring of the hashed         *)
(* replicas of the nodes, of which a key gets the one at or below its own  *)
(* hash.  A ring is the record of the fields of the object.  Hashes are    *)
(* numbers, as the hex digests are compared only.                          *)
(***************************************************************************)
EXTENDS Integers, Sequences, FiniteSets, Functions, SequencesExt, Lists

CONSTANTS
  NoNode,    \* what getNode returns of an empty ring (0)
  Replicas,  \* opts.replicas
  HashOf     \* HashOf[<<n, i>>]: the hash of replica i of node n

-----------------------------------------------------------------------------

ReplicaKeys(node) == [i \in 1 .. Replicas |-> HashOf[<<node, i - 1>>]]

EmptyRing == [nodes |-> <<>>, keys |-> <<>>, ring |-> <<>>]

\* addNode: of a node that is there already the keys are there twice, the
\* entries of the ring once.
AddNode(r, node) ==
  LET keys == ReplicaKeys(node) IN
    [nodes |-> Append(r.nodes, node),
     keys  |-> Sorted(r.keys \o keys),
     ring  |-> [k \in DOMAIN r.ring \union Range(keys) |->
                  IF k \in Range(keys) THEN node ELSE r.ring[k]]]

\* ConsistentHash
NewRing(nodes) == FoldLeft(AddNode, EmptyRing, nodes)

RemoveNodeButLast(r, node) ==  \* mutant: the loop ends before the last replica
  LET keys == Range(Front(ReplicaKeys(node))) IN
    [nodes |-> Without(r.nodes, {node}),
     keys  |-> Without(r.keys, keys),
     ring  |-> Restrict(r.ring, DOMAIN r.ring \ keys)]

RemoveNodeKeepsKeys(r, node) ==  \* mutant: the keys are not spliced
  [nodes |-> Without(r.nodes, {node}),
   keys  |-> r.keys,
   ring  |-> Restrict(r.ring, DOMAIN r.ring \ Range(ReplicaKeys(node)))]

\* removeNode
RemoveNode(r, node) ==
  LET keys == Range(ReplicaKeys(node)) IN
    [nodes |-> Without(r.nodes, {node}),
     keys  |-> Without(r.keys, keys),
     ring  |-> Restrict(r.ring, DOMAIN r.ring \ keys)]

\* getKeysLength(this.ring), which is less than the number of keys once a node
\* was added twice.
KeysLength(r) == Cardinality(DOMAIN r.ring)

\* The binary search of getNodePosition, over positions that start at 0: the
\* position it returns, or where upper is left.
Search(r, hash) ==
  LET last == KeysLength(r) - 1
      search[range \in (0 .. last + 1) \X (-1 .. last)] ==
        LET lower == range[1] upper == range[2] idx == (lower + upper) \div 2 IN
          IF lower > upper THEN upper
          ELSE IF r.keys[idx + 1] = hash THEN idx
          ELSE IF r.keys[idx + 1] > hash THEN search[<<lower, idx - 1>>]
          ELSE search[<<idx + 1, upper>>]
  IN  search[<<0, last>>]

NodePositionNoWrap(r, hash) ==  \* mutant: a hash below all keys takes the first
  IF Search(r, hash) < 0 THEN 0 ELSE Search(r, hash)

\* getNodePosition
NodePosition(r, hash) ==
  IF KeysLength(r) = 1 THEN 0
  ELSE IF Search(r, hash) < 0 THEN KeysLength(r) - 1
  ELSE Search(r, hash)

\* getNode
GetNode(r, hash) ==
  IF KeysLength(r) = 0 THEN NoNode
  ELSE r.ring[r.keys[NodePosition(r, hash) + 1]]

-----------------------------------------------------------------------------
(* The reference: the node of the greatest key that is not above the hash, *)
(* or of the greatest key of all.                                          *)

Owner(nodes, hash) ==
  LET replicas == Range(nodes) \X (0 .. Replicas - 1)
      below == {x \in replicas : HashOf[x] <= hash}
      from == IF below = {} THEN replicas ELSE below
      top == Max({HashOf[x] : x \in from})
  IN  IF from = {} THEN NoNode
      ELSE (CHOOSE x \in from : HashOf[x] = top)[1]
=============================================================================
