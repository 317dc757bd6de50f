-------------------------------- MODULE Merkle -------------------------------
(***************************************************************************)
(* The Merkle tree of a multichain quote.  Its user signs one root; every  *)
(* intent is sent with the root, the signature and its own proof, which    *)
(* the orchestrator of its chain verifies.  The tree lives in one array,   *)
(* layer after layer, and is computed on the first use that needs it.      *)
(* Hashes are symbolic: a sorted pair is a set, and nothing collides.      *)
(***************************************************************************)
EXTENDS Integers, SequencesExt

CONSTANTS
  Digests      \* possible sequences of the intents' EIP-712 hashes

ASSUME MerkleAssumption ==
  \A ds \in Digests : ds # <<>> /\ ds \in Seq({ds[k] : k \in DOMAIN ds})

VARIABLES
  digests,     \* the intents' hashes, the output intent last
  simulated,   \* [index -> proof] with which the intents were simulated
  signedRoot,  \* the root that the user signed
  tree,        \* LazyMerkleTree of the bundle, or NoTree
  proofs,      \* proofs of the bundle's transactions so far
  panicked     \* a proof was asked of a tree that was not computed

merkleVars == <<digests, simulated, signedRoot, tree, proofs, panicked>>

ZERO == <<"zero">>
RANDOM == <<"random", 0>>
NoTree == [nodes |-> <<>>, count |-> 0, computed |-> FALSE]

\* hash_leaf_pairs sorts its arguments.
HashLeafPairs(left, right) == <<"hash", {left, right}>>

Log2Ceil(x) ==
  LET power[k \in 0..x] == IF k = 0 THEN 1 ELSE 2 * power[k - 1]
  IN  CHOOSE h \in 0..x : power[h] >= x /\ (h = 0 \/ power[h - 1] < x)

\* The sizes of the layers, from the leaves to the root, and where each begins; the
\* code's layer_sizes ends below the root, of which only TotalNodes reads the size.
LayerSizes(n) ==
  LET size[l \in 0..Log2Ceil(n)] == IF l = 0 THEN n ELSE (size[l - 1] + 1) \div 2 IN size
LayerOffsets(n) ==
  LET offset[l \in 0..Log2Ceil(n)] == IF l = 0 THEN 0 ELSE offset[l - 1] + LayerSizes(n)[l - 1] IN offset
TotalNodes(n) == LayerOffsets(n)[Log2Ceil(n)] + LayerSizes(n)[Log2Ceil(n)]

FromLeaves(leaves) ==
  [nodes |-> [k \in 1..TotalNodes(Len(leaves)) |-> IF k <= Len(leaves) THEN leaves[k] ELSE ZERO],
   count |-> Len(leaves), computed |-> FALSE]

\* One layer is hashed into the next; the last of an odd layer is paired with zero.
HashLayer(nodes, n, l) ==
  LET size == LayerSizes(n)[l]
      read == LayerOffsets(n)[l]
  IN  [k \in DOMAIN nodes |->
         LET i == k - 1 - read - size
         IN  IF i \notin 0..((size + 1) \div 2 - 1) THEN nodes[k]
             ELSE HashLeafPairs(nodes[read + 2 * i + 1],
                                IF 2 * i + 1 < size THEN nodes[read + 2 * i + 2] ELSE ZERO)]

EnsureComputed(t) ==
  LET upto[l \in 0..Log2Ceil(t.count)] == IF l = 0 THEN t.nodes ELSE HashLayer(upto[l - 1], t.count, l - 1)
  IN  [nodes |-> IF t.count <= 1 \/ t.computed THEN t.nodes ELSE upto[Log2Ceil(t.count)],
       count |-> t.count, computed |-> TRUE]

\* root() does not touch the tree of a single leaf.
AfterRoot(t) == IF t.count = 1 THEN t ELSE EnsureComputed(t)
Root(t) == LET done == AfterRoot(t) IN IF t.count = 1 THEN t.nodes[1] ELSE done.nodes[Len(done.nodes)]

SiblingIndex(i) == IF i % 2 = 0 THEN i + 1 ELSE i - 1

\* Mutant of Sibling: the first node of the next layer pads an odd layer.
SiblingOver(t, l, i) == t.nodes[LayerOffsets(t.count)[l] + SiblingIndex(i) + 1]

\* The sibling in a layer, zero behind its end.  Indices and layers begin with 0.
Sibling(t, l, i) ==
  IF SiblingIndex(i) < LayerSizes(t.count)[l]
  THEN t.nodes[LayerOffsets(t.count)[l] + SiblingIndex(i) + 1] ELSE ZERO

GenerateProof(t, index) ==
  LET at[l \in 0..Log2Ceil(t.count)] == IF l = 0 THEN index ELSE at[l - 1] \div 2
  IN  [l \in 1..Log2Ceil(t.count) |-> Sibling(t, l - 1, at[l - 1])]

VerifyProof(root, proof, leaf) ==
  LET rolling[k \in 0..Len(proof)] == IF k = 0 THEN leaf ELSE HashLeafPairs(rolling[k - 1], proof[k])
  IN  root = rolling[Len(proof)]

MerkleInit ==
  /\ digests \in Digests
  /\ simulated = <<>> /\ signedRoot = ZERO
  /\ tree = NoTree /\ proofs = <<>> /\ panicked = FALSE

\* with_mock_merkle_signature: the other leaves are one random hash.
WithMockMerkleSignature(index) ==
  LET mock == FromLeaves([k \in DOMAIN digests |-> IF k = index + 1 THEN digests[k] ELSE RANDOM])
  IN  /\ signedRoot = ZERO /\ Len(digests) > 1 /\ index = Len(simulated) /\ index < Len(digests)
      /\ simulated' = Append(simulated, GenerateProof(EnsureComputed(mock), index))
      /\ UNCHANGED <<digests, signedRoot, tree, proofs, panicked>>

\* with_merkle_payload, and the user signs it.
WithMerklePayload ==
  /\ signedRoot = ZERO /\ (Len(simulated) = Len(digests) \/ Len(digests) = 1)
  /\ signedRoot' = Root(FromLeaves(digests))
  /\ UNCHANGED <<digests, simulated, tree, proofs, panicked>>

\* create_interop_bundle computes the root anew and shares its tree.
CreateInteropBundle ==
  /\ signedRoot # ZERO /\ tree = NoTree
  /\ tree' = AfterRoot(FromLeaves(digests))
  /\ UNCHANGED <<digests, simulated, signedRoot, proofs, panicked>>

\* get_proof_immutable, unless the only intent is signed itself.
GetProofImmutable(index) ==
  /\ tree # NoTree /\ index = Len(proofs) /\ index < Len(digests) /\ ~panicked
  /\ IF Len(digests) = 1 THEN proofs' = Append(proofs, <<>>) /\ UNCHANGED panicked
     ELSE IF tree.computed THEN proofs' = Append(proofs, GenerateProof(tree, index)) /\ UNCHANGED panicked
     ELSE panicked' = TRUE /\ UNCHANGED proofs
  /\ UNCHANGED <<digests, simulated, signedRoot, tree>>

MerkleNext ==
  \/ WithMerklePayload \/ CreateInteropBundle
  \/ \E index \in 0..Len(digests) : WithMockMerkleSignature(index) \/ GetProofImmutable(index)

MerkleSpec == MerkleInit /\ [][MerkleNext]_merkleVars

\* Every intent of a bundle is accepted under the root that was signed for all of
\* them, on whatever side of an odd layer it lies, and its proof is good for no other
\* intent; it has the length that the intent was simulated with.  No transaction is
\* built from a tree that was never computed.
ProofsVerify ==
  /\ ~panicked
  /\ tree # NoTree => Root(tree) = signedRoot
  /\ \A k \in DOMAIN proofs :
       /\ \A d \in ToSet(digests) \cup {ZERO, RANDOM} : VerifyProof(signedRoot, proofs[k], d) <=> d = digests[k]
       /\ Len(digests) > 1 => Len(proofs[k]) = Len(simulated[k])

(***************************************************************************)
(* The inductive invariant of ProofsVerify                                 *)
(***************************************************************************)

\* The root that is signed and the tree of the bundle are of the same leaves.
SameTree ==
  /\ signedRoot = ZERO \/ signedRoot = Root(FromLeaves(digests))
  /\ tree = NoTree \/ (tree = AfterRoot(FromLeaves(digests)) /\ signedRoot # ZERO)

\* All intents of a quote are simulated before its root is signed.
SimulatedFirst ==
  /\ simulated \in Seq({simulated[k] : k \in DOMAIN simulated})
  /\ Len(digests) > 1 =>
       /\ \A k \in DOMAIN simulated : Len(simulated[k]) = Log2Ceil(Len(digests))
       /\ signedRoot # ZERO => Len(simulated) = Len(digests)

ProofsOfTree ==
  /\ proofs \in Seq({proofs[k] : k \in DOMAIN proofs}) /\ Len(proofs) <= Len(digests)
  /\ \A k \in DOMAIN proofs :
       tree # NoTree /\ proofs[k] = IF Len(digests) = 1 THEN <<>> ELSE GenerateProof(tree, k - 1)

MerkleIInv ==
  /\ digests \in Digests /\ ~panicked
  /\ SameTree /\ SimulatedFirst /\ ProofsOfTree
==============================================================================
