----------------------------- MODULE MerkleBatch -----------------------------
(* Batch timestamps (canon utils/tsa/merkle.py and batch.py): the hashes of a
   batch are the leaves of a Merkle tree, the timestamp authority stamps its root,
   and a proof of inclusion lets one hash be checked against that root.

   A hash of two hashes is the pair of them, and so never collides; a hash handed
   in is a one-element tuple, and so none of those pairs.                      *)
EXTENDS Integers, Sequences, FiniteSets, SequencesExt

CONSTANTS LeafHashes, MaxLeaves

VARIABLES leaves

merkleVars == <<leaves>>

MerkleInit == leaves = <<>>

AddLeaf(h) == Len(leaves) < MaxLeaves /\ leaves' = Append(leaves, h)

MerkleNext == \E h \in LeafHashes : AddLeaf(h)

_hash_pair(left, right) == <<left, right>>

NextLevel_DropsOdd(level) ==
    [i \in 1..(Len(level) \div 2) |-> _hash_pair(level[2 * i - 1], level[2 * i])]

\* One level up: neighbours are paired and an odd one out is paired with itself.
NextLevel(level) ==
    [i \in 1..((Len(level) + 1) \div 2) |->
        _hash_pair(level[2 * i - 1], IF 2 * i <= Len(level) THEN level[2 * i] ELSE level[2 * i - 1])]

\* _build_tree: the levels, the leaves first.
RECURSIVE _build_tree(_)
_build_tree(level) ==
    IF Len(level) = 1 THEN <<level>> ELSE <<level>> \o _build_tree(NextLevel(level))

root(batch) == Last(_build_tree(batch))[1]

\* _leaf_indices: of a repeated hash the last position is kept (counting from 0).
LeafIndex(batch, h) == Max({i \in 1..Len(batch) : batch[i] = h}) - 1

\* The siblings on the way up; the last of an odd level is its own sibling.
RECURSIVE ProofPath(_, _)
ProofPath(levels, index) ==
    IF Len(levels) = 1 THEN <<>>
    ELSE LET layer == Head(levels)
             sibling == IF index % 2 = 1 THEN index - 1
                        ELSE IF index + 1 < Len(layer) THEN index + 1 ELSE Len(layer) - 1
         IN  <<[hash |-> layer[sibling + 1], left |-> index % 2 = 1]>>
                \o ProofPath(Tail(levels), index \div 2)

get_proof(batch, h) ==
    [leaf |-> h, root |-> root(batch), path |-> ProofPath(_build_tree(batch), LeafIndex(batch, h))]

\* verify_proof: the leaf is hashed with the siblings, and must reach the root.
verify_proof(proof) ==
    FoldLeft(LAMBDA current, step : IF step.left THEN _hash_pair(step.hash, current)
                                    ELSE _hash_pair(current, step.hash),
             proof.leaf, proof.path) = proof.root

\* timestamp_batch: the stamped root and one proof for every hash.
timestamp_batch(batch) == [root |-> root(batch), proofs |-> [h \in ToSet(batch) |-> get_proof(batch, h)]]

\* BatchTimestampService.verify_inclusion.
verify_inclusion(h, proof, expected) == proof.leaf = h /\ proof.root = expected /\ verify_proof(proof)

-----------------------------------------------------------------------------
(* Every hash of a batch has a proof that verifies against the stamped root - with
   any number of hashes, odd levels and repeated hashes - and no hash that is not
   in the batch is verified by any proof the batch gave out.                   *)
ProofsExact ==
    leaves # <<>> =>
        LET stamp == timestamp_batch(leaves) IN
        \A h \in LeafHashes, p \in ToSet(leaves) :
            verify_inclusion(h, stamp.proofs[p], stamp.root) <=> h = p

(* A stamped root says which hashes were stamped: taking the last hash out, or
   putting another in its place, gives another root unless the same hashes
   remain.                                                                     *)
RootDeterminesBatch ==
    Len(leaves) > 1 =>
        \A h \in LeafHashes :
            LET shorter == Front(leaves)
                other == Append(shorter, h)
            IN  /\ root(shorter) = root(leaves) => ToSet(shorter) = ToSet(leaves)
                /\ root(other) = root(leaves) => h = Last(leaves)
=============================================================================
