---------------------------- MODULE MerkleBlocks ----------------------------
(***************************************************************************)
(* push_payouts proves a block of leaves with one shared proof (merkle.rs  *)
(* verify_block) against a tree the keeper built (lib/merkle.ts).          *)
(*                                                                         *)
(* Pairs are hashed in sorted order and an odd node is carried up, so a    *)
(* proof says nothing of sides and its length depends on the block's       *)
(* place: the verdict rests on the leaf binding its own index and on both  *)
(* languages agreeing where the padded right edge is.                      *)
(*                                                                         *)
(* SHA-256 is ideal: a hash is the term it was computed from, and sorting  *)
(* a pair makes it the set of its two nodes.  A leaf is its index and      *)
(* whether recipient and amount are the committed ones.  The proof is      *)
(* unrolled as the loop asks for siblings, so every proof is tried.        *)
(***************************************************************************)
EXTENDS Integers, Sequences, SequencesExt

CONSTANTS
    LeafCounts,     \* leaf_count of the trees tried
    Levels          \* levels of the blocks tried

VARIABLES
    leaf_count, first_leaf, level,  \* arguments; the tree is that of leaf_count
    leaves,     \* the claimed block
    proof,      \* the siblings read so far
    node, index, level_size,    \* the loop's variables
    verdict

args == <<leaf_count, first_leaf, level, leaves>>
vars == <<args, proof, node, index, level_size, verdict>>

----------------------------------------------------------------------------
(* Hashes. *)

Leaf(i, committed) == [idx |-> i, committed |-> committed, kids |-> {}]

HashPair(a, b) == [idx |-> -1, committed |-> TRUE, kids |-> {a, b}]

(* One level up; nodes are counted from 1 here and from 0 in the code. *)
Above(nodes) ==
    [i \in 1 .. (Len(nodes) + 1) \div 2 |->
        IF 2 * i <= Len(nodes) THEN HashPair(nodes[2 * i - 1], nodes[2 * i])
                               ELSE nodes[2 * i - 1]]

(* Row k of the tree over some leaves; a row of one is its own row above. *)
Rows(base) == LET row[k \in 0 .. Len(base)] == IF k = 0 THEN base ELSE Above(row[k - 1])
              IN row

block_root(base) == Rows(base)[Len(base)][1]

CommittedLeaves(n) == [i \in 1 .. n |-> Leaf(i - 1, TRUE)]

Trees == [n \in LeafCounts |-> Rows(CommittedLeaves(n))]

Root(n) == Trees[n][n][1]

(* verify: the siblings of a proof hashed onto a leaf one after the other. *)
Folded(siblings, leaf) ==
    LET fold[k \in 0 .. Len(siblings)] == IF k = 0 THEN leaf ELSE HashPair(fold[k - 1], siblings[k])
    IN fold[Len(siblings)]

Verify(siblings, root, leaf) == Folded(siblings, leaf) = root

----------------------------------------------------------------------------
(* The keeper's side: MerkleTree.levels stops at the root, and blockProof. *)

(* 2 ** level. *)
TwoTo(k) == LET double[j \in 0 .. k] == IF j = 0 THEN 1 ELSE 2 * double[j - 1]
            IN double[k]

Depth(n) == CHOOSE d \in 0 .. n : /\ Len(Trees[n][d]) = 1
                                  /\ \A e \in 0 .. d - 1 : Len(Trees[n][e]) > 1

(* idx ^ 1 *)
Sibling(i) == IF i % 2 = 0 THEN i + 1 ELSE i - 1

(* The siblings the block's node meets in j rows, from the row of its level on. *)
Met(n, first, lvl, j) ==
    LET met[k \in 0 .. j] ==
            IF k = 0 THEN << >>
            ELSE LET row == Trees[n][lvl + k - 1]
                     sibling == Sibling(first \div TwoTo(lvl + k - 1))
                 IN IF sibling < Len(row) THEN Append(met[k - 1], row[sibling + 1]) ELSE met[k - 1]
    IN met[j]

BlockProof(n, first, lvl) == Met(n, first, lvl, IF Depth(n) > lvl THEN Depth(n) - lvl ELSE 0)

----------------------------------------------------------------------------
(* Inputs: any block; a leaf of another payee hashes with its claimed index. *)

BlockSize == TwoTo(level)

(* What a proof is made of: nodes of the tree, and one hash from outside it. *)
Hashes == [n \in LeafCounts |-> UNION {ToSet(Trees[n][k]) : k \in 0 .. Depth(n)}
                               \cup {Leaf(0, FALSE)}]

Siblings == Hashes[leaf_count]

Init ==
    /\ leaf_count \in LeafCounts
    /\ level \in Levels
    /\ first_leaf \in 0 .. leaf_count
    /\ \E size \in 0 .. BlockSize + 1 :
         \E truth \in [1 .. size -> BOOLEAN] :
            leaves = [j \in 1 .. size |-> Leaf(first_leaf + j - 1, truth[j])]
    /\ proof = << >>
    /\ node = Leaf(0, FALSE)
    /\ index = 0
    /\ level_size = 0
    /\ verdict = "called"

----------------------------------------------------------------------------
(* verify_block. *)

ProperBlock ==
    /\ level < 32
    /\ leaves # << >>
    /\ first_leaf < leaf_count
    /\ first_leaf % BlockSize = 0
    /\ Len(leaves) = IF BlockSize < leaf_count - first_leaf THEN BlockSize
                                                            ELSE leaf_count - first_leaf

Decide(v) == verdict' = v /\ UNCHANGED <<args, node, index, level_size>>

RefuseBlock ==
    /\ verdict = "called"
    /\ ~ ProperBlock
    /\ Decide("rejected")
    /\ UNCHANGED proof

Enter ==
    /\ verdict = "called"
    /\ ProperBlock
    /\ node' = block_root(leaves)
    /\ index' = first_leaf \div BlockSize
    /\ level_size' = (leaf_count + BlockSize - 1) \div BlockSize
    /\ verdict' = "climbing"
    /\ UNCHANGED <<args, proof>>

(* Faulty variant: a last right child is forgotten. *)
HasSiblingLeft == index + 1 < level_size

HasSibling == index % 2 = 1 \/ index + 1 < level_size

Up ==
    /\ index' = index \div 2
    /\ level_size' = (level_size + 1) \div 2
    /\ UNCHANGED <<args, verdict>>

Climbing == verdict = "climbing" /\ level_size > 1

PairUp ==
    /\ Climbing /\ HasSibling
    /\ \E sibling \in Siblings :
         /\ proof' = Append(proof, sibling)
         /\ node' = HashPair(node, sibling)
    /\ Up

CarryUp ==
    /\ Climbing /\ ~ HasSibling
    /\ Up
    /\ UNCHANGED <<proof, node>>

(* The proof ends too early. *)
RunOut ==
    /\ Climbing /\ HasSibling
    /\ Decide("rejected")
    /\ UNCHANGED proof

AtTop == verdict = "climbing" /\ level_size <= 1

Compare ==
    /\ AtTop
    /\ Decide(IF node = Root(leaf_count) THEN "accepted" ELSE "rejected")
    /\ UNCHANGED proof

(* The proof has siblings left. *)
TooLong ==
    /\ AtTop
    /\ \E sibling \in Siblings : proof' = Append(proof, sibling)
    /\ Decide("rejected")

Next == RefuseBlock \/ Enter \/ PairUp \/ CarryUp \/ RunOut \/ Compare \/ TooLong

Spec == Init /\ [][Next]_vars

----------------------------------------------------------------------------
(* Properties. *)

(* The variables keep their types, and the climb stays inside the tree. *)
TypeOK ==
    /\ leaf_count \in LeafCounts /\ level \in Levels /\ first_leaf \in 0 .. leaf_count
    /\ verdict \in {"called", "climbing", "accepted", "rejected"}
    /\ Len(proof) <= Depth(leaf_count) + 1
    /\ verdict = "climbing" => index < level_size

Honest == \A j \in 1 .. Len(leaves) : leaves[j].committed

(* A block is accepted only if every leaf in it is the committed one, and   *)
(* with no other proof than the keeper's: verify_block cannot be satisfied  *)
(* by a sibling block, a tail of another length or a padded proof.          *)
Sound ==
    verdict = "accepted" =>
        Honest /\ ProperBlock /\ proof = BlockProof(leaf_count, first_leaf, level)

(* A block of the tree with the proof MerkleTree.blockProof gives for it is *)
(* never refused, at the padded edge and above the root included: pushBlock *)
(* has no other proof to offer, and a refusal repeats for ever.             *)
Complete ==
    verdict = "rejected" =>
        ~ (Honest /\ ProperBlock /\ proof = BlockProof(leaf_count, first_leaf, level))

(* For a single leaf push_payouts and self_claim agree on every proof: the  *)
(* position-free `verify` accepts exactly what `verify_block` accepts, so a *)
(* holder can claim what the keeper could have pushed and nothing else.     *)
ClaimAgreesWithPush ==
    (level = 0 /\ ProperBlock /\ verdict \in {"accepted", "rejected"}) =>
        (verdict = "accepted") = Verify(proof, Root(leaf_count), leaves[1])

(* verify_block's verdict is right in both directions, and the same as the  *)
(* one self_claim would give.                                               *)
VerdictIsRight == TypeOK /\ Sound /\ Complete /\ ClaimAgreesWithPush
=============================================================================
