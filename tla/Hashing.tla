------------------------------ MODULE Hashing ------------------------------
(***************************************************************************)
(* The Merkle root of a block's txids and the proof-of-work test.          *)
(*                                                                         *)
(* BLAKE2b is ideal: the hash of two hashes is the pair of them.  A txid   *)
(* is a one-element sequence, so no txid is the hash of a pair.            *)
(***************************************************************************)
EXTENDS Sums

CONSTANTS
  HashSize,   \* bytes of a hash: 32, scaled down
  MaxByte,    \* 0xff, scaled down
  difficulty  \* difficulty_: leading bytes of a hash that must be zero

ASSUME HashingAssumption ==
  HashSize \in Nat /\ MaxByte \in Nat \ {0} /\ difficulty \in 0..HashSize

-----------------------------------------------------------------------------
(* Merkle root *)

combine_hash(a, b) == <<a, b>>
ZeroHash == <<>>

\* Mutant: an odd last hash is dropped.
PaddedDropsLast(cur) ==
  IF Len(cur) % 2 = 1 THEN SubSeq(cur, 1, Len(cur) - 1) ELSE cur
\* An odd level is completed with its own last hash.
Padded(cur) == IF Len(cur) % 2 = 1 THEN Append(cur, cur[Len(cur)]) ELSE cur

\* Mutant: the first hash of each pair is taken twice.
NextLevelLeft(cur) ==
  LET p == Padded(cur)
  IN  [i \in 1..(Len(p) \div 2) |-> combine_hash(p[2*i - 1], p[2*i - 1])]
\* One round of the loop.
NextLevel(cur) ==
  LET p == Padded(cur)
  IN  [i \in 1..(Len(p) \div 2) |-> combine_hash(p[2*i - 1], p[2*i])]

\* compute_merkle_root: rounds until one hash is left.
compute_merkle_root(leaves) ==
  LET level[k \in 0..Len(leaves)] ==
        IF k = 0 THEN leaves
        ELSE LET cur == level[k - 1]
             IN  IF Len(cur) <= 1 THEN cur ELSE NextLevel(cur)
  IN  IF leaves = <<>> THEN ZeroHash ELSE level[Len(leaves)][1]

-----------------------------------------------------------------------------
(* Proof of work *)

build_target == [i \in 1..HashSize |-> IF i <= difficulty THEN 0 ELSE MaxByte]

\* operator> of std::array<uint8_t, 32>.
Greater(a, b) ==
  \E i \in 1..HashSize :
    a[i] > b[i] /\ \A j \in 1..(i - 1) : a[j] = b[j]

\* Mutant: only the first byte is compared.
FirstByteTooHigh(h) == h[1] > build_target[1]
\* on_create_block: blk.hash() > chain_.target() refuses the block.
HashTooHigh(h) == Greater(h, build_target)

-----------------------------------------------------------------------------
(* Reference definitions *)

\* The tree from the top: node i (from 0) of level k over n leaves is the hash
\* of its two children, or of its only child with itself.  The last node of a
\* level is the one above the last leaf.
Width(n, k) == Quotient(n - 1, 2, k) + 1
Second(n, k, i) == IF 2*i + 1 < Width(n, k) THEN 2*i + 1 ELSE 2*i
Tree(leaves) ==
  LET n == Len(leaves)
      node[k \in 0..n] ==
        [i \in Nat |-> IF k = 0 THEN leaves[i + 1]
                       ELSE combine_hash(node[k - 1][2*i],
                                         node[k - 1][Second(n, k - 1, i)])]
      top == CHOOSE k \in 0..n : Width(n, k) = 1
                                 /\ \A j \in 0..(k - 1) : Width(n, j) > 1
  IN  IF n = 0 THEN ZeroHash ELSE node[top][0]

LeadingZeros(h) == \A i \in 1..difficulty : h[i] = 0
=============================================================================
