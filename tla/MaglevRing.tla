----------------------------- MODULE MaglevRing -----------------------------
(***************************************************************************)
(* What a Maglev ring is, as a definition: the endpoints take turns, and   *)
(* at its turn an endpoint takes the first position of its permutation     *)
(* that is still free.  In the first round an endpoint has as many turns   *)
(* as its weight, afterwards one.                                          *)
(*                                                                         *)
(* An endpoint is [num, weight, offset, skip]; its permutation of the ring *)
(* is offset, offset + skip, offset + 2 * skip, ... modulo the ring size.  *)
(***************************************************************************)
EXTENDS Integers, Sequences, FiniteSetsExt, SequencesExt

TotalWeight(eps) == FoldLeft(LAMBDA sum, e : sum + e.weight, 0, eps)

\* The index of the endpoint whose turn is the k-th, k >= 1.
Turn(eps, k) ==
  LET total == TotalWeight(eps)
      upTo(i) == TotalWeight(SubSeq(eps, 1, i))
  IN IF k <= total
     THEN Min({i \in DOMAIN eps : k <= upTo(i)})
     ELSE ((k - total - 1) % Len(eps)) + 1

\* The first free position of endpoint e's permutation.
FirstFree(e, ring, size) ==
  LET perm(j) == (e.offset + j * e.skip) % size
  IN perm(Min({j \in 0..(size - 1) : ring[perm(j)] = -1}))

Ring(eps, size) ==
  LET filled[k \in 0..size] ==
        IF k = 0 THEN [p \in 0..(size - 1) |-> -1]
        ELSE LET prev == filled[k - 1]
                 e    == eps[Turn(eps, k)]
             IN [prev EXCEPT ![FirstFree(e, prev, size)] = e.num]
  IN filled[size]

=============================================================================
