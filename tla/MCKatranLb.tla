----------------------------- MODULE MCKatranLb -----------------------------
(***************************************************************************)
(* Small instances of KatranLb.  Addresses are 1, 2, ..., which is also    *)
(* the order of their hashes; 0 is "no address".  The rings are the ones   *)
(* GenerateMaglevHash computes.                                            *)
(***************************************************************************)
EXTENDS KatranLb, MaglevRing

CONSTANTS
  v1, v2, s1, s2, bad,  \* model values: VIPs, source prefixes, not a prefix
  AddrCount             \* number of addresses

MCAddrs == 1..AddrCount

MCVipDefOf(v) == v

\* Each endpoint has the permutation that its address determines.
MCGenerateMaglevHash(w, h) ==
  LET before(m, n) == h[m] < h[n] \/ (h[m] = h[n] /\ m < n)
      nums == SetToSortSeq({n \in Nums : w[n] # 0}, before)
  IN Ring([k \in DOMAIN nums |->
             [num |-> nums[k], weight |-> w[nums[k]],
              offset |-> h[nums[k]] % chRingSize,
              skip |-> (h[nums[k]] % (chRingSize - 1)) + 1]],
          chRingSize)

real(a, w) == [address |-> a, weight |-> w]

\* Single reals, and pairs that mix new, known, invalid and weightless ones.
SingleReals == {<<real(a, 1)>> : a \in MCAddrs} \cup {<<real(1, 0)>>}

MixedPairs ==
  {<<real(1, 1), real(2, 1)>>, <<real(2, 1), real(AddrCount, 0)>>,
   <<real(NoAddr, 1), real(1, 0)>>}

MCRealBatches == SingleReals \cup MixedPairs

\* Every address has an id of its own.
quic(a, id) == [address |-> a, id |-> id]

MCQuicBatches ==
  {<<quic(a, a)>> : a \in MCAddrs} \cup {<<quic(NoAddr, 1), quic(1, 1)>>, <<quic(1, 1), quic(2, 2)>>}

MCSrcBatches == {<<s1>>, <<s2>>, <<s1, s2>>, <<s1, s1>>, <<bad, s1>>, <<s2, bad>>}

VipSymmetry == Permutations({v1, v2})

=============================================================================
