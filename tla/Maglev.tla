------------------------------- MODULE Maglev -------------------------------
(***************************************************************************)
(* CHHelpers::GenerateMaglevHash (CHHelpers.cpp), step by step and in the  *)
(* arithmetic of the code, where positions are computed in uint32_t.       *)
(*                                                                         *)
(* The default ring has 65537 = 2^16 + 1 positions and a word has 2^32     *)
(* values.  The instance keeps that relation, Word = (ring_size - 1)^2, so *)
(* that products overflow where they do in the code.                       *)
(***************************************************************************)
EXTENDS MaglevRing

CONSTANTS
  ring_size,     \* size of the ring, a prime
  Word,          \* number of values of uint32_t
  MaxEndpoints,  \* bound: endpoints of a call
  MaxWeight      \* bound: weight of an endpoint

ASSUME MaglevAssumption ==
  /\ ring_size \in Nat /\ ring_size > 2
  /\ \A d \in 2..(ring_size - 1) : ring_size % d # 0
  /\ Word \in Nat /\ Word > ring_size
  /\ MaxEndpoints \in 1..ring_size
  /\ MaxWeight \in Nat \ {0}

VARIABLES
  endpoints,  \* the argument, with the permutation array filled in
  result,     \* the ring
  next,       \* next[i] of the code
  weight,     \* endpoints[i].weight, which the loop resets
  i, j,       \* loop counters
  runs,       \* positions filled
  pc          \* "loop" or "done"

mvars == <<endpoints, result, next, weight, i, j, runs, pc>>

\* Mutant: skip is reduced modulo ring_size - 1 and not incremented.
skipFromZero ==
  [weight : 1..MaxWeight, offset : 0..(ring_size - 1), skip : 0..(ring_size - 2)]

\* genMaglevPermuation: MurmurHash3 gives any 64 bit values for offset and
\* skip, which are reduced modulo ring_size and ring_size - 1.  The numbers of
\* the endpoints are different.
genMaglevPermuation ==
  [weight : 1..MaxWeight, offset : 0..(ring_size - 1), skip : 1..(ring_size - 1)]

Numbered(ps) ==
  [k \in DOMAIN ps |->
    [num |-> k - 1, weight |-> ps[k].weight, offset |-> ps[k].offset, skip |-> ps[k].skip]]

Fill(num) == [p \in 0..(ring_size - 1) |-> num]

MaglevTypeOK ==
  /\ result \in [0..(ring_size - 1) -> -1..(Len(endpoints) - 1)]
  /\ next \in [DOMAIN endpoints -> 0..(Word - 1)]
  /\ weight \in [DOMAIN endpoints -> Nat]
  /\ i \in DOMAIN endpoints /\ j \in Nat /\ runs \in 0..ring_size
  /\ pc \in {"loop", "done"}

MaglevInit ==
  /\ \E m \in 1..MaxEndpoints : \E ps \in [1..m -> genMaglevPermuation] :
       endpoints = Numbered(ps)
  /\ IF Len(endpoints) = 1
     THEN result = Fill(endpoints[1].num) /\ pc = "done"
     ELSE result = Fill(-1) /\ pc = "loop"
  /\ next = [k \in DOMAIN endpoints |-> 0]
  /\ weight = [k \in DOMAIN endpoints |-> endpoints[k].weight]
  /\ i = 1 /\ j = 0 /\ runs = 0

\* (offset + next[i] * skip) % ring_size, in uint32_t.
cur == ((endpoints[i].offset + next[i] * endpoints[i].skip) % Word) % ring_size

\* while (result[cur] >= 0)
Probe ==
  /\ pc = "loop" /\ j < weight[i]
  /\ result[cur] >= 0
  /\ next' = [next EXCEPT ![i] = (@ + 1) % Word]
  /\ UNCHANGED <<endpoints, result, weight, i, j, runs, pc>>

Place ==
  /\ pc = "loop" /\ j < weight[i]
  /\ result[cur] < 0
  /\ result' = [result EXCEPT ![cur] = endpoints[i].num]
  /\ next' = [next EXCEPT ![i] = (@ + 1) % Word]
  /\ runs' = runs + 1
  /\ pc' = IF runs + 1 = ring_size THEN "done" ELSE "loop"
  /\ j' = j + 1
  /\ UNCHANGED <<endpoints, weight, i>>

\* Mutant: the weight is not reset after the first round.
NextEndpointKeepsWeight ==
  /\ pc = "loop" /\ j >= weight[i]
  /\ i' = (i % Len(endpoints)) + 1
  /\ j' = 0
  /\ UNCHANGED <<endpoints, result, next, weight, runs, pc>>

\* endpoints[i].weight = 1, and on to the next endpoint.
NextEndpoint ==
  /\ pc = "loop" /\ j >= weight[i]
  /\ weight' = [weight EXCEPT ![i] = 1]
  /\ i' = (i % Len(endpoints)) + 1
  /\ j' = 0
  /\ UNCHANGED <<endpoints, result, next, runs, pc>>

MaglevNext == Probe \/ Place \/ NextEndpoint

\* The loop runs in the calling thread and waits for nothing.
MaglevSpec == MaglevInit /\ [][MaglevNext]_mvars /\ WF_mvars(MaglevNext)

-----------------------------------------------------------------------------
\* With skip = ring_size - 1 the last product, (ring_size - 1)^2, is 0 in
\* uint32_t, and the probes of an endpoint miss one position of the ring.
MissesOne(e) == e.skip = ring_size - 1

\* The result of GenerateMaglevHash is the Maglev ring of the endpoints; only
\* an endpoint that starts at the end of the ring and misses a position may
\* take its positions in another order.
ComputesRing ==
  pc = "done" =>
    \/ result = Ring(endpoints, ring_size)
    \/ \E k \in DOMAIN endpoints : MissesOne(endpoints[k]) /\ endpoints[k].offset = ring_size - 1

\* Weights work: when the ring is large enough for the weights, each endpoint
\* has at least as many positions as its weight.
WeightsHonoured ==
  pc = "done" /\ TotalWeight(endpoints) <= ring_size =>
    \A k \in DOMAIN endpoints :
      Cardinality({p \in DOMAIN result : result[p] = endpoints[k].num}) >= endpoints[k].weight

\* GenerateMaglevHash computes the ring of the definition, within its types, and
\* the weights work.
RingIsRight == MaglevTypeOK /\ ComputesRing /\ WeightsHonoured

Free == {p \in DOMAIN result : result[p] < 0}

\* CHHelpers.h, "vector, which describe CH ring. it's size would be ring_size
\* and which will have Endpoints.num as a values", "ring_size must be prime
\* number": for a prime ring the loop ends with every position filled, but for
\* one case, where one position is left and it is the turn of an endpoint that
\* misses it: then the loop probes for ever.
RingIsFilled ==
  \/ <>(pc = "done" /\ Free = {})
  \/ <>[](pc = "loop" /\ Cardinality(Free) = 1 /\ MissesOne(endpoints[i]))

=============================================================================
