------------------------------ MODULE VipTable ------------------------------
(***************************************************************************)
(* The VIPs of KatranLb (KatranLb.cpp) with their reals and consistent     *)
(* hashing rings (Vip.cpp), and the BPF maps "vip_map" and "ch_rings" that *)
(* the XDP program forwards by.                                            *)
(***************************************************************************)
EXTENDS RealPool

CONSTANTS
  VipKeys,        \* VipKey values, as spelled by the caller
  NoVip,          \* no VIP
  VipDefs,        \* vip_definition: parsed address, port and protocol
  VipDefOf(_),    \* the vip_definition that a VipKey parses to
  maxVips,        \* config_.maxVips
  Flags,          \* flag bits of a VIP
  AddFlags,       \* flag words given to addVip
  ModFlags,       \* flags given to modifyVip
  Weights,        \* weights given to a real
  chRingSize,     \* config_.chRingSize
  RealBatches,    \* vectors of NewReal given to modifyRealsForVip
  GenerateMaglevHash(_, _)
                  \* the ring for the endpoints with the given weights and hashes

Pos == 0..(chRingSize - 1)

VipNums == 0..(maxVips - 1)

\* An address string either parses to an address or is invalid (NoAddr).
NewReal == [address : Addrs \cup {NoAddr}, weight : Weights]

\* What CHHelpers::GenerateMaglevHash promises (checked in module Maglev): a
\* full ring over the endpoints, when there is an endpoint.
RingOverEndpoints ==
  \A w \in [Nums -> Weights], h \in [Nums -> Addrs \cup {NoAddr}] :
    (\E n \in Nums : w[n] # 0) =>
      GenerateMaglevHash(w, h) \in [Pos -> {n \in Nums : w[n] # 0}]

ASSUME VipAssumption ==
  /\ NoVip \notin VipKeys
  /\ IsFiniteSet(VipKeys)
  /\ \A v \in VipKeys : VipDefOf(v) \in VipDefs
  /\ maxVips \in Nat \ {0}
  /\ AddFlags \subseteq SUBSET Flags /\ ModFlags \subseteq Flags
  /\ Weights \subseteq Nat /\ 0 \in Weights
  /\ chRingSize \in Nat \ {0}
  /\ RealBatches \subseteq Seq(NewReal)

ASSUME RingAssumption == RingOverEndpoints

VARIABLES
  vips,       \* vips_: VipKey -> Vip
  vipNums,    \* vipNums_: the free VIP numbers, a FIFO
  vip_map,    \* BPF hash map "vip_map"
  ch_rings,   \* BPF array map "ch_rings", by VIP number and ring position
  cvip,       \* the call's vip_iter
  todo,       \* the reals the call's loop has still to visit
  cur_reals,  \* numbers of the VIP's reals, as the call's loop knows them
  staged,     \* the Vip as the ureals collected so far will leave it
  changed,    \* whether they change a weight (reals_changed)
  pend        \* ring positions the call has still to write to ch_rings

vipVars == <<vips, vipNums, vip_map, ch_rings>>

vipCallVars == <<cvip, todo, cur_reals, staged, changed, pend>>

\* class Vip.  num = maxVips marks a VipKey that has no entry in vips_.
\* Numbers outside reals have weight 0, the default of reals_[num].weight, so
\* that weight tells the endpoints.  The hash of an address stands for itself.
Vip ==
  [num : 0..maxVips, flags : SUBSET Flags, reals : SUBSET Nums,
   weight : [Nums -> Weights], hash : [Nums -> Addrs \cup {NoAddr}],
   chRing : [Pos -> Nums \cup {-1}]]

NewVip(num, flags) ==
  [num |-> num, flags |-> flags, reals |-> {},
   weight |-> [n \in Nums |-> 0], hash |-> [n \in Nums |-> NoAddr],
   chRing |-> [i \in Pos |-> -1]]

AbsentVip == NewVip(maxVips, {})

Present(v) == vips[v].num # maxVips

\* struct vip_meta; num = maxVips: no entry.
VipMeta == [num : 0..maxVips, flags : SUBSET Flags]

NoMeta == [num |-> maxVips, flags |-> {}]

VipTypeOK ==
  /\ vips \in [VipKeys -> Vip]
  /\ vipNums \in Seq(VipNums)
  /\ vip_map \in [VipDefs -> VipMeta]
  /\ ch_rings \in [VipNums -> [Pos -> Nums]]
  /\ cvip \in VipKeys \cup {NoVip}
  /\ todo \in Seq(NewReal)
  /\ cur_reals \in SUBSET Nums
  /\ staged \in Vip
  /\ changed \in BOOLEAN
  /\ pend \in SUBSET Pos

VipInit ==
  /\ vips = [v \in VipKeys |-> AbsentVip]
  /\ vipNums = [i \in 1..maxVips |-> i - 1]
  /\ vip_map = [d \in VipDefs |-> NoMeta]
  /\ ch_rings = [k \in VipNums |-> [i \in Pos |-> 0]]
  /\ cvip = NoVip /\ todo = <<>> /\ cur_reals = {}
  /\ staged = AbsentVip /\ changed = FALSE /\ pend = {}

-----------------------------------------------------------------------------
\* updateVipMap(ADD): BPF_ANY update.
addToVipMap(v, meta) ==
  \E ok \in BpfResults :
    /\ vip_map' = IF ok THEN [vip_map EXCEPT ![VipDefOf(v)] = meta] ELSE vip_map
    /\ CountFailure(ok)

\* updateVipMap(DEL): deleting a missing element of a hash map is an error.
delFromVipMap(v) ==
  \E res \in BpfResults :
    LET ok == res /\ vip_map[VipDefOf(v)] # NoMeta IN
    /\ vip_map' = IF ok THEN [vip_map EXCEPT ![VipDefOf(v)] = NoMeta] ELSE vip_map
    /\ CountFailure(ok)

addVip(v, flags) ==
  /\ Idle
  /\ vipNums # <<>>
  /\ ~Present(v)
  /\ vipNums' = Tail(vipNums)
  /\ vips' = [vips EXCEPT ![v] = NewVip(Head(vipNums), flags)]
  /\ addToVipMap(v, [num |-> Head(vipNums), flags |-> flags])
  /\ UNCHANGED <<op, ch_rings, reals, numToReals, realNums, bpf_reals, vipCallVars>>

modifyVip(v, flag, set) ==
  /\ Idle
  /\ Present(v)
  /\ LET flags == IF set THEN vips[v].flags \cup {flag} ELSE vips[v].flags \ {flag} IN
     /\ vips' = [vips EXCEPT ![v].flags = flags]
     /\ addToVipMap(v, [num |-> vips[v].num, flags |-> flags])
  /\ UNCHANGED <<op, vipNums, ch_rings, reals, numToReals, realNums, bpf_reals, vipCallVars>>

\* The call returns; its local variables are gone.
ReturnFromVipCall ==
  /\ op' = "idle"
  /\ cvip' = NoVip /\ todo' = <<>> /\ cur_reals' = {}
  /\ staged' = AbsentVip /\ changed' = FALSE /\ pend' = {}

-----------------------------------------------------------------------------
(* delVip: release the VIP's reals, in the order of an unordered_map, then *)
(* forget the VIP and remove it from vip_map.  ch_rings is left as it is.  *)

delVip(v) ==
  /\ Idle
  /\ Present(v)
  /\ op' = "delVip"
  /\ cvip' = v
  /\ staged' = vips[v]
  /\ UNCHANGED <<poolVars, vipVars, todo, cur_reals, changed, pend>>

\* Mutant: the reference of the deleted VIP is not given up.
delVipRealLeaks ==
  /\ op = "delVip"
  /\ \E n \in staged.reals : staged' = [staged EXCEPT !.reals = @ \ {n}]
  /\ UNCHANGED <<op, poolVars, vipVars, cvip, todo, cur_reals, changed, pend>>

delVipReal ==
  /\ op = "delVip"
  /\ \E n \in staged.reals :
       /\ decreaseRefCountForReal(numToReals[n])
       /\ staged' = [staged EXCEPT !.reals = @ \ {n}]
  /\ UNCHANGED <<op, bpf_reals, bpfFailed, vipVars, cvip, todo, cur_reals, changed, pend>>

\* Mutant: the VIP stays in vip_map.
delVipEndKeepsMap ==
  /\ op = "delVip"
  /\ staged.reals = {}
  /\ vipNums' = Append(vipNums, vips[cvip].num)
  /\ vips' = [vips EXCEPT ![cvip] = AbsentVip]
  /\ ReturnFromVipCall
  /\ UNCHANGED <<vip_map, bpfFailed, ch_rings, reals, numToReals, realNums, bpf_reals>>

\* Mutant: the VIP's number is not recycled.
delVipEndLeaks ==
  /\ op = "delVip"
  /\ staged.reals = {}
  /\ delFromVipMap(cvip)
  /\ vips' = [vips EXCEPT ![cvip] = AbsentVip]
  /\ ReturnFromVipCall
  /\ UNCHANGED <<vipNums, ch_rings, reals, numToReals, realNums, bpf_reals>>

delVipEnd ==
  /\ op = "delVip"
  /\ staged.reals = {}
  /\ vipNums' = Append(vipNums, vips[cvip].num)
  /\ delFromVipMap(cvip)
  /\ vips' = [vips EXCEPT ![cvip] = AbsentVip]
  /\ ReturnFromVipCall
  /\ UNCHANGED <<ch_rings, reals, numToReals, realNums, bpf_reals>>

-----------------------------------------------------------------------------
(* modifyRealsForVip (addRealForVip and delRealForVip are batches of one): *)
(* visit the given reals, apply the collected updates to the Vip, write    *)
(* the positions of its ring that have changed to ch_rings.                *)

modifyRealsForVip(action, batch, v) ==
  /\ Idle
  /\ Present(v)
  /\ action = "ADD" => RefCountsInBound
  /\ op' = action
  /\ cvip' = v
  /\ todo' = batch
  /\ cur_reals' = vips[v].reals
  /\ staged' = vips[v]
  /\ UNCHANGED <<poolVars, vipVars, changed, pend>>

\* ureals.push_back(ureal) for number n, and what Vip::getEndpoints will make
\* of it.  The hash is kept unless the weight changes: a real that is added
\* with weight 0 gets the default entry, with no hash.
PushAdd(n, r) ==
  /\ changed' = (changed \/ staged.weight[n] # r.weight)
  /\ staged' = [staged EXCEPT
       !.reals = @ \cup {n},
       !.weight[n] = r.weight,
       !.hash[n] = IF staged.weight[n] # r.weight THEN r.address ELSE @]

PushDel(n) ==
  /\ changed' = TRUE
  /\ staged' = [staged EXCEPT !.reals = @ \ {n}, !.weight[n] = 0, !.hash[n] = NoAddr]

addReal ==
  /\ op = "ADD"
  /\ todo # <<>>
  /\ todo' = Tail(todo)
  /\ LET r == Head(todo)
         a == r.address
     IN
     \/ /\ a = NoAddr                                  \* invalid address
        /\ UNCHANGED <<poolVars, cur_reals, staged, changed>>
     \/ /\ a # NoAddr /\ reals[a] # NoReal             \* known, and the VIP's
        /\ reals[a].num \in cur_reals
        /\ PushAdd(reals[a].num, r)
        /\ UNCHANGED <<poolVars, cur_reals>>
     \/ /\ a # NoAddr /\ reals[a] # NoReal             \* known, new for the VIP
        /\ reals[a].num \notin cur_reals
        /\ increaseRefCountForReal(a)
        /\ cur_reals' = cur_reals \cup {reals[a].num}
        /\ PushAdd(reals[a].num, r)
     \/ /\ a # NoAddr /\ reals[a] = NoReal             \* not known yet
        /\ increaseRefCountForReal(a)
        /\ IF Rnum(a) = maxReals                        \* exhausted real's space
           THEN UNCHANGED <<staged, changed>>
           ELSE PushAdd(Rnum(a), r)
        /\ UNCHANGED cur_reals
  /\ UNCHANGED <<op, vipVars, cvip, pend>>

\* cur_reals is not shortened.
delReal ==
  /\ op = "DEL"
  /\ todo # <<>>
  /\ todo' = Tail(todo)
  /\ LET a == Head(todo).address
         ofVip == a # NoAddr /\ reals[a] # NoReal /\ reals[a].num \in cur_reals
     IN
     \/ /\ ~ofVip
        /\ UNCHANGED <<poolVars, staged, changed>>
     \/ /\ ofVip
        /\ decreaseRefCountForReal(a)
        /\ PushDel(reals[a].num)
        /\ UNCHANGED <<bpf_reals, bpfFailed>>
  /\ UNCHANGED <<op, vipVars, cvip, cur_reals, pend>>

\* Vip::batchRealsUpdate: no endpoint, no new ring.
NewRing ==
  IF changed /\ (\E n \in Nums : staged.weight[n] # 0)
  THEN GenerateMaglevHash(staged.weight, staged.hash)
  ELSE staged.chRing

batchRealsUpdate ==
  /\ op \in {"ADD", "DEL"}
  /\ todo = <<>>
  /\ vips' = [vips EXCEPT ![cvip] = [staged EXCEPT !.chRing = NewRing]]
  /\ pend' = {i \in Pos : NewRing[i] # staged.chRing[i]}
  /\ op' = "write"
  /\ cur_reals' = {} /\ staged' = AbsentVip /\ changed' = FALSE
  /\ UNCHANGED <<poolVars, vipNums, vip_map, ch_rings, cvip, todo>>

\* Mutant: the loop over the positions ends after the first one.
writeChRingOnce ==
  /\ op = "write"
  /\ \E i \in pend :
       /\ \A j \in pend : i <= j
       /\ ch_rings' = [ch_rings EXCEPT ![vips[cvip].num][i] = vips[cvip].chRing[i]]
       /\ pend' = {}
  /\ UNCHANGED <<op, vips, vipNums, vip_map, poolVars, cvip, todo, cur_reals, staged, changed>>

\* One update of ch_rings, in the order of positions; a failed one is counted
\* and skipped.
writeChRing ==
  /\ op = "write"
  /\ \E i \in pend :
       /\ \A j \in pend : i <= j
       /\ \E ok \in BpfResults :
            /\ ch_rings' = IF ok
                           THEN [ch_rings EXCEPT
                                  ![vips[cvip].num][i] = vips[cvip].chRing[i]]
                           ELSE ch_rings
            /\ CountFailure(ok)
       /\ pend' = pend \ {i}
  /\ UNCHANGED <<op, vips, vipNums, vip_map, reals, numToReals, realNums, bpf_reals,
                 cvip, todo, cur_reals, staged, changed>>

modifyRealsEnd ==
  /\ op = "write"
  /\ pend = {}
  /\ ReturnFromVipCall
  /\ UNCHANGED <<poolVars, vipVars>>

VipNext ==
  \/ \E v \in VipKeys, f \in AddFlags : addVip(v, f)
  \/ \E v \in VipKeys, f \in ModFlags, set \in BOOLEAN : modifyVip(v, f, set)
  \/ \E v \in VipKeys : delVip(v)
  \/ delVipReal
  \/ delVipEnd
  \/ \E action \in {"ADD", "DEL"}, batch \in RealBatches, v \in VipKeys :
       modifyRealsForVip(action, batch, v)
  \/ addReal
  \/ delReal
  \/ batchRealsUpdate
  \/ writeChRing
  \/ modifyRealsEnd

-----------------------------------------------------------------------------
\* The reals for which VIP v holds a reference: Vip.reals_, as far as the call
\* in progress has taken or released references that Vip.reals_ does not show.
HeldReals(v) ==
  IF v = cvip /\ op \in {"ADD", "DEL", "delVip"} THEN staged.reals ELSE vips[v].reals

Endpoints(v) == {n \in Nums : vips[v].weight[n] # 0}

\* Positions of v's ring that the call in progress has not written yet.
Pending(v) == IF v = cvip THEN pend ELSE {}

\* VIP numbers: free or given to one VIP.
VipNumPartition ==
  /\ \A i, j \in DOMAIN vipNums : i # j => vipNums[i] # vipNums[j]
  /\ \A k \in VipNums : (k \in Free(vipNums)) <=> (\A v \in VipKeys : vips[v].num # k)
  /\ \A v, u \in VipKeys : v # u /\ Present(v) => vips[v].num # vips[u].num

\* As long as no bpf() call has failed, the XDP program finds exactly the
\* configured VIPs in vip_map, with their current numbers and flags.
VipMapAgrees ==
  ~bpfFailed =>
    /\ \A v \in VipKeys : Present(v) =>
         vip_map[VipDefOf(v)] = [num |-> vips[v].num, flags |-> vips[v].flags]
    /\ \A d \in VipDefs : vip_map[d] # NoMeta =>
         \E v \in VipKeys : Present(v) /\ VipDefOf(v) = d

\* As long as no bpf() call has failed, a VIP that has an endpoint is served:
\* every position of its ring in ch_rings that is not just being replaced
\* leads to one of its own endpoints, and from there through the BPF map
\* "reals" to the address that endpoint was configured with.
RingServesVip ==
  ~bpfFailed =>
    \A v \in VipKeys : Present(v) /\ Endpoints(v) # {} =>
      \A i \in Pos \ Pending(v) :
        LET n == ch_rings[vips[v].num][i] IN
        /\ n \in Endpoints(v)
        /\ bpf_reals[n] = vips[v].hash[n]

=============================================================================
