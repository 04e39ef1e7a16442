--------------------------- MODULE ServingProofs ----------------------------
(***************************************************************************)
(* What the XDP program finds through those entries: the rings in ch_rings *)
(* lead to the reals of their VIPs, quic_mapping to the addresses of the   *)
(* ids, and the tries of source prefixes hold the rules.                   *)
(***************************************************************************)
EXTENDS KatranLbProofs

\* The prover of every leaf that names no other.
USE ZenonT(30)

-----------------------------------------------------------------------------
(* The rings.                                                              *)

\* An endpoint of a VIP is one of its reals, and "reals" has the address that
\* it was configured with.
EndpointsServed ==
  \A v \in VipKeys, n \in Nums : vips[v].weight[n] # 0 =>
    n \in vips[v].reals /\ (~bpfFailed => bpf_reals[n] = vips[v].hash[n])

\* A VIP's own copy of its ring is over its endpoints, and ch_rings has that
\* copy where it is not just being written.
RingsWritten ==
  \A v \in VipKeys, i \in Pos :
    /\ Endpoints(v) # {} => vips[v].chRing[i] \in Endpoints(v)
    /\ ~bpfFailed /\ Present(v) /\ i \notin Pending(v) /\ vips[v].chRing[i] # -1 =>
         ch_rings[vips[v].num][i] = vips[v].chRing[i]

\* What batchRealsUpdate will find: the Vip it writes back has the ring of the
\* VIP, endpoints that are served, and the old weights unless the update says
\* that they have changed.
StageServed ==
  /\ op # "write" => pend = {}
  /\ op \in {"ADD", "DEL"} =>
       /\ staged.chRing = vips[cvip].chRing
       /\ changed \/ staged.weight = vips[cvip].weight
       /\ op = "ADD" => vips[cvip].reals \subseteq staged.reals
       /\ \A n \in Nums : staged.weight[n] # 0 =>
            n \in staged.reals /\ (~bpfFailed => bpf_reals[n] = staged.hash[n])

Served == EndpointsServed /\ RingsWritten /\ StageServed

\* The inductive invariant.
RingInv == IndInv /\ VipNumInv /\ BpfRealsAgree /\ Served

\* A ring that is written leads to an endpoint, and the endpoint to its address.
LEMMA RingInvServes == RingInv => RingServesVip
<1> SUFFICES ASSUME RingInv, ~bpfFailed, NEW v \in VipKeys, Present(v), Endpoints(v) # {},
                    NEW i \in Pos \ Pending(v), NEW n, n = ch_rings[vips[v].num][i]
             PROVE  n \in Endpoints(v) /\ bpf_reals[n] = vips[v].hash[n]
  BY SMTT(30) DEF RingServesVip
<1>1. vips[v].chRing[i] \in Endpoints(v)
  BY DEF RingInv, Served, RingsWritten
<1>2. vips[v].chRing[i] # -1
  BY SMTT(30), <1>1 DEF Endpoints, Nums
<1>3. n = vips[v].chRing[i]
  BY <1>2 DEF RingInv, Served, RingsWritten
<1> QED BY SMTT(30), <1>1, <1>3 DEF RingInv, Served, EndpointsServed, Endpoints

\* The entries that VIPs rely on, those of the call in progress included, stay
\* as they are: the references of the VIP keep their numbers from being reused.
LEMMA ReliedOnEntries ==
  ASSUME DistinctReals, RingInv, [Next]_vars
  PROVE  /\ Remembers
         /\ \A v \in VipKeys : \A n \in vips[v].reals : bpf_reals'[n] = bpf_reals[n]
         /\ op \in {"ADD", "DEL"} => \A n \in staged.reals : bpf_reals'[n] = bpf_reals[n]
<1>a. PoolInv /\ StagedOK /\ PoolTypeOK /\ PoolPartition /\ VipTypeOK /\ CallOK /\ BpfRealsAgree
  BY DEF RingInv, VipNumInv, PoolInv, TypeOK
<1>1. Remembers /\ PoolStep /\ (op \in {"DEL", "delVip"} => UNCHANGED bpf_reals)
  BY <1>a, StepRemembers, StepPool
<1>2. \A n \in Nums : numToReals[n] # NoAddr => bpf_reals'[n] = bpf_reals[n]
  BY <1>a, <1>1, EntriesOfStep
<1>3. \A v \in VipKeys : \A n \in Nums : n \in HeldReals(v) => numToReals[n] # NoAddr
  <2>1. ASSUME NEW v \in VipKeys, NEW n \in Nums, n \in HeldReals(v) PROVE numToReals[n] # NoAddr
    <3>1. <<"vip", v>> \in AllUsers /\ Holds(<<"vip", v>>, n)
      BY <2>1 DEF AllUsers, Holds
    <3>2. UsersOf(n) # {}
      BY <3>1 DEF UsersOf
    <3> QED BY <3>2 DEF RingInv, IndInv, RefCountCoversUsers
  <2> QED BY <2>1
<1>4. /\ \A v \in VipKeys : vips[v].reals \subseteq Nums
      /\ staged.reals \subseteq Nums
  BY <1>a DEF VipTypeOK, Vip
<1>5. CASE op \in {"DEL", "delVip"}
  BY <1>1, <1>5, <1>4
<1>6. CASE op = "ADD"
  <2>1. cvip \in VipKeys /\ vips[cvip].reals \subseteq staged.reals
    BY <1>6, <1>a DEF CallOK, RingInv, Served, StageServed
  <2>2. HeldReals(cvip) = staged.reals /\ \A v \in VipKeys : v # cvip => HeldReals(v) = vips[v].reals
    BY <1>6 DEF HeldReals
  <2> QED BY <2>1, <2>2, <1>1, <1>2, <1>3, <1>4
<1>7. CASE op \notin {"ADD", "DEL", "delVip"}
  <2>1. \A v \in VipKeys : HeldReals(v) = vips[v].reals
    BY <1>7 DEF HeldReals
  <2> QED BY <2>1, <1>1, <1>2, <1>3, <1>4, <1>7
<1> QED BY <1>5, <1>6, <1>7

\* A VIP whose Vip stays as it is keeps its endpoints and its ring.
LEMMA VipStays ==
  ASSUME DistinctReals, RingInv, [Next]_vars, NEW v \in VipKeys,
         vips'[v].num = vips[v].num, vips'[v].reals = vips[v].reals, vips'[v].weight = vips[v].weight,
         vips'[v].hash = vips[v].hash, vips'[v].chRing = vips[v].chRing
  PROVE  /\ \A n \in Nums : vips'[v].weight[n] # 0 =>
              n \in vips'[v].reals /\ (~bpfFailed' => bpf_reals'[n] = vips'[v].hash[n])
         /\ \A i \in Pos : Endpoints(v)' # {} => vips'[v].chRing[i] \in Endpoints(v)'
         /\ \A i \in Pos : ~bpfFailed' /\ Present(v)' /\ i \notin Pending(v) /\ vips'[v].chRing[i] # -1 =>
              ch_rings[vips'[v].num][i] = vips'[v].chRing[i]
<1>1. /\ Remembers
      /\ \A n \in vips[v].reals : bpf_reals'[n] = bpf_reals[n]
  BY ReliedOnEntries
<1>2. Endpoints(v)' = Endpoints(v)
  BY DEF Endpoints
<1>3. Present(v)' <=> Present(v)
  BY DEF Present
<1> QED BY SMTT(30), <1>1, <1>2, <1>3 DEF RingInv, Served, EndpointsServed, RingsWritten, Remembers

\* So does, then, every VIP in a step that leaves ch_rings and the ring
\* positions still to be written alone.  A VIP that has just been added, or
\* is gone, has no endpoints and no ring.
LEMMA VipsStay ==
  ASSUME DistinctReals, RingInv, [Next]_vars, UNCHANGED ch_rings,
         \A v \in VipKeys : Pending(v)' = Pending(v),
         \A v \in VipKeys :
           \/ /\ vips'[v].num = vips[v].num /\ vips'[v].reals = vips[v].reals
              /\ vips'[v].weight = vips[v].weight /\ vips'[v].hash = vips[v].hash
              /\ vips'[v].chRing = vips[v].chRing
           \/ /\ \A n \in Nums : vips'[v].weight[n] = 0
              /\ \A i \in Pos : vips'[v].chRing[i] = -1
  PROVE  EndpointsServed' /\ RingsWritten'
<1>1. ASSUME NEW v \in VipKeys
      PROVE  /\ \A n \in Nums : vips'[v].weight[n] # 0 =>
                  n \in vips'[v].reals /\ (~bpfFailed' => bpf_reals'[n] = vips'[v].hash[n])
             /\ \A i \in Pos : Endpoints(v)' # {} => vips'[v].chRing[i] \in Endpoints(v)'
             /\ \A i \in Pos : ~bpfFailed' /\ Present(v)' /\ i \notin Pending(v) /\ vips'[v].chRing[i] # -1 =>
                  ch_rings[vips'[v].num][i] = vips'[v].chRing[i]
  <2>1. CASE /\ vips'[v].num = vips[v].num /\ vips'[v].reals = vips[v].reals
             /\ vips'[v].weight = vips[v].weight /\ vips'[v].hash = vips[v].hash
             /\ vips'[v].chRing = vips[v].chRing
    BY <2>1, VipStays
  <2>2. CASE /\ \A n \in Nums : vips'[v].weight[n] = 0
             /\ \A i \in Pos : vips'[v].chRing[i] = -1
    <3>1. Endpoints(v)' = {}
      BY <2>2 DEF Endpoints, Nums
    <3> QED BY <3>1, <2>2
  <2> QED BY <2>1, <2>2
<1>2. EndpointsServed'
  BY <1>1 DEF EndpointsServed, Nums
<1>3. RingsWritten'
  <2>1. ASSUME NEW v \in VipKeys, NEW i \in Pos
        PROVE  /\ Endpoints(v)' # {} => vips'[v].chRing[i] \in Endpoints(v)'
               /\ ~bpfFailed' /\ Present(v)' /\ i \notin Pending(v)' /\ vips'[v].chRing[i] # -1 =>
                    ch_rings'[vips'[v].num][i] = vips'[v].chRing[i]
    BY <1>1
  <2> QED BY <2>1 DEF RingsWritten, Pos
<1> QED BY <1>2, <1>3

\* addReal: what is pushed for a number that has its entry is served.
LEMMA PushAddServed ==
  ASSUME DistinctReals, RingInv, [Next]_vars, op = "ADD", op' = "ADD", UNCHANGED <<vips, cvip, pend>>,
         NEW n \in Nums, NEW r \in NewReal, PushAdd(n, r), ~bpfFailed' => bpf_reals'[n] = r.address
  PROVE  StageServed'
<1>a. staged \in Vip /\ VipTypeOK
  BY DEF RingInv, IndInv, TypeOK, VipTypeOK
<1>b. Remembers /\ \A m \in staged.reals : bpf_reals'[m] = bpf_reals[m]
  BY ReliedOnEntries
<1>c. /\ pend = {} /\ staged.chRing = vips[cvip].chRing
      /\ changed \/ staged.weight = vips[cvip].weight
      /\ vips[cvip].reals \subseteq staged.reals
      /\ \A m \in Nums : staged.weight[m] # 0 =>
           m \in staged.reals /\ (~bpfFailed => bpf_reals[m] = staged.hash[m])
  BY DEF RingInv, Served, StageServed
<1>1. /\ staged'.chRing = staged.chRing
      /\ staged'.reals = staged.reals \cup {n}
      /\ staged'.weight = [staged.weight EXCEPT ![n] = r.weight]
      /\ staged'.hash = [staged.hash EXCEPT ![n] = IF staged.weight[n] # r.weight THEN r.address ELSE @]
      /\ changed' = (changed \/ staged.weight[n] # r.weight)
  BY <1>a DEF PushAdd, Vip
<1>2. changed' \/ staged'.weight = vips'[cvip'].weight
  <2>1. staged.weight[n] = r.weight => staged'.weight = staged.weight
    BY SMTT(30), <1>1, <1>a DEF Vip
  <2>2. vips'[cvip'] = vips[cvip]
    OBVIOUS
  <2> QED BY <2>1, <2>2, <1>1, <1>c
<1>3. ASSUME NEW m \in Nums, staged'.weight[m] # 0
      PROVE  m \in staged'.reals /\ (~bpfFailed' => bpf_reals'[m] = staged'.hash[m])
  <2>1. CASE m # n
    <3>1. staged'.weight[m] = staged.weight[m] /\ staged'.hash[m] = staged.hash[m]
      BY <2>1, <1>1, <1>a DEF Vip
    <3> QED BY <3>1, <1>1, <1>3, <1>b, <1>c DEF Remembers
  <2>2. CASE m = n /\ staged.weight[n] # r.weight
    <3>1. staged'.hash[n] = r.address
      BY <2>2, <1>1, <1>a DEF Vip
    <3> QED BY <3>1, <2>2, <1>1
  <2>3. CASE m = n /\ staged.weight[n] = r.weight
    <3>1. staged'.weight[n] = staged.weight[n] /\ staged'.hash[n] = staged.hash[n]
      BY <2>3, <1>1, <1>a DEF Vip
    <3> QED BY SMTT(30), <3>1, <1>1, <1>3, <1>b, <1>c DEF Remembers
  <2> QED BY <2>1, <2>2, <2>3
<1>4. vips'[cvip'].reals \subseteq staged'.reals /\ staged'.chRing = vips'[cvip'].chRing /\ pend' = {}
  BY <1>1, <1>c
<1> QED BY <1>2, <1>3, <1>4 DEF StageServed, Nums

\* A step of addReal.
LEMMA AddRealServed ==
  ASSUME DistinctReals, RingInv, [Next]_vars, addReal, BpfRealsAgree', PoolInv'
  PROVE  StageServed'
<1> DEFINE r == Head(todo)
           a == r.address
<1>a. PoolTypeOK /\ PoolPartition /\ VipTypeOK
  BY DEF RingInv, IndInv, TypeOK
<1>1. op = "ADD" /\ op' = "ADD" /\ UNCHANGED <<vips, cvip, pend>> /\ todo # <<>>
  BY DEF addReal, vipVars
<1>2. r \in NewReal
  BY SMTT(30), <1>1, <1>a DEF VipTypeOK
<1>3. a \in Addrs \cup {NoAddr}
  BY <1>2 DEF NewReal
<1>4. \/ UNCHANGED <<staged, changed>>
      \/ a # NoAddr /\ reals[a] # NoReal /\ PushAdd(reals[a].num, r) /\ UNCHANGED poolVars
      \/ a # NoAddr /\ increaseRefCountForReal(a) /\ Rnum(a) # maxReals /\ PushAdd(Rnum(a), r)
  <2>1. ASSUME reals[a] # NoReal PROVE Rnum(a) = reals[a].num
    BY <2>1 DEF Rnum
  <2>2. ASSUME reals[a] # NoReal, a # NoAddr PROVE reals[a].num # maxReals
    BY SMTT(30), <2>2, <1>3, <1>a DEF PoolPartition, Nums
  <2> QED BY <2>1, <2>2 DEF addReal
<1> HIDE DEF r
<1>5. CASE UNCHANGED <<staged, changed>>
  <2>1. Remembers /\ \A m \in staged.reals : bpf_reals'[m] = bpf_reals[m]
    BY <1>1, ReliedOnEntries
  <2> QED BY <2>1, <1>1, <1>5 DEF StageServed, RingInv, Served, Remembers
<1>6. CASE a # NoAddr /\ reals[a] # NoReal /\ PushAdd(reals[a].num, r) /\ UNCHANGED poolVars
  <2>1. a \in Addrs /\ reals[a].num \in Nums /\ reals'[a] = reals[a]
    BY SMTT(30), <1>3, <1>6, <1>a DEF PoolPartition, poolVars
  <2>2. ~bpfFailed' => bpf_reals'[reals[a].num] = a
    BY <2>1, <1>6 DEF BpfRealsAgree
  <2> QED BY SMTT(30), <2>1, <2>2, <1>1, <1>2, <1>6, PushAddServed
<1>7. CASE a # NoAddr /\ increaseRefCountForReal(a) /\ Rnum(a) # maxReals /\ PushAdd(Rnum(a), r)
  <2>1. a \in Addrs
    BY <1>3, <1>7
  <2>2. Rnum(a) \in Nums
    BY <2>1, <1>7, <1>a, RnumInPool
  <2>3. reals'[a].num = Rnum(a) /\ reals'[a] # NoReal
    BY <2>1, <1>7, <1>a, RnumInPool
  <2>4. ~bpfFailed' => bpf_reals'[Rnum(a)] = a
    BY SMTT(30), <2>1, <2>3 DEF BpfRealsAgree
  <2> QED BY SMTT(30), <2>2, <2>4, <1>1, <1>2, <1>7, PushAddServed
<1> QED BY <1>4, <1>5, <1>6, <1>7

\* A step of delReal.
LEMMA DelRealServed ==
  ASSUME DistinctReals, RingInv, [Next]_vars, delReal
  PROVE  StageServed'
<1>a. staged \in Vip /\ PoolPartition /\ VipTypeOK
  BY DEF RingInv, IndInv, TypeOK, VipTypeOK
<1>1. op = "DEL" /\ op' = "DEL" /\ UNCHANGED <<vips, cvip, pend>> /\ todo # <<>>
  BY DEF delReal, vipVars
<1>2. \/ UNCHANGED <<staged, changed>>
      \/ /\ Head(todo).address # NoAddr /\ reals[Head(todo).address] # NoReal
         /\ PushDel(reals[Head(todo).address].num)
  BY DEF delReal
<1>b. Remembers /\ \A m \in staged.reals : bpf_reals'[m] = bpf_reals[m]
  BY <1>1, ReliedOnEntries
<1>3. CASE UNCHANGED <<staged, changed>>
  BY <1>b, <1>1, <1>3 DEF StageServed, RingInv, Served, Remembers
<1>4. ASSUME NEW n \in Nums, PushDel(n) PROVE StageServed'
  <2>1. /\ pend = {} /\ staged.chRing = vips[cvip].chRing
        /\ \A m \in Nums : staged.weight[m] # 0 =>
             m \in staged.reals /\ (~bpfFailed => bpf_reals[m] = staged.hash[m])
    BY <1>1 DEF RingInv, Served, StageServed
  <2>2. /\ staged'.chRing = staged.chRing /\ staged'.reals = staged.reals \ {n}
        /\ staged'.weight = [staged.weight EXCEPT ![n] = 0]
        /\ staged'.hash = [staged.hash EXCEPT ![n] = NoAddr]
        /\ changed'
    BY <1>4, <1>a DEF PushDel, Vip
  <2>3. ASSUME NEW m \in Nums, staged'.weight[m] # 0
        PROVE  m \in staged'.reals /\ (~bpfFailed' => bpf_reals'[m] = staged'.hash[m])
    <3>1. m # n
      BY <2>2, <2>3, <1>a DEF Vip
    <3>2. staged'.weight[m] = staged.weight[m] /\ staged'.hash[m] = staged.hash[m]
      BY <3>1, <2>2, <1>a DEF Vip
    <3> QED BY <3>1, <3>2, <2>1, <2>2, <2>3, <1>b DEF Remembers
  <2> QED BY <2>1, <2>2, <2>3, <1>1 DEF StageServed, Nums
<1>5. ASSUME Head(todo).address # NoAddr, reals[Head(todo).address] # NoReal
      PROVE  reals[Head(todo).address].num \in Nums
  <2>1. Head(todo) \in NewReal
    BY SMTT(30), <1>1, <1>a DEF VipTypeOK
  <2>2. Head(todo).address \in Addrs
    BY <2>1, <1>5 DEF NewReal
  <2> QED BY <2>2, <1>5, <1>a DEF PoolPartition
<1> QED BY <1>2, <1>3, <1>4, <1>5

\* batchRealsUpdate replaces the Vip.  If weights have changed and endpoints
\* are left, the new ring is over them and the positions that differ are still
\* to be written; otherwise the ring stays as it is.
LEMMA BatchServed ==
  ASSUME DistinctReals, RingInv, [Next]_vars, batchRealsUpdate
  PROVE  EndpointsServed' /\ RingsWritten' /\ StageServed'
<1> DEFINE new == [staged EXCEPT !.chRing = NewRing]
<1>a. VipTypeOK /\ staged \in Vip /\ CallOK
  BY DEF RingInv, IndInv, TypeOK, VipTypeOK
<1>1. /\ vips' = [vips EXCEPT ![cvip] = new] /\ pend' = {i \in Pos : NewRing[i] # staged.chRing[i]}
      /\ op \in {"ADD", "DEL"} /\ op' = "write" /\ UNCHANGED <<cvip, ch_rings, bpf_reals, bpfFailed>>
  BY DEF batchRealsUpdate, poolVars
<1>2. cvip \in VipKeys /\ pend = {}
  BY <1>1, <1>a DEF CallOK, RingInv, Served, StageServed
<1>3. /\ staged.chRing = vips[cvip].chRing /\ staged.num = vips[cvip].num
      /\ changed \/ staged.weight = vips[cvip].weight
      /\ \A n \in Nums : staged.weight[n] # 0 =>
           n \in staged.reals /\ (~bpfFailed => bpf_reals[n] = staged.hash[n])
  BY <1>1 DEF RingInv, Served, StageServed, VipNumInv, StagedOK
<1>4. /\ new.num = vips[cvip].num /\ new.reals = staged.reals /\ new.weight = staged.weight
      /\ new.hash = staged.hash /\ new.chRing = NewRing
  BY <1>3, <1>a DEF Vip
<1> HIDE DEF new
<1>5. vips'[cvip] = new /\ \A v \in VipKeys : v # cvip => vips'[v] = vips[v]
  BY <1>1, <1>2, <1>a DEF VipTypeOK
<1>6. ASSUME NEW v \in VipKeys, v # cvip
      PROVE  /\ \A n \in Nums : vips'[v].weight[n] # 0 =>
                  n \in vips'[v].reals /\ (~bpfFailed' => bpf_reals'[n] = vips'[v].hash[n])
             /\ \A i \in Pos : Endpoints(v)' # {} => vips'[v].chRing[i] \in Endpoints(v)'
             /\ \A i \in Pos : ~bpfFailed' /\ Present(v)' /\ i \notin Pending(v)' /\ vips'[v].chRing[i] # -1 =>
                  ch_rings'[vips'[v].num][i] = vips'[v].chRing[i]
  <2>1. Pending(v)' = Pending(v)
    BY <1>1, <1>6 DEF Pending
  <2> QED BY SMTT(30), <2>1, <1>1, <1>6, VipStays
<1>7. \A n \in Nums : vips'[cvip].weight[n] # 0 =>
        n \in vips'[cvip].reals /\ (~bpfFailed' => bpf_reals'[n] = vips'[cvip].hash[n])
  BY SMTT(30), <1>1, <1>3, <1>4, <1>5
<1>8. \A i \in Pos : (\E n \in Nums : staged.weight[n] # 0) =>
        NewRing[i] \in {n \in Nums : staged.weight[n] # 0}
  <2>1. CASE changed /\ (\E n \in Nums : staged.weight[n] # 0)
    <3>1. staged.weight \in [Nums -> Weights] /\ staged.hash \in [Nums -> Addrs \cup {NoAddr}]
      BY <1>a DEF Vip
    <3>2. GenerateMaglevHash(staged.weight, staged.hash) \in [Pos -> {n \in Nums : staged.weight[n] # 0}]
      BY <3>1, <2>1, RingAssumption DEF RingOverEndpoints
    <3>3. NewRing = GenerateMaglevHash(staged.weight, staged.hash)
      BY <2>1 DEF NewRing
    <3> QED BY <3>2, <3>3
  <2>2. CASE ~changed
    <3>1. NewRing = vips[cvip].chRing /\ staged.weight = vips[cvip].weight
      BY SMTT(30), <2>2, <1>3 DEF NewRing
    <3>2. Endpoints(cvip) = {n \in Nums : staged.weight[n] # 0}
      BY <3>1 DEF Endpoints
    <3> QED BY <3>1, <3>2, <1>2 DEF RingInv, Served, RingsWritten
  <2> QED BY <2>1, <2>2
<1>9. \A i \in Pos : ~bpfFailed' /\ vips'[cvip].num # maxVips /\ i \notin pend' /\ vips'[cvip].chRing[i] # -1 =>
        ch_rings'[vips'[cvip].num][i] = vips'[cvip].chRing[i]
  <2>1. ASSUME NEW i \in Pos, ~bpfFailed, vips[cvip].num # maxVips, i \notin pend', NewRing[i] # -1
        PROVE  ch_rings[vips[cvip].num][i] = NewRing[i]
    <3>1. NewRing[i] = vips[cvip].chRing[i]
      BY <2>1, <1>1, <1>3
    <3>2. Present(cvip) /\ i \notin Pending(cvip)
      BY <2>1, <1>2 DEF Present, Pending
    <3> QED BY <3>1, <3>2, <2>1, <1>2 DEF RingInv, Served, RingsWritten
  <2> QED BY SMTT(30), <2>1, <1>1, <1>4, <1>5
<1>10. EndpointsServed'
  BY <1>6, <1>7 DEF EndpointsServed, Nums
<1>11. RingsWritten'
  <2>1. ASSUME NEW v \in VipKeys, NEW i \in Pos
        PROVE  /\ Endpoints(v)' # {} => vips'[v].chRing[i] \in Endpoints(v)'
               /\ ~bpfFailed' /\ Present(v)' /\ i \notin Pending(v)' /\ vips'[v].chRing[i] # -1 =>
                    ch_rings'[vips'[v].num][i] = vips'[v].chRing[i]
    <3>1. CASE v # cvip
      BY <3>1, <1>6
    <3>2. CASE v = cvip
      <4>1. Pending(v)' = pend' /\ (Present(v)' <=> vips'[cvip].num # maxVips)
        BY <3>2, <1>1 DEF Pending, Present
      <4>2. Endpoints(v)' = {n \in Nums : staged.weight[n] # 0}
        BY <3>2, <1>4, <1>5 DEF Endpoints, Nums
      <4> QED BY SMTT(30), <3>2, <4>1, <4>2, <1>4, <1>5, <1>8, <1>9
    <3> QED BY <3>1, <3>2
  <2> QED BY <2>1 DEF RingsWritten, Pos
<1>12. StageServed'
  BY <1>1 DEF StageServed
<1> QED BY <1>10, <1>11, <1>12

\* writeChRing writes one position of the ring of one VIP: no other VIP has
\* that VIP's number, and a position that is not written counts as a failure.
LEMMA WriteServed ==
  ASSUME DistinctReals, RingInv, [Next]_vars, writeChRing
  PROVE  EndpointsServed' /\ RingsWritten' /\ StageServed'
<1> DEFINE k == vips[cvip].num
<1>a. VipTypeOK /\ CallOK /\ VipNumPartition
  BY DEF RingInv, IndInv, TypeOK, VipNumInv
<1>1. op = "write" /\ op' = "write" /\ UNCHANGED <<vips, cvip, bpf_reals>>
  BY DEF writeChRing
<1>2. PICK p \in pend : /\ pend' = pend \ {p}
                        /\ ~bpfFailed' => ch_rings' = [ch_rings EXCEPT ![k][p] = vips[cvip].chRing[p]]
  BY DEF writeChRing, CountFailure
<1>3. cvip \in VipKeys /\ k \in VipNums /\ p \in Pos
  BY SMTT(30), <1>1, <1>a DEF CallOK, VipTypeOK
<1>4. \A v \in VipKeys : v # cvip /\ Present(v) => vips[v].num # k
  BY <1>3, <1>a DEF VipNumPartition
<1>5. /\ ~bpfFailed' => ch_rings'[k][p] = vips[cvip].chRing[p]
      /\ ~bpfFailed' => \A i \in Pos : i # p => ch_rings'[k][i] = ch_rings[k][i]
      /\ ~bpfFailed' => \A l \in VipNums : l # k => ch_rings'[l] = ch_rings[l]
  BY SMTT(30), <1>2, <1>3, <1>a DEF VipTypeOK
<1>6. \A v \in VipKeys : Present(v) => vips[v].num \in VipNums
  BY SMTT(30), <1>a, VipAssumption DEF VipTypeOK, Vip, Present, VipNums
<1> HIDE DEF k
<1>7. k = vips[cvip].num
  BY DEF k
<1>8. EndpointsServed'
  <2>1. ASSUME NEW v \in VipKeys, NEW n \in Nums, vips'[v].weight[n] # 0
        PROVE  n \in vips'[v].reals /\ (~bpfFailed' => bpf_reals'[n] = vips'[v].hash[n])
    BY SMTT(30), <2>1, <1>1, VipStays
  <2> QED BY <2>1 DEF EndpointsServed, Nums
<1>9. RingsWritten'
  <2>1. ASSUME NEW v \in VipKeys, NEW i \in Pos, Endpoints(v)' # {}
        PROVE  vips'[v].chRing[i] \in Endpoints(v)'
    BY SMTT(30), <2>1, <1>1, VipStays
  <2>2. ASSUME NEW v \in VipKeys, NEW i \in Pos, ~bpfFailed', Present(v)', i \notin Pending(v)', vips'[v].chRing[i] # -1
        PROVE  ch_rings'[vips'[v].num][i] = vips'[v].chRing[i]
    <3>0. Present(v)
      BY <2>2, <1>1 DEF Present
    <3>1. i \notin Pending(v) => ch_rings[vips[v].num][i] = vips[v].chRing[i]
      BY SMTT(30), <2>2, <1>1, VipStays
    <3>2. CASE v # cvip
      <4>1. i \notin Pending(v)
        BY <3>2 DEF Pending
      <4> QED BY SMTT(30), <4>1, <3>0, <3>1, <2>2, <1>1, <1>4, <1>5, <1>6
    <3>3. CASE v = cvip /\ i = p
      BY <3>3, <2>2, <1>1, <1>5, <1>7
    <3>4. CASE v = cvip /\ i # p
      <4>1. i \notin Pending(v)
        BY <3>4, <2>2, <1>1, <1>2 DEF Pending
      <4> QED BY SMTT(30), <4>1, <3>1, <3>4, <2>2, <1>1, <1>5, <1>7
    <3> QED BY SMTT(30), <3>2, <3>3, <3>4
  <2> QED BY <2>1, <2>2 DEF RingsWritten, Pos
<1>10. StageServed'
  BY <1>1 DEF StageServed
<1> QED BY <1>8, <1>9, <1>10

\* The steps that neither replace a Vip nor write ch_rings.
LEMMA QuietServed ==
  ASSUME DistinctReals, RingInv, [Next]_vars, UNCHANGED <<vips, ch_rings>>, pend = {}, pend' = {}
  PROVE  EndpointsServed' /\ RingsWritten'
<1>1. \A v \in VipKeys : Pending(v)' = Pending(v)
  BY DEF Pending
<1> QED BY <1>1, VipsStay

\* addVip, modifyVip and the end of delVip: the VIP has no endpoints, or those
\* it had before.
LEMMA VipCallServed ==
  ASSUME DistinctReals, RingInv, [Next]_vars,
         \/ \E v \in VipKeys, f \in AddFlags : addVip(v, f)
         \/ \E v \in VipKeys, f \in ModFlags, set \in BOOLEAN : modifyVip(v, f, set)
         \/ delVipEnd
  PROVE  EndpointsServed' /\ RingsWritten' /\ StageServed'
<1> DEFINE Same(v) == /\ vips'[v].num = vips[v].num /\ vips'[v].reals = vips[v].reals
                      /\ vips'[v].weight = vips[v].weight /\ vips'[v].hash = vips[v].hash
                      /\ vips'[v].chRing = vips[v].chRing
           Empty(v) == /\ \A n \in Nums : vips'[v].weight[n] = 0
                       /\ \A i \in Pos : vips'[v].chRing[i] = -1
<1>a. VipTypeOK /\ CallOK /\ (op # "write" => pend = {})
  BY DEF RingInv, IndInv, TypeOK, Served, StageServed
<1>b. \A k, f : /\ \A n \in Nums : NewVip(k, f).weight[n] = 0
                /\ \A i \in Pos : NewVip(k, f).chRing[i] = -1
  BY DEF NewVip
<1>1. ASSUME NEW v \in VipKeys, NEW f \in AddFlags, addVip(v, f)
      PROVE  /\ \A u \in VipKeys : Same(u) \/ Empty(u)
             /\ pend = {} /\ pend' = {} /\ UNCHANGED ch_rings /\ op' = "idle"
  <2>1. vips' = [vips EXCEPT ![v] = NewVip(Head(vipNums), f)]
    BY <1>1 DEF addVip
  <2>2. vips'[v] = NewVip(Head(vipNums), f) /\ \A u \in VipKeys : u # v => vips'[u] = vips[u]
    BY <2>1, <1>a DEF VipTypeOK
  <2>3. pend = {} /\ pend' = {} /\ UNCHANGED ch_rings /\ op' = "idle"
    BY <1>1, <1>a DEF addVip, Idle, vipCallVars
  <2> QED BY SMTT(30), <2>2, <2>3, <1>b
<1>2. ASSUME NEW v \in VipKeys, NEW f \in ModFlags, NEW set \in BOOLEAN, modifyVip(v, f, set)
      PROVE  /\ \A u \in VipKeys : Same(u) \/ Empty(u)
             /\ pend = {} /\ pend' = {} /\ UNCHANGED ch_rings /\ op' = "idle"
  <2>1. PICK flags : vips' = [vips EXCEPT ![v].flags = flags]
    BY <1>2 DEF modifyVip
  <2>2. \A u \in VipKeys : Same(u)
    BY <2>1, <1>a DEF VipTypeOK, Vip
  <2>3. pend = {} /\ pend' = {} /\ UNCHANGED ch_rings /\ op' = "idle"
    BY <1>2, <1>a DEF modifyVip, Idle, vipCallVars
  <2> QED BY <2>2, <2>3
<1>3. ASSUME delVipEnd
      PROVE  /\ \A u \in VipKeys : Same(u) \/ Empty(u)
             /\ pend = {} /\ pend' = {} /\ UNCHANGED ch_rings /\ op' = "idle"
  <2>1. vips' = [vips EXCEPT ![cvip] = AbsentVip] /\ cvip \in VipKeys
    BY <1>3, <1>a DEF delVipEnd, CallOK
  <2>2. vips'[cvip] = NewVip(maxVips, {}) /\ \A u \in VipKeys : u # cvip => vips'[u] = vips[u]
    BY <2>1, <1>a DEF VipTypeOK, AbsentVip
  <2>3. pend = {} /\ pend' = {} /\ UNCHANGED ch_rings /\ op' = "idle"
    BY SMTT(30), <1>3, <1>a DEF delVipEnd, ReturnFromVipCall
  <2> QED BY SMTT(30), <2>2, <2>3, <1>b
<1>4. /\ \A u \in VipKeys : Same(u) \/ Empty(u)
      /\ pend = {} /\ pend' = {} /\ UNCHANGED ch_rings /\ op' = "idle"
  BY <1>1, <1>2, <1>3
<1>5. \A v \in VipKeys : Pending(v)' = Pending(v)
  BY <1>4 DEF Pending
<1>6. EndpointsServed' /\ RingsWritten'
  BY <1>4, <1>5, VipsStay
<1>7. StageServed'
  BY <1>4 DEF StageServed
<1> QED BY <1>6, <1>7

\* Every step keeps VIPs served.
LEMMA ServedStep ==
  ASSUME DistinctReals, RingInv, [Next]_vars, BpfRealsAgree', PoolInv'
  PROVE  Served'
<1>a. (op # "write" => pend = {}) /\ VipTypeOK
  BY DEF RingInv, IndInv, TypeOK, Served, StageServed
<1>b. ASSUME UNCHANGED <<vips, ch_rings>>, pend = {}, pend' = {}, StageServed' PROVE Served'
  BY <1>b, QuietServed DEF Served
<1>c. ASSUME op' \notin {"ADD", "DEL"}, pend' = {} PROVE StageServed'
  BY <1>c DEF StageServed
<1>1. ASSUME UNCHANGED <<vipVars, vipCallVars>>, op \notin {"ADD", "DEL", "write"}, op' \notin {"ADD", "DEL"}
      PROVE  Served'
  BY <1>1, <1>a, <1>b, <1>c DEF vipVars, vipCallVars
<1>2. ASSUME QuicNext \/ SrcNext, UNCHANGED <<vipVars, vipCallVars>> PROVE Served'
  <2>1. op \notin {"ADD", "DEL", "write"} /\ op' \notin {"ADD", "DEL"}
    BY <1>2, OtherPoolStep, QuicStepVips, SrcStepVips DEF RingInv, VipNumInv
  <2> QED BY <2>1, <1>1, <1>2
<1>3. ASSUME UNCHANGED vars PROVE Served'
  <2>1. UNCHANGED <<op, vips, ch_rings, cvip, staged, changed, pend, bpf_reals, bpfFailed>>
    BY <1>3 DEF vars, poolVars, vipVars, vipCallVars
  <2> QED BY SMTT(30), <2>1
             DEF RingInv, Served, EndpointsServed, RingsWritten, StageServed, Endpoints, Present,
                 Pending
<1>4. ASSUME NEW v \in VipKeys, delVip(v) PROVE Served'
  BY SMTT(30), <1>4, <1>a, <1>b, <1>c DEF delVip, Idle, vipVars
<1>5. ASSUME delVipReal PROVE Served'
  <2>1. op = "delVip" /\ op' = "delVip" /\ UNCHANGED <<vips, ch_rings, pend>>
    BY <1>5 DEF delVipReal, vipVars
  <2> QED BY <2>1, <1>a, <1>b, <1>c
<1>6. ASSUME NEW act \in {"ADD", "DEL"}, NEW batch \in RealBatches, NEW v \in VipKeys,
             modifyRealsForVip(act, batch, v)
      PROVE  Served'
  <2>1. /\ op = "idle" /\ op' = act /\ cvip' = v /\ staged' = vips[v]
        /\ UNCHANGED <<vips, ch_rings, pend, bpf_reals, bpfFailed>>
    BY <1>6 DEF modifyRealsForVip, Idle, vipVars, poolVars
  <2>2. StageServed'
    BY <2>1, <1>a DEF StageServed, RingInv, Served, EndpointsServed
  <2> QED BY <2>1, <2>2, <1>a, <1>b
<1>7. ASSUME addReal PROVE Served'
  <2>1. op = "ADD" /\ UNCHANGED <<vips, ch_rings, pend>>
    BY <1>7 DEF addReal, vipVars
  <2> QED BY SMTT(30), <2>1, <1>7, <1>a, <1>b, AddRealServed
<1>8. ASSUME delReal PROVE Served'
  <2>1. op = "DEL" /\ UNCHANGED <<vips, ch_rings, pend>>
    BY <1>8 DEF delReal, vipVars
  <2> QED BY <2>1, <1>8, <1>a, <1>b, DelRealServed
<1>9. ASSUME modifyRealsEnd PROVE Served'
  BY <1>9, <1>b, <1>c DEF modifyRealsEnd, ReturnFromVipCall, vipVars
<1>10. ASSUME VipNext PROVE Served'
  BY SMTT(30), <1>10, <1>4, <1>5, <1>6, <1>7, <1>8, <1>9, BatchServed, WriteServed, VipCallServed
     DEF VipNext, Served
<1> QED BY <1>2, <1>3, <1>10 DEF Next

\* Initially no VIP exists, and no ring.
LEMMA InitRingInv == Init /\ IndInv => RingInv
<1> SUFFICES ASSUME Init, IndInv PROVE RingInv
  OBVIOUS
<1>2. BpfRealsAgree
  BY DEF Init, PoolInit, BpfRealsAgree
<1>3. op = "idle" /\ pend = {} /\ \A v \in VipKeys : vips[v] = AbsentVip
  BY DEF Init, VipInit
<1>4. /\ \A n \in Nums : AbsentVip.weight[n] = 0
      /\ \A i \in Pos : AbsentVip.chRing[i] = -1
  BY DEF AbsentVip, NewVip
<1>5. \A v \in VipKeys : Endpoints(v) = {}
  BY <1>3, <1>4 DEF Endpoints
<1>6. Served
  BY <1>3, <1>4, <1>5 DEF Served, EndpointsServed, RingsWritten, StageServed
<1> QED BY <1>2, <1>6, InitVipNumInv DEF RingInv

\* A step keeps what the rings lead to, as long as numbers keep their users.
LEMMA RingInvStep ==
  ASSUME DistinctReals
  PROVE  RingInv /\ IndInv' /\ [Next]_vars => RingInv'
<1> SUFFICES ASSUME RingInv, IndInv', [Next]_vars PROVE RingInv'
  OBVIOUS
<1>1. VipNumInv'
  BY VipNumInvStep DEF RingInv
<1>2. BpfRealsAgree' /\ PoolInv'
  BY EntriesInvStep DEF RingInv, VipNumInv, EntriesInv
<1> QED BY <1>1, <1>2, ServedStep DEF RingInv

-----------------------------------------------------------------------------
(* quic_mapping.                                                           *)

\* No two addresses have one id at the same time; an id may move from one to
\* another.  The callers keep to it: quic_mapping has room for one of them.
OneAddressPerId == \A a, b \in Addrs : quicMapping[a] # NoId /\ quicMapping[a] = quicMapping[b] => a = b

\* The number of a mapped address is in quic_mapping, or about to be written.
QuicServed ==
  ~bpfFailed => \A a \in Addrs : quicMapping[a] # NoId =>
    LET id == quicMapping[a] IN
    reals[a].num = IF to_update[id] = maxReals THEN quic_mapping[id] ELSE to_update[id]

\* An address that stays in use keeps its number.
LEMMA NumsStay ==
  ASSUME PoolTypeOK, PoolStep, NEW b \in Addrs, reals[b] # NoReal, reals'[b] # NoReal
  PROVE  reals'[b].num = reals[b].num
<1>1. CASE UNCHANGED reals
  BY <1>1
<1>2. ASSUME NEW a \in Addrs,
             \/ reals' = [reals EXCEPT ![a].refCount = @ + 1]
             \/ reals' = [reals EXCEPT ![a].refCount = @ - 1]
      PROVE  reals'[b].num = reals[b].num
  <2>1. CASE reals' = [reals EXCEPT ![a].refCount = @ + 1]
    BY <2>1 DEF PoolTypeOK, RealMeta
  <2>2. CASE reals' = [reals EXCEPT ![a].refCount = @ - 1]
    BY <2>2 DEF PoolTypeOK, RealMeta
  <2> QED BY <2>1, <2>2, <1>2
<1>3. ASSUME NEW a \in Addrs, NEW r, reals' = [reals EXCEPT ![a] = r], reals[a] = NoReal \/ r = NoReal
      PROVE  reals'[b].num = reals[b].num
  <2>1. reals'[a] = r /\ (b # a => reals'[b] = reals[b])
    BY <1>3 DEF PoolTypeOK
  <2>2. b # a
    BY <2>1, <1>3
  <2> QED BY <2>1, <2>2
<1>4. ASSUME NEW a \in Addrs, increaseRefCountForReal(a) PROVE reals'[b].num = reals[b].num
  <2>1. \/ UNCHANGED reals
        \/ reals' = [reals EXCEPT ![a].refCount = @ + 1]
        \/ reals[a] = NoReal /\ reals' = [reals EXCEPT ![a] = [num |-> Head(realNums), refCount |-> 1]]
    BY <1>4 DEF increaseRefCountForReal, poolVars
  <2> QED BY <2>1, <1>1, <1>2, <1>3
<1>5. ASSUME NEW a, decreaseRefCountForReal(a) PROVE reals'[b].num = reals[b].num
  BY <1>1, <1>2, <1>3, <1>5 DEF decreaseRefCountForReal
<1> QED BY <1>1, <1>4, <1>5 DEF PoolStep

\* Every step keeps the mapped ids served.
LEMMA QuicServedStep ==
  ASSUME OneAddressPerId', IndInv, IndInv', QuicServed, [Next]_vars, Remembers
  PROVE  QuicServed'
<1>a. PoolTypeOK /\ PoolPartition /\ QuicTypeOK /\ QuicRealsBound /\ QuicRealsBound' /\ PoolStep
  BY StepPool, IndInvParts DEF IndInv, TypeOK, RefCountCoversUsers
<1>b. \A a \in Addrs : quicMapping[a] # NoId /\ quicMapping'[a] # NoId => reals'[a].num = reals[a].num
  BY <1>a, NumsStay DEF QuicRealsBound
<1>1. ASSUME UNCHANGED <<quicVars, to_update>> PROVE QuicServed'
  BY <1>1, <1>b DEF QuicServed, quicVars, Remembers
<1>2. ASSUME NEW act \in {"ADD", "DEL"}, NEW batch \in QuicBatches, modifyQuicRealsMapping(act, batch) PROVE QuicServed'
  BY <1>1, <1>2 DEF modifyQuicRealsMapping
<1>3. ASSUME addQuicReal PROVE QuicServed'
  <2> DEFINE r == Head(qtodo)
             x == r.address
  <2>1. UNCHANGED quic_mapping /\ qtodo # <<>>
    BY <1>3 DEF addQuicReal
  <2>2. r.id \in QuicIds /\ x \in Addrs \cup {NoAddr}
    <3>1. r \in QuicReal
      BY SMTT(30), <2>1, <1>a DEF QuicTypeOK
    <3> QED BY <3>1 DEF QuicReal
  <2>3. \/ UNCHANGED <<quicMapping, to_update>>
        \/ /\ x # NoAddr /\ increaseRefCountForReal(x) /\ Rnum(x) # maxReals
           /\ to_update' = [to_update EXCEPT ![r.id] = Rnum(x)]
           /\ quicMapping' = [quicMapping EXCEPT ![x] = r.id]
    BY <1>3 DEF addQuicReal, SkippedQuicReal
  <2> HIDE DEF r
  <2>4. CASE UNCHANGED <<quicMapping, to_update>>
    BY <2>1, <2>4, <1>1 DEF quicVars
  <2>5. ASSUME x # NoAddr, increaseRefCountForReal(x), Rnum(x) # maxReals,
               to_update' = [to_update EXCEPT ![r.id] = Rnum(x)], quicMapping' = [quicMapping EXCEPT ![x] = r.id]
        PROVE  QuicServed'
    <3>1. x \in Addrs
      BY <2>2, <2>5
    <3>2. Rnum(x) \in Nums
      BY <3>1, <2>5, <1>a, RnumInPool
    <3>3. reals'[x].num = Rnum(x)
      BY <3>1, <2>5, <1>a, RnumInPool
    <3>4. /\ quicMapping'[x] = r.id /\ to_update'[r.id] = Rnum(x)
          /\ \A a \in Addrs : a # x => quicMapping'[a] = quicMapping[a]
          /\ \A id \in QuicIds : id # r.id => to_update'[id] = to_update[id]
      BY <3>1, <2>2, <2>5, <1>a DEF QuicTypeOK
    <3>5. \A a \in Addrs : a # x /\ quicMapping[a] # NoId => quicMapping[a] # r.id /\ quicMapping[a] \in QuicIds
      BY <3>1, <3>4, <1>a DEF OneAddressPerId, QuicTypeOK
    <3>6. to_update'[quicMapping'[x]] = reals'[x].num /\ to_update'[quicMapping'[x]] # maxReals
      BY <3>3, <3>4, <2>5
    <3>7. ASSUME ~bpfFailed', NEW a \in Addrs, quicMapping'[a] # NoId
          PROVE  reals'[a].num = IF to_update'[quicMapping'[a]] = maxReals THEN quic_mapping'[quicMapping'[a]]
                                 ELSE to_update'[quicMapping'[a]]
      <4>1. CASE a = x
        BY <4>1, <3>6
      <4>2. CASE a # x
        BY SMTT(30), <4>2, <3>4, <3>5, <3>7, <2>1, <1>b DEF QuicServed, Remembers
      <4> QED BY <4>1, <4>2
    <3> QED BY <3>7 DEF QuicServed
  <2> QED BY <2>3, <2>4, <2>5
<1>4. ASSUME delQuicReal PROVE QuicServed'
  <2>1. UNCHANGED <<quic_mapping, to_update>>
    BY <1>4 DEF delQuicReal
  <2>2. \/ UNCHANGED quicMapping
        \/ quicMapping' = [quicMapping EXCEPT ![Head(qtodo).address] = NoId]
    BY <1>4 DEF delQuicReal
  <2>3. \A a \in Addrs : quicMapping'[a] # NoId => quicMapping'[a] = quicMapping[a]
    BY <2>2, <1>a DEF QuicTypeOK
  <2> QED BY <2>1, <2>3, <1>b DEF QuicServed, Remembers
<1>5. ASSUME writeQuicMapping PROVE QuicServed'
  <2>1. PICK id \in QuicIds :
          /\ to_update[id] # maxReals /\ to_update' = [to_update EXCEPT ![id] = maxReals]
          /\ ~bpfFailed' => quic_mapping' = [quic_mapping EXCEPT ![id] = to_update[id]]
    BY <1>5 DEF writeQuicMapping, CountFailure
  <2>2. UNCHANGED <<quicMapping, reals>>
    BY <1>5 DEF writeQuicMapping
  <2>3. /\ to_update'[id] = maxReals /\ \A j \in QuicIds : j # id => to_update'[j] = to_update[j]
        /\ ~bpfFailed' => /\ quic_mapping'[id] = to_update[id]
                          /\ \A j \in QuicIds : j # id => quic_mapping'[j] = quic_mapping[j]
    BY <2>1, <1>a DEF QuicTypeOK
  <2>4. \A a \in Addrs : quicMapping[a] # NoId => quicMapping[a] \in QuicIds
    BY <1>a DEF QuicTypeOK
  <2> QED BY SMTT(30), <2>1, <2>2, <2>3, <2>4 DEF QuicServed, Remembers
<1>6. ASSUME modifyQuicEnd PROVE QuicServed'
  BY <1>6, <1>1 DEF modifyQuicEnd, quicCallVars
<1>7. ASSUME UNCHANGED <<quicVars, quicCallVars>> PROVE QuicServed'
  BY <1>7, <1>1 DEF quicCallVars
<1> QED BY SMTT(30), <1>2, <1>3, <1>4, <1>5, <1>6, <1>7 DEF Next, QuicNext, vars

-----------------------------------------------------------------------------
(* The LPM tries of source prefixes.                                       *)

\* The entry of a prefix is that of its rule, except between the two steps of
\* addSrcRoutingRule that install it.
SrcServed ==
  ~bpfFailed => \A s \in Srcs :
    \/ op = "srcWrite" /\ s = Head(src_networks)
    \/ lpm_src[s] = IF s \in HeldRules THEN lpmSrcMapping[s] ELSE maxReals

\* Every step keeps the rules served.
LEMMA SrcServedStep ==
  ASSUME PoolInv, SrcServed, [Next]_vars, Remembers
  PROVE  SrcServed'
<1>a. SrcTypeOK /\ CallOK
  BY DEF PoolInv, TypeOK
<1>b. \A s \in Srcs : s \in HeldRules <=> lpmSrcMapping[s] # maxReals /\ s \notin cleared
  BY DEF HeldRules, Rules
<1>c. \A s \in Srcs : s \in HeldRules' <=> lpmSrcMapping'[s] # maxReals /\ s \notin cleared'
  BY DEF HeldRules, Rules
<1>1. ASSUME UNCHANGED <<lpmSrcMapping, lpm_src, cleared>>, op # "srcWrite" PROVE SrcServed'
  BY <1>1, <1>b, <1>c DEF SrcServed, Remembers
<1>2. ASSUME addSrcRule PROVE SrcServed'
  <2>1. op = "srcADD" /\ src_networks # <<>> /\ UNCHANGED <<lpm_src, cleared>>
    BY <1>2 DEF addSrcRule
  <2>2. \/ UNCHANGED lpmSrcMapping
        \/ /\ lpmSrcMapping' = [lpmSrcMapping EXCEPT ![Head(src_networks)] = Rnum(dst)]
           /\ op' = "srcWrite" /\ UNCHANGED src_networks
    BY <1>2 DEF addSrcRule
  <2>3. CASE UNCHANGED lpmSrcMapping
    BY <2>1, <2>3, <1>1
  <2>4. CASE /\ lpmSrcMapping' = [lpmSrcMapping EXCEPT ![Head(src_networks)] = Rnum(dst)]
             /\ op' = "srcWrite" /\ UNCHANGED src_networks
    <3>1. \A s \in Srcs : s # Head(src_networks) => lpmSrcMapping'[s] = lpmSrcMapping[s]
      BY <2>4, <1>a DEF SrcTypeOK
    <3> QED BY <3>1, <2>1, <2>4, <1>b, <1>c DEF SrcServed, Remembers
  <2> QED BY <2>2, <2>3, <2>4
<1>3. \A act, s, n : modifyLpmSrcRule(act, s, n) /\ ~bpfFailed' =>
        lpm_src' = [lpm_src EXCEPT ![s] = IF act = "ADD" THEN n ELSE maxReals]
  BY DEF modifyLpmSrcRule, CountFailure
<1>4. ASSUME writeSrcRule PROVE SrcServed'
  <2> DEFINE x == Head(src_networks)
  <2>1. /\ op = "srcWrite" /\ op' = "srcADD" /\ UNCHANGED <<lpmSrcMapping, cleared>>
        /\ modifyLpmSrcRule("ADD", x, lpmSrcMapping[x])
    BY <1>4 DEF writeSrcRule
  <2>2. x \in Srcs /\ cleared = {}
    BY SMTT(30), <2>1, <1>a DEF CallOK, SrcTypeOK
  <2>3. ~bpfFailed' => lpm_src' = [lpm_src EXCEPT ![x] = lpmSrcMapping[x]]
    BY <2>1, <1>3
  <2>4. ~bpfFailed' => /\ lpm_src'[x] = lpmSrcMapping[x]
                      /\ \A s \in Srcs : s # x => lpm_src'[s] = lpm_src[s]
    BY <2>2, <2>3, <1>a DEF SrcTypeOK
  <2> QED BY <2>1, <2>2, <2>4, <1>b, <1>c DEF SrcServed, Remembers
<1>5. ASSUME delSrcRule PROVE SrcServed'
  <2> DEFINE x == Head(srcs)
  <2>1. op = "srcDEL" /\ UNCHANGED cleared
    BY <1>5 DEF delSrcRule
  <2>2. \/ UNCHANGED srcVars
        \/ /\ x \in Rules /\ modifyLpmSrcRule("DEL", x, lpmSrcMapping[x])
           /\ lpmSrcMapping' = [lpmSrcMapping EXCEPT ![x] = maxReals]
    BY <1>5 DEF delSrcRule
  <2> HIDE DEF x
  <2>3. CASE UNCHANGED srcVars
    BY <2>1, <2>3, <1>1 DEF srcVars
  <2>4. CASE /\ x \in Rules /\ modifyLpmSrcRule("DEL", x, lpmSrcMapping[x])
             /\ lpmSrcMapping' = [lpmSrcMapping EXCEPT ![x] = maxReals]
    <3>1. ~bpfFailed' => lpm_src' = [lpm_src EXCEPT ![x] = maxReals]
      BY <2>4, <1>3
    <3>2. x \in Srcs
      BY <2>4 DEF Rules
    <3>3. /\ lpmSrcMapping'[x] = maxReals /\ \A s \in Srcs : s # x => lpmSrcMapping'[s] = lpmSrcMapping[s]
          /\ ~bpfFailed' => lpm_src'[x] = maxReals /\ \A s \in Srcs : s # x => lpm_src'[s] = lpm_src[s]
      BY SMTT(30), <3>1, <3>2, <2>4, <1>a DEF SrcTypeOK
    <3> QED BY <3>2, <3>3, <2>1, <1>b, <1>c DEF SrcServed, Remembers
  <2> QED BY <2>2, <2>3, <2>4
<1>6. ASSUME clearSrcRule PROVE SrcServed'
  <2>1. PICK x \in Rules \ cleared : modifyLpmSrcRule("DEL", x, lpmSrcMapping[x]) /\ cleared' = cleared \cup {x}
    BY <1>6 DEF clearSrcRule
  <2>2. op = "srcCLEAR" /\ UNCHANGED lpmSrcMapping
    BY <1>6 DEF clearSrcRule
  <2>3. ~bpfFailed' => lpm_src' = [lpm_src EXCEPT ![x] = maxReals]
    BY <2>1, <1>3
  <2>4. x \in Srcs
    BY DEF Rules
  <2>5. ~bpfFailed' => lpm_src'[x] = maxReals /\ \A s \in Srcs : s # x => lpm_src'[s] = lpm_src[s]
    BY <2>3, <2>4, <1>a DEF SrcTypeOK
  <2> QED BY <2>1, <2>2, <2>4, <2>5, <1>b, <1>c DEF SrcServed, Remembers
<1>7. ASSUME clearSrcEnd PROVE SrcServed'
  <2>1. op = "srcCLEAR" /\ Rules \subseteq cleared /\ lpmSrcMapping' = NoRules /\ UNCHANGED <<lpm_src, bpfFailed>>
    BY <1>7 DEF clearSrcEnd, poolVars
  <2>2. \A s \in Srcs : s \notin HeldRules /\ s \notin HeldRules'
    BY <2>1, <1>c DEF HeldRules, NoRules
  <2> QED BY <2>1, <2>2 DEF SrcServed
<1>8. ASSUME addSrcEnd \/ delSrcEnd PROVE SrcServed'
  <2>1. UNCHANGED srcVars /\ op \in {"srcADD", "srcDEL"} /\ cleared' = {}
    BY <1>8 DEF addSrcEnd, delSrcEnd, ReturnFromSrcCall
  <2>2. cleared = {}
    BY <2>1, <1>a DEF CallOK
  <2> QED BY <2>1, <2>2, <1>1 DEF srcVars
<1>9. ASSUME \/ \E batch \in SrcBatches, a \in Addrs : addSrcRoutingRule(batch, a)
             \/ \E batch \in SrcBatches \cap Seq(Srcs), a \in Addrs : addSrcRoutingRuleCidr(batch, a)
             \/ parseSrc \/ parseSrcEnd
             \/ \E batch \in SrcBatches : delSrcRoutingRule(batch)
             \/ clearAllSrcRoutingRules
      PROVE  SrcServed'
  <2>1. UNCHANGED <<srcVars, cleared>> /\ op \in {"idle", "srcParse"}
    BY <1>9
       DEF addSrcRoutingRule, addSrcRoutingRuleCidr, parseSrc, parseSrcEnd, delSrcRoutingRule,
           clearAllSrcRoutingRules, srcCallVars, Idle
  <2> QED BY <2>1, <1>1 DEF srcVars
<1>10. ASSUME VipNext \/ QuicNext, UNCHANGED <<srcVars, srcCallVars>> PROVE SrcServed'
  <2>1. QuicNext => op \in {"idle", "quicADD", "quicDEL"}
    BY DEF QuicNext, modifyQuicRealsMapping, addQuicReal, delQuicReal, writeQuicMapping, modifyQuicEnd,
           Idle
  <2>2. VipNext => op \in {"idle", "delVip", "ADD", "DEL", "write"}
    BY DEF VipNext, addVip, modifyVip, delVip, delVipReal, delVipEnd, modifyRealsForVip, addReal,
           delReal, batchRealsUpdate, writeChRing, modifyRealsEnd, Idle
  <2> QED BY <2>1, <2>2, <1>1, <1>10 DEF srcVars, srcCallVars
<1>11. ASSUME UNCHANGED vars PROVE SrcServed'
  <2>1. UNCHANGED <<op, lpmSrcMapping, lpm_src, cleared, src_networks, bpfFailed>>
    BY <1>11 DEF vars, poolVars, srcVars, srcCallVars
  <2> QED BY <2>1, <1>b, <1>c DEF SrcServed
<1> QED BY <1>2, <1>4, <1>5, <1>6, <1>7, <1>8, <1>9, <1>10, <1>11 DEF Next, SrcNext

-----------------------------------------------------------------------------
(* All that the XDP program reads, besides the rings.                      *)

\* The inductive invariant.
ServingInv == IndInv /\ EntriesInv /\ QuicServed /\ SrcServed

\* Initially nothing is configured.
LEMMA InitServingInv == Init /\ IndInv => ServingInv
<1> SUFFICES ASSUME Init, IndInv PROVE ServingInv
  OBVIOUS
<1>2. EntriesInv
  BY InitPoolInv DEF EntriesInv, Init, PoolInit, StagedOK, BpfRealsAgree
<1>3. QuicServed
  BY SMTT(30) DEF Init, QuicInit, QuicServed
<1>4. SrcServed
  BY DEF Init, SrcInit, SrcServed, NoRules, HeldRules, Rules
<1> QED BY <1>2, <1>3, <1>4 DEF ServingInv

\* A step keeps what is served, as long as numbers keep their users.
LEMMA ServingInvStep ==
  ASSUME DistinctReals
  PROVE  ServingInv /\ IndInv' /\ OneAddressPerId' /\ [Next]_vars => ServingInv'
<1> SUFFICES ASSUME ServingInv, IndInv', OneAddressPerId', [Next]_vars PROVE ServingInv'
  OBVIOUS
<1>0. IndInv /\ EntriesInv /\ QuicServed /\ SrcServed
  BY DEF ServingInv
<1>1. EntriesInv' /\ Remembers
  BY <1>0, EntriesInvStep, StepRemembers DEF EntriesInv
<1>2. QuicServed'
  BY <1>0, <1>1, QuicServedStep
<1>3. SrcServed'
  BY <1>0, <1>1, SrcServedStep DEF EntriesInv
<1> QED BY <1>1, <1>2, <1>3 DEF ServingInv

\* What is served is what is configured.
LEMMA ServingInvServes == ServingInv => ServedIsConfigured
<1> SUFFICES ASSUME ServingInv PROVE ServedIsConfigured
  OBVIOUS
<1>1. QuicMappingServes
  BY SMTT(30)
     DEF ServingInv, QuicServed, QuicMappingServes, EntriesInv, BpfRealsAgree, IndInv,
         RefCountCoversUsers, QuicRealsBound
<1>2. SrcRuleServes
  BY DEF ServingInv, SrcServed, SrcRuleServes
<1> QED BY <1>1, <1>2 DEF ServingInv, ServedIsConfigured, EntriesInv

=============================================================================
