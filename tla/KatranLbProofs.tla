--------------------------- MODULE KatranLbProofs ---------------------------
(***************************************************************************)
(* Every step of KatranLb keeps types, the partition of the numbers and    *)
(* what a call in progress knows.  VIP numbers are never shared or lost,   *)
(* vip_map holds exactly the configured VIPs, and "reals" the address of   *)
(* every number in use.  addSrcRoutingRule returns 0 on success only.      *)
(***************************************************************************)
EXTENDS PoolProofs

\* The prover of every leaf that names no other.
USE ZenonT(30)

-----------------------------------------------------------------------------
(* addVip, delVip, modifyVip and modifyRealsForVip.                        *)

\* The count of failed bpf() calls stays a Boolean.
LEMMA CountedFailure == \A ok : CountFailure(ok) => bpfFailed' \in BOOLEAN
BY DEF CountFailure

\* addVip.
LEMMA AddVipPool ==
  ASSUME op \in Ops, PoolTypeOK, PoolPartition, VipTypeOK, CallOK,
         UNCHANGED <<dst, src_networks, cleared>>, NEW v \in VipKeys, NEW f \in AddFlags,
         addVip(v, f)
  PROVE  op' \in Ops /\ PoolTypeOK' /\ PoolPartition' /\ VipTypeOK' /\ CallOK'
<1>1. op' = op /\ op = "idle" /\ bpfFailed' \in BOOLEAN
  BY CountedFailure DEF addVip, Idle, addToVipMap
<1>2. PoolTypeOK' /\ PoolPartition'
  BY <1>1, PoolFrame DEF addVip
<1>3. Head(vipNums) \in VipNums /\ vipNums' \in Seq(VipNums)
  BY SMTT(30) DEF addVip, VipTypeOK
<1>4. NewVip(Head(vipNums), f) \in Vip /\ [num |-> Head(vipNums), flags |-> f] \in VipMeta
  BY SMTT(30), <1>3, VipValues, VipAssumption DEF VipMeta, VipNums
<1>5. vips' \in [VipKeys -> Vip]
  BY <1>4 DEF addVip, VipTypeOK
<1>6. vip_map' \in [VipDefs -> VipMeta]
  BY <1>4 DEF addVip, addToVipMap, VipTypeOK
<1>7. VipTypeOK'
  BY <1>3, <1>5, <1>6 DEF addVip, VipTypeOK, vipCallVars
<1> QED BY <1>1, <1>2, <1>7 DEF CallOK

\* modifyVip.
LEMMA ModifyVipPool ==
  ASSUME op \in Ops, PoolTypeOK, PoolPartition, VipTypeOK, CallOK,
         UNCHANGED <<dst, src_networks, cleared>>, NEW v \in VipKeys, NEW f \in ModFlags,
         NEW set \in BOOLEAN, modifyVip(v, f, set)
  PROVE  op' \in Ops /\ PoolTypeOK' /\ PoolPartition' /\ VipTypeOK' /\ CallOK'
<1>1. op' = op /\ op = "idle" /\ bpfFailed' \in BOOLEAN
  BY CountedFailure DEF modifyVip, Idle, addToVipMap
<1>2. PoolTypeOK' /\ PoolPartition'
  BY <1>1, PoolFrame DEF modifyVip
<1> DEFINE flags == IF set THEN vips[v].flags \cup {f} ELSE vips[v].flags \ {f}
<1>3. flags \in SUBSET Flags
  BY SMTT(30), VipAssumption DEF VipTypeOK, Vip
<1>4. vips' = [vips EXCEPT ![v].flags = flags] /\ addToVipMap(v, [num |-> vips[v].num, flags |-> flags])
  BY DEF modifyVip
<1> HIDE DEF flags
<1>5. vips' \in [VipKeys -> Vip]
  <2>1. vips[v] \in Vip
    BY DEF VipTypeOK
  <2>2. [vips[v] EXCEPT !.flags = flags] \in Vip
    BY <2>1, <1>3 DEF Vip
  <2> QED BY <2>2, <1>4 DEF VipTypeOK
<1>6. [num |-> vips[v].num, flags |-> flags] \in VipMeta
  BY <1>3 DEF VipTypeOK, Vip, VipMeta
<1>7. vip_map' \in [VipDefs -> VipMeta]
  BY <1>4, <1>6 DEF addToVipMap, VipTypeOK
<1>8. VipTypeOK'
  BY <1>5, <1>7 DEF modifyVip, VipTypeOK, vipCallVars
<1> QED BY <1>1, <1>2, <1>8 DEF CallOK

\* delVip.
LEMMA DelVipPool ==
  ASSUME op \in Ops, PoolTypeOK, PoolPartition, VipTypeOK, CallOK,
         UNCHANGED <<dst, src_networks, cleared>>, NEW v \in VipKeys, delVip(v)
  PROVE  op' \in Ops /\ PoolTypeOK' /\ PoolPartition' /\ VipTypeOK' /\ CallOK'
<1>1. PoolTypeOK' /\ PoolPartition'
  BY PoolFrame DEF delVip, poolVars, PoolTypeOK
<1>2. vips[v] \in Vip /\ vips[v].num \in VipNums
  BY SMTT(30), VipAssumption DEF delVip, Present, VipTypeOK, Vip, VipNums
<1>3. VipTypeOK'
  BY <1>2 DEF delVip, VipTypeOK, vipVars
<1>4. CallOK' /\ op' \in Ops
  BY <1>2 DEF delVip, CallOK, vipVars, Idle, Ops
<1> QED BY <1>1, <1>3, <1>4

\* The loop of delVip over the reals of the VIP.
LEMMA DelVipRealPool ==
  ASSUME op \in Ops, PoolTypeOK, PoolPartition, VipTypeOK, CallOK,
         UNCHANGED <<dst, src_networks, cleared>>, delVipReal
  PROVE  op' \in Ops /\ PoolTypeOK' /\ PoolPartition' /\ VipTypeOK' /\ CallOK'
<1>1. PICK n \in staged.reals : decreaseRefCountForReal(numToReals[n]) /\ staged' = [staged EXCEPT !.reals = @ \ {n}]
  BY DEF delVipReal
<1>2. n \in Nums /\ numToReals[n] \in Addrs \cup {NoAddr}
  BY <1>1 DEF VipTypeOK, Vip, PoolTypeOK
<1>3. PoolTypeOK' /\ PoolPartition'
  BY <1>1, <1>2, DecreaseKeepsPool DEF delVipReal, PoolTypeOK
<1>4. staged' \in Vip
  BY <1>1 DEF VipTypeOK, Vip
<1>5. VipTypeOK'
  BY <1>4 DEF delVipReal, VipTypeOK, vipVars
<1>6. CallOK' /\ op' \in Ops
  BY DEF delVipReal, CallOK, vipVars
<1> QED BY <1>3, <1>5, <1>6

\* The end of delVip.
LEMMA DelVipEndPool ==
  ASSUME op \in Ops, PoolTypeOK, PoolPartition, VipTypeOK, CallOK,
         UNCHANGED <<dst, src_networks, cleared>>, delVipEnd
  PROVE  op' \in Ops /\ PoolTypeOK' /\ PoolPartition' /\ VipTypeOK' /\ CallOK'
<1>1. cvip \in VipKeys /\ vips[cvip].num \in VipNums
  BY DEF delVipEnd, CallOK
<1>2. PoolTypeOK' /\ PoolPartition'
  BY CountedFailure, PoolFrame DEF delVipEnd, delFromVipMap
<1>3. vipNums' \in Seq(VipNums)
  BY SMTT(30), <1>1 DEF delVipEnd, VipTypeOK
<1>4. vips' \in [VipKeys -> Vip]
  BY VipValues DEF delVipEnd, VipTypeOK
<1>5. vip_map' \in [VipDefs -> VipMeta]
  BY VipValues DEF delVipEnd, delFromVipMap, VipTypeOK
<1>6. VipTypeOK'
  <2>0. cvip' = NoVip /\ todo' = <<>> /\ cur_reals' = {}
    BY DEF delVipEnd, ReturnFromVipCall
  <2>1. cvip' \in VipKeys \cup {NoVip} /\ todo' \in Seq(NewReal) /\ cur_reals' \in SUBSET Nums
    BY SMTT(30), <2>0
  <2>2. staged' \in Vip /\ changed' \in BOOLEAN /\ pend' \in SUBSET Pos /\ ch_rings' = ch_rings
    BY VipValues DEF delVipEnd, ReturnFromVipCall
  <2> QED BY <2>1, <2>2, <1>3, <1>4, <1>5 DEF VipTypeOK
<1>7. CallOK' /\ op' \in Ops
  BY DEF delVipEnd, ReturnFromVipCall, CallOK, Ops
<1> QED BY <1>2, <1>6, <1>7

\* modifyRealsForVip begins.
LEMMA ModifyRealsPool ==
  ASSUME op \in Ops, PoolTypeOK, PoolPartition, VipTypeOK, CallOK,
         UNCHANGED <<dst, src_networks, cleared>>, NEW act \in {"ADD", "DEL"},
         NEW batch \in RealBatches, NEW v \in VipKeys, modifyRealsForVip(act, batch, v)
  PROVE  op' \in Ops /\ PoolTypeOK' /\ PoolPartition' /\ VipTypeOK' /\ CallOK'
<1>1. PoolTypeOK' /\ PoolPartition'
  BY PoolFrame DEF modifyRealsForVip, poolVars, PoolTypeOK
<1>2. vips[v] \in Vip /\ vips[v].num \in VipNums /\ vips[v].reals \in SUBSET Nums
  BY SMTT(30), VipAssumption DEF modifyRealsForVip, Present, VipTypeOK, Vip, VipNums
<1>3. VipTypeOK'
  BY <1>2, PoolAssumption, VipAssumption DEF modifyRealsForVip, VipTypeOK, vipVars
<1>4. CallOK' /\ op' \in Ops
  BY <1>2 DEF modifyRealsForVip, CallOK, vipVars, Idle, Ops
<1> QED BY <1>1, <1>3, <1>4

\* addReal, by what the address is to the pool and to the VIP.
LEMMA AddRealPool ==
  ASSUME op \in Ops, PoolTypeOK, PoolPartition, VipTypeOK, CallOK,
         UNCHANGED <<dst, src_networks, cleared>>, addReal
  PROVE  op' \in Ops /\ PoolTypeOK' /\ PoolPartition' /\ VipTypeOK' /\ CallOK'
<1> DEFINE r == Head(todo)
           a == r.address
<1>1. r \in NewReal /\ a \in Addrs \cup {NoAddr} /\ r.weight \in Weights /\ todo' \in Seq(NewReal)
  <2>1. todo # <<>> /\ todo' = Tail(todo) /\ todo \in Seq(NewReal)
    BY DEF addReal, VipTypeOK
  <2>2. r \in NewReal /\ todo' \in Seq(NewReal)
    BY SMTT(30), <2>1
  <2> QED BY <2>2 DEF NewReal
<1>2. ASSUME NEW n \in Nums, PushAdd(n, r)
      PROVE  staged' \in Vip /\ changed' \in BOOLEAN /\ staged'.num = staged.num
  BY <1>1, <1>2 DEF PushAdd, VipTypeOK, Vip
<1>3. /\ PoolTypeOK' /\ PoolPartition'
      /\ staged' \in Vip /\ changed' \in BOOLEAN /\ staged'.num = staged.num
      /\ cur_reals' \in SUBSET Nums
  <2>1. CASE a = NoAddr
    BY <2>1, PoolFrame DEF addReal, poolVars, PoolTypeOK, VipTypeOK
  <2>2. CASE a # NoAddr /\ reals[a] # NoReal /\ reals[a].num \in cur_reals
    <3>1. reals[a].num \in Nums
      BY <2>2, <1>1 DEF PoolPartition
    <3>2. PushAdd(reals[a].num, r) /\ UNCHANGED <<poolVars, cur_reals>>
      BY <2>2 DEF addReal
    <3>3. PoolTypeOK' /\ PoolPartition'
      BY <3>2, PoolFrame DEF poolVars, PoolTypeOK
    <3> QED BY <3>1, <3>2, <3>3, <1>2 DEF VipTypeOK
  <2>3. CASE a # NoAddr /\ reals[a] # NoReal /\ reals[a].num \notin cur_reals
    <3>1. reals[a].num \in Nums
      BY <2>3, <1>1 DEF PoolPartition
    <3>2. PushAdd(reals[a].num, r) /\ increaseRefCountForReal(a) /\ cur_reals' = cur_reals \cup {reals[a].num}
      BY <2>3 DEF addReal
    <3>3. PoolTypeOK' /\ PoolPartition'
      BY <3>2, <1>1, <2>3, IncreaseKeepsPool
    <3> QED BY <3>1, <3>2, <3>3, <1>2 DEF VipTypeOK
  <2>4. CASE a # NoAddr /\ reals[a] = NoReal
    <3>1. /\ increaseRefCountForReal(a) /\ UNCHANGED cur_reals
          /\ IF Rnum(a) = maxReals THEN UNCHANGED <<staged, changed>> ELSE PushAdd(Rnum(a), r)
      BY <2>4 DEF addReal
    <3>2. Rnum(a) # maxReals => Rnum(a) \in Nums
      BY SMTT(30), <2>4 DEF Rnum, PoolTypeOK
    <3>3. PoolTypeOK' /\ PoolPartition'
      BY <3>1, <1>1, <2>4, IncreaseKeepsPool
    <3>4. CASE Rnum(a) = maxReals
      BY <3>1, <3>3, <3>4 DEF VipTypeOK
    <3>5. CASE Rnum(a) # maxReals
      BY <3>1, <3>2, <3>3, <3>5, <1>2 DEF VipTypeOK
    <3> QED BY <3>4, <3>5
  <2> QED BY <2>1, <2>2, <2>3, <2>4
<1>4. UNCHANGED <<op, vipVars, cvip, pend>> /\ op = "ADD"
  BY DEF addReal
<1>5. VipTypeOK'
  BY <1>1, <1>3, <1>4 DEF VipTypeOK, vipVars
<1>6. CallOK' /\ op' \in Ops
  BY <1>3, <1>4 DEF CallOK, vipVars
<1> QED BY <1>3, <1>5, <1>6

\* delReal.
LEMMA DelRealPool ==
  ASSUME op \in Ops, PoolTypeOK, PoolPartition, VipTypeOK, CallOK,
         UNCHANGED <<dst, src_networks, cleared>>, delReal
  PROVE  op' \in Ops /\ PoolTypeOK' /\ PoolPartition' /\ VipTypeOK' /\ CallOK'
<1> DEFINE a == Head(todo).address
           ofVip == a # NoAddr /\ reals[a] # NoReal /\ reals[a].num \in cur_reals
<1>1. a \in Addrs \cup {NoAddr} /\ todo' \in Seq(NewReal)
  <2>1. todo # <<>> /\ todo' = Tail(todo) /\ todo \in Seq(NewReal)
    BY DEF delReal, VipTypeOK
  <2>2. Head(todo) \in NewReal /\ todo' \in Seq(NewReal)
    BY SMTT(30), <2>1
  <2> QED BY <2>2 DEF NewReal
<1>2. /\ PoolTypeOK' /\ PoolPartition'
      /\ staged' \in Vip /\ changed' \in BOOLEAN /\ staged'.num = staged.num
  <2>1. CASE ~ofVip
    BY <2>1, PoolFrame DEF delReal, poolVars, PoolTypeOK, VipTypeOK
  <2>2. CASE ofVip
    <3>1. decreaseRefCountForReal(a) /\ PushDel(reals[a].num) /\ UNCHANGED <<bpf_reals, bpfFailed>>
      BY <2>2 DEF delReal
    <3>2. PoolTypeOK' /\ PoolPartition'
      BY <3>1, <1>1, DecreaseKeepsPool DEF PoolTypeOK
    <3>3. staged' \in Vip /\ changed' \in BOOLEAN /\ staged'.num = staged.num
      BY <3>1, PoolAssumption, VipAssumption DEF PushDel, VipTypeOK, Vip
    <3> QED BY <3>2, <3>3
  <2> QED BY <2>1, <2>2
<1>3. UNCHANGED <<op, vipVars, cvip, cur_reals, pend>> /\ op = "DEL"
  BY DEF delReal
<1>4. VipTypeOK'
  BY <1>1, <1>2, <1>3 DEF VipTypeOK, vipVars
<1>5. CallOK' /\ op' \in Ops
  BY <1>2, <1>3 DEF CallOK, vipVars
<1> QED BY <1>2, <1>4, <1>5

\* batchRealsUpdate replaces the VIP and computes its ring.
LEMMA BatchRealsPool ==
  ASSUME op \in Ops, PoolTypeOK, PoolPartition, VipTypeOK, CallOK,
         UNCHANGED <<dst, src_networks, cleared>>, batchRealsUpdate
  PROVE  op' \in Ops /\ PoolTypeOK' /\ PoolPartition' /\ VipTypeOK' /\ CallOK'
<1>1. cvip \in VipKeys /\ staged.num \in VipNums /\ staged \in Vip
  BY DEF batchRealsUpdate, CallOK, VipTypeOK
<1>2. PoolTypeOK' /\ PoolPartition'
  BY PoolFrame DEF batchRealsUpdate, poolVars, PoolTypeOK
<1> DEFINE new == [staged EXCEPT !.chRing = NewRing]
<1>3. new \in Vip /\ new.num \in VipNums /\ new.chRing = NewRing
  BY <1>1, NewRingType DEF Vip
<1>4. vips' = [vips EXCEPT ![cvip] = new] /\ pend' = {i \in Pos : NewRing[i] # staged.chRing[i]}
  BY DEF batchRealsUpdate
<1> HIDE DEF new
<1>5. vips' \in [VipKeys -> Vip] /\ vips'[cvip] = new
  BY <1>1, <1>3, <1>4 DEF VipTypeOK
<1>6. VipTypeOK'
  <2>1. pend' \in SUBSET Pos /\ cur_reals' \in SUBSET Nums /\ staged' \in Vip /\ changed' \in BOOLEAN
    BY <1>4, VipValues DEF batchRealsUpdate
  <2> QED BY <2>1, <1>5 DEF batchRealsUpdate, VipTypeOK
<1>7. \A i \in pend' : vips'[cvip].chRing[i] \in Nums
  BY <1>1, <1>3, <1>4, <1>5, NewRingType
<1>8. op' = "write" /\ cvip' = cvip /\ op \in {"ADD", "DEL"}
  BY DEF batchRealsUpdate
<1>9. CallOK' /\ op' \in Ops
  BY <1>1, <1>3, <1>5, <1>7, <1>8 DEF CallOK, Ops
<1> QED BY <1>2, <1>6, <1>9

\* writeChRing.
LEMMA WriteChRingPool ==
  ASSUME op \in Ops, PoolTypeOK, PoolPartition, VipTypeOK, CallOK,
         UNCHANGED <<dst, src_networks, cleared>>, writeChRing
  PROVE  op' \in Ops /\ PoolTypeOK' /\ PoolPartition' /\ VipTypeOK' /\ CallOK'
<1>1. PICK i \in pend : \E ok \in BpfResults :
         /\ ch_rings' = IF ok THEN [ch_rings EXCEPT ![vips[cvip].num][i] = vips[cvip].chRing[i]]
                        ELSE ch_rings
         /\ CountFailure(ok)
         /\ pend' = pend \ {i}
  BY DEF writeChRing
<1>2. cvip \in VipKeys /\ vips[cvip].num \in VipNums /\ vips[cvip].chRing[i] \in Nums /\ i \in Pos
  BY <1>1 DEF writeChRing, CallOK, VipTypeOK
<1>3. PoolTypeOK' /\ PoolPartition'
  BY <1>1, CountedFailure, PoolFrame DEF writeChRing
<1>4. ch_rings' \in [VipNums -> [Pos -> Nums]]
  BY SMTT(30), <1>1, <1>2 DEF VipTypeOK
<1>5. VipTypeOK'
  BY <1>1, <1>4 DEF writeChRing, VipTypeOK
<1>6. CallOK' /\ op' \in Ops
  BY <1>1, <1>2 DEF writeChRing, CallOK
<1> QED BY <1>3, <1>5, <1>6

\* The return of modifyRealsForVip.
LEMMA ModifyRealsEndPool ==
  ASSUME op \in Ops, PoolTypeOK, PoolPartition, VipTypeOK, CallOK,
         UNCHANGED <<dst, src_networks, cleared>>, modifyRealsEnd
  PROVE  op' \in Ops /\ PoolTypeOK' /\ PoolPartition' /\ VipTypeOK' /\ CallOK'
<1>1. PoolTypeOK' /\ PoolPartition'
  BY PoolFrame DEF modifyRealsEnd, poolVars, PoolTypeOK
<1>2. cvip' \in VipKeys \cup {NoVip} /\ todo' \in Seq(NewReal) /\ cur_reals' \in SUBSET Nums
  BY SMTT(30) DEF modifyRealsEnd, ReturnFromVipCall
<1>3. staged' \in Vip /\ changed' \in BOOLEAN /\ pend' \in SUBSET Pos
  BY VipValues DEF modifyRealsEnd, ReturnFromVipCall
<1>4. VipTypeOK'
  BY <1>2, <1>3 DEF modifyRealsEnd, VipTypeOK, vipVars
<1>5. CallOK' /\ op' \in Ops
  BY DEF modifyRealsEnd, ReturnFromVipCall, CallOK, Ops
<1> QED BY <1>1, <1>4, <1>5

\* The VIP component keeps the invariant, action by action.
LEMMA VipStepPoolInv ==
  ASSUME PoolInv, VipNext, UNCHANGED <<quicVars, quicCallVars, srcVars, srcCallVars>>
  PROVE  PoolInv'
<1> DEFINE Goal == op \in Ops /\ PoolTypeOK /\ PoolPartition /\ VipTypeOK /\ CallOK
<1>a. op \in Ops /\ PoolTypeOK /\ PoolPartition /\ VipTypeOK /\ CallOK
  BY DEF PoolInv, TypeOK
<1>b. UNCHANGED <<dst, src_networks, cleared>>
  BY DEF srcCallVars
<1>1. ASSUME NEW v \in VipKeys, NEW f \in AddFlags, addVip(v, f) PROVE Goal'
  BY <1>1, <1>a, <1>b, AddVipPool
<1>2. ASSUME NEW v \in VipKeys, NEW f \in ModFlags, NEW set \in BOOLEAN, modifyVip(v, f, set) PROVE Goal'
  BY <1>2, <1>a, <1>b, ModifyVipPool
<1>3. ASSUME NEW v \in VipKeys, delVip(v) PROVE Goal'
  BY <1>3, <1>a, <1>b, DelVipPool
<1>4. ASSUME delVipReal PROVE Goal'
  BY <1>4, <1>a, <1>b, DelVipRealPool
<1>5. ASSUME delVipEnd PROVE Goal'
  BY <1>5, <1>a, <1>b, DelVipEndPool
<1>6. ASSUME NEW act \in {"ADD", "DEL"}, NEW batch \in RealBatches, NEW v \in VipKeys,
             modifyRealsForVip(act, batch, v)
      PROVE  Goal'
  BY <1>6, <1>a, <1>b, ModifyRealsPool
<1>7. ASSUME addReal PROVE Goal'
  BY <1>7, <1>a, <1>b, AddRealPool
<1>8. ASSUME delReal PROVE Goal'
  BY <1>8, <1>a, <1>b, DelRealPool
<1>9. ASSUME batchRealsUpdate PROVE Goal'
  BY <1>9, <1>a, <1>b, BatchRealsPool
<1>10. ASSUME writeChRing PROVE Goal'
  BY <1>10, <1>a, <1>b, WriteChRingPool
<1>11. ASSUME modifyRealsEnd PROVE Goal'
  BY <1>11, <1>a, <1>b, ModifyRealsEndPool
<1>12. Goal'
  BY <1>1, <1>2, <1>3, <1>4, <1>5, <1>6, <1>7, <1>8, <1>9, <1>10, <1>11 DEF VipNext
<1> QED BY <1>12, VipFrame DEF PoolInv, TypeOK

-----------------------------------------------------------------------------
(* The QUIC and the source routing calls.                                  *)

\* The next entry of the batch.
LEMMA QuicHead ==
  ASSUME QuicTypeOK, qtodo # <<>>, qtodo' = Tail(qtodo)
  PROVE  /\ Head(qtodo).address \in Addrs \cup {NoAddr} /\ Head(qtodo).id \in QuicIds
         /\ qtodo' \in Seq(QuicReal)
<1>1. Head(qtodo) \in QuicReal /\ qtodo' \in Seq(QuicReal)
  BY SMTT(30) DEF QuicTypeOK
<1> QED BY <1>1 DEF QuicReal

\* modifyQuicRealsMapping begins.
LEMMA ModifyQuicPool ==
  ASSUME op \in Ops, PoolTypeOK, PoolPartition, QuicTypeOK, CallOK, NEW act \in {"ADD", "DEL"},
         NEW batch \in QuicBatches, modifyQuicRealsMapping(act, batch)
  PROVE  op' \in Ops /\ PoolTypeOK' /\ PoolPartition' /\ QuicTypeOK'
<1>1. PoolTypeOK' /\ PoolPartition'
  BY PoolFrame DEF modifyQuicRealsMapping, poolVars, PoolTypeOK
<1>2. QuicTypeOK' /\ op' \in Ops
  BY PoolAssumption, QuicAssumption DEF modifyQuicRealsMapping, QuicTypeOK, quicVars, Ops
<1> QED BY <1>1, <1>2

\* addQuicReal takes a number for a new mapping.
LEMMA AddQuicPool ==
  ASSUME op \in Ops, PoolTypeOK, PoolPartition, QuicTypeOK, CallOK, addQuicReal
  PROVE  op' \in Ops /\ PoolTypeOK' /\ PoolPartition' /\ QuicTypeOK'
<1> DEFINE r == Head(qtodo)
           a == r.address
           new == ~SkippedQuicReal(r) /\ quicMapping[a] = NoId
<1>1. a \in Addrs \cup {NoAddr} /\ r.id \in QuicIds /\ qtodo' \in Seq(QuicReal)
  BY QuicHead DEF addQuicReal
<1>2. /\ PoolTypeOK' /\ PoolPartition'
      /\ quicMapping' \in [Addrs -> QuicIds \cup {NoId}] /\ to_update' \in [QuicIds -> 0..maxReals]
  <2>1. CASE ~new
    BY <2>1, PoolFrame DEF addQuicReal, poolVars, PoolTypeOK, QuicTypeOK
  <2>2. CASE new
    <3>1. /\ increaseRefCountForReal(a)
          /\ IF Rnum(a) = maxReals
             THEN UNCHANGED <<quicMapping, to_update>>
             ELSE /\ to_update' = [to_update EXCEPT ![r.id] = Rnum(a)]
                  /\ quicMapping' = [quicMapping EXCEPT ![a] = r.id]
      BY <2>2 DEF addQuicReal
    <3>2. a \in Addrs
      BY <2>2, <1>1 DEF SkippedQuicReal
    <3>3. PoolTypeOK' /\ PoolPartition'
      BY <3>1, <3>2, IncreaseKeepsPool
    <3>4. Rnum(a) \in 0..maxReals
      BY SMTT(30), <3>2, PoolAssumption DEF Rnum, PoolTypeOK, RealMeta, Nums
    <3> QED BY <3>1, <3>2, <3>3, <3>4, <1>1 DEF QuicTypeOK
  <2> QED BY <2>1, <2>2
<1> QED BY <1>1, <1>2 DEF addQuicReal, QuicTypeOK

\* delQuicReal gives up the number of a mapping.
LEMMA DelQuicPool ==
  ASSUME op \in Ops, PoolTypeOK, PoolPartition, QuicTypeOK, CallOK, delQuicReal
  PROVE  op' \in Ops /\ PoolTypeOK' /\ PoolPartition' /\ QuicTypeOK'
<1> DEFINE r == Head(qtodo)
           a == r.address
           mapped == ~SkippedQuicReal(r) /\ quicMapping[a] # NoId
<1>1. a \in Addrs \cup {NoAddr} /\ qtodo' \in Seq(QuicReal)
  BY QuicHead DEF delQuicReal
<1>2. PoolTypeOK' /\ PoolPartition' /\ quicMapping' \in [Addrs -> QuicIds \cup {NoId}]
  <2>1. CASE ~mapped
    BY <2>1, PoolFrame DEF delQuicReal, poolVars, PoolTypeOK, QuicTypeOK
  <2>2. CASE mapped
    <3>1. /\ decreaseRefCountForReal(a) /\ UNCHANGED <<bpf_reals, bpfFailed>>
          /\ quicMapping' = [quicMapping EXCEPT ![a] = NoId]
      BY <2>2 DEF delQuicReal
    <3>2. PoolTypeOK' /\ PoolPartition'
      BY <3>1, <1>1, DecreaseKeepsPool DEF PoolTypeOK
    <3> QED BY <3>1, <3>2 DEF QuicTypeOK
  <2> QED BY <2>1, <2>2
<1> QED BY <1>1, <1>2 DEF delQuicReal, QuicTypeOK

\* An update of quic_mapping.
LEMMA WriteQuicPool ==
  ASSUME op \in Ops, PoolTypeOK, PoolPartition, QuicTypeOK, CallOK, writeQuicMapping
  PROVE  op' \in Ops /\ PoolTypeOK' /\ PoolPartition' /\ QuicTypeOK'
<1>1. PICK id \in QuicIds, res \in BpfResults :
        LET ok == res /\ id < quicMapSize IN
        /\ to_update[id] # maxReals
        /\ quic_mapping' = IF ok THEN [quic_mapping EXCEPT ![id] = to_update[id]] ELSE quic_mapping
        /\ CountFailure(ok)
        /\ to_update' = [to_update EXCEPT ![id] = maxReals]
  BY DEF writeQuicMapping
<1>2. bpfFailed' \in BOOLEAN
  BY <1>1 DEF CountFailure
<1>3. PoolTypeOK' /\ PoolPartition'
  BY <1>2, PoolFrame DEF writeQuicMapping
<1>4. to_update[id] \in Nums
  BY SMTT(30), <1>1, PoolAssumption DEF QuicTypeOK, Nums
<1>5. quic_mapping' \in [QuicIds -> Nums] /\ to_update' \in [QuicIds -> 0..maxReals]
  BY SMTT(30), <1>1, <1>4, PoolAssumption DEF QuicTypeOK
<1> QED BY <1>3, <1>5 DEF writeQuicMapping, QuicTypeOK

\* The return of modifyQuicRealsMapping.
LEMMA ModifyQuicEndPool ==
  ASSUME op \in Ops, PoolTypeOK, PoolPartition, QuicTypeOK, CallOK, modifyQuicEnd
  PROVE  op' \in Ops /\ PoolTypeOK' /\ PoolPartition' /\ QuicTypeOK'
<1>1. PoolTypeOK' /\ PoolPartition'
  BY PoolFrame DEF modifyQuicEnd, poolVars, PoolTypeOK
<1> QED BY <1>1 DEF modifyQuicEnd, QuicTypeOK, quicVars, quicCallVars, Ops

\* So does the QUIC component.
LEMMA QuicStepPoolInv ==
  ASSUME PoolInv, QuicNext, UNCHANGED <<vipVars, vipCallVars, srcVars, srcCallVars>>
  PROVE  PoolInv'
<1> DEFINE Goal == op \in Ops /\ PoolTypeOK /\ PoolPartition /\ QuicTypeOK
<1>a. op \in Ops /\ PoolTypeOK /\ PoolPartition /\ QuicTypeOK /\ CallOK
  BY DEF PoolInv, TypeOK
<1>b. VipTypeOK' /\ SrcTypeOK'
  BY DEF PoolInv, TypeOK, VipTypeOK, SrcTypeOK, vipVars, vipCallVars, srcVars, srcCallVars
<1>1. ASSUME NEW act \in {"ADD", "DEL"}, NEW batch \in QuicBatches, modifyQuicRealsMapping(act, batch)
      PROVE  Goal'
  BY <1>1, <1>a, ModifyQuicPool
<1>2. ASSUME addQuicReal PROVE Goal'
  BY <1>2, <1>a, AddQuicPool
<1>3. ASSUME delQuicReal PROVE Goal'
  BY <1>3, <1>a, DelQuicPool
<1>4. ASSUME writeQuicMapping PROVE Goal'
  BY <1>4, <1>a, WriteQuicPool
<1>5. ASSUME modifyQuicEnd PROVE Goal'
  BY <1>5, <1>a, ModifyQuicEndPool
<1>6. Goal'
  BY <1>1, <1>2, <1>3, <1>4, <1>5 DEF QuicNext
<1>7. op \in {"idle", "quicADD", "quicDEL"} /\ op' \in {"idle", "quicADD", "quicDEL"}
  BY DEF QuicNext, modifyQuicRealsMapping, Idle, addQuicReal, delQuicReal, writeQuicMapping,
         modifyQuicEnd
<1>8. CallOK'
  BY <1>7, <1>a DEF CallOK, srcCallVars
<1> QED BY <1>6, <1>8, <1>b DEF PoolInv, TypeOK

\* What the calls of source routing know of their local variables.
SrcCallOK ==
  /\ op \in {"idle", "srcParse", "srcADD", "srcWrite", "srcDEL", "srcCLEAR"}
  /\ op \in {"srcParse", "srcADD", "srcWrite"} => dst \in Addrs
  /\ op = "srcWrite" => src_networks # <<>>
  /\ op # "srcCLEAR" => cleared = {}

\* It is all that CallOK says then.
LEMMA SrcCallKnows ==
  ASSUME SrcCallOK', UNCHANGED <<cvip, vips, staged, pend>>
  PROVE  CallOK' /\ op' \in Ops
BY DEF SrcCallOK, CallOK, Ops

\* Failed writes of a trie are counted.
LEMMA RuleFailure == \A act, s, num : modifyLpmSrcRule(act, s, num) => bpfFailed' \in BOOLEAN
BY DEF modifyLpmSrcRule, CountFailure

\* A write of a trie leaves numbers in it.
LEMMA RuleWritten ==
  ASSUME SrcTypeOK, NEW act, NEW s, NEW num \in 0..maxReals, modifyLpmSrcRule(act, s, num)
  PROVE  lpm_src' \in [Srcs -> 0..maxReals]
<1>1. maxReals \in 0..maxReals /\ lpm_src \in [Srcs -> 0..maxReals]
  BY SMTT(30), PoolAssumption DEF SrcTypeOK
<1>2. PICK to \in 0..maxReals : lpm_src' \in {lpm_src, [lpm_src EXCEPT ![s] = to]}
  BY <1>1 DEF modifyLpmSrcRule
<1> QED BY <1>1, <1>2

\* A call returns.
LEMMA SrcReturns ==
  ASSUME SrcTypeOK, ReturnFromSrcCall, lpmSrcMapping' \in [Srcs -> 0..maxReals], UNCHANGED lpm_src
  PROVE  SrcTypeOK' /\ SrcCallOK'
BY SMTT(30) DEF ReturnFromSrcCall, SrcTypeOK, SrcCallOK

\* addSrcRoutingRule begins.
LEMMA AddSrcPool ==
  ASSUME op \in Ops, PoolTypeOK, PoolPartition, SrcTypeOK, CallOK,
         UNCHANGED <<cvip, vips, staged, pend>>, NEW batch \in SrcBatches, NEW a \in Addrs,
         addSrcRoutingRule(batch, a)
  PROVE  op' \in Ops /\ PoolTypeOK' /\ PoolPartition' /\ SrcTypeOK' /\ CallOK'
<1>1. PoolTypeOK' /\ PoolPartition'
  BY PoolFrame DEF addSrcRoutingRule, poolVars, PoolTypeOK
<1>2. SrcTypeOK' /\ SrcCallOK'
  BY PoolAssumption, SrcAssumption DEF SrcCallOK, addSrcRoutingRule, SrcTypeOK, CallOK, srcVars, Idle
<1> QED BY <1>1, <1>2, SrcCallKnows

\* The same for parsed prefixes.
LEMMA AddSrcCidrPool ==
  ASSUME op \in Ops, PoolTypeOK, PoolPartition, SrcTypeOK, CallOK,
         UNCHANGED <<cvip, vips, staged, pend>>, NEW batch \in SrcBatches \cap Seq(Srcs),
         NEW a \in Addrs, addSrcRoutingRuleCidr(batch, a)
  PROVE  op' \in Ops /\ PoolTypeOK' /\ PoolPartition' /\ SrcTypeOK' /\ CallOK'
<1>1. PoolTypeOK' /\ PoolPartition'
  BY PoolFrame DEF addSrcRoutingRuleCidr, poolVars, PoolTypeOK
<1>2. SrcTypeOK' /\ SrcCallOK'
  BY PoolAssumption, SrcAssumption
     DEF SrcCallOK, addSrcRoutingRuleCidr, SrcTypeOK, CallOK, srcVars, Idle
<1> QED BY <1>1, <1>2, SrcCallKnows

\* parseSrc.
LEMMA ParseSrcPool ==
  ASSUME op \in Ops, PoolTypeOK, PoolPartition, SrcTypeOK, CallOK,
         UNCHANGED <<cvip, vips, staged, pend>>, parseSrc
  PROVE  op' \in Ops /\ PoolTypeOK' /\ PoolPartition' /\ SrcTypeOK' /\ CallOK'
<1>1. PoolTypeOK' /\ PoolPartition'
  BY PoolFrame DEF parseSrc, poolVars, PoolTypeOK
<1>2. Head(srcs) \in Srcs \cup {BadSrc} /\ Tail(srcs) \in Seq(Srcs \cup {BadSrc})
  BY SMTT(30) DEF parseSrc, SrcTypeOK
<1>3. Len(asked) \in Int /\ Len(src_networks) \in Int
  BY SMTT(30)
<1>4. srcs' \in Seq(Srcs \cup {BadSrc}) /\ src_networks' \in Seq(Srcs) /\ num_errors' \in Int
  <2>1. srcs' \in {Tail(srcs), <<>>} /\ src_networks' \in {src_networks, Append(src_networks, Head(srcs))}
        /\ num_errors' \in {num_errors, num_errors + 1, num_errors + (Len(asked) - Len(src_networks))}
    BY DEF parseSrc
  <2>2. Head(srcs) \notin Srcs => src_networks' = src_networks
    BY <1>2 DEF parseSrc
  <2>3. srcs' \in Seq(Srcs \cup {BadSrc})
    <3>1. CASE srcs' = Tail(srcs)
      BY <3>1, <1>2
    <3>2. CASE srcs' = <<>>
      BY SMTT(30), <3>2
    <3> QED BY <3>1, <3>2, <2>1
  <2>4. src_networks' \in Seq(Srcs)
    <3>1. CASE src_networks' = src_networks
      BY <3>1 DEF SrcTypeOK
    <3>2. CASE Head(srcs) \in Srcs /\ src_networks' = Append(src_networks, Head(srcs))
      BY SMTT(30), <3>2 DEF SrcTypeOK
    <3> QED BY <3>1, <3>2, <2>1, <2>2
  <2>5. num_errors' \in Int
    BY SMTT(30), <2>1 DEF SrcTypeOK
  <2> QED BY <2>3, <2>4, <2>5
<1>5. SrcTypeOK'
  BY <1>4 DEF parseSrc, SrcTypeOK, srcVars
<1>6. SrcCallOK'
  BY DEF SrcCallOK, parseSrc, CallOK
<1> QED BY <1>1, <1>5, <1>6, SrcCallKnows

\* All strings are parsed.
LEMMA ParseSrcEndPool ==
  ASSUME op \in Ops, PoolTypeOK, PoolPartition, SrcTypeOK, CallOK,
         UNCHANGED <<cvip, vips, staged, pend>>, parseSrcEnd
  PROVE  op' \in Ops /\ PoolTypeOK' /\ PoolPartition' /\ SrcTypeOK' /\ CallOK'
<1>1. PoolTypeOK' /\ PoolPartition'
  BY PoolFrame DEF parseSrcEnd, poolVars, PoolTypeOK
<1>2. SrcTypeOK' /\ SrcCallOK'
  BY DEF SrcCallOK, parseSrcEnd, SrcTypeOK, CallOK, srcVars, srcCallVars
<1> QED BY <1>1, <1>2, SrcCallKnows

\* addSrcRule takes a number for a prefix.
LEMMA AddSrcRulePool ==
  ASSUME op \in Ops, PoolTypeOK, PoolPartition, SrcTypeOK, CallOK,
         UNCHANGED <<cvip, vips, staged, pend>>, addSrcRule
  PROVE  op' \in Ops /\ PoolTypeOK' /\ PoolPartition' /\ SrcTypeOK' /\ CallOK'
<1>1. dst \in Addrs /\ src_networks # <<>> /\ Head(src_networks) \in Srcs /\ op = "srcADD"
  BY SMTT(30) DEF addSrcRule, CallOK, SrcTypeOK
<1>2. Rnum(dst) \in 0..maxReals
  BY SMTT(30), <1>1, PoolAssumption DEF Rnum, PoolTypeOK, RealMeta, Nums
<1>3. PoolTypeOK' /\ PoolPartition'
  <2>1. increaseRefCountForReal(dst) \/ UNCHANGED poolVars
    BY DEF addSrcRule
  <2> QED BY <2>1, <1>1, IncreaseKeepsPool, PoolFrame DEF poolVars, PoolTypeOK
<1>4. /\ op' \in {"srcADD", "srcWrite"} /\ (op' = "srcWrite" => src_networks' = src_networks)
      /\ src_networks' \in {src_networks, <<>>} /\ num_errors' \in {num_errors, kError}
      /\ lpmSrcMapping' \in {lpmSrcMapping, [lpmSrcMapping EXCEPT ![Head(src_networks)] = Rnum(dst)]}
      /\ UNCHANGED <<lpm_src, asked, srcs, dst, cleared>>
  BY <1>1 DEF addSrcRule
<1>5. lpmSrcMapping' \in [Srcs -> 0..maxReals]
  BY <1>2, <1>4 DEF SrcTypeOK
<1>6. src_networks' \in Seq(Srcs) /\ num_errors' \in Int
  <2>1. src_networks' \in Seq(Srcs)
    <3>1. CASE src_networks' = src_networks
      BY <3>1 DEF SrcTypeOK
    <3>2. CASE src_networks' = <<>>
      BY SMTT(30), <3>2
    <3> QED BY <3>1, <3>2, <1>4
  <2>2. num_errors' \in Int
    BY SMTT(30), <1>4 DEF SrcTypeOK
  <2> QED BY <2>1, <2>2
<1>7. SrcTypeOK'
  BY <1>4, <1>5, <1>6 DEF SrcTypeOK
<1>8. SrcCallOK'
  BY <1>1, <1>4 DEF SrcCallOK, CallOK
<1> QED BY <1>3, <1>7, <1>8, SrcCallKnows

\* writeSrcRule.
LEMMA WriteSrcRulePool ==
  ASSUME op \in Ops, PoolTypeOK, PoolPartition, SrcTypeOK, CallOK,
         UNCHANGED <<cvip, vips, staged, pend>>, writeSrcRule
  PROVE  op' \in Ops /\ PoolTypeOK' /\ PoolPartition' /\ SrcTypeOK' /\ CallOK'
<1>1. src_networks # <<>> /\ Head(src_networks) \in Srcs /\ Tail(src_networks) \in Seq(Srcs)
  BY SMTT(30) DEF writeSrcRule, CallOK, SrcTypeOK
<1>2. modifyLpmSrcRule("ADD", Head(src_networks), lpmSrcMapping[Head(src_networks)])
  BY DEF writeSrcRule
<1>3. lpmSrcMapping[Head(src_networks)] \in 0..maxReals
  BY <1>1 DEF SrcTypeOK
<1>4. PoolTypeOK' /\ PoolPartition'
  BY <1>2, RuleFailure, PoolFrame DEF writeSrcRule
<1>5. lpm_src' \in [Srcs -> 0..maxReals]
  BY <1>2, <1>3, RuleWritten
<1>6. SrcTypeOK'
  BY <1>1, <1>5 DEF writeSrcRule, SrcTypeOK
<1>7. SrcCallOK'
  BY DEF SrcCallOK, writeSrcRule, CallOK
<1> QED BY <1>4, <1>6, <1>7, SrcCallKnows

\* addSrcRoutingRule returns.
LEMMA AddSrcEndPool ==
  ASSUME op \in Ops, PoolTypeOK, PoolPartition, SrcTypeOK, CallOK,
         UNCHANGED <<cvip, vips, staged, pend>>, addSrcEnd
  PROVE  op' \in Ops /\ PoolTypeOK' /\ PoolPartition' /\ SrcTypeOK' /\ CallOK'
<1>1. PoolTypeOK' /\ PoolPartition'
  BY PoolFrame DEF addSrcEnd, poolVars, PoolTypeOK
<1> QED BY <1>1, SrcCallKnows, SrcReturns DEF addSrcEnd, srcVars, SrcTypeOK

\* delSrcRoutingRule begins.
LEMMA DelSrcPool ==
  ASSUME op \in Ops, PoolTypeOK, PoolPartition, SrcTypeOK, CallOK,
         UNCHANGED <<cvip, vips, staged, pend>>, NEW batch \in SrcBatches, delSrcRoutingRule(batch)
  PROVE  op' \in Ops /\ PoolTypeOK' /\ PoolPartition' /\ SrcTypeOK' /\ CallOK'
<1>1. PoolTypeOK' /\ PoolPartition'
  BY PoolFrame DEF delSrcRoutingRule, poolVars, PoolTypeOK
<1>2. SrcTypeOK' /\ SrcCallOK'
  BY PoolAssumption, SrcAssumption DEF SrcCallOK, delSrcRoutingRule, SrcTypeOK, CallOK, srcVars, Idle
<1> QED BY <1>1, <1>2, SrcCallKnows

\* delSrcRule gives up the number of a rule.
LEMMA DelSrcRulePool ==
  ASSUME op \in Ops, PoolTypeOK, PoolPartition, SrcTypeOK, CallOK,
         UNCHANGED <<cvip, vips, staged, pend>>, delSrcRule
  PROVE  op' \in Ops /\ PoolTypeOK' /\ PoolPartition' /\ SrcTypeOK' /\ CallOK'
<1> DEFINE s == Head(srcs)
<1>1. s \in Srcs \cup {BadSrc} /\ srcs' \in Seq(Srcs \cup {BadSrc})
  BY SMTT(30) DEF delSrcRule, SrcTypeOK
<1>2. UNCHANGED <<op, asked, src_networks, dst, num_errors, cleared>> /\ op = "srcDEL"
  BY DEF delSrcRule
<1>3. /\ PoolTypeOK' /\ PoolPartition'
      /\ lpm_src' \in [Srcs -> 0..maxReals] /\ lpmSrcMapping' \in [Srcs -> 0..maxReals]
  <2>1. CASE s \notin Rules
    BY <2>1, PoolFrame DEF delSrcRule, poolVars, srcVars, PoolTypeOK, SrcTypeOK
  <2>2. CASE s \in Rules
    <3>1. /\ decreaseRefCountForReal(numToReals[lpmSrcMapping[s]])
          /\ modifyLpmSrcRule("DEL", s, lpmSrcMapping[s])
          /\ lpmSrcMapping' = [lpmSrcMapping EXCEPT ![s] = maxReals]
          /\ UNCHANGED bpf_reals
      BY <2>2 DEF delSrcRule
    <3>2. lpmSrcMapping[s] \in Nums
      BY SMTT(30), <2>2, PoolAssumption DEF Rules, SrcTypeOK, Nums
    <3>3. numToReals[lpmSrcMapping[s]] \in Addrs \cup {NoAddr}
      BY <3>2 DEF PoolTypeOK
    <3>4. PoolTypeOK' /\ PoolPartition'
      BY <3>1, <3>3, RuleFailure, DecreaseKeepsPool
    <3>m. maxReals \in 0..maxReals
      BY SMTT(30), PoolAssumption
    <3>5. lpmSrcMapping' \in [Srcs -> 0..maxReals]
      BY <3>1, <3>m DEF SrcTypeOK
    <3>6. lpm_src' \in [Srcs -> 0..maxReals]
      BY SMTT(30), <3>1, <3>2, RuleWritten, PoolAssumption DEF Nums
    <3> QED BY <3>4, <3>5, <3>6
  <2> QED BY <2>1, <2>2
<1>4. SrcTypeOK' /\ SrcCallOK'
  BY <1>1, <1>2, <1>3 DEF SrcCallOK, SrcTypeOK, CallOK
<1> QED BY <1>3, <1>4, SrcCallKnows

\* delSrcRoutingRule returns.
LEMMA DelSrcEndPool ==
  ASSUME op \in Ops, PoolTypeOK, PoolPartition, SrcTypeOK, CallOK,
         UNCHANGED <<cvip, vips, staged, pend>>, delSrcEnd
  PROVE  op' \in Ops /\ PoolTypeOK' /\ PoolPartition' /\ SrcTypeOK' /\ CallOK'
<1>1. PoolTypeOK' /\ PoolPartition'
  BY PoolFrame DEF delSrcEnd, poolVars, PoolTypeOK
<1> QED BY <1>1, SrcCallKnows, SrcReturns DEF delSrcEnd, srcVars, SrcTypeOK

\* clearAllSrcRoutingRules begins.
LEMMA ClearSrcPool ==
  ASSUME op \in Ops, PoolTypeOK, PoolPartition, SrcTypeOK, CallOK,
         UNCHANGED <<cvip, vips, staged, pend>>, clearAllSrcRoutingRules
  PROVE  op' \in Ops /\ PoolTypeOK' /\ PoolPartition' /\ SrcTypeOK' /\ CallOK'
<1>1. PoolTypeOK' /\ PoolPartition'
  BY PoolFrame DEF clearAllSrcRoutingRules, poolVars, PoolTypeOK
<1>2. SrcTypeOK' /\ SrcCallOK'
  BY DEF SrcCallOK, clearAllSrcRoutingRules, SrcTypeOK, CallOK, srcVars, srcCallVars, Idle
<1> QED BY <1>1, <1>2, SrcCallKnows

\* It gives up the numbers of the rules one by one.
LEMMA ClearSrcRulePool ==
  ASSUME op \in Ops, PoolTypeOK, PoolPartition, SrcTypeOK, CallOK,
         UNCHANGED <<cvip, vips, staged, pend>>, clearSrcRule
  PROVE  op' \in Ops /\ PoolTypeOK' /\ PoolPartition' /\ SrcTypeOK' /\ CallOK'
<1>1. PICK s \in Rules \ cleared :
         /\ \E a \in FoundReal(lpmSrcMapping[s]) : decreaseRefCountForReal(a)
         /\ modifyLpmSrcRule("DEL", s, lpmSrcMapping[s])
         /\ cleared' = cleared \cup {s}
  BY DEF clearSrcRule
<1>2. s \in Srcs /\ lpmSrcMapping[s] \in Nums
  BY SMTT(30), PoolAssumption DEF Rules, SrcTypeOK, Nums
<1>3. PICK a \in FoundReal(lpmSrcMapping[s]) : decreaseRefCountForReal(a)
  BY <1>1
<1>4. a \in Addrs \cup {NoAddr}
  BY <1>2, <1>3 DEF FoundReal, PoolTypeOK
<1>5. PoolTypeOK' /\ PoolPartition'
  BY <1>1, <1>3, <1>4, RuleFailure, DecreaseKeepsPool DEF clearSrcRule
<1>6. lpm_src' \in [Srcs -> 0..maxReals]
  BY SMTT(30), <1>1, <1>2, RuleWritten, PoolAssumption DEF Nums
<1>7. SrcTypeOK' /\ SrcCallOK'
  BY <1>1, <1>2, <1>6 DEF SrcCallOK, clearSrcRule, SrcTypeOK
<1> QED BY <1>5, <1>7, SrcCallKnows

\* It returns.
LEMMA ClearSrcEndPool ==
  ASSUME op \in Ops, PoolTypeOK, PoolPartition, SrcTypeOK, CallOK,
         UNCHANGED <<cvip, vips, staged, pend>>, clearSrcEnd
  PROVE  op' \in Ops /\ PoolTypeOK' /\ PoolPartition' /\ SrcTypeOK' /\ CallOK'
<1>1. PoolTypeOK' /\ PoolPartition'
  BY PoolFrame DEF clearSrcEnd, poolVars, PoolTypeOK
<1>2. lpmSrcMapping' \in [Srcs -> 0..maxReals]
  BY SMTT(30), PoolAssumption DEF clearSrcEnd, NoRules
<1> QED BY <1>1, <1>2, SrcCallKnows, SrcReturns DEF clearSrcEnd

\* And the source routing component.
LEMMA SrcStepPoolInv ==
  ASSUME PoolInv, SrcNext, UNCHANGED <<vipVars, vipCallVars, quicVars, quicCallVars>>
  PROVE  PoolInv'
<1> DEFINE Goal == op \in Ops /\ PoolTypeOK /\ PoolPartition /\ SrcTypeOK /\ CallOK
<1>a. op \in Ops /\ PoolTypeOK /\ PoolPartition /\ SrcTypeOK /\ CallOK
  BY DEF PoolInv, TypeOK
<1>b. VipTypeOK' /\ QuicTypeOK'
  BY DEF PoolInv, TypeOK, VipTypeOK, QuicTypeOK, vipVars, vipCallVars, quicVars, quicCallVars
<1>c. UNCHANGED <<cvip, vips, staged, pend>>
  BY DEF vipVars, vipCallVars
<1>1. ASSUME NEW batch \in SrcBatches, NEW a \in Addrs, addSrcRoutingRule(batch, a) PROVE Goal'
  BY <1>1, <1>a, <1>c, AddSrcPool
<1>2. ASSUME NEW batch \in SrcBatches \cap Seq(Srcs), NEW a \in Addrs, addSrcRoutingRuleCidr(batch, a)
      PROVE  Goal'
  BY <1>2, <1>a, <1>c, AddSrcCidrPool
<1>3. ASSUME parseSrc PROVE Goal'
  BY <1>3, <1>a, <1>c, ParseSrcPool
<1>4. ASSUME parseSrcEnd PROVE Goal'
  BY <1>4, <1>a, <1>c, ParseSrcEndPool
<1>5. ASSUME addSrcRule PROVE Goal'
  BY <1>5, <1>a, <1>c, AddSrcRulePool
<1>6. ASSUME writeSrcRule PROVE Goal'
  BY <1>6, <1>a, <1>c, WriteSrcRulePool
<1>7. ASSUME addSrcEnd PROVE Goal'
  BY <1>7, <1>a, <1>c, AddSrcEndPool
<1>8. ASSUME NEW batch \in SrcBatches, delSrcRoutingRule(batch) PROVE Goal'
  BY <1>8, <1>a, <1>c, DelSrcPool
<1>9. ASSUME delSrcRule PROVE Goal'
  BY <1>9, <1>a, <1>c, DelSrcRulePool
<1>10. ASSUME delSrcEnd PROVE Goal'
  BY <1>10, <1>a, <1>c, DelSrcEndPool
<1>11. ASSUME clearAllSrcRoutingRules PROVE Goal'
  BY <1>11, <1>a, <1>c, ClearSrcPool
<1>12. ASSUME clearSrcRule PROVE Goal'
  BY <1>12, <1>a, <1>c, ClearSrcRulePool
<1>13. ASSUME clearSrcEnd PROVE Goal'
  BY <1>13, <1>a, <1>c, ClearSrcEndPool
<1>14. Goal'
  BY <1>1, <1>2, <1>3, <1>4, <1>5, <1>6, <1>7, <1>8, <1>9, <1>10, <1>11, <1>12, <1>13 DEF SrcNext
<1> QED BY <1>14, <1>b DEF PoolInv, TypeOK

-----------------------------------------------------------------------------
(* All calls.                                                              *)

\* Every call of the API keeps the pool of numbers consistent, step by step.
LEMMA PoolInvStep == PoolInv /\ [Next]_vars => PoolInv'
<1> SUFFICES ASSUME PoolInv, [Next]_vars PROVE PoolInv'
  OBVIOUS
<1>1. CASE Next
  BY <1>1, VipStepPoolInv, QuicStepPoolInv, SrcStepPoolInv DEF Next
<1>2. CASE UNCHANGED vars
  <2>1. op' \in Ops /\ PoolTypeOK' /\ PoolPartition'
    BY <1>2 DEF PoolInv, TypeOK, PoolTypeOK, PoolPartition, vars, poolVars
  <2>2. VipTypeOK'
    BY <1>2 DEF PoolInv, TypeOK, VipTypeOK, vars, vipVars, vipCallVars
  <2>3. QuicTypeOK' /\ SrcTypeOK'
    BY <1>2
       DEF PoolInv, TypeOK, QuicTypeOK, SrcTypeOK, vars, quicVars, quicCallVars, srcVars, srcCallVars
  <2>4. CallOK'
    BY <1>2 DEF PoolInv, CallOK, vars, vipVars, vipCallVars, srcCallVars
  <2> QED BY <2>1, <2>2, <2>3, <2>4 DEF PoolInv, TypeOK
<1> QED BY <1>1, <1>2

\* The type invariant and the partition of the real-server numbers: in every
\* state of the control plane, also in the middle of a call and whatever bpf()
\* calls fail, each number is free exactly once or names exactly one address.
THEOREM PoolSafe == Spec => [](TypeOK /\ PoolPartition)
<1>1. PoolInv => TypeOK /\ PoolPartition
  BY DEF PoolInv
<1> QED BY <1>1, InitPoolInv, PoolInvStep, PTL DEF Spec

-----------------------------------------------------------------------------
(* What the control plane writes into the maps of the XDP program.         *)

\* What batchRealsUpdate writes back has the number and the flags of its VIP.
StagedOK ==
  op \in {"ADD", "DEL"} => staged.num = vips[cvip].num /\ staged.flags = vips[cvip].flags

\* The inductive invariants.
VipNumInv == PoolInv /\ StagedOK /\ VipNumPartition
VipMapInv == VipNumInv /\ VipMapAgrees

\* A failed bpf() call is not forgotten.
Remembers == bpfFailed => bpfFailed'

\* A step that VIP numbers and vip_map do not see.
SameVips ==
  /\ UNCHANGED <<vipNums, vip_map>>
  /\ \A v \in VipKeys : vips'[v].num = vips[v].num /\ vips'[v].flags = vips[v].flags
  /\ Remembers

-----------------------------------------------------------------------------
(* The steps, by what they do to VIPs.                                     *)

\* Counting failures forgets none, nor does taking a reference.
LEMMA FailuresCount ==
  /\ \A ok : CountFailure(ok) => Remembers
  /\ \A a : increaseRefCountForReal(a) => Remembers
<1>1. \A ok : CountFailure(ok) => Remembers
  BY DEF CountFailure, Remembers
<1>2. \A a, n : updateRealsMap(a, n) => Remembers
  BY <1>1 DEF updateRealsMap
<1> QED BY <1>1, <1>2 DEF increaseRefCountForReal, poolVars, Remembers

\* Steps of QUIC mappings.
LEMMA QuicStepVips ==
  ASSUME QuicNext
  PROVE  Remembers /\ op' \notin {"ADD", "DEL"}
<1>1. ASSUME NEW act \in {"ADD", "DEL"}, NEW batch \in QuicBatches, modifyQuicRealsMapping(act, batch)
      PROVE  Remembers /\ op' \notin {"ADD", "DEL"}
  BY <1>1 DEF modifyQuicRealsMapping, poolVars, Remembers
<1>2. CASE addQuicReal
  <2>1. op' = "quicADD"
    BY <1>2 DEF addQuicReal
  <2>2. Remembers
    BY <1>2, FailuresCount DEF addQuicReal, poolVars, Remembers
  <2> QED BY <2>1, <2>2
<1>3. CASE delQuicReal
  <2>1. op' = "quicDEL"
    BY <1>3 DEF delQuicReal
  <2>2. Remembers
    BY <1>3 DEF delQuicReal, poolVars, Remembers
  <2> QED BY <2>1, <2>2
<1>4. CASE writeQuicMapping
  <2>1. op' \in {"quicADD", "quicDEL"}
    BY <1>4 DEF writeQuicMapping
  <2>2. Remembers
    BY <1>4, FailuresCount DEF writeQuicMapping
  <2> QED BY <2>1, <2>2
<1>5. CASE modifyQuicEnd
  BY <1>5 DEF modifyQuicEnd, poolVars, Remembers
<1> QED BY <1>1, <1>2, <1>3, <1>4, <1>5 DEF QuicNext

\* Steps of source routing rules.
LEMMA SrcStepVips ==
  ASSUME SrcNext
  PROVE  Remembers /\ op' \notin {"ADD", "DEL"}
<1>1. op' \notin {"ADD", "DEL"}
  BY DEF SrcNext, addSrcRoutingRule, addSrcRoutingRuleCidr, parseSrc, parseSrcEnd, addSrcRule,
         writeSrcRule, addSrcEnd, delSrcRoutingRule, delSrcRule, delSrcEnd, clearAllSrcRoutingRules,
         clearSrcRule, clearSrcEnd, ReturnFromSrcCall
<1>2. \A act, s, n : modifyLpmSrcRule(act, s, n) => Remembers
  BY FailuresCount DEF modifyLpmSrcRule
<1>3. UNCHANGED bpfFailed => Remembers
  BY DEF Remembers
<1>4. Remembers
  BY <1>2, <1>3, FailuresCount
     DEF SrcNext, addSrcRoutingRule, addSrcRoutingRuleCidr, parseSrc, parseSrcEnd, addSrcRule,
         writeSrcRule, addSrcEnd, delSrcRoutingRule, delSrcRule, delSrcEnd, clearAllSrcRoutingRules,
         clearSrcRule, clearSrcEnd, poolVars
<1> QED BY <1>1, <1>4

\* Steps of VIPs that are not addVip, modifyVip or the end of delVip.
LEMMA VipStepVips ==
  ASSUME PoolInv, StagedOK, VipNext
  PROVE  /\ StagedOK'
         /\ \/ SameVips
            \/ \E v \in VipKeys, f \in AddFlags : addVip(v, f)
            \/ \E v \in VipKeys, f \in ModFlags, set \in BOOLEAN : modifyVip(v, f, set)
            \/ delVipEnd
<1>a. PoolTypeOK /\ PoolPartition /\ VipTypeOK /\ CallOK
  BY DEF PoolInv, TypeOK
<1>b. UNCHANGED bpfFailed => Remembers
  BY DEF Remembers
<1>c. UNCHANGED vipVars /\ Remembers => SameVips
  BY DEF vipVars, SameVips
<1>1. ASSUME NEW v \in VipKeys, NEW f \in AddFlags, addVip(v, f) PROVE StagedOK'
  BY <1>1 DEF addVip, Idle, StagedOK
<1>2. ASSUME NEW v \in VipKeys, NEW f \in ModFlags, NEW set \in BOOLEAN, modifyVip(v, f, set) PROVE StagedOK'
  BY <1>2 DEF modifyVip, Idle, StagedOK
<1>3. ASSUME NEW v \in VipKeys, delVip(v) PROVE StagedOK' /\ SameVips
  BY <1>3, <1>b, <1>c DEF delVip, StagedOK, poolVars
<1>4. ASSUME delVipReal PROVE StagedOK' /\ SameVips
  BY <1>4, <1>b, <1>c DEF delVipReal, StagedOK
<1>5. ASSUME delVipEnd PROVE StagedOK'
  BY <1>5 DEF delVipEnd, ReturnFromVipCall, StagedOK
<1>6. ASSUME NEW act \in {"ADD", "DEL"}, NEW batch \in RealBatches, NEW v \in VipKeys,
             modifyRealsForVip(act, batch, v)
      PROVE  StagedOK' /\ SameVips
  BY <1>6, <1>b, <1>c DEF modifyRealsForVip, StagedOK, poolVars, vipVars
<1>7. ASSUME addReal PROVE StagedOK' /\ SameVips
  <2>1. op = "ADD" /\ op' = op /\ cvip' = cvip /\ UNCHANGED vipVars
    BY <1>7 DEF addReal
  <2>2. \A n, r : PushAdd(n, r) => staged'.num = staged.num /\ staged'.flags = staged.flags
    BY <1>a DEF PushAdd, VipTypeOK, Vip
  <2>3. staged'.num = staged.num /\ staged'.flags = staged.flags
    BY <2>2, <1>7 DEF addReal
  <2>4. Remembers
    BY <1>7, <1>b, FailuresCount DEF addReal, poolVars
  <2> QED BY <2>1, <2>3, <2>4, <1>c DEF StagedOK, vipVars
<1>8. ASSUME delReal PROVE StagedOK' /\ SameVips
  <2>1. op = "DEL" /\ op' = op /\ cvip' = cvip /\ UNCHANGED vipVars
    BY <1>8 DEF delReal
  <2>2. \A n : PushDel(n) => staged'.num = staged.num /\ staged'.flags = staged.flags
    BY <1>a DEF PushDel, VipTypeOK, Vip
  <2>3. staged'.num = staged.num /\ staged'.flags = staged.flags
    BY <2>2, <1>8 DEF delReal
  <2>4. Remembers
    BY <1>8, <1>b DEF delReal, poolVars
  <2> QED BY <2>1, <2>3, <2>4, <1>c DEF StagedOK, vipVars
<1>9. ASSUME batchRealsUpdate PROVE StagedOK' /\ SameVips
  <2> DEFINE new == [staged EXCEPT !.chRing = NewRing]
  <2>1. vips' = [vips EXCEPT ![cvip] = new] /\ UNCHANGED <<vipNums, vip_map, bpfFailed>> /\ op' = "write"
    BY <1>9 DEF batchRealsUpdate, poolVars
  <2>2. new.num = vips[cvip].num /\ new.flags = vips[cvip].flags /\ cvip \in VipKeys
    BY <1>9, <1>a DEF batchRealsUpdate, StagedOK, CallOK, VipTypeOK, Vip
  <2> HIDE DEF new
  <2>3. \A v \in VipKeys : vips'[v].num = vips[v].num /\ vips'[v].flags = vips[v].flags
    BY <2>1, <2>2, <1>a DEF VipTypeOK
  <2> QED BY <2>1, <2>3, <1>b DEF SameVips, StagedOK
<1>10. ASSUME writeChRing PROVE StagedOK' /\ SameVips
  <2>1. op' = "write" /\ UNCHANGED <<vips, vipNums, vip_map>>
    BY <1>10 DEF writeChRing
  <2>2. Remembers
    BY <1>10, FailuresCount DEF writeChRing
  <2> QED BY <2>1, <2>2 DEF SameVips, StagedOK
<1>11. ASSUME modifyRealsEnd PROVE StagedOK' /\ SameVips
  BY <1>11, <1>b, <1>c DEF modifyRealsEnd, ReturnFromVipCall, StagedOK, poolVars
<1> QED BY <1>1, <1>2, <1>3, <1>4, <1>5, <1>6, <1>7, <1>8, <1>9, <1>10, <1>11 DEF VipNext

\* Every step of the control plane, or none.
LEMMA StepVips ==
  ASSUME PoolInv, StagedOK, [Next]_vars
  PROVE  /\ StagedOK'
         /\ \/ SameVips
            \/ \E v \in VipKeys, f \in AddFlags : addVip(v, f)
            \/ \E v \in VipKeys, f \in ModFlags, set \in BOOLEAN : modifyVip(v, f, set)
            \/ delVipEnd
<1>1. CASE VipNext
  BY <1>1, VipStepVips
<1>2. ASSUME QuicNext \/ SrcNext, UNCHANGED <<vipVars, vipCallVars>> PROVE StagedOK' /\ SameVips
  <2>1. Remembers /\ op' \notin {"ADD", "DEL"}
    BY <1>2, QuicStepVips, SrcStepVips
  <2> QED BY <2>1, <1>2 DEF vipVars, SameVips, StagedOK
<1>3. CASE UNCHANGED vars
  <2>1. UNCHANGED <<op, vips, vipNums, vip_map, cvip, staged, bpfFailed>>
    BY <1>3 DEF vars, poolVars, vipVars, vipCallVars
  <2> QED BY <2>1 DEF SameVips, StagedOK, Remembers
<1> QED BY <1>1, <1>2, <1>3 DEF Next

-----------------------------------------------------------------------------
(* The numbers.                                                            *)

\* Init gives every number to the FIFO.
LEMMA InitVipNumInv == Init => VipNumInv
<1> SUFFICES ASSUME Init PROVE VipNumInv
  OBVIOUS
<1> USE VipAssumption
<1>1. StagedOK
  BY DEF Init, StagedOK
<1>2. Free(vipNums) = VipNums
  <2>1. maxVips \in Nat
    OBVIOUS
  <2>2. vipNums = [i \in 1..maxVips |-> i - 1]
    BY DEF Init, VipInit
  <2> QED BY <2>1, <2>2, AllNumbers DEF VipNums, Free
<1>3. \A i, j \in DOMAIN vipNums : i # j => vipNums[i] # vipNums[j]
  BY SMTT(30) DEF Init, VipInit
<1>4. \A v \in VipKeys : vips[v].num = maxVips
  BY DEF Init, VipInit, AbsentVip, NewVip
<1> QED BY SMTT(30), <1>1, <1>2, <1>3, <1>4, InitPoolInv
           DEF VipNumInv, VipNumPartition, VipNums, Present

\* addVip moves the head of the FIFO to the VIP.
LEMMA AddVipNum ==
  ASSUME VipNumInv, NEW v \in VipKeys, NEW f \in AddFlags, addVip(v, f)
  PROVE  VipNumPartition'
<1> USE VipAssumption
<1> DEFINE h == Head(vipNums)
<1>a. VipTypeOK /\ VipNumPartition
  BY DEF VipNumInv, PoolInv, TypeOK
<1>1. /\ vipNums # <<>> /\ vipNums' = Tail(vipNums)
      /\ vips' = [vips EXCEPT ![v] = NewVip(h, f)]
      /\ ~Present(v)
  BY DEF addVip
<1>2. h \in VipNums /\ h = vipNums[1] /\ 1 \in DOMAIN vipNums /\ h # maxVips
  BY SMTT(30), <1>1, <1>a DEF VipTypeOK, VipNums
<1>3. /\ Len(vipNums') = Len(vipNums) - 1
      /\ \A i \in DOMAIN vipNums' : vipNums'[i] = vipNums[i + 1] /\ i + 1 \in DOMAIN vipNums
      /\ \A i \in DOMAIN vipNums : i # 1 => i - 1 \in DOMAIN vipNums' /\ vipNums'[i - 1] = vipNums[i]
  BY SMTT(30), <1>1, <1>a
<1>4. \A i, j \in DOMAIN vipNums' : i # j => vipNums'[i] # vipNums'[j]
  BY SMTT(30), <1>1, <1>a DEF VipNumPartition
<1>5. Free(vipNums') = Free(vipNums) \ {h}
  <2>1. ASSUME NEW i \in DOMAIN vipNums' PROVE vipNums'[i] \in Free(vipNums) \ {h}
    BY SMTT(30), <1>1, <1>a DEF Free, VipNumPartition
  <2>2. ASSUME NEW i \in DOMAIN vipNums, vipNums[i] # h PROVE vipNums[i] \in Free(vipNums')
    BY <2>2, <1>2, <1>3 DEF Free
  <2> QED BY <2>1, <2>2 DEF Free
<1>6. /\ \A u \in VipKeys : vips'[u].num = IF u = v THEN h ELSE vips[u].num
  <2>1. NewVip(h, f).num = h
    BY DEF NewVip
  <2> HIDE DEF h
  <2> QED BY <2>1, <1>1, <1>a DEF VipTypeOK
<1>7. h \in Free(vipNums)
  BY <1>2 DEF Free
<1>8. \A u \in VipKeys : vips[u].num # h
  BY <1>2, <1>7, <1>a DEF VipNumPartition
<1> HIDE DEF h
<1>9. \A k \in VipNums : (k \in Free(vipNums')) <=> (\A u \in VipKeys : vips'[u].num # k)
  BY SMTT(30), <1>1, <1>5, <1>6, <1>a DEF VipNumPartition, Present, VipNums
<1>10. \A u, w \in VipKeys : u # w /\ vips'[u].num # maxVips => vips'[u].num # vips'[w].num
  BY <1>6, <1>8, <1>a DEF VipNumPartition, Present
<1> QED BY <1>4, <1>9, <1>10 DEF VipNumPartition, Present

\* The end of delVip appends the number of the VIP to the FIFO.
LEMMA DelVipNum ==
  ASSUME VipNumInv, delVipEnd
  PROVE  VipNumPartition'
<1> USE VipAssumption
<1> DEFINE k == vips[cvip].num
<1>a. VipTypeOK /\ VipNumPartition /\ CallOK
  BY DEF VipNumInv, PoolInv, TypeOK
<1>1. vipNums' = Append(vipNums, k) /\ vips' = [vips EXCEPT ![cvip] = AbsentVip] /\ op = "delVip"
  BY DEF delVipEnd
<1>2. cvip \in VipKeys /\ k \in VipNums
  BY <1>1, <1>a DEF CallOK
<1>3. /\ DOMAIN vipNums' = DOMAIN vipNums \cup {Len(vipNums) + 1}
      /\ \A i \in DOMAIN vipNums : vipNums'[i] = vipNums[i]
      /\ vipNums'[Len(vipNums) + 1] = k
  BY SMTT(30), <1>1
<1>4. k \notin Free(vipNums)
  BY <1>2, <1>a DEF VipNumPartition
<1>5. \A i, j \in DOMAIN vipNums' : i # j => vipNums'[i] # vipNums'[j]
  BY SMTT(30), <1>3, <1>4, <1>a DEF VipNumPartition, Free
<1>6. Free(vipNums') = Free(vipNums) \cup {k}
  BY SMTT(30), <1>3 DEF Free
<1>7. \A u \in VipKeys : vips'[u].num = IF u = cvip THEN maxVips ELSE vips[u].num
  <2>1. AbsentVip.num = maxVips
    BY DEF AbsentVip, NewVip
  <2> QED BY <2>1, <1>1, <1>a DEF VipTypeOK
<1>8. \A u \in VipKeys : u # cvip => vips[u].num # k
  BY SMTT(30), <1>2, <1>a DEF VipNumPartition, Present, VipNums
<1>9. \A m \in VipNums : m # maxVips
  BY SMTT(30) DEF VipNums
<1> HIDE DEF k
<1>10. \A m \in VipNums : (m \in Free(vipNums')) <=> (\A u \in VipKeys : vips'[u].num # m)
  <2>1. ASSUME NEW m \in VipNums, m # k
        PROVE  (m \in Free(vipNums)) <=> (\A u \in VipKeys : vips'[u].num # m)
    <3>1. k = vips[cvip].num
      BY DEF k
    <3> QED BY <3>1, <2>1, <1>2, <1>7, <1>9, <1>a DEF VipNumPartition
  <2>2. \A u \in VipKeys : vips'[u].num # k
    BY <1>2, <1>7, <1>8, <1>9
  <2> QED BY <2>1, <2>2, <1>6
<1>11. \A u, w \in VipKeys : u # w /\ vips'[u].num # maxVips => vips'[u].num # vips'[w].num
  BY SMTT(30), <1>7, <1>a DEF VipNumPartition, Present
<1> QED BY <1>5, <1>10, <1>11 DEF VipNumPartition, Present

\* The other steps leave the numbers alone.
LEMMA VipNumInvStep == VipNumInv /\ [Next]_vars => VipNumInv'
<1> SUFFICES ASSUME VipNumInv, [Next]_vars PROVE VipNumInv'
  OBVIOUS
<1>1. PoolInv' /\ StagedOK'
  BY PoolInvStep, StepVips DEF VipNumInv
<1>2. ASSUME vipNums' = vipNums, \A v \in VipKeys : vips'[v].num = vips[v].num PROVE VipNumPartition'
  BY SMTT(30), <1>2 DEF VipNumInv, VipNumPartition, Present
<1>3. ASSUME SameVips PROVE VipNumPartition'
  BY <1>3, <1>2 DEF SameVips
<1>4. ASSUME NEW v \in VipKeys, NEW f \in ModFlags, NEW set \in BOOLEAN, modifyVip(v, f, set)
      PROVE  vipNums' = vipNums /\ \A u \in VipKeys : vips'[u].num = vips[u].num
  <2>1. PICK flags : vips' = [vips EXCEPT ![v].flags = flags]
    BY <1>4 DEF modifyVip
  <2>2. \A u \in VipKeys : vips'[u].num = vips[u].num
    BY <2>1 DEF VipNumInv, PoolInv, TypeOK, VipTypeOK, Vip
  <2> QED BY <2>2, <1>4 DEF modifyVip
<1>5. VipNumPartition'
  BY <1>2, <1>3, <1>4, StepVips, AddVipNum, DelVipNum DEF VipNumInv
<1> QED BY <1>1, <1>5 DEF VipNumInv

\* The numbers of VIPs, in every state and whatever bpf() calls fail: each is
\* free exactly once or given to exactly one VIP, so that addVip never shares
\* a number (and with it a ring in ch_rings) and delVip never loses one.
THEOREM VipNumbersSafe == Spec => []VipNumPartition
<1>1. VipNumInv => VipNumPartition
  BY DEF VipNumInv
<1> QED BY <1>1, InitVipNumInv, VipNumInvStep, PTL DEF Spec

-----------------------------------------------------------------------------
(* vip_map.                                                                *)

\* No two VipKeys are spellings of one address, port and protocol: the caller
\* writes an IPv6 address always the same way.  Without it vip_map has one
\* entry for two VIPs, the one written last.
OneSpelling == \A u, v \in VipKeys : VipDefOf(u) = VipDefOf(v) => u = v

\* A step that gives VIP v other contents, in vips_ and in vip_map.
LEMMA OneVipChanges ==
  ASSUME OneSpelling, VipTypeOK, VipMapAgrees, Remembers,
         NEW v \in VipKeys, NEW m, ~bpfFailed' => vip_map' = [vip_map EXCEPT ![VipDefOf(v)] = m],
         \A u \in VipKeys : u # v => vips'[u] = vips[u],
         \/ vips'[v].num # maxVips /\ m = [num |-> vips'[v].num, flags |-> vips'[v].flags]
         \/ vips'[v].num = maxVips /\ m = NoMeta
  PROVE  VipMapAgrees'
<1> USE VipAssumption
<1> SUFFICES ASSUME ~bpfFailed'
             PROVE  /\ \A u \in VipKeys : vips'[u].num # maxVips =>
                         vip_map'[VipDefOf(u)] = [num |-> vips'[u].num, flags |-> vips'[u].flags]
                    /\ \A d \in VipDefs : vip_map'[d] # NoMeta =>
                         \E u \in VipKeys : vips'[u].num # maxVips /\ VipDefOf(u) = d
  BY DEF VipMapAgrees, Present
<1>1. /\ vip_map' = [vip_map EXCEPT ![VipDefOf(v)] = m]
      /\ \A u \in VipKeys : vips[u].num # maxVips =>
           vip_map[VipDefOf(u)] = [num |-> vips[u].num, flags |-> vips[u].flags]
      /\ \A d \in VipDefs : vip_map[d] # NoMeta =>
           \E u \in VipKeys : vips[u].num # maxVips /\ VipDefOf(u) = d
  BY DEF VipMapAgrees, Present, Remembers
<1>2. /\ vip_map'[VipDefOf(v)] = m
      /\ \A d \in VipDefs : d # VipDefOf(v) => vip_map'[d] = vip_map[d]
  BY <1>1 DEF VipTypeOK
<1>3. \A u \in VipKeys : u # v => VipDefOf(u) # VipDefOf(v)
  BY DEF OneSpelling
<1>4. ASSUME NEW u \in VipKeys, vips'[u].num # maxVips
      PROVE  vip_map'[VipDefOf(u)] = [num |-> vips'[u].num, flags |-> vips'[u].flags]
  <2>1. CASE u = v
    BY <2>1, <1>4, <1>2
  <2>2. CASE u # v
    BY <2>2, <1>1, <1>2, <1>3, <1>4
  <2> QED BY <2>1, <2>2
<1>5. ASSUME NEW d \in VipDefs, vip_map'[d] # NoMeta
      PROVE  \E u \in VipKeys : vips'[u].num # maxVips /\ VipDefOf(u) = d
  <2>1. CASE d = VipDefOf(v)
    BY <2>1, <1>5, <1>2
  <2>2. CASE d # VipDefOf(v)
    BY <2>2, <1>1, <1>2, <1>5
  <2> QED BY <2>1, <2>2
<1> QED BY <1>4, <1>5

\* vip_map follows vips_ through every step.
LEMMA VipMapInvStep ==
  ASSUME OneSpelling, VipMapInv, [Next]_vars
  PROVE  VipMapInv'
<1>a. VipTypeOK /\ VipMapAgrees /\ VipNumInv /\ CallOK
  BY DEF VipMapInv, VipNumInv, PoolInv, TypeOK
<1>b. \A v, m : addToVipMap(v, m) =>
        Remembers /\ (~bpfFailed' => vip_map' = [vip_map EXCEPT ![VipDefOf(v)] = m])
  BY DEF addToVipMap, CountFailure, Remembers
<1>1. ASSUME SameVips PROVE VipMapAgrees'
  BY <1>1, <1>a DEF SameVips, VipMapAgrees, Present, Remembers
<1>2. ASSUME NEW v \in VipKeys, NEW f \in AddFlags, addVip(v, f) PROVE VipMapAgrees'
  <2> DEFINE h == Head(vipNums)
             m == [num |-> h, flags |-> f]
  <2>1. vips' = [vips EXCEPT ![v] = NewVip(h, f)] /\ addToVipMap(v, m)
    BY <1>2 DEF addVip
  <2>2. h # maxVips
    BY SMTT(30), <1>2, <1>a, VipAssumption DEF addVip, VipTypeOK, VipNums
  <2>3. NewVip(h, f).num = h /\ NewVip(h, f).flags = f
    BY DEF NewVip
  <2> HIDE DEF h
  <2>4. /\ \A u \in VipKeys : u # v => vips'[u] = vips[u]
        /\ vips'[v].num = h /\ vips'[v].flags = f
    BY <2>1, <2>3, <1>a DEF VipTypeOK
  <2>5. Remembers /\ (~bpfFailed' => vip_map' = [vip_map EXCEPT ![VipDefOf(v)] = m])
    BY <2>1, <1>b
  <2>6. vips'[v].num # maxVips /\ m = [num |-> vips'[v].num, flags |-> vips'[v].flags]
    BY <2>2, <2>4
  <2> HIDE DEF m
  <2> QED BY <2>4, <2>5, <2>6, <1>a, OneVipChanges
<1>3. ASSUME NEW v \in VipKeys, NEW f \in ModFlags, NEW set \in BOOLEAN, modifyVip(v, f, set)
      PROVE  VipMapAgrees'
  <2>1. PICK flags : /\ vips' = [vips EXCEPT ![v].flags = flags]
                     /\ addToVipMap(v, [num |-> vips[v].num, flags |-> flags])
    BY <1>3 DEF modifyVip
  <2> DEFINE m == [num |-> vips[v].num, flags |-> flags]
  <2>2. /\ \A u \in VipKeys : u # v => vips'[u] = vips[u]
        /\ vips'[v].num = vips[v].num /\ vips'[v].flags = flags
    BY <2>1, <1>a DEF VipTypeOK, Vip
  <2>3. vips[v].num # maxVips
    BY <1>3 DEF modifyVip, Present
  <2>4. Remembers /\ (~bpfFailed' => vip_map' = [vip_map EXCEPT ![VipDefOf(v)] = m])
    BY <2>1, <1>b
  <2>5. vips'[v].num # maxVips /\ m = [num |-> vips'[v].num, flags |-> vips'[v].flags]
    BY <2>2, <2>3
  <2> HIDE DEF m
  <2> QED BY <2>2, <2>4, <2>5, <1>a, OneVipChanges
<1>4. ASSUME delVipEnd PROVE VipMapAgrees'
  <2>1. cvip \in VipKeys /\ vips' = [vips EXCEPT ![cvip] = AbsentVip] /\ delFromVipMap(cvip)
    BY <1>4, <1>a DEF delVipEnd, CallOK
  <2>2. Remembers /\ (~bpfFailed' => vip_map' = [vip_map EXCEPT ![VipDefOf(cvip)] = NoMeta])
    BY <2>1 DEF delFromVipMap, CountFailure, Remembers
  <2>3. AbsentVip.num = maxVips
    BY DEF AbsentVip, NewVip
  <2>4. (\A u \in VipKeys : u # cvip => vips'[u] = vips[u]) /\ vips'[cvip].num = maxVips
    BY <2>1, <2>3, <1>a DEF VipTypeOK
  <2> QED BY <2>1, <2>2, <2>4, <1>a, OneVipChanges
<1>5. VipMapAgrees'
  BY <1>1, <1>2, <1>3, <1>4, StepVips DEF VipMapInv, VipNumInv
<1> QED BY <1>5, <1>a, VipNumInvStep DEF VipMapInv

\* vip_map, for any number of VIPs: as long as no bpf() call has failed, it
\* holds exactly the VIPs of vips_, with their numbers and flags, after each
\* step of every call (addVip, modifyVip and delVip write it; the calls that
\* change the reals of a VIP put back the number and the flags they read).
THEOREM VipMapSafe ==
  ASSUME OneSpelling
  PROVE  Spec => []VipMapAgrees
<1>1. Init => VipMapInv
  <2>1. Init => VipMapAgrees
    BY SMTT(30) DEF Init, VipInit, VipMapAgrees, Present, AbsentVip, NewVip
  <2> QED BY <2>1, InitVipNumInv DEF VipMapInv
<1>2. VipMapInv /\ [Next]_vars => VipMapInv'
  BY VipMapInvStep
<1>3. VipMapInv => VipMapAgrees
  BY DEF VipMapInv
<1> QED BY <1>1, <1>2, <1>3, PTL DEF Spec

-----------------------------------------------------------------------------
(* The entries of the BPF map "reals".                                     *)

\* Each step takes a reference, gives one up, or leaves the pool alone.
PoolStep ==
  \/ UNCHANGED <<reals, numToReals, realNums, bpf_reals>>
  \/ \E a \in Addrs : increaseRefCountForReal(a)
  \/ \E a : decreaseRefCountForReal(a) /\ UNCHANGED bpf_reals

\* Steps of VIPs.
LEMMA VipPoolStep ==
  ASSUME PoolInv, VipNext
  PROVE  PoolStep /\ (op \in {"DEL", "delVip"} => UNCHANGED bpf_reals)
<1> USE DEF poolVars, PoolStep
<1>1. ASSUME NEW v \in VipKeys, NEW f \in AddFlags, addVip(v, f)
      PROVE  UNCHANGED <<reals, numToReals, realNums, bpf_reals>>
  BY <1>1 DEF addVip
<1>2. ASSUME NEW v \in VipKeys, NEW f \in ModFlags, NEW set \in BOOLEAN, modifyVip(v, f, set)
      PROVE  UNCHANGED <<reals, numToReals, realNums, bpf_reals>>
  BY <1>2 DEF modifyVip
<1>3. ASSUME NEW v \in VipKeys, delVip(v) PROVE UNCHANGED <<reals, numToReals, realNums, bpf_reals>>
  BY <1>3 DEF delVip
<1>4. ASSUME delVipReal PROVE PoolStep /\ UNCHANGED bpf_reals
  BY <1>4 DEF delVipReal
<1>5. ASSUME NEW act \in {"ADD", "DEL"}, NEW batch \in RealBatches, NEW v \in VipKeys,
             modifyRealsForVip(act, batch, v)
      PROVE  UNCHANGED <<reals, numToReals, realNums, bpf_reals>>
  BY <1>5 DEF modifyRealsForVip
<1>6. ASSUME addReal PROVE PoolStep /\ op = "ADD"
  <2>1. todo # <<>> /\ op = "ADD"
    BY <1>6 DEF addReal
  <2>2. Head(todo) \in NewReal
    BY SMTT(30), <2>1 DEF PoolInv, TypeOK, VipTypeOK
  <2>3. Head(todo).address \in Addrs \cup {NoAddr}
    BY <2>2 DEF NewReal
  <2>4. \/ UNCHANGED poolVars
        \/ Head(todo).address # NoAddr /\ increaseRefCountForReal(Head(todo).address)
    BY <1>6 DEF addReal
  <2> QED BY <2>1, <2>3, <2>4
<1>7. ASSUME delReal PROVE PoolStep /\ UNCHANGED bpf_reals
  BY <1>7 DEF delReal
<1>8. ASSUME delVipEnd \/ batchRealsUpdate \/ writeChRing \/ modifyRealsEnd
      PROVE  UNCHANGED <<reals, numToReals, realNums, bpf_reals>>
  BY <1>8 DEF delVipEnd, batchRealsUpdate, writeChRing, modifyRealsEnd
<1> QED BY SMTT(30), <1>1, <1>2, <1>3, <1>4, <1>5, <1>6, <1>7, <1>8 DEF VipNext

\* Steps of QUIC mappings and of source routing rules.
LEMMA OtherPoolStep ==
  ASSUME PoolInv, QuicNext \/ SrcNext
  PROVE  PoolStep /\ op \notin {"ADD", "DEL", "delVip", "write"}
<1> USE DEF poolVars, PoolStep
<1>1. op \notin {"ADD", "DEL", "delVip", "write"}
  <2>1. QuicNext => op \in {"idle", "quicADD", "quicDEL"}
    BY DEF QuicNext, modifyQuicRealsMapping, addQuicReal, delQuicReal, writeQuicMapping, modifyQuicEnd,
           Idle
  <2>2. SrcNext => op \in {"idle", "srcParse", "srcADD", "srcWrite", "srcDEL", "srcCLEAR"}
    BY DEF SrcNext, addSrcRoutingRule, addSrcRoutingRuleCidr, parseSrc, parseSrcEnd, addSrcRule,
           writeSrcRule, Idle, addSrcEnd, delSrcRoutingRule, delSrcRule, delSrcEnd,
           clearAllSrcRoutingRules, clearSrcRule, clearSrcEnd
  <2> QED BY <2>1, <2>2
<1>2. ASSUME addQuicReal PROVE PoolStep
  <2>1. qtodo # <<>>
    BY <1>2 DEF addQuicReal
  <2>2. Head(qtodo) \in QuicReal
    BY SMTT(30), <2>1 DEF PoolInv, TypeOK, QuicTypeOK
  <2>3. Head(qtodo).address \in Addrs \cup {NoAddr}
    BY <2>2 DEF QuicReal
  <2>4. \/ UNCHANGED poolVars
        \/ Head(qtodo).address # NoAddr /\ increaseRefCountForReal(Head(qtodo).address)
    BY <1>2 DEF addQuicReal, SkippedQuicReal
  <2> QED BY <2>3, <2>4
<1>3. ASSUME addSrcRule PROVE PoolStep
  <2>1. dst \in Addrs
    BY <1>3 DEF addSrcRule, PoolInv, CallOK
  <2>2. UNCHANGED poolVars \/ increaseRefCountForReal(dst)
    BY <1>3 DEF addSrcRule
  <2> QED BY <2>1, <2>2
<1>4. ASSUME delQuicReal \/ delSrcRule \/ clearSrcRule PROVE PoolStep
  BY <1>4 DEF delQuicReal, delSrcRule, clearSrcRule
<1>5. ASSUME QuicNext \/ SrcNext, ~addQuicReal, ~delQuicReal, ~addSrcRule, ~delSrcRule, ~clearSrcRule
      PROVE  UNCHANGED <<reals, numToReals, realNums, bpf_reals>>
  BY <1>5
     DEF QuicNext, modifyQuicRealsMapping, writeQuicMapping, modifyQuicEnd, SrcNext, addSrcRoutingRule,
         addSrcRoutingRuleCidr, parseSrc, parseSrcEnd, writeSrcRule, addSrcEnd, delSrcRoutingRule,
         delSrcEnd, clearAllSrcRoutingRules, clearSrcEnd
<1> QED BY <1>1, <1>2, <1>3, <1>4, <1>5

\* No step forgets a failed bpf() call.
LEMMA StepRemembers ==
  ASSUME PoolInv, StagedOK, [Next]_vars
  PROVE  Remembers
<1>1. ASSUME NEW v, NEW m, addToVipMap(v, m) PROVE Remembers
  BY <1>1, FailuresCount DEF addToVipMap
<1>2. ASSUME delVipEnd PROVE Remembers
  BY <1>2, FailuresCount DEF delVipEnd, delFromVipMap
<1>3. ASSUME NEW v \in VipKeys, NEW f \in AddFlags, addVip(v, f) PROVE Remembers
  BY <1>3, <1>1 DEF addVip
<1>4. ASSUME NEW v \in VipKeys, NEW f \in ModFlags, NEW set \in BOOLEAN, modifyVip(v, f, set) PROVE Remembers
  BY <1>4, <1>1 DEF modifyVip
<1> QED BY <1>2, <1>3, <1>4, StepVips DEF SameVips

\* What a step does to the entries of "reals": those of numbers in use stay,
\* and a number that is taken into use gets its entry.
LEMMA EntriesOfStep ==
  ASSUME PoolTypeOK, PoolPartition, BpfRealsAgree, PoolStep, Remembers
  PROVE  /\ BpfRealsAgree'
         /\ \A n \in Nums : numToReals[n] # NoAddr => bpf_reals'[n] = bpf_reals[n]
<1> USE PoolAssumption
<1>a. ~bpfFailed' => ~bpfFailed
  BY DEF Remembers
<1>1. CASE UNCHANGED <<reals, numToReals, realNums, bpf_reals>>
  BY <1>1, <1>a DEF BpfRealsAgree
<1>2. ASSUME NEW a \in Addrs, increaseRefCountForReal(a)
      PROVE  /\ BpfRealsAgree'
             /\ \A n \in Nums : numToReals[n] # NoAddr => bpf_reals'[n] = bpf_reals[n]
  <2>1. CASE reals[a] # NoReal
    <3>1. reals' = [reals EXCEPT ![a].refCount = @ + 1] /\ bpf_reals' = bpf_reals
      BY <2>1, <1>2 DEF increaseRefCountForReal
    <3>2. \A b \in Addrs : reals'[b].num = reals[b].num /\ (b # a => reals'[b] = reals[b])
      BY SMTT(30), <3>1
    <3> QED BY <3>1, <3>2, <2>1, <1>a DEF BpfRealsAgree
  <2>2. CASE reals[a] = NoReal /\ realNums # <<>>
    <3> DEFINE h == Head(realNums)
    <3>1. /\ reals' = [reals EXCEPT ![a] = [num |-> h, refCount |-> 1]]
          /\ updateRealsMap(a, h)
      BY <2>2, <1>2 DEF increaseRefCountForReal
    <3>2. h \in Nums /\ numToReals[h] = NoAddr
      BY SMTT(30), <2>2 DEF PoolTypeOK, PoolPartition, Free
    <3>3. /\ bpf_reals' \in {bpf_reals, [bpf_reals EXCEPT ![h] = a]}
          /\ ~bpfFailed' => bpf_reals' = [bpf_reals EXCEPT ![h] = a]
      BY <3>1 DEF updateRealsMap, CountFailure
    <3> HIDE DEF h
    <3>4. \A n \in Nums : n # h => bpf_reals'[n] = bpf_reals[n]
      BY <3>3 DEF PoolTypeOK
    <3>5. ~bpfFailed' => bpf_reals'[h] = a
      BY <3>2, <3>3 DEF PoolTypeOK
    <3>6. reals'[a].num = h /\ \A b \in Addrs : b # a => reals'[b] = reals[b]
      BY <3>1 DEF PoolTypeOK
    <3>7. \A b \in Addrs : reals[b] # NoReal => reals[b].num # h /\ reals[b].num \in Nums
      BY SMTT(30), <3>2 DEF PoolPartition
    <3> QED BY SMTT(30), <3>2, <3>4, <3>5, <3>6, <3>7, <1>a DEF BpfRealsAgree
  <2>3. CASE reals[a] = NoReal /\ realNums = <<>>
    BY <2>3, <1>2, <1>a DEF increaseRefCountForReal, poolVars, BpfRealsAgree
  <2> QED BY <2>1, <2>2, <2>3
<1>3. ASSUME NEW a, decreaseRefCountForReal(a), UNCHANGED bpf_reals PROVE BpfRealsAgree'
  <2>1. \A b \in Addrs : reals'[b] # NoReal => reals[b] # NoReal /\ reals'[b].num = reals[b].num
    <3>1. CASE UNCHANGED reals
      BY <3>1
    <3>2. CASE a \in Addrs /\ reals[a] # NoReal /\ reals' = [reals EXCEPT ![a].refCount = @ - 1]
      BY <3>2 DEF PoolTypeOK, RealMeta
    <3>3. CASE a \in Addrs /\ reals' = [reals EXCEPT ![a] = NoReal]
      BY <3>3 DEF PoolTypeOK
    <3> QED BY <3>1, <3>2, <3>3, <1>3 DEF decreaseRefCountForReal
  <2> QED BY <2>1, <1>3, <1>a DEF BpfRealsAgree
<1> QED BY <1>1, <1>2, <1>3 DEF PoolStep

\* The inductive invariant of the map.
EntriesInv == PoolInv /\ StagedOK /\ BpfRealsAgree

\* Every step of the control plane, or none.
LEMMA StepPool ==
  ASSUME PoolInv, [Next]_vars
  PROVE  PoolStep /\ (op \in {"DEL", "delVip"} => UNCHANGED bpf_reals)
<1>1. CASE UNCHANGED vars
  BY <1>1 DEF vars, poolVars, PoolStep
<1> QED BY <1>1, VipPoolStep, OtherPoolStep DEF Next

LEMMA EntriesInvStep == EntriesInv /\ [Next]_vars => EntriesInv'
<1> SUFFICES ASSUME EntriesInv, [Next]_vars PROVE EntriesInv'
  OBVIOUS
<1>1. PoolInv' /\ StagedOK' /\ Remembers /\ PoolStep
  BY PoolInvStep, StepVips, StepRemembers, StepPool DEF EntriesInv
<1>2. BpfRealsAgree'
  BY <1>1, EntriesOfStep DEF EntriesInv, PoolInv, TypeOK
<1> QED BY <1>1, <1>2 DEF EntriesInv

\* As long as no bpf() call has failed, the BPF map "reals" has the address of
\* every number in use: the only write to it, in increaseRefCountForReal,
\* reaches each number when it is taken off the FIFO, and no number in use.
THEOREM EntriesSafe == Spec => []BpfRealsAgree
<1>1. Init => EntriesInv
  <2>1. Init => StagedOK /\ BpfRealsAgree
    BY SMTT(30) DEF Init, PoolInit, StagedOK, BpfRealsAgree
  <2> QED BY <2>1, InitPoolInv DEF EntriesInv
<1>2. EntriesInv => BpfRealsAgree
  BY DEF EntriesInv
<1> QED BY <1>1, <1>2, EntriesInvStep, PTL DEF Spec

-----------------------------------------------------------------------------
(* What addSrcRoutingRule returns.                                         *)

\* A rule of the call in progress.
Installed(s) == s \in Rules /\ numToReals[lpmSrcMapping[s]] = dst

\* The strings that are checked: without an error so far, the accepted ones and
\* those still to be visited are all that were given.
Parsed ==
  /\ num_errors \in Nat
  /\ Len(src_networks) + Len(srcs) <= Len(asked)
  /\ num_errors = 0 =>
       /\ Len(src_networks) + Len(srcs) = Len(asked)
       /\ \A i \in DOMAIN src_networks : src_networks[i] = asked[i]
       /\ \A i \in DOMAIN srcs : srcs[i] = asked[Len(src_networks) + i]

\* The prefixes that are installed: without an error so far, all that were given
\* but those still to be installed.
InstalledSoFar ==
  num_errors = 0 =>
    /\ Len(src_networks) <= Len(asked)
    /\ \A i \in DOMAIN src_networks : src_networks[i] = asked[Len(asked) - Len(src_networks) + i]
    /\ \A i \in 1..(Len(asked) - Len(src_networks)) : Installed(asked[i])

\* The local variables of addSrcRoutingRule.
AddCallOK ==
  /\ op \notin {"srcParse", "srcADD", "srcWrite"} => num_errors = 0 /\ src_networks = <<>>
  /\ op = "srcParse" => Parsed
  /\ op \in {"srcADD", "srcWrite"} => InstalledSoFar
  /\ op = "srcWrite" => Installed(Head(src_networks))

\* A string that is accepted.
LEMMA AcceptedString ==
  ASSUME NEW S, NEW T, NEW q \in Seq(S), NEW r \in Seq(T), r # <<>>
  PROVE  /\ Len(Append(q, Head(r))) = Len(q) + 1 /\ Len(Tail(r)) = Len(r) - 1
         /\ Len(q) \in Nat /\ Len(r) \in Nat \ {0}
         /\ \A i \in DOMAIN Append(q, Head(r)) :
              (i \in DOMAIN q /\ Append(q, Head(r))[i] = q[i]) \/ (i = Len(q) + 1 /\ Append(q, Head(r))[i] = r[1])
         /\ \A i \in DOMAIN Tail(r) : i \in Nat /\ i + 1 \in DOMAIN r /\ Tail(r)[i] = r[i + 1]
         /\ 1 \in DOMAIN r /\ Head(r) = r[1]
<1>1. Len(q) \in Nat /\ Len(r) \in Nat \ {0} /\ DOMAIN r = 1..Len(r) /\ DOMAIN q = 1..Len(q)
  BY SMTT(30)
<1> DEFINE a == Append(q, Head(r))
           t == Tail(r)
<1>2. Len(t) = Len(r) - 1 /\ DOMAIN t = 1..(Len(r) - 1) /\ \A i \in 1..(Len(r) - 1) : t[i] = r[i + 1]
  BY SMTT(30)
<1>3. Len(a) = Len(q) + 1 /\ DOMAIN a = 1..(Len(q) + 1) /\ a[Len(q) + 1] = r[1]
  BY SMTT(30), <1>1
<1>4. \A i \in 1..Len(q) : a[i] = q[i]
  BY SMTT(30), <1>1
<1> HIDE DEF a, t
<1>5. \A i \in DOMAIN a : (i \in DOMAIN q /\ a[i] = q[i]) \/ (i = Len(q) + 1 /\ a[i] = r[1])
  BY SMTT(30), <1>1, <1>3, <1>4
<1>6. \A i \in DOMAIN t : i \in Nat /\ i + 1 \in DOMAIN r /\ t[i] = r[i + 1]
  BY SMTT(30), <1>1, <1>2
<1>7. 1 \in DOMAIN r /\ Head(r) = r[1]
  BY SMTT(30), <1>1
<1> QED BY <1>1, <1>2, <1>3, <1>5, <1>6, <1>7 DEF a, t

\* A string is checked.
LEMMA ParseSrcAdds ==
  ASSUME SrcTypeOK, Parsed, parseSrc
  PROVE  Parsed'
<1>1. /\ srcs \in Seq(Srcs \cup {BadSrc}) /\ srcs # <<>> /\ src_networks \in Seq(Srcs)
      /\ asked \in Seq(Srcs \cup {BadSrc}) /\ asked' = asked
  BY DEF parseSrc, SrcTypeOK
<1>a. Len(asked) \in Nat
  BY SMTT(30), <1>1
<1>2. /\ Len(Tail(srcs)) = Len(srcs) - 1
      /\ Len(src_networks) \in Nat /\ Len(srcs) \in Nat \ {0}
  BY <1>1, AcceptedString
<1>3. CASE srcs' = Tail(srcs) /\ num_errors' = num_errors + 1 /\ UNCHANGED src_networks
  BY SMTT(30), <1>1, <1>2, <1>3, <1>a DEF Parsed
<1>4. CASE srcs' = <<>> /\ num_errors' = num_errors + (Len(asked) - Len(src_networks)) /\ UNCHANGED src_networks
  BY SMTT(30), <1>1, <1>2, <1>4, <1>a DEF Parsed
<1>5. CASE srcs' = Tail(srcs) /\ src_networks' = Append(src_networks, Head(srcs)) /\ UNCHANGED num_errors
  <2>1. /\ Len(src_networks') = Len(src_networks) + 1 /\ Len(srcs') = Len(srcs) - 1
        /\ \A i \in DOMAIN src_networks' :
             (i \in DOMAIN src_networks /\ src_networks'[i] = src_networks[i])
             \/ (i = Len(src_networks) + 1 /\ src_networks'[i] = srcs[1])
        /\ \A i \in DOMAIN srcs' : i \in Nat /\ i + 1 \in DOMAIN srcs /\ srcs'[i] = srcs[i + 1]
        /\ 1 \in DOMAIN srcs
    <3> DEFINE a == Append(src_networks, Head(srcs))
               t == Tail(srcs)
    <3>1. /\ Len(a) = Len(src_networks) + 1 /\ Len(t) = Len(srcs) - 1
          /\ \A i \in DOMAIN a : (i \in DOMAIN src_networks /\ a[i] = src_networks[i])
                               \/ (i = Len(src_networks) + 1 /\ a[i] = srcs[1])
          /\ \A i \in DOMAIN t : i \in Nat /\ i + 1 \in DOMAIN srcs /\ t[i] = srcs[i + 1]
          /\ 1 \in DOMAIN srcs
      BY SMTT(30), <1>1, AcceptedString
    <3>2. src_networks' = a /\ srcs' = t
      BY <1>5
    <3> HIDE DEF a, t
    <3> QED BY <3>1, <3>2
  <2>2. num_errors' = num_errors /\ asked' = asked
    BY <1>1, <1>5
  <2>3. \A i \in Nat : Len(src_networks) + (i + 1) = (Len(src_networks) + 1) + i
    BY SMTT(30), <1>2
  <2>4. ASSUME num_errors = 0
        PROVE  /\ \A i \in DOMAIN src_networks' : src_networks'[i] = asked[i]
               /\ \A i \in DOMAIN srcs' : srcs'[i] = asked[(Len(src_networks) + 1) + i]
    BY <2>1, <2>3, <2>4 DEF Parsed
  <2>5. /\ Len(src_networks') + Len(srcs') = Len(src_networks) + Len(srcs)
    BY SMTT(30), <2>1, <1>2
  <2> QED BY <2>1, <2>2, <2>4, <2>5 DEF Parsed
<1> QED BY <1>3, <1>4, <1>5 DEF parseSrc

\* A rule is added to lpmSrcMapping_.
LEMMA AddSrcRuleInstalls ==
  ASSUME SrcTypeOK, PoolTypeOK, PoolPartition, dst \in Addrs, InstalledSoFar, addSrcRule
  PROVE  InstalledSoFar' /\ (op' = "srcWrite" => Installed(Head(src_networks))')
<1>1. CASE UNCHANGED <<poolVars, lpmSrcMapping>> /\ num_errors' = kError /\ op' = "srcADD"
  <2>1. num_errors' # 0
    BY SMTT(30), <1>1 DEF kError
  <2> QED BY <1>1, <2>1 DEF InstalledSoFar
<1>2. CASE num_errors' = kError /\ op' = "srcADD"
  <2>1. num_errors' # 0
    BY SMTT(30), <1>2 DEF kError
  <2> QED BY <1>2, <2>1 DEF InstalledSoFar
<1>3. CASE /\ increaseRefCountForReal(dst) /\ Rnum(dst) # maxReals
           /\ lpmSrcMapping' = [lpmSrcMapping EXCEPT ![Head(src_networks)] = Rnum(dst)]
           /\ UNCHANGED <<num_errors, src_networks, asked, dst>>
  <2>1. Rnum(dst) \in Nums
    BY <1>3, RnumInPool
  <2>2. /\ numToReals'[Rnum(dst)] = dst
        /\ \A n \in Nums : n # Rnum(dst) => numToReals'[n] = numToReals[n]
    <3>1. PICK m \in Nums : m = Rnum(dst)
      BY <2>1
    <3>2. increaseRefCountForReal(dst)
      BY <1>3
    <3>3. numToReals'[m] = dst /\ \A n \in Nums : n # m => numToReals'[n] = numToReals[n]
      BY SMTT(30), <3>1, <3>2, IncreaseEffect
    <3> QED BY <3>1, <3>3
  <2>3. Head(src_networks) \in Srcs /\ src_networks # <<>>
    BY SMTT(30) DEF addSrcRule, SrcTypeOK
  <2>4. /\ lpmSrcMapping'[Head(src_networks)] = Rnum(dst)
        /\ \A s \in Srcs : s # Head(src_networks) => lpmSrcMapping'[s] = lpmSrcMapping[s]
    BY <1>3, <2>3 DEF SrcTypeOK
  <2>5. Installed(Head(src_networks))'
    BY <2>2, <2>3, <2>4, <1>3 DEF Installed, Rules
  <2>6. ASSUME NEW s, Installed(s) PROVE Installed(s)'
    <3>1. CASE s = Head(src_networks)
      BY <3>1, <2>5, <1>3 DEF Installed, Rules
    <3>2. CASE s # Head(src_networks)
      <4>1. s \in Srcs /\ lpmSrcMapping[s] # maxReals /\ numToReals[lpmSrcMapping[s]] = dst
        BY <2>6 DEF Installed, Rules
      <4>2. lpmSrcMapping[s] \in Nums
        BY SMTT(30), <4>1, PoolAssumption DEF SrcTypeOK, Nums
      <4>3. numToReals'[lpmSrcMapping[s]] = dst
        BY <4>1, <4>2, <2>2
      <4> QED BY <4>1, <4>3, <3>2, <2>4, <1>3 DEF Installed, Rules
    <3> QED BY <3>1, <3>2
  <2>7. InstalledSoFar'
    BY <2>6, <1>3 DEF InstalledSoFar
  <2> QED BY <2>5, <2>7, <1>3
<1> QED BY <1>1, <1>2, <1>3 DEF addSrcRule

\* The rule is written to the trie, and the next prefix is due.
LEMMA WriteSrcRuleInstalls ==
  ASSUME SrcTypeOK, src_networks # <<>>, InstalledSoFar, Installed(Head(src_networks)), writeSrcRule
  PROVE  InstalledSoFar'
<1>1. /\ src_networks' = Tail(src_networks)
      /\ UNCHANGED <<numToReals, lpmSrcMapping, asked, dst, num_errors>>
  BY DEF writeSrcRule
<1>2. \A s : Installed(s)' <=> Installed(s)
  BY <1>1 DEF Installed, Rules
<1>3. CASE num_errors # 0
  BY <1>1, <1>3 DEF InstalledSoFar
<1>4. CASE num_errors = 0
  <2> DEFINE t == Tail(src_networks)
             done == Len(asked) - Len(src_networks)
  <2>1. /\ Len(asked) \in Nat /\ Len(src_networks) \in Nat \ {0} /\ DOMAIN src_networks = 1..Len(src_networks)
        /\ Head(src_networks) = src_networks[1]
        /\ Len(t) = Len(src_networks) - 1 /\ DOMAIN t = 1..(Len(src_networks) - 1)
        /\ \A i \in DOMAIN t : t[i] = src_networks[i + 1]
    BY SMTT(30) DEF SrcTypeOK
  <2>2. /\ Len(src_networks) <= Len(asked)
        /\ \A i \in DOMAIN src_networks : src_networks[i] = asked[done + i]
        /\ \A i \in 1..done : Installed(asked[i])
    BY <1>4 DEF InstalledSoFar
  <2> HIDE DEF t
  <2>3. done \in Nat /\ Len(asked) - Len(t) = done + 1 /\ Len(t) <= Len(asked)
    BY SMTT(30), <2>1, <2>2
  <2>4. Installed(asked[done + 1])
    <3>1. 1 \in DOMAIN src_networks
      BY SMTT(30), <2>1
    <3> QED BY <3>1, <2>1, <2>2
  <2> HIDE DEF done
  <2>5. \A i \in DOMAIN t : t[i] = asked[(done + 1) + i]
    <3>1. \A i \in DOMAIN t : i + 1 \in DOMAIN src_networks /\ done + (i + 1) = (done + 1) + i
      BY SMTT(30), <2>1, <2>3
    <3> QED BY <3>1, <2>1, <2>2
  <2>6. \A i \in 1..(done + 1) : Installed(asked[i])
    <3>1. \A i \in 1..(done + 1) : i \in 1..done \/ i = done + 1
      BY SMTT(30), <2>3
    <3> QED BY <3>1, <2>2, <2>4
  <2>7. src_networks' = t
    BY <1>1 DEF t
  <2> QED BY <1>1, <1>2, <2>3, <2>5, <2>6, <2>7 DEF InstalledSoFar
<1> QED BY <1>3, <1>4

\* The other steps of source routing rules.
LEMMA SrcStepAddCall ==
  ASSUME PoolInv, AddCallOK, SrcNext
  PROVE  AddCallOK'
<1>a. SrcTypeOK /\ PoolTypeOK /\ PoolPartition /\ CallOK
  BY DEF PoolInv, TypeOK
<1>1. ASSUME NEW batch \in SrcBatches, NEW a \in Addrs, addSrcRoutingRule(batch, a) PROVE AddCallOK'
  <2>1. /\ op' = "srcParse" /\ asked' = batch /\ srcs' = batch
        /\ src_networks' = <<>> /\ num_errors' = 0
    BY <1>1 DEF addSrcRoutingRule, AddCallOK, Idle
  <2>2. batch \in Seq(Srcs \cup {BadSrc})
    BY SrcAssumption
  <2>3. Parsed'
    BY SMTT(30), <2>1, <2>2 DEF Parsed
  <2> QED BY <2>1, <2>3 DEF AddCallOK
<1>2. ASSUME NEW batch \in SrcBatches \cap Seq(Srcs), NEW a \in Addrs, addSrcRoutingRuleCidr(batch, a)
      PROVE  AddCallOK'
  <2>1. op' = "srcADD" /\ asked' = batch /\ src_networks' = batch /\ batch \in Seq(Srcs)
    BY <1>2 DEF addSrcRoutingRuleCidr
  <2>2. /\ Len(batch) <= Len(batch) /\ 1..(Len(batch) - Len(batch)) = {}
        /\ \A i \in DOMAIN batch : Len(batch) - Len(batch) + i = i
    BY SMTT(30), <2>1
  <2>3. InstalledSoFar'
    BY <2>1, <2>2 DEF InstalledSoFar
  <2> QED BY <2>1, <2>3 DEF AddCallOK
<1>3. ASSUME parseSrc PROVE AddCallOK'
  <2>1. op = "srcParse" /\ op' = "srcParse"
    BY <1>3 DEF parseSrc
  <2> QED BY <2>1, <1>3, <1>a, ParseSrcAdds DEF AddCallOK
<1>4. ASSUME parseSrcEnd PROVE AddCallOK'
  <2>1. /\ op' = "srcADD" /\ srcs = <<>> /\ Parsed
        /\ UNCHANGED <<numToReals, lpmSrcMapping, asked, src_networks, dst, num_errors>>
    BY <1>4 DEF parseSrcEnd, AddCallOK, poolVars, srcVars, srcCallVars
  <2>2. num_errors = 0 => /\ Len(src_networks) <= Len(asked) /\ 1..(Len(asked) - Len(src_networks)) = {}
                          /\ \A i \in DOMAIN src_networks : Len(asked) - Len(src_networks) + i = i
    BY SMTT(30), <2>1, <1>a DEF Parsed, SrcTypeOK
  <2>3. InstalledSoFar'
    BY <2>1, <2>2 DEF InstalledSoFar, Parsed
  <2> QED BY <2>1, <2>3 DEF AddCallOK
<1>5. ASSUME addSrcRule PROVE AddCallOK'
  <2>1. op = "srcADD" /\ op' \in {"srcADD", "srcWrite"} /\ dst \in Addrs
    BY <1>5, <1>a DEF addSrcRule, CallOK
  <2> QED BY <2>1, <1>5, <1>a, AddSrcRuleInstalls DEF AddCallOK
<1>6. ASSUME writeSrcRule PROVE AddCallOK'
  <2>1. op = "srcWrite" /\ op' = "srcADD" /\ src_networks # <<>>
    BY <1>6, <1>a DEF writeSrcRule, CallOK
  <2> QED BY <2>1, <1>6, <1>a, WriteSrcRuleInstalls DEF AddCallOK
<1>7. ASSUME addSrcEnd \/ delSrcEnd \/ clearSrcEnd PROVE AddCallOK'
  BY <1>7 DEF addSrcEnd, delSrcEnd, clearSrcEnd, ReturnFromSrcCall, AddCallOK
<1>8. ASSUME (\E batch \in SrcBatches : delSrcRoutingRule(batch)) \/ delSrcRule
             \/ clearAllSrcRoutingRules \/ clearSrcRule
      PROVE  AddCallOK'
  <2>1. /\ op \in {"idle", "srcDEL", "srcCLEAR"} /\ op' \in {"srcDEL", "srcCLEAR"}
        /\ UNCHANGED <<src_networks, num_errors>>
    BY <1>8 DEF delSrcRoutingRule, delSrcRule, clearAllSrcRoutingRules, clearSrcRule, Idle, srcCallVars
  <2> QED BY <2>1 DEF AddCallOK
<1> QED BY <1>1, <1>2, <1>3, <1>4, <1>5, <1>6, <1>7, <1>8 DEF SrcNext

\* Every step.
LEMMA AddCallStep ==
  ASSUME PoolInv, AddCallOK, [Next]_vars
  PROVE  AddCallOK'
<1>1. ASSUME VipNext \/ QuicNext, UNCHANGED srcCallVars PROVE AddCallOK'
  <2>1. VipNext => op \notin {"srcParse", "srcADD", "srcWrite"} /\ op' \notin {"srcParse", "srcADD", "srcWrite"}
    BY DEF VipNext, addVip, delVip, delVipReal, delVipEnd, modifyVip, modifyRealsForVip, addReal,
           delReal, batchRealsUpdate, writeChRing, modifyRealsEnd, ReturnFromVipCall, Idle
  <2>2. QuicNext => op \notin {"srcParse", "srcADD", "srcWrite"} /\ op' \notin {"srcParse", "srcADD", "srcWrite"}
    BY DEF QuicNext, modifyQuicRealsMapping, addQuicReal, delQuicReal, writeQuicMapping, modifyQuicEnd,
           Idle
  <2> QED BY <2>1, <2>2, <1>1 DEF AddCallOK, srcCallVars
<1>2. CASE UNCHANGED vars
  <2>1. UNCHANGED <<op, numToReals, lpmSrcMapping, asked, srcs, src_networks, dst, num_errors>>
    BY <1>2 DEF vars, poolVars, srcVars, srcCallVars
  <2>2. \A s : Installed(s)' <=> Installed(s)
    BY <2>1 DEF Installed, Rules
  <2> QED BY <2>1, <2>2 DEF AddCallOK, Parsed, InstalledSoFar
<1> QED BY <1>1, <1>2, SrcStepAddCall DEF Next

\* addSrcRoutingRule returns "0 on success" (KatranLb.h:249), for any prefixes,
\* strings and limits, whatever bpf() calls fail: each of the given sources then
\* has a rule that leads to dst.
THEOREM ZeroIsSuccess == Spec => []ZeroMeansInstalled
<1>1. Init => AddCallOK
  BY DEF Init, SrcInit, AddCallOK
<1>2. PoolInv /\ AddCallOK /\ [Next]_vars => AddCallOK'
  BY AddCallStep
<1>3. PoolInv /\ AddCallOK => ZeroMeansInstalled
  <2> SUFFICES ASSUME PoolInv, AddCallOK, Returning, num_errors = 0, NEW i \in DOMAIN asked
               PROVE  Installed(asked[i])
    BY DEF ZeroMeansInstalled, Installed
  <2>1. InstalledSoFar /\ src_networks = <<>> /\ asked \in Seq(Srcs \cup {BadSrc})
    BY DEF AddCallOK, Returning, PoolInv, TypeOK, SrcTypeOK
  <2>2. i \in 1..(Len(asked) - Len(src_networks))
    BY SMTT(30), <2>1
  <2> QED BY <2>1, <2>2 DEF InstalledSoFar
<1> QED BY <1>1, <1>2, <1>3, InitPoolInv, PoolInvStep, PTL DEF Spec

=============================================================================
