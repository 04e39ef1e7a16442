-------------------------- MODULE UserStepsProofs ---------------------------
(***************************************************************************)
(* The calls of KatranLb treat the users of the numbers in one of the      *)
(* three ways of PoolProofs, when the reals of one call of                 *)
(* modifyRealsForVip are different (DistinctReals).                        *)
(***************************************************************************)
EXTENDS PoolProofs

\* The prover of every leaf that names no other.
USE ZenonT(30)

-----------------------------------------------------------------------------
(* addVip, delVip, modifyVip and modifyRealsForVip.                        *)

\* A step that leaves the pool, the rules, the mappings and what VIPs hold alone.
LEMMA NobodyCounted ==
  ASSUME UNCHANGED <<HeldRules, lpmSrcMapping, quicMapping>>, UNCHANGED <<reals, numToReals>>,
         \A v \in VipKeys : HeldReals(v)' = HeldReals(v)
  PROVE  Counted
BY DEF Counted, Nobody

\* Absent VIPs keep having no reals when the VIPs stay.
LEMMA AbsentStay ==
  ASSUME LoopOK, UNCHANGED vips
  PROVE  \A v \in VipKeys : ~Present(v)' => vips'[v].reals = {}
BY DEF LoopOK, Present

\* addVip: a new VIP has no reals.
LEMMA AddVipUsers ==
  ASSUME PoolTypeOK, PoolPartition, VipTypeOK, CallOK, LoopOK, RefCountCoversUsers,
         UNCHANGED <<HeldRules, lpmSrcMapping, quicMapping>>, NEW v \in VipKeys, NEW f \in AddFlags,
         addVip(v, f)
  PROVE  UsersStep
<1>1. \A w \in VipKeys : HeldReals(w)' = HeldReals(w)
  <2>1. op = "idle" /\ op' = "idle" /\ vips[v].reals = {}
    BY DEF addVip, Idle, LoopOK
  <2>2. vips'[v].reals = {} /\ \A w \in VipKeys : w # v => vips'[w] = vips[w]
    BY DEF addVip, NewVip, VipTypeOK
  <2>3. \A w \in VipKeys : HeldReals(w) = vips[w].reals /\ HeldReals(w)' = vips'[w].reals
    BY <2>1 DEF HeldReals
  <2>4. \A w \in VipKeys : vips'[w].reals = vips[w].reals
    BY <2>1, <2>2
  <2> QED BY <2>3, <2>4
<1>2. \A w \in VipKeys : ~Present(w)' => vips'[w].reals = {}
  BY DEF addVip, NewVip, VipTypeOK, LoopOK, Present
<1>3. LoopOK'
  BY <1>2 DEF addVip, Idle, LoopOK
<1> QED BY <1>1, <1>3, NobodyCounted DEF addVip, UsersStep

\* modifyVip changes flags only.
LEMMA ModifyVipUsers ==
  ASSUME PoolTypeOK, PoolPartition, VipTypeOK, CallOK, LoopOK, RefCountCoversUsers,
         UNCHANGED <<HeldRules, lpmSrcMapping, quicMapping>>, NEW v \in VipKeys, NEW f \in ModFlags,
         NEW set \in BOOLEAN, modifyVip(v, f, set)
  PROVE  UsersStep
<1>1. PICK flags : vips' = [vips EXCEPT ![v].flags = flags]
  BY DEF modifyVip
<1>2. \A w \in VipKeys : vips'[w].reals = vips[w].reals /\ vips'[w].num = vips[w].num
  BY <1>1 DEF VipTypeOK, Vip
<1>3. \A w \in VipKeys : HeldReals(w)' = HeldReals(w)
  BY <1>2 DEF modifyVip, Idle, HeldReals
<1>4. LoopOK'
  BY <1>2 DEF modifyVip, Idle, LoopOK, Present
<1> QED BY <1>3, <1>4, NobodyCounted DEF modifyVip, UsersStep

\* delVip: the VIP holds its reals until the loop over them.
LEMMA DelVipUsers ==
  ASSUME LoopOK, UNCHANGED <<HeldRules, lpmSrcMapping, quicMapping>>, NEW v \in VipKeys, delVip(v)
  PROVE  UsersStep
<1>1. \A w \in VipKeys : HeldReals(w)' = HeldReals(w)
  BY DEF delVip, Idle, HeldReals, vipVars
<1> QED BY <1>1, NobodyCounted, AbsentStay DEF delVip, UsersStep, LoopOK, poolVars, vipVars

\* The loop of delVip gives up one real of the VIP.
LEMMA DelVipRealUsers ==
  ASSUME PoolTypeOK, PoolPartition, VipTypeOK, CallOK, LoopOK, RefCountCoversUsers,
         UNCHANGED <<HeldRules, lpmSrcMapping, quicMapping>>, delVipReal
  PROVE  UsersStep
<1>1. PICK n \in staged.reals : decreaseRefCountForReal(numToReals[n]) /\ staged' = [staged EXCEPT !.reals = @ \ {n}]
  BY DEF delVipReal
<1>2. n \in Nums /\ cvip \in VipKeys /\ op = "delVip" /\ UNCHANGED <<op, vips, cvip>>
  BY <1>1 DEF delVipReal, VipTypeOK, Vip, CallOK, vipVars
<1>3. staged'.reals = staged.reals \ {n}
  BY <1>1 DEF VipTypeOK, Vip
<1>4. PICK u \in AllUsers : u = <<"vip", cvip>>
  BY <1>2 DEF AllUsers
<1>5. Holds(u, n)
  BY <1>1, <1>2, <1>4 DEF Holds, HeldReals
<1>6. \A w \in VipKeys, k \in Nums : k \in HeldReals(w)' <=> k \in HeldReals(w) /\ ~(k = n /\ u = <<"vip", w>>)
  BY <1>2, <1>3, <1>4 DEF HeldReals
<1>7. \A s : u # <<"src", s>> /\ u # <<"quic", s>>
  BY <1>4
<1>8. PICK a : a = numToReals[n]
  OBVIOUS
<1>9. decreaseRefCountForReal(a)
  BY <1>1, <1>8
<1>10a. Gives(n, u)
  BY <1>2, <1>5, <1>6, <1>7, <1>8, <1>9 DEF Gives
<1>10. Counted
  BY <1>10a, <1>2, <1>5, <1>6, <1>7, <1>8, <1>9, GivesCounted
<1> QED BY <1>2, <1>10, AbsentStay DEF UsersStep, LoopOK

\* delVip erases a VIP that holds nothing any more.
LEMMA DelVipEndUsers ==
  ASSUME PoolTypeOK, PoolPartition, VipTypeOK, CallOK, LoopOK, RefCountCoversUsers,
         UNCHANGED <<HeldRules, lpmSrcMapping, quicMapping>>, delVipEnd
  PROVE  UsersStep
<1>1. cvip \in VipKeys /\ op = "delVip" /\ staged.reals = {} /\ op' = "idle"
  BY DEF delVipEnd, CallOK, ReturnFromVipCall
<1>2. \A w \in VipKeys : w # cvip => vips'[w] = vips[w]
  BY DEF delVipEnd, VipTypeOK
<1>3. vips'[cvip].reals = {}
  BY <1>1 DEF delVipEnd, VipTypeOK, AbsentVip, NewVip
<1>4. \A w \in VipKeys : HeldReals(w)' = HeldReals(w)
  <2>1. \A w \in VipKeys : HeldReals(w)' = vips'[w].reals
    BY <1>1 DEF HeldReals
  <2>2. \A w \in VipKeys : HeldReals(w) = IF w = cvip THEN {} ELSE vips[w].reals
    BY <1>1 DEF HeldReals
  <2> QED BY <2>1, <2>2, <1>2, <1>3
<1>5. LoopOK'
  BY <1>1, <1>2, <1>3 DEF LoopOK, Present
<1> QED BY <1>4, <1>5, NobodyCounted DEF delVipEnd, UsersStep

\* modifyRealsForVip starts from a copy of the VIP.
LEMMA ModifyRealsUsers ==
  ASSUME DistinctReals, LoopOK, UNCHANGED <<HeldRules, lpmSrcMapping, quicMapping>>, NEW act \in {"ADD", "DEL"},
         NEW batch \in RealBatches, NEW v \in VipKeys, modifyRealsForVip(act, batch, v)
  PROVE  UsersStep
<1>1. \A w \in VipKeys : HeldReals(w)' = HeldReals(w)
  BY DEF modifyRealsForVip, Idle, HeldReals, vipVars
<1>2. Counted
  BY <1>1, NobodyCounted DEF modifyRealsForVip, poolVars
<1>3. todo' = batch /\ cur_reals' = vips[v].reals /\ staged' = vips[v] /\ reals' = reals /\ vips' = vips
  BY DEF modifyRealsForVip, poolVars, vipVars
<1>4. LoopOK'
  BY SMTT(30), <1>3, AbsentStay DEF LoopOK, DistinctReals
<1> QED BY <1>2, <1>4 DEF UsersInv, UsersStep

\* addReal takes a reference for a real the VIP does not have yet.
LEMMA AddRealUsers ==
  ASSUME PoolTypeOK, PoolPartition, VipTypeOK, CallOK, LoopOK, RefCountCoversUsers,
         UNCHANGED <<HeldRules, lpmSrcMapping, quicMapping>>, addReal
  PROVE  UsersStep
<1> DEFINE r == Head(todo)
<1>0. PICK a \in Addrs \cup {NoAddr} : a = r.address
  <2>1. r \in NewReal
    BY SMTT(30) DEF addReal, VipTypeOK
  <2> QED BY <2>1 DEF NewReal
<1>1. op = "ADD" /\ UNCHANGED <<op, vips, cvip>> /\ cvip \in VipKeys /\ cur_reals \subseteq staged.reals
  BY DEF addReal, CallOK, vipVars, LoopOK
<1>2. ASSUME NEW n, PushAdd(n, r) PROVE staged'.reals = staged.reals \cup {n}
  BY <1>2 DEF PushAdd, VipTypeOK, Vip
<1>3. PICK u \in AllUsers : u = <<"vip", cvip>>
  BY <1>1 DEF AllUsers
<1>u. \A s : u # <<"src", s>> /\ u # <<"quic", s>>
  BY <1>3
<1>4. ASSUME NEW n \in Nums, staged'.reals = staged.reals \cup {n}
      PROVE  \A w \in VipKeys, k \in Nums : k \in HeldReals(w)' <=> k \in HeldReals(w) \/ (k = n /\ u = <<"vip", w>>)
  BY <1>1, <1>3, <1>4 DEF HeldReals
<1>5. ASSUME UNCHANGED poolVars, staged'.reals = staged.reals, cur_reals' = cur_reals PROVE UsersStep
  <2>1. \A w \in VipKeys : HeldReals(w)' = HeldReals(w)
    BY <1>1, <1>5 DEF HeldReals
  <2> QED BY <2>1, <1>1, <1>5, NobodyCounted, AbsentStay DEF UsersStep, LoopOK, poolVars
<1>6. CASE a = NoAddr
  BY <1>5, <1>6, <1>0 DEF addReal
<1>7. CASE a # NoAddr /\ reals[a] # NoReal /\ reals[a].num \in cur_reals
  <2>1. PushAdd(reals[a].num, r) /\ UNCHANGED <<poolVars, cur_reals>>
    BY <1>7, <1>0 DEF addReal
  <2>2. staged'.reals = staged.reals
    <3>1. PICK n : n = reals[a].num
      OBVIOUS
    <3>2. staged'.reals = staged.reals \cup {n}
      BY <3>1, <2>1, <1>2
    <3>3. n \in staged.reals
      BY <3>1, <1>1, <1>7
    <3> HIDE DEF r
    <3> QED BY <3>2, <3>3
  <2> QED BY <2>1, <2>2, <1>5
<1>8. CASE a # NoAddr /\ reals[a] # NoReal /\ reals[a].num \notin cur_reals
  <2>1. PushAdd(reals[a].num, r) /\ increaseRefCountForReal(a) /\ cur_reals' = cur_reals \cup {reals[a].num}
    BY <1>8, <1>0 DEF addReal
  <2>2. Rnum(a) = reals[a].num /\ Rnum(a) \in Nums /\ Rnum(a) # maxReals
    BY SMTT(30), <1>8 DEF Rnum, PoolPartition, Nums
  <2>3. staged'.reals = staged.reals \cup {Rnum(a)}
    BY <2>1, <2>2, <1>2
  <2>4a. Takes(a, u)
    BY <2>1, <2>2, <2>3, <1>4, <1>u, <1>8 DEF Takes
  <2>4. Counted
    BY <2>4a, <2>1, <2>2, <2>3, <1>4, <1>8, TakesCounted
  <2> QED BY <2>1, <2>2, <2>3, <2>4, <1>1, AbsentStay DEF UsersStep, LoopOK
<1>9. CASE a # NoAddr /\ reals[a] = NoReal
  <2>1. /\ increaseRefCountForReal(a) /\ UNCHANGED cur_reals
        /\ IF Rnum(a) = maxReals THEN UNCHANGED <<staged, changed>> ELSE PushAdd(Rnum(a), r)
    BY <1>9, <1>0 DEF addReal
  <2>2. CASE Rnum(a) = maxReals
    <3>1. realNums = <<>>
      BY SMTT(30), <2>2, <1>9 DEF Rnum, PoolTypeOK, Nums
    <3>2. UNCHANGED poolVars
      BY <3>1, <2>1, <1>9 DEF increaseRefCountForReal
    <3> QED BY <3>2, <2>1, <2>2, <1>5
  <2>3. CASE Rnum(a) # maxReals
    <3>1. Rnum(a) \in Nums
      BY SMTT(30), <2>3, <1>9 DEF Rnum, PoolTypeOK
    <3>2. staged'.reals = staged.reals \cup {Rnum(a)}
      BY <2>1, <2>3, <1>2
    <3>3a. Takes(a, u)
      BY <3>1, <3>2, <2>1, <2>3, <1>4, <1>u, <1>9 DEF Takes
    <3>3. Counted
      BY <3>3a, <3>1, <3>2, <2>1, <2>3, <1>4, <1>9, TakesCounted
    <3> QED BY <3>2, <3>3, <2>1, <1>1, AbsentStay DEF UsersStep, LoopOK
  <2> QED BY <2>2, <2>3
<1> QED BY <1>6, <1>7, <1>8, <1>9

\* delReal gives up the reference of a real the VIP has.
LEMMA DelRealUsers ==
  ASSUME PoolTypeOK, PoolPartition, VipTypeOK, CallOK, LoopOK, RefCountCoversUsers,
         UNCHANGED <<HeldRules, lpmSrcMapping, quicMapping>>, delReal
  PROVE  UsersStep
<1>0. PICK a \in Addrs \cup {NoAddr} : a = Head(todo).address
  <2>0. todo # <<>>
    BY DEF delReal
  <2>1. Head(todo) \in NewReal
    BY SMTT(30), <2>0 DEF VipTypeOK
  <2> QED BY <2>1 DEF NewReal
<1>1. /\ op = "DEL" /\ UNCHANGED <<op, vips, cvip, cur_reals>> /\ cvip \in VipKeys
      /\ todo # <<>> /\ todo' = Tail(todo)
  BY DEF delReal, CallOK, vipVars
<1>2. \A i \in DOMAIN todo' : i + 1 \in DOMAIN todo /\ todo'[i] = todo[i + 1]
  BY SMTT(30), <1>1 DEF VipTypeOK
<1>3. 1 \in DOMAIN todo /\ todo[1].address = a
  BY SMTT(30), <1>0, <1>1
<1>4. \A i \in DOMAIN todo' : todo'[i].address = a => a = NoAddr
  BY SMTT(30), <1>3, <1>1 DEF LoopOK, VipTypeOK
<1> DEFINE ofVip == a # NoAddr /\ reals[a] # NoReal /\ reals[a].num \in cur_reals
<1>5. CASE ~ofVip
  <2>1. UNCHANGED <<poolVars, staged, changed>>
    BY <1>5, <1>0 DEF delReal
  <2>2. \A w \in VipKeys : HeldReals(w)' = HeldReals(w)
    BY <2>1, <1>1 DEF HeldReals
  <2>3. Counted
    BY <2>1, <2>2, NobodyCounted DEF poolVars
  <2>4. LoopOK'
    <3>1. \A i, j \in DOMAIN todo' : i # j => i + 1 # j + 1
      BY SMTT(30), <1>1
    <3> QED BY SMTT(30), <2>1, <1>1, <1>2, AbsentStay DEF LoopOK, poolVars
  <2> QED BY <2>3, <2>4 DEF UsersInv, UsersStep
<1>6. CASE ofVip
  <2>1. decreaseRefCountForReal(a) /\ PushDel(reals[a].num)
    BY <1>6, <1>0 DEF delReal
  <2>2. PICK n \in Nums : n = reals[a].num /\ numToReals[n] = a
    BY <1>6 DEF PoolPartition
  <2>3. staged'.reals = staged.reals \ {n} /\ n \in staged.reals
    <3>1. n \in staged.reals
      BY <2>2, <1>1, <1>3, <1>6 DEF LoopOK
    <3> QED BY <3>1, <2>1, <2>2 DEF PushDel, VipTypeOK, Vip
  <2>4. PICK u \in AllUsers : u = <<"vip", cvip>>
    BY <1>1 DEF AllUsers
  <2>5. Holds(u, n)
    BY <2>3, <2>4, <1>1 DEF Holds, HeldReals
  <2>6. \A w \in VipKeys, k \in Nums : k \in HeldReals(w)' <=> k \in HeldReals(w) /\ ~(k = n /\ u = <<"vip", w>>)
    BY <2>3, <2>4, <1>1 DEF HeldReals
  <2>7. \A s : u # <<"src", s>> /\ u # <<"quic", s>>
    BY <2>4
  <2>8a. Gives(n, u)
    BY <2>1, <2>2, <2>5, <2>6, <2>7 DEF Gives
  <2>8. Counted
    BY <2>8a, <2>1, <2>2, <2>5, <2>6, <2>7, GivesCounted
  <2>9. \A b \in Addrs : b # a => reals'[b] = reals[b] /\ (reals[b] # NoReal => reals[b].num # n)
    BY <2>1, <2>2 DEF decreaseRefCountForReal, PoolTypeOK, PoolPartition
  <2>10. LoopOK'
    <3>1. \A i, j \in DOMAIN todo' : i # j => i + 1 # j + 1
      BY SMTT(30), <1>1
    <3>2. \A i \in DOMAIN todo' : todo'[i].address \in Addrs \cup {NoAddr}
      <4>1. todo \in Seq(NewReal)
        BY DEF VipTypeOK
      <4>2. \A k \in DOMAIN todo : todo[k] \in NewReal
        BY SMTT(30), <4>1
      <4>3. \A r \in NewReal : r.address \in Addrs \cup {NoAddr}
        BY DEF NewReal
      <4> QED BY <4>2, <4>3, <1>2
    <3>3. ASSUME NEW i \in DOMAIN todo', todo'[i].address # NoAddr
          PROVE  \A j \in DOMAIN todo' : i # j => todo'[j].address # todo'[i].address
      BY SMTT(30), <3>3, <1>1, <1>2 DEF LoopOK
    <3>4. ASSUME NEW i \in DOMAIN todo', NEW b \in Addrs, todo'[i].address = b,
                 reals'[b] # NoReal, reals'[b].num \in cur_reals'
          PROVE  reals'[b].num \in staged'.reals
      <4>1. b # a
        BY <3>4, <1>4, <1>6
      <4>2. reals'[b] = reals[b] /\ reals[b].num # n /\ reals[b].num \in cur_reals
        BY <4>1, <3>4, <2>9, <1>1
      <4>3. b # NoAddr /\ i + 1 \in DOMAIN todo /\ todo[i + 1].address = b
        BY <3>4, <1>2, PoolAssumption, VipAssumption
      <4>4. reals[b].num \in staged.reals
        BY <4>2, <4>3, <3>4, <1>1 DEF LoopOK
      <4> QED BY <4>2, <4>4, <2>3
    <3>5. \A i \in DOMAIN todo' : todo'[i].address # NoAddr => todo'[i].address \in Addrs
      BY <3>2
    <3>6. op' = "DEL"
      BY <1>1
    <3>7. \A v \in VipKeys : ~Present(v)' => vips'[v].reals = {}
      BY <1>1, AbsentStay
    <3> QED BY <3>3, <3>4, <3>5, <3>6, <3>7 DEF LoopOK
  <2> QED BY <2>8, <2>10 DEF UsersInv, UsersStep
<1> QED BY <1>5, <1>6

\* batchRealsUpdate writes the copy back.
LEMMA BatchRealsUsers ==
  ASSUME PoolTypeOK, PoolPartition, VipTypeOK, CallOK, LoopOK, RefCountCoversUsers,
         UNCHANGED <<HeldRules, lpmSrcMapping, quicMapping>>, batchRealsUpdate
  PROVE  UsersStep
<1>1. cvip \in VipKeys /\ op \in {"ADD", "DEL"} /\ op' = "write" /\ cvip' = cvip
  BY DEF batchRealsUpdate, CallOK
<1>2. \A w \in VipKeys : w # cvip => vips'[w] = vips[w]
  BY DEF batchRealsUpdate, VipTypeOK
<1>3. vips'[cvip].reals = staged.reals /\ vips'[cvip].num # maxVips
  BY SMTT(30) DEF batchRealsUpdate, VipTypeOK, CallOK, VipNums
<1>4. \A w \in VipKeys : HeldReals(w)' = HeldReals(w)
  BY <1>1, <1>2, <1>3 DEF HeldReals
<1>5. LoopOK'
  BY <1>1, <1>2, <1>3 DEF LoopOK, Present
<1> QED BY <1>4, <1>5, NobodyCounted DEF batchRealsUpdate, poolVars, UsersStep

\* Writing a position of the ring concerns no number.
LEMMA WriteChRingUsers ==
  ASSUME LoopOK, UNCHANGED <<HeldRules, lpmSrcMapping, quicMapping>>, writeChRing
  PROVE  UsersStep
<1>1. \A w \in VipKeys : HeldReals(w)' = HeldReals(w)
  BY DEF writeChRing, HeldReals
<1> QED BY <1>1, NobodyCounted, AbsentStay DEF writeChRing, UsersStep, LoopOK

\* Nor does the return of modifyRealsForVip.
LEMMA ModifyRealsEndUsers ==
  ASSUME LoopOK, UNCHANGED <<HeldRules, lpmSrcMapping, quicMapping>>, modifyRealsEnd
  PROVE  UsersStep
<1>1. op = "write" /\ op' = "idle" /\ UNCHANGED <<reals, numToReals, vips>>
  BY DEF modifyRealsEnd, ReturnFromVipCall, vipVars, poolVars
<1>2. \A w \in VipKeys : HeldReals(w)' = HeldReals(w)
  BY <1>1 DEF HeldReals
<1>3. LoopOK'
  BY <1>1, AbsentStay DEF LoopOK
<1> QED BY <1>1, <1>2, <1>3, NobodyCounted DEF UsersStep

\* The VIP component, action by action.
LEMMA VipStepUsers ==
  ASSUME DistinctReals, PoolInv, UsersInv, VipNext,
         UNCHANGED <<quicVars, quicCallVars, srcVars, srcCallVars>>
  PROVE  UsersStep
<1>a. PoolTypeOK /\ PoolPartition /\ VipTypeOK /\ CallOK /\ LoopOK /\ RefCountCoversUsers
  BY DEF PoolInv, TypeOK, UsersInv
<1>b. UNCHANGED <<HeldRules, lpmSrcMapping, quicMapping>>
  BY DEF HeldRules, Rules, quicVars, srcVars, srcCallVars
<1>1. ASSUME NEW v \in VipKeys, NEW f \in AddFlags, addVip(v, f) PROVE UsersStep
  BY <1>1, <1>a, <1>b, AddVipUsers
<1>2. ASSUME NEW v \in VipKeys, NEW f \in ModFlags, NEW set \in BOOLEAN, modifyVip(v, f, set) PROVE UsersStep
  BY <1>2, <1>a, <1>b, ModifyVipUsers
<1>3. ASSUME NEW v \in VipKeys, delVip(v) PROVE UsersStep
  BY <1>3, <1>a, <1>b, DelVipUsers
<1>4. ASSUME delVipReal PROVE UsersStep
  BY <1>4, <1>a, <1>b, DelVipRealUsers
<1>5. ASSUME delVipEnd PROVE UsersStep
  BY <1>5, <1>a, <1>b, DelVipEndUsers
<1>6. ASSUME NEW act \in {"ADD", "DEL"}, NEW batch \in RealBatches, NEW v \in VipKeys,
             modifyRealsForVip(act, batch, v)
      PROVE  UsersStep
  BY <1>6, <1>a, <1>b, ModifyRealsUsers
<1>7. ASSUME addReal PROVE UsersStep
  BY <1>7, <1>a, <1>b, AddRealUsers
<1>8. ASSUME delReal PROVE UsersStep
  BY <1>8, <1>a, <1>b, DelRealUsers
<1>9. ASSUME batchRealsUpdate PROVE UsersStep
  BY <1>9, <1>a, <1>b, BatchRealsUsers
<1>10. ASSUME writeChRing PROVE UsersStep
  BY <1>10, <1>a, <1>b, WriteChRingUsers
<1>11. ASSUME modifyRealsEnd PROVE UsersStep
  BY <1>11, <1>a, <1>b, ModifyRealsEndUsers
<1> QED BY <1>1, <1>2, <1>3, <1>4, <1>5, <1>6, <1>7, <1>8, <1>9, <1>10, <1>11 DEF VipNext

-----------------------------------------------------------------------------
(* The QUIC and the source routing calls.                                  *)

\* A step that leaves the pool and the mapped addresses alone.
LEMMA QuicNobody ==
  ASSUME UNCHANGED <<HeldRules, lpmSrcMapping>>, \A v \in VipKeys : HeldReals(v)' = HeldReals(v), LoopOK',
         UNCHANGED <<reals, numToReals>>,
         \A b \in Addrs : quicMapping'[b] # NoId <=> quicMapping[b] # NoId
  PROVE  UsersStep
BY DEF Counted, Nobody, UsersInv, UsersStep

\* addQuicReal takes a reference for a new mapping.
LEMMA AddQuicUsers ==
  ASSUME PoolTypeOK, PoolPartition, QuicTypeOK, CallOK, RefCountCoversUsers,
         UNCHANGED <<HeldRules, lpmSrcMapping>>, \A v \in VipKeys : HeldReals(v)' = HeldReals(v),
         LoopOK', addQuicReal
  PROVE  UsersStep
<1> DEFINE r == Head(qtodo)
           new == ~SkippedQuicReal(r) /\ quicMapping[r.address] = NoId
<1>0. PICK a : a = r.address
  OBVIOUS
<1>1. r \in QuicReal
  BY SMTT(30) DEF addQuicReal, QuicTypeOK
<1>2. CASE ~new
  BY <1>2, QuicNobody DEF addQuicReal, poolVars
<1>3. CASE new
  <2>1. a \in Addrs /\ quicMapping[a] = NoId
    BY <1>0, <1>1, <1>3 DEF QuicReal, SkippedQuicReal
  <2>2. increaseRefCountForReal(a)
    BY <1>0, <1>3 DEF addQuicReal
  <2>3. CASE Rnum(a) = maxReals
    <3>1. reals[a] = NoReal /\ realNums = <<>>
      BY SMTT(30), <2>1, <2>3 DEF Rnum, PoolTypeOK, PoolPartition, Nums
    <3>2. UNCHANGED poolVars
      BY <3>1, <2>2 DEF increaseRefCountForReal
    <3>3. UNCHANGED quicMapping
      BY <2>3, <1>0, <1>3 DEF addQuicReal
    <3> QED BY <3>2, <3>3, QuicNobody DEF poolVars
  <2>4. CASE Rnum(a) # maxReals
    <3>1. quicMapping' = [quicMapping EXCEPT ![a] = r.id]
      BY <2>4, <1>0, <1>3 DEF addQuicReal
    <3>2. PICK u \in AllUsers : u = <<"quic", a>>
      BY <2>1 DEF AllUsers
    <3>3. /\ \A b \in Addrs : quicMapping'[b] # NoId <=> quicMapping[b] # NoId \/ (b = a /\ u = <<"quic", b>>)
          /\ \A b \in Addrs : u = <<"quic", b>> => b = a
      <4>1. r.id # NoId
        BY <1>1, QuicAssumption, PoolAssumption DEF QuicReal
      <4> QED BY <4>1, <3>1, <3>2 DEF QuicTypeOK
    <3>4. \A t : u # <<"src", t>> /\ u # <<"vip", t>>
      BY <3>2
    <3>6a. Takes(a, u)
      BY <3>3, <3>4, <2>1, <2>2, <2>4 DEF Takes
    <3>6. Counted
      BY <3>6a, <2>1, TakesCounted
    <3> QED BY <3>6 DEF UsersInv, UsersStep
  <2> QED BY <2>3, <2>4
<1> QED BY <1>2, <1>3

\* delQuicReal gives up that of a mapping.
LEMMA DelQuicUsers ==
  ASSUME PoolTypeOK, PoolPartition, QuicTypeOK, CallOK, RefCountCoversUsers,
         UNCHANGED <<HeldRules, lpmSrcMapping>>, \A v \in VipKeys : HeldReals(v)' = HeldReals(v),
         LoopOK', delQuicReal
  PROVE  UsersStep
<1> DEFINE r == Head(qtodo)
           mapped == ~SkippedQuicReal(r) /\ quicMapping[r.address] # NoId
<1>0. PICK a : a = r.address
  OBVIOUS
<1>1. r \in QuicReal
  BY SMTT(30) DEF delQuicReal, QuicTypeOK
<1>2. CASE ~mapped
  BY <1>2, QuicNobody DEF delQuicReal, poolVars
<1>3. CASE mapped
  <2>1. a \in Addrs /\ quicMapping[a] # NoId
    BY <1>0, <1>1, <1>3 DEF QuicReal, SkippedQuicReal
  <2>2. decreaseRefCountForReal(a) /\ quicMapping' = [quicMapping EXCEPT ![a] = NoId]
    BY <1>0, <1>3 DEF delQuicReal
  <2>3. PICK n \in Nums : n = reals[a].num /\ numToReals[n] = a
    BY <2>1 DEF RefCountCoversUsers, QuicRealsBound, PoolPartition
  <2>4. PICK u \in AllUsers : u = <<"quic", a>>
    BY <2>1 DEF AllUsers
  <2>5. Holds(u, n)
    BY <2>1, <2>3, <2>4 DEF Holds
  <2>6. \A b \in Addrs : quicMapping'[b] # NoId <=> quicMapping[b] # NoId /\ u # <<"quic", b>>
    BY <2>2, <2>4 DEF QuicTypeOK
  <2>7. \A s : u # <<"src", s>> /\ u # <<"vip", s>>
    BY <2>4
  <2>8a. Gives(n, u)
    BY <2>2, <2>3, <2>5, <2>6, <2>7 DEF Gives
  <2>8. Counted
    BY <2>8a, <2>2, <2>3, <2>5, <2>6, <2>7, GivesCounted
  <2> QED BY <2>8 DEF UsersInv, UsersStep
<1> QED BY <1>2, <1>3

\* The QUIC component keeps the users covered.
LEMMA QuicStepUsers ==
  ASSUME PoolInv, UsersInv, QuicNext, UNCHANGED <<vipVars, vipCallVars, srcVars, srcCallVars>>
  PROVE  UsersStep
<1>a. PoolTypeOK /\ PoolPartition /\ QuicTypeOK /\ CallOK /\ RefCountCoversUsers
  BY DEF PoolInv, TypeOK, UsersInv
<1>b. UNCHANGED <<HeldRules, lpmSrcMapping, vips, cvip, staged>>
  BY DEF HeldRules, Rules, srcVars, srcCallVars, vipVars, vipCallVars
<1>c. op \notin {"ADD", "DEL", "delVip"} /\ op' \notin {"ADD", "DEL", "delVip"}
  BY DEF QuicNext, modifyQuicRealsMapping, Idle, addQuicReal, delQuicReal, writeQuicMapping,
         modifyQuicEnd
<1>d. \A v \in VipKeys : HeldReals(v)' = HeldReals(v)
  BY <1>b, <1>c DEF HeldReals
<1>e. LoopOK'
  BY <1>b, <1>c DEF UsersInv, LoopOK, Present
<1>1. ASSUME NEW act \in {"ADD", "DEL"}, NEW batch \in QuicBatches, modifyQuicRealsMapping(act, batch)
      PROVE  UsersStep
  BY <1>1, <1>b, <1>d, <1>e, QuicNobody DEF modifyQuicRealsMapping, poolVars, quicVars
<1>2. ASSUME addQuicReal PROVE UsersStep
  BY <1>2, <1>a, <1>b, <1>d, <1>e, AddQuicUsers
<1>3. ASSUME delQuicReal PROVE UsersStep
  BY <1>3, <1>a, <1>b, <1>d, <1>e, DelQuicUsers
<1>4. ASSUME writeQuicMapping PROVE UsersStep
  BY <1>4, <1>b, <1>d, <1>e, QuicNobody DEF writeQuicMapping
<1>5. ASSUME modifyQuicEnd PROVE UsersStep
  BY <1>5, <1>b, <1>d, <1>e, QuicNobody DEF modifyQuicEnd, poolVars, quicVars
<1> QED BY <1>1, <1>2, <1>3, <1>4, <1>5 DEF QuicNext

\* A step that leaves the pool and the rules that hold a reference alone.
LEMMA SrcNobody ==
  ASSUME UNCHANGED quicMapping, \A v \in VipKeys : HeldReals(v)' = HeldReals(v), LoopOK',
         UNCHANGED <<reals, numToReals>>,
         \A s \in Srcs : s \in HeldRules' <=> s \in HeldRules,
         \A s \in HeldRules : lpmSrcMapping'[s] = lpmSrcMapping[s]
  PROVE  UsersStep
BY DEF Counted, Nobody, UsersInv, UsersStep

\* In particular one that leaves the rules alone.
LEMMA SrcNobodyVars ==
  ASSUME UNCHANGED quicMapping, \A v \in VipKeys : HeldReals(v)' = HeldReals(v), LoopOK',
         UNCHANGED <<reals, numToReals, lpmSrcMapping, cleared>>
  PROVE  UsersStep
BY SrcNobody DEF HeldRules, Rules

\* The reference of a rule is given up.
LEMMA SrcGives ==
  ASSUME PoolTypeOK, PoolPartition, SrcTypeOK, CallOK, RefCountCoversUsers, UNCHANGED quicMapping,
         \A v \in VipKeys : HeldReals(v)' = HeldReals(v), LoopOK', NEW s \in HeldRules,
         NEW a \in FoundReal(lpmSrcMapping[s]), decreaseRefCountForReal(a),
         \A t \in Srcs : t \in HeldRules' <=> t # s /\ t \in HeldRules,
         \A t \in Srcs : t \in HeldRules' => lpmSrcMapping'[t] = lpmSrcMapping[t]
  PROVE  UsersStep
<1>1. PICK n \in Nums : n = lpmSrcMapping[s]
  BY SMTT(30), PoolAssumption DEF HeldRules, Rules, SrcTypeOK, Nums
<1>2. PICK u \in AllUsers : u = <<"src", s>>
  BY DEF AllUsers, HeldRules, Rules
<1>3. Holds(u, n)
  BY <1>1, <1>2 DEF Holds
<1>4. u \in UsersOf(n)
  BY <1>3 DEF UsersOf
<1>5. numToReals[n] # NoAddr
  BY <1>4 DEF RefCountCoversUsers
<1>6. a = numToReals[n]
  BY <1>1, <1>5 DEF FoundReal
<1>7. \A v : u # <<"vip", v>> /\ u # <<"quic", v>>
  BY <1>2
<1>8. \A t \in Srcs : t \in HeldRules' <=> t \in HeldRules /\ u # <<"src", t>>
  BY <1>2
<1>9a. Gives(n, u)
  BY <1>3, <1>6, <1>7, <1>8 DEF Gives
<1>9. Counted
  BY <1>9a, GivesCounted
<1> QED BY <1>9 DEF UsersInv, UsersStep

\* addSrcRule takes a reference for a rule.
LEMMA AddSrcUsers ==
  ASSUME PoolTypeOK, PoolPartition, SrcTypeOK, CallOK, RefCountCoversUsers, UNCHANGED quicMapping,
         \A v \in VipKeys : HeldReals(v)' = HeldReals(v), LoopOK', addSrcRule
  PROVE  UsersStep
<1>1. cleared = {} /\ cleared' = {} /\ dst \in Addrs
  BY DEF addSrcRule, CallOK
<1>2. CASE Cardinality(Rules) + 1 > maxLpmSrcSize /\ UNCHANGED <<op, poolVars, lpmSrcMapping>>
  BY <1>2, SrcNobodyVars DEF addSrcRule, poolVars
<1>3. PICK a \in Addrs : a = dst
  BY <1>1
<1>4. CASE increaseRefCountForReal(dst) /\ Rnum(dst) = maxReals /\ UNCHANGED <<op, lpmSrcMapping>>
  <2>1. reals[a] = NoReal /\ realNums = <<>>
    BY SMTT(30), <1>3, <1>4 DEF Rnum, PoolTypeOK, PoolPartition, Nums
  <2>2. UNCHANGED poolVars
    BY <2>1, <1>3, <1>4 DEF increaseRefCountForReal
  <2> QED BY <2>2, <1>1, <1>4, SrcNobodyVars DEF poolVars
<1>5. CASE /\ increaseRefCountForReal(dst) /\ Rnum(dst) # maxReals
           /\ lpmSrcMapping' = [lpmSrcMapping EXCEPT ![Head(src_networks)] = Rnum(dst)]
  <2>1. PICK h \in Srcs : h = Head(src_networks)
    BY SMTT(30) DEF addSrcRule, SrcTypeOK
  <2>2. PICK u \in AllUsers : u = <<"src", h>>
    BY DEF AllUsers
  <2>3. \A s \in Srcs : s # h => lpmSrcMapping'[s] = lpmSrcMapping[s]
    BY <2>1, <1>5 DEF SrcTypeOK
  <2>4. lpmSrcMapping'[h] = Rnum(a)
    BY <2>1, <1>3, <1>5 DEF SrcTypeOK
  <2>5. increaseRefCountForReal(a) /\ Rnum(a) # maxReals
    BY <1>3, <1>5
  <2>6. \A s \in Srcs : u = <<"src", s>> <=> s = h
    BY <2>2
  <2>7. /\ \A s \in Srcs : s \in HeldRules' <=> s \in HeldRules \/ u = <<"src", s>>
        /\ \A s \in Srcs : s \in HeldRules' =>
             lpmSrcMapping'[s] = IF u = <<"src", s>> THEN Rnum(a) ELSE lpmSrcMapping[s]
    BY <2>3, <2>4, <2>5, <2>6, <1>1 DEF HeldRules, Rules
  <2>8. \A t : u # <<"vip", t>> /\ u # <<"quic", t>>
    BY <2>2
  <2>9a. Takes(a, u)
    BY <2>5, <2>7, <2>8 DEF Takes
  <2>9. Counted
    BY <2>9a, TakesCounted
  <2> QED BY <2>9 DEF UsersInv, UsersStep
<1> QED BY <1>2, <1>4, <1>5 DEF addSrcRule

\* delSrcRule gives up that of a rule.
LEMMA DelSrcUsers ==
  ASSUME PoolTypeOK, PoolPartition, SrcTypeOK, CallOK, RefCountCoversUsers, UNCHANGED quicMapping,
         \A v \in VipKeys : HeldReals(v)' = HeldReals(v), LoopOK', delSrcRule
  PROVE  UsersStep
<1>1. cleared = {} /\ cleared' = {}
  BY DEF delSrcRule, CallOK
<1>2. PICK s : s = Head(srcs)
  OBVIOUS
<1>3. CASE s \notin Rules
  BY <1>1, <1>2, <1>3, SrcNobodyVars DEF delSrcRule, poolVars, srcVars
<1>4. CASE s \in Rules
  <2>1. s \in Srcs /\ s \in HeldRules
    BY <1>1, <1>4 DEF HeldRules, Rules
  <2>2. /\ decreaseRefCountForReal(numToReals[lpmSrcMapping[s]])
        /\ lpmSrcMapping' = [lpmSrcMapping EXCEPT ![s] = maxReals]
    BY <1>2, <1>4 DEF delSrcRule
  <2>3. PICK a : a = numToReals[lpmSrcMapping[s]]
    OBVIOUS
  <2>4. a \in FoundReal(lpmSrcMapping[s])
    <3>1. lpmSrcMapping[s] \in Nums
      BY SMTT(30), <1>4, PoolAssumption DEF Rules, SrcTypeOK, Nums
    <3> QED BY <3>1, <2>3 DEF FoundReal, PoolTypeOK
  <2>5. /\ \A t \in Srcs : t \in HeldRules' <=> t # s /\ t \in HeldRules
        /\ \A t \in Srcs : t \in HeldRules' => lpmSrcMapping'[t] = lpmSrcMapping[t]
    BY <2>1, <2>2, <1>1 DEF HeldRules, Rules, SrcTypeOK
  <2>6. decreaseRefCountForReal(a)
    BY <2>2, <2>3
  <2> QED BY <2>1, <2>4, <2>5, <2>6, SrcGives
<1> QED BY <1>3, <1>4

\* So does clearAllSrcRoutingRules for each rule.
LEMMA ClearSrcUsers ==
  ASSUME PoolTypeOK, PoolPartition, SrcTypeOK, CallOK, RefCountCoversUsers, UNCHANGED quicMapping,
         \A v \in VipKeys : HeldReals(v)' = HeldReals(v), LoopOK', clearSrcRule
  PROVE  UsersStep
<1>1. PICK s \in Rules \ cleared :
        /\ \E a \in FoundReal(lpmSrcMapping[s]) : decreaseRefCountForReal(a)
        /\ cleared' = cleared \cup {s}
  BY DEF clearSrcRule
<1>2. PICK a \in FoundReal(lpmSrcMapping[s]) : decreaseRefCountForReal(a)
  BY <1>1
<1>3. /\ \A t \in Srcs : t \in HeldRules' <=> t # s /\ t \in HeldRules
      /\ \A t \in Srcs : t \in HeldRules' => lpmSrcMapping'[t] = lpmSrcMapping[t]
  BY <1>1 DEF clearSrcRule, HeldRules, Rules
<1>4. s \in HeldRules
  BY DEF HeldRules
<1> QED BY <1>2, <1>3, <1>4, SrcGives

\* When all are visited, nothing is held.
LEMMA ClearSrcEndUsers ==
  ASSUME UNCHANGED quicMapping, \A v \in VipKeys : HeldReals(v)' = HeldReals(v), LoopOK',
         clearSrcEnd
  PROVE  UsersStep
<1>1. HeldRules' = {} /\ HeldRules = {}
  BY DEF clearSrcEnd, HeldRules, Rules, NoRules
<1> QED BY <1>1, SrcNobody DEF clearSrcEnd, poolVars

\* So does the source routing component.
LEMMA SrcStepUsers ==
  ASSUME PoolInv, UsersInv, SrcNext, UNCHANGED <<vipVars, vipCallVars, quicVars, quicCallVars>>
  PROVE  UsersStep
<1>a. PoolTypeOK /\ PoolPartition /\ SrcTypeOK /\ CallOK /\ RefCountCoversUsers
  BY DEF PoolInv, TypeOK, UsersInv
<1>b. UNCHANGED <<quicMapping, vips, cvip, staged>>
  BY DEF quicVars, vipVars, vipCallVars
<1>c. op \notin {"ADD", "DEL", "delVip"} /\ op' \notin {"ADD", "DEL", "delVip"}
  BY DEF SrcNext, addSrcRoutingRule, addSrcRoutingRuleCidr, Idle, parseSrc, parseSrcEnd, addSrcRule,
         writeSrcRule, addSrcEnd, delSrcRoutingRule, delSrcRule, delSrcEnd, clearAllSrcRoutingRules,
         clearSrcRule, clearSrcEnd, ReturnFromSrcCall
<1>d. \A v \in VipKeys : HeldReals(v)' = HeldReals(v)
  BY <1>b, <1>c DEF HeldReals
<1>e. LoopOK'
  BY <1>b, <1>c DEF UsersInv, LoopOK, Present
<1>1. ASSUME addSrcRule PROVE UsersStep
  BY <1>1, <1>a, <1>b, <1>d, <1>e, AddSrcUsers
<1>2. ASSUME delSrcRule PROVE UsersStep
  BY <1>2, <1>a, <1>b, <1>d, <1>e, DelSrcUsers
<1>3. ASSUME clearSrcRule PROVE UsersStep
  BY <1>3, <1>a, <1>b, <1>d, <1>e, ClearSrcUsers
<1>4. ASSUME clearSrcEnd PROVE UsersStep
  BY <1>4, <1>b, <1>d, <1>e, ClearSrcEndUsers
<1>5. ASSUME \/ \E batch \in SrcBatches, a \in Addrs : addSrcRoutingRule(batch, a)
             \/ \E batch \in SrcBatches \cap Seq(Srcs), a \in Addrs : addSrcRoutingRuleCidr(batch, a)
             \/ parseSrc \/ parseSrcEnd \/ writeSrcRule \/ addSrcEnd
             \/ \E batch \in SrcBatches : delSrcRoutingRule(batch)
             \/ delSrcEnd \/ clearAllSrcRoutingRules
      PROVE  UsersStep
  <2>1. UNCHANGED <<reals, numToReals, lpmSrcMapping>>
    BY <1>5
       DEF addSrcRoutingRule, addSrcRoutingRuleCidr, parseSrc, parseSrcEnd, writeSrcRule, addSrcEnd,
           delSrcRoutingRule, delSrcEnd, clearAllSrcRoutingRules, poolVars, srcVars, srcCallVars
  <2>2. UNCHANGED cleared
    <3>1. UNCHANGED cleared \/ (op # "srcCLEAR" /\ cleared' = {})
      BY <1>5
         DEF addSrcRoutingRule, addSrcRoutingRuleCidr, parseSrc, parseSrcEnd, writeSrcRule, addSrcEnd,
             delSrcRoutingRule, delSrcEnd, clearAllSrcRoutingRules, srcCallVars, ReturnFromSrcCall
    <3> QED BY <3>1, <1>a DEF CallOK
  <2> QED BY <2>1, <2>2, <1>b, <1>d, <1>e, SrcNobodyVars
<1> QED BY <1>1, <1>2, <1>3, <1>4, <1>5 DEF SrcNext

\* What one step may do to a number: bind a free one or free a bound one.
LEMMA NumberStep ==
  ASSUME IndInv, [Next]_vars, NEW n \in Nums
  PROVE  numToReals'[n] = numToReals[n] \/ numToReals[n] = NoAddr \/ numToReals'[n] = NoAddr
<1>a. PoolTypeOK /\ PoolPartition
  BY DEF IndInv, TypeOK
<1>1. ASSUME NEW a, increaseRefCountForReal(a) PROVE numToReals'[n] = numToReals[n] \/ numToReals[n] = NoAddr
  <2>1. CASE UNCHANGED numToReals
    BY <2>1
  <2>2. CASE realNums # <<>> /\ numToReals' = [numToReals EXCEPT ![Head(realNums)] = a]
    <3>1. 1 \in DOMAIN realNums /\ Head(realNums) = realNums[1] /\ Head(realNums) \in Nums
      BY SMTT(30), <2>2, <1>a DEF PoolTypeOK
    <3>2. numToReals[Head(realNums)] = NoAddr
      BY SMTT(30), <3>1, <1>a DEF PoolPartition, Free
    <3> QED BY <2>2, <3>2, <1>a DEF PoolTypeOK
  <2> QED BY <2>1, <2>2, <1>1 DEF increaseRefCountForReal, poolVars
<1>2. ASSUME NEW a, decreaseRefCountForReal(a) PROVE numToReals'[n] = numToReals[n] \/ numToReals'[n] = NoAddr
  BY <1>2, <1>a DEF decreaseRefCountForReal, PoolTypeOK
<1>3. CASE VipNext
  <2>1. UNCHANGED numToReals \/ (\E a : increaseRefCountForReal(a)) \/ (\E a : decreaseRefCountForReal(a))
    BY <1>3
       DEF VipNext, addVip, modifyVip, delVip, delVipReal, delVipEnd, modifyRealsForVip, addReal,
           delReal, batchRealsUpdate, writeChRing, modifyRealsEnd, poolVars
  <2> QED BY <2>1, <1>1, <1>2
<1>4. CASE QuicNext
  <2>1. UNCHANGED numToReals \/ (\E a : increaseRefCountForReal(a)) \/ (\E a : decreaseRefCountForReal(a))
    BY <1>4
       DEF QuicNext, modifyQuicRealsMapping, addQuicReal, delQuicReal, writeQuicMapping, modifyQuicEnd,
           poolVars
  <2> QED BY <2>1, <1>1, <1>2
<1>5. CASE SrcNext
  <2>1. UNCHANGED numToReals \/ (\E a : increaseRefCountForReal(a)) \/ (\E a : decreaseRefCountForReal(a))
    BY <1>5
       DEF SrcNext, addSrcRoutingRule, addSrcRoutingRuleCidr, parseSrc, parseSrcEnd, addSrcRule,
           writeSrcRule, addSrcEnd, delSrcRoutingRule, delSrcRule, delSrcEnd, clearAllSrcRoutingRules,
           clearSrcRule, clearSrcEnd, poolVars
  <2> QED BY <2>1, <1>1, <1>2
<1>6. CASE UNCHANGED vars
  BY <1>6 DEF vars, poolVars
<1> QED BY <1>3, <1>4, <1>5, <1>6 DEF Next

-----------------------------------------------------------------------------
(* All calls.                                                              *)

\* A new KatranLb object has no users of numbers.
LEMMA InitNobody == Init => \A n \in Nums, u \in AllUsers : ~Holds(u, n)
<1> SUFFICES ASSUME Init, NEW n \in Nums, NEW u \in AllUsers PROVE ~Holds(u, n)
  OBVIOUS
<1> USE PoolAssumption DEF Init, PoolInit, VipInit, QuicInit, SrcInit
<1>1. \A v \in VipKeys : HeldReals(v) = {}
  BY DEF HeldReals, AbsentVip, NewVip
<1>2. HeldRules = {}
  BY DEF HeldRules, Rules, NoRules
<1>3. CASE \E v \in VipKeys : u = <<"vip", v>>
  BY SMTT(30), <1>3, <1>1 DEF Holds
<1>4. CASE \E s \in Srcs : u = <<"src", s>>
  BY SMTT(30), <1>4, <1>2 DEF Holds
<1>5. CASE \E b \in Addrs : u = <<"quic", b>>
  BY SMTT(30), <1>5 DEF Holds
<1> QED BY SMTT(30), <1>3, <1>4, <1>5, UserKinds

\* The users of a new KatranLb object are covered.
LEMMA InitUsersInv == Init => UsersInv
<1> SUFFICES ASSUME Init PROVE UsersInv
  OBVIOUS
<1>1. \A n \in Nums : UsersOf(n) = {}
  BY InitNobody DEF UsersOf
<1>2. QuicRealsBound
  BY DEF Init, QuicInit, QuicRealsBound
<1>3. LoopOK
  BY DEF Init, VipInit, LoopOK, AbsentVip, NewVip
<1> QED BY <1>1, <1>2, <1>3 DEF UsersInv, RefCountCoversUsers

\* Every step, or none, treats the users of numbers in one of the three ways.
LEMMA StepUsers ==
  ASSUME DistinctReals, PoolInv, UsersInv, [Next]_vars
  PROVE  UsersStep
<1>1. CASE Next
  BY <1>1, VipStepUsers, QuicStepUsers, SrcStepUsers DEF Next
<1>2. CASE UNCHANGED vars
  <2>1. UNCHANGED <<HeldRules, lpmSrcMapping, quicMapping, reals, numToReals>>
    BY <1>2 DEF vars, poolVars, quicVars, srcVars, srcCallVars, HeldRules, Rules
  <2>2. \A v \in VipKeys : HeldReals(v)' = HeldReals(v)
    BY <1>2 DEF vars, vipVars, vipCallVars, HeldReals
  <2>3. Nobody
    BY <2>1, <2>2 DEF Nobody
  <2>4. LoopOK'
    BY <1>2 DEF vars, vipVars, vipCallVars, poolVars, UsersInv, LoopOK, Present
  <2> QED BY <2>3, <2>4 DEF UsersStep, Counted
<1> QED BY <1>1, <1>2

-----------------------------------------------------------------------------
(* The three ways, as steps of RealNames.                                  *)

\* Nobody: a step the abstract service does not see.
LEMMA NobodyHolds ==
  ASSUME Nobody
  PROVE  HeldPairs' = HeldPairs /\ numToReals' = numToReals
<1>1. ASSUME NEW x \in AllUsers, NEW n \in Nums PROVE Holds(x, n)' <=> Holds(x, n)
  <2>1. ASSUME NEW v \in VipKeys, x = <<"vip", v>> PROVE Holds(x, n)' <=> Holds(x, n)
    BY <2>1 DEF Holds, Nobody
  <2>2. ASSUME NEW s \in Srcs, x = <<"src", s>> PROVE Holds(x, n)' <=> Holds(x, n)
    BY <2>2 DEF Holds, Nobody
  <2>3. ASSUME NEW b \in Addrs, x = <<"quic", b>> PROVE Holds(x, n)' <=> Holds(x, n)
    BY <2>3 DEF Holds, Nobody
  <2> QED BY <2>1, <2>2, <2>3, UserKinds
<1>2. numToReals' = numToReals
  BY DEF Nobody
<1> QED BY <1>1, <1>2 DEF HeldPairs, AllUsers, Nums

\* A user that takes a number gives up at most one it had before.
LEMMA TakesHolds ==
  ASSUME PoolTypeOK, PoolPartition, RefCountCoversUsers,
         NEW a \in Addrs, NEW u \in AllUsers, Takes(a, u), NEW m \in Nums, m = Rnum(a)
  PROVE  \E k \in Nums : \A x \in AllUsers, n \in Nums :
           Holds(x, n)' <=> (Holds(x, n) /\ ~(x = u /\ n = k)) \/ (x = u /\ n = m)
<1>a. increaseRefCountForReal(a)
  BY DEF Takes
<1>1. reals'[a].num = m /\ \A b \in Addrs : b # a => reals'[b] = reals[b]
  BY <1>a, IncreaseEffect
<1>2. quicMapping[a] # NoId => reals[a].num = m
  BY DEF RefCountCoversUsers, QuicRealsBound, Rnum
<1>3. ASSUME NEW n \in Nums, NEW v \in VipKeys, NEW x, x = <<"vip", v>>
      PROVE  Holds(x, n)' <=> Holds(x, n) \/ (x = u /\ n = m)
  BY <1>3 DEF Holds, Takes
<1>4. ASSUME NEW n \in Nums, NEW b \in Addrs, NEW x, x = <<"quic", b>>
      PROVE  Holds(x, n)' <=> Holds(x, n) \/ (x = u /\ n = m)
  <2>1. Holds(x, n)' <=> quicMapping'[b] # NoId /\ reals'[b].num = n
    BY <1>4 DEF Holds
  <2>2. Holds(x, n) <=> quicMapping[b] # NoId /\ reals[b].num = n
    BY <1>4 DEF Holds
  <2>3. /\ quicMapping'[b] # NoId <=> quicMapping[b] # NoId \/ (b = a /\ u = x)
        /\ u = x => b = a
    BY <1>4 DEF Takes
  <2> QED BY SMTT(30), <2>1, <2>2, <2>3, <1>1, <1>2
<1>5. ASSUME NEW n \in Nums, NEW s \in Srcs, NEW x, x = <<"src", s>>
      PROVE  Holds(x, n)' <=> (Holds(x, n) /\ x # u) \/ (x = u /\ n = m)
  <2>1. Holds(x, n)' <=> s \in HeldRules' /\ lpmSrcMapping'[s] = n
    BY <1>5 DEF Holds
  <2>2. Holds(x, n) <=> s \in HeldRules /\ lpmSrcMapping[s] = n
    BY <1>5 DEF Holds
  <2>3. /\ s \in HeldRules' <=> s \in HeldRules \/ u = x
        /\ s \in HeldRules' => lpmSrcMapping'[s] = IF u = x THEN m ELSE lpmSrcMapping[s]
    BY <1>5 DEF Takes
  <2> QED BY <2>1, <2>2, <2>3
<1>6. CASE \E s \in Srcs : u = <<"src", s>>
  <2>1. PICK s \in Srcs : u = <<"src", s>>
    BY <1>6
  <2>2. PICK k \in Nums : \A n \in Nums : Holds(u, n) => n = k
    <3>1. \A n \in Nums : Holds(u, n) => n = lpmSrcMapping[s]
      BY <2>1 DEF Holds
    <3>2. CASE lpmSrcMapping[s] \in Nums
      BY <3>1, <3>2
    <3>3. CASE lpmSrcMapping[s] \notin Nums
      BY <3>1, <3>3
    <3> QED BY <3>2, <3>3
  <2>3. \A v : u # <<"vip", v>> /\ u # <<"quic", v>>
    BY <2>1
  <2>4. ASSUME NEW x \in AllUsers, NEW n \in Nums
        PROVE  Holds(x, n)' <=> (Holds(x, n) /\ ~(x = u /\ n = k)) \/ (x = u /\ n = m)
    <3>1. ASSUME NEW v \in VipKeys, x = <<"vip", v>> PROVE Holds(x, n)' <=> Holds(x, n) /\ x # u
      BY <3>1, <2>3, <1>3
    <3>2. ASSUME NEW b \in Addrs, x = <<"quic", b>> PROVE Holds(x, n)' <=> Holds(x, n) /\ x # u
      BY <3>2, <2>3, <1>4
    <3>3. x = u \/ (Holds(x, n)' <=> Holds(x, n))
      BY SMTT(30), <3>1, <3>2, <1>5, UserKinds
    <3>4. x = u => (Holds(x, n)' <=> n = m)
      BY <2>1, <1>5
    <3> QED BY <3>3, <3>4, <2>2
  <2> QED BY <2>4
<1>7. CASE ~\E s \in Srcs : u = <<"src", s>>
  <2>1. ASSUME NEW x \in AllUsers, NEW n \in Nums
        PROVE  Holds(x, n)' <=> (Holds(x, n) /\ ~(x = u /\ n = m)) \/ (x = u /\ n = m)
    <3>1. ASSUME NEW s \in Srcs, x = <<"src", s>> PROVE Holds(x, n)' <=> Holds(x, n) \/ (x = u /\ n = m)
      BY <3>1, <1>5, <1>7
    <3>2. Holds(x, n)' <=> Holds(x, n) \/ (x = u /\ n = m)
      BY <3>1, <1>3, <1>4, UserKinds
    <3> QED BY <3>2
  <2> QED BY <2>1
<1> QED BY <1>6, <1>7

\* A user that gives up a number keeps the others, as do the other users.
LEMMA GivesHolds ==
  ASSUME PoolTypeOK, PoolPartition, RefCountCoversUsers, QuicRealsBound',
         NEW m \in Nums, NEW u \in AllUsers, Gives(m, u)
  PROVE  \A x \in AllUsers, n \in Nums : Holds(x, n)' <=> Holds(x, n) /\ ~(x = u /\ n = m)
<1>a. Holds(u, m)
  BY DEF Gives
<1>b. PICK a \in Addrs : a = numToReals[m] /\ decreaseRefCountForReal(a)
  <2>1. u \in UsersOf(m)
    BY <1>a DEF UsersOf
  <2>2. numToReals[m] \in Addrs
    BY <2>1 DEF RefCountCoversUsers, PoolTypeOK
  <2> QED BY <2>2 DEF Gives
<1>1. /\ reals[a].num = m /\ (reals'[a].num = m \/ reals'[a] = NoReal)
      /\ \A b \in Addrs : b # a => reals'[b] = reals[b]
  BY SMTT(30), <1>b, DecreaseEffect
<1>2. ASSUME NEW n \in Nums, NEW v \in VipKeys, NEW x, x = <<"vip", v>>
      PROVE  Holds(x, n)' <=> Holds(x, n) /\ ~(x = u /\ n = m)
  BY <1>2 DEF Holds, Gives
<1>3. ASSUME NEW n \in Nums, NEW s \in Srcs, NEW x, x = <<"src", s>>
      PROVE  Holds(x, n)' <=> Holds(x, n) /\ ~(x = u /\ n = m)
  <2>1. Holds(x, n)' <=> s \in HeldRules' /\ lpmSrcMapping'[s] = n
    BY <1>3 DEF Holds
  <2>2. \A k : Holds(x, k) <=> s \in HeldRules /\ lpmSrcMapping[s] = k
    BY <1>3 DEF Holds
  <2>3. /\ s \in HeldRules' <=> s \in HeldRules /\ u # x
        /\ s \in HeldRules' => lpmSrcMapping'[s] = lpmSrcMapping[s]
    BY <1>3 DEF Gives
  <2> QED BY SMTT(30), <2>1, <2>2, <2>3, <1>a
<1>4. ASSUME NEW n \in Nums, NEW b \in Addrs, NEW x, x = <<"quic", b>>
      PROVE  Holds(x, n)' <=> Holds(x, n) /\ ~(x = u /\ n = m)
  <2>1. Holds(x, n)' <=> quicMapping'[b] # NoId /\ reals'[b].num = n
    BY <1>4 DEF Holds
  <2>2. \A k : Holds(x, k) <=> quicMapping[b] # NoId /\ reals[b].num = k
    BY <1>4 DEF Holds
  <2>3. quicMapping'[b] # NoId <=> quicMapping[b] # NoId /\ u # x
    BY <1>4 DEF Gives
  <2>4. quicMapping'[b] # NoId => reals'[b].num = reals[b].num
    BY <1>1 DEF QuicRealsBound
  <2> QED BY SMTT(30), <2>1, <2>2, <2>3, <2>4, <1>a
<1> QED BY SMTT(30), <1>2, <1>3, <1>4, UserKinds

\* Each way of treating the users is a step of the abstract service.
LEMMA NamesStep ==
  ASSUME DistinctReals, IndInv, IndInv', [Next]_vars
  PROVE  Names!NamesNext \/ UNCHANGED Names!nameVars
<1>a. PoolTypeOK /\ PoolPartition /\ RefCountCoversUsers /\ QuicRealsBound'
  BY DEF IndInv, TypeOK, RefCountCoversUsers
<1>b. Counted
  BY StepUsers, IndInvParts DEF UsersStep
<1>c. /\ \A x \in AllUsers, n \in Nums : <<x, n>> \in HeldPairs <=> Holds(x, n)
      /\ \A x \in AllUsers, n \in Nums : <<x, n>> \in HeldPairs' <=> Holds(x, n)'
      /\ HeldPairs \subseteq AllUsers \X Nums /\ HeldPairs' \subseteq AllUsers \X Nums
  BY DEF HeldPairs, AllUsers, Nums
<1>1. CASE Nobody
  BY SMTT(30), <1>1, NobodyHolds DEF Names!nameVars
<1>2. ASSUME NEW a \in Addrs, NEW u \in AllUsers, Takes(a, u) PROVE Names!NamesNext
  <2>1. increaseRefCountForReal(a) /\ Rnum(a) # maxReals
    BY SMTT(30), <1>2 DEF Takes
  <2>2. PICK m \in Nums : m = Rnum(a)
    BY <2>1, <1>a, RnumInPool
  <2>3. \/ numToReals[m] = a /\ UNCHANGED numToReals
        \/ /\ numToReals[m] = NoAddr /\ \A n \in Nums : numToReals[n] # a
           /\ numToReals' = [numToReals EXCEPT ![m] = a]
    BY SMTT(30), <2>1, <2>2, <1>a, IncreaseEffect
  <2>4. PICK k \in Nums : \A x \in AllUsers, n \in Nums :
          Holds(x, n)' <=> (Holds(x, n) /\ ~(x = u /\ n = k)) \/ (x = u /\ n = m)
    BY SMTT(30), <2>2, <1>2, <1>a, TakesHolds
  <2>5. HeldPairs' = (HeldPairs \ {<<u, k>>}) \cup {<<u, m>>}
    BY SMTT(30), <2>4, <1>c
  <2>6. Names!Acquire(u, m, a)
    BY SMTT(30), <2>3, <2>5 DEF Names!Acquire
  <2> QED BY SMTT(30), <2>6 DEF Names!NamesNext
<1>3. ASSUME NEW m \in Nums, NEW u \in AllUsers, Gives(m, u) PROVE Names!NamesNext
  <2>1. \A x \in AllUsers, n \in Nums : Holds(x, n)' <=> Holds(x, n) /\ ~(x = u /\ n = m)
    BY SMTT(30), <1>3, <1>a, GivesHolds
  <2>2. HeldPairs' = HeldPairs \ {<<u, m>>} /\ <<u, m>> \in HeldPairs
    BY SMTT(30), <2>1, <1>3, <1>c DEF Gives
  <2>3. UNCHANGED numToReals \/ numToReals' = [numToReals EXCEPT ![m] = NoAddr]
    <3>1. u \in UsersOf(m)
      BY <1>3 DEF UsersOf, Gives
    <3>2. PICK a \in Addrs : a = numToReals[m]
      BY SMTT(30), <3>1, <1>a DEF RefCountCoversUsers, PoolTypeOK
    <3>3. decreaseRefCountForReal(a)
      BY <3>2, <1>3 DEF Gives
    <3> QED BY SMTT(30), <3>2, <3>3, <1>a, DecreaseEffect
  <2>4. ASSUME numToReals' = [numToReals EXCEPT ![m] = NoAddr]
        PROVE  \A v \in AllUsers : <<v, m>> \notin HeldPairs'
    <3>1. numToReals'[m] = NoAddr
      BY SMTT(30), <2>4, <1>a DEF PoolTypeOK
    <3>2. UsersOf(m)' = {}
      BY SMTT(30), <3>1 DEF IndInv, RefCountCoversUsers
    <3>3. \A v \in AllUsers : ~Holds(v, m)'
      BY <3>2 DEF UsersOf, AllUsers
    <3> QED BY <3>3, <1>c
  <2>5. Names!Release(u, m)
    BY <2>2, <2>3, <2>4 DEF Names!Release
  <2> QED BY <2>5 DEF Names!NamesNext
<1> QED BY <1>1, <1>2, <1>3, <1>b DEF Counted

=============================================================================
