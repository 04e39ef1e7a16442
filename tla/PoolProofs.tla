----------------------------- MODULE PoolProofs -----------------------------
(***************************************************************************)
(* The pool of real numbers keeps its partition when a reference is taken  *)
(* or given back; the initial state; facts about the values of a VIP; and  *)
(* the three ways a step may treat the users of the numbers.               *)
(*                                                                         *)
(* All proofs about KatranLb hold for all sets of addresses, VIPs, sources *)
(* and batches, all sizes and all ring algorithms that fill the ring.      *)
(***************************************************************************)
EXTENDS KatranLb, TLAPS

\* The prover of every leaf that names no other.
USE ZenonT(30)

-----------------------------------------------------------------------------
(* The pool.                                                               *)

\* Taking a reference keeps the pool's types and its partition.
LEMMA IncreaseKeepsPool ==
  ASSUME PoolTypeOK, PoolPartition, NEW a \in Addrs, increaseRefCountForReal(a)
  PROVE  PoolTypeOK' /\ PoolPartition'
<1> USE PoolAssumption
<1>1. CASE reals[a] # NoReal
  <2>1. /\ reals' = [reals EXCEPT ![a].refCount = @ + 1]
        /\ UNCHANGED <<numToReals, realNums, bpf_reals, bpfFailed>>
    BY <1>1 DEF increaseRefCountForReal
  <2>2. reals'[a] = [num |-> reals[a].num, refCount |-> reals[a].refCount + 1]
    BY <2>1 DEF PoolTypeOK, RealMeta
  <2>3. reals' \in [Addrs -> RealMeta] /\ \A b \in Addrs : b # a => reals'[b] = reals[b]
    BY SMTT(30), <2>1 DEF PoolTypeOK, RealMeta
  <2>4. reals'[a] # NoReal /\ \A b \in Addrs : reals'[b].num = reals[b].num
    <3>1. reals[a].refCount + 1 # 0
      BY SMTT(30) DEF PoolTypeOK, RealMeta
    <3>2. reals'[a].refCount # NoReal.refCount
      BY SMTT(30), <3>1, <2>2 DEF NoReal
    <3>3. reals'[a].num = reals[a].num
      BY SMTT(30), <2>2
    <3> QED BY <3>2, <3>3, <2>3
  <2> QED BY SMTT(30), <2>1, <1>1 DEF PoolTypeOK, PoolPartition, RealMeta
<1>2. CASE reals[a] = NoReal /\ realNums # <<>>
  <2> DEFINE h == Head(realNums)
  <2>1. /\ realNums' = Tail(realNums)
        /\ numToReals' = [numToReals EXCEPT ![h] = a]
        /\ reals' = [reals EXCEPT ![a] = [num |-> h, refCount |-> 1]]
        /\ updateRealsMap(a, h)
    BY <1>2 DEF increaseRefCountForReal
  <2>2. h \in Nums /\ h = realNums[1] /\ 1 \in DOMAIN realNums
    BY SMTT(30), <1>2 DEF PoolTypeOK
  <2>3. PoolTypeOK'
    BY SMTT(30), <2>1, <2>2 DEF PoolTypeOK, RealMeta, Nums, updateRealsMap, CountFailure
  <2>4. /\ Len(realNums') = Len(realNums) - 1
        /\ \A i \in DOMAIN realNums' : realNums'[i] = realNums[i + 1] /\ i + 1 \in DOMAIN realNums
        /\ \A i \in DOMAIN realNums : i # 1 => i - 1 \in DOMAIN realNums' /\ realNums'[i - 1] = realNums[i]
    BY SMTT(30), <2>1, <1>2
  <2>5. \A i, j \in DOMAIN realNums' : i # j => realNums'[i] # realNums'[j]
    <3>1. DOMAIN realNums' \subseteq Int
      BY SMTT(30), <2>1, <1>2 DEF PoolTypeOK
    <3>2. ASSUME NEW i \in DOMAIN realNums', NEW j \in DOMAIN realNums', i # j
          PROVE  realNums'[i] # realNums'[j]
      <4>1. i + 1 # j + 1
        BY SMTT(30), <3>1, <3>2
      <4>2. realNums'[i] = realNums[i + 1] /\ i + 1 \in DOMAIN realNums
        BY <2>4
      <4>3. realNums'[j] = realNums[j + 1] /\ j + 1 \in DOMAIN realNums
        BY <2>4
      <4>4. realNums[i + 1] # realNums[j + 1]
        BY <4>1, <4>2, <4>3 DEF PoolPartition
      <4> QED BY <4>2, <4>3, <4>4
    <3> QED BY <3>2
  <2>6. Free(realNums') = Free(realNums) \ {h}
    <3>1. ASSUME NEW i \in DOMAIN realNums' PROVE realNums'[i] \in Free(realNums) \ {h}
      BY SMTT(30), <2>2, <2>4 DEF Free, PoolPartition
    <3>2. ASSUME NEW i \in DOMAIN realNums, realNums[i] # h PROVE realNums[i] \in Free(realNums')
      BY <3>2, <2>2, <2>4 DEF Free
    <3> QED BY <3>1, <3>2 DEF Free
  <2>7. numToReals[h] = NoAddr
    BY SMTT(30), <2>2 DEF PoolPartition, Free
  <2>8. \A b \in Addrs : reals[b] # NoReal => reals[b].num # h
    BY SMTT(30), <2>7 DEF PoolPartition
  <2>9. \A n \in Nums : (n \in Free(realNums')) <=> (numToReals'[n] = NoAddr)
    BY SMTT(30), <2>1, <2>6 DEF PoolPartition, PoolTypeOK
  <2>10. \A b \in Addrs : reals'[b] # NoReal =>
           reals'[b].num \in Nums /\ reals'[b].refCount > 0 /\ numToReals'[reals'[b].num] = b
    BY SMTT(30), <2>1, <2>2, <2>8 DEF PoolPartition, PoolTypeOK
  <2>11. \A n \in Nums : numToReals'[n] # NoAddr => reals'[numToReals'[n]].num = n
    BY SMTT(30), <2>1, <1>2 DEF PoolPartition, PoolTypeOK, NoReal, Nums
  <2> QED BY <2>3, <2>5, <2>9, <2>10, <2>11 DEF PoolPartition
<1>3. CASE reals[a] = NoReal /\ realNums = <<>>
  BY SMTT(30), <1>3 DEF increaseRefCountForReal, poolVars, PoolTypeOK, PoolPartition
<1> QED BY <1>1, <1>2, <1>3

\* Giving up a reference keeps them too; of a free number nothing is given up.
LEMMA DecreaseKeepsPool ==
  ASSUME PoolTypeOK, PoolPartition, NEW a \in Addrs \cup {NoAddr},
         decreaseRefCountForReal(a), UNCHANGED bpf_reals, bpfFailed' \in BOOLEAN
  PROVE  PoolTypeOK' /\ PoolPartition'
<1> USE PoolAssumption
<1>1. CASE ~(a \in Addrs /\ reals[a] # NoReal)
  BY SMTT(30), <1>1 DEF decreaseRefCountForReal, PoolTypeOK, PoolPartition
<1>2. CASE a \in Addrs /\ reals[a] # NoReal /\ reals[a].refCount # 1
  <2>1. /\ reals' = [reals EXCEPT ![a].refCount = @ - 1]
        /\ UNCHANGED <<numToReals, realNums>>
    BY <1>2 DEF decreaseRefCountForReal
  <2>2. reals[a].refCount > 0 /\ reals[a].refCount \in Nat /\ reals[a].num \in Nums
    BY <1>2 DEF PoolPartition, PoolTypeOK, RealMeta
  <2>3. reals'[a] = [num |-> reals[a].num, refCount |-> reals[a].refCount - 1]
    BY <2>1, <1>2 DEF PoolTypeOK, RealMeta
  <2>4. reals' \in [Addrs -> RealMeta] /\ \A b \in Addrs : b # a => reals'[b] = reals[b]
    BY SMTT(30), <2>1, <2>2, <1>2 DEF PoolTypeOK, RealMeta
  <2>5. reals'[a].refCount > 0 /\ reals'[a].num = reals[a].num
    BY SMTT(30), <2>2, <2>3, <1>2
  <2> QED BY SMTT(30), <2>1, <2>4, <2>5, <1>2 DEF PoolTypeOK, PoolPartition
<1>3. CASE a \in Addrs /\ reals[a] # NoReal /\ reals[a].refCount = 1
  <2> DEFINE n == reals[a].num
  <2>1. /\ realNums' = Append(realNums, n)
        /\ reals' = [reals EXCEPT ![a] = NoReal]
        /\ numToReals' = [numToReals EXCEPT ![n] = NoAddr]
    BY <1>3 DEF decreaseRefCountForReal
  <2>2. n \in Nums /\ numToReals[n] = a
    BY <1>3 DEF PoolPartition
  <2>3. PoolTypeOK'
    <3>1. NoReal \in RealMeta
      BY SMTT(30) DEF NoReal, RealMeta
    <3>2. reals' \in [Addrs -> RealMeta]
      BY <3>1, <2>1 DEF PoolTypeOK
    <3>3. realNums' \in Seq(Nums)
      BY SMTT(30), <2>1, <2>2 DEF PoolTypeOK
    <3>4. numToReals' \in [Nums -> Addrs \cup {NoAddr}]
      BY <2>1 DEF PoolTypeOK
    <3> QED BY <3>2, <3>3, <3>4 DEF PoolTypeOK
  <2>4. /\ DOMAIN realNums' = DOMAIN realNums \cup {Len(realNums) + 1}
        /\ \A i \in DOMAIN realNums : realNums'[i] = realNums[i]
        /\ realNums'[Len(realNums) + 1] = n
    BY SMTT(30), <2>1
  <2>5. n \notin Free(realNums)
    BY SMTT(30), <1>3 DEF PoolPartition
  <2>6. \A i, j \in DOMAIN realNums' : i # j => realNums'[i] # realNums'[j]
    BY SMTT(30), <2>4, <2>5 DEF PoolPartition, Free
  <2>7. Free(realNums') = Free(realNums) \cup {n}
    BY SMTT(30), <2>4 DEF Free
  <2>8. \A m \in Nums : (m \in Free(realNums')) <=> (numToReals'[m] = NoAddr)
    BY <2>1, <2>2, <2>7 DEF PoolPartition, PoolTypeOK
  <2>9. \A b \in Addrs : reals'[b] # NoReal =>
           reals'[b].num \in Nums /\ reals'[b].refCount > 0 /\ numToReals'[reals'[b].num] = b
    <3>1. reals'[a] = NoReal
      BY <2>1, <1>3 DEF PoolTypeOK
    <3>2. ASSUME NEW b \in Addrs, b # a, reals[b] # NoReal PROVE reals[b].num # n
      BY <3>2, <2>2 DEF PoolPartition
    <3>3. \A b \in Addrs : b # a => reals'[b] = reals[b]
      BY <2>1 DEF PoolTypeOK
    <3>4. ASSUME NEW b \in Addrs, reals'[b] # NoReal
          PROVE  reals'[b].num \in Nums /\ reals'[b].refCount > 0 /\ numToReals'[reals'[b].num] = b
      <4>1. b # a /\ reals'[b] = reals[b]
        BY <3>1, <3>3, <3>4
      <4> QED BY <4>1, <3>2, <3>4, <2>1 DEF PoolPartition, PoolTypeOK
    <3> QED BY <3>4
  <2>10. \A m \in Nums : numToReals'[m] # NoAddr => reals'[numToReals'[m]].num = m
    BY SMTT(30), <2>1 DEF PoolPartition, PoolTypeOK
  <2> QED BY <2>3, <2>6, <2>8, <2>9, <2>10 DEF PoolPartition
<1> QED BY <1>1, <1>2, <1>3

\* A step that leaves the pool alone, but for the count of failed bpf() calls.
LEMMA PoolFrame ==
  ASSUME PoolTypeOK, PoolPartition, bpfFailed' \in BOOLEAN,
         UNCHANGED <<reals, numToReals, realNums, bpf_reals>>
  PROVE  PoolTypeOK' /\ PoolPartition'
BY DEF PoolTypeOK, PoolPartition

-----------------------------------------------------------------------------
(* Types, the partition of the numbers and what calls know: no assumption  *)
(* on the batches is needed.                                               *)

\* The inductive invariant of the pool of numbers.
PoolInv == TypeOK /\ PoolPartition /\ CallOK

\* The values that mark an absent VIP are values of their types.
LEMMA VipValues ==
  /\ AbsentVip \in Vip
  /\ \A k \in VipNums, f \in SUBSET Flags : NewVip(k, f) \in Vip /\ NewVip(k, f).num = k
  /\ NoMeta \in VipMeta
BY SMTT(30), VipAssumption DEF AbsentVip, NewVip, Vip, NoMeta, VipMeta, VipNums

\* A function on 1..m is a sequence.
LEMMA FunctionIsSeq == \A S : \A m \in Nat : [1..m -> S] \subseteq Seq(S)
<1>1. \A S : Seq(S) = UNION {[1..m -> S] : m \in Nat}
  BY SMTT(30)
<1> QED BY <1>1

\* The FIFOs of free numbers start with all numbers.
LEMMA AllNumbers ==
  ASSUME NEW m \in Nat
  PROVE  LET q == [i \in 1..m |-> i - 1] IN
         /\ q \in Seq(0..(m - 1))
         /\ {q[i] : i \in DOMAIN q} = 0..(m - 1)
<1> DEFINE q == [i \in 1..m |-> i - 1]
<1>1. q \in [1..m -> 0..(m - 1)]
  BY SMTT(30)
<1>2. q \in Seq(0..(m - 1))
  BY <1>1, FunctionIsSeq
<1>3. ASSUME NEW n \in 0..(m - 1) PROVE n + 1 \in 1..m /\ q[n + 1] = n
  BY SMTT(30)
<1>4. DOMAIN q = 1..m
  OBVIOUS
<1>5. {q[i] : i \in DOMAIN q} \subseteq 0..(m - 1)
  BY <1>1
<1>6. \A n \in 0..(m - 1) : n \in {q[i] : i \in DOMAIN q}
  BY <1>3, <1>4
<1> QED BY <1>2, <1>5, <1>6

\* Init establishes the invariant.
LEMMA InitPoolInv == Init => PoolInv
<1> SUFFICES ASSUME Init PROVE PoolInv
  OBVIOUS
<1> USE PoolAssumption DEF Init
<1>1. PoolTypeOK
  <2>1. realNums \in Seq(Nums)
    BY AllNumbers DEF PoolInit, Nums
  <2>2. NoReal \in RealMeta
    BY SMTT(30) DEF NoReal, RealMeta
  <2> QED BY <2>1, <2>2 DEF PoolInit, PoolTypeOK
<1>2. PoolPartition
  <2>1. Free(realNums) = Nums
    BY AllNumbers DEF PoolInit, Nums, Free
  <2>2. \A i, j \in DOMAIN realNums : i # j => realNums[i] # realNums[j]
    BY SMTT(30) DEF PoolInit
  <2>3. \A n \in Nums : numToReals[n] = NoAddr
    BY DEF PoolInit
  <2>4. \A a \in Addrs : reals[a] = NoReal
    BY DEF PoolInit
  <2> QED BY <2>1, <2>2, <2>3, <2>4 DEF PoolPartition
<1>3. VipTypeOK
  <2>1. vipNums \in Seq(VipNums)
    BY AllNumbers, VipAssumption DEF VipInit, VipNums
  <2>2. ch_rings \in [VipNums -> [Pos -> Nums]]
    BY SMTT(30) DEF VipInit, Nums
  <2>3. vips \in [VipKeys -> Vip] /\ vip_map \in [VipDefs -> VipMeta] /\ staged \in Vip
    BY VipValues DEF VipInit
  <2>4. cvip \in VipKeys \cup {NoVip} /\ todo \in Seq(NewReal) /\ cur_reals \in SUBSET Nums
    BY SMTT(30) DEF VipInit
  <2>5. changed \in BOOLEAN /\ pend \in SUBSET Pos
    BY DEF VipInit
  <2> QED BY <2>1, <2>2, <2>3, <2>4, <2>5 DEF VipTypeOK
<1>4. QuicTypeOK
  BY SMTT(30) DEF QuicInit, QuicTypeOK, NoQuicUpdates, Nums
<1>5. SrcTypeOK
  BY SMTT(30) DEF SrcInit, SrcTypeOK, NoRules
<1>6. CallOK
  BY DEF CallOK, SrcInit
<1> QED BY <1>1, <1>2, <1>3, <1>4, <1>5, <1>6 DEF PoolInv, TypeOK, Ops

\* What is left to show for a step of the VIP component.
LEMMA VipFrame ==
  ASSUME PoolInv, UNCHANGED <<quicVars, quicCallVars, srcVars, srcCallVars>>
  PROVE  QuicTypeOK' /\ SrcTypeOK'
BY DEF PoolInv, TypeOK, QuicTypeOK, SrcTypeOK, quicVars, quicCallVars, srcVars, srcCallVars

\* A ring that is written for a VIP with endpoints has numbers of reals only.
LEMMA NewRingType ==
  ASSUME staged \in Vip
  PROVE  /\ NewRing \in [Pos -> Nums \cup {-1}]
         /\ \A i \in Pos : NewRing[i] # staged.chRing[i] => NewRing[i] \in Nums
<1>1. CASE changed /\ (\E n \in Nums : staged.weight[n] # 0)
  <2>1. GenerateMaglevHash(staged.weight, staged.hash) \in [Pos -> {n \in Nums : staged.weight[n] # 0}]
    BY <1>1, RingAssumption DEF RingOverEndpoints, Vip
  <2> QED BY <2>1, <1>1 DEF NewRing
<1>2. CASE ~(changed /\ (\E n \in Nums : staged.weight[n] # 0))
  BY <1>2 DEF NewRing, Vip
<1> QED BY <1>1, <1>2

-----------------------------------------------------------------------------
(* Users of a number.                                                      *)

\* What it means to hold a number, by the kind of user.
LEMMA HoldsCases ==
  /\ \A v \in VipKeys : \A n : Holds(<<"vip", v>>, n) <=> n \in HeldReals(v)
  /\ \A s \in Srcs : \A n : Holds(<<"src", s>>, n) <=> s \in HeldRules /\ lpmSrcMapping[s] = n
  /\ \A b \in Addrs : \A n : Holds(<<"quic", b>>, n) <=> quicMapping[b] # NoId /\ reals[b].num = n
BY DEF Holds

\* A user is a VIP, a source routing rule or a QUIC mapping.
LEMMA UserKinds ==
  \A u \in AllUsers : \/ \E v \in VipKeys : u = <<"vip", v>>
                      \/ \E s \in Srcs : u = <<"src", s>>
                      \/ \E b \in Addrs : u = <<"quic", b>>
BY SMTT(30) DEF AllUsers

-----------------------------------------------------------------------------
(* The three kinds of steps.                                               *)

\* What is added to PoolInv for the users of numbers.
UsersInv == LoopOK /\ RefCountCoversUsers

\* No reference is taken or given up, and nobody gets or loses a number.
Nobody ==
  /\ UNCHANGED <<reals, numToReals>>
  /\ \A v \in VipKeys : HeldReals(v)' = HeldReals(v)
  /\ \A s \in Srcs : s \in HeldRules' <=> s \in HeldRules
  /\ \A s \in HeldRules : lpmSrcMapping'[s] = lpmSrcMapping[s]
  /\ \A b \in Addrs : quicMapping'[b] # NoId <=> quicMapping[b] # NoId

\* A reference on address a is taken for user u.  A rule gives up the number it
\* had before.
Takes(a, u) ==
  /\ increaseRefCountForReal(a)
  /\ Rnum(a) # maxReals
  /\ \A v \in VipKeys, n \in Nums : n \in HeldReals(v)' <=>
       n \in HeldReals(v) \/ (n = Rnum(a) /\ u = <<"vip", v>>)
  /\ \A s \in Srcs : s \in HeldRules' <=> s \in HeldRules \/ u = <<"src", s>>
  /\ \A s \in Srcs : s \in HeldRules' =>
       lpmSrcMapping'[s] = IF u = <<"src", s>> THEN Rnum(a) ELSE lpmSrcMapping[s]
  /\ \A b \in Addrs : quicMapping'[b] # NoId <=>
       quicMapping[b] # NoId \/ (b = a /\ u = <<"quic", b>>)
  /\ \A b \in Addrs : u = <<"quic", b>> => b = a

\* User u gives up number m and its reference on the address of m.
Gives(m, u) ==
  /\ Holds(u, m)
  /\ decreaseRefCountForReal(numToReals[m])
  /\ \A v \in VipKeys, n \in Nums : n \in HeldReals(v)' <=>
       n \in HeldReals(v) /\ ~(n = m /\ u = <<"vip", v>>)
  /\ \A s \in Srcs : s \in HeldRules' <=> s \in HeldRules /\ u # <<"src", s>>
  /\ \A s \in Srcs : s \in HeldRules' => lpmSrcMapping'[s] = lpmSrcMapping[s]
  /\ \A b \in Addrs : quicMapping'[b] # NoId <=> quicMapping[b] # NoId /\ u # <<"quic", b>>

\* The step takes or gives up at most one reference, with its user.
Counted ==
  \/ Nobody
  \/ \E a \in Addrs, u \in AllUsers : Takes(a, u)
  \/ \E m \in Nums, u \in AllUsers : Gives(m, u)

\* What the proof of every step shows.
UsersStep == LoopOK' /\ Counted

\* A step that takes a reference (increaseRefCountForReal) is counted.
LEMMA TakesCounted == \A a \in Addrs, u \in AllUsers : Takes(a, u) => Counted
BY DEF Counted

\* A step that gives one up (decreaseRefCountForReal) is counted.
LEMMA GivesCounted == \A m \in Nums, u \in AllUsers : Gives(m, u) => Counted
BY DEF Counted

-----------------------------------------------------------------------------
(* What they do to users and references.                                   *)

\* The references on number n.
Refs(n) == IF numToReals[n] = NoAddr THEN 0 ELSE reals[numToReals[n]].refCount

\* Number n keeps its references and gets no new user.
SameRefs(n) == Refs(n)' = Refs(n) /\ UsersOf(n)' \subseteq UsersOf(n)

\* A step without a reference leaves all numbers as they are.
LEMMA NobodyEffect ==
  ASSUME RefCountCoversUsers, Nobody
  PROVE  (\A n \in Nums : SameRefs(n)) /\ QuicRealsBound'
<1> USE DEF Nobody
<1>1. ASSUME NEW n \in Nums PROVE UsersOf(n)' \subseteq UsersOf(n)
  <2>1. ASSUME NEW u \in AllUsers, Holds(u, n)' PROVE Holds(u, n)
    <3>1. CASE \E v \in VipKeys : u = <<"vip", v>>
      BY SMTT(30), <2>1, <3>1 DEF Holds
    <3>2. CASE \E s \in Srcs : u = <<"src", s>>
      BY SMTT(30), <2>1, <3>2 DEF Holds
    <3>3. CASE \E b \in Addrs : u = <<"quic", b>>
      BY SMTT(30), <2>1, <3>3 DEF Holds
    <3> QED BY <3>1, <3>2, <3>3, UserKinds
  <2> QED BY <2>1 DEF UsersOf
<1>2. QuicRealsBound'
  BY DEF RefCountCoversUsers, QuicRealsBound
<1> QED BY <1>1, <1>2 DEF SameRefs, Refs

\* What increaseRefCountForReal does to the pool when it returns number m: it
\* adds a reference, to the number of the address or to a free one.
LEMMA IncreaseEffect ==
  ASSUME PoolTypeOK, PoolPartition, NEW a \in Addrs, increaseRefCountForReal(a),
         NEW m \in Nums, m = Rnum(a)
  PROVE  /\ reals'[a].num = m /\ numToReals'[m] = a /\ reals'[a] # NoReal
         /\ reals'[a].refCount = Refs(m) + 1
         /\ \A b \in Addrs : b # a => reals'[b] = reals[b]
         /\ \A n \in Nums : n # m => numToReals'[n] = numToReals[n] /\ numToReals[n] # a
         /\ \/ numToReals[m] = a /\ UNCHANGED numToReals
            \/ /\ numToReals[m] = NoAddr /\ \A n \in Nums : numToReals[n] # a
               /\ numToReals' = [numToReals EXCEPT ![m] = a]
<1>0. m # maxReals
  BY SMTT(30) DEF Nums
<1>1. CASE reals[a] # NoReal
  <2>1. reals' = [reals EXCEPT ![a].refCount = @ + 1] /\ UNCHANGED numToReals /\ m = reals[a].num
    BY <1>1 DEF increaseRefCountForReal, Rnum
  <2>2. numToReals[m] = a /\ \A n \in Nums : n # m => numToReals[n] # a
    BY SMTT(30), <1>1, <2>1, PoolAssumption DEF PoolPartition
  <2>3. reals'[a] = [num |-> m, refCount |-> reals[a].refCount + 1]
    BY <2>1 DEF PoolTypeOK, RealMeta
  <2>4. reals'[a].num = m /\ reals'[a] # NoReal /\ reals'[a].refCount = reals[a].refCount + 1
    BY SMTT(30), <2>3 DEF NoReal, Nums
  <2>5. Refs(m) = reals[a].refCount
    BY <2>2, PoolAssumption DEF Refs
  <2>6. \A b \in Addrs : b # a => reals'[b] = reals[b]
    BY <2>1 DEF PoolTypeOK
  <2> QED BY <2>1, <2>2, <2>4, <2>5, <2>6
<1>2. CASE reals[a] = NoReal
  <2>1. realNums # <<>> /\ m = Head(realNums)
    BY <1>0, <1>2 DEF Rnum
  <2>2. m = realNums[1] /\ 1 \in DOMAIN realNums
    BY SMTT(30), <2>1 DEF PoolTypeOK
  <2>3. /\ numToReals' = [numToReals EXCEPT ![m] = a]
        /\ reals' = [reals EXCEPT ![a] = [num |-> m, refCount |-> 1]]
    BY <2>1, <1>2 DEF increaseRefCountForReal
  <2>4. \A n \in Nums : numToReals[n] # a
    BY SMTT(30), <1>2, PoolAssumption DEF PoolPartition, NoReal, Nums
  <2>5. reals'[a] = [num |-> m, refCount |-> 1]
    BY <2>3 DEF PoolTypeOK
  <2>6. reals'[a].num = m /\ reals'[a] # NoReal /\ reals'[a].refCount = 1
    BY SMTT(30), <2>5 DEF NoReal
  <2>7. Refs(m) = 0
    BY SMTT(30), <2>2 DEF PoolPartition, Free, Refs
  <2>8. /\ \A b \in Addrs : b # a => reals'[b] = reals[b]
        /\ numToReals'[m] = a
        /\ \A n \in Nums : n # m => numToReals'[n] = numToReals[n]
    BY <2>3 DEF PoolTypeOK
  <2>9. numToReals[m] = NoAddr
    BY SMTT(30), <2>2 DEF PoolPartition, Free
  <2> QED BY SMTT(30), <2>3, <2>4, <2>6, <2>7, <2>8, <2>9
<1> QED BY <1>1, <1>2

\* The number increaseRefCountForReal returns, if there is one, is one of the
\* pool, and the number of the address afterwards.
LEMMA RnumInPool ==
  ASSUME PoolTypeOK, PoolPartition, NEW a \in Addrs, Rnum(a) # maxReals
  PROVE  Rnum(a) \in Nums /\ (increaseRefCountForReal(a) => reals'[a].num = Rnum(a) /\ reals'[a] # NoReal)
<1>1. Rnum(a) \in Nums
  BY SMTT(30) DEF Rnum, PoolPartition, PoolTypeOK
<1> QED BY <1>1, IncreaseEffect

\* increaseRefCountForReal adds one reference and at most one user to one number,
\* also when it binds a fresh one.
LEMMA TakesEffect ==
  ASSUME PoolTypeOK, PoolPartition, RefCountCoversUsers,
         NEW a \in Addrs, NEW u \in AllUsers, Takes(a, u)
  PROVE  /\ \E m \in Nums : /\ UsersOf(m)' \subseteq UsersOf(m) \cup {u}
                            /\ Refs(m)' = Refs(m) + 1
                            /\ \A n \in Nums \ {m} : SameRefs(n)
         /\ QuicRealsBound'
<1>a. increaseRefCountForReal(a) /\ Rnum(a) # maxReals
  BY DEF Takes
<1>0. PICK m \in Nums : m = Rnum(a)
  BY SMTT(30), <1>a DEF Rnum, PoolPartition, PoolTypeOK
<1>1. /\ reals'[a].num = m /\ numToReals'[m] = a /\ reals'[a] # NoReal
      /\ reals'[a].refCount = Refs(m) + 1
      /\ \A b \in Addrs : b # a => reals'[b] = reals[b]
      /\ \A n \in Nums : n # m => numToReals'[n] = numToReals[n] /\ numToReals[n] # a
  BY SMTT(30), <1>0, <1>a, IncreaseEffect
<1>2. \A b \in Addrs, n \in Nums : quicMapping[b] # NoId /\ reals'[b].num = n => reals[b].num = n
  <2>1. quicMapping[a] # NoId => reals[a].num = m
    BY <1>0 DEF RefCountCoversUsers, QuicRealsBound, Rnum
  <2> QED BY <1>1, <2>1
<1>3. ASSUME NEW n \in Nums, NEW x \in UsersOf(n)' PROVE x \in UsersOf(n) \/ (n = m /\ x = u)
  <2>0. x \in AllUsers /\ Holds(x, n)'
    BY <1>3 DEF UsersOf, AllUsers
  <2>1. Holds(x, n) \/ (n = m /\ x = u)
    <3>1. CASE \E v \in VipKeys : x = <<"vip", v>>
      BY SMTT(30), <2>0, <3>1, <1>0 DEF Holds, Takes
    <3>2. CASE \E s \in Srcs : x = <<"src", s>>
      BY SMTT(30), <2>0, <3>2, <1>0 DEF Holds, Takes
    <3>3. CASE \E b \in Addrs : x = <<"quic", b>>
      <4>1. PICK b \in Addrs : x = <<"quic", b>>
        BY <3>3
      <4>2. quicMapping'[b] # NoId /\ reals'[b].num = n
        BY <2>0, <4>1 DEF Holds
      <4>3. quicMapping[b] # NoId \/ (b = a /\ u = x)
        BY <4>1, <4>2 DEF Takes
      <4> QED BY <4>1, <4>2, <4>3, <1>1, <1>2 DEF Holds
    <3> QED BY <3>1, <3>2, <3>3, <2>0, UserKinds
  <2> QED BY <2>0, <2>1 DEF UsersOf
<1>4. ASSUME NEW n \in Nums \ {m} PROVE SameRefs(n)
  <2>1. Refs(n)' = Refs(n)
    <3>1. numToReals'[n] = numToReals[n] /\ numToReals[n] # a
      BY <1>1
    <3>2. numToReals[n] # NoAddr => reals'[numToReals[n]] = reals[numToReals[n]]
      BY <1>1, <3>1 DEF PoolTypeOK
    <3> QED BY <3>1, <3>2 DEF Refs
  <2>2. UsersOf(n)' \subseteq UsersOf(n)
    BY <1>3
  <2> QED BY <2>1, <2>2 DEF SameRefs
<1>5. Refs(m)' = Refs(m) + 1
  <2>1. Refs(m)' = reals'[numToReals'[m]].refCount
    BY SMTT(30), <1>1, PoolAssumption DEF Refs
  <2> QED BY <2>1, <1>1
<1>6. UsersOf(m)' \subseteq UsersOf(m) \cup {u}
  BY <1>3
<1>7. QuicRealsBound'
  BY <1>1 DEF RefCountCoversUsers, QuicRealsBound, Takes
<1> QED BY <1>4, <1>5, <1>6, <1>7

\* What decreaseRefCountForReal does to the pool: it takes a reference from
\* number m of address a, and recycles m when that was the last.
LEMMA DecreaseEffect ==
  ASSUME PoolTypeOK, PoolPartition, NEW a \in Addrs, decreaseRefCountForReal(a),
         NEW m \in Nums, numToReals[m] = a
  PROVE  /\ reals[a].num = m /\ reals[a] # NoReal /\ a # NoAddr
         /\ reals[a].refCount \in Nat /\ reals[a].refCount > 0
         /\ \A n \in Nums : n # m => numToReals[n] # a
         /\ \A b \in Addrs : b # a => reals'[b] = reals[b]
         /\ \A n \in Nums : n # m => numToReals'[n] = numToReals[n]
         /\ Refs(m)' = reals[a].refCount - 1
         /\ reals'[a].num = m \/ reals'[a] = NoReal
         /\ reals[a].refCount # 1 => reals'[a] # NoReal
         /\ UNCHANGED numToReals \/ numToReals' = [numToReals EXCEPT ![m] = NoAddr]
<1>1. /\ reals[a].num = m /\ reals[a] # NoReal /\ a # NoAddr
      /\ reals[a].refCount \in Nat /\ reals[a].refCount > 0
      /\ \A n \in Nums : n # m => numToReals[n] # a
  <2>1. reals[a].num = m /\ a # NoAddr
    BY PoolAssumption DEF PoolPartition
  <2>2. reals[a] # NoReal
    BY SMTT(30), <2>1 DEF NoReal, Nums
  <2>3. reals[a].refCount \in Nat
    BY DEF PoolTypeOK, RealMeta
  <2>4. reals[a].refCount > 0 /\ \A n \in Nums : n # m => numToReals[n] # a
    BY <2>1, <2>2 DEF PoolPartition
  <2> QED BY <2>1, <2>2, <2>3, <2>4
<1>2. /\ \A b \in Addrs : b # a => reals'[b] = reals[b]
      /\ \A n \in Nums : n # m => numToReals'[n] = numToReals[n]
      /\ Refs(m)' = reals[a].refCount - 1
      /\ reals'[a].num = m \/ reals'[a] = NoReal
      /\ reals[a].refCount # 1 => reals'[a] # NoReal
      /\ UNCHANGED numToReals \/ numToReals' = [numToReals EXCEPT ![m] = NoAddr]
  <2>1. CASE reals[a].refCount = 1
    <3>1. reals' = [reals EXCEPT ![a] = NoReal] /\ numToReals' = [numToReals EXCEPT ![m] = NoAddr]
      BY <2>1, <1>1 DEF decreaseRefCountForReal
    <3>2. numToReals'[m] = NoAddr
      BY <3>1 DEF PoolTypeOK
    <3>3. Refs(m)' = 0
      BY <3>2 DEF Refs
    <3> QED BY SMTT(30), <3>1, <3>3, <2>1 DEF PoolTypeOK
  <2>2. CASE reals[a].refCount # 1
    <3>1. reals' = [reals EXCEPT ![a].refCount = @ - 1] /\ UNCHANGED numToReals
      BY <2>2, <1>1 DEF decreaseRefCountForReal
    <3>2. reals'[a] = [num |-> m, refCount |-> reals[a].refCount - 1]
      BY <3>1, <1>1 DEF PoolTypeOK, RealMeta
    <3>3. reals'[a].num = m /\ reals'[a].refCount = reals[a].refCount - 1 /\ reals'[a] # NoReal
      BY SMTT(30), <3>2 DEF NoReal, Nums
    <3>4. Refs(m)' = reals'[a].refCount
      BY <3>1, <1>1 DEF Refs
    <3> QED BY <3>1, <3>3, <3>4, <2>2 DEF PoolTypeOK
  <2> QED BY <2>1, <2>2
<1> QED BY <1>1, <1>2

\* decreaseRefCountForReal takes one reference and one user from one number,
\* also when it recycles it.
LEMMA GivesEffect ==
  ASSUME PoolTypeOK, PoolPartition, RefCountCoversUsers,
         NEW m \in Nums, NEW u \in AllUsers, Gives(m, u)
  PROVE  /\ u \in UsersOf(m)
         /\ UsersOf(m)' \subseteq UsersOf(m) \ {u}
         /\ Refs(m) # 0 /\ Refs(m)' = Refs(m) - 1
         /\ \A n \in Nums \ {m} : SameRefs(n)
         /\ QuicRealsBound' \/ (Refs(m) = 1 /\ UsersOf(m) \ {u} # {})
<1>1. u \in UsersOf(m) /\ Holds(u, m)
  BY DEF UsersOf, Gives
<1>a. PICK a \in Addrs : a = numToReals[m] /\ decreaseRefCountForReal(a)
  <2>1. numToReals[m] \in Addrs
    BY <1>1 DEF RefCountCoversUsers, PoolTypeOK
  <2> QED BY <2>1 DEF Gives
<1>2. /\ reals[a].num = m /\ reals[a] # NoReal /\ a # NoAddr
      /\ reals[a].refCount \in Nat /\ reals[a].refCount > 0
      /\ \A n \in Nums : n # m => numToReals[n] # a
  BY SMTT(30), <1>a, DecreaseEffect
<1>3. /\ \A b \in Addrs : b # a => reals'[b] = reals[b]
      /\ \A n \in Nums : n # m => numToReals'[n] = numToReals[n]
      /\ Refs(m)' = reals[a].refCount - 1
      /\ reals'[a].num = m \/ reals'[a] = NoReal
      /\ reals[a].refCount # 1 => reals'[a] # NoReal
  BY SMTT(30), <1>a, DecreaseEffect
<1>4. Refs(m) = reals[a].refCount
  BY <1>2, <1>a DEF Refs
<1>5. \A b \in Addrs, n \in Nums : reals'[b].num = n => reals[b].num = n
  <2>1. reals'[a] = NoReal => reals'[a].num \notin Nums
    BY SMTT(30) DEF NoReal, Nums
  <2> QED BY <1>2, <1>3, <2>1
<1>6. ASSUME NEW n \in Nums, NEW x \in UsersOf(n)' PROVE x \in UsersOf(n) /\ ~(n = m /\ x = u)
  <2>0. x \in AllUsers /\ Holds(x, n)'
    BY <1>6 DEF UsersOf, AllUsers
  <2>1. Holds(x, n) /\ ~(n = m /\ x = u)
    <3>1. CASE \E v \in VipKeys : x = <<"vip", v>>
      BY SMTT(30), <2>0, <3>1 DEF Holds, Gives
    <3>2. CASE \E s \in Srcs : x = <<"src", s>>
      BY SMTT(30), <2>0, <3>2 DEF Holds, Gives
    <3>3. CASE \E b \in Addrs : x = <<"quic", b>>
      <4>1. PICK b \in Addrs : x = <<"quic", b>>
        BY <3>3
      <4>2. quicMapping'[b] # NoId /\ reals'[b].num = n
        BY <2>0, <4>1 DEF Holds
      <4>3. quicMapping[b] # NoId /\ x # u
        BY <4>1, <4>2 DEF Gives
      <4> QED BY <4>1, <4>2, <4>3, <1>5 DEF Holds
    <3> QED BY <3>1, <3>2, <3>3, <2>0, UserKinds
  <2> QED BY <2>0, <2>1 DEF UsersOf
<1>7. ASSUME NEW n \in Nums \ {m} PROVE SameRefs(n)
  <2>1. Refs(n)' = Refs(n)
    <3>1. numToReals'[n] = numToReals[n] /\ numToReals[n] # a
      BY <1>2, <1>3
    <3>2. numToReals[n] # NoAddr => reals'[numToReals[n]] = reals[numToReals[n]]
      BY <1>3, <3>1 DEF PoolTypeOK
    <3> QED BY <3>1, <3>2 DEF Refs
  <2>2. UsersOf(n)' \subseteq UsersOf(n)
    BY <1>6
  <2> QED BY <2>1, <2>2 DEF SameRefs
<1>8. UsersOf(m)' \subseteq UsersOf(m) \ {u}
  BY <1>6
<1>9. QuicRealsBound' \/ (Refs(m) = 1 /\ UsersOf(m) \ {u} # {})
  <2>1. \A b \in Addrs : quicMapping'[b] # NoId => quicMapping[b] # NoId /\ u # <<"quic", b>> /\ reals[b] # NoReal
    BY DEF RefCountCoversUsers, QuicRealsBound, Gives
  <2>2. ASSUME quicMapping'[a] # NoId PROVE <<"quic", a>> \in UsersOf(m) \ {u}
    <3>1. Holds(<<"quic", a>>, m)
      BY SMTT(30), <2>1, <2>2, <1>2, HoldsCases
    <3>2. <<"quic", a>> \in AllUsers
      BY DEF AllUsers
    <3> QED BY <3>1, <3>2, <2>1, <2>2 DEF UsersOf
  <2> QED BY <2>1, <2>2, <1>3, <1>4 DEF QuicRealsBound
<1> QED BY SMTT(30), <1>1, <1>2, <1>3, <1>4, <1>7, <1>8, <1>9

\* The inductive invariant is that of the pool and that of the users.
LEMMA IndInvParts == IndInv <=> PoolInv /\ UsersInv
BY DEF IndInv, PoolInv, UsersInv

=============================================================================
