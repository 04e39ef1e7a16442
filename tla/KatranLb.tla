------------------------------ MODULE KatranLb ------------------------------
(***************************************************************************)
(* The control plane of katran, class KatranLb: VIPs, QUIC mappings and    *)
(* source routing rules, which share the pool of real-server numbers and   *)
(* the API of one object.                                                  *)
(***************************************************************************)
EXTENDS VipTable, QuicReals, SrcRouting

vars == <<op, poolVars, vipVars, vipCallVars, quicVars, quicCallVars, srcVars, srcCallVars>>

Ops ==
  {"idle", "delVip", "ADD", "DEL", "write", "quicADD", "quicDEL",
   "srcParse", "srcADD", "srcWrite", "srcDEL", "srcCLEAR"}

TypeOK ==
  /\ op \in Ops
  /\ PoolTypeOK
  /\ VipTypeOK
  /\ QuicTypeOK
  /\ SrcTypeOK

Init ==
  /\ op = "idle"
  /\ PoolInit
  /\ VipInit
  /\ QuicInit
  /\ SrcInit

Next ==
  \/ VipNext /\ UNCHANGED <<quicVars, quicCallVars, srcVars, srcCallVars>>
  \/ QuicNext /\ UNCHANGED <<vipVars, vipCallVars, srcVars, srcCallVars>>
  \/ SrcNext /\ UNCHANGED <<vipVars, vipCallVars, quicVars, quicCallVars>>

Spec == Init /\ [][Next]_vars

-----------------------------------------------------------------------------
(* Who holds a reference to a number.                                      *)

AllUsers == ({"vip"} \X VipKeys) \cup ({"src"} \X Srcs) \cup ({"quic"} \X Addrs)

Holds(u, n) ==
  \/ u[1] = "vip" /\ n \in HeldReals(u[2])
  \/ u[1] = "src" /\ u[2] \in HeldRules /\ lpmSrcMapping[u[2]] = n
  \/ u[1] = "quic" /\ quicMapping[u[2]] # NoId /\ reals[u[2]].num = n

UsersOf(n) == {u \in AllUsers : Holds(u, n)}

\* The reals of one call of modifyRealsForVip have different addresses.
DistinctReals ==
  \A batch \in RealBatches : \A i, j \in DOMAIN batch :
    i # j /\ batch[i].address # NoAddr => batch[i].address # batch[j].address

\* What the steps of a call know about its local variables.
CallOK ==
  /\ op \in {"ADD", "DEL", "delVip", "write"} => cvip \in VipKeys /\ vips[cvip].num \in VipNums
  /\ op \in {"ADD", "DEL"} => staged.num \in VipNums
  /\ op = "write" => \A i \in pend : vips[cvip].chRing[i] \in Nums
  /\ op \in {"srcParse", "srcADD", "srcWrite"} => dst \in Addrs
  /\ op = "srcWrite" => src_networks # <<>>
  /\ op # "srcCLEAR" => cleared = {}

\* What keeps the references of a VIP exact while modifyRealsForVip runs: a
\* real the loop takes for the VIP's own is held by the VIP.  A VIP that is not
\* there holds nothing.
LoopOK ==
  /\ op = "ADD" => cur_reals \subseteq staged.reals
  /\ op = "DEL" => \A i \in DOMAIN todo :
       LET a == todo[i].address IN
       a # NoAddr =>
         /\ \A j \in DOMAIN todo : i # j => todo[j].address # a
         /\ reals[a] # NoReal /\ reals[a].num \in cur_reals => reals[a].num \in staged.reals
  /\ \A v \in VipKeys : ~Present(v) => vips[v].reals = {}

\* A number somebody refers to is bound, and its reference count covers all
\* who refer to it: VIPs, source routing rules and QUIC mappings.
RefCountCoversUsers ==
  /\ \A n \in Nums : UsersOf(n) # {} =>
       /\ numToReals[n] # NoAddr
       /\ Cardinality(UsersOf(n)) <= reals[numToReals[n]].refCount
  /\ QuicRealsBound

\* The inductive invariant of the control plane, when the reals of a call are
\* different: the pool of numbers is consistent and covers its users, also in
\* the middle of a call.
IndInv ==
  /\ TypeOK
  /\ PoolPartition
  /\ CallOK
  /\ LoopOK
  /\ RefCountCoversUsers

\* KatranLbStructs.h:56, "one real could be used by multiple vips we will
\* delete real (recycle it's num), only when refcount would be equal to zero":
\* between calls the reference count is the number of users, so that a number
\* without a user is recycled and nothing leaks.  This is so for VIPs and QUIC
\* mappings; a source routing rule that is overwritten keeps its reference.
RefCountExact ==
  Idle => \A a \in Addrs : reals[a] # NoReal =>
            reals[a].refCount = Cardinality(UsersOf(reals[a].num))

\* The XDP program finds the address of every number in use: no bpf() call
\* failed, so the entry of the BPF map "reals" is the one the users took.
BpfRealsAgree ==
  ~bpfFailed => \A a \in Addrs : reals[a] # NoReal => bpf_reals[reals[a].num] = a

\* What the XDP program reads leads to the configured addresses: numbers in use
\* to their reals, QUIC ids and source prefixes to those that are mapped.
ServedIsConfigured == BpfRealsAgree /\ QuicMappingServes /\ SrcRuleServes

\* A number that a user holds before and after a step names the same address
\* before and after it: no call may recycle a number under its users' feet.
HeldNumbersKeepAddress ==
  [][\A n \in Nums, u \in AllUsers :
       Holds(u, n) /\ Holds(u, n)' => numToReals[n]' = numToReals[n]]_vars

-----------------------------------------------------------------------------
(* The control plane implements RealNames.                                 *)

HeldPairs == {p \in AllUsers \X Nums : Holds(p[1], p[2])}

Names == INSTANCE RealNames WITH
  Names <- Nums, Targets <- Addrs, NoTarget <- NoAddr, Users <- AllUsers,
  target <- numToReals, held <- HeldPairs

\* Whatever the VIPs, rules and QUIC mappings do with their numbers, they see
\* the abstract service: numbers in use never change their address.
ImplementsRealNames == Names!NamesSpec

=============================================================================
