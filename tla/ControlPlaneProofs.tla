------------------------- MODULE ControlPlaneProofs -------------------------
(***************************************************************************)
(* The reference counts of KatranLb cover all users of a number, and what  *)
(* follows: no VIP, source routing rule or QUIC mapping ever refers to a   *)
(* free or renamed number, and what the XDP program reads is what is       *)
(* configured.  These theorems assume that the reals of one call of        *)
(* modifyRealsForVip are different (DistinctReals).                        *)
(***************************************************************************)
EXTENDS CountingProofs, UserStepsProofs, ServingProofs

\* The prover of every leaf that names no other.
USE ZenonT(30)

-----------------------------------------------------------------------------
(* The control plane.                                                      *)

\* Every step leaves the users covered.
LEMMA IndInvStep ==
  ASSUME DistinctReals
  PROVE  IndInv /\ [Next]_vars => IndInv'
<1> SUFFICES ASSUME PoolInv, UsersInv, [Next]_vars PROVE UsersInv'
  BY PoolInvStep DEF IndInv, PoolInv, UsersInv
<1>1. UsersStep
  BY StepUsers
<1>2. PoolTypeOK /\ PoolPartition /\ RefCountCoversUsers /\ PoolTypeOK'
  BY PoolInvStep DEF PoolInv, TypeOK, UsersInv
<1>3. RefCountCoversUsers'
  BY <1>1, <1>2, CountedKeepsCovered DEF UsersStep
<1> QED BY <1>1, <1>3 DEF UsersStep, UsersInv

\* Initially no number is in use, and no call in progress.
LEMMA InitIndInv == Init => IndInv
BY InitPoolInv, InitUsersInv, IndInvParts

\* All that the steps of the control plane rely on, for any number of VIPs, reals
\* and rules and whatever bpf() calls fail, when no batch names a real twice:
\* types, the partition of the numbers, enough references for all users, and the
\* local variables of a call that has let other steps in between.
THEOREM ControlPlaneSafe ==
  ASSUME DistinctReals
  PROVE  Spec => []IndInv
<1> QED BY InitIndInv, IndInvStep, PTL DEF Spec

\* The reference counts of increaseRefCountForReal and decreaseRefCountForReal
\* cover all VIPs, source routing rules and QUIC mappings that refer to a
\* number, also in the middle of a call and whatever bpf() calls fail, when no
\* batch of modifyRealsForVip names a real twice.
THEOREM UsersCovered ==
  ASSUME DistinctReals
  PROVE  Spec => []RefCountCoversUsers
<1>1. IndInv => RefCountCoversUsers
  BY DEF IndInv
<1> QED BY <1>1, ControlPlaneSafe, PTL

\* No call of the API recycles or renames a number while a VIP, a source
\* routing rule or a QUIC mapping goes on using it, when no batch names a real
\* twice.
THEOREM HeldNumbersStay ==
  ASSUME DistinctReals
  PROVE  Spec => HeldNumbersKeepAddress
<1> DEFINE Stay == \A n \in Nums, u \in AllUsers :
                     Holds(u, n) /\ Holds(u, n)' => numToReals[n]' = numToReals[n]
<1>1. IndInv /\ IndInv' /\ [Next]_vars => [Stay]_vars
  <2> SUFFICES ASSUME IndInv, IndInv', [Next]_vars, NEW n \in Nums, NEW u \in AllUsers,
                      Holds(u, n), Holds(u, n)'
               PROVE  numToReals'[n] = numToReals[n]
    OBVIOUS
  <2>1. numToReals[n] # NoAddr
    <3>1. u \in UsersOf(n)
      BY DEF UsersOf
    <3> QED BY <3>1 DEF IndInv, RefCountCoversUsers
  <2>2. numToReals'[n] # NoAddr
    <3>1. u \in UsersOf(n)'
      BY DEF UsersOf, AllUsers
    <3> QED BY <3>1 DEF IndInv, RefCountCoversUsers, Nums
  <2> QED BY <2>1, <2>2, NumberStep
<1> QED BY <1>1, ControlPlaneSafe, PTL DEF Spec, HeldNumbersKeepAddress

-----------------------------------------------------------------------------
(* The control plane implements RealNames.                                 *)

\* The control plane implements RealNames, when no batch names a real twice:
\* whatever the calls of the API do with reference counts, the FIFO of free
\* numbers and failing bpf() calls, each of their steps takes, gives up or
\* recycles a number as the abstract service allows, or does not concern it.
THEOREM NumbersAreNames ==
  ASSUME DistinctReals
  PROVE  Spec => ImplementsRealNames
<1>1. Init => Names!NamesInit
  <2> SUFFICES ASSUME Init PROVE Names!NamesInit
    OBVIOUS
  <2>1. numToReals = [n \in Nums |-> NoAddr]
    BY DEF Init, PoolInit
  <2>2. HeldPairs = {}
    BY InitNobody DEF HeldPairs
  <2> QED BY <2>1, <2>2 DEF Names!NamesInit
<1>2. IndInv /\ IndInv' /\ [Next]_vars => [Names!NamesNext]_Names!nameVars
  BY NamesStep
<1> QED BY <1>1, <1>2, ControlPlaneSafe, PTL DEF Spec, ImplementsRealNames, Names!NamesSpec

-----------------------------------------------------------------------------
(* What the XDP program reads.                                             *)

\* The rings of VIPs, for any number of VIPs, reals and ring positions, when no
\* batch names a real twice: as long as no bpf() call has failed, the XDP
\* program finds at each position of the ring of a VIP, except those that
\* modifyRealsForVip is about to write, an endpoint of that VIP, and in
\* "reals" the address the endpoint was configured with.
THEOREM RingsSafe ==
  ASSUME DistinctReals
  PROVE  Spec => []RingServesVip
<1> QED BY ControlPlaneSafe, InitIndInv, InitRingInv, RingInvStep, RingInvServes, PTL DEF Spec

\* What the XDP program reads of reals, QUIC ids and source prefixes is what is
\* configured, for any number of them, when no batch names a real twice and no
\* QUIC id has two addresses at a time: as long as no bpf() call has failed,
\* "reals" has the address of every number in use, quic_mapping leads to the
\* address of every mapped id, and the tries have exactly the rules.
THEOREM ServingSafe ==
  ASSUME DistinctReals
  PROVE  Spec /\ []OneAddressPerId => []ServedIsConfigured
<1> QED BY ControlPlaneSafe, InitIndInv, InitServingInv, ServingInvStep, ServingInvServes, PTL DEF Spec

=============================================================================
