--------------------------- MODULE CountingProofs ---------------------------
(***************************************************************************)
(* Counting users: a step that takes or gives back one reference together  *)
(* with one user leaves every number with a reference for each user.       *)
(***************************************************************************)
EXTENDS PoolProofs, FiniteSetTheorems

\* The prover of every leaf that names no other.
USE ZenonT(30)

-----------------------------------------------------------------------------
(* Counting users.                                                         *)

\* There are finitely many users.
LEMMA UsersFinite ==
  \A n : IsFiniteSet(UsersOf(n)) /\ Cardinality(UsersOf(n)) \in Nat
<1>1. \A t : IsFiniteSet({t})
  BY FS_Singleton
<1>2. IsFiniteSet({"vip"} \X VipKeys) /\ IsFiniteSet({"src"} \X Srcs) /\ IsFiniteSet({"quic"} \X Addrs)
  BY <1>1, FS_Product, VipAssumption, SrcAssumption, PoolAssumption
<1>3. IsFiniteSet(AllUsers)
  BY <1>2, FS_Union DEF AllUsers
<1> QED BY <1>3, FS_Subset, FS_CardinalityType DEF UsersOf

\* One more user, at most: the count grows by one, at most.
LEMMA OneMore ==
  ASSUME NEW S, IsFiniteSet(S), NEW T, NEW u, T \subseteq S \cup {u}
  PROVE  IsFiniteSet(T) /\ Cardinality(T) \in Nat /\ Cardinality(T) <= Cardinality(S) + 1
<1>0. Cardinality(S) \in Nat
  BY FS_CardinalityType
<1>1. IsFiniteSet(S \cup {u}) /\ Cardinality(S \cup {u}) \in {Cardinality(S), Cardinality(S) + 1}
  BY FS_AddElement
<1>2. IsFiniteSet(T) /\ Cardinality(T) <= Cardinality(S \cup {u})
  BY <1>1, FS_Subset
<1>3. Cardinality(T) \in Nat
  BY <1>2, FS_CardinalityType
<1> QED BY SMTT(30), <1>0, <1>1, <1>2, <1>3

\* One user less.
LEMMA OneLess ==
  ASSUME NEW S, IsFiniteSet(S), NEW T, NEW u \in S, T \subseteq S \ {u}
  PROVE  Cardinality(T) \in Nat /\ Cardinality(T) + 1 <= Cardinality(S)
<1>1. IsFiniteSet(S \ {u}) /\ Cardinality(S \ {u}) = Cardinality(S) - 1
  BY FS_RemoveElement
<1>2. IsFiniteSet(T) /\ Cardinality(T) <= Cardinality(S \ {u})
  BY <1>1, FS_Subset
<1>3. Cardinality(T) \in Nat /\ Cardinality(S) \in Nat
  BY <1>2, FS_CardinalityType
<1> QED BY SMTT(30), <1>1, <1>2, <1>3

-----------------------------------------------------------------------------
(* The three kinds of steps keep the users covered.                        *)

\* RefCountCoversUsers, in terms of the references on a number.
AllCovered == QuicRealsBound /\ \A n \in Nums : Cardinality(UsersOf(n)) <= Refs(n)

\* The two forms of the invariant say the same.
LEMMA CoveredByRefs == PoolTypeOK => (RefCountCoversUsers <=> AllCovered)
<1> SUFFICES ASSUME PoolTypeOK PROVE RefCountCoversUsers <=> AllCovered
  OBVIOUS
<1>1. ASSUME NEW n \in Nums
      PROVE  Refs(n) \in Nat /\ Cardinality(UsersOf(n)) \in Nat
  <2>1. numToReals[n] = NoAddr \/ reals[numToReals[n]].refCount \in Nat
    BY DEF PoolTypeOK, RealMeta
  <2> QED BY <2>1, UsersFinite DEF Refs
<1>2. \A n \in Nums : Cardinality(UsersOf(n)) = 0 <=> UsersOf(n) = {}
  BY SMTT(30), UsersFinite, FS_EmptySet
<1>3. ASSUME NEW n \in Nums
      PROVE  Cardinality(UsersOf(n)) <= Refs(n) <=>
               (UsersOf(n) # {} => /\ numToReals[n] # NoAddr
                                   /\ Cardinality(UsersOf(n)) <= reals[numToReals[n]].refCount)
  BY SMTT(30), <1>1, <1>2 DEF Refs
<1> QED BY <1>3 DEF RefCountCoversUsers, AllCovered

\* References are counted in natural numbers.
LEMMA RefsNat ==
  ASSUME PoolTypeOK
  PROVE  \A n \in Nums : Refs(n) \in Nat
<1> SUFFICES ASSUME NEW n \in Nums PROVE Refs(n) \in Nat
  OBVIOUS
<1>1. numToReals[n] = NoAddr \/ reals[numToReals[n]].refCount \in Nat
  BY DEF PoolTypeOK, RealMeta
<1> QED BY <1>1 DEF Refs

\* A number whose references stay, and whose users do not grow.
LEMMA SameCovered ==
  ASSUME NEW n \in Nums, SameRefs(n), Refs(n) \in Nat, Cardinality(UsersOf(n)) <= Refs(n)
  PROVE  Cardinality(UsersOf(n)') <= Refs(n)'
<1>1. IsFiniteSet(UsersOf(n)) /\ Cardinality(UsersOf(n)) \in Nat
  BY UsersFinite
<1>2. UsersOf(n)' \subseteq UsersOf(n) /\ Refs(n)' = Refs(n)
  BY DEF SameRefs
<1>3. IsFiniteSet(UsersOf(n)') /\ Cardinality(UsersOf(n)') <= Cardinality(UsersOf(n))
  BY <1>1, <1>2, FS_Subset
<1>4. Cardinality(UsersOf(n)') \in Nat
  BY <1>3, FS_CardinalityType
<1> QED BY SMTT(30), <1>1, <1>2, <1>3, <1>4

\* A counted step of any call leaves every number with enough references.
LEMMA CountedKeepsCovered ==
  ASSUME PoolTypeOK, PoolPartition, PoolTypeOK', RefCountCoversUsers, Counted
  PROVE  RefCountCoversUsers'
<1>1. \A n \in Nums : Refs(n) \in Nat /\ Cardinality(UsersOf(n)) <= Refs(n)
  BY RefsNat, CoveredByRefs DEF AllCovered
<1>2. SUFFICES QuicRealsBound' /\ \A n \in Nums : Cardinality(UsersOf(n)') <= Refs(n)'
  <2>1. RefCountCoversUsers' <=> AllCovered'
    BY CoveredByRefs, PTL
  <2> QED BY <2>1 DEF AllCovered
<1>3. CASE Nobody
  <2>1. (\A n \in Nums : SameRefs(n)) /\ QuicRealsBound'
    BY <1>3, NobodyEffect
  <2> QED BY <2>1, <1>1, SameCovered
<1>4. ASSUME NEW a \in Addrs, NEW u \in AllUsers, Takes(a, u)
      PROVE  QuicRealsBound' /\ \A n \in Nums : Cardinality(UsersOf(n)') <= Refs(n)'
  <2>1. PICK m \in Nums : /\ UsersOf(m)' \subseteq UsersOf(m) \cup {u}
                          /\ Refs(m)' = Refs(m) + 1
                          /\ \A n \in Nums \ {m} : SameRefs(n)
    BY SMTT(30), <1>4, TakesEffect
  <2>2. Cardinality(UsersOf(m)') \in Nat /\ Cardinality(UsersOf(m)') <= Cardinality(UsersOf(m)) + 1
    <3>1. UsersOf(m)' \subseteq UsersOf(m) \cup {u}
      BY SMTT(30), <2>1
    <3>2. IsFiniteSet(UsersOf(m))
      BY UsersFinite
    <3> QED BY <3>1, <3>2, OneMore
  <2>3. Cardinality(UsersOf(m)) \in Nat
    BY UsersFinite
  <2>4. Cardinality(UsersOf(m)') <= Refs(m)'
    BY SMTT(30), <2>1, <2>2, <2>3, <1>1
  <2>5. \A n \in Nums \ {m} : Cardinality(UsersOf(n)') <= Refs(n)'
    BY SMTT(30), <2>1, <1>1, SameCovered
  <2>6. QuicRealsBound'
    BY <1>4, TakesEffect
  <2> QED BY SMTT(30), <2>4, <2>5, <2>6
<1>5. ASSUME NEW m \in Nums, NEW u \in AllUsers, Gives(m, u)
      PROVE  QuicRealsBound' /\ \A n \in Nums : Cardinality(UsersOf(n)') <= Refs(n)'
  <2>1. /\ u \in UsersOf(m)
        /\ UsersOf(m)' \subseteq UsersOf(m) \ {u}
        /\ Refs(m) # 0 /\ Refs(m)' = Refs(m) - 1
        /\ \A n \in Nums \ {m} : SameRefs(n)
        /\ QuicRealsBound' \/ (Refs(m) = 1 /\ UsersOf(m) \ {u} # {})
    BY <1>5, GivesEffect
  <2>2. Cardinality(UsersOf(m)') \in Nat /\ Cardinality(UsersOf(m)') + 1 <= Cardinality(UsersOf(m))
    <3>1. u \in UsersOf(m) /\ UsersOf(m)' \subseteq UsersOf(m) \ {u}
      BY <2>1
    <3> QED BY <3>1, UsersFinite, OneLess
  <2>3. Cardinality(UsersOf(m)) \in Nat
    BY UsersFinite
  <2>4. Cardinality(UsersOf(m)') <= Refs(m)'
    BY SMTT(30), <2>1, <2>2, <2>3, <1>1
  <2>5. \A n \in Nums \ {m} : Cardinality(UsersOf(n)') <= Refs(n)'
    BY <2>1, <1>1, SameCovered
  <2>6. QuicRealsBound'
    <3>1. IsFiniteSet(UsersOf(m) \ {u}) /\ Cardinality(UsersOf(m) \ {u}) = Cardinality(UsersOf(m)) - 1
      BY SMTT(30), <2>1, UsersFinite, FS_RemoveElement
    <3>2. Cardinality(UsersOf(m) \ {u}) = 0 => UsersOf(m) \ {u} = {}
      BY <3>1, FS_EmptySet
    <3>3. Cardinality(UsersOf(m) \ {u}) \in Nat
      BY <3>1, FS_CardinalityType
    <3>4. Refs(m) = 1 => Cardinality(UsersOf(m) \ {u}) = 0
      BY SMTT(30), <3>1, <3>3, <2>3, <1>1
    <3> QED BY <3>2, <3>4, <2>1
  <2> QED BY <2>4, <2>5, <2>6
<1> QED BY SMTT(30), <1>3, <1>4, <1>5 DEF Counted

=============================================================================
