------------------------------ MODULE RealPool ------------------------------
(***************************************************************************)
(* The pool of real-server numbers of KatranLb (KatranLb.cpp).             *)
(*                                                                         *)
(* Every backend address in use has a small number, under which the XDP    *)
(* program finds it in the BPF array "reals".  The number is shared by all *)
(* users of the address (VIPs, QUIC mappings, source routing rules) and    *)
(* reference counted; when the count drops to zero it goes to the back of  *)
(* the FIFO realNums_ and may name another address later.                  *)
(***************************************************************************)
EXTENDS Integers, Sequences, FiniteSets

CONSTANTS
  Addrs,       \* addresses that parse (folly::IPAddress)
  NoAddr,      \* no address: an absent entry, or the zero entry of an array map
  maxReals,    \* config_.maxReals
  BpfMayFail,  \* whether a bpf() syscall of the control plane may fail
  refCountBound \* calls that take references are explored below this refCount

ASSUME PoolAssumption ==
  /\ NoAddr \notin Addrs
  /\ IsFiniteSet(Addrs)
  /\ maxReals \in Nat \ {0}
  /\ BpfMayFail \in BOOLEAN
  /\ refCountBound \in Nat

VARIABLES
  reals,       \* reals_: address -> RealMeta
  numToReals,  \* numToReals_: number -> address
  realNums,    \* realNums_: the free numbers, a FIFO
  bpf_reals,   \* BPF array map "reals"
  bpfFailed,   \* lbStats_.bpfFailedCalls > 0
  op           \* the API call in progress, or "idle"

\* The API is not reentrant: its users serialise the calls with one mutex
\* (giant_ in KatranSimpleServiceHandler).  A call that makes several bpf()
\* syscalls is a sequence of steps, because the XDP program runs between them.
Idle == op = "idle"

\* Bound of the model: a refCount is an uint32_t in the code and may leak, so
\* it has no smaller bound of its own.
RefCountsInBound == \A a \in Addrs : reals[a].refCount <= refCountBound

poolVars == <<reals, numToReals, realNums, bpf_reals, bpfFailed>>

Nums == 0..(maxReals - 1)

\* struct RealMeta; NoReal stands for an address without an entry in reals_
\* (maxReals is also what increaseRefCountForReal returns for "none").
RealMeta == [num : 0..maxReals, refCount : Nat]

NoReal == [num |-> maxReals, refCount |-> 0]

PoolTypeOK ==
  /\ reals \in [Addrs -> RealMeta]
  /\ numToReals \in [Nums -> Addrs \cup {NoAddr}]
  /\ realNums \in Seq(Nums)
  /\ bpf_reals \in [Nums -> Addrs \cup {NoAddr}]
  /\ bpfFailed \in BOOLEAN

PoolInit ==
  /\ reals = [a \in Addrs |-> NoReal]
  /\ numToReals = [n \in Nums |-> NoAddr]
  /\ realNums = [i \in 1..maxReals |-> i - 1]
  /\ bpf_reals = [n \in Nums |-> NoAddr]
  /\ bpfFailed = FALSE

-----------------------------------------------------------------------------
\* Result of one bpf() syscall: TRUE is res == 0.
BpfResults == IF BpfMayFail THEN BOOLEAN ELSE {TRUE}

\* lbStats_.bpfFailedCalls++ when the call has failed.
CountFailure(ok) == bpfFailed' = (bpfFailed \/ ~ok)

updateRealsMap(a, num) ==
  \E ok \in BpfResults :
    /\ bpf_reals' = IF ok THEN [bpf_reals EXCEPT ![num] = a] ELSE bpf_reals
    /\ CountFailure(ok)

\* The number increaseRefCountForReal returns for address a.
Rnum(a) ==
  IF reals[a] # NoReal THEN reals[a].num
  ELSE IF realNums # <<>> THEN Head(realNums)
  ELSE maxReals

\* Mutant: the new number is not written to the BPF map "reals".
increaseNoBpfUpdate(a) ==
  \/ /\ reals[a] # NoReal
     /\ reals' = [reals EXCEPT ![a].refCount = @ + 1]
     /\ UNCHANGED <<numToReals, realNums, bpf_reals, bpfFailed>>
  \/ /\ reals[a] = NoReal
     /\ realNums # <<>>
     /\ realNums' = Tail(realNums)
     /\ numToReals' = [numToReals EXCEPT ![Head(realNums)] = a]
     /\ reals' = [reals EXCEPT ![a] = [num |-> Head(realNums), refCount |-> 1]]
     /\ UNCHANGED <<bpf_reals, bpfFailed>>
  \/ /\ reals[a] = NoReal
     /\ realNums = <<>>
     /\ UNCHANGED poolVars

\* Mutant: the number is used but not taken off the FIFO.
increaseNoPop(a) ==
  \/ /\ reals[a] # NoReal
     /\ reals' = [reals EXCEPT ![a].refCount = @ + 1]
     /\ UNCHANGED <<numToReals, realNums, bpf_reals, bpfFailed>>
  \/ /\ reals[a] = NoReal
     /\ realNums # <<>>
     /\ numToReals' = [numToReals EXCEPT ![Head(realNums)] = a]
     /\ reals' = [reals EXCEPT ![a] = [num |-> Head(realNums), refCount |-> 1]]
     /\ updateRealsMap(a, Head(realNums))
     /\ UNCHANGED realNums
  \/ /\ reals[a] = NoReal
     /\ realNums = <<>>
     /\ UNCHANGED poolVars

increaseRefCountForReal(a) ==
  \/ /\ reals[a] # NoReal
     /\ reals' = [reals EXCEPT ![a].refCount = @ + 1]
     /\ UNCHANGED <<numToReals, realNums, bpf_reals, bpfFailed>>
  \/ /\ reals[a] = NoReal
     /\ realNums # <<>>
     /\ realNums' = Tail(realNums)
     /\ numToReals' = [numToReals EXCEPT ![Head(realNums)] = a]
     /\ reals' = [reals EXCEPT ![a] = [num |-> Head(realNums), refCount |-> 1]]
     /\ updateRealsMap(a, Head(realNums))
  \/ /\ reals[a] = NoReal
     /\ realNums = <<>>
     /\ UNCHANGED poolVars

\* Mutant: numToReals_ is not erased when the number is recycled.
decreaseNoErase(a) ==
  \/ /\ ~(a \in Addrs /\ reals[a] # NoReal)
     /\ UNCHANGED <<reals, numToReals, realNums>>
  \/ /\ a \in Addrs /\ reals[a] # NoReal /\ reals[a].refCount # 1
     /\ reals' = [reals EXCEPT ![a].refCount = @ - 1]
     /\ UNCHANGED <<numToReals, realNums>>
  \/ /\ a \in Addrs /\ reals[a] # NoReal /\ reals[a].refCount = 1
     /\ realNums' = Append(realNums, reals[a].num)
     /\ reals' = [reals EXCEPT ![a] = NoReal]
     /\ UNCHANGED numToReals

\* Mutant: the number is recycled whatever the count.
decreaseAlwaysRecycles(a) ==
  \/ /\ ~(a \in Addrs /\ reals[a] # NoReal)
     /\ UNCHANGED <<reals, numToReals, realNums>>
  \/ /\ a \in Addrs /\ reals[a] # NoReal
     /\ realNums' = Append(realNums, reals[a].num)
     /\ reals' = [reals EXCEPT ![a] = NoReal]
     /\ numToReals' = [numToReals EXCEPT ![reals[a].num] = NoAddr]

\* The entry of bpf_reals stays behind when a number is recycled.
decreaseRefCountForReal(a) ==
  \/ /\ ~(a \in Addrs /\ reals[a] # NoReal)
     /\ UNCHANGED <<reals, numToReals, realNums>>
  \/ /\ a \in Addrs /\ reals[a] # NoReal /\ reals[a].refCount # 1
     /\ reals' = [reals EXCEPT ![a].refCount = @ - 1]
     /\ UNCHANGED <<numToReals, realNums>>
  \/ /\ a \in Addrs /\ reals[a] # NoReal /\ reals[a].refCount = 1
     /\ realNums' = Append(realNums, reals[a].num)
     /\ reals' = [reals EXCEPT ![a] = NoReal]
     /\ numToReals' = [numToReals EXCEPT ![reals[a].num] = NoAddr]

-----------------------------------------------------------------------------
Free(s) == {s[i] : i \in DOMAIN s}

\* Every number is either on the free FIFO, once, or bound to exactly one
\* address; reals_ and numToReals_ are inverse to each other.
PoolPartition ==
  /\ \A i, j \in DOMAIN realNums : i # j => realNums[i] # realNums[j]
  /\ \A n \in Nums : (n \in Free(realNums)) <=> (numToReals[n] = NoAddr)
  /\ \A a \in Addrs : reals[a] # NoReal =>
       /\ reals[a].num \in Nums
       /\ reals[a].refCount > 0
       /\ numToReals[reals[a].num] = a
  /\ \A n \in Nums : numToReals[n] # NoAddr => reals[numToReals[n]].num = n

=============================================================================
