----------------------------- MODULE EventFifo ------------------------------
(***************************************************************************)
(* What the perf rings promise to their readers: the events that a BPF     *)
(* program submits on a cpu are handed over one by one, each as it was     *)
(* submitted, in the order of the cpu, and none twice.  An event that is   *)
(* not submitted, because the ring is full, does not appear at all.        *)
(***************************************************************************)
EXTENDS Sequences

CONSTANTS Cpus, Events

VARIABLES
  pending,  \* cpu -> events submitted and not handed over
  out       \* cpu and event of the last that was handed over

FifoInit == pending = [c \in Cpus |-> <<>>] /\ out = <<>>

Submit(c, e) == pending' = [pending EXCEPT ![c] = Append(@, e)] /\ UNCHANGED out

HandOver(c) ==
  /\ pending[c] # <<>>
  /\ out' = <<c, Head(pending[c])>>
  /\ pending' = [pending EXCEPT ![c] = Tail(@)]

FifoNext == \E c \in Cpus : HandOver(c) \/ \E e \in Events : Submit(c, e)

FifoSpec == FifoInit /\ [][FifoNext]_<<pending, out>>
=============================================================================
