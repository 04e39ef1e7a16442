----------------------------- MODULE RealNames ------------------------------
(***************************************************************************)
(* What the control plane promises about the numbers of reals, without     *)
(* reference counts, FIFOs or calls.  Users (VIPs, source routing rules,   *)
(* QUIC mappings) hold numbers; a number names at most one address, an     *)
(* address has at most one number, and a number that somebody holds keeps  *)
(* the address it had when it was taken.                                   *)
(***************************************************************************)
CONSTANTS
  Names,    \* the numbers
  Targets,  \* the addresses
  NoTarget, \* the number is free
  Users     \* those who may hold numbers

VARIABLES
  target,   \* number -> address
  held      \* pairs of a user and a number

nameVars == <<target, held>>

NamesInit ==
  /\ target = [n \in Names |-> NoTarget]
  /\ held = {}

\* User u takes a number for address a: the number that a has already, or any
\* free one.  It may give up a number it held before.
Acquire(u, n, a) ==
  /\ \/ target[n] = a /\ UNCHANGED target
     \/ /\ target[n] = NoTarget
        /\ \A m \in Names : target[m] # a
        /\ target' = [target EXCEPT ![n] = a]
  /\ \E m \in Names : held' = (held \ {<<u, m>>}) \cup {<<u, n>>}

\* User u gives up a number, which may become free if nobody else holds it.
Release(u, n) ==
  /\ <<u, n>> \in held
  /\ held' = held \ {<<u, n>>}
  /\ \/ UNCHANGED target
     \/ /\ \A v \in Users : <<v, n>> \notin held'
        /\ target' = [target EXCEPT ![n] = NoTarget]

\* A number that nobody holds may become free.
Reclaim(n) ==
  /\ \A v \in Users : <<v, n>> \notin held
  /\ target' = [target EXCEPT ![n] = NoTarget]
  /\ UNCHANGED held

NamesNext ==
  \/ \E u \in Users, n \in Names, a \in Targets : Acquire(u, n, a)
  \/ \E u \in Users, n \in Names : Release(u, n)
  \/ \E n \in Names : Reclaim(n)

NamesSpec == NamesInit /\ [][NamesNext]_nameVars

=============================================================================
