---------------------------- MODULE BpfLoader ----------------------------
(***************************************************************************)
(* The bookkeeping of class BpfLoader (katran/lib/BpfLoader.cpp): which    *)
(* programs and maps of which object files were loaded, which maps come    *)
(* from elsewhere (shared) and which prototypes the maps of maps use.  A   *)
(* loader is a record and every method an operator from the loader before  *)
(* the call to the result and the loader after it.  A file descriptor is   *)
(* the pair of what created it and a name; NoFd is the code's -1.          *)
(***************************************************************************)
EXTENDS Integers, Sequences, FiniteSets, Functions

NoFd == <<>>

kSuccess == 0

kError == 1

kNotExists == -1

\* An object file: the programs and the maps it defines.
BpfObject(progs, maps) == [progs |-> progs, maps |-> maps]

NewLoader == [progs |-> <<>>, maps |-> <<>>, sharedMaps |-> <<>>,
              innerMapsProto |-> <<>>, objects |-> {}]

Put(f, key, value) ==
  [k \in DOMAIN f \cup {key} |-> IF k = key THEN value ELSE f[k]]

getMapFdByName(l, name) ==
  IF name \in DOMAIN l.maps THEN l.maps[name] ELSE NoFd

getProgFdByName(l, name) ==
  IF name \in DOMAIN l.progs THEN l.progs[name] ELSE NoFd

\* The names of the shared maps are short enough for the check of their size.
updateSharedMap(l, name, fd) ==
  IF name \in DOMAIN l.sharedMaps
    THEN [res |-> kNotExists, l |-> l]
    ELSE [res |-> kSuccess, l |-> [l EXCEPT !.sharedMaps = Put(@, name, fd)]]

setInnerMapPrototype(l, name, fd) ==
  IF name \in DOMAIN l.innerMapsProto
    THEN [res |-> kError, l |-> l]
    ELSE [res |-> kSuccess, l |-> [l EXCEPT !.innerMapsProto = Put(@, name, fd)]]

\* What loadBpfObject refuses before the kernel sees the object.  A map that
\* is shared is not compared with the maps loaded so far.
Collides(l, name, obj) ==
  \/ name \in l.objects
  \/ obj.progs \cap DOMAIN l.progs # {}
  \/ (obj.maps \ DOMAIN l.sharedMaps) \cap DOMAIN l.maps # {}

\* The bookkeeping after a load: owner tells apart the programs and maps of
\* different loads of the same file.
Loaded(l, name, obj, owner) ==
  [l EXCEPT
    !.progs = [p \in DOMAIN @ \cup obj.progs |->
                 IF p \in obj.progs THEN <<owner, p>> ELSE @[p]],
    !.maps = [m \in DOMAIN @ \cup obj.maps |->
                IF m \notin obj.maps THEN @[m]
                ELSE IF m \in DOMAIN l.sharedMaps THEN l.sharedMaps[m]
                ELSE <<owner, m>>],
    !.objects = @ \cup {name}]

\* ok: the answers of libbpf and the kernel to reuse_fd, set_inner_map_fd and
\* load.  Every failure closes the object and leaves the bookkeeping alone.
loadBpfObject(l, name, obj, owner, ok) ==
  IF Collides(l, name, obj) \/ ~ok
    THEN [res |-> kError, l |-> l]
    ELSE [res |-> kSuccess, l |-> Loaded(l, name, obj, owner)]
==========================================================================
