----------------------------- MODULE XdpChain -----------------------------
(***************************************************************************)
(* The programs that share an interface with katran in "shared" mode: the  *)
(* root program and its array, installed by the tool xdproot               *)
(* (katran/lib/xdproot.cpp, bpf/xdp_root.c), the tracer xdpdump at         *)
(* position 0 (tools/xdpdump) and the decapsulator XdpDecap                *)
(* (katran/decap/XdpDecap.cpp).  Each is a process of its own beside the   *)
(* KatranLb object of module Lifecycle.                                    *)
(***************************************************************************)
EXTENDS Lifecycle

CONSTANTS
  MaxRootRuns,   \* bound: runs of xdproot
  MaxToolRuns,   \* bound: runs of xdpdump and of XdpDecap
  DecapPos       \* XdpDecapConfig.progPos

VARIABLES
  rootTool,  \* the running xdproot
  rootOk,    \* the last run of xdproot came to its end
  dump,      \* xdpdump
  decap,     \* XdpDecap
  toolRuns   \* runs of the three tools so far

tools == <<rootTool, rootOk, dump, decap, toolRuns>>
vars == <<lifeVars, tools>>

kMapPos == 0

DumpProg == <<0, "xdpdump">>
DecapProg == <<0, "xdp-decap">>

EmptyArray == [p \in 0..(ROOT_ARRAY_SIZE - 1) |-> NoFd]

NoRootTool == [at |-> "off", array |-> 0, shared |-> FALSE]
NoTool == [at |-> "off", fd |-> 0, clean |-> TRUE]

(***************************************************************************)
(* Mutants: xdproot that does not share the pinned array; xdpdump without  *)
(* its tail calls.                                                         *)
(***************************************************************************)
RootLoadFresh(ok) ==
  loadBpfObject(NewLoader, "xdp_root.o", BpfObject({"xdp-root"}, {"root_array"}),
                Len(arrays) + 1, ok)

xdpdumpNextNone(a) == NoFd

(***************************************************************************)
(* xdproot: main                                                           *)
(***************************************************************************)
RootObject == BpfObject({"xdp-root"}, {"root_array"})

\* The array of a new xdp-root: the pinned one when there is one.
RootLoad(ok) ==
  loadBpfObject(IF pinned # 0
                  THEN updateSharedMap(NewLoader, "root_array", <<pinned, "root_array">>).l
                  ELSE NewLoader,
                "xdp_root.o", RootObject, Len(arrays) + 1, ok)

xdproot ==
  /\ ~config.standalone /\ rootTool.at = "off" /\ toolRuns.root < MaxRootRuns
  /\ toolRuns' = [toolRuns EXCEPT !.root = @ + 1]
  /\ \E ok \in (IF MayFail THEN BOOLEAN ELSE {TRUE}) :
       LET r == RootLoad(ok)
           id == getMapFdByName(r.l, "root_array")[1]
       IN IF r.res # kSuccess
            THEN UNCHANGED <<rootTool, arrays, rootOk>>
            ELSE /\ rootTool' = [at |-> "detach", array |-> id, shared |-> pinned # 0]
                 /\ arrays' = IF pinned # 0 THEN arrays ELSE Append(arrays, EmptyArray)
                 /\ rootOk' = FALSE
  /\ UNCHANGED <<config, inst, lb, todo, xdp, pinned, tc, qdisc, entries, dirty, dump, decap>>

\* The three steps of main that change the kernel; a failure returns 1.
RootStep(from, to, effect, unchanged) ==
  /\ rootTool.at = from
  /\ \/ effect /\ rootTool' = [rootTool EXCEPT !.at = to] /\ rootOk' = (to = "off")
     \/ MayFail /\ rootTool' = NoRootTool /\ unchanged /\ UNCHANGED rootOk
  /\ UNCHANGED <<config, inst, lb, todo, arrays, tc, qdisc, entries, dirty, dump, decap, toolRuns>>

rootDetach == RootStep("detach", "attach", xdp' = NoFd, UNCHANGED xdp) /\ UNCHANGED pinned

rootAttach ==
  /\ RootStep("attach", IF rootTool.shared THEN "off" ELSE "pin",
              xdp' = <<rootTool.array, "xdp-root">>, UNCHANGED xdp)
  /\ UNCHANGED pinned

rootPin ==
  /\ RootStep("pin", "off", pinned' = rootTool.array, UNCHANGED pinned)
  /\ UNCHANGED xdp

(***************************************************************************)
(* xdpdump and XdpDecap: get the pinned array, register, unregister.       *)
(***************************************************************************)
ToolUnchanged == UNCHANGED <<config, inst, lb, todo, xdp, pinned, tc, qdisc, entries,
                             dirty, rootTool, rootOk>>

Registered(fd, pos, prog) == arrays' = [arrays EXCEPT ![fd][pos] = prog]

\* XdpDump::run up to attach; what it does in between is module XdpDump.
dumpAttach ==
  /\ dump.at = "off" /\ pinned # 0 /\ toolRuns.dump < MaxToolRuns
  /\ toolRuns' = [toolRuns EXCEPT !.dump = @ + 1]
  /\ Registered(pinned, kMapPos, DumpProg)
  /\ dump' = [at |-> "on", fd |-> pinned, clean |-> FALSE]
  /\ ToolUnchanged /\ UNCHANGED decap

dumpDetach ==
  /\ dump.at = "on"
  /\ \/ /\ arrays[dump.fd][kMapPos] # NoFd
        /\ Registered(dump.fd, kMapPos, NoFd) /\ dump' = NoTool
     \/ /\ MayFail \/ arrays[dump.fd][kMapPos] = NoFd
        /\ UNCHANGED arrays /\ dump' = [dump EXCEPT !.at = "off"]
  /\ ToolUnchanged /\ UNCHANGED <<decap, toolRuns>>

\* xdpdump --clear, for what a killed xdpdump left.
dumpClear ==
  /\ dump.at = "off" /\ ~dump.clean /\ pinned # 0 /\ arrays[pinned][kMapPos] # NoFd
  /\ Registered(pinned, kMapPos, NoFd) /\ dump' = NoTool
  /\ ToolUnchanged /\ UNCHANGED <<decap, toolRuns>>

dumpKilled ==
  /\ MayFail /\ dump.at = "on" /\ dump' = [dump EXCEPT !.at = "off"]
  /\ ToolUnchanged /\ UNCHANGED <<arrays, decap, toolRuns>>

\* loadXdpDecap and attachXdpDecap; each of their failures is LOG(FATAL).
attachXdpDecap ==
  /\ decap.at = "off" /\ pinned # 0 /\ toolRuns.decap < MaxToolRuns
  /\ toolRuns' = [toolRuns EXCEPT !.decap = @ + 1]
  /\ Registered(pinned, DecapPos, DecapProg)
  /\ decap' = [at |-> "on", fd |-> pinned, clean |-> FALSE]
  /\ ToolUnchanged /\ UNCHANGED dump

\* ~XdpDecap gets the array again by its path.
DestroyXdpDecap(detachOnExit) ==
  /\ decap.at = "on"
  /\ \/ /\ detachOnExit /\ arrays[pinned][DecapPos] # NoFd
        /\ Registered(pinned, DecapPos, NoFd) /\ decap' = NoTool
     \/ /\ ~detachOnExit \/ MayFail
        /\ UNCHANGED arrays /\ decap' = [decap EXCEPT !.at = "off"]
  /\ ToolUnchanged /\ UNCHANGED <<dump, toolRuns>>

(***************************************************************************)
(* The programs a packet runs: xdp_root tail-calls the positions in order, *)
(* the first program there does not return, and xdpdump tail-calls the     *)
(* positions after its own.                                                *)
(***************************************************************************)
FirstFrom(a, from) ==
  LET used == {p \in DOMAIN a : p >= from /\ a[p] # NoFd}
  IN IF used = {} THEN NoFd
     ELSE a[CHOOSE p \in used : \A q \in used : p <= q]

xdp_root(a) == FirstFrom(a, 0)

xdpdumpNext(a) == FirstFrom(a, kMapPos + 1)

PacketRuns ==
  IF xdp = NoFd \/ xdp[2] # "xdp-root" THEN {xdp}
  ELSE LET a == arrays[xdp[1]]
       IN IF xdp_root(a) = DumpProg THEN {DumpProg, xdpdumpNext(a)} ELSE {xdp_root(a)}

(***************************************************************************)
(* The specification                                                       *)
(***************************************************************************)
Init ==
  /\ LifeInit
  /\ xdp = NoFd /\ arrays = <<>> /\ pinned = 0
  /\ rootTool = NoRootTool /\ rootOk = FALSE
  /\ dump = NoTool /\ decap = NoTool
  /\ toolRuns = [root |-> 0, dump |-> 0, decap |-> 0]

ToolsNext ==
  \/ xdproot \/ rootDetach \/ rootAttach \/ rootPin
  \/ dumpAttach \/ dumpDetach \/ dumpClear \/ dumpKilled
  \/ attachXdpDecap \/ \E d \in BOOLEAN : DestroyXdpDecap(d)

Next == (LifeNext /\ UNCHANGED tools) \/ ToolsNext

Spec == Init /\ [][Next]_vars
-----------------------------------------------------------------------------
Calls == {"none", "idle", "load", "attach", "destroy"}

\* Type correctness of the object, the kernel's attachment points and the
\* tools: a call in progress has steps left exactly while it runs.
TypeOK ==
  /\ lb.at \in Calls /\ (todo # <<>> <=> lb.at \in {"load", "attach", "destroy"})
  /\ lb.progsAttached => lb.progsLoaded
  /\ pinned \in 0..Len(arrays) /\ tc \subseteq 1..inst
  /\ \A i \in 1..Len(arrays) : DOMAIN arrays[i] = 0..(ROOT_ARRAY_SIZE - 1)

\* What there is of katran in the kernel, of this object or of earlier ones.
KatranProg(fd) == fd # NoFd /\ fd[2] = "xdp-balancer"

Attached ==
  \/ KatranProg(xdp) \/ tc # {}
  \/ \E i \in 1..Len(arrays) : \E p \in DOMAIN arrays[i] : KatranProg(arrays[i][p])

\* When no call is in progress and the object, if there is one, does not
\* count as attached, nothing of katran is left in the kernel: attachBpfProgs
\* that throws has taken back what it had done, and the destructor removes
\* everything, also what an object before it left when its process was
\* killed.  Excepted: a kill, or a detach that failed, and no object was
\* attached and destroyed since.
GoneWhenDetached ==
  lb.at \in {"none", "idle"} /\ ~lb.progsAttached /\ ~dirty => ~Attached

\* The entries the programs need, by what was configured and loaded.
Needed ==
  LET W(map, keys) == {<<<<inst, map>>, k>> : k \in keys}
      has(map) == map \in DOMAIN lb.loader.maps
  IN (IF Forwarding
        THEN W("ctl_array", {"mac"}) \cup W("lru_maps_mapping", config.irqCpus)
             \cup (IF has("pckt_srcs") THEN W("pckt_srcs", config.srcs) ELSE {})
             \cup (IF has("decap_dst") THEN W("katran_subprograms", {"recirculation"}) ELSE {})
        ELSE {})
     \cup
     (IF config.enableHc
        THEN W("hc_ctrl_map", {"v4tun", "v6tun", "main"})
             \cup (IF has("hc_pckt_srcs_map")
                     THEN W("hc_pckt_srcs_map", config.srcs) \cup W("hc_pckt_macs", {"src", "dst"})
                     ELSE {})
        ELSE {})

\* The programs of an object whose loadBpfProgs returned find their maps set
\* up when they are attached: the MAC of the gateway, the addresses they
\* encapsulate with, their own entry for the recirculation after an inline
\* decapsulation, the tunnel interfaces of the health checks, and a
\* connection table for every cpu start_katran sends an interrupt of the
\* interface to.
AttachedIsPrepared ==
  lb.prepared /\ (xdp = <<inst, "xdp-balancer">> \/ lb.progsAttached)
    => Needed \subseteq entries

\* After a complete run of xdproot the program on the interface uses the
\* array that is pinned, the one katran and the tools register in: a second
\* run keeps those that are registered.
RootUsesPinned ==
  ~config.standalone /\ rootTool.at = "off" /\ rootOk
    => pinned # 0 /\ xdp = <<pinned, "xdp-root">>

\* Packets of the interface run the balancer of the object that is attached:
\* nothing xdpdump, a crash of it, or an earlier object left is in the way.
\* In shared mode: once xdproot is through and with no other program at a
\* position before katran's.
KatranSeesPackets ==
  /\ lb.at = "idle" /\ lb.progsAttached /\ Forwarding
  /\ ~config.standalone =>
       /\ rootTool.at = "off" /\ rootOk
       /\ \A p \in 0..(config.rootMapPos - 1) : arrays[pinned][p] \in {NoFd, DumpProg}
  => MainFd \in PacketRuns

\* xdpdump and XdpDecap that ended normally, or were cleared, are out of the
\* array.
ToolsGone ==
  \A i \in 1..Len(arrays) :
     /\ dump.at = "off" /\ dump.clean => arrays[i][kMapPos] # DumpProg
     /\ decap.at = "off" /\ decap.clean => arrays[i][DecapPos] # DecapProg

\* What is destroyed, has failed to attach, or has ended leaves nothing: neither
\* KatranLb, by attachBpfProgs and its destructor, nor the tools.
NothingStays == TypeOK /\ GoneWhenDetached /\ ToolsGone
==========================================================================
