---------------------------- MODULE Lifecycle ----------------------------
(***************************************************************************)
(* The life of a KatranLb object (katran/lib/KatranLb.cpp): constructor,   *)
(* loadBpfProgs, attachBpfProgs, destructor, with what they leave in the   *)
(* kernel.  A call is the sequence "todo" of its system calls, taken one   *)
(* step at a time; each may fail, and a LOG(FATAL) or a kill may end the   *)
(* process between any two.  Objects follow each other: the next one finds *)
(* what the one before left attached.  A caller that catches an exception  *)
(* may call again; attachBpfProgs is not called once it has succeeded.     *)
(***************************************************************************)
EXTENDS BpfLoader, Affinity

CONSTANTS
  Configs,       \* the KatranConfigs of the server, see KatranConfig
  MaxInstances,  \* bound: objects constructed one after the other
  kMaxForwardingCores,
  ROOT_ARRAY_SIZE,
  MayFail        \* whether system calls can fail and the process can die

VARIABLES
  config,   \* the configuration, the same for every object
  inst,     \* how many objects were constructed
  lb,       \* the object
  todo,     \* the rest of the call in progress
  xdp,      \* the program on the main interface
  arrays,   \* the root arrays: position -> program
  pinned,   \* the root array pinned at rootMapPath, 0 if none
  tc,       \* owners of the egress filters with config.priority
  qdisc,    \* the interface has the clsact qdisc that holds the filters
  entries,  \* what the object wrote in its maps: <<map, key>>
  dirty     \* a kill or a failed detach left programs behind

kernel == <<xdp, arrays, pinned, tc, qdisc>>
lifeVars == <<config, inst, lb, todo, kernel, entries, dirty>>

Forwarding == ~config.disableForwarding

NoKatran == [at |-> "none", loader |-> NewLoader, lrus |-> <<>>, features |-> {},
             progsLoaded |-> FALSE, progsAttached |-> FALSE, rootMapFd |-> 0,
             prepared |-> FALSE, cleanup |-> TRUE]

Step(do, map, arg) == [do |-> do, map |-> map, arg |-> arg]

Skip == <<>>

Throws == <<Step("throw", "", "")>>

Call(name, script) == lb' = [lb EXCEPT !.at = name] /\ todo' = script

\* An exception leaves the call and the object stays.
Throw == lb' = [lb EXCEPT !.at = "idle"] /\ todo' = <<>>

\* LOG(FATAL), or a kill: the process is gone, the kernel keeps what it has.
Die == lb' = NoKatran /\ todo' = <<>> /\ dirty' = TRUE

Doing(do) == todo # <<>> /\ Head(todo).do = do

Next1 == todo' = Tail(todo)

\* What the kernel does with a tc message: it has a priority and no handle,
\* so a new filter is added beside those of the same priority, and a deletion
\* removes all of them.
NetlinkTC(filters, cmd, owner) ==
  IF cmd = "RTM_NEWTFILTER" THEN filters \cup {owner} ELSE {}

(***************************************************************************)
(* Mutants: the LRU of the last core is not attached; a filter that cannot *)
(* be added leaves the main program attached.                              *)
(***************************************************************************)
attachLrusButLast == [i \in 1..(Len(config.cores) - 1) |->
                        Step("bpfUpdateMap", "lru_maps_mapping", config.cores[i])]

addTcNoCleanup ==
  /\ Doing("addTcBpfFilter")
  /\ \/ qdisc /\ tc' = NetlinkTC(tc, "RTM_NEWTFILTER", inst) /\ Next1
     \/ (~qdisc \/ MayFail) /\ todo' = Throws /\ UNCHANGED tc
  /\ UNCHANGED <<config, inst, lb, xdp, arrays, pinned, qdisc, entries, dirty>>

(***************************************************************************)
(* KatranLb::KatranLb                                                      *)
(***************************************************************************)
KatranLb ==
  /\ lb.at = "none" /\ inst < MaxInstances
  /\ inst' = inst + 1 /\ entries' = {}
  /\ \/ config.defaultMac /\ lb' = [NoKatran EXCEPT !.at = "idle"]
     \/ (~config.defaultMac \/ MayFail) /\ UNCHANGED lb   \* invalid_argument
  /\ UNCHANGED <<config, todo, kernel, dirty>>

(***************************************************************************)
(* KatranLb::loadBpfProgs                                                  *)
(***************************************************************************)
initLrus(c) ==
  IF c.cores # <<>> /\ c.numa # <<>> /\ Len(c.numa) # Len(c.cores) THEN Throws
  ELSE [i \in 1..Len(c.cores) |-> Step("createLruMap", "", c.cores[i])]
       \o <<Step("setInnerMapPrototype", "lru_maps_mapping", "")>>

loadBpfProgs ==
  /\ lb.at = "idle"
  /\ Call("load",
       (IF Forwarding THEN initLrus(config) \o <<Step("loadBpfProg", "balancer", "")>>
                      ELSE Skip)
       \o (IF config.enableHc THEN <<Step("loadBpfProg", "healthchecking", "")>>
                              ELSE Skip)
       \o <<Step("initialSanityChecking", "", "")>>)
  /\ UNCHANGED <<config, inst, kernel, entries, dirty>>

createLruMap ==
  /\ Doing("createLruMap")
  /\ LET core == Head(todo).arg IN
     \/ /\ core \in 0..kMaxForwardingCores
        /\ lb' = [lb EXCEPT !.lrus = Put(@, core, <<inst, "katran_lru">>)]
        /\ Next1 /\ UNCHANGED dirty
     \/ (core \notin 0..kMaxForwardingCores \/ MayFail) /\ Die
  /\ UNCHANGED <<config, inst, kernel, entries>>

\* Without forwarding cores a map is created just for the prototype.  The
\* answer to a second prototype for the same map is kError, which the test
\* "res < 0" lets pass.
setPrototype ==
  /\ Doing("setInnerMapPrototype")
  /\ \/ /\ lb' = [lb EXCEPT !.loader = setInnerMapPrototype(@, Head(todo).map,
                      IF config.cores = <<>> THEN <<inst, "katran_lru">>
                                             ELSE lb.lrus[config.cores[1]]).l]
        /\ Next1
     \/ config.cores = <<>> /\ MayFail /\ Throw
  /\ UNCHANGED <<config, inst, kernel, entries, dirty>>

loadBpfProg ==
  /\ Doing("loadBpfProg")
  /\ \E ok \in (IF MayFail THEN BOOLEAN ELSE {TRUE}) :
       LET name == Head(todo).map
           r == loadBpfObject(lb.loader, name, config[name], inst, ok)
       IN IF r.res # kSuccess THEN Throw
          ELSE lb' = [lb EXCEPT !.loader = r.l] /\ Next1
  /\ UNCHANGED <<config, inst, kernel, entries, dirty>>

BalancerMaps == {"ctl_array", "vip_map", "ch_rings", "reals", "stats",
                 "lru_maps_mapping", "quic_mapping"}
HcMaps == {"hc_ctrl_map", "hc_reals_map", "hc_stats_map"}
FeatureMaps == {"lpm_src_v4", "decap_dst", "event_pipe", "pckt_srcs",
                "hc_pckt_srcs_map"}

Missing(l) ==
  \/ Forwarding /\ (getProgFdByName(l, "xdp-balancer") = NoFd
                    \/ \E m \in BalancerMaps : getMapFdByName(l, m) = NoFd)
  \/ config.enableHc /\ (getProgFdByName(l, "cls-hc") = NoFd
                         \/ \E m \in HcMaps : getMapFdByName(l, m) = NoFd)

Write(map, key) == Step("bpfUpdateMap", map, key)

\* The source addresses, IPv4 first; those that are not configured are left.
WriteSrcs(map) ==
  IF config.srcs = {} THEN Throws
  ELSE SelectSeq(<<Write(map, "v4"), Write(map, "v6")>>,
                 LAMBDA s : s.arg \in config.srcs)

setupGueEnvironment == WriteSrcs("pckt_srcs")

enableRecirculation == <<Write("katran_subprograms", "recirculation")>>

setupHcEnvironment ==
  WriteSrcs("hc_pckt_srcs_map") \o
  (IF config.localMac THEN <<Write("hc_pckt_macs", "src"), Write("hc_pckt_macs", "dst")>>
                      ELSE Throws)

attachLrus == [i \in 1..Len(config.cores) |->
                  Write("lru_maps_mapping", config.cores[i])]

\* What follows featureDiscovering, for the features it found.
Setup(features) ==
  (IF Forwarding THEN
     (IF "pckt_srcs" \in features THEN setupGueEnvironment ELSE Skip)
     \o (IF "decap_dst" \in features THEN enableRecirculation ELSE Skip)
     \o <<Write("ctl_array", "mac")>>
   ELSE Skip)
  \o (IF config.enableHc THEN
       <<Write("hc_ctrl_map", "v4tun"), Write("hc_ctrl_map", "v6tun"),
         Write("hc_ctrl_map", "main")>>
       \o (IF "hc_pckt_srcs_map" \in features THEN setupHcEnvironment ELSE Skip)
      ELSE Skip)
  \o <<Step("progsLoaded", "", "")>>
  \o (IF Forwarding /\ "event_pipe" \in features
        THEN <<Step("startIntrospectionRoutines", "", "")>> ELSE Skip)
  \o (IF Forwarding THEN attachLrus ELSE Skip)
  \o <<Step("return", "", "")>>

featureDiscovering == lb.features \cup (FeatureMaps \cap DOMAIN lb.loader.maps)

\* Lookups in the loader, then featureDiscovering.
initialSanityChecking ==
  /\ Doing("initialSanityChecking")
  /\ IF Missing(lb.loader) THEN Throw
     ELSE lb' = [lb EXCEPT !.features = featureDiscovering] /\ todo' = Setup(featureDiscovering)
  /\ UNCHANGED <<config, inst, kernel, entries, dirty>>

\* A write to a map of the objects; a map that is not there has fd -1.
bpfUpdateMap ==
  /\ Doing("bpfUpdateMap")
  /\ LET fd == getMapFdByName(lb.loader, Head(todo).map) IN
     \/ fd # NoFd /\ entries' = entries \cup {<<fd, Head(todo).arg>>}
        /\ Next1 /\ UNCHANGED lb
     \/ (fd = NoFd \/ MayFail) /\ Throw /\ UNCHANGED entries
  /\ UNCHANGED <<config, inst, kernel, dirty>>

\* progsLoaded_ = true, before the introspection and the LRUs.
progsLoaded ==
  /\ Doing("progsLoaded")
  /\ lb' = [lb EXCEPT !.progsLoaded = TRUE] /\ Next1
  /\ UNCHANGED <<config, inst, kernel, entries, dirty>>

\* The constructor of KatranMonitor throws when no reader could be opened.
startIntrospectionRoutines ==
  /\ Doing("startIntrospectionRoutines")
  /\ (Next1 /\ UNCHANGED lb) \/ (MayFail /\ Throw)
  /\ UNCHANGED <<config, inst, kernel, entries, dirty>>

loadReturns ==
  /\ Doing("return") /\ lb.at = "load"
  /\ lb' = [lb EXCEPT !.at = "idle", !.prepared = TRUE] /\ todo' = <<>>
  /\ UNCHANGED <<config, inst, kernel, entries, dirty>>

throws ==
  /\ Doing("throw") /\ Throw
  /\ UNCHANGED <<config, inst, kernel, entries, dirty>>

(***************************************************************************)
(* KatranLb::attachBpfProgs and ~KatranLb                                  *)
(***************************************************************************)
MainFd == getProgFdByName(lb.loader, "xdp-balancer")

attachBpfProgs ==
  /\ lb.at = "idle" /\ lb.progsLoaded /\ ~lb.progsAttached
  /\ Call("attach",
       (IF config.standalone THEN <<Step("modifyXdpProg", "", "")>>
        ELSE IF Forwarding THEN <<Step("registerInRoot", "", "")>> ELSE Skip)
       \o (IF config.enableHc THEN <<Step("addClsActQD", "", ""), Step("addTcBpfFilter", "", "")>>
                              ELSE Skip)
       \o <<Step("return", "", "")>>)
  /\ UNCHANGED <<config, inst, kernel, entries, dirty>>

\* With forwarding disabled the program is fd -1: whatever is on the
\* interface is detached.
modifyXdpProg ==
  /\ Doing("modifyXdpProg")
  /\ \/ xdp' = MainFd /\ Next1 /\ UNCHANGED lb
     \/ MayFail /\ Throw /\ UNCHANGED xdp
  /\ UNCHANGED <<config, inst, arrays, pinned, tc, qdisc, entries, dirty>>

registerInRoot ==
  /\ Doing("registerInRoot")
  /\ \/ /\ pinned # 0 /\ config.rootMapPos \in DOMAIN arrays[pinned]
        /\ arrays' = [arrays EXCEPT ![pinned][config.rootMapPos] = MainFd]
        /\ lb' = [lb EXCEPT !.rootMapFd = pinned] /\ Next1
     \/ pinned = 0 /\ Throw /\ UNCHANGED arrays
     \/ /\ pinned # 0 /\ (MayFail \/ config.rootMapPos \notin DOMAIN arrays[pinned])
        /\ lb' = [lb EXCEPT !.at = "idle", !.rootMapFd = pinned]
        /\ todo' = <<>> /\ UNCHANGED arrays
  /\ UNCHANGED <<config, inst, xdp, pinned, tc, qdisc, entries, dirty>>

\* The qdisc is created exclusively; addTcBpfFilter ignores the answer, which
\* is an error whenever an earlier object has created it.
addClsActQD ==
  /\ Doing("addClsActQD") /\ Next1
  /\ qdisc' = TRUE \/ (MayFail /\ UNCHANGED qdisc)
  /\ UNCHANGED <<config, inst, lb, xdp, arrays, pinned, tc, entries, dirty>>

\* When the filter cannot be added the main program is taken back, and the
\* results of that are not looked at.
addTcBpfFilter ==
  /\ Doing("addTcBpfFilter")
  /\ \/ qdisc /\ tc' = NetlinkTC(tc, "RTM_NEWTFILTER", inst) /\ Next1
     \/ (~qdisc \/ MayFail) /\ todo' = <<Step("detachMain", "", "")>> \o Throws /\ UNCHANGED tc
  /\ UNCHANGED <<config, inst, lb, xdp, arrays, pinned, qdisc, entries, dirty>>

attachReturns ==
  /\ Doing("return") /\ lb.at = "attach"
  /\ lb' = [lb EXCEPT !.at = "idle", !.progsAttached = TRUE] /\ todo' = <<>>
  /\ UNCHANGED <<config, inst, kernel, entries, dirty>>

\* The destructor: only an object that is attached detaches.
DestroyKatranLb ==
  /\ lb.at = "idle"
  /\ IF lb.progsAttached
       THEN /\ lb' = [lb EXCEPT !.at = "destroy", !.cleanup = TRUE]
            /\ todo' = <<Step("detachMain", "", "")>>
                 \o (IF config.enableHc THEN <<Step("deleteTcBpfFilter", "", "")>> ELSE Skip)
                 \o <<Step("return", "", "")>>
       ELSE lb' = NoKatran /\ UNCHANGED todo
  /\ UNCHANGED <<config, inst, kernel, entries, dirty>>

Failed == lb' = [lb EXCEPT !.cleanup = FALSE] /\ dirty' = TRUE

InRoot ==
  /\ lb.rootMapFd # 0 /\ config.rootMapPos \in DOMAIN arrays[lb.rootMapFd]
  /\ arrays[lb.rootMapFd][config.rootMapPos] # NoFd

\* detachXdpProg, or bpfMapDeleteElement(rootMapFd_, rootMapPos).  An empty
\* position of the array, and a rootMapFd_ that was never assigned (shared
\* mode without forwarding), make the deletion fail.
detachMain ==
  /\ Doing("detachMain") /\ Next1
  /\ \/ /\ config.standalone
        /\ xdp' = NoFd /\ UNCHANGED <<arrays, lb, dirty>>
     \/ /\ ~config.standalone /\ InRoot
        /\ arrays' = [arrays EXCEPT ![lb.rootMapFd][config.rootMapPos] = NoFd]
        /\ UNCHANGED <<xdp, lb, dirty>>
     \/ /\ MayFail \/ (~config.standalone /\ ~InRoot)
        /\ Failed /\ UNCHANGED <<xdp, arrays>>
  /\ UNCHANGED <<config, inst, pinned, tc, qdisc, entries>>

deleteTcBpfFilter ==
  /\ Doing("deleteTcBpfFilter") /\ Next1
  /\ \/ tc # {} /\ tc' = NetlinkTC(tc, "RTM_DELTFILTER", inst) /\ UNCHANGED <<lb, dirty>>
     \/ (tc = {} \/ MayFail) /\ Failed /\ UNCHANGED tc
  /\ UNCHANGED <<config, inst, xdp, arrays, pinned, qdisc, entries>>

destroyed ==
  /\ Doing("return") /\ lb.at = "destroy"
  /\ lb' = NoKatran /\ todo' = <<>> /\ dirty' = ~lb.cleanup
  /\ UNCHANGED <<config, inst, kernel, entries>>

\* A kill at any point.
killed ==
  /\ MayFail /\ lb.at # "none" /\ Die
  /\ UNCHANGED <<config, inst, kernel, entries>>

LifeNext ==
  \/ KatranLb \/ loadBpfProgs \/ createLruMap \/ setPrototype \/ loadBpfProg
  \/ initialSanityChecking \/ bpfUpdateMap \/ progsLoaded
  \/ startIntrospectionRoutines \/ loadReturns \/ throws
  \/ attachBpfProgs \/ modifyXdpProg \/ registerInRoot \/ addClsActQD
  \/ addTcBpfFilter \/ attachReturns \/ DestroyKatranLb \/ detachMain \/ deleteTcBpfFilter
  \/ destroyed \/ killed

LifeInit ==
  /\ config \in Configs /\ inst = 0 /\ lb = NoKatran /\ todo = <<>>
  /\ tc = {} /\ qdisc = FALSE /\ entries = {} /\ dirty = FALSE
==========================================================================
