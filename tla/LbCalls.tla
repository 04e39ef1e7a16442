------------------------------ MODULE LbCalls -------------------------------
(***************************************************************************)
(* The calls of KatranLb about the arrays beside the VIP tables: the MAC   *)
(* address of the gateway, the sources of encapsulated packets, the        *)
(* destinations of inline decapsulation, those of health checks, and the   *)
(* counters; and, with the copies that KatranLb has of them only, VIPs and *)
(* QUIC mappings, whose BPF maps are in modules VipTable and QuicReals.  A *)
(* call is in progress in variable call; each bpf() system call is a step  *)
(* and may fail.                                                           *)
(***************************************************************************)
EXTENDS Integers, Sequences, FiniteSets

CONSTANTS
  Macs,         \* MAC addresses
  BadMac,       \* what is not 6 bytes long
  Addrs,        \* addresses of hosts, [v6, a]
  BadAddr,      \* what is not an address, [v6, a]
  Marks,        \* marks of health check packets
  VipKeys,      \* VIPs, of valid addresses
  maxVips, maxReals, maxDecapDst,
  CounterLimit, \* counters are modulo this
  BpfMayFail    \* whether a bpf() system call may fail

ASSUME LbCallsAssumption ==
  /\ {maxVips, maxReals, maxDecapDst, CounterLimit} \subseteq Nat \ {0}
  /\ BadMac \notin Macs /\ BadAddr \notin Addrs
  /\ BpfMayFail \in BOOLEAN

VARIABLES
  config,            \* enableHc, disableForwarding; features_ in use
  call,              \* the call in progress
  ctlValues, ctl_array, hc_pckt_macs,      \* MAC: own copy, BPF maps
  hc_pckt_srcs_map, pckt_srcs,             \* sources, by family
  decapDsts, decap_dst,                    \* own copy, BPF map
  hcReals, hc_reals_map,                   \* own copy, BPF map
  vips, vipNums,                           \* VIPs by key, free numbers
  quicMapping,                             \* own copy: address -> id
  stats,                                   \* BPF map: counters by position
  bpfFailed                                \* history: a system call failed

macVars == <<ctlValues, ctl_array, hc_pckt_macs>>
srcVars == <<hc_pckt_srcs_map, pckt_srcs>>
decapVars == <<decapDsts, decap_dst>>
hcVars == <<hcReals, hc_reals_map>>
vipVars == <<vips, vipNums, quicMapping>>
lbVars == <<config, call, macVars, srcVars, decapVars, hcVars, vipVars, stats, bpfFailed>>

NoCall == [at |-> "none"]

Put(f, k, x) == [j \in DOMAIN f \cup {k} |-> IF j = k THEN x ELSE f[j]]
Without(f, k) == [j \in DOMAIN f \ {k} |-> f[j]]

\* A call starts; it ends with a result, which the caller takes.
Begin(req) == call' = [at |-> req.do, req |-> req]
Returns(ok, val) == call' = [at |-> "returned", req |-> call.req, ok |-> ok, val |-> val]
At(step) == call.at = step

\* A system call, with its outcome.
Syscall(ok) ==
  /\ ok \/ (BpfMayFail /\ ~bpfFailed)
  /\ bpfFailed' = (bpfFailed \/ ~ok)

validateAddress(addr) == addr # BadAddr

-----------------------------------------------------------------------------
(* The MAC address.                                                        *)

\* Mutant: the copy is not updated when health checks use no MAC.
changeMacMapOnly ==
  /\ At("changeMac") /\ call.req.mac # BadMac
  /\ ctlValues' = IF config.direct THEN call.req.mac ELSE ctlValues
  /\ Syscall(TRUE) /\ ctl_array' = call.req.mac
  /\ IF config.direct THEN call' = [call EXCEPT !.at = "changeMac_hc"] ELSE Returns(TRUE, {})
  /\ UNCHANGED <<config, hc_pckt_macs, srcVars, decapVars, hcVars, vipVars, stats>>

\* The own copy first, then ctl_array and hc_pckt_macs.
changeMac ==
  /\ At("changeMac")
  /\ \/ call.req.mac = BadMac /\ Returns(FALSE, {}) /\ UNCHANGED <<macVars, bpfFailed>>
     \/ /\ call.req.mac # BadMac
        /\ ctlValues' = call.req.mac
        /\ \E ok \in BOOLEAN :
             /\ IF config.disableForwarding THEN ok /\ UNCHANGED <<ctl_array, bpfFailed>>
                ELSE Syscall(ok) /\ ctl_array' = IF ok THEN call.req.mac ELSE ctl_array
             /\ IF ok /\ config.direct THEN call' = [call EXCEPT !.at = "changeMac_hc"]
                ELSE Returns(ok, {})
        /\ UNCHANGED hc_pckt_macs
  /\ UNCHANGED <<config, srcVars, decapVars, hcVars, vipVars, stats>>

changeMac_hc ==
  /\ At("changeMac_hc")
  /\ \E ok \in BOOLEAN : /\ Syscall(ok) /\ Returns(ok, {})
                         /\ hc_pckt_macs' = IF ok THEN ctlValues ELSE hc_pckt_macs
  /\ UNCHANGED <<config, ctlValues, ctl_array, srcVars, decapVars, hcVars, vipVars, stats>>

-----------------------------------------------------------------------------
(* Sources of encapsulated packets.                                        *)

addSrcIpForPcktEncap ==
  /\ At("addSrcIpForPcktEncap")
  /\ \E ok \in BOOLEAN :
       /\ Syscall(ok)
       /\ hc_pckt_srcs_map' = IF ok THEN [hc_pckt_srcs_map EXCEPT ![call.req.src.v6] = call.req.src]
                              ELSE hc_pckt_srcs_map
       /\ IF ok /\ ~config.disableForwarding
          THEN call' = [call EXCEPT !.at = "addSrcIpForPcktEncap_fwd"] ELSE Returns(ok, {})
  /\ UNCHANGED <<config, macVars, pckt_srcs, decapVars, hcVars, vipVars, stats>>

addSrcIpForPcktEncap_fwd ==
  /\ At("addSrcIpForPcktEncap_fwd")
  /\ \E ok \in BOOLEAN :
       /\ Syscall(ok) /\ Returns(ok, {})
       /\ pckt_srcs' = IF ok THEN [pckt_srcs EXCEPT ![call.req.src.v6] = call.req.src] ELSE pckt_srcs
  /\ UNCHANGED <<config, macVars, hc_pckt_srcs_map, decapVars, hcVars, vipVars, stats>>

-----------------------------------------------------------------------------
(* Destinations of inline decapsulation.  The failure of modifyDecapDst is *)
(* not looked at.                                                          *)

NoDecap == config.disableForwarding \/ ~config.inlineDecap \/ ~validateAddress(call.req.dst)

modifyDecapDst(dsts) ==
  \E ok \in BOOLEAN : Syscall(ok) /\ decap_dst' = IF ok THEN dsts ELSE decap_dst

addInlineDecapDst ==
  /\ At("addInlineDecapDst")
  /\ \/ /\ NoDecap \/ call.req.dst \in decapDsts \/ Cardinality(decapDsts) + 1 > maxDecapDst
        /\ Returns(FALSE, {}) /\ UNCHANGED <<decapVars, bpfFailed>>
     \/ /\ ~NoDecap /\ call.req.dst \notin decapDsts /\ Cardinality(decapDsts) + 1 <= maxDecapDst
        /\ decapDsts' = decapDsts \cup {call.req.dst}
        /\ modifyDecapDst(decap_dst \cup {call.req.dst})
        /\ Returns(TRUE, {})
  /\ UNCHANGED <<config, macVars, srcVars, hcVars, vipVars, stats>>

delInlineDecapDst ==
  /\ At("delInlineDecapDst")
  /\ \/ /\ NoDecap \/ call.req.dst \notin decapDsts
        /\ Returns(FALSE, {}) /\ UNCHANGED <<decapVars, bpfFailed>>
     \/ /\ ~NoDecap /\ call.req.dst \in decapDsts
        /\ decapDsts' = decapDsts \ {call.req.dst}
        /\ modifyDecapDst(decap_dst \ {call.req.dst})
        /\ Returns(TRUE, {})
  /\ UNCHANGED <<config, macVars, srcVars, hcVars, vipVars, stats>>

-----------------------------------------------------------------------------
(* Health checks.  An IPv4 address is in host order for a tunnel device.   *)

HcReal(dst) == [addr |-> dst, hostOrder |-> ~dst.v6 /\ ~config.direct]

\* The map first, then the own copy.
addHealthcheckerDst ==
  /\ At("addHealthcheckerDst")
  /\ LET full == call.req.mark \notin DOMAIN hcReals /\ Cardinality(DOMAIN hcReals) = maxReals
         refused == ~config.hc \/ ~validateAddress(call.req.dst) \/ full
     IN
     \/ refused /\ Returns(FALSE, {}) /\ UNCHANGED <<hcVars, bpfFailed>>
     \/ /\ ~refused
        /\ \E ok \in BOOLEAN :
             /\ Syscall(ok) /\ Returns(ok, {})
             /\ IF ok THEN /\ hc_reals_map' = Put(hc_reals_map, call.req.mark, HcReal(call.req.dst))
                           /\ hcReals' = Put(hcReals, call.req.mark, call.req.dst)
                ELSE UNCHANGED hcVars
  /\ UNCHANGED <<config, macVars, srcVars, decapVars, vipVars, stats>>

delHealthcheckerDst ==
  /\ At("delHealthcheckerDst")
  /\ LET refused == ~config.hc \/ call.req.mark \notin DOMAIN hcReals IN
     \/ refused /\ Returns(FALSE, {}) /\ UNCHANGED <<hcVars, bpfFailed>>
     \/ /\ ~refused
        /\ \E ok \in BOOLEAN :
             /\ Syscall(ok) /\ Returns(ok, {})
             /\ IF ok THEN /\ hc_reals_map' = Without(hc_reals_map, call.req.mark)
                           /\ hcReals' = Without(hcReals, call.req.mark)
                ELSE UNCHANGED hcVars
  /\ UNCHANGED <<config, macVars, srcVars, decapVars, vipVars, stats>>

-----------------------------------------------------------------------------
(* VIPs and counters.  The counters of a number are not reset.  What       *)
(* updateVipMap and the update of quic_mapping return is not looked at;    *)
(* the numbers of reals and their limit are in module VipTable.            *)

addVip ==
  /\ At("addVip")
  /\ LET refused == config.disableForwarding \/ call.req.vip \in DOMAIN vips \/ vipNums = <<>> IN
     \/ refused /\ Returns(FALSE, {}) /\ UNCHANGED vipVars
     \/ /\ ~refused /\ Returns(TRUE, {})
        /\ vips' = Put(vips, call.req.vip, [num |-> Head(vipNums), flags |-> call.req.flags, reals |-> {}])
        /\ vipNums' = Tail(vipNums)
        /\ UNCHANGED quicMapping
  /\ UNCHANGED <<config, macVars, srcVars, decapVars, hcVars, stats, bpfFailed>>

delVip ==
  /\ At("delVip")
  /\ LET refused == config.disableForwarding \/ call.req.vip \notin DOMAIN vips IN
     \/ refused /\ Returns(FALSE, {}) /\ UNCHANGED vipVars
     \/ /\ ~refused /\ Returns(TRUE, {})
        /\ vipNums' = Append(vipNums, vips[call.req.vip].num) /\ vips' = Without(vips, call.req.vip)
        /\ UNCHANGED quicMapping
  /\ UNCHANGED <<config, macVars, srcVars, decapVars, hcVars, stats, bpfFailed>>

modifyVip ==
  /\ At("modifyVip")
  /\ \/ call.req.vip \notin DOMAIN vips /\ Returns(FALSE, {}) /\ UNCHANGED <<vips, bpfFailed>>
     \/ /\ call.req.vip \in DOMAIN vips
        /\ vips' = [vips EXCEPT ![call.req.vip].flags = IF call.req.set THEN @ \cup call.req.flags
                                                         ELSE @ \ call.req.flags]
        /\ \E ok \in BOOLEAN : Syscall(ok) /\ Returns(ok, {})
  /\ UNCHANGED <<config, macVars, srcVars, decapVars, hcVars, vipNums, quicMapping, stats>>

modifyRealsForVip ==
  /\ At("modifyRealsForVip")
  /\ LET refused == config.disableForwarding \/ call.req.vip \notin DOMAIN vips
         valid == {r \in call.req.reals : validateAddress(r)}
     IN
     \/ refused /\ Returns(FALSE, {}) /\ UNCHANGED vips
     \/ /\ ~refused /\ Returns(TRUE, {})
        /\ vips' = [vips EXCEPT ![call.req.vip].reals = IF call.req.del THEN @ \ valid ELSE @ \cup valid]
  /\ UNCHANGED <<config, macVars, srcVars, decapVars, hcVars, vipNums, quicMapping, stats, bpfFailed>>

kMaxQuicId == 65535

\* An address that has a mapping keeps it.
modifyQuicRealsMapping ==
  /\ At("modifyQuicRealsMapping") /\ Returns(TRUE, {})
  /\ LET skipped == \/ config.disableForwarding \/ ~validateAddress(call.req.real) \/ call.req.id > kMaxQuicId
                    \/ call.req.del # (call.req.real \in DOMAIN quicMapping)
     IN
     \/ skipped /\ UNCHANGED quicMapping
     \/ ~skipped /\ call.req.del /\ quicMapping' = Without(quicMapping, call.req.real)
     \/ ~skipped /\ ~call.req.del /\ quicMapping' = Put(quicMapping, call.req.real, call.req.id)
  /\ UNCHANGED <<config, macVars, srcVars, decapVars, hcVars, vips, vipNums, stats, bpfFailed>>

\* Mutant: the count of the VIP's place among the VIPs.
lbStatsFirst(position) ==
  /\ ~config.disableForwarding
  /\ UNCHANGED bpfFailed /\ Returns(TRUE, stats[0])

\* The sum over the cpus; zero if it cannot be had.
getLbStats(position) ==
  \/ config.disableForwarding /\ Returns(TRUE, 0) /\ UNCHANGED bpfFailed
  \/ /\ ~config.disableForwarding
     /\ \E ok \in BOOLEAN : Syscall(ok) /\ Returns(TRUE, IF ok THEN stats[position] ELSE 0)

getStatsForVip ==
  /\ At("getStatsForVip")
  /\ \/ call.req.vip \notin DOMAIN vips /\ Returns(TRUE, 0) /\ UNCHANGED bpfFailed
     \/ call.req.vip \in DOMAIN vips /\ getLbStats(vips[call.req.vip].num)
  /\ UNCHANGED <<config, macVars, srcVars, decapVars, hcVars, vipVars, stats>>

\* The counters behind those of the VIPs: getLruStats, getLruMissStats,
\* getLruFallbackStats and getIcmpTooBigStats.
StatsPosition ==
  [getLruStats |-> maxVips, getLruMissStats |-> maxVips + 1,
   getLruFallbackStats |-> maxVips + 3, getIcmpTooBigStats |-> maxVips + 4]

getStats ==
  /\ call.at \in DOMAIN StatsPosition
  /\ getLbStats(StatsPosition[call.at])
  /\ UNCHANGED <<config, macVars, srcVars, decapVars, hcVars, vipVars, stats>>

-----------------------------------------------------------------------------
(* Getters that read the own copy; an exception is a result that is not ok. *)

Getter(name, ok, val) ==
  /\ At(name) /\ Returns(ok, val)
  /\ UNCHANGED <<config, macVars, srcVars, decapVars, hcVars, vipVars, stats, bpfFailed>>

getMac == Getter("getMac", TRUE, ctlValues)
getAllVips == Getter("getAllVips", TRUE, IF config.disableForwarding THEN {} ELSE DOMAIN vips)
getHealthcheckersDst == Getter("getHealthcheckersDst", TRUE, hcReals)
getInlineDecapDst == Getter("getInlineDecapDst", TRUE, IF config.disableForwarding THEN {} ELSE decapDsts)
getQuicRealsMapping == Getter("getQuicRealsMapping", TRUE, IF config.disableForwarding THEN <<>> ELSE quicMapping)

getVipFlags ==
  At("getVipFlags") /\
  LET found == ~config.disableForwarding /\ call.req.vip \in DOMAIN vips IN
  Getter("getVipFlags", found, IF found THEN vips[call.req.vip].flags ELSE {})

getRealsForVip ==
  At("getRealsForVip") /\
  LET found == call.req.vip \in DOMAIN vips IN
  Getter("getRealsForVip", found \/ config.disableForwarding,
         IF found /\ ~config.disableForwarding THEN vips[call.req.vip].reals ELSE {})

LbStep ==
  \/ changeMac \/ changeMac_hc \/ addSrcIpForPcktEncap \/ addSrcIpForPcktEncap_fwd
  \/ addInlineDecapDst \/ delInlineDecapDst \/ addHealthcheckerDst \/ delHealthcheckerDst
  \/ addVip \/ delVip \/ modifyVip \/ modifyRealsForVip \/ modifyQuicRealsMapping
  \/ getStatsForVip \/ getStats \/ getMac \/ getAllVips \/ getHealthcheckersDst
  \/ getInlineDecapDst \/ getQuicRealsMapping \/ getVipFlags \/ getRealsForVip

\* A packet is counted at a position: by the XDP program, at any time.
Count(position) ==
  /\ stats' = [stats EXCEPT ![position] = (@ + 1) % CounterLimit]
  /\ UNCHANGED <<config, macVars, srcVars, decapVars, hcVars, vipVars, bpfFailed>>

\* The sources that start in the maps; those not configured are zero.
NoSources == [v6 \in BOOLEAN |-> BadAddr]
setupHcEnvironment(c) == IF c.direct THEN c.srcs ELSE NoSources
setupGueEnvironment(c) == IF c.gue THEN c.srcs ELSE NoSources

\* After the start, and after VIPs and health checks have been added.
LbInit(c, mac, someVips, someHcs) ==
  /\ config = c /\ call = NoCall
  /\ ctlValues = mac /\ ctl_array = mac /\ hc_pckt_macs = mac
  /\ hc_pckt_srcs_map = setupHcEnvironment(c) /\ pckt_srcs = setupGueEnvironment(c)
  /\ decapDsts = {} /\ decap_dst = {}
  /\ hcReals = someHcs /\ hc_reals_map = [m \in DOMAIN someHcs |-> HcReal(someHcs[m])]
  /\ vips = [v \in {someVips[i] : i \in DOMAIN someVips} |->
               [num |-> (CHOOSE i \in DOMAIN someVips : someVips[i] = v) - 1, flags |-> {}, reals |-> {}]]
  /\ vipNums = [i \in 1..maxVips - Len(someVips) |-> Len(someVips) + i - 1]
  /\ quicMapping = <<>>
  /\ stats = [p \in 0..maxVips + 4 |-> 0]
  /\ bpfFailed = FALSE

-----------------------------------------------------------------------------
(* Properties.                                                             *)

\* Between calls the MAC address that getMac tells is the one that packets,
\* and health checks that katran sends itself, are sent to.
MacsAgree ==
  call = NoCall /\ ~bpfFailed =>
    /\ ~config.disableForwarding => ctl_array = ctlValues
    /\ config.direct => hc_pckt_macs = ctlValues

\* What getHealthcheckersDst tells is what the tc program does, in the byte
\* order that it needs, even after failed calls; and the map never overflows.
HcTablesAgree ==
  /\ hc_reals_map = [m \in DOMAIN hcReals |-> HcReal(hcReals[m])]
  /\ Cardinality(DOMAIN hc_reals_map) <= maxReals

\* What getInlineDecapDst tells is what the XDP program decapsulates for, if no
\* system call has failed; and the map never overflows.
DecapTablesAgree ==
  /\ ~bpfFailed => decap_dst = decapDsts
  /\ Cardinality(decapDsts) <= maxDecapDst
=============================================================================
