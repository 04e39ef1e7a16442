----------------------------- MODULE MCService ------------------------------
(***************************************************************************)
(* A host with katran: the service, its clients and the way of the frames. *)
(* A behaviour begins with one of the programs of peer; with "wire" it is  *)
(* the frames that go their way while admin, a program that embeds         *)
(* KatranLb, changes the arrays.                                           *)
(***************************************************************************)
EXTENDS Service, DataPath

A4(a) == [v6 |-> FALSE, a |-> a]
A6(a) == [v6 |-> TRUE, a |-> a]

mcAddrs == {A4("real"), A6("real"), A4("lb"), A6("lb")}
mcBadAddr == A4("bad")
mcSources == [v6 \in BOOLEAN |-> IF v6 THEN A6("src") ELSE A4("src")]

mcRealOf ==
  [flow \in {[dst |-> A4("vip"), dport |-> 80, proto |-> "TCP"], [dst |-> A4("vip"), dport |-> 443, proto |-> "UDP"],
             [dst |-> A6("vip"), dport |-> 80, proto |-> "TCP"]} |->
     CASE flow.dport = 443 -> A6("real") [] flow.dst.v6 -> A6("real") [] OTHER -> A4("real")]

\* The last three have no packet.
mcFlows ==
  LET flow(src, vip) == [src |-> src, dst |-> vip.dst, dport |-> vip.dport, proto |-> vip.proto]
      vip == [dst |-> A4("vip"), dport |-> 80, proto |-> "TCP"]
  IN {flow([v6 |-> v.dst.v6, a |-> "client"], v) : v \in DOMAIN mcRealOf \cup {[vip EXCEPT !.dst = A4("other")]}}
     \cup {flow(A6("client"), vip), flow(mcBadAddr, vip), flow(A4("client"), [vip EXCEPT !.proto = "ICMP"])}

-----------------------------------------------------------------------------
(* Frames that arrive.                                                     *)

Eth(hdrs) == [eth |-> [dst |-> "local", src |-> "router", proto |-> hdrs[1].k], hdrs |-> hdrs]

\* An IP header before hdrs; rest makes the checksum what the bounds need.
Ip(src, dst, proto, ttl, rest, hdrs) ==
  LET h == IF src.v6 THEN [create_v6_hdr(src, dst, Bytes(hdrs), proto) EXCEPT !.ttl = ttl]
           ELSE [create_v4_hdr(src, dst, Bytes(hdrs), proto) EXCEPT !.ttl = ttl, !.rest = rest]
  IN <<IF src.v6 THEN h ELSE [h EXCEPT !.check = ipv4_csum_inline(h)]>> \o hdrs

Tcp(sport, dport, n) == <<[k |-> "TCP", sport |-> sport, dport |-> dport], Opaque(n)>>
Udp(sport, dport, n) == <<[k |-> "UDP", sport |-> sport, dport |-> dport, len |-> n + 8], Opaque(n)>>

\* The largest and the smallest payload that is too big.
BigTcp(v6) == MAX_PCKT_SIZE - ETH_HLEN - 20 - (IF v6 THEN 40 ELSE 20)

ClientPackets ==
  {Ip(A4("client"), A4("vip"), "TCP", ttl, rest, Tcp(1, 80, 0)) : ttl \in {1, 2}, rest \in {0, 65493}}
  \cup {Ip(A4("client"), A4("vip"), "TCP", 2, 0, Tcp(1, 80, n)) : n \in {BigTcp(FALSE), BigTcp(FALSE) + 1}}
  \cup {Ip(A4("client"), A4("vip"), "UDP", 2, 0, Udp(1, 443, 0))}
  \cup {Ip(A6("client"), A6("vip"), "TCP", ttl, 0, Tcp(1, 80, 0)) : ttl \in {1, 2}}
  \cup {Ip(A6("client"), A6("vip"), "TCP", 2, 0, Tcp(1, 80, n)) : n \in {BigTcp(TRUE), BigTcp(TRUE) + 1}}
  \cup {Ip(A4("client"), A4("other"), "TCP", 2, 0, Tcp(1, 80, 0))}

Frag(p) == [p EXCEPT ![1].frag = TRUE]

Echo(v6, sum) ==
  LET kind == IF v6 THEN "ICMPV6" ELSE "ICMP"
      h == [k |-> kind, type |-> IF v6 THEN 128 ELSE 8, mtu |-> 0, rest |-> sum, check |-> 0]
  IN Ip([v6 |-> v6, a |-> "client"], [v6 |-> v6, a |-> "vip"], kind, 2, 0, <<[h EXCEPT !.check = ipv4_csum(h)], Opaque(3)>>)

\* An ICMP error about a packet of the VIP, and other ICMP.
IcmpAbout(v6, type, packet) ==
  LET kind == IF v6 THEN "ICMPV6" ELSE "ICMP"
      h == [k |-> kind, type |-> type, mtu |-> 0, rest |-> 0, check |-> 0]
      src == IF v6 THEN A6("hop") ELSE A4("hop")
  IN Ip(src, packet[1].src, kind, 2, 0, <<[h EXCEPT !.check = ipv4_csum(h)]>> \o packet)

Replies == {Ip(A4("vip"), A4("client"), "TCP", 2, 0, Tcp(80, 1, 8)), Ip(A4("vip"), A4("client"), "UDP", 2, 0, Udp(443, 1, 8))}
Replies6 == {Ip(A6("vip"), A6("client"), "TCP", 2, 0, Tcp(80, 1, 8))}

\* ICMP errors about packets of a tunnel that starts here.
TunnelErrors ==
  LET p4 == Ip(A4("client"), A4("vip"), "TCP", 2, 0, Tcp(1, 80, 0))
      p6 == Ip(A6("client"), A6("vip"), "TCP", 2, 0, Tcp(1, 80, 0))
  IN {IcmpAbout(FALSE, 3, Ip(A4("lb"), A4("real"), "IPIP", 2, 0, p4)),
      IcmpAbout(TRUE, 1, Ip(A6("lb"), A6("real"), "IPIP", 2, 0, p4)),
      IcmpAbout(TRUE, 2, Ip(A6("lb"), A6("real"), "IPV6", 2, 0, p6))}

\* What another katran has sent here, by IPIP and by GUE.
Encaps(p) ==
  LET f == Eth(p)
      v6 == p[1].k = "v6"
  IN {encap_v6(f, "local", v6, A6("lb"), p[1].len), gue_encap_v6(f, "local", v6, A6("src"), A6("lb"), p[1].len)}
     \cup IF v6 THEN {} ELSE {encap_v4(f, "local", A4("lb"), p[1].len),
                              gue_encap_v4(f, "local", A4("src"), A4("lb"), p[1].len)}

Tunnelled ==
  UNION {Encaps(Ip(A4("client"), A4("vip"), "TCP", t[1], t[2], Tcp(1, 80, 0))) : t \in {<<1, 0>>, <<2, 65493>>}}
  \cup UNION {Encaps(Ip(A6("client"), A6("vip"), "TCP", ttl, 0, Tcp(1, 80, 0))) : ttl \in {1, 2}}
  \cup Encaps(Ip(A4("client"), A4("other"), "TCP", 2, 0, Tcp(1, 80, 0)))

mcClientFrames ==
  {Eth(p) : p \in ClientPackets}
  \cup {Eth(Frag(Ip(A4("client"), A4("vip"), "TCP", 2, 0, Tcp(1, 80, 0))))}
  \cup {Eth(Echo(FALSE, sum)) : sum \in {0, 65527, 65530}} \cup {Eth(Echo(TRUE, sum)) : sum \in {0, 65407, 65408}}
  \cup {Eth(IcmpAbout(FALSE, t, p)) : t \in {3, 11}, p \in Replies}
  \cup {Eth(IcmpAbout(TRUE, t, p)) : t \in {2, 3}, p \in Replies6}
  \cup {Eth(p) : p \in TunnelErrors}
  \cup Tunnelled

mcProbes ==
  {[f |-> Eth(Ip(A4("lb"), A4("vip"), "TCP", 64, 0, Tcp(1, 80, n))), mark |-> m] :
     n \in {0, HC_MAX_PACKET_SIZE - 14 - 40, HC_MAX_PACKET_SIZE - 14 - 40 + 1}, m \in {0, 1, 2}}
  \cup {[f |-> Eth(Ip(A6("lb"), A6("vip"), "TCP", 64, 0, Tcp(1, 80, 0))), mark |-> m] : m \in {1, 2}}

\* Frames without a special TTL, size or checksum.
UsualFrames ==
  {Eth(Ip(A4("client"), A4("vip"), "TCP", 2, 0, Tcp(1, 80, 0))), Eth(Ip(A6("client"), A6("vip"), "TCP", 2, 0, Tcp(1, 80, 0))),
   Eth(Ip(A4("client"), A4("vip"), "UDP", 2, 0, Udp(1, 443, 0))), Eth(Echo(FALSE, 0)),
   Eth(Ip(A4("lb"), A4("vip"), "TCP", 64, 0, Tcp(1, 80, 0))), Eth(Ip(A6("lb"), A6("vip"), "TCP", 64, 0, Tcp(1, 80, 0)))}
  \cup Encaps(Ip(A4("client"), A4("vip"), "TCP", 2, 65493, Tcp(1, 80, 0)))
  \cup Encaps(Ip(A6("client"), A6("vip"), "TCP", 2, 0, Tcp(1, 80, 0)))

-----------------------------------------------------------------------------
(* The host.                                                               *)

BaseConfig ==
  [grpc |-> TRUE, hc |-> TRUE, direct |-> FALSE, disableForwarding |-> FALSE, inlineDecap |-> FALSE,
   gue |-> FALSE, decap |-> "no", toobig |-> FALSE, srcs |-> mcSources]

\* Features that are compiled into the programs.
WireConfigs ==
  {[BaseConfig EXCEPT !.direct = TRUE, !.toobig = TRUE, !.inlineDecap = TRUE, !.decap = "ipip"],
   [BaseConfig EXCEPT !.direct = TRUE, !.gue = TRUE, !.toobig = TRUE, !.inlineDecap = TRUE, !.decap = "gue"],
   [BaseConfig EXCEPT !.inlineDecap = TRUE],
   [BaseConfig EXCEPT !.direct = TRUE, !.disableForwarding = TRUE]}

ClientConfigs == {[BaseConfig EXCEPT !.grpc = b, !.hc = h] : b \in BOOLEAN, h \in BOOLEAN}

Programs ==
  {Program(kind, Go!GetAllVips, <<>>) : kind \in {"clearAll", "list", "perVip", "sum"}}
  \cup {Program("lru", Go!LruStats, Go!LruStats), Program("icmp", Go!IcmpStats, Go!IcmpStats)}

mcVips == <<"v1", "v2">>
mcHcs == [m \in {1} |-> A4("real")]

mcInit ==
  /\ wire = NoFrame
  /\ \/ \E c \in WireConfigs : LbInit(c, "m1", <<>>, <<>>) /\ SvcInit([Idle EXCEPT !.kind = "wire"])
     \/ \E c \in ClientConfigs, p \in Programs :
          /\ c.hc \/ p.kind \in {"clearAll", "list"}
          /\ LbInit(c, "m1", mcVips, IF c.hc THEN mcHcs ELSE <<>>) /\ SvcInit(p)
     \/ LbInit(BaseConfig, "m1", <<>>, <<>>) /\ SvcInit(StartKatran("m1"))

mcMaxPackets(kind) == IF kind \in {"perVip", "lru"} THEN 2 ELSE 3
mcMaxSignals(kind) == IF kind \in {"perVip", "sum"} THEN 0 ELSE 1
mcMaxCommands(kind) == IF kind \in {"perVip", "list", "watcher"} THEN 1 ELSE 2

\* What admin does, by the program of peer.
WireCalls ==
  {[do |-> "changeMac", mac |-> m] : m \in {"m2", BadMac}}
  \cup {[do |-> "addSrcIpForPcktEncap", src |-> a] : a \in {A4("lb"), A6("lb")}}
  \cup {[do |-> d, dst |-> a] : d \in {"addInlineDecapDst", "delInlineDecapDst"}, a \in {A4("lb"), A6("lb"), BadAddr}}
  \cup {[do |-> "addHealthcheckerDst", dst |-> a, mark |-> m] : a \in {A4("real"), A6("real")}, m \in Marks}
  \cup {[do |-> "addHealthcheckerDst", dst |-> BadAddr, mark |-> 1]}
  \cup {[do |-> "delHealthcheckerDst", mark |-> 1], [do |-> "getInlineDecapDst"]}
  \cup {[do |-> "getRealForFlow", flow |-> f] : f \in Flows}

\* Calls of a program that embeds KatranLb.
Embedder(req) ==
  /\ prog["peer"].kind = "wire" /\ call = NoCall /\ hist.commands < mcMaxCommands("wire")
  /\ Begin(req)
  /\ hist' = [hist EXCEPT !.commands = @ + 1]
  /\ UNCHANGED <<config, macVars, srcVars, decapVars, hcVars, vipVars, stats, bpfFailed, server, giant, rpc, prog, gw>>

EmbedderReturns ==
  /\ prog["peer"].kind = "wire" /\ call.at = "returned"
  /\ call' = NoCall
  /\ UNCHANGED <<config, macVars, srcVars, decapVars, hcVars, vipVars, stats, bpfFailed, svcVars>>

GoCommands ==
  {Go!ChangeMac("m2"), Go!GetMac, Go!AddOrModifyService("v1", "", FALSE, TRUE), Go!DelService("v1"),
   Go!AddOrModifyService("v1", "NO_LRU", TRUE, TRUE), Go!AddOrModifyService("v1", "NO_LRU", TRUE, FALSE),
   Go!AddOrModifyService("v1", "NO_SUCH", TRUE, TRUE),
   Go!UpdateServerForVip("v2", A4("real"), FALSE), Go!UpdateServerForVip("v2", A4("real"), TRUE),
   Go!ModifyQuicMappings(A4("real"), 1, FALSE), Go!ModifyQuicMappings(A4("real"), 1, TRUE),
   Go!ModifyQuicMappings(A4("real"), kMaxQuicId + 1, FALSE), Go!ListQm,
   Go!AddHc(A6("real"), 2), Go!DelHc(1), Go!ListHc}

CppCommands ==
  {Cpp!changeMac("m2"), Cpp!getMac, Cpp!addOrModifyService("v1", "", FALSE, TRUE), Cpp!delService("v1"),
   Cpp!addOrModifyService("v1", "NO_LRU", TRUE, TRUE), Cpp!addOrModifyService("v1", "NO_LRU", TRUE, FALSE),
   Cpp!addOrModifyService("v1", "NO_SUCH", TRUE, TRUE),
   Cpp!updateServerForVip("v2", A4("real"), FALSE), Cpp!updateServerForVip("v2", A4("real"), TRUE),
   Cpp!modifyQuicMappings(A4("real"), 1, FALSE), Cpp!modifyQuicMappings(A4("real"), 1, TRUE),
   Cpp!modifyQuicMappings(A4("real"), kMaxQuicId + 1, FALSE), Cpp!listQm,
   Cpp!addHc(A6("real"), 2), Cpp!delHc(1), Cpp!listHc}

\* RPCs that the clients do not make.
OtherRpcs == {<<[do |-> d, vip |-> "v1", real |-> A4("real")]>> : d \in {"addRealForVip", "delRealForVip"}}

\* Commands about what the program of peer does not look at are left out.
AdminCommands(kind) ==
  LET all == (IF config.grpc THEN GoCommands ELSE CppCommands) \cup OtherRpcs
      of(dos) == {c \in all : c # <<>> /\ c[1].do \in dos}
  IN
  CASE kind = "list" -> all
    [] kind = "clearAll" -> of({"addVip", "delVip", "addHealthcheckerDst", "delHealthcheckerDst"})
    [] kind = "watcher" -> of({"changeMac", "addVip"})
    [] kind = "perVip" -> of({"delVip"})
    [] OTHER -> {}

\* A call that has returned changes no array any more, and a frame that has left
\* the programs meets none, so neither needs to be interleaved with the other.
\* After the second call only usual frames arrive.
mcNext ==
  \/ /\ wire = NoFrame \/ wire.at = "xdp"
     /\ \/ prog["peer"].kind # "wire" /\ (SvcStep \/ \E cmd \in AdminCommands(prog["peer"].kind) : Command(cmd))
        \/ Serve \/ EmbedderReturns \/ \E req \in WireCalls : Embedder(req)
     /\ UNCHANGED wire
  \/ getRealForFlow /\ UNCHANGED svcVars
  \/ /\ prog["peer"].kind = "wire" /\ call.at # "returned" /\ WireStep
     /\ wire = NoFrame /\ hist.commands = 2 => wire'.start \in UsualFrames
     /\ UNCHANGED svcVars

mcVars == <<lbVars, svcVars, wire>>

\* Threads of the server run on, and someone gets a free mutex; so do
\* the thread for signals and start_katran.
ServerThread ==
  /\ prog["peer"].kind # "wire"
  /\ \/ giant # NoOne /\ Serve
     \/ \E c \in Clients : lock(c) \/ unlock(c)
  /\ UNCHANGED wire
WatcherThread ==
  /\ prog["peer"].kind = "watcher"
  /\ Request("peer") \/ Watch \/ WatchTake \/ WatchEnds
  /\ UNCHANGED wire
mcFairness ==
  WF_mcVars(ServerThread) /\ WF_mcVars((Shutdown \/ Exit) /\ UNCHANGED wire) /\ WF_mcVars(WatcherThread)

mcSpec == mcInit /\ [][mcNext]_mcVars /\ mcFairness
=============================================================================
