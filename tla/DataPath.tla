------------------------------ MODULE DataPath ------------------------------
(***************************************************************************)
(* Frames on their way through a host that runs katran: the XDP program    *)
(* with inline decapsulation and ICMP (balancer_kern.c), the tc programs   *)
(* for health checks, the decapsulation program of a real (decap_kern.c),  *)
(* and the simulator.  The choice of a real among those of a VIP is        *)
(* module Balancer's; here a VIP has one real.  A frame is processed in    *)
(* one step, between the steps of the calls that change the arrays.        *)
(***************************************************************************)
EXTENDS LbCalls, Frames

CONSTANTS
  RealOf,        \* [dst, dport, proto] of the VIPs -> address of the real
  ClientFrames,  \* frames that arrive from the network
  Probes,        \* frames of health checkers, [f, mark]
  Flows,         \* flows that are simulated, [src, dst, dport, proto]
  localMac       \* MAC address of the host

\* A frame on its way: where it is, how it started, decapsulations so far;
\* for a probe its mark and, as history, the destination that hcReals has.
VARIABLE wire

NoFrame == [at |-> "none"]

HC_MAX_PACKET_SIZE == 1474

-----------------------------------------------------------------------------
(* balancer_kern.c                                                         *)

IsEcho(h) == (h.k = "ICMP" /\ h.type = 8) \/ (h.k = "ICMPV6" /\ h.type = 128)
IsError(h) == (h.k = "ICMP" /\ h.type = 3) \/ (h.k = "ICMPV6" /\ h.type \in {1, 2})

\* The flow of a packet; that of an ICMP error is the one it quotes, reversed.
Flow(f) ==
  IF IsIcmp(f.hdrs[2])
  THEN [dst |-> f.hdrs[3].src, dport |-> f.hdrs[4].sport, proto |-> f.hdrs[3].proto]
  ELSE [dst |-> f.hdrs[1].dst, dport |-> f.hdrs[2].dport, proto |-> f.hdrs[1].proto]

FlowProto(f) == IF IsIcmp(f.hdrs[2]) THEN f.hdrs[3].proto ELSE f.hdrs[1].proto
FlowDst(f) == IF IsIcmp(f.hdrs[2]) THEN f.hdrs[3].src ELSE f.hdrs[1].dst

\* Fragments and IPv4 options are dropped, echo requests answered.
process_l3_headers(f) ==
  CASE f.hdrs[1].frag -> Drop(f)
    [] IsEcho(f.hdrs[2]) -> IF f.eth.proto = "v6" THEN send_icmp6_reply(f) ELSE send_icmp_reply(f)
    [] IsIcmp(f.hdrs[2]) /\ ~IsError(f.hdrs[2]) -> Pass(f)
    [] OTHER -> [act |-> "FURTHER", f |-> f]

check_decap_dst(f) == FlowDst(f) \notin decap_dst

\* The packet behind the first n headers with its TTL decremented; what follows
\* in an ICMP error is none, and is changed where a packet has TTL and checksum.
Behind(f, n) ==
  LET packet == SubSeq(f.hdrs, n + 1, Len(f.hdrs)) IN
  [f EXCEPT !.hdrs = SubSeq(@, 1, n) \o (IF IsIp(packet[1]) THEN <<decrement_ttl(packet[1])>> \o Tail(packet)
                                         ELSE <<Opaque(Bytes(packet))>>)]

\* Back to the start of the program with the inner packet, or to the stack.
Decapsulated(f, pass) ==
  CASE IsIp(f.hdrs[1]) /\ f.hdrs[1].ttl = 0 -> Drop(f)
    [] pass -> Pass(f)
    [] OTHER -> [act |-> "RECIRCULATE", f |-> f]

\* protocol is that of the flow: for an ICMP error that of the packet it quotes.
process_encaped_ipip_pckt(f, protocol, pass) ==
  LET g == Behind(f, 1) IN
  Decapsulated(CASE protocol = "IPIP" /\ f.eth.proto = "v6" -> decap_v6(g, TRUE)
                 [] protocol = "IPIP" /\ f.eth.proto = "v4" -> decap_v4(g)
                 [] OTHER -> decap_v6(g, FALSE),
               pass)

\* The version nibble of the inner packet is looked at behind IPv6 only.
process_encaped_gue_pckt(f, pass) ==
  LET g == Behind(f, 2) IN
  Decapsulated(IF f.eth.proto = "v6" THEN gue_decap_v6(g, f.hdrs[3].k = "v4") ELSE gue_decap_v4(g), pass)

PCKT_ENCAP(f, dst, bytes) ==
  LET is_ipv6 == f.eth.proto = "v6" IN
  CASE dst.v6 /\ config.gue -> gue_encap_v6(f, ctl_array, is_ipv6, pckt_srcs[TRUE], dst, bytes)
    [] dst.v6 /\ ~config.gue -> encap_v6(f, ctl_array, is_ipv6, dst, bytes)
    [] ~dst.v6 /\ config.gue -> gue_encap_v4(f, ctl_array, pckt_srcs[FALSE], dst, bytes)
    [] OTHER -> encap_v4(f, ctl_array, dst, bytes)

\* What is left of an ICMP error is no packet: the type is not an IPv4 header
\* length of 5, and an MTU of 1280 to 1535, or 0, has no known protocol in it.
process_packet(f, room) ==
  LET l3 == process_l3_headers(f)
      proto == FlowProto(f)
      flow == Flow(f)
  IN
  CASE ~IsIp(f.hdrs[1]) -> IF f.eth.proto = "v6" THEN Pass(f) ELSE Drop(f)
    [] IsIp(f.hdrs[1]) /\ l3.act # "FURTHER" -> l3
    [] IsIp(f.hdrs[1]) /\ l3.act = "FURTHER" /\ proto \in {"IPIP", "IPV6"} ->
         IF config.decap = "ipip" THEN process_encaped_ipip_pckt(f, proto, check_decap_dst(f)) ELSE Pass(f)
    [] IsIp(f.hdrs[1]) /\ l3.act = "FURTHER" /\ proto \notin {"IPIP", "IPV6", "TCP", "UDP"} -> Pass(f)
    [] OTHER ->
         CASE proto = "UDP" /\ flow.dport = GUE_DPORT /\ config.decap = "gue" ->
                process_encaped_gue_pckt(f, check_decap_dst(f))
           [] flow \notin DOMAIN RealOf -> Pass(f)
           [] FrameLen(f) > MAX_PCKT_SIZE ->
                IF config.toobig THEN send_icmp_too_big(f, f.eth.proto = "v6", room) ELSE Drop(f)
           [] OTHER -> Send(PCKT_ENCAP(f, RealOf[flow], f.hdrs[1].len))

balancer_ingress(f, room) == IF f.eth.proto \in {"v4", "v6"} THEN process_packet(f, room) ELSE Pass(f)

-----------------------------------------------------------------------------
(* decap_kern.c, at a real; for GUE the kernel of the real does it.        *)

xdpdecap(f) ==
  LET ip == f.hdrs[1] IN
  CASE ip.frag -> Drop(f)
    [] ip.proto = "IPIP" /\ ip.k = "v6" -> Pass(decap_v6(f, TRUE))
    [] ip.proto = "IPIP" /\ ip.k = "v4" -> Pass(decap_v4(f))
    [] ip.proto = "IPV6" -> Pass(decap_v6(f, FALSE))
    [] OTHER -> Pass(f)

fou_decap(f) == Pass(Inner(f, HdrSize(f.hdrs[1]) + 8, f.hdrs[3].k))

-----------------------------------------------------------------------------
(* The tc programs for health checks.                                      *)

\* New headers between the Ethernet header and the packet; the type of the
\* frame is set for IPv6 only.
HcOuter(f, hdrs) ==
  [eth |-> IF hdrs[1].k = "v6" THEN [f.eth EXCEPT !.proto = "v6"] ELSE f.eth,
   hdrs |-> hdrs \o f.hdrs]

hc_encap_ipip(f, dst) ==
  LET pkt_len == FrameLen(f) - ETH_HLEN
      src == hc_pckt_srcs_map[dst.v6]
  IN HcOuter(f, IF dst.v6
                THEN <<create_v6_hdr(src, dst, pkt_len, IF f.eth.proto = "v6" THEN "IPV6" ELSE "IPIP")>>
                ELSE <<create_v4_hdr(src, dst, pkt_len, "IPIP")>>)

hc_encap_gue(f, dst) ==
  LET pkt_len == FrameLen(f) - ETH_HLEN + 8
      src == hc_pckt_srcs_map[dst.v6]
      udp == create_udp_hdr(0, GUE_DPORT, pkt_len)
  IN HcOuter(f, <<IF dst.v6 THEN create_v6_hdr(src, dst, pkt_len, "UDP")
                  ELSE create_v4_hdr(src, dst, pkt_len, "UDP"), udp>>)

\* healthchecking_kern.c: the packet leaves through the main interface.
healthchecker_kern(f, real) ==
  LET g == IF config.gue THEN hc_encap_gue(f, real.addr) ELSE hc_encap_ipip(f, real.addr) IN
  IF FrameLen(f) > HC_MAX_PACKET_SIZE THEN Drop(f)
  ELSE Send([g EXCEPT !.eth.src = localMac, !.eth.dst = hc_pckt_macs])

\* A tunnel device in collect metadata mode takes an IPv4 address in host
\* order and chooses the source itself.
tunnel(f, real) ==
  LET dst == IF real.addr.v6 \/ real.hostOrder THEN real.addr ELSE BadAddr
      pkt_len == FrameLen(f) - ETH_HLEN
      hdr == IF dst.v6
             THEN create_v6_hdr(IpipSrc(TRUE), dst, pkt_len, IF f.eth.proto = "v6" THEN "IPV6" ELSE "IPIP")
             ELSE create_v4_hdr(IpipSrc(FALSE), dst, pkt_len, "IPIP")
  IN [eth |-> [f.eth EXCEPT !.proto = hdr.k], hdrs |-> <<hdr>> \o f.hdrs]

\* healthchecking_ipip.c: the packet leaves through a tunnel device.
healthchecker_ipip(f, real) ==
  IF FrameLen(f) > HC_MAX_PACKET_SIZE THEN Drop(f) ELSE Send(tunnel(f, real))

\* Unmarked packets and those with an unknown mark are no health checks.
healthchecker(f, mark) ==
  CASE mark = 0 \/ mark \notin DOMAIN hc_reals_map -> Pass(f)
    [] OTHER -> IF config.direct THEN healthchecker_kern(f, hc_reals_map[mark])
                ELSE healthchecker_ipip(f, hc_reals_map[mark])

-----------------------------------------------------------------------------
(* KatranSimulator                                                         *)

NoReal == BadAddr

\* There is no packet for such a flow.
Malformed(flow) ==
  \/ ~validateAddress(flow.src) \/ ~validateAddress(flow.dst) \/ flow.src.v6 # flow.dst.v6
  \/ flow.proto \notin {"TCP", "UDP"}

createPacketFromFlow(flow) ==
  LET size == 512 - ETH_HLEN
      ip == IF flow.dst.v6 THEN create_v6_hdr(flow.src, flow.dst, size - 40, flow.proto)
            ELSE create_v4_hdr(flow.src, flow.dst, size - 20, flow.proto)
      l4 == [k |-> flow.proto, sport |-> 1, dport |-> flow.dport]
  IN [eth |-> [dst |-> localMac, src |-> localMac, proto |-> ip.k],
      hdrs |-> <<ip, l4, Opaque(size - HdrSize(ip) - HdrSize(l4))>>]

getPcktDst(f) == f.hdrs[1].dst

\* BPF_PROG_TEST_RUN, which is a bpf() call.
runSimulation(f) ==
  \E ok \in BOOLEAN, room \in Headroom :
    LET r == balancer_ingress(f, room) IN
    Syscall(ok) /\ Returns(TRUE, IF ok /\ r.act = "TX" THEN getPcktDst(r.f) ELSE NoReal)

getRealForFlow ==
  /\ At("getRealForFlow")
  /\ IF config.disableForwarding \/ Malformed(call.req.flow) THEN Returns(TRUE, NoReal) /\ UNCHANGED bpfFailed
     ELSE runSimulation(createPacketFromFlow(call.req.flow))
  /\ UNCHANGED <<config, macVars, srcVars, decapVars, hcVars, vipVars, stats, wire>>

-----------------------------------------------------------------------------
(* The way of a frame.                                                     *)

Where(act) ==
  CASE act = "RECIRCULATE" -> "xdp" [] act = "TX" -> "sent" [] act = "PASS" -> "stack" [] OTHER -> "dropped"

\* The program runs on w.f; a decapsulation is counted.
Balanced(w, room) ==
  LET r == balancer_ingress(w.f, room)
      decap == r.act = "RECIRCULATE" \/ (r.act = "PASS" /\ r.f # w.f)
  IN [w EXCEPT !.at = Where(r.act), !.f = r.f, !.hops = IF decap THEN @ + 1 ELSE @]

Receive(f) ==
  /\ wire = NoFrame /\ ~config.disableForwarding
  /\ \E room \in Headroom :
       wire' = Balanced([at |-> "xdp", f |-> f, start |-> f, hops |-> 0, mark |-> 0, due |-> NoReal], room)
  /\ UNCHANGED lbVars

recirculate ==
  /\ wire.at = "xdp"
  /\ \E room \in Headroom : wire' = Balanced(wire, room)
  /\ UNCHANGED lbVars

Probe(p) ==
  /\ wire = NoFrame /\ config.hc
  /\ LET r == healthchecker(p.f, p.mark) IN
     wire' = [at |-> Where(r.act), f |-> r.f, start |-> p.f, hops |-> 0, mark |-> p.mark,
              due |-> IF p.mark \in DOMAIN hcReals THEN hcReals[p.mark] ELSE NoReal]
  /\ UNCHANGED lbVars

Encapsulated(f) == f.hdrs[1].proto \in {"IPIP", "IPV6"} \/ (f.hdrs[2].k = "UDP" /\ f.hdrs[2].dport = GUE_DPORT)

\* What was encapsulated arrives at the real of the outer destination.
real ==
  /\ wire.at = "sent" /\ Encapsulated(wire.f)
  /\ LET r == IF wire.f.hdrs[1].proto = "UDP" THEN fou_decap(wire.f) ELSE xdpdecap(wire.f) IN
     wire' = [at |-> IF r.act = "PASS" THEN "real" ELSE "dropped", f |-> r.f, start |-> wire.start,
              hops |-> wire.hops, mark |-> wire.mark, due |-> wire.due, to |-> wire.f.hdrs[1].dst]
  /\ UNCHANGED lbVars

Gone ==
  /\ wire.at \in {"stack", "dropped", "real"} \/ (wire.at = "sent" /\ ~Encapsulated(wire.f))
  /\ wire' = NoFrame
  /\ UNCHANGED lbVars

WireStep ==
  \/ \E f \in ClientFrames : Receive(f)
  \/ \E p \in Probes : Probe(p)
  \/ recirculate \/ real \/ Gone

-----------------------------------------------------------------------------
(* Properties.                                                             *)

\* The stack of headers after n decapsulations.
Peel(hdrs) == SubSeq(hdrs, IF hdrs[1].proto = "UDP" THEN 3 ELSE 2, Len(hdrs))
Peeled(hdrs, n) == FoldLeft(LAMBDA h, i : Peel(h), hdrs, [i \in 1..n |-> i])

\* The adjusted checksum of an echo reply is off by one if the addition or
\* the subtraction wraps around (handle_icmp.h:78, 107).
EchoWraps(f) ==
  \/ f.hdrs[2].k = "ICMP" /\ f.hdrs[2].check > 65535 - 8
  \/ f.hdrs[2].k = "ICMPV6" /\ f.hdrs[2].check = 0

\* hc_encap_ipip and hc_encap_gue do not set the type of the frame for an IPv4
\* destination, and IPIP carries no IPv6 packet (healthchecking_helpers.h:90).
ProbeOfIpv6ToIpv4 ==
  wire.mark # 0 /\ wire.start.eth.proto = "v6" /\ wire.due # NoReal /\ ~wire.due.v6

\* An ICMP error about an IPIP packet is decapsulated as if it were that packet
\* (balancer_kern.c:385).
ErrorAboutTunnel(f) ==
  config.decap = "ipip" /\ IsIcmp(f.hdrs[2]) /\ IsError(f.hdrs[2]) /\ FlowProto(f) \in {"IPIP", "IPV6"}

\* The fragment offset of send_icmp4_too_big is what the headroom held
\* (handle_icmp.h:145).
FromHeadroom(f) == f.hdrs[2].k = "ICMP" /\ f.hdrs[2].type = 3

\* Every frame that the programs send, pass on or decapsulate is one that a
\* receiver understands: type, protocols, lengths and checksums of all its
\* headers agree with what follows them, and none that they send is a fragment,
\* but for the four cases before.
FramesWellFormed ==
  wire.at \in {"sent", "real", "stack"} /\ ~EchoWraps(wire.start) /\ ~ErrorAboutTunnel(wire.start)
    => \/ /\ WellFormed(wire.f)
          /\ wire.at = "sent" => ~wire.f.hdrs[1].frag \/ FromHeadroom(wire.f)
       \/ ProbeOfIpv6ToIpv4

\* Packet hdrs is that of the client but for the TTL, which inline
\* decapsulation has decremented.
ClientsPacket(hdrs) ==
  LET packet == Peeled(wire.start.hdrs, wire.hops) IN
  /\ Tail(hdrs) = Tail(packet)
  /\ [hdrs[1] EXCEPT !.ttl = 0] = [packet[1] EXCEPT !.ttl = 0]
       \/ (packet[1].k = "v4" /\ hdrs[1].ttl = packet[1].ttl - 1
           /\ [hdrs[1] EXCEPT !.ttl = 0, !.check = 0] = [packet[1] EXCEPT !.ttl = 0, !.check = 0])
  /\ hdrs[1].ttl = packet[1].ttl - (IF wire.hops > 0 THEN 1 ELSE 0)

\* A client's packet comes out of the tunnel at the real of its VIP as the
\* client has sent it, also when another katran has encapsulated it first; and
\* so does a packet that is decapsulated for the host itself, but for ICMP errors
\* about a tunnel.  None that is too big enters the tunnel.
DeliveredIntact ==
  /\ wire.at = "real" /\ wire.mark = 0 =>
       /\ ClientsPacket(wire.f.hdrs)
       /\ FrameLen(wire.f) <= MAX_PCKT_SIZE
       /\ wire.to = RealOf[Flow([wire.start EXCEPT !.hdrs = Peeled(@, wire.hops)])]
  /\ wire.at = "stack" /\ ~ErrorAboutTunnel(wire.start) => ClientsPacket(wire.f.hdrs)

\* An ICMP message goes back to where the packet came from, with the packet's
\* first bytes if that was too big.
IcmpGoesBack ==
  wire.at = "sent" /\ IsIcmp(wire.f.hdrs[2]) =>
    LET packet == Peeled(wire.start.hdrs, wire.hops) IN
    /\ wire.f.eth.dst = wire.start.eth.src
    /\ wire.f.hdrs[1].dst = packet[1].src /\ wire.f.hdrs[1].src = packet[1].dst
    /\ IF IsEcho(packet[2]) THEN SubSeq(wire.f.hdrs, 3, Len(wire.f.hdrs)) = SubSeq(packet, 3, Len(packet))
       ELSE /\ Bytes(packet) + ETH_HLEN > MAX_PCKT_SIZE
            /\ wire.f.hdrs[4] = packet[2] /\ wire.f.hdrs[3].src = packet[1].src

\* A probe reaches the destination that KatranLb holds for its mark, as the
\* health checker has sent it, in whatever byte order the map holds the
\* destination; no other packet of the host enters the tunnel.
ProbesReach ==
  wire.at = "real" /\ wire.mark # 0 /\ ~ProbeOfIpv6ToIpv4 =>
    /\ wire.to = wire.due
    /\ wire.f.hdrs = wire.start.hdrs

\* The simulator names the real that the packets of the flow go to, or none if a
\* bpf() call has failed.
SimulatorAgrees ==
  call.at = "returned" /\ call.req.do = "getRealForFlow" =>
    LET flow == call.req.flow
        vip == [dst |-> flow.dst, dport |-> flow.dport, proto |-> flow.proto]
    IN \/ call.val = IF ~config.disableForwarding /\ ~Malformed(flow) /\ vip \in DOMAIN RealOf
                     THEN RealOf[vip] ELSE NoReal
       \/ bpfFailed /\ call.val = NoReal

\* What KatranLb tells is what its programs do: MAC address, destinations of
\* health checks and of decapsulation, and the real of a flow.
LibraryTells == MacsAgree /\ HcTablesAgree /\ DecapTablesAgree /\ SimulatorAgrees

\* Frames end up where they should, intact: packets at the reals, ICMP messages
\* at the senders, probes at the destinations of their marks.
FramesArrive == DeliveredIntact /\ IcmpGoesBack /\ ProbesReach
=============================================================================
