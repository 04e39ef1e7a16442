----------------------------- MODULE MCBalancer -----------------------------
(***************************************************************************)
(* Small instances of Balancer: VIPs on host 9, clients 5 and 6.           *)
(***************************************************************************)
EXTENDS Balancer, MaglevRing

CONSTANTS
  s1, s2, bad,  \* model values: a source prefix, one inside it, not a prefix
  AddrCount,    \* number of addresses of reals
  c1, c2, l1    \* model values: cpus, an LRU map

MCAddrs == 1..AddrCount

\* Each endpoint has the permutation that its address determines.
MCGenerateMaglevHash(w, h) ==
  LET before(m, n) == h[m] < h[n] \/ (h[m] = h[n] /\ m < n)
      nums == SetToSortSeq({n \in Nums : w[n] # 0}, before)
  IN Ring([k \in DOMAIN nums |->
             [num |-> nums[k], weight |-> w[nums[k]],
              offset |-> h[nums[k]] % chRingSize,
              skip |-> (h[nums[k]] % (chRingSize - 1)) + 1]],
          chRingSize)

real(a, w) == [address |-> a, weight |-> w]

MCRealBatches == {<<real(a, 1)>> : a \in MCAddrs}

NoReals == {}

\* Real 1 can also be drained.
DrainBatches == MCRealBatches \cup {<<real(1, 0)>>}

vip(port, proto) == [addr |-> 9, port |-> port, proto |-> proto]

TcpVip == {vip(80, "TCP")}
AnyPortVip == {vip(0, "UDP")}
UdpVip == {vip(443, "UDP")}

MCVipDefOf(v) == v

packet(src, sport, dport, proto, syn, quic) ==
  [icmp |-> FALSE, src |-> src, dst |-> 9, sport |-> sport, dport |-> dport,
   proto |-> proto, syn |-> syn, quic |-> quic]

\* An ICMP error about a packet the real has sent to the client.
icmp(src, sport, dport, proto) ==
  [icmp |-> TRUE, src |-> 9, dst |-> src, sport |-> dport, dport |-> sport,
   proto |-> proto, syn |-> FALSE, quic |-> 0]

TcpPackets ==
  {packet(5, 1, 80, "TCP", TRUE, 0), packet(5, 1, 80, "TCP", FALSE, 0), icmp(5, 1, 80, "TCP")}

\* A connection to one port of the VIP for all ports, and an error about it.
AnyPortPackets == {packet(5, 1, 443, "UDP", FALSE, 0), icmp(5, 1, 443, "UDP")}

OneTcpPacket == {packet(5, 1, 80, "TCP", FALSE, 0)}

QuicPackets == {packet(5, 1, 443, "UDP", FALSE, id) : id \in {0, 1}}

MCLruOf(c) == l1

\* Client 5 is inside s2, which is inside s1.
MCPrefixesOf(src) == IF src = 5 THEN <<s2, s1>> ELSE <<s1>>

NoPrefixes(src) == <<>>

MCHash(src, sport, dport) == (src + 2 * sport + dport) % chRingSize

QuicBatch(a, id) == <<[address |-> a, id |-> id]>>

MCQuicBatches == {QuicBatch(1, 1), QuicBatch(2, 2)}

MCSrcBatches == {<<s1>>, <<s2>>}

CpuSymmetry == Permutations({c1, c2})

=============================================================================
