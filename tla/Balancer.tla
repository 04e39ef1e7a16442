------------------------------ MODULE Balancer ------------------------------
(***************************************************************************)
(* The XDP program balancer_ingress (balancer_kern.c) on several cpus,     *)
(* running between and during the calls of the control plane, whose BPF    *)
(* maps it reads.  A packet is processed in steps: lookup of the VIP,      *)
(* lookup in the connection table, choice of a real, insertion in the      *)
(* connection table, and lookup of the real's address for the              *)
(* encapsulation.  Packets that are dropped or passed on before they have  *)
(* a VIP change nothing and are left out.                                  *)
(***************************************************************************)
EXTENDS KatranLb
LOCAL INSTANCE Functions

CONSTANTS
  Cpus,             \* cpus that run the program
  LruMaps,          \* LRU maps: per core ones, and fallback_lru_cache
  LruOf(_),         \* the LRU map that a cpu uses
  Packets,          \* packets that arrive
  PrefixesOf(_),    \* the prefixes that contain a source, longest first
  get_packet_hash(_, _, _),
                    \* ring position of source address, source and dest. port
  MAX_CONN_RATE,    \* new connections in a second that the LRU takes
  ONE_SEC,          \* a second, in ticks
  LRU_UDP_TIMEOUT,  \* life time of a UDP entry of the LRU, in ticks
  MaxTime           \* bound: ticks

\* A packet is [icmp, src, dst, sport, dport, proto, syn, quic]; the fields of
\* an ICMP error are those of the header it carries.  quic is what parse_quic
\* returns, 0 for FURTHER_PROCESSING.  Addresses of hosts are not 0.

\* The flow key.  The header inside an ICMP error is of a packet that the real
\* has sent, so source and destination are swapped.
parse(p) ==
  IF p.icmp
  THEN [src |-> p.dst, dst |-> p.src, sport |-> p.dport, dport |-> p.sport, proto |-> p.proto]
  ELSE [src |-> p.src, dst |-> p.dst, sport |-> p.sport, dport |-> p.dport, proto |-> p.proto]

ASSUME BalancerAssumption ==
  /\ \A c \in Cpus : LruOf(c) \in LruMaps
  /\ {MAX_CONN_RATE, ONE_SEC, LRU_UDP_TIMEOUT, MaxTime} \subseteq Nat
  /\ \A p \in Packets : /\ {p.sport, p.dport, p.quic} \subseteq Nat
                        /\ PrefixesOf(parse(p).src) \in Seq(Srcs)
                        /\ p.proto = "TCP" \/ (p.proto = "UDP" /\ ~p.syn)

VARIABLES
  pkt,        \* the packet that a cpu processes
  lru,        \* the LRU maps: flow key -> real_pos_lru
  conn_rate,  \* stats[MAX_VIPS + NEW_CONN_RATE_CNTR] of each cpu
  now,        \* bpf_ktime_get_ns
  seen,       \* history: by connection, where its LRU entry leads
  stores      \* history: by cpu and tick, choices made for the LRU

dataVars == <<pkt, lru, conn_rate, now, seen, stores>>

NoPkt == [at |-> "idle"]

\* No promise to a connection.  held: the real has kept its number.
NoSession == [to |-> NoAddr, num |-> maxReals, time |-> 0, key |-> <<>>, held |-> FALSE]

\* The connection a packet or an ICMP error is about, in either direction.
Connection(p) == <<p.proto, {<<p.src, p.sport>>, <<p.dst, p.dport>>}>>

DataInit ==
  /\ pkt = [c \in Cpus |-> NoPkt]
  /\ lru = [m \in LruMaps |-> <<>>]
  /\ conn_rate = [c \in Cpus |-> [v1 |-> 0, v2 |-> 0]]
  /\ now = 0
  /\ seen = [m \in LruMaps |-> <<>>]
  /\ stores = [c \in Cpus |-> [t \in 0..MaxTime |-> 0]]

\* A partial function with key k bound to x, and one without key k.
Put(f, k, x) == [j \in DOMAIN f \cup {k} |-> IF j = k THEN x ELSE f[j]]
Drop(f, k) == [j \in DOMAIN f \ {k} |-> f[j]]

\* The sessions of f that do not rest on the LRU entry with key k.
OtherKeys(f, k) == [j \in {j \in DOMAIN f : f[j].key # k} |-> f[j]]

-----------------------------------------------------------------------------
(* Lookup of the VIP.                                                      *)

VipOf(flow, port) == [addr |-> flow.dst, port |-> port, proto |-> flow.proto]

InVipMap(d) == d \in VipDefs /\ vip_map[d] # NoMeta

\* A VIP for all ports has port 0; the destination port of its packets is
\* dropped, unless it is the one thing that is hashed.
balancer_ingress(c, p) ==
  /\ pkt[c] = NoPkt
  /\ LET flow == parse(p)
         exact == VipOf(flow, flow.dport)
         vip == IF InVipMap(exact) THEN exact ELSE VipOf(flow, 0)
         anyPort == vip # exact /\ "F_HASH_DPORT_ONLY" \notin vip_map[vip].flags
     IN
     /\ InVipMap(vip)
     /\ pkt' = [pkt EXCEPT ![c] =
          [at |-> "vip", vip |-> vip, vip_info |-> vip_map[vip],
           flow |-> IF anyPort THEN [flow EXCEPT !.dport = 0] ELSE flow,
           syn |-> p.syn, quic |-> p.quic, num |-> maxReals, atime |-> 0, via |-> "none",
           conn |-> Connection(p), session |-> NoSession, quiet |-> Idle, sameVips |-> TRUE]]
  /\ UNCHANGED <<lru, conn_rate, now, seen, stores>>

Has(p, flag) == flag \in p.vip_info.flags

\* Packet p has number n from the given source.
SendTo(c, p, n, via) ==
  pkt' = [pkt EXCEPT ![c] = [p EXCEPT !.at = "encap", !.num = n, !.via = via]]

-----------------------------------------------------------------------------
(* QUIC: the server id in the connection id.  Entries of the array that    *)
(* were never written are 0.                                               *)

RoutedById(p) == Has(p, "F_QUIC_VIP") /\ p.quic > 0 /\ p.quic < quicMapSize

\* Mutant: the id is taken for the number of the real.
quic_routeById(c) ==
  /\ pkt[c].at = "vip" /\ RoutedById(pkt[c])
  /\ SendTo(c, pkt[c], pkt[c].quic % maxReals, "quic")
  /\ UNCHANGED <<lru, conn_rate, now, seen, stores>>

quic_route(c) ==
  /\ pkt[c].at = "vip" /\ RoutedById(pkt[c])
  /\ SendTo(c, pkt[c], IF pkt[c].quic \in QuicIds THEN quic_mapping[pkt[c].quic] ELSE 0, "quic")
  /\ UNCHANGED <<lru, conn_rate, now, seen, stores>>

-----------------------------------------------------------------------------
(* The connection table.                                                   *)

\* History: connection p.conn rests on LRU entry k, which names n since t.
Promise(p, k, n, t, f) ==
  LET bound == bpf_reals[n] # NoAddr /\ bpf_reals[n] = numToReals[n] IN
  IF p.sameVips /\ bound
  THEN Put(f, p.conn, [to |-> bpf_reals[n], num |-> n, time |-> t, key |-> k, held |-> TRUE])
  ELSE Drop(f, p.conn)

\* History: what was promised to the packet's connection, unless the packet
\* opens a new one or comes after the timeout.
Session(m, p) ==
  IF /\ ~p.syn /\ p.conn \in DOMAIN seen[m]
     /\ p.flow.proto = "UDP" => now - seen[m][p.conn].time <= LRU_UDP_TIMEOUT
  THEN seen[m][p.conn] ELSE NoSession

\* The packet as it is looked up.
Keyed(m, p) ==
  [p EXCEPT !.session = Session(m, p),
            !.flow = IF Has(p, "F_HASH_NO_SRC_PORT") THEN [@ EXCEPT !.sport = 0] ELSE @]

LruHit(m, p) ==
  /\ ~p.syn /\ ~Has(p, "F_LRU_BYPASS")
  /\ p.flow \in DOMAIN lru[m]
  /\ p.flow.proto = "UDP" => now - lru[m][p.flow].atime <= LRU_UDP_TIMEOUT

\* Mutant: a hit does not refresh the access time of a UDP entry.
lookupNoRefresh(c) ==
  LET m == LruOf(c)
      p == Keyed(m, pkt[c])
  IN
  /\ pkt[c].at = "vip" /\ ~RoutedById(pkt[c])
  /\ \/ /\ ~LruHit(m, p)
        /\ pkt' = [pkt EXCEPT ![c] = [p EXCEPT !.at = "miss"]]
        /\ UNCHANGED seen
     \/ /\ LruHit(m, p)
        /\ SendTo(c, p, lru[m][p.flow].pos, "lru")
        /\ seen' = [seen EXCEPT ![m] = Promise(p, p.flow, lru[m][p.flow].pos, now, @)]
  /\ UNCHANGED <<lru, conn_rate, now, stores>>

connection_table_lookup(c) ==
  LET m == LruOf(c)
      p == Keyed(m, pkt[c])
  IN
  /\ pkt[c].at = "vip" /\ ~RoutedById(pkt[c])
  /\ \/ /\ ~LruHit(m, p)
        /\ pkt' = [pkt EXCEPT ![c] = [p EXCEPT !.at = "miss"]]
        /\ UNCHANGED <<lru, seen>>
     \/ /\ LruHit(m, p)
        /\ SendTo(c, p, lru[m][p.flow].pos, "lru")
        /\ lru' = IF p.flow.proto = "UDP" THEN [lru EXCEPT ![m][p.flow].atime = now] ELSE lru
        /\ seen' = [seen EXCEPT ![m] = Promise(p, p.flow, lru[m][p.flow].pos, now, @)]
  /\ UNCHANGED <<conn_rate, now, stores>>

-----------------------------------------------------------------------------
(* A new connection, or one the connection table does not know.            *)

NewQuantum(c) == now - conn_rate[c].v2 > ONE_SEC

\* Mutant: connections are counted, and the limit is not looked at.
countedOnly(c) == FALSE

\* The counter stands still once it is beyond the limit: larger values are
\* treated alike.
is_under_flood(c) == ~NewQuantum(c) /\ conn_rate[c].v1 + 1 > MAX_CONN_RATE

CountConnection(c) ==
  conn_rate' = [conn_rate EXCEPT ![c] =
    IF NewQuantum(c) THEN [v1 |-> 1, v2 |-> now]
    ELSE IF @.v1 > MAX_CONN_RATE THEN @
    ELSE [@ EXCEPT !.v1 = @ + 1]]

\* The longest prefix of src in the LPM trie, if there is one.
LpmMatch(src) ==
  LET ps == PrefixesOf(src) IN
  {ps[i] : i \in {i \in DOMAIN ps : /\ lpm_src[ps[i]] # maxReals
                                    /\ \A j \in 1..(i - 1) : lpm_src[ps[j]] = maxReals}}

\* The choice of a real.  With F_HASH_DPORT_ONLY the flow key itself is
\* overwritten before it is hashed, and the choice is stored under that key.
get_packet_dst(c) ==
  LET p == pkt[c]
      flood == is_under_flood(c)
      rule == IF Has(p, "F_SRC_ROUTING") /\ ~flood THEN LpmMatch(p.flow.src) ELSE {}
      flow == IF rule = {} /\ Has(p, "F_HASH_DPORT_ONLY")
              THEN [p.flow EXCEPT !.sport = p.flow.dport, !.src = 0] ELSE p.flow
      n == IF rule # {} THEN lpm_src[CHOOSE s \in rule : TRUE]
           ELSE ch_rings[p.vip_info.num][get_packet_hash(flow.src, flow.sport, flow.dport)]
      stored == ~Has(p, "F_LRU_BYPASS") /\ ~flood
  IN
  /\ p.at = "miss"
  /\ CountConnection(c)
  /\ pkt' = [pkt EXCEPT ![c] =
       [p EXCEPT !.at = IF stored THEN "store" ELSE "encap", !.num = n, !.flow = flow,
                 !.atime = IF flow.proto = "UDP" THEN now ELSE 0,
                 !.via = IF rule # {} THEN "src" ELSE "ring"]]
  /\ seen' = IF stored THEN seen ELSE [seen EXCEPT ![LruOf(c)] = Drop(@, p.conn)]
  /\ stores' = IF stored THEN [stores EXCEPT ![c][now] = @ + 1] ELSE stores
  /\ UNCHANGED <<lru, now>>

\* Mutant: the new entry keeps the zero position it was initialised with.
new_dst_lruNoPos(p) == [pos |-> 0, atime |-> p.atime]

new_dst_lru(p) == [pos |-> p.num, atime |-> p.atime]

\* The insertion.  Another cpu may have inserted an entry with the same key
\* since the lookup: BPF_ANY replaces it.
updateLru(c) ==
  LET m == LruOf(c)
      p == pkt[c]
  IN
  /\ p.at = "store"
  /\ pkt' = [pkt EXCEPT ![c].at = "encap"]
  /\ lru' = [lru EXCEPT ![m] = Put(@, p.flow, new_dst_lru(p))]
  /\ seen' = [seen EXCEPT ![m] = Promise(p, p.flow, p.num, p.atime, OtherKeys(@, p.flow))]
  /\ UNCHANGED <<conn_rate, now, stores>>

\* PCKT_ENCAP_V4 / PCKT_ENCAP_V6: the packet leaves for bpf_reals[num].
encap(c) ==
  /\ pkt[c].at = "encap"
  /\ pkt' = [pkt EXCEPT ![c] = NoPkt]
  /\ UNCHANGED <<lru, conn_rate, now, seen, stores>>

\* The kernel makes room in an LRU map.
Evict(m, k) ==
  /\ lru' = [lru EXCEPT ![m] = Drop(@, k)]
  /\ seen' = [seen EXCEPT ![m] = OtherKeys(@, k)]
  /\ UNCHANGED <<conn_rate, now, stores>>
  /\ pkt' = [c \in Cpus |->
       IF pkt[c] # NoPkt /\ LruOf(c) = m THEN [pkt[c] EXCEPT !.session = NoSession] ELSE pkt[c]]

Tick ==
  /\ now < MaxTime
  /\ now' = now + 1
  /\ UNCHANGED <<pkt, lru, conn_rate, seen, stores>>

DataNext ==
  \/ \E c \in Cpus, p \in Packets : balancer_ingress(c, p)
  \/ \E c \in Cpus : quic_route(c)
  \/ \E c \in Cpus : connection_table_lookup(c)
  \/ \E c \in Cpus : get_packet_dst(c)
  \/ \E c \in Cpus : updateLru(c)
  \/ \E c \in Cpus : encap(c)
  \/ \E m \in LruMaps : \E k \in DOMAIN lru[m] : Evict(m, k)
  \/ Tick

-----------------------------------------------------------------------------
(* A step of the control plane, with its effect on the history: packets in *)
(* flight are not quiet, a real that has lost its number does not hold its *)
(* sessions, and a change of vip_map starts all connections anew.          *)

StillHeld(s) ==
  [s EXCEPT !.held = @ /\ numToReals'[s.num] = s.to]

Watch(p) ==
  IF p = NoPkt THEN p
  ELSE IF vip_map' # vip_map
  THEN [p EXCEPT !.quiet = FALSE, !.sameVips = FALSE, !.session = NoSession]
  ELSE [p EXCEPT !.quiet = FALSE, !.session = StillHeld(@)]

ControlStep ==
  /\ Next
  /\ pkt' = [c \in Cpus |-> Watch(pkt[c])]
  /\ seen' = [m \in LruMaps |->
       IF vip_map' # vip_map THEN <<>> ELSE [k \in DOMAIN seen[m] |-> StillHeld(seen[m][k])]]
  /\ UNCHANGED <<lru, conn_rate, now, stores>>

BalancerInit == Init /\ DataInit

BalancerNext == ControlStep \/ (DataNext /\ UNCHANGED vars)

BalancerSpec == BalancerInit /\ [][BalancerNext]_<<vars, dataVars>>

-----------------------------------------------------------------------------
\* What the program stores is fit to be used: numbers are within the map
\* "reals" and no entry is from the future; the counter stays at its limit.
BalancerTypeOK ==
  /\ \A c \in Cpus : pkt[c] = NoPkt \/ pkt[c].at \in {"vip", "miss"}
                     \/ (pkt[c].at \in {"store", "encap"} /\ pkt[c].num \in Nums)
  /\ \A m \in LruMaps : \A k \in DOMAIN lru[m] :
       lru[m][k].pos \in Nums /\ lru[m][k].atime \in 0..now
  /\ conn_rate \in [Cpus -> [v1 : 0..(MAX_CONN_RATE + 1), v2 : 0..now]]

\* End to end: while no bpf() call has failed, a packet that is processed
\* between two calls of the API leaves for a real with a weight of its VIP, if
\* it has one, for the real of the longest source routing rule that contains
\* its source, or for the real that is mapped to the QUIC id it carries.
PacketsReachConfigured ==
  \A c \in Cpus : ~bpfFailed /\ pkt[c].at = "encap" /\ pkt[c].quiet =>
    LET p == pkt[c]
        to == bpf_reals[p.num]
        ps == PrefixesOf(p.flow.src)
    IN
      /\ p.via = "ring" => \A v \in VipKeys :
           Present(v) /\ VipDefOf(v) = p.vip /\ Endpoints(v) # {} =>
             \E n \in Endpoints(v) : to = vips[v].hash[n]
      /\ p.via = "src" => \E i \in DOMAIN ps :
           /\ ps[i] \in Rules /\ to = numToReals[lpmSrcMapping[ps[i]]]
           /\ \A j \in 1..(i - 1) : ps[j] \notin Rules
      /\ p.via = "quic" => \A a \in Addrs : quicMapping[a] = p.quic => to = a

\* An established connection stays with its real (balancer_kern.c, connection
\* table): whatever happens to weights, rings, rules and other reals, its
\* packets and the ICMP errors about it leave for the real of its LRU entry,
\* which its last packet has found or inserted, while that real keeps its number
\* and the entry is not evicted, replaced, outdated or bypassed by a flood.
SessionKeepsReal ==
  \A c \in Cpus : pkt[c].at = "encap" =>
    LET p == pkt[c] IN
    p.session.held /\ ~Has(p, "F_HASH_DPORT_ONLY") => bpf_reals[p.num] = p.session.to

\* The same, and what the program stores stays within its bounds.
SessionsSafe == BalancerTypeOK /\ SessionKeepsReal

\* The limiter works: within a second a cpu inserts at most twice as many
\* entries as MAX_CONN_RATE says, at the end of one quantum and the beginning of
\* the next.
FloodLimited ==
  \A c \in Cpus, t \in 0..MaxTime :
    SumFunctionOnSet(stores[c], (t..(t + ONE_SEC)) \cap (0..MaxTime)) <= 2 * MAX_CONN_RATE
=============================================================================
