------------------------------- MODULE Frames -------------------------------
(***************************************************************************)
(* Ethernet frames as stacks of headers, and what the BPF programs do to   *)
(* them: encapsulation and decapsulation (pckt_encap.h), ICMP replies      *)
(* (handle_icmp.h) and checksums (csum_helpers.h).  A frame is             *)
(* [eth, hdrs]; the payload is a last "header" of kind "bytes".  An        *)
(* address is [v6, a].  Addresses and constant fields count 0 in the       *)
(* checksums; rest stands for the words of a header that the programs      *)
(* leave alone.                                                            *)
(***************************************************************************)
EXTENDS Integers, Sequences, SequencesExt

MAX_PCKT_SIZE == 1514
ICMP_TOOBIG_SIZE == 98
ICMP6_TOOBIG_SIZE == 262
DEFAULT_TTL == 64
GUE_DPORT == 6080
ETH_HLEN == 14

HdrSize(h) ==
  CASE h.k = "v4" -> 20
    [] h.k = "v6" -> 40
    [] h.k = "TCP" -> 20
    [] h.k = "bytes" -> h.n
    [] OTHER -> 8

Bytes(hdrs) == FoldLeft(LAMBDA n, h : n + HdrSize(h), 0, hdrs)

FrameLen(f) == ETH_HLEN + Bytes(f.hdrs)

Opaque(n) == [k |-> "bytes", n |-> n]

\* What is left of a stack when its first n bytes are removed; no header can
\* be recognised if they do not end where a header ends.
Strip(hdrs, n) ==
  IF \E i \in 0..Len(hdrs) : Bytes(SubSeq(hdrs, 1, i)) = n
  THEN SubSeq(hdrs, 1 + CHOOSE i \in 0..Len(hdrs) : Bytes(SubSeq(hdrs, 1, i)) = n, Len(hdrs))
  ELSE <<Opaque(Bytes(hdrs) - n)>>

\* The first n bytes of a frame's stack: a header that is cut is opaque.
Cut(hdrs, n) ==
  LET i == CHOOSE i \in 0..Len(hdrs) : /\ Bytes(SubSeq(hdrs, 1, i)) <= n
                                       /\ i < Len(hdrs) => Bytes(SubSeq(hdrs, 1, i + 1)) > n
  IN SubSeq(hdrs, 1, i) \o <<Opaque(n - Bytes(SubSeq(hdrs, 1, i)))>>

-----------------------------------------------------------------------------
(* Checksums: 16 bit one's complement.                                     *)

FoldOnce(csum) == IF csum > 65535 THEN (csum % 65536) + (csum \div 65536) ELSE csum

Folded(csum) == FoldOnce(FoldOnce(FoldOnce(FoldOnce(csum))))

\* Mutant: the carry is dropped.
foldNoCarry(csum) == 65535 - (csum % 65536)

csum_fold_helper(csum) == 65535 - Folded(csum)

\* The words of an IPv4 header but the checksum; of an ICMP header likewise.
IpSum(h) == h.rest + h.len + h.ttl
IcmpSum(h) == h.rest + h.type

ipv4_csum_inline(h) == csum_fold_helper(IpSum(h))
ipv4_csum(h) == csum_fold_helper(IcmpSum(h))

-----------------------------------------------------------------------------
(* New headers (encap_helpers.h).  Lengths are 16 bit.                     *)

create_v4_hdr(src, dst, pkt_bytes, proto) ==
  LET h == [k |-> "v4", src |-> src, dst |-> dst, proto |-> proto, ttl |-> DEFAULT_TTL,
            len |-> (pkt_bytes + 20) % 65536, frag |-> FALSE, rest |-> 0, check |-> 0]
  IN [h EXCEPT !.check = ipv4_csum_inline(h)]

create_v6_hdr(src, dst, payload_len, proto) ==
  [k |-> "v6", src |-> src, dst |-> dst, proto |-> proto, ttl |-> DEFAULT_TTL,
   len |-> payload_len % 65536, frag |-> FALSE]

create_udp_hdr(sport, dport, len) ==
  [k |-> "UDP", sport |-> sport, dport |-> dport, len |-> len % 65536]

-----------------------------------------------------------------------------
(* Encapsulation.  pkt_bytes is tot_len of an IPv4 packet, payload_len of  *)
(* an IPv6 packet.                                                         *)

\* The frame with outer headers, sent to mac from where it was received.
Outer(f, mac, hdrs) ==
  [eth |-> [dst |-> mac, src |-> f.eth.dst, proto |-> hdrs[1].k], hdrs |-> hdrs \o f.hdrs]

\* The source address is a prefix and the hash of the flow.
IpipSrc(is_ipv6) == [v6 |-> is_ipv6, a |-> "ipip_prefix"]

encap_v6(f, mac, is_ipv6, dst, pkt_bytes) ==
  Outer(f, mac, <<create_v6_hdr(IpipSrc(TRUE), dst,
                                IF is_ipv6 THEN pkt_bytes + 40 ELSE pkt_bytes,
                                IF is_ipv6 THEN "IPV6" ELSE "IPIP")>>)

encap_v4(f, mac, dst, pkt_bytes) ==
  Outer(f, mac, <<create_v4_hdr(IpipSrc(FALSE), dst, pkt_bytes, "IPIP")>>)

\* The source port is a hash of the flow, so 0 stands for it.
gue_encap_v4(f, mac, src, dst, pkt_bytes) ==
  Outer(f, mac, <<create_v4_hdr(src, dst, pkt_bytes + 8, "UDP"),
                  create_udp_hdr(0, GUE_DPORT, pkt_bytes + 8)>>)

gue_encap_v6(f, mac, is_ipv6, src, dst, pkt_bytes) ==
  LET bytes == IF is_ipv6 THEN pkt_bytes + 48 ELSE pkt_bytes + 8 IN
  Outer(f, mac, <<create_v6_hdr(src, dst, bytes, "UDP"), create_udp_hdr(0, GUE_DPORT, bytes)>>)

-----------------------------------------------------------------------------
(* Decapsulation.  The Ethernet header moves with its addresses; its type  *)
(* becomes that of the inner packet.                                       *)

Inner(f, n, proto) == [eth |-> [f.eth EXCEPT !.proto = proto], hdrs |-> Strip(f.hdrs, n)]

Proto(inner_v4) == IF inner_v4 THEN "v4" ELSE "v6"

decap_v6(f, inner_v4) == Inner(f, 40, Proto(inner_v4))
decap_v4(f) == Inner(f, 20, "v4")
gue_decap_v4(f) == Inner(f, 28, "v4")
gue_decap_v6(f, inner_v4) == Inner(f, 48, Proto(inner_v4))

Drop(f) == [act |-> "DROP", f |-> f]
Pass(f) == [act |-> "PASS", f |-> f]
Send(f) == [act |-> "TX", f |-> f]

\* Mutant: the TTL is left alone.
ttlKept(h) == h

\* The header with its TTL decremented; 0 wraps to 255.
decrement_ttl(h) ==
  LET ttl == (h.ttl + 255) % 256
      csum == h.check + 1
  IN IF h.k = "v6" THEN [h EXCEPT !.ttl = ttl]
     ELSE [h EXCEPT !.ttl = ttl, !.check = (csum % 65536) + (csum \div 65536)]

-----------------------------------------------------------------------------
(* ICMP.                                                                   *)

swap_mac(eth) == [eth EXCEPT !.dst = eth.src, !.src = eth.dst]

\* The reply to an echo request: the checksum is adjusted, without a carry.
send_icmp_reply(f) ==
  LET ip == f.hdrs[1]
      reply == [ip EXCEPT !.ttl = DEFAULT_TTL, !.src = ip.dst, !.dst = ip.src]
      icmp == [f.hdrs[2] EXCEPT !.type = 0, !.check = (@ + 8) % 65536]
  IN Send([eth |-> swap_mac(f.eth),
           hdrs |-> <<[reply EXCEPT !.check = ipv4_csum_inline(reply)], icmp>>
                      \o SubSeq(f.hdrs, 3, Len(f.hdrs))])

send_icmp6_reply(f) ==
  LET ip == f.hdrs[1]
      reply == [ip EXCEPT !.ttl = DEFAULT_TTL, !.src = ip.dst, !.dst = ip.src]
      icmp == [f.hdrs[2] EXCEPT !.type = 129, !.check = (@ + 65535) % 65536]
  IN Send([eth |-> swap_mac(f.eth), hdrs |-> <<reply, icmp>> \o SubSeq(f.hdrs, 3, Len(f.hdrs))])

Icmp(kind, type) ==
  LET h == [k |-> kind, type |-> type, mtu |-> MAX_PCKT_SIZE - ETH_HLEN,
            rest |-> MAX_PCKT_SIZE - ETH_HLEN, check |-> 0]
  IN [h EXCEPT !.check = ipv4_csum(h)]

\* What the headroom before a packet may hold where the new IPv4 header has its
\* identification and fragment offset, which are not set.
Headroom == [frag : BOOLEAN, rest : {0, 65535}]

\* A new IPv4 header and ICMP header before the first bytes of the packet.
send_icmp4_too_big(f, room) ==
  LET ip == f.hdrs[1]
      hdr == [create_v4_hdr(ip.dst, ip.src, ICMP_TOOBIG_SIZE + 28 - ETH_HLEN - 20, "ICMP")
                EXCEPT !.frag = room.frag, !.rest = room.rest]
  IN Send([eth |-> swap_mac(f.eth),
           hdrs |-> <<[hdr EXCEPT !.check = ipv4_csum_inline(hdr)], Icmp("ICMP", 3)>> \o f.hdrs])

send_icmp6_too_big(f) ==
  LET ip == f.hdrs[1] IN
  Send([eth |-> swap_mac(f.eth),
        hdrs |-> <<create_v6_hdr(ip.dst, ip.src, ICMP6_TOOBIG_SIZE - 6, "ICMPV6"),
                   Icmp("ICMPV6", 2)>> \o f.hdrs])

send_icmp_too_big(f, is_ipv6, room) ==
  LET size == IF is_ipv6 THEN ICMP6_TOOBIG_SIZE ELSE ICMP_TOOBIG_SIZE
      quote == [f EXCEPT !.hdrs = Cut(@, size - ETH_HLEN)]
  IN IF is_ipv6 THEN send_icmp6_too_big(quote) ELSE send_icmp4_too_big(quote, room)

-----------------------------------------------------------------------------
(* What a receiver expects of a frame.                                     *)

IsIp(h) == h.k \in {"v4", "v6"}
IsIcmp(h) == h.k \in {"ICMP", "ICMPV6"}

KindOf(proto) == CASE proto = "IPIP" -> "v4" [] proto = "IPV6" -> "v6" [] OTHER -> proto

\* A header agrees with what follows it: protocol, length and checksum.
HeaderFits(hdrs, i) ==
  LET h == hdrs[i]
      rest == Bytes(SubSeq(hdrs, i + 1, Len(hdrs)))
  IN
  /\ IsIp(h) => /\ h.len = IF h.k = "v4" THEN rest + 20 ELSE rest
                /\ i < Len(hdrs) /\ (~h.frag => hdrs[i + 1].k = KindOf(h.proto))
                /\ h.k = "v4" => Folded(IpSum(h) + h.check) = 65535
  /\ h.k = "UDP" => /\ h.len = rest + 8
                    /\ h.dport = GUE_DPORT => IsIp(hdrs[i + 1])
  /\ IsIcmp(h) => Folded(IcmpSum(h) + h.check) = 65535

\* What an ICMP error quotes is cut, and not looked at.
WellFormed(f) ==
  /\ f.hdrs # <<>> /\ f.eth.proto = f.hdrs[1].k
  /\ \A i \in DOMAIN f.hdrs :
        (\A j \in 1..i - 1 : ~IsIcmp(f.hdrs[j])) => HeaderFits(f.hdrs, i)
=============================================================================
