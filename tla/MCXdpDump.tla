----------------------------- MODULE MCXdpDump ------------------------------
(***************************************************************************)
(* xdpdump on two cpus, with a few combinations of its flags.              *)
(***************************************************************************)
EXTENDS XdpDump

Packet(eth, src, dst, proto, l4, len, bits) ==
  [eth |-> eth, src |-> src, dst |-> dst, proto |-> proto, l4 |-> l4, len |-> len, bits |-> bits]

ports(s, d) == <<htons(s), htons(d)>>

\* A cut TCP header, IPv4 with options where the ports should be, IPv6 packets
\* with one first word, and a frame that is not IP.
mcPackets ==
  {Packet("v4", <<1>>, <<2>>, IPPROTO_TCP, ports(1, 80), 50, {<<8, 1>>}),
   Packet("v4", <<1>>, <<3>>, IPPROTO_UDP, <<5, 6>>, 1500, {<<8, 0>>, <<8, 1>>, <<9, 0>>}),
   Packet("v6", <<1, 5>>, <<2, 6>>, IPPROTO_TCP, ports(1, 443), 74, {<<8, 1>>}),
   Packet("v6", <<1, 7>>, <<2, 8>>, IPPROTO_UDP, ports(1, 443), 200, {<<57, 0>>}),
   Packet("arp", <<1>>, <<2>>, 0, <<0, 0>>, 60, {})}

mcWords(p) == IF p.len > 100 THEN 4 ELSE 2

mcCommands ==
  LET none == [src |-> <<>>, dst |-> <<>>, sport |-> 0, dport |-> 0, proto |-> 0, offset |-> 0, offset_len |-> 0,
               pattern |-> {}, cpu |-> -1]
      show(filter) == [filter |-> filter, pcap |-> FALSE, packet_limit |-> 0, snaplen |-> 0]
      store(filter, limit, snaplen) ==
        [filter |-> filter, pcap |-> TRUE, packet_limit |-> limit, snaplen |-> snaplen]
  IN {show([none EXCEPT !.cpu = 1, !.sport = 65536]),
      store([none EXCEPT !.dport = 443, !.proto = IPPROTO_UDP], 2, 64),
      store([none EXCEPT !.src = <<1>>, !.sport = 1, !.offset = 8, !.offset_len = 1, !.pattern = {1}, !.cpu = 0], 0, 0),
      show([none EXCEPT !.src = <<1, 5>>, !.dst = <<2, 6>>, !.sport = 1, !.offset = 57, !.offset_len = 1]),
      store([none EXCEPT !.src = <<1, 5>>], 1, 0),
      show([none EXCEPT !.dst = <<2, 8>>, !.cpu = 0, !.proto = IPPROTO_TCP, !.pattern = {31}]),
      show([none EXCEPT !.src = <<1, 0>>, !.dst = <<2, 0>>]),
      show([none EXCEPT !.src = <<1>>, !.dst = <<2, 6>>])}
=============================================================================
