# Verification of katran

TLA+ modules for katran, an L4 load balancer: a C++ control plane (`KatranLb`)
programs BPF maps, which an XDP program reads for every packet; servers, clients
and tools stand around it. The modules are translated from the code; TLC checks
them on small instances, and TLAPS proves the main invariants of control plane,
monitor and xdpdump for every value of the constants. `PROJECT.json` lists components, runs,
mutants, the source lines behind each definition, hazards and theorems.

## The system and its parts

| Part | Code | Model |
|---|---|---|
| numbers of reals, reference counted and recycled | `KatranLb.cpp` 1659-1710 | `RealPool`; `RealNames` is what it promises |
| VIPs, their reals and rings | `KatranLb.cpp` 652-879, `Vip.cpp` | `VipTable` |
| QUIC ids of reals | `KatranLb.cpp` 1339-1400 | `QuicReals` |
| source routing rules | `KatranLb.cpp` 919-1060, 1178-1241 | `SrcRouting` |
| the users of numbers as one object | `KatranLb.cpp` | `KatranLb` (composes the four) |
| Maglev hashing | `CHHelpers.cpp` | `Maglev`, against the reference definition in `MaglevRing` |
| forwarding, seen from a session | `balancer_kern.c`, `pckt_parsing.h`, `handle_icmp.h` | `Balancer` (composed with `KatranLb`) |
| capture of packets | `KatranMonitor.cpp`, `KatranEventReader.cpp`, `PcapWriter.cpp`, writers | `Monitor` |
| start-up, attach, shutdown, LRUs | `KatranLb.cpp` 51-604, `BpfLoader.cpp` | `Lifecycle`, `BpfLoader` |
| the interface that katran shares with `xdproot`, `xdpdump`, `XdpDecap` | `xdproot.cpp`, `xdp_root.c`, `XdpDump.cpp`, `XdpDecap.cpp` | `XdpChain` (composed with `Lifecycle`) |
| cores, interrupts and NUMA nodes of a host | `start_katran/affinitize`, `start_katran/main` | `Affinity` |
| mac address, source addresses, health check and decap destinations, getters | `KatranLb.cpp` 606-650, 1243-1337, 1534-1600 | `LbCalls` |
| headers, encapsulation, checksums | `pckt_encap.h`, `csum_helpers.h`, `handle_icmp.h` | `Frames` |
| forwarding, seen from a frame; inline decapsulation; tc programs; simulator | `balancer_kern.c`, `healthchecking_*.c`, `KatranSimulator.cpp`, `xdpdecap.c` | `DataPath` (composed with `LbCalls`) |
| gRPC server and Go client | `KatranGrpcService.cpp`, `katranc.go` | `KatranGrpcService`, `Katranc` |
| Thrift server and C++ client | `KatranSimpleServiceHandler.cpp`, `KatranSimpleClient.cpp` | `KatranSimpleServiceHandler`, `KatranSimpleClient` |
| servers, clients, signals, watcher of the gateway | the above, `GrpcSignalHandler.cpp`, `default_watcher.go` | `Service` (composed with `LbCalls`) |
| perf rings and their reader | `BpfAdapter.cpp` 780-900 | `PerfRing`; `EventFifo` is what it promises |
| `xdpdump` | `tools/xdpdump` | `XdpDump` (composed with `PerfRing`) |

How they interact: VIPs, QUIC mappings and source routing rules take numbers
from one pool, and put numbers, not addresses, into the BPF maps `ch_rings`,
`quic_mapping` and `lpm_src`. The XDP program turns a packet into a number (by
QUIC id, connection table, source rule or ring) and the number into an address
with the map `reals`. The whole design rests on one promise: **a number in use
does not change its address**. It is what the proofs are about. Around it,
`Lifecycle` and `XdpChain` are about who is attached to the interface and with
which maps set up; `LbCalls` and `DataPath` about what happens to the bytes of a
frame while the small control arrays change; `Service` about calls that come from
several clients; `XdpDump` about a tool with three threads.

## How the code is modelled

* **Calls.** `KatranLb` is not thread safe; the servers call it under a mutex
  (`giant_`). So one call runs at a time: `op` (in `LbCalls`: `call`) says which,
  and a call is a sequence of steps, one for each iteration or `bpf()` system
  call, because the XDP program runs between any two of them. Early returns that
  change nothing are guards.
* **Failures.** With `BpfMayFail` each `bpf()` call may fail; `bpfFailed` stands
  for `lbStats_.bpfFailedCalls > 0`. In `Lifecycle` a failure at a step throws
  or is logged, as in the code, and the caller may call again.
* **Data.** An address string parses to an address or is `NoAddr`; the hash of an
  address is the address. Iteration over an `unordered_map` is a nondeterministic
  choice. The key `vip_num * chRingSize + pos` of `ch_rings` is a pair. Entries
  that are absent have a value outside the range (`maxReals`, `NoAddr`, `NoId`).
* **Batches.** `staged` is the `Vip` that the updates collected so far will make;
  `HeldReals` is what the VIP has a reference for in the middle of a call.
* **Sessions.** `Balancer` splits the processing of a packet where another actor
  can get in between: VIP lookup, connection table, choice, insertion,
  address. The struct `real_definition` is read through a pointer into an array
  map, so the address is the one at the end. `seen` and the fields `session`,
  `quiet` and `sameVips` of a packet are history; no guard reads them. A history
  entry is keyed by the connection (unordered pair of endpoints), not by the flow
  key the program computes, so that a wrong key shows.
* **Frames.** A frame is an Ethernet header and a sequence of headers with the
  fields that a receiver checks: protocol, length, TTL and checksum, the latter
  computed by the code's folding in 16 and 32 bits over the words that differ.
  `DataPath` gives the real of a flow by the constant `RealOf`; how the real is
  chosen is the subject of `Balancer`.
* **Life cycle.** A call of `loadBpfProgs`, `attachBpfProgs` or the destructor
  puts its steps into `todo`, computed from the configuration and the programs
  that are loaded; each system call is one step. A kill may come between any two.
* **Clients.** A program of a client is a sequence of RPCs made from the answers so
  far (`Katranc`, `KatranSimpleClient`). An RPC waits for `giant_`, runs, and its
  answer may be lost with the server. `hist` records what others have changed.
* **Monitor and xdpdump.** Readers, writer and calling thread interleave;
  `blockingWrite` of the `MPMCQueue` takes a ticket and returns once there is room.
* **Perf rings.** The kernel (external) writes a record, then moves `data_head`;
  the reader takes a snapshot of it and copies records that cross the end of the
  ring. Positions are kept as the code keeps them, modulo the size of the ring.

## Runs

Every run is expected to pass. A property whose name is that of several others in
conjunction is explained at its definition.

| Run | Question | Instance |
|---|---|---|
| `vips` | do pool, VIP numbers, `vip_map`, rings and counts stay right? | 2 VIPs with a flag, 3 addresses, 2 numbers, ring of 3, batches with invalid, known and weightless reals |
| `shared` | do the three kinds of users respect each other; does what the XDP program reads lead to the configured addresses; is `RealNames` implemented? | 1 VIP, 3 addresses, 2 numbers, 2 prefixes with room for 1 rule, ids around the limit |
| `faults` | does the bookkeeping survive failing `bpf()` calls, and numbers that run out? | 2 VIPs and 1 VIP number, 2 addresses and 1 number, 2 prefixes, every call may fail |
| `maglev` | does the code compute the ring of the reference definition, and end? | ring of 5, up to 3 endpoints, weights 1-2, all permutations |
| `sessions` | where do packets go while reals are added, drained, removed? | 1 cpu, 3 addresses, 2 numbers, SYN, data, ICMP error |
| `fallback_lru` | two cpus racing on one connection in a shared LRU | 2 cpus, 2 addresses |
| `udp` | shared keys, timeouts, refresh, and the limiter at a new second | VIP with port 0 and `F_HASH_NO_SRC_PORT`, 3 ticks, timeout 1, 1 new connection a second |
| `routing` | do ids and nested prefixes lead to the configured real? | 2 ids, 2 nested prefixes, 2 numbers |
| `monitor` | is the capture well formed, counted, and do the calls return? | 1 cpu, queue of 2, both storages, failing writes |
| `lifecycle` | is what is attached set up, does katran see the packets, and is everything gone when it should be? | 3 objects in a row, 2 runs of each tool, failures and kills everywhere, hosts and configurations of `MCXdpChain` |
| `service` | do library, clients and frames tell the same story; do server and watcher get there? | one situation per initial state: frames with four sets of compiled features, or one program of either client against another client |
| `xdpdump` | does xdpdump end, clean; are its rings queues? | 2 cpus, ring of 8 words, queue of 2, 4 packets, 2 signals |

**Bounds.** There are always fewer numbers than addresses, or as many, so that
numbers run out and are recycled; two users are enough to steal a number from
one another. Rings have 2 or 3 positions: enough to be written in part. The
limits `refCountBound`, `MaxTime`, `MaxEndpoints`, `MaxWeight`, `ringSize`,
`MaxInstances`, `MaxRootRuns`, `MaxToolRuns`, `MaxCommands`, `MaxMoves`,
`MaxPackets`, `MaxSignals` only bound the search. Three objects of `KatranLb` are
one that is killed, one that finds its remains, and one more. The counter of the
flood limiter stops one above `MAX_CONN_RATE`, where the code treats all values
alike. Counters of VIPs wrap at 3 (`CounterLimit`) so that two readings see a
wrap. The frames of `service` are at the limits of the code: TTL 1 and 2, the
largest packet that fits and the smallest that does not, checksums that carry
twice; after a second call only usual ones arrive, and a frame that has left the
programs, and reads no map any more, is not interleaved with calls. A perf ring of 8 words has records that end exactly at, before and
beyond its end. Symmetry is used for VIPs in `vips` and cpus in `fallback_lru`, in
runs with invariants only.

**Deadlock** is checked except where the system may stop: `maglev` (the function
returns), `monitor` (the object is destroyed), `lifecycle`, `service` and `xdpdump`
(processes end, and the bounds are used up).

**Fairness.** `RingIsFilled`: the loop runs on. Monitor: weak fairness of the writer thread and the calling thread when not
blocked. xdpdump: of main thread, event base and writer. Service: of the threads of
the server (some waiting RPC gets a free mutex), of the shutdown thread and of
start_katran. Nothing is assumed of the XDP program, the event readers of the
monitor, the clients, or that packets or signals come.

**Refinement.** `ImplementsRealNames`: with numbers as names and users as holders,
`KatranLb` implements `RealNames`, where a name changes its target only when
nobody holds it (also proved). `EventsAreFifo`: the perf rings, with their positions, wraps and
snapshots, implement one FIFO queue per cpu (`EventFifo`): an event that finds the
ring full is never in the queue, and no other one is lost, repeated, torn or
reordered.

**What the larger runs show.** `lifecycle`: whoever comes after an object that was
destroyed finds nothing of it (`NothingStays`); an object whose `loadBpfProgs` has
returned has every map set up before it attaches, with an LRU for each cpu that
gets packets (`AttachedIsPrepared`); and the chain of tail calls reaches katran,
also with tools before it or their remains after a kill (`RootUsesPinned`,
`KatranSeesPackets`). `service`: what `KatranLb` tells of MAC address, health
checks, decapsulation and flows is what the programs do (`LibraryTells`); the
frames they send are understood by a receiver (`FramesWellFormed`) and come
out where and as they should (`FramesArrive`); clients clear all that they should
and show what is there (`ClearAllClears`, `ShownIsTrue`), a signal stops the
server (`ServerStops`), and the watcher of the gateway follows it
(`WatcherConverges`).

**Exceptions in the properties.** Most properties about maps hold while no `bpf()`
call has failed, and that a simulated flow goes to its real (`LibraryTells`) while no
run of the simulator has. `RingIsFilled` excepts endpoints with a skip of
`ring_size - 1`. `SessionKeepsReal` excepts `F_HASH_DPORT_ONLY`, is about reals
that keep their number, and says nothing of two packets that miss the LRU at once.
`FramesWellFormed` excepts the probe of an IPv6 packet to an IPv4 destination, echo
requests whose checksum wraps when it is adjusted, and packet-too-big answers whose
`frag_off` comes from the headroom. It and `FramesArrive` except ICMP errors about a
tunnel. `CaptureIsRight` is about files without a failed write, and
`MonitorCallsReturn` about a process that no exception of `restart` has ended.
`RateIsTraffic` excepts VIPs deleted or added meanwhile and `showIcmpStats` of the
C++ client. `WatcherConverges` is about a MAC address that nobody else changes and a
gateway with a route. `EndsWhenAsked` excepts one state, `Stuck`. `ShutdownJoins` is
about a shutdown message that the queue has taken. Each exception is code that
behaves as the next section says.

## Observations

Behaviour of the code, met while modelling, that differs from what a comment or
document says or that a caller would hardly expect. Most of it is in the models, and
the properties are about the rest. Some is only written down here: file descriptors
that stay open, MAC addresses of the right length that do not parse, the LRU
entries and the byte order of simulated flows, IPv4 with IPv6 inside and UDP to port
6080. A batch that names a real twice is in the model, but in no run.

Control plane:

* `KatranLb.cpp:836`: `modifyRealsForVip(DEL)` with one real twice gives its
  reference back twice; the number can be recycled while another VIP uses it
  (`KatranLbStructs.h:56` says only at count 0). The proofs assume `DistinctReals`.
* `KatranLb.cpp:948`: an invalid prefix is counted twice when
  `addSrcRoutingRule` runs out of space. `:983`: a rule that is overwritten keeps its
  old reference, so the count is an upper bound.
* `KatranLb.cpp:1353`: QUIC id 65535 is accepted but lies behind the end of
  `quic_mapping`. An id that was never written reads as real number 0.
* `KatranLb.cpp:1683`: connections of a removed real go to the real that gets its
  number next, where `USAGE.md:302` says they stay.
* `Vip.cpp:37`: draining the only real of a VIP leaves its ring in place
  (`USAGE.md:293`).
* `CHHelpers.cpp:75`: in 32 bits an endpoint with skip = ring size - 1 misses one
  position (`(ring size - 1)^2` is 0); if it is the last free one the loop does not
  end (rare).
* `KatranLb.cpp:614`: `getMac` tells the new address although a failed `changeMac`
  has not installed it. A MAC address that does not parse is installed as zeros.
* `KatranLb.cpp:251`: a core equal to `kMaxForwardingCores` passes the check.
  `:539`: a second `loadBpfProgs` after one that failed half-way collides with what
  the first has loaded. The file descriptors of LRUs are not closed. `:134`:
  a standalone object with `disableForwarding` detaches a program of someone else.
* Counters of a VIP are not reset when its number is used again; those of a VIP that
  is gone read as zeros.

XDP and tc programs:

* `balancer_kern.c:116`: with `F_HASH_DPORT_ONLY` a connection is stored in the LRU
  under a key that is never looked up.
* `handle_icmp.h:76`: the checksum of an echo reply is off by one when its
  adjustment carries. `:145`: `id` and `frag_off` of a packet-too-big answer are
  not set, so that it can look like a fragment.
* `healthchecking_helpers.h:90`: an IPv6 probe to an IPv4 destination is malformed;
  so is an IPv6 VIP with an IPv4 real. Mark 0 is accepted for a health check
  but never matches.
* `balancer_kern.c:385`: an ICMP error about an IPIP packet, from a decapsulation
  destination, is decapsulated as if it were one; what is sent on is not a packet.
* Inline decapsulation takes IPv6 in IPv4 for IPv6 in IPv6, and takes UDP to port 6080
  for GUE also if that is a VIP. These inputs are left out of `service`.
* The simulator runs the real program: a simulated flow enters the LRU. The length in
  its UDP header is in host byte order.

Servers, clients, tools:

* `PcapWriter.cpp:177`: packet limit 0, which `PcapWriter.h:60` calls unlimited,
  captures nothing. `KatranMonitor.cpp:76`: a shutdown message that finds the queue
  full is lost, and `join` does not return.
* `FileWriter.cpp:30`: a packet that could not be written to the file is counted as
  captured, and what was written of it stays. `:49`: `restart` throws when the
  file cannot be opened again, in a thread that catches nothing: the process ends.
* The first round of a `show` command displays totals; a difference to a VIP deleted
  meanwhile wraps. The C++ `showIcmpStats` keeps the difference instead of the
  reading. The Go client skips failed VIPs in sums and repeats a failed reading of
  the LRU statistics without a pause. `getVipFlags` that fails shows all flags.
* The Go `list` ends at a VIP that was deleted meanwhile; `clearAll` dies after
  the VIPs when health checking is off.
* The watcher picks a neighbour's address when there is no default route, dies when
  `ChangeMac` fails, and does not undo the `changeMac` of somebody else.
* `affinitize.go` finds interrupts of `eth10` when asked for `eth1`.
* `XdpDump.cpp:303`: the signal handler blocks on a full queue; if the writer has
  ended at `packet_limit` meanwhile, xdpdump hangs. An exception after the
  threads have started ends the process.
* `xdpdump_tool.cpp:81`: only an IPv6 source makes the filter IPv6; otherwise the first
  words of addresses are compared, also those of IPv6 packets. `XdpDumpKern.h:86`:
  ports are looked for behind an IP header without options, and are 0 if the
  header there is cut off. `:222`: a pattern needs four bytes behind its offset,
  however short it is. `XdpDump.cpp:149`: a pattern without `offset_len` is ignored.
  Ports and protocol numbers that are too large are cut.

## Proofs

| Module | Extends | What it proves |
|---|---|---|
| `PoolProofs` | `KatranLb` | operations of the pool; what each changes of users and references |
| `KatranLbProofs` | `PoolProofs` | `PoolSafe`, `VipNumbersSafe`, `VipMapSafe`, `EntriesSafe`, `ZeroIsSuccess` |
| `CountingProofs` | `PoolProofs` | finite sets of users: one more, one less, at most as many as references |
| `UserStepsProofs` | `PoolProofs` | for every step, which user gets or loses which number |
| `ServingProofs` | `KatranLbProofs` | invariants of rings, QUIC ids and source prefixes |
| `ControlPlaneProofs` | the three before | `ControlPlaneSafe`, `UsersCovered`, `HeldNumbersStay`, `NumbersAreNames`, `RingsSafe`, `ServingSafe` |
| `MonitorProofs` | `Monitor` | `MonitorTypes`, `CaptureReadable`, `ReportsSafe` |
| `XdpDumpProofs` | `XdpDump` | `EndsClean` |

All hold for any sets of addresses, VIPs, prefixes, ids, packets and cpus, any
batches and limits, and with failing `bpf()` calls. The specifications in them are
the ones of the runs.

**Control plane, one step at a time** (`KatranLbProofs`). `PoolSafe` is type
correctness and `PoolPartition`; its invariant `PoolInv` adds `CallOK`, what a step
of a call knows of its local variables. Without it a step could use a VIP number or a
ring entry out of range. `VipNumbersSafe` (`VipNumPartition`), `VipMapSafe`
(`VipMapAgrees`) and `EntriesSafe` (the map `reals` has the address of every number
in use) follow from the same invariant. `ZeroIsSuccess` (`ZeroMeansInstalled`) needs
`AddCallOK`: in each phase of `addSrcRoutingRule` the sources parsed so far are
prefixes, and the prefixes visited so far are installed with the destination of the
call.

**Users and references** (`ControlPlaneProofs`). The invariant is `IndInv`, which run
`shared` checks too. It adds `LoopOK` to `PoolInv`: a real that the loop takes for
the VIP's own is held by the VIP, the reals still to visit are different, and a VIP
that does not exist holds nothing. The argument: every step takes one reference for
one user, gives one up with its user, or does neither; each of the three keeps the
number of users below the count, by the cardinality of finite sets; a number is
recycled only at count 0, when it has no user. From it follow `UsersCovered`,
`HeldNumbersStay`, and the refinement `NumbersAreNames`: initial
states map to initial states of `RealNames`, and every step maps to one of its
steps or to a stutter.

**What the XDP program reads.** `RingsSafe` (`RingServesVip`) needs `IndInv` and an
invariant about calls in progress: a ring entry that is not in the updates still to be
written has an endpoint of the VIP. `ServingSafe` (`ServedIsConfigured`) adds the
same for `quic_mapping` and `lpm_src`: an entry is what has been configured, or the
call in progress is about to write it, and its number is held, so that it keeps its
address.

**Monitor.** `MonitorInv` relates queue, writers and the threads that are in the
middle of something: a writer that has no header holds nothing, and one that has
a header begins with it, unless that write has failed; the message of a
`blockingWrite` that waits is the only one beyond the size of the queue; and if the
last stop or restart, in the queue or handled, is a stop, the XDP program does not
report.

**xdpdump.** `DumpInv` says of every place of the main thread which of the other
threads exist (`ThreadsOK`), and that ring positions, queue and file keep to their
limits, with one message of a blocked signal handler beyond.

**Assumptions.** Those on constants are named and stand in the modules that declare
them. `RingAssumption` (a ring over the endpoints, if there is one) is what `maglev`
checks of the code where its loop ends. Three more are hypotheses of
theorems, because the code needs them:

* `DistinctReals` (all of `ControlPlaneProofs`): no call of `modifyRealsForVip` names
  an address twice. The first observation shows that it is needed.
* `OneSpelling` (`VipMapSafe`): a VIP has one spelling. `vips_` is keyed by the
  string, `vip_map` by the address it parses to; two spellings share one entry.
* `OneAddressPerId` (`ServingSafe`): no two addresses have one QUIC id at the same
  time; `quic_mapping` has room for one of them. An id may move to another address.

**Only model-checked:**

* liveness (`RingIsFilled`, `MonitorCallsReturn`, `ShutdownJoins`, `EndsWhenAsked`,
  `ServerStops`, `WatcherConverges`): fairness and `ENABLED` are out of the
  prover's reach;
* `RingIsRight` of Maglev and `EventsAreFifo` (the contents of a perf ring are a
  recursive function), and the sums in `CaptureIsRight` (`AmountIsStored`,
  `BuffersInBound`): induction over data is out of reach too;
* `RefCountExact`, which needs the exact count in the middle of each call;
* `Balancer`, `Lifecycle` and `XdpChain`, `LbCalls`, `DataPath`, `Service`.

## Not modelled

* Conversions (`IpHelpers`, `MacHelpers`) and the Murmur hashes: an address is a
  value that parses or not, a hash is an input.
* How the messages of `Netlink` and the arguments of `bpf()` are built; what they do
  is an external step.
* `lbStats_` but for `bpfFailedCalls`, the counters of the tc and decap programs,
  log lines, texts, tables and command line flags of clients and tools.
* The data race of `KatranMonitor::getEventBuffer`, whose outcome depends on the
  inside of `folly::IOBuf`; two spellings of one VIP address (`VipDefOf` is injective
  in the runs, and in `VipMapSafe`). Both are hazards without a property.
* Registration of a reader of xdpdump with its event base is one step; `munmap`
  at the end of the process is left out.
* `RefCountExact` is checked without source routing rules, where the count is an upper
  bound (`RefCountCoversUsers`). `testing` turns calls into early returns.
* `xdp_pktcntr`, the generator of tcpdump expressions, the dissector and
  `ByteRangeWriter`: no state that others use. Build scripts and tests.
