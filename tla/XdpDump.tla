------------------------------ MODULE XdpDump -------------------------------
(***************************************************************************)
(* The tracer xdpdump from its start to its end: main thread, event base   *)
(* thread (readers of the perf rings, signals) and writer thread (pcap     *)
(* file), the queue between the last two, and the BPF program with its     *)
(* filter.  Its place among the programs of the root array is in module    *)
(* XdpChain.                                                               *)
(***************************************************************************)
EXTENDS PerfRing

CONSTANTS
  Commands,     \* command lines: their flags
  kQueueCapacity,
  MaxPackets,   \* bound: packets that are traced
  MaxSignals    \* bound: signals

VARIABLES
  options,    \* flags of the command line
  main,       \* where the main thread is
  evb,        \* event base thread: "none", "created", "loop", "blocked", "ended"
  writer,     \* writer thread: "none", "wait", "run", "ran", "join", "ended"
  terminate,  \* terminateLoopSoon was called
  queue,      \* queue_
  file,       \* records given to the data writer: packet, captured length
  readers,    \* cpus with an open reader
  attached,   \* the program is in the root array
  signals,    \* signals: raised, and not yet handled
  packets,    \* packets so far
  failed      \* history: a system call failed

threads == <<main, evb, writer, terminate>>
dumpVars == <<ringVars, options, threads, queue, file, readers, attached, signals, packets, failed>>

MAX_LEN == 128
kMaxSnapLen == 65535
StopMsg == <<>>

Smaller(x, y) == IF x < y THEN x ELSE y

-----------------------------------------------------------------------------
(* The filter.  An address is a sequence of words, one of IPv4 and two for *)
(* those of IPv6; <<>> if not given.  A packet is [eth, src, dst, proto,   *)
(* l4, bits, len]: eth is the type of the frame and len its length; l4 are *)
(* the two 16 bit words, in memory order, behind an IP header without      *)
(* options: the ports of TCP and UDP if the header has none; bits are the  *)
(* bits that are set, as <<byte behind the Ethernet header, bit>>.         *)

ETH_HLEN == 14
IPPROTO_TCP == 6
IPPROTO_UDP == 17

Addresses == {addr \in Seq(Nat) : Len(addr) \in {1, 2}}

IsV6(addr) == Len(addr) > 1

XdpDumpFilter ==
  [src : Addresses \cup {<<>>}, dst : Addresses \cup {<<>>}, sport : Int, dport : Int, proto : Int,
   offset : 0..65535, offset_len : 0..4, pattern : SUBSET (0..31), cpu : Int]

\* What the flags of a command line can be.
Options == [filter : XdpDumpFilter, pcap : BOOLEAN, packet_limit : Nat, snaplen : 0..kMaxSnapLen]

ASSUME DumpAssumption ==
  /\ kQueueCapacity \in Nat
  /\ Commands \subseteq Options

\* An IPv6 destination alone does not make the filter one for IPv6.
ipv6(o) == IsV6(o.src)

\* Addresses of different families.
rejected(o) ==
  o.src # <<>> /\ o.dst # <<>> /\ IsV6(o.src) # IsV6(o.dst)

htons(x) == (x % 256) * 256 + x \div 256

\* The words of an address of a packet, as in the union.
union(addr) == IF IsV6(addr) THEN addr ELSE addr \o <<0>>

\* The words that are compared: all of an IPv6 filter, otherwise the first.
same(o, given, addr) ==
  given = <<>> \/ IF ipv6(o) THEN union(addr) = given ELSE addr[1] = given[1]

calc_offset(p) == ETH_HLEN + (IF p.eth = "v6" THEN 40 ELSE 20)

\* Options of IPv4 are not looked for; what is not there is 0.
port16(p) ==
  LET size == CASE p.proto = IPPROTO_TCP -> 20 [] p.proto = IPPROTO_UDP -> 8 [] OTHER -> 0
  IN IF size # 0 /\ p.len >= calc_offset(p) + size THEN p.l4 ELSE <<0, 0>>

\* The flags are cut to the size of the field that they are compared with.
SamePort(given, port) == given # 0 => port = htons(given % 65536)

\* The first offset_len bytes of the four at offset, all of which must be there.
pkt_chunk(o, p) == {n \in 0..8 * o.offset_len - 1 : <<o.offset + n \div 8, n % 8>> \in p.bits}

process_packet(o, p, c) ==
  /\ o.cpu >= 0 => c = o.cpu
  /\ p.len >= calc_offset(p)
  /\ same(o, o.src, p.src) /\ same(o, o.dst, p.dst)
  /\ SamePort(o.sport, port16(p)[1]) /\ SamePort(o.dport, port16(p)[2])
  /\ o.proto # 0 => p.proto = o.proto % 256
  /\ o.offset_len > 0 => /\ ETH_HLEN + o.offset + 4 <= p.len
                         /\ o.pattern \subseteq pkt_chunk(o, p)

\* An IP packet is traced if it matches; all go on to the next program.
xdpdump(c, p) ==
  /\ attached /\ main # "over" /\ packets < MaxPackets
  /\ IF p.eth \in {"v4", "v6"} /\ process_packet(options.filter, p, c) /\ c \in readers
     THEN bpf_perf_event_output(c, p) /\ packets' = packets + 1
     ELSE UNCHANGED <<ringVars, packets>>
  /\ UNCHANGED <<options, threads, queue, file, readers, attached, signals, failed>>

-----------------------------------------------------------------------------
(* Main thread: XdpDump::run.                                              *)

At(where) == main = where
Go(where) == main' = where
Syscall(ok) == failed' = (failed \/ ~ok)

\* getJmpFd, prepareSharedMap, prepareCflags, compile and load.
load ==
  /\ At("start")
  /\ \/ rejected(options.filter) /\ Go("over") /\ UNCHANGED failed
     \/ ~rejected(options.filter) /\ \E ok \in BOOLEAN : Syscall(ok) /\ Go(IF ok THEN "pump" ELSE "over")
  /\ UNCHANGED <<ringVars, options, evb, writer, terminate, queue, file, readers, attached, signals, packets>>

pumpEventBase ==
  /\ At("pump") /\ Go("startWriter")
  /\ evb' = "created"
  /\ UNCHANGED <<ringVars, options, writer, terminate, queue, file, readers, attached, signals, packets, failed>>

tryStartPcapWriter ==
  /\ At("startWriter") /\ Go("readers")
  /\ writer' = IF options.pcap THEN "wait" ELSE "join"
  /\ UNCHANGED <<ringVars, options, evb, terminate, queue, file, readers, attached, signals, packets, failed>>

\* The end of the process, whatever the threads do: an exception while they
\* run ends in std::terminate.
Over == main' = "over" /\ evb' = "ended" /\ writer' = "ended" /\ UNCHANGED terminate

startEventReaders ==
  /\ At("readers")
  /\ readers' \in SUBSET Cpus /\ Syscall(readers' = Cpus)
  /\ IF readers' = {} THEN Over ELSE Go("signals") /\ UNCHANGED <<evb, writer, terminate>>
  /\ UNCHANGED <<ringVars, options, queue, file, attached, signals, packets>>

startSigHandler ==
  /\ At("signals") /\ Go("attach")
  /\ UNCHANGED <<ringVars, options, evb, writer, terminate, queue, file, readers, attached, signals, packets, failed>>

attach ==
  /\ At("attach")
  /\ \E ok \in BOOLEAN : /\ Syscall(ok) /\ attached' = ok
                         /\ IF ok THEN Go("sleep") /\ UNCHANGED <<evb, writer, terminate>> ELSE Over
  /\ UNCHANGED <<ringVars, options, queue, file, readers, signals, packets>>

\* Mutant: the thread of the event base is waited for, not that of the writer.
sleepForEvb ==
  /\ At("sleep") /\ evb = "ended" /\ Go("detach")
  /\ UNCHANGED <<ringVars, options, evb, writer, terminate, queue, file, readers, attached, signals, packets, failed>>

sleepForever ==
  /\ At("sleep") /\ writer = "ended" /\ Go("detach")
  /\ UNCHANGED <<ringVars, options, evb, writer, terminate, queue, file, readers, attached, signals, packets, failed>>

detach ==
  /\ At("detach") /\ Go("over")
  /\ \E ok \in BOOLEAN : Syscall(ok) /\ attached' = ~ok
  /\ UNCHANGED <<ringVars, options, evb, writer, terminate, queue, file, readers, signals, packets>>

run ==
  \/ load \/ pumpEventBase \/ tryStartPcapWriter \/ startEventReaders \/ startSigHandler
  \/ attach \/ sleepForever \/ detach

-----------------------------------------------------------------------------
(* Event base thread.  No callback is called after terminateLoopSoon.      *)

Loops == evb = "loop" /\ ~Reading /\ ~terminate

loopStarts ==
  /\ evb = "created" /\ evb' = "loop"
  /\ UNCHANGED <<ringVars, options, main, writer, terminate, queue, file, readers, attached, signals, packets, failed>>

handler(c) ==
  /\ Loops /\ c \in readers /\ handlerReady(c)
  /\ UNCHANGED <<options, threads, queue, file, readers, attached, signals, packets, failed>>

\* The message is lost if the queue is full.
handlePerfEvent ==
  /\ readEvent
  /\ queue' = IF options.pcap /\ ~Event.lost /\ Len(queue) < kQueueCapacity THEN Append(queue, Event.packet)
              ELSE queue
  /\ UNCHANGED <<options, threads, file, readers, attached, signals, packets, failed>>

handled ==
  /\ release
  /\ UNCHANGED <<options, threads, queue, file, readers, attached, signals, packets, failed>>

\* Before startSigHandler has run a signal ends the process.
signal ==
  /\ signals.raised < MaxSignals /\ main # "over"
  /\ IF main \in {"start", "pump", "startWriter", "readers", "signals"}
     THEN Over /\ signals' = [signals EXCEPT !.raised = @ + 1]
     ELSE UNCHANGED threads /\ signals' = [raised |-> signals.raised + 1, pending |-> signals.pending + 1]
  /\ UNCHANGED <<ringVars, options, queue, file, readers, attached, packets, failed>>

\* stop: blockingWrite takes the next place in the queue at once, and returns
\* when that place has a slot.
signalReceived ==
  /\ Loops /\ signals.pending > 0
  /\ signals' = [signals EXCEPT !.pending = @ - 1]
  /\ IF options.pcap THEN queue' = Append(queue, StopMsg) /\ evb' = "blocked" /\ UNCHANGED terminate
     ELSE terminate' = TRUE /\ UNCHANGED <<queue, evb>>
  /\ UNCHANGED <<ringVars, options, main, writer, file, readers, attached, packets, failed>>

blockingWriteEnd ==
  /\ evb = "blocked" /\ Len(queue) <= kQueueCapacity
  /\ evb' = "loop"
  /\ UNCHANGED <<ringVars, options, main, writer, terminate, queue, file, readers, attached, signals, packets, failed>>

loopEnds ==
  /\ evb = "loop" /\ ~Reading /\ terminate
  /\ evb' = "ended"
  /\ UNCHANGED <<ringVars, options, main, writer, terminate, queue, file, readers, attached, signals, packets, failed>>

loopForever ==
  /\ main # "over"
  /\ loopStarts \/ (\E c \in Cpus : handler(c)) \/ handlePerfEvent \/ handled \/ signalReceived \/ blockingWriteEnd \/ loopEnds

-----------------------------------------------------------------------------
(* Writer thread: PcapWriter::run, then the end of the event base.         *)

LimitReached == options.packet_limit # 0 /\ Len(file) >= options.packet_limit

waitUntilRunning ==
  /\ writer = "wait" /\ evb \notin {"none", "created"} /\ writer' = "run"
  /\ UNCHANGED <<ringVars, options, main, evb, terminate, queue, file, readers, attached, signals, packets, failed>>

\* A packet is cut to what the program has copied, then to snaplen.
Record(p) ==
  [packet |-> p, captured |-> Smaller(Smaller(p.len, MAX_LEN), IF options.snaplen = 0 THEN kMaxSnapLen ELSE options.snaplen)]

writeMessage ==
  /\ writer = "run"
  /\ \/ LimitReached /\ writer' = "ran" /\ UNCHANGED <<queue, file>>
     \/ /\ ~LimitReached /\ queue # <<>> /\ queue' = Tail(queue)
        /\ IF Head(queue) = StopMsg THEN writer' = "ran" /\ UNCHANGED file
           ELSE file' = Append(file, Record(Head(queue)[1])) /\ UNCHANGED writer
  /\ UNCHANGED <<ringVars, options, main, evb, terminate, readers, attached, signals, packets, failed>>

\* Mutant: the event base is not told.
endSilently ==
  /\ writer = "ran" /\ writer' = "join"
  /\ UNCHANGED <<ringVars, options, main, evb, terminate, queue, file, readers, attached, signals, packets, failed>>

terminateLoopSoon ==
  /\ writer = "ran" /\ writer' = "join" /\ terminate' = TRUE
  /\ UNCHANGED <<ringVars, options, main, evb, queue, file, readers, attached, signals, packets, failed>>

joinEvbThread ==
  /\ writer = "join" /\ evb = "ended" /\ writer' = "ended"
  /\ UNCHANGED <<ringVars, options, main, evb, terminate, queue, file, readers, attached, signals, packets, failed>>

writerThread ==
  /\ main # "over"
  /\ waitUntilRunning \/ writeMessage \/ terminateLoopSoon \/ joinEvbThread

-----------------------------------------------------------------------------
DumpInit ==
  /\ RingInit
  /\ options \in Commands
  /\ main = "start" /\ evb = "none" /\ writer = "none" /\ terminate = FALSE
  /\ queue = <<>> /\ file = <<>> /\ readers = {} /\ attached = FALSE
  /\ signals = [raised |-> 0, pending |-> 0] /\ packets = 0 /\ failed = FALSE

DumpNext ==
  \/ run \/ loopForever \/ writerThread \/ signal
  \/ \E c \in Cpus, p \in Packets : xdpdump(c, p)

DumpSafety == DumpInit /\ [][DumpNext]_dumpVars

\* The three threads run unless they wait.
DumpSpec == DumpSafety /\ WF_dumpVars(run) /\ WF_dumpVars(loopForever) /\ WF_dumpVars(writerThread)

-----------------------------------------------------------------------------
(* Properties.                                                             *)

\* The queue has at most one message that waits for a slot, and the file has at
\* most packet_limit packets (XdpEventReader::handlePerfEvent, PcapWriter::run).
DumpTypeOK ==
  /\ main \in {"start", "pump", "startWriter", "readers", "signals", "attach", "sleep", "detach", "over"}
  /\ evb \in {"none", "created", "loop", "blocked", "ended"}
  /\ writer \in {"none", "wait", "run", "ran", "join", "ended"}
  /\ Len(queue) <= kQueueCapacity + (IF evb = "blocked" \/ main = "over" THEN 1 ELSE 0)
  /\ \A c \in Cpus : data_head[c] - data_tail[c] \in 0..bufferSize - 1
  /\ options.packet_limit # 0 => Len(file) <= options.packet_limit

\* When xdpdump is over and no system call has failed, its program is not in
\* the root array, and no thread was left behind (XdpDump::run).
NothingLeft == main = "over" /\ ~failed => ~attached /\ evb \in {"none", "ended"} /\ writer \in {"none", "ended"}

\* Queue and file keep to their limits, and the end of XdpDump::run is clean.
EndIsClean == DumpTypeOK /\ NothingLeft

\* The writer has ended on its own, the queue is full, and the event base waits
\* for a slot to tell the writer to stop.
Stuck == evb = "blocked" /\ writer \in {"ran", "join"} /\ Len(queue) > kQueueCapacity

\* After a signal, and after packet_limit packets, xdpdump ends (XdpDump::stop,
\* tryStartPcapWriter), unless the two come together while the queue is full.
EndsWhenAsked == signals.pending > 0 \/ writer = "ran" ~> main = "over" \/ Stuck
=============================================================================
