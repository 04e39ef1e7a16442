------------------------------ MODULE Monitor -------------------------------
(***************************************************************************)
(* Introspection: the XDP program reports packets through perf rings, the  *)
(* event base thread moves them to a bounded queue (KatranEventReader),    *)
(* and a writer thread stores them as pcap (PcapWriter::runMulti).  The    *)
(* calls of KatranLb that stop and restart the capture, and the destructor *)
(* of KatranMonitor, send control messages through the same queue.         *)
(***************************************************************************)
EXTENDS Integers, Sequences, Functions

CONSTANTS
  Cpus,        \* cpus with an event reader
  Packets,     \* reported packets: [event, len]
  Limits,      \* limits given to restartKatranMonitor
  pcktLimit,   \* config_.pcktLimit
  snapLen,     \* config_.snapLen
  maxEvents,   \* config_.maxEvents
  bufferSize,  \* config_.bufferSize
  queueSize,   \* config_.queueSize
  ringSize,    \* bound: events that fit into a perf ring
  HdrLen,      \* sizeof(pcap_hdr_s)
  RecLen       \* sizeof(pcaprec_hdr_s)

ASSUME MonitorAssumption ==
  /\ Packets \subseteq [event : Nat, len : Nat \ {0}]
  /\ {pcktLimit, maxEvents, bufferSize} \cup Limits \subseteq Nat
  /\ {snapLen, queueSize, ringSize, HdrLen, RecLen} \subseteq Nat \ {0}

VARIABLES
  storage,       \* config_.storage: "FILE" or "IOBUF"
  forwarding,    \* ctl_array[kIntrospectionGkPos]: XDP reports packets
  perf,          \* the perf ring of each cpu
  queue,         \* queue_, an MPMCQueue
  call,          \* where the thread that uses KatranLb is
  sending,       \* the control message it has still to send, if any
  running,       \* the writer thread runs
  packetLimit,   \* packetLimit_
  packetAmount,  \* packetAmount_
  headerExists,  \* headerExists_
  data,          \* what the data writers have stored: HdrMark, TornMark, or a length
  closed,        \* FileWriter: pcapFile_ is closed
  stopped        \* history: the last control message handled was a stop

env == <<storage, forwarding, perf, call, sending>>
writer == <<packetLimit, packetAmount, headerExists, data, closed, stopped>>
monVars == <<env, queue, running, writer>>

Events == 0..(maxEvents - 1)

HdrMark == 0
TornMark == -1    \* what a failed write leaves: a part, or nothing

\* PcapMsgMeta: a packet or a control message.
PacketMsg(p) == [type |-> "packet", packet |-> p]
StopMsg == [type |-> "stop"]
RestartMsg(limit) == [type |-> "restart", limit |-> limit]
ShutdownMsg == [type |-> "shutdown"]
Messages ==
  {PacketMsg(p) : p \in Packets} \cup {RestartMsg(l) : l \in Limits} \cup {StopMsg, ShutdownMsg}

\* One message may wait for a slot of the queue: see blockingWrite.
MonitorTypeOK ==
  /\ storage \in {"FILE", "IOBUF"} /\ forwarding \in BOOLEAN
  /\ perf \in [Cpus -> Seq(Packets)] /\ \A c \in Cpus : Len(perf[c]) <= ringSize
  /\ queue \in Seq(Messages) /\ Len(queue) <= queueSize + 1
  /\ call \in {"none", "send", "blocked", "join", "gone"}
  /\ sending \in Seq(Messages) /\ (sending # <<>> <=> call = "send")
  /\ Len(queue) > queueSize => call = "blocked"
  /\ running \in BOOLEAN /\ packetLimit \in Nat /\ packetAmount \in 0..packetLimit
  /\ headerExists \in [Events -> BOOLEAN] /\ data \in [Events -> Seq(Int)]
  /\ closed \in BOOLEAN /\ stopped \in BOOLEAN

MonitorInit ==
  /\ storage \in {"FILE", "IOBUF"}
  /\ forwarding = FALSE
  /\ perf = [c \in Cpus |-> <<>>]
  /\ queue = <<>> /\ call = "none" /\ sending = <<>> /\ running = TRUE
  /\ packetLimit = pcktLimit /\ packetAmount = 0
  /\ headerExists = [e \in Events |-> FALSE]
  /\ data = [e \in Events |-> <<>>]
  /\ closed = FALSE /\ stopped = FALSE

-----------------------------------------------------------------------------
\* submit_event: bpf_perf_event_output loses the event when the ring is full.
report(c, p) ==
  /\ forwarding /\ call # "gone"
  /\ Len(perf[c]) < ringSize
  /\ perf' = [perf EXCEPT ![c] = Append(@, p)]
  /\ UNCHANGED <<storage, forwarding, call, sending, queue, running, writer>>

\* KatranEventReader: queue_->write, which refuses the message when the queue
\* is full.
handlePerfEvent(c) ==
  /\ perf[c] # <<>> /\ call # "gone"
  /\ perf' = [perf EXCEPT ![c] = Tail(@)]
  /\ queue' = IF Len(queue) < queueSize THEN Append(queue, PacketMsg(Head(perf[c])))
              ELSE queue
  /\ UNCHANGED <<storage, forwarding, call, sending, running, writer>>

-----------------------------------------------------------------------------
(* The calls.  changeKatranMonitorForwardingState is a bpf() call that may *)
(* fail, and then the call returns at once.                                *)

\* Mutant: the result of changeKatranMonitorForwardingState is ignored.
stopKatranMonitorIgnoresError ==
  /\ call = "none"
  /\ forwarding' \in {forwarding, FALSE}
  /\ call' = "send" /\ sending' = <<StopMsg>>
  /\ UNCHANGED <<storage, perf, queue, running, writer>>

stopKatranMonitor ==
  /\ call = "none"
  /\ \/ forwarding' = FALSE /\ call' = "send" /\ sending' = <<StopMsg>>
     \/ UNCHANGED <<forwarding, call, sending>>
  /\ UNCHANGED <<storage, perf, queue, running, writer>>

restartKatranMonitor(limit) ==
  /\ call = "none"
  /\ \/ forwarding' = TRUE /\ call' = "send" /\ sending' = <<RestartMsg(limit)>>
     \/ UNCHANGED <<forwarding, call, sending>>
  /\ UNCHANGED <<storage, perf, queue, running, writer>>

\* stopMonitor and restartMonitor: queue_->blockingWrite takes the next place in
\* the order of the queue at once, and returns when that place has a slot.
blockingWrite ==
  /\ call = "send"
  /\ queue' = queue \o sending
  /\ call' = "blocked" /\ sending' = <<>>
  /\ UNCHANGED <<storage, forwarding, perf, running, writer>>

blockingWriteEnd ==
  /\ call = "blocked"
  /\ Len(queue) <= queueSize
  /\ call' = "none"
  /\ UNCHANGED <<storage, forwarding, perf, sending, queue, running, writer>>

\* ~KatranMonitor: queue_->write, then writerThread_.join().
destroy ==
  /\ call = "none"
  /\ queue' = IF Len(queue) < queueSize THEN Append(queue, ShutdownMsg) ELSE queue
  /\ call' = "join"
  /\ UNCHANGED <<storage, forwarding, perf, sending, running, writer>>

join ==
  /\ call = "join" /\ ~running
  /\ call' = "gone"
  /\ UNCHANGED <<storage, forwarding, perf, sending, queue, running, writer>>

-----------------------------------------------------------------------------
(* PcapWriter::runMulti: one message, under cntrLock_.                     *)

blockingRead(type) ==
  /\ running /\ queue # <<>>
  /\ Head(queue).type = type
  /\ queue' = Tail(queue)

Read(type) == blockingRead(type) /\ UNCHANGED env

\* Mutant: the loop does not end.
shutdownIgnored ==
  /\ Read("shutdown")
  /\ UNCHANGED <<running, writer>>

shutdown ==
  /\ Read("shutdown")
  /\ running' = FALSE
  /\ UNCHANGED writer

\* Mutant: headerExists_ is not reset.
restartWritersKeepsHeaders ==
  /\ Read("restart")
  /\ data' = [e \in Events |-> <<>>]
  /\ closed' = FALSE /\ stopped' = FALSE
  /\ packetLimit' = Head(queue).limit /\ packetAmount' = 0
  /\ UNCHANGED <<running, headerExists>>

\* A file is opened with O_TRUNC, an IOBuf is cleared.
restartWriters ==
  /\ Read("restart")
  /\ headerExists' = [e \in Events |-> FALSE]
  /\ data' = [e \in Events |-> <<>>]
  /\ closed' = FALSE /\ stopped' = FALSE
  /\ packetLimit' = Head(queue).limit /\ packetAmount' = 0
  /\ UNCHANGED running

\* A file that cannot be opened: the exception of folly::File leaves the writer
\* thread, which ends the process.
restartThrows ==
  /\ storage = "FILE" /\ blockingRead("restart")
  /\ \E n \in Events : data' = [e \in Events |-> IF e < n THEN <<>> ELSE data[e]]
  /\ running' = FALSE /\ call' = "gone" /\ sending' = <<>> /\ stopped' = FALSE
  /\ UNCHANGED <<storage, forwarding, perf, packetLimit, packetAmount, headerExists, closed>>

\* Mutant: the writer thread ends.
stopWritersEnds ==
  /\ Read("stop")
  /\ running' = FALSE
  /\ closed' = (storage = "FILE") /\ stopped' = TRUE
  /\ packetLimit' = 0 /\ packetAmount' = 0
  /\ UNCHANGED <<headerExists, data>>

stopWriters ==
  /\ Read("stop")
  /\ closed' = (storage = "FILE") /\ stopped' = TRUE
  /\ packetLimit' = 0 /\ packetAmount' = 0
  /\ UNCHANGED <<running, headerExists, data>>

\* Bytes in a data writer, and DataWriter::available.
Size(items) ==
  SumFunction([i \in DOMAIN items |-> IF items[i] = HdrMark THEN HdrLen ELSE RecLen + items[i]])
Available(items, n) == storage = "FILE" \/ Size(items) + n <= bufferSize

\* FileWriter::writeData only logs an error, which is sure for a closed file.
WriteOK(ok) == (ok => storage = "IOBUF" \/ ~closed) /\ (~ok => storage = "FILE")

writeData(items, item, ok) == Append(items, IF ok THEN item ELSE TornMark)

Trimmed(p) == IF p.len < snapLen THEN p.len ELSE snapLen

\* writePcapHeader unless there is one, then the packet if there is room for it.
writePacket ==
  /\ Read("packet")
  /\ LET p == Head(queue).packet
         e == p.event
         hdrOK == e \in Events /\ (headerExists[e] \/ Available(data[e], HdrLen))
     IN
     \/ /\ packetAmount >= packetLimit \/ ~hdrOK
        /\ UNCHANGED writer
     \/ /\ packetAmount < packetLimit /\ hdrOK
        /\ headerExists' = [headerExists EXCEPT ![e] = TRUE]
        /\ \E hdr, rec \in BOOLEAN :
             LET withHdr == IF headerExists[e] THEN data[e] ELSE writeData(data[e], HdrMark, hdr)
                 room == Available(withHdr, RecLen + Trimmed(p))      \* otherwise ++bufferFull_
             IN /\ WriteOK(hdr) /\ WriteOK(rec)
                /\ data' = [data EXCEPT ![e] = IF room THEN writeData(withHdr, Trimmed(p), rec) ELSE withHdr]
                /\ packetAmount' = IF room THEN packetAmount + 1 ELSE packetAmount
        /\ UNCHANGED <<packetLimit, closed, stopped>>
  /\ UNCHANGED running

runMulti == shutdown \/ restartWriters \/ restartThrows \/ stopWriters \/ writePacket

callStep == blockingWrite \/ blockingWriteEnd \/ join

MonitorNext ==
  \/ \E c \in Cpus, p \in Packets : report(c, p)
  \/ \E c \in Cpus : handlePerfEvent(c)
  \/ stopKatranMonitor
  \/ \E limit \in Limits : restartKatranMonitor(limit)
  \/ blockingWrite \/ blockingWriteEnd
  \/ destroy \/ join
  \/ shutdown \/ restartWriters \/ restartThrows \/ stopWriters \/ writePacket

MonitorSafety == MonitorInit /\ [][MonitorNext]_monVars

\* The writer thread and the calling thread run whenever they are not blocked.
MonitorSpec == MonitorSafety /\ WF_monVars(runMulti) /\ WF_monVars(callStep)

-----------------------------------------------------------------------------
Records(items) == SelectSeq(items, LAMBDA x : x # HdrMark)

\* A write to this file has failed since the last restart.
Torn(items) == TornMark \in Range(items)

\* What a data writer holds can be read as pcap: nothing, or one header and
\* then packets, in spite of stops, restarts and full buffers, unless a write to
\* this file has failed since the last restart.
PcapReadable ==
  \A e \in Events : data[e] # <<>> /\ ~Torn(data[e]) =>
    data[e][1] = HdrMark /\ \A k \in 2..Len(data[e]) : data[e][k] # HdrMark

\* A buffer is never written past its end.
BuffersInBound == storage = "IOBUF" => \A e \in Events : Size(data[e]) <= bufferSize

\* The statistics count what is stored: since the last restart as many packets
\* as the data writers hold (none of them went to a closed file), while stopped
\* none.  A packet whose write failed is counted as well.
AmountIsStored ==
  running /\ (\A e \in Events : ~Torn(data[e])) =>
    packetAmount = IF stopped THEN 0
                   ELSE SumFunction([e \in Events |-> Len(Records(data[e]))])

\* The capture of PcapWriter::runMulti can be read, is counted, and keeps to the
\* limits of queue and buffers.
CaptureIsRight == MonitorTypeOK /\ PcapReadable /\ BuffersInBound /\ AmountIsStored

\* KatranLb::stopKatranMonitor and restartKatranMonitor change the XDP program
\* and the writer together, also when the bpf() call fails: once their messages
\* have been handled, packets are reported only to a writer that is not stopped.
ReportsAreWanted ==
  call = "none" /\ (\A k \in DOMAIN queue : queue[k].type = "packet") /\ forwarding => ~stopped

\* stopKatranMonitor and restartKatranMonitor return, although they wait for a
\* slot of a queue that the event readers keep filling, unless the process ends
\* because a file cannot be opened.
MonitorCallsReturn == call \in {"send", "blocked"} ~> call \in {"none", "gone"}

\* The destructor of KatranMonitor returns if the queue took its message.
ShutdownJoins == call = "join" /\ queue # <<>> /\ queue[Len(queue)] = ShutdownMsg ~> call = "gone"

=============================================================================
