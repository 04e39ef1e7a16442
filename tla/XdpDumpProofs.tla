--------------------------- MODULE XdpDumpProofs ----------------------------
(***************************************************************************)
(* The tracer xdpdump, for all packets, command lines, numbers of cpus and *)
(* sizes of queue and rings: its queue, file and rings keep to their       *)
(* limits, and it ends clean.                                              *)
(***************************************************************************)
EXTENDS XdpDump, TLAPS

\* The prover of every leaf that names no other.
USE ZenonT(30)

-----------------------------------------------------------------------------
(* The inductive invariant.                                                *)

\* The reader has the head of a ring from when it started.
RingOK ==
  /\ data_head \in [Cpus -> Nat] /\ data_tail \in [Cpus -> Nat]
  /\ \A c \in Cpus : data_head[c] - data_tail[c] \in 0..bufferSize - 1
  /\ reader = [cpu |-> reader.cpu, begin |-> reader.begin, end |-> reader.end, dataHead |-> reader.dataHead]
  /\ Reading => \E c \in Cpus : reader.cpu = <<c>> /\ reader.dataHead \in data_tail[c]..data_head[c]

\* Which threads there are, by where the main thread is.
ThreadsOK ==
  /\ main \in {"start", "pump", "startWriter", "readers", "signals", "attach", "sleep", "detach", "over"}
  /\ evb \in {"none", "created", "loop", "blocked", "ended"}
  /\ writer \in {"none", "wait", "run", "ran", "join", "ended"}
  /\ main \in {"start", "pump"} => evb = "none"
  /\ main \in {"start", "pump", "startWriter"} => writer = "none"
  /\ writer = "ended" => evb = "ended"
  /\ main = "detach" => writer = "ended"
  /\ main = "over" => evb \in {"none", "ended"} /\ writer \in {"none", "ended"}
  /\ attached => main \in {"sleep", "detach"} \/ (main = "over" /\ failed)

\* Queue and file are sequences within their limits.
QueueOK ==
  /\ \E S : queue \in Seq(S)
  /\ Len(queue) <= kQueueCapacity + (IF evb = "blocked" \/ main = "over" THEN 1 ELSE 0)

FileOK ==
  /\ options \in Commands
  /\ \E S : file \in Seq(S)
  /\ options.packet_limit # 0 => Len(file) <= options.packet_limit

DumpInv == RingOK /\ ThreadsOK /\ QueueOK /\ FileOK

\* The flag packet_limit.
LEMMA LimitIsNat ==
  ASSUME NEW o \in Commands
  PROVE  o.packet_limit \in Nat
<1>1. o \in Options
  BY DumpAssumption
<1> QED BY SMTT(30), <1>1 DEF Options

\* A sequence that grows by an element of any kind, or loses its first.
LEMMA AnyAppend ==
  ASSUME NEW q, \E S : q \in Seq(S), NEW x
  PROVE  (\E S : Append(q, x) \in Seq(S)) /\ Len(q) \in Nat /\ Len(Append(q, x)) = Len(q) + 1
<1>1. PICK S : q \in Seq(S)
  BY SMTT(30)
<1>2. q \in Seq(S \cup {x})
  BY SMTT(30), <1>1
<1>3. Append(q, x) \in Seq(S \cup {x}) /\ Len(Append(q, x)) = Len(q) + 1 /\ Len(q) \in Nat
  BY SMTT(30), <1>2
<1> QED BY SMTT(30), <1>3

LEMMA AnyTail ==
  ASSUME NEW q, \E S : q \in Seq(S), q # <<>>
  PROVE  (\E S : Tail(q) \in Seq(S)) /\ Len(q) \in Nat /\ Len(Tail(q)) = Len(q) - 1
<1>1. PICK S : q \in Seq(S)
  BY SMTT(30)
<1>2. Tail(q) \in Seq(S) /\ Len(Tail(q)) = Len(q) - 1 /\ Len(q) \in Nat
  BY SMTT(30), <1>1
<1> QED BY SMTT(30), <1>2

-----------------------------------------------------------------------------
(* The rings.                                                              *)

\* The kernel writes within the space that the reader has released.
LEMMA OutputRing ==
  ASSUME RingOK, NEW c \in Cpus, NEW p \in Packets, bpf_perf_event_output(c, p)
  PROVE  RingOK'
<1> DEFINE size == Words(p) + (IF lost[c] THEN LostRecord.size ELSE 0)
<1>1. size \in Nat
  BY SMTT(30), PerfRingAssumption DEF LostRecord
<1>2. UNCHANGED <<data_tail, reader>>
  BY SMTT(30) DEF bpf_perf_event_output
<1>3. CASE UNCHANGED data_head
  BY <1>2, <1>3 DEF RingOK, Reading
<1>4. CASE data_head[c] - data_tail[c] + size < bufferSize /\ data_head' = [data_head EXCEPT ![c] = @ + size]
  <2> HIDE DEF size
  <2>1. data_head' \in [Cpus -> Nat]
    BY SMTT(30), <1>1, <1>4 DEF RingOK
  <2>2. \A d \in Cpus : data_head'[d] \in Nat /\ data_head'[d] >= data_head[d]
                        /\ data_head'[d] - data_tail[d] \in 0..bufferSize - 1
    BY SMTT(30), <1>1, <1>4, PerfRingAssumption DEF RingOK
  <2>3. Reading => \E d \in Cpus : reader.cpu = <<d>> /\ reader.dataHead \in data_tail[d]..data_head'[d]
    BY SMTT(30), <2>2 DEF RingOK
  <2> QED BY <1>2, <2>1, <2>2, <2>3 DEF RingOK, Reading
<1> QED BY <1>3, <1>4 DEF bpf_perf_event_output

\* The reader starts, takes an event, and releases what it has read.
LEMMA ReaderRing ==
  ASSUME RingOK, (\E c \in Cpus : handlerReady(c)) \/ readEvent \/ release
  PROVE  RingOK'
<1>1. ASSUME NEW c \in Cpus, handlerReady(c) PROVE RingOK'
  <2>1. data_head[c] \in data_tail[c]..data_head[c]
    BY SMTT(30) DEF RingOK
  <2> DEFINE r == [cpu |-> <<c>>, begin |-> data_tail[c] % bufferSize, end |-> data_head[c] % bufferSize,
                   dataHead |-> data_head[c]]
  <2>2. reader' = r /\ UNCHANGED <<data_head, data_tail>>
    BY SMTT(30), <1>1 DEF handlerReady
  <2>3. r.cpu = <<c>> /\ r.dataHead = data_head[c]
        /\ r = [cpu |-> r.cpu, begin |-> r.begin, end |-> r.end, dataHead |-> r.dataHead]
    BY SMTT(30)
  <2> HIDE DEF r
  <2> QED BY <2>1, <2>2, <2>3 DEF RingOK, Reading
<1>2. CASE readEvent
  <2> DEFINE b == (reader.begin + Event.size) % bufferSize
  <2>1. reader' = [reader EXCEPT !.begin = b] /\ UNCHANGED <<data_head, data_tail>> /\ Reading
    BY SMTT(30), <1>2 DEF readEvent
  <2> HIDE DEF b
  <2>2. reader' = [cpu |-> reader.cpu, begin |-> b, end |-> reader.end, dataHead |-> reader.dataHead]
    BY SMTT(30), <2>1 DEF RingOK
  <2>3. reader'.cpu = reader.cpu /\ reader'.dataHead = reader.dataHead
        /\ reader' = [cpu |-> reader'.cpu, begin |-> reader'.begin, end |-> reader'.end,
                      dataHead |-> reader'.dataHead]
    BY SMTT(30), <2>2
  <2> QED BY <2>1, <2>3 DEF RingOK, Reading
<1>3. CASE release
  <2>1. PICK c \in Cpus : reader.cpu = <<c>> /\ reader.dataHead \in data_tail[c]..data_head[c]
    BY SMTT(30), <1>3 DEF RingOK, release
  <2>2. data_tail' = [data_tail EXCEPT ![c] = reader.dataHead] /\ UNCHANGED data_head /\ reader' = NoReader
    BY SMTT(30), <1>3, <2>1 DEF release
  <2>a. reader.dataHead \in Nat /\ data_head[c] - reader.dataHead \in 0..bufferSize - 1
    BY SMTT(30), <2>1, PerfRingAssumption DEF RingOK
  <2>3. data_tail' \in [Cpus -> Nat]
    BY SMTT(30), <2>a, <2>2 DEF RingOK
  <2>4. \A d \in Cpus : data_head[d] - data_tail'[d] \in 0..bufferSize - 1
    BY SMTT(30), <2>a, <2>2 DEF RingOK
  <2>5. NoReader = [cpu |-> NoReader.cpu, begin |-> NoReader.begin, end |-> NoReader.end,
                    dataHead |-> NoReader.dataHead]
    BY SMTT(30) DEF NoReader
  <2> QED BY <2>2, <2>3, <2>4, <2>5 DEF RingOK, Reading, NoReader
<1> QED BY <1>1, <1>2, <1>3

\* A step that leaves the rings alone.
LEMMA SameRing ==
  ASSUME RingOK, UNCHANGED ringVars
  PROVE  RingOK'
BY DEF RingOK, Reading, ringVars, NoReader

-----------------------------------------------------------------------------
(* Threads, queue and file, by what a step does.                           *)

\* The steps of the main thread.
LEMMA RunThreads ==
  ASSUME ThreadsOK, run
  PROVE  ThreadsOK'
<1>1. CASE load
  BY <1>1 DEF load, ThreadsOK, At, Go, Syscall
<1>2. CASE pumpEventBase
  BY SMTT(30), <1>2 DEF pumpEventBase, ThreadsOK, At, Go
<1>3. CASE tryStartPcapWriter
  BY SMTT(30), <1>3 DEF tryStartPcapWriter, ThreadsOK, At, Go
<1>4. CASE startEventReaders
  BY SMTT(30), <1>4 DEF startEventReaders, ThreadsOK, At, Go, Over, Syscall
<1>5. CASE startSigHandler
  BY SMTT(30), <1>5 DEF startSigHandler, ThreadsOK, At, Go
<1>6. CASE attach
  BY SMTT(30), <1>6 DEF attach, ThreadsOK, At, Go, Over, Syscall
<1>7. CASE sleepForever
  BY SMTT(30), <1>7 DEF sleepForever, ThreadsOK, At, Go
<1>8. CASE detach
  BY SMTT(30), <1>8 DEF detach, ThreadsOK, At, Go, Syscall
<1> QED BY <1>1, <1>2, <1>3, <1>4, <1>5, <1>6, <1>7, <1>8 DEF run

\* The steps of the other threads.
LEMMA LoopThreads ==
  ASSUME ThreadsOK, loopForever \/ writerThread
  PROVE  ThreadsOK'
<1>1. main # "over"
  BY SMTT(30) DEF loopForever, writerThread
<1>2. CASE UNCHANGED <<main, evb, writer, attached, failed>>
  BY <1>2 DEF ThreadsOK
<1>3. CASE loopStarts
  BY SMTT(30), <1>1, <1>3 DEF loopStarts, ThreadsOK
<1>4. CASE signalReceived
  BY SMTT(30), <1>1, <1>4 DEF signalReceived, Loops, ThreadsOK
<1>5. CASE blockingWriteEnd
  BY SMTT(30), <1>1, <1>5 DEF blockingWriteEnd, ThreadsOK
<1>6. CASE loopEnds
  BY SMTT(30), <1>1, <1>6 DEF loopEnds, ThreadsOK
<1>7. CASE waitUntilRunning
  BY SMTT(30), <1>1, <1>7 DEF waitUntilRunning, ThreadsOK
<1>8. CASE writeMessage
  BY SMTT(30), <1>1, <1>8 DEF writeMessage, ThreadsOK
<1>9. CASE terminateLoopSoon
  BY SMTT(30), <1>1, <1>9 DEF terminateLoopSoon, ThreadsOK
<1>10. CASE joinEvbThread
  BY SMTT(30), <1>1, <1>10 DEF joinEvbThread, ThreadsOK
<1> QED BY <1>2, <1>3, <1>4, <1>5, <1>6, <1>7, <1>8, <1>9, <1>10
           DEF loopForever, writerThread, handler, handlePerfEvent, handled, threads

\* A signal, and a packet.
LEMMA OtherThreads ==
  ASSUME ThreadsOK, signal \/ \E c \in Cpus, p \in Packets : xdpdump(c, p)
  PROVE  ThreadsOK'
<1>1. CASE signal
  BY SMTT(30), <1>1 DEF signal, Over, ThreadsOK, threads
<1>2. ASSUME NEW c \in Cpus, NEW p \in Packets, xdpdump(c, p) PROVE ThreadsOK'
  BY <1>2 DEF xdpdump, ThreadsOK, threads
<1> QED BY <1>1, <1>2

\* The queue: a message is added if there is a slot, or by the event base that
\* then waits for one.
LEMMA QueueStep ==
  ASSUME ThreadsOK, QueueOK, DumpNext
  PROVE  QueueOK'
<1>a. kQueueCapacity \in Nat /\ \E S : queue \in Seq(S)
  BY DumpAssumption DEF QueueOK
<1>b. Len(queue) \in Nat
  BY SMTT(30), <1>a
<1>1. ASSUME UNCHANGED queue, evb = "blocked" => evb' = "blocked" \/ main' = "over",
             main = "over" => main' = "over"
      PROVE  QueueOK'
  BY SMTT(30), <1>1, <1>a, <1>b DEF QueueOK
<1>2. CASE handlePerfEvent
  <2>1. CASE UNCHANGED queue
    BY <2>1, <1>1, <1>2 DEF handlePerfEvent, threads
  <2>2. CASE Len(queue) < kQueueCapacity /\ queue' = Append(queue, Event.packet)
    <3>1. (\E S : queue' \in Seq(S)) /\ Len(queue') = Len(queue) + 1
      BY <2>2, <1>a, AnyAppend
    <3> QED BY SMTT(30), <3>1, <2>2, <1>a, <1>b DEF QueueOK
  <2> QED BY <2>1, <2>2, <1>2 DEF handlePerfEvent
<1>3. ASSUME signalReceived, main # "over" PROVE QueueOK'
  <2>1. CASE UNCHANGED <<queue, evb>>
    BY <2>1, <1>1, <1>3 DEF signalReceived
  <2>2. CASE queue' = Append(queue, StopMsg) /\ evb' = "blocked"
    <3>1. (\E S : queue' \in Seq(S)) /\ Len(queue') = Len(queue) + 1
      BY <2>2, <1>a, AnyAppend
    <3>2. Len(queue) <= kQueueCapacity
      BY SMTT(30), <1>3, <1>a, <1>b DEF QueueOK, signalReceived, Loops
    <3> QED BY SMTT(30), <3>1, <3>2, <2>2, <1>a, <1>b DEF QueueOK
  <2> QED BY <2>1, <2>2, <1>3 DEF signalReceived
<1>4. CASE blockingWriteEnd
  BY SMTT(30), <1>4, <1>a, <1>b DEF QueueOK, blockingWriteEnd
<1>5. CASE writeMessage
  <2>1. CASE UNCHANGED queue
    BY <2>1, <1>1, <1>5 DEF writeMessage
  <2>2. CASE queue # <<>> /\ queue' = Tail(queue)
    <3>1. (\E S : queue' \in Seq(S)) /\ Len(queue') = Len(queue) - 1
      BY <2>2, <1>a, AnyTail
    <3>2. UNCHANGED <<evb, main>>
      BY SMTT(30), <1>5 DEF writeMessage
    <3> QED BY SMTT(30), <3>1, <3>2, <1>a, <1>b DEF QueueOK
  <2> QED BY <2>1, <2>2, <1>5 DEF writeMessage
<1>6. CASE run
  <2>1. UNCHANGED queue
    BY <1>6
       DEF run, load, pumpEventBase, tryStartPcapWriter, startEventReaders, startSigHandler, attach,
           sleepForever, detach
  <2>2. main # "over"
    BY SMTT(30), <1>6
       DEF run, load, pumpEventBase, tryStartPcapWriter, startEventReaders, startSigHandler, attach,
           sleepForever, detach, At
  <2>3. evb = "blocked" => evb' = "blocked" \/ main' = "over"
    BY <1>6
       DEF run, load, pumpEventBase, tryStartPcapWriter, startEventReaders, startSigHandler, attach,
           sleepForever, detach, Over, ThreadsOK, At
  <2> QED BY <2>1, <2>2, <2>3, <1>1
<1>7. CASE signal
  BY <1>7, <1>1 DEF signal, Over, threads
<1>8. ASSUME NEW c \in Cpus, NEW p \in Packets, xdpdump(c, p) PROVE QueueOK'
  BY <1>8, <1>1 DEF xdpdump, threads
<1>9. ASSUME loopStarts \/ (\E c \in Cpus : handler(c)) \/ handled \/ loopEnds PROVE QueueOK'
  <2>1. UNCHANGED <<queue, main>> /\ (evb = "blocked" => evb' = "blocked")
    BY <1>9 DEF loopStarts, handler, handled, loopEnds, threads
  <2> QED BY <2>1, <1>1
<1>10. CASE waitUntilRunning \/ terminateLoopSoon \/ joinEvbThread
  BY <1>10, <1>1 DEF waitUntilRunning, terminateLoopSoon, joinEvbThread
<1> QED BY <1>2, <1>3, <1>4, <1>5, <1>6, <1>7, <1>8, <1>9, <1>10 DEF DumpNext, loopForever, writerThread

\* The file: a packet is written below the limit only.
LEMMA FileStep ==
  ASSUME FileOK, DumpNext
  PROVE  FileOK'
<1>1. UNCHANGED options
  BY DEF DumpNext, run, load, pumpEventBase, tryStartPcapWriter, startEventReaders, startSigHandler,
         attach, sleepForever, detach, loopForever, loopStarts, handler, handlePerfEvent, handled,
         signalReceived, blockingWriteEnd, loopEnds, writerThread, waitUntilRunning, writeMessage,
         terminateLoopSoon, joinEvbThread, signal, xdpdump
<1>2. CASE UNCHANGED file
  BY <1>1, <1>2 DEF FileOK
<1>3. ASSUME NEW r, ~LimitReached, file' = Append(file, r) PROVE FileOK'
  <2>1. (\E S : file' \in Seq(S)) /\ Len(file) \in Nat /\ Len(file') = Len(file) + 1
    BY <1>3, AnyAppend DEF FileOK
  <2>2. options.packet_limit \in Nat
    BY LimitIsNat DEF FileOK
  <2>3. options.packet_limit # 0 => Len(file') <= options.packet_limit
    BY SMTT(30), <1>3, <2>1, <2>2 DEF LimitReached
  <2> QED BY <1>1, <2>1, <2>3 DEF FileOK
<1>4. CASE writeMessage
  BY <1>4, <1>2, <1>3 DEF writeMessage
<1>5. CASE ~writeMessage
  <2>1. UNCHANGED file
    BY <1>5
       DEF DumpNext, run, load, pumpEventBase, tryStartPcapWriter, startEventReaders, startSigHandler,
           attach, sleepForever, detach, loopForever, loopStarts, handler, handlePerfEvent, handled,
           signalReceived, blockingWriteEnd, loopEnds, writerThread, waitUntilRunning,
           terminateLoopSoon, joinEvbThread, signal, xdpdump
  <2> QED BY <2>1, <1>2
<1> QED BY <1>4, <1>5

-----------------------------------------------------------------------------
(* The program.                                                            *)

\* The rings, in any step.
LEMMA RingStep ==
  ASSUME RingOK, DumpNext
  PROVE  RingOK'
<1>1. CASE UNCHANGED ringVars
  BY <1>1, SameRing
<1>2. ASSUME NEW c \in Cpus, NEW p \in Packets, xdpdump(c, p) PROVE RingOK'
  BY <1>1, <1>2, OutputRing DEF xdpdump
<1>3. CASE run
  BY <1>1, <1>3
     DEF run, load, pumpEventBase, tryStartPcapWriter, startEventReaders, startSigHandler, attach,
         sleepForever, detach
<1>4. CASE loopForever
  <2>1. CASE loopStarts \/ signalReceived \/ blockingWriteEnd \/ loopEnds
    BY <1>1, <2>1 DEF loopStarts, signalReceived, blockingWriteEnd, loopEnds
  <2>2. CASE (\E c \in Cpus : handler(c)) \/ handlePerfEvent \/ handled
    BY <2>2, ReaderRing DEF handler, handlePerfEvent, handled
  <2> QED BY <2>1, <2>2, <1>4 DEF loopForever
<1>5. CASE writerThread
  BY <1>1, <1>5 DEF writerThread, waitUntilRunning, writeMessage, terminateLoopSoon, joinEvbThread
<1>6. CASE signal
  BY <1>1, <1>6 DEF signal
<1> QED BY <1>2, <1>3, <1>4, <1>5, <1>6 DEF DumpNext

\* Initially nothing runs.
LEMMA InitDumpInv == DumpInit => DumpInv
<1> SUFFICES ASSUME DumpInit PROVE DumpInv
  BY SMTT(30)
<1>1. RingOK
  <2>1. data_head \in [Cpus -> Nat] /\ data_tail \in [Cpus -> Nat]
        /\ \A c \in Cpus : data_head[c] - data_tail[c] \in 0..bufferSize - 1
    BY SMTT(30), PerfRingAssumption DEF DumpInit, RingInit
  <2>2. NoReader = [cpu |-> NoReader.cpu, begin |-> NoReader.begin, end |-> NoReader.end,
                    dataHead |-> NoReader.dataHead]
    BY SMTT(30) DEF NoReader
  <2> QED BY <2>1, <2>2 DEF DumpInit, RingInit, RingOK, Reading
<1>2. ThreadsOK
  BY DEF DumpInit, ThreadsOK
<1>3. QueueOK
  BY SMTT(30), DumpAssumption DEF DumpInit, QueueOK
<1>4. FileOK
  <2>1. options.packet_limit \in Nat /\ file = <<>> /\ options \in Commands
    BY LimitIsNat DEF DumpInit
  <2>2. Len(<<>>) = 0 /\ <<>> \in Seq({})
    BY SMTT(30)
  <2>3. 0 <= options.packet_limit
    BY SMTT(30), <2>1
  <2> QED BY <2>1, <2>2, <2>3 DEF FileOK
<1> QED BY <1>1, <1>2, <1>3, <1>4 DEF DumpInv

\* Every step, and none, keeps the invariant.
LEMMA DumpInvStep == DumpInv /\ [DumpNext]_dumpVars => DumpInv'
<1> SUFFICES ASSUME RingOK, ThreadsOK, QueueOK, FileOK, [DumpNext]_dumpVars PROVE DumpInv'
  BY DEF DumpInv
<1>1. CASE DumpNext
  <2>1. ThreadsOK'
    BY <1>1, RunThreads, LoopThreads, OtherThreads DEF DumpNext
  <2> QED BY <2>1, <1>1, RingStep, QueueStep, FileStep DEF DumpInv
<1>2. CASE UNCHANGED dumpVars
  <2>1. RingOK'
    BY <1>2, SameRing DEF dumpVars
  <2>2. ThreadsOK' /\ QueueOK' /\ FileOK'
    BY <1>2 DEF dumpVars, threads, ThreadsOK, QueueOK, FileOK
  <2> QED BY <2>1, <2>2 DEF DumpInv
<1> QED BY <1>1, <1>2

\* XdpDump::run, for any command line, number of cpus, packets and signals,
\* whatever system calls fail: rings, queue and pcap file keep to their limits,
\* and when no system call has failed the end leaves neither the program in
\* the root array nor a thread.
THEOREM EndsClean == DumpSpec => []EndIsClean
<1>1. DumpInv => EndIsClean
  BY DEF DumpInv, RingOK, ThreadsOK, QueueOK, FileOK, EndIsClean, DumpTypeOK, NothingLeft
<1> QED BY <1>1, InitDumpInv, DumpInvStep, PTL DEF DumpSpec, DumpSafety

=============================================================================
