------------------------------ MODULE PerfRing ------------------------------
(***************************************************************************)
(* The perf rings between the BPF programs and their readers: the kernel   *)
(* writes records into the data area of a cpu, the reader takes them out   *)
(* (BpfAdapter::handlePerfEvent, and the same function in xdpdump's        *)
(* XdpEventReader.cpp).  The unit is 8 bytes, which all records are        *)
(* aligned to; a word of the data area is <<record, index>>.  The kernel   *)
(* may write while the reader reads.                                       *)
(***************************************************************************)
EXTENDS Integers, Sequences

CONSTANTS
  Cpus,
  Packets,     \* what is submitted
  Words(_),    \* words of the record of a packet
  bufferSize   \* words of the data area

ASSUME PerfRingAssumption ==
  /\ bufferSize \in Nat \ {0}
  /\ \A p \in Packets : Words(p) \in Nat \ {0}

VARIABLES
  area,       \* cpu -> data area
  data_head,  \* cpu -> words written so far
  data_tail,  \* cpu -> words released by the reader
  lost,       \* cpu -> packets were lost since the last record
  reader,     \* the call of handlePerfEvent in progress
  out         \* history: cpu and packet of the last event handed over

ringVars == <<area, data_head, data_tail, lost, reader, out>>

\* PERF_RECORD_SAMPLE and PERF_RECORD_LOST.
Sample(p) == [lost |-> FALSE, packet |-> <<p>>, size |-> Words(p)]
LostRecord == [lost |-> TRUE, packet |-> <<>>, size |-> 3]

NoReader == [cpu |-> <<>>, begin |-> 0, end |-> 0, dataHead |-> 0]
Reading == reader # NoReader
\* A record that was overwritten before it was read.
Torn == [lost |-> FALSE, packet |-> <<>>, size |-> 1]

-----------------------------------------------------------------------------
(* The kernel.                                                             *)

\* Records one after another from position head on.
Written(a, head, records) ==
  LET start(i) == head + (IF i = 1 THEN 0 ELSE records[1].size)
      at(i) == {(start(i) + k) % bufferSize : k \in 0..records[i].size - 1}
      index(i, w) == CHOOSE k \in 0..records[i].size - 1 : (start(i) + k) % bufferSize = w
  IN [w \in DOMAIN a |->
        IF \E i \in DOMAIN records : w \in at(i)
        THEN LET i == CHOOSE i \in DOMAIN records : w \in at(i) IN <<records[i], index(i, w)>>
        ELSE a[w]]

\* A word always stays free; a record about lost ones goes first.
bpf_perf_event_output(c, p) ==
  LET records == IF lost[c] THEN <<LostRecord, Sample(p)>> ELSE <<Sample(p)>>
      size == Words(p) + (IF lost[c] THEN LostRecord.size ELSE 0)
  IN
  /\ IF data_head[c] - data_tail[c] + size < bufferSize
     THEN /\ area' = [area EXCEPT ![c] = Written(@, data_head[c], records)]
          /\ data_head' = [data_head EXCEPT ![c] = @ + size]
          /\ lost' = [lost EXCEPT ![c] = FALSE]
     ELSE lost' = [lost EXCEPT ![c] = TRUE] /\ UNCHANGED <<area, data_head>>
  /\ UNCHANGED <<data_tail, reader, out>>

-----------------------------------------------------------------------------
(* The reader.                                                             *)

\* The event base calls when there is something to read.
handlerReady(c) ==
  /\ ~Reading /\ data_head[c] # data_tail[c]
  /\ reader' = [cpu |-> <<c>>, begin |-> data_tail[c] % bufferSize, end |-> data_head[c] % bufferSize,
                dataHead |-> data_head[c]]
  /\ UNCHANGED <<area, data_head, data_tail, lost, out>>

\* The record at begin; one that goes past the end of the data area is put
\* together from its two parts.
Event ==
  LET a == area[reader.cpu[1]]
      r == a[reader.begin][1]
  IN IF \A k \in 0..r.size - 1 : a[(reader.begin + k) % bufferSize] = <<r, k>> THEN r ELSE Torn

\* A sample is handed over to the caller, other records are skipped.
readEvent ==
  /\ Reading /\ reader.begin # reader.end
  /\ reader' = [reader EXCEPT !.begin = (@ + Event.size) % bufferSize]
  /\ out' = IF Event.lost THEN out ELSE <<reader.cpu[1], Event.packet>>
  /\ UNCHANGED <<area, data_head, data_tail, lost>>

\* Mutant: data_head is read again.
releaseUpToHead ==
  /\ Reading /\ reader.begin = reader.end
  /\ data_tail' = [data_tail EXCEPT ![reader.cpu[1]] = data_head[reader.cpu[1]]]
  /\ reader' = NoReader
  /\ UNCHANGED <<area, data_head, lost, out>>

release ==
  /\ Reading /\ reader.begin = reader.end
  /\ data_tail' = [data_tail EXCEPT ![reader.cpu[1]] = reader.dataHead]
  /\ reader' = NoReader
  /\ UNCHANGED <<area, data_head, lost, out>>

RingInit ==
  /\ area = [c \in Cpus |-> [w \in 0..bufferSize - 1 |-> <<>>]]
  /\ data_head = [c \in Cpus |-> 0] /\ data_tail = [c \in Cpus |-> 0]
  /\ lost = [c \in Cpus |-> FALSE]
  /\ reader = NoReader /\ out = <<>>

-----------------------------------------------------------------------------
\* Where the reader is, and the samples from there to data_head.
Position(c) ==
  IF reader.cpu = <<c>> THEN reader.dataHead - ((reader.end + bufferSize - reader.begin) % bufferSize)
  ELSE data_tail[c]

Pending(c) ==
  LET from[pos \in 0..data_head[c] + bufferSize] ==
        IF pos >= data_head[c] THEN <<>>
        ELSE LET r == area[c][pos % bufferSize][1]
             IN (IF r.lost THEN <<>> ELSE <<r.packet>>) \o from[pos + r.size]
  IN from[Position(c)]

Fifo == INSTANCE EventFifo WITH
  Events <- {<<p>> : p \in Packets}, pending <- [c \in Cpus |-> Pending(c)]

\* Whatever the kernel writes while handlePerfEvent reads, and wherever records
\* cross the end of the data area, the events come out as from a FIFO queue.
EventsAreFifo == Fifo!FifoSpec
=============================================================================
