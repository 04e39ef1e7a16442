--------------------------- MODULE MonitorProofs ----------------------------
(***************************************************************************)
(* The introspection of Monitor: types and limits, captures that can be    *)
(* read, and a writer that agrees with the XDP program, for any number of  *)
(* cpus, events and packets, and any sizes of queue and buffers.           *)
(***************************************************************************)
EXTENDS Monitor, TLAPS

\* The prover of every leaf that names no other.
USE ZenonT(30)

-----------------------------------------------------------------------------
(* Types and limits.                                                       *)

\* The kinds of messages.
LEMMA MessageKinds ==
  ASSUME NEW m \in Messages
  PROVE  /\ m.type \in {"packet", "stop", "restart", "shutdown"}
         /\ m.type = "packet" => m.packet \in Packets
         /\ m.type = "restart" => m.limit \in Limits
BY SMTT(30) DEF Messages, PacketMsg, StopMsg, RestartMsg, ShutdownMsg

\* One sequence after another.
LEMMA ConcatFacts ==
  ASSUME NEW S, NEW q \in Seq(S), NEW s \in Seq(S)
  PROVE  /\ q \o s \in Seq(S) /\ Len(q \o s) = Len(q) + Len(s) /\ DOMAIN (q \o s) = 1..(Len(q) + Len(s))
         /\ \A k \in 1..(Len(q) + Len(s)) : (q \o s)[k] = IF k <= Len(q) THEN q[k] ELSE s[k - Len(q)]
BY SMTT(30)

\* Messages are messages.
LEMMA MessagesMade ==
  /\ \A p \in Packets : PacketMsg(p) \in Messages /\ PacketMsg(p).type = "packet"
  /\ \A l \in Limits : RestartMsg(l) \in Messages /\ RestartMsg(l).type = "restart"
  /\ StopMsg \in Messages /\ StopMsg.type = "stop"
  /\ ShutdownMsg \in Messages /\ ShutdownMsg.type = "shutdown"
BY DEF Messages, PacketMsg, StopMsg, RestartMsg, ShutdownMsg

\* Reading a message.
LEMMA ReadEffect ==
  ASSUME MonitorTypeOK, NEW type, blockingRead(type)
  PROVE  /\ Head(queue) \in Messages /\ Head(queue).type = type
         /\ queue' \in Seq(Messages) /\ Len(queue') = Len(queue) - 1
         /\ queue = <<Head(queue)>> \o queue'
BY SMTT(30) DEF MonitorTypeOK, blockingRead

\* What the threads but the writer have keeps its types.
EnvOK ==
  /\ storage \in {"FILE", "IOBUF"} /\ forwarding \in BOOLEAN
  /\ perf \in [Cpus -> Seq(Packets)] /\ \A c \in Cpus : Len(perf[c]) <= ringSize
  /\ queue \in Seq(Messages) /\ Len(queue) <= queueSize + 1
  /\ call \in {"none", "send", "blocked", "join", "gone"}
  /\ sending \in Seq(Messages) /\ (sending # <<>> <=> call = "send")
  /\ Len(queue) > queueSize => call = "blocked"

WriterOK ==
  /\ running \in BOOLEAN /\ packetLimit \in Nat /\ packetAmount \in 0..packetLimit
  /\ headerExists \in [Events -> BOOLEAN] /\ data \in [Events -> Seq(Int)]
  /\ closed \in BOOLEAN /\ stopped \in BOOLEAN

\* The first write is that of the header, and no other is; a file is closed only
\* while the limit is 0.
Shape(items) ==
  items # <<>> => /\ items[1] \in {HdrMark, TornMark}
                  /\ \A k \in 2..Len(items) : items[k] # HdrMark

HeadersOK ==
  /\ running /\ closed => packetLimit = 0
  /\ \A e \in Events : Shape(data[e])
  /\ running => \A e \in Events : headerExists[e] <=> data[e] # <<>>

\* The message of a call in progress, or else the last control message in the
\* queue, or else the last one handled, agrees with the XDP program.
ReportsOK ==
  /\ call = "send" => /\ Len(sending) = 1 /\ sending[1].type \in {"stop", "restart"}
                      /\ sending[1].type = "stop" => ~forwarding
  /\ call \notin {"send", "gone"} =>
       /\ \A k \in DOMAIN queue :
            /\ queue[k].type = "stop"
            /\ \A j \in DOMAIN queue : j > k => queue[j].type # "restart"
            => ~forwarding
       /\ (\A j \in DOMAIN queue : queue[j].type # "restart") /\ stopped => ~forwarding

MonitorInv == MonitorTypeOK /\ HeadersOK /\ ReportsOK

\* What writePcapHeader leaves in the data writer of event e.
WithHdr(e, ok) == IF headerExists[e] THEN data[e] ELSE writeData(data[e], HdrMark, ok)

\* The data of event e after a packet: without room after the header, or stored.
Stores(e, d) ==
  \E hdr \in BOOLEAN, x \in Int \ {HdrMark} : d = WithHdr(e, hdr) \/ d = Append(WithHdr(e, hdr), x)

\* One packet: dropped, or handed to a data writer.
LEMMA WritePacketEffect ==
  ASSUME MonitorTypeOK, writePacket
  PROVE  \/ UNCHANGED writer
         \/ \E e \in Events :
              /\ packetAmount < packetLimit
              /\ headerExists' = [headerExists EXCEPT ![e] = TRUE]
              /\ \E d : Stores(e, d) /\ data' = [data EXCEPT ![e] = d]
              /\ packetAmount' \in {packetAmount, packetAmount + 1}
              /\ UNCHANGED <<packetLimit, closed, stopped>>
<1> DEFINE p == Head(queue).packet
<1>1. p \in Packets
  BY ReadEffect, MessageKinds DEF writePacket, Read
<1>2. Trimmed(p) \in Int \ {HdrMark} /\ TornMark \in Int \ {HdrMark}
  BY SMTT(30), <1>1, MonitorAssumption DEF Trimmed, HdrMark, TornMark
<1>3. \A ok \in BOOLEAN : \A items : \E x \in Int \ {HdrMark} : writeData(items, Trimmed(p), ok) = Append(items, x)
  BY <1>2 DEF writeData
<1>4. CASE ~UNCHANGED writer
  <2>1. /\ packetAmount < packetLimit /\ p.event \in Events
        /\ headerExists' = [headerExists EXCEPT ![p.event] = TRUE]
        /\ UNCHANGED <<packetLimit, closed, stopped>>
    BY <1>4 DEF writePacket
  <2>2. PICK hdr \in BOOLEAN, rec \in BOOLEAN :
          LET room == Available(WithHdr(p.event, hdr), RecLen + Trimmed(p))
          IN /\ data' = [data EXCEPT ![p.event] = IF room THEN writeData(WithHdr(p.event, hdr), Trimmed(p), rec)
                                                 ELSE WithHdr(p.event, hdr)]
             /\ packetAmount' = IF room THEN packetAmount + 1 ELSE packetAmount
    BY <1>4 DEF writePacket, WithHdr
  <2>3. packetAmount' \in {packetAmount, packetAmount + 1}
    BY <2>2
  <2>4. \E d : Stores(p.event, d) /\ data' = [data EXCEPT ![p.event] = d]
    BY <1>2, <1>3, <2>2 DEF Stores
  <2> HIDE DEF p
  <2> QED BY <2>1, <2>3, <2>4
<1> QED BY <1>4

\* The writer thread keeps its types.
LEMMA WriterStep ==
  ASSUME MonitorTypeOK, [MonitorNext]_monVars
  PROVE  WriterOK'
<1>1. WriterOK
  BY SMTT(30) DEF MonitorTypeOK, WriterOK
<1>2. CASE UNCHANGED writer /\ running' \in {running, FALSE}
  BY <1>1, <1>2 DEF WriterOK, writer
<1>3. CASE restartWriters
  <2>1. Head(queue).limit \in Nat
    <3>1. Head(queue).limit \in Limits
      BY <1>3, ReadEffect, MessageKinds DEF restartWriters, Read
    <3> QED BY SMTT(30), <3>1, MonitorAssumption
  <2>2. packetLimit' \in Nat /\ packetAmount' \in 0..packetLimit'
    BY SMTT(30), <2>1, <1>3 DEF restartWriters
  <2>3. \A S : <<>> \in Seq(S)
    BY SMTT(30)
  <2> QED BY <2>2, <2>3, <1>1, <1>3 DEF restartWriters, WriterOK
<1>4. CASE stopWriters
  BY SMTT(30), <1>1, <1>4 DEF stopWriters, WriterOK
<1>5. CASE writePacket
  <2>0. UNCHANGED running
    BY <1>5 DEF writePacket
  <2>1. CASE UNCHANGED writer
    BY <2>0, <2>1, <1>2
  <2>2. ASSUME NEW e \in Events, NEW d, Stores(e, d), data' = [data EXCEPT ![e] = d],
               packetAmount < packetLimit,
               headerExists' = [headerExists EXCEPT ![e] = TRUE],
               packetAmount' \in {packetAmount, packetAmount + 1},
               UNCHANGED <<packetLimit, closed, stopped>>
        PROVE  WriterOK'
    <3>1. \A hdr \in BOOLEAN : WithHdr(e, hdr) \in Seq(Int)
      BY SMTT(30), <1>1 DEF WithHdr, writeData, WriterOK, HdrMark, TornMark
    <3>2. d \in Seq(Int)
      <4>1. \A items \in Seq(Int), x \in Int : Append(items, x) \in Seq(Int)
        BY SMTT(30)
      <4> QED BY <2>2, <3>1, <4>1 DEF Stores
    <3>3. data' \in [Events -> Seq(Int)]
      BY <1>1, <2>2, <3>2 DEF WriterOK
    <3>4. packetLimit' \in Nat /\ packetAmount' \in 0..packetLimit'
      BY SMTT(30), <1>1, <2>2 DEF WriterOK
    <3>5. running' \in BOOLEAN /\ headerExists' \in [Events -> BOOLEAN]
      BY SMTT(30), <1>1, <2>0, <2>2 DEF WriterOK
    <3> QED BY <1>1, <2>2, <3>3, <3>4, <3>5 DEF WriterOK
  <2> QED BY <2>1, <2>2, <1>5, WritePacketEffect
<1>6. CASE restartThrows
  <2>1. \A S : <<>> \in Seq(S)
    BY SMTT(30)
  <2> QED BY <2>1, <1>1, <1>6 DEF restartThrows, WriterOK
<1> QED BY <1>2, <1>3, <1>4, <1>5, <1>6
           DEF MonitorNext, monVars, report, handlePerfEvent, stopKatranMonitor, restartKatranMonitor,
               blockingWrite, blockingWriteEnd, destroy, join, shutdown

\* A data writer has its header first, whatever is written, dropped or
\* restarted.
LEMMA HeadersStep ==
  ASSUME MonitorTypeOK, HeadersOK, [MonitorNext]_monVars
  PROVE  HeadersOK'
<1>1. CASE UNCHANGED writer /\ running' \in {running, FALSE}
  <2>1. UNCHANGED <<packetLimit, headerExists, data, closed>> /\ Events' = Events
    BY <1>1 DEF writer, Events
  <2>2. running' => running
    BY <1>1
  <2> QED BY <2>1, <2>2 DEF HeadersOK
<1>e. Shape(<<>>)
  BY DEF Shape
<1>2. CASE restartWriters
  <2>1. ~closed' /\ \A e \in Events : data'[e] = <<>> /\ ~headerExists'[e]
    BY <1>2 DEF restartWriters
  <2> QED BY <2>1, <1>e DEF HeadersOK
<1>3. CASE stopWriters
  BY <1>3 DEF stopWriters, HeadersOK
<1>4. CASE restartThrows
  <2>1. \A e \in Events : data'[e] \in {<<>>, data[e]}
    BY <1>4 DEF restartThrows
  <2>2. \A e \in Events : Shape(data'[e])
    BY <2>1, <1>e DEF HeadersOK
  <2>3. ~running'
    BY <1>4 DEF restartThrows
  <2> QED BY <2>2, <2>3 DEF HeadersOK
<1>5. ASSUME NEW e \in Events, NEW d, Stores(e, d), data' = [data EXCEPT ![e] = d],
             headerExists' = [headerExists EXCEPT ![e] = TRUE],
             UNCHANGED <<running, packetLimit, closed, stopped>>, running
      PROVE  HeadersOK'
  <2>1. data[e] \in Seq(Int)
    BY DEF MonitorTypeOK
  <2>2. headerExists[e] <=> data[e] # <<>>
    BY <1>5 DEF HeadersOK
  <2>3. ASSUME NEW hdr \in BOOLEAN
        PROVE  WithHdr(e, hdr) \in Seq(Int) /\ WithHdr(e, hdr) # <<>> /\ Shape(WithHdr(e, hdr))
    <3>1. CASE headerExists[e]
      BY <3>1, <2>1, <2>2 DEF WithHdr, HeadersOK
    <3>2. CASE ~headerExists[e]
      <4>1. WithHdr(e, hdr) = Append(<<>>, IF hdr THEN HdrMark ELSE TornMark)
        BY <3>2, <2>2 DEF WithHdr, writeData
      <4> QED BY SMTT(30), <4>1 DEF Shape, HdrMark, TornMark
    <3> QED BY <3>1, <3>2
  <2>4. \A items \in Seq(Int), x \in Int \ {HdrMark} :
          items # <<>> /\ Shape(items) => Append(items, x) # <<>> /\ Shape(Append(items, x))
    BY SMTT(30) DEF Shape
  <2>5. d # <<>> /\ Shape(d)
    BY <1>5, <2>3, <2>4 DEF Stores
  <2>6. \A f \in Events : /\ data'[f] = IF f = e THEN d ELSE data[f]
                          /\ headerExists'[f] = IF f = e THEN TRUE ELSE headerExists[f]
    BY <1>5 DEF MonitorTypeOK
  <2> QED BY <1>5, <2>5, <2>6 DEF HeadersOK
<1>6. CASE writePacket
  <2>1. running /\ UNCHANGED running
    BY <1>6 DEF writePacket, Read, blockingRead
  <2> QED BY <2>1, <1>1, <1>5, <1>6, WritePacketEffect
<1> QED BY <1>1, <1>2, <1>3, <1>4, <1>6
           DEF MonitorNext, monVars, report, handlePerfEvent, stopKatranMonitor, restartKatranMonitor,
               blockingWrite, blockingWriteEnd, destroy, join, shutdown

\* The other threads keep their types, and the queue its limit.
LEMMA EnvStep ==
  ASSUME MonitorTypeOK, ReportsOK, [MonitorNext]_monVars
  PROVE  EnvOK'
<1>1. EnvOK
  BY SMTT(30) DEF MonitorTypeOK, EnvOK
<1>2. CASE UNCHANGED env /\ UNCHANGED queue
  BY <1>1, <1>2 DEF EnvOK, env
<1>3. ASSUME NEW c \in Cpus, NEW p \in Packets, report(c, p) PROVE EnvOK'
  <2>1. Append(perf[c], p) \in Seq(Packets) /\ Len(Append(perf[c], p)) <= ringSize
    BY SMTT(30), <1>1, <1>3, MonitorAssumption DEF EnvOK, report
  <2>2. perf' \in [Cpus -> Seq(Packets)] /\ \A d \in Cpus : Len(perf'[d]) <= ringSize
    BY <1>1, <1>3, <2>1 DEF EnvOK, report
  <2> QED BY <1>1, <1>3, <2>2 DEF EnvOK, report
<1>4. ASSUME NEW c \in Cpus, handlePerfEvent(c) PROVE EnvOK'
  <2>1. Tail(perf[c]) \in Seq(Packets) /\ Len(Tail(perf[c])) <= ringSize /\ Head(perf[c]) \in Packets
    BY SMTT(30), <1>1, <1>4, MonitorAssumption DEF EnvOK, handlePerfEvent
  <2>2. perf' \in [Cpus -> Seq(Packets)] /\ \A d \in Cpus : Len(perf'[d]) <= ringSize
    BY <1>1, <1>4, <2>1 DEF EnvOK, handlePerfEvent
  <2>3. PacketMsg(Head(perf[c])) \in Messages
    BY <2>1, MessagesMade
  <2>4. /\ queue' \in Seq(Messages) /\ Len(queue') <= queueSize + 1
        /\ Len(queue') > queueSize => Len(queue) > queueSize
    BY SMTT(30), <1>1, <1>4, <2>3, MonitorAssumption DEF EnvOK, handlePerfEvent
  <2> QED BY <1>1, <1>4, <2>2, <2>4 DEF EnvOK, handlePerfEvent
<1>5. CASE stopKatranMonitor
  <2>1. <<StopMsg>> \in Seq(Messages) /\ <<StopMsg>> # <<>>
    BY SMTT(30), MessagesMade
  <2>2. ~(Len(queue) > queueSize)
    BY SMTT(30), <1>1, <1>5 DEF EnvOK, stopKatranMonitor
  <2> QED BY <1>1, <1>5, <2>1, <2>2 DEF EnvOK, stopKatranMonitor
<1>6. ASSUME NEW limit \in Limits, restartKatranMonitor(limit) PROVE EnvOK'
  <2>1. <<RestartMsg(limit)>> \in Seq(Messages) /\ <<RestartMsg(limit)>> # <<>>
    BY SMTT(30), MessagesMade
  <2>2. ~(Len(queue) > queueSize)
    BY SMTT(30), <1>1, <1>6 DEF EnvOK, restartKatranMonitor
  <2> QED BY <1>1, <1>6, <2>1, <2>2 DEF EnvOK, restartKatranMonitor
<1>7. CASE blockingWrite
  <2>a. Len(sending) = 1 /\ ~(Len(queue) > queueSize)
    BY <1>1, <1>7 DEF ReportsOK, EnvOK, blockingWrite
  <2>b. queue \in Seq(Messages) /\ sending \in Seq(Messages) /\ queue' = queue \o sending
    BY <1>1, <1>7 DEF EnvOK, blockingWrite
  <2>1. queue' \in Seq(Messages) /\ Len(queue') <= queueSize + 1
    <3>1. queue' \in Seq(Messages) /\ Len(queue') = Len(queue) + Len(sending)
      BY <2>b, ConcatFacts
    <3>2. Len(queue) \in Nat
      BY SMTT(30), <2>b
    <3> QED BY SMTT(30), <3>1, <3>2, <2>a, MonitorAssumption
  <2>2. \A S : <<>> \in Seq(S)
    BY SMTT(30)
  <2> QED BY <1>1, <1>7, <2>1, <2>2 DEF EnvOK, blockingWrite
<1>8. CASE blockingWriteEnd
  <2>1. ~(Len(queue) > queueSize)
    BY SMTT(30), <1>1, <1>8, MonitorAssumption DEF EnvOK, blockingWriteEnd
  <2> QED BY <1>1, <1>8, <2>1 DEF EnvOK, blockingWriteEnd
<1>9. CASE destroy
  <2>1. queue' \in Seq(Messages) /\ Len(queue') <= queueSize + 1 /\ ~(Len(queue') > queueSize)
    BY SMTT(30), <1>1, <1>9, MessagesMade, MonitorAssumption DEF EnvOK, destroy
  <2> QED BY <1>1, <1>9, <2>1 DEF EnvOK, destroy
<1>10. CASE join
  BY <1>1, <1>10 DEF EnvOK, join
<1>11. ASSUME NEW type, Read(type) PROVE EnvOK'
  <2>1. /\ queue' \in Seq(Messages) /\ Len(queue') <= queueSize + 1
        /\ Len(queue') > queueSize => Len(queue) > queueSize
    BY SMTT(30), <1>1, <1>11, MonitorAssumption DEF EnvOK, Read, blockingRead
  <2> QED BY <1>1, <1>11, <2>1 DEF EnvOK, Read, env
<1>12. CASE restartThrows
  <2>1. queue' \in Seq(Messages) /\ Len(queue') <= queueSize + 1 /\ ~(Len(queue') > queueSize)
    BY SMTT(30), <1>1, <1>12, MonitorAssumption DEF EnvOK, restartThrows, blockingRead
  <2>2. \A S : <<>> \in Seq(S)
    BY SMTT(30)
  <2> QED BY <1>1, <1>12, <2>1, <2>2 DEF EnvOK, restartThrows
<1> QED BY <1>2, <1>3, <1>4, <1>5, <1>6, <1>7, <1>8, <1>9, <1>10, <1>11, <1>12
           DEF MonitorNext, monVars, shutdown, restartWriters, stopWriters, writePacket

\* The part of ReportsOK about the queue q and what was handled before it:
\* the last stop or restart says whether packets may be reported.
Agrees(q, st, fw) ==
  /\ \A k \in DOMAIN q :
       /\ q[k].type = "stop"
       /\ \A j \in DOMAIN q : j > k => q[j].type # "restart"
       => ~fw
  /\ (\A j \in DOMAIN q : q[j].type # "restart") /\ st => ~fw

\* A message at the end that is neither a stop nor a restart.
LEMMA AgreesAppend ==
  ASSUME NEW q \in Seq(Messages), NEW m \in Messages, m.type \notin {"stop", "restart"},
         NEW st, NEW fw, Agrees(q, st, fw)
  PROVE  Agrees(Append(q, m), st, fw)
<1> DEFINE r == Append(q, m)
<1>1. /\ DOMAIN r = DOMAIN q \cup {Len(q) + 1} /\ r[Len(q) + 1] = m
      /\ \A k \in DOMAIN q : r[k] = q[k] /\ k # Len(q) + 1
  BY SMTT(30)
<1> HIDE DEF r
<1>2. ASSUME NEW k \in DOMAIN r, r[k].type = "stop",
             \A j \in DOMAIN r : j > k => r[j].type # "restart"
      PROVE  ~fw
  BY <1>1, <1>2 DEF Agrees
<1>3. ASSUME \A j \in DOMAIN r : r[j].type # "restart", st PROVE ~fw
  BY <1>1, <1>3 DEF Agrees
<1>4. Agrees(r, st, fw)
  BY <1>2, <1>3 DEF Agrees
<1> QED BY SMTT(30), <1>4 DEF r

\* The stop or restart that a call sends.
LEMMA AgreesSent ==
  ASSUME NEW q \in Seq(Messages), NEW s \in Seq(Messages), Len(s) = 1, s[1].type \in {"stop", "restart"},
         NEW st, NEW fw, s[1].type = "stop" => ~fw
  PROVE  Agrees(q \o s, st, fw)
<1> DEFINE r == q \o s
           n == Len(q) + 1
<1>1. n \in DOMAIN r /\ r[n] = s[1] /\ \A k \in DOMAIN r : k # n => n > k
  <2>1. DOMAIN r = 1..(Len(q) + 1) /\ \A k \in 1..(Len(q) + 1) : r[k] = IF k <= Len(q) THEN q[k] ELSE s[k - Len(q)]
    BY SMTT(30), ConcatFacts
  <2> HIDE DEF r
  <2>2. Len(q) \in Nat /\ n - Len(q) = 1
    BY SMTT(30)
  <2> QED BY SMTT(30), <2>1, <2>2
<1> HIDE DEF r, n
<1>2. CASE s[1].type = "stop"
  BY <1>2 DEF Agrees
<1>3. CASE s[1].type = "restart"
  <2>1. r[n].type # "stop"
    BY <1>1, <1>3
  <2> QED BY <1>1, <1>3, <2>1 DEF Agrees, r
<1> QED BY <1>2, <1>3

\* The writer thread handles the first message.
LEMMA AgreesTail ==
  ASSUME NEW q \in Seq(Messages), q # <<>>, NEW st, NEW fw, Agrees(q, st, fw),
         NEW st2, \/ st2 = st /\ Head(q).type # "restart"
                  \/ Head(q).type = "stop"
                  \/ st2 = FALSE
  PROVE  Agrees(Tail(q), st2, fw)
<1> DEFINE r == Tail(q)
<1>1. /\ \A k \in DOMAIN r : k + 1 \in DOMAIN q /\ r[k] = q[k + 1]
      /\ \A j \in DOMAIN q : j # 1 => j - 1 \in DOMAIN r /\ q[j] = r[j - 1] /\ j > 1
      /\ \A k \in DOMAIN r, j \in DOMAIN q : j > k + 1 => j # 1 /\ j - 1 > k
      /\ 1 \in DOMAIN q /\ q[1] = Head(q)
  BY SMTT(30)
<1> HIDE DEF r
<1>2. ASSUME NEW k \in DOMAIN r, r[k].type = "stop",
             \A j \in DOMAIN r : j > k => r[j].type # "restart"
      PROVE  ~fw
  <2>1. k + 1 \in DOMAIN q /\ q[k + 1].type = "stop"
    BY <1>1, <1>2
  <2>2. \A j \in DOMAIN q : j > k + 1 => q[j].type # "restart"
    BY <1>1, <1>2
  <2> QED BY <2>1, <2>2 DEF Agrees
<1>3. ASSUME \A j \in DOMAIN r : r[j].type # "restart", st2 PROVE ~fw
  <2>1. \A j \in DOMAIN q : j # 1 => q[j].type # "restart"
    BY <1>1, <1>3
  <2>2. CASE Head(q).type = "stop"
    <3>1. \A j \in DOMAIN q : j > 1 => q[j].type # "restart"
      BY SMTT(30), <2>1
    <3> QED BY <2>2, <3>1, <1>1 DEF Agrees
  <2>3. CASE st2 = st /\ Head(q).type # "restart"
    BY <2>1, <2>3, <1>1, <1>3 DEF Agrees
  <2> QED BY <2>2, <2>3, <1>3
<1>4. Agrees(r, st2, fw)
  BY <1>2, <1>3 DEF Agrees
<1> QED BY SMTT(30), <1>4 DEF r

\* XDP program and writer agree, also while messages are on their way.
LEMMA ReportsStep ==
  ASSUME MonitorTypeOK, ReportsOK, [MonitorNext]_monVars
  PROVE  ReportsOK'
<1>a. /\ queue \in Seq(Messages) /\ sending \in Seq(Messages) /\ (sending # <<>> <=> call = "send")
      /\ perf \in [Cpus -> Seq(Packets)]
  BY DEF MonitorTypeOK
<1>b. ReportsOK <=> /\ call = "send" => /\ Len(sending) = 1 /\ sending[1].type \in {"stop", "restart"}
                                        /\ sending[1].type = "stop" => ~forwarding
                    /\ call \notin {"send", "gone"} => Agrees(queue, stopped, forwarding)
  BY DEF ReportsOK, Agrees
<1>c. ReportsOK' <=> /\ call' = "send" => /\ Len(sending') = 1 /\ sending'[1].type \in {"stop", "restart"}
                                          /\ sending'[1].type = "stop" => ~forwarding'
                     /\ call' \notin {"send", "gone"} => Agrees(queue', stopped', forwarding')
  BY DEF ReportsOK, Agrees
<1>1. CASE UNCHANGED <<queue, call, sending, forwarding, stopped>>
  BY <1>1, <1>b, <1>c
<1>2. ASSUME NEW c \in Cpus, handlePerfEvent(c) PROVE ReportsOK'
  <2>1. Head(perf[c]) \in Packets
    BY SMTT(30), <1>2, <1>a DEF handlePerfEvent
  <2>2. PacketMsg(Head(perf[c])) \in Messages /\ PacketMsg(Head(perf[c])).type \notin {"stop", "restart"}
    BY SMTT(30), <2>1, MessagesMade
  <2>3. UNCHANGED <<call, sending, forwarding, stopped>>
    BY <1>2 DEF handlePerfEvent, writer
  <2>4. queue' = queue \/ queue' = Append(queue, PacketMsg(Head(perf[c])))
    BY <1>2 DEF handlePerfEvent
  <2> QED BY <2>2, <2>3, <2>4, <1>a, <1>b, <1>c, AgreesAppend
<1>3. CASE stopKatranMonitor
  <2>1. Len(<<StopMsg>>) = 1 /\ <<StopMsg>>[1].type = "stop"
    BY SMTT(30), MessagesMade
  <2> QED BY <2>1, <1>3, <1>b, <1>c DEF stopKatranMonitor, writer
<1>4. ASSUME NEW limit \in Limits, restartKatranMonitor(limit) PROVE ReportsOK'
  <2>1. Len(<<RestartMsg(limit)>>) = 1 /\ <<RestartMsg(limit)>>[1].type = "restart"
    BY SMTT(30), MessagesMade
  <2> QED BY <2>1, <1>4, <1>b, <1>c DEF restartKatranMonitor, writer
<1>5. CASE blockingWrite
  <2>1. Agrees(queue \o sending, stopped, forwarding)
    BY <1>5, <1>a, <1>b, AgreesSent DEF blockingWrite
  <2> QED BY <2>1, <1>5, <1>c DEF blockingWrite, writer
<1>6. CASE blockingWriteEnd \/ join
  BY <1>6, <1>b, <1>c DEF blockingWriteEnd, join, writer
<1>7. CASE destroy
  <2>1. ShutdownMsg \in Messages /\ ShutdownMsg.type \notin {"stop", "restart"}
    BY SMTT(30), MessagesMade
  <2> QED BY <2>1, <1>7, <1>a, <1>b, <1>c, AgreesAppend DEF destroy, writer
<1>8. ASSUME NEW type, Read(type),
             \/ stopped' = stopped /\ type # "restart"
             \/ type = "stop"
             \/ stopped' = FALSE
      PROVE  ReportsOK'
  <2>1. /\ queue # <<>> /\ Head(queue).type = type /\ queue' = Tail(queue)
        /\ UNCHANGED <<call, sending, forwarding>>
    BY <1>8 DEF Read, blockingRead, env
  <2> QED BY <2>1, <1>8, <1>a, <1>b, <1>c, AgreesTail
<1>9. CASE shutdown
  BY <1>9, <1>8 DEF shutdown, writer
<1>10. CASE restartWriters
  BY <1>10, <1>8 DEF restartWriters
<1>11. CASE stopWriters
  BY <1>11, <1>8 DEF stopWriters
<1>12. CASE writePacket
  <2>1. stopped' = stopped
    BY <1>12 DEF writePacket, writer
  <2> QED BY <2>1, <1>12, <1>8 DEF writePacket
<1>13. CASE restartThrows
  BY <1>13, <1>c DEF restartThrows
<1> QED BY <1>1, <1>2, <1>3, <1>4, <1>5, <1>6, <1>7, <1>9, <1>10, <1>11, <1>12, <1>13
           DEF MonitorNext, monVars, report, writer, env

-----------------------------------------------------------------------------
(* The theorems.                                                           *)

\* MonitorInv is an inductive invariant.
LEMMA MonitorInvAlways == MonitorSafety => []MonitorInv
<1>1. MonitorInit => MonitorInv
  <2> SUFFICES ASSUME MonitorInit PROVE MonitorInv
    BY SMTT(30)
  <2>1. EnvOK
    <3>1. Len(<<>>) = 0 /\ \A S : <<>> \in Seq(S)
      BY SMTT(30)
    <3>2. 0 <= ringSize /\ 0 <= queueSize + 1 /\ ~(0 > queueSize)
      BY SMTT(30), MonitorAssumption
    <3> QED BY <3>1, <3>2 DEF MonitorInit, EnvOK
  <2>2. WriterOK
    <3>a. pcktLimit \in Nat
      BY MonitorAssumption
    <3>1. packetLimit \in Nat /\ packetAmount \in 0..packetLimit
      BY SMTT(30), <3>a DEF MonitorInit
    <3>2. \A S : <<>> \in Seq(S)
      BY SMTT(30)
    <3> QED BY <3>1, <3>2 DEF MonitorInit, WriterOK
  <2>3. HeadersOK
    BY DEF MonitorInit, HeadersOK, Shape
  <2>4. ReportsOK
    <3>1. DOMAIN queue = {} /\ call # "send" /\ ~stopped
      BY SMTT(30) DEF MonitorInit
    <3> QED BY <3>1 DEF ReportsOK
  <2> QED BY <2>1, <2>2, <2>3, <2>4 DEF MonitorInv, MonitorTypeOK, EnvOK, WriterOK
<1>2. MonitorInv /\ [MonitorNext]_monVars => MonitorInv'
  <2> SUFFICES ASSUME MonitorInv, [MonitorNext]_monVars PROVE MonitorInv'
    BY SMTT(30)
  <2>1. EnvOK' /\ WriterOK'
    BY EnvStep, WriterStep DEF MonitorInv
  <2>2. MonitorTypeOK'
    BY <2>1 DEF MonitorTypeOK, EnvOK, WriterOK
  <2>3. HeadersOK' /\ ReportsOK'
    BY HeadersStep, ReportsStep DEF MonitorInv
  <2> QED BY <2>2, <2>3 DEF MonitorInv
<1> QED BY <1>1, <1>2, PTL DEF MonitorSafety

\* The threads, the queue and the counters of the introspection keep to their
\* types and limits, for every size of them: in particular the queue takes one
\* message more than queueSize only while the call that sends it waits, and
\* PcapWriter never counts more packets than its limit.
THEOREM MonitorTypes == MonitorSpec => []MonitorTypeOK
<1>1. MonitorInv => MonitorTypeOK
  BY SMTT(30) DEF MonitorInv
<1> QED BY <1>1, MonitorInvAlways, PTL DEF MonitorSpec

\* What the data writers of PcapWriter hold can be read as pcap, one header and
\* then packets, whatever stops, restarts, full buffers and limits come between,
\* unless a write to the file has failed since the last restart.
THEOREM CaptureReadable == MonitorSpec => []PcapReadable
<1>1. ASSUME NEW items \in Seq(Int), items # <<>>, ~Torn(items), Shape(items)
      PROVE  items[1] = HdrMark
  <2>1. 1 \in DOMAIN items
    BY SMTT(30), <1>1
  <2> QED BY <2>1, <1>1 DEF Torn, Shape, Range
<1>2. MonitorInv => PcapReadable
  BY <1>1 DEF MonitorInv, MonitorTypeOK, HeadersOK, Shape, PcapReadable
<1> QED BY <1>2, MonitorInvAlways, PTL DEF MonitorSpec

\* stopKatranMonitor and restartKatranMonitor change the XDP program and the
\* writer together, also when their bpf() call fails and however long their
\* messages wait in the queue.
THEOREM ReportsSafe == MonitorSpec => []ReportsAreWanted
<1>1. MonitorInv => ReportsAreWanted
  BY DEF MonitorInv, ReportsOK, ReportsAreWanted
<1> QED BY <1>1, MonitorInvAlways, PTL DEF MonitorSpec

=============================================================================
