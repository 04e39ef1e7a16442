------------------------------ MODULE Service -------------------------------
(***************************************************************************)
(* The services around KatranLb (gRPC and thrift) and the programs that    *)
(* use them: the command line clients, and start_katran, which starts the  *)
(* server and then follows the MAC address of the default gateway.  Every  *)
(* RPC is a call of KatranLb under the lock giant_; the steps of a call    *)
(* are those of module LbCalls.  "admin" gives one command after another,  *)
(* "peer" runs one program from the start: the two interleave.             *)
(***************************************************************************)
EXTENDS LbCalls, SequencesExt

CONSTANTS
  flagTranslationTable,                \* names of flags
  MAX_RETRIES,                         \* of start_katran, until the server answers
  MaxCommands(_), MaxPackets(_),       \* bounds, by the program of peer:
  MaxSignals(_),                       \* commands, packets, signals
  MaxMoves                             \* bound: moves of the gateway

ASSUME ServiceAssumption ==
  /\ {MAX_RETRIES, MaxMoves} \subseteq Nat /\ MAX_RETRIES > 0

VARIABLES
  server,  \* "starting", "up", "scheduled" to stop, "stopping", "down"
  giant,   \* who holds giant_
  rpc,     \* client -> RPC in progress
  prog,    \* client -> program in progress
  gw,      \* default gateway: MAC address, and whether there is a route
  hist     \* history: what admin has touched, packets since the last sample

svcVars == <<server, giant, rpc, prog, gw, hist>>

Grpc == INSTANCE KatranGrpcService WITH Flags <- flagTranslationTable
Thrift == INSTANCE KatranSimpleServiceHandler WITH Flags <- flagTranslationTable
Go == INSTANCE Katranc
Cpp == INSTANCE KatranSimpleClient

Clients == {"admin", "peer"}
NoOne == "none"
NoRpc == [at |-> "none"]

-----------------------------------------------------------------------------
(* The service.                                                            *)

HcRpcs == {"addHealthcheckerDst", "delHealthcheckerDst", "getHealthcheckersDst"}

Reply(req, r) ==
  IF config.grpc THEN Grpc!Handler(config.hc, req.do, r) ELSE Thrift!Handler(config.hc, req.do, r)

Answer(req, reply) == [at |-> "answered", req |-> req, status |-> reply.status, val |-> reply.val]

\* addRealForVip and delRealForVip are modifyRealsForVip with one real.
LbRequest(req) ==
  IF req.do \in {"addRealForVip", "delRealForVip"}
  THEN [do |-> "modifyRealsForVip", vip |-> req.vip, reals |-> {req.real}, del |-> req.do = "delRealForVip"]
  ELSE req

\* A handler waits for the lock, but those for health checks return at once
\* without hcForwarding_.
Request(c) ==
  /\ prog[c].pc = "run" /\ prog[c].todo # <<>> /\ rpc[c] = NoRpc
  /\ LET req == Head(prog[c].todo) IN
     rpc' = [rpc EXCEPT ![c] =
       IF server \notin {"up", "scheduled"} THEN Answer(req, [status |-> "UNAVAILABLE", val |-> {}])
       ELSE IF req.do \in HcRpcs /\ ~config.hc THEN Answer(req, Reply(req, [ok |-> FALSE, val |-> {}]))
       ELSE [at |-> "waiting", req |-> req]]
  /\ UNCHANGED <<lbVars, server, giant, prog, gw, hist>>

\* What admin changes, as history.
Touched(req) ==
  CASE req.do \in {"addVip", "delVip", "modifyVip", "modifyRealsForVip"} ->
         [hist EXCEPT !.vips = @ \cup {req.vip}]
    [] req.do \in {"addHealthcheckerDst", "delHealthcheckerDst"} -> [hist EXCEPT !.marks = @ \cup {req.mark}]
    [] req.do = "changeMac" -> [hist EXCEPT !.mac = TRUE]
    [] OTHER -> hist

lock(c) ==
  /\ rpc[c].at = "waiting" /\ giant = NoOne
  /\ giant' = c /\ rpc' = [rpc EXCEPT ![c].at = "running"]
  /\ Begin(LbRequest(rpc[c].req))
  /\ hist' = IF c = "admin" THEN Touched(LbRequest(rpc[c].req)) ELSE hist
  /\ UNCHANGED <<config, macVars, srcVars, decapVars, hcVars, vipVars, stats, bpfFailed, server, prog, gw>>

unlock(c) ==
  /\ giant = c /\ call.at = "returned" /\ rpc[c].at = "running"
  /\ giant' = NoOne /\ call' = NoCall
  /\ rpc' = [rpc EXCEPT ![c] = Answer(rpc[c].req, Reply(rpc[c].req, [ok |-> call.ok, val |-> call.val]))]
  /\ UNCHANGED <<config, macVars, srcVars, decapVars, hcVars, vipVars, stats, bpfFailed, server, prog, gw, hist>>

\* A step of the call; when peer reads a counter, its packets since the last
\* time are noted.
StatsCalls == {"getStatsForVip"} \cup DOMAIN StatsPosition
PositionRead ==
  IF call.at # "getStatsForVip" THEN StatsPosition[call.at]
  ELSE IF call.req.vip \in DOMAIN vips THEN vips[call.req.vip].num ELSE -1

SinceRead == IF PositionRead \in DOMAIN hist.since THEN hist.since[PositionRead] ELSE 0

Serve ==
  /\ LbStep
  /\ hist' = IF giant = "peer" /\ call.at \in StatsCalls
             THEN [hist EXCEPT !.due = IF prog["peer"].skip > 0 THEN @ ELSE Append(@, SinceRead),
                               !.since = [p \in DOMAIN @ |-> IF p = PositionRead THEN 0 ELSE @[p]]]
             ELSE hist
  /\ UNCHANGED <<server, giant, rpc, prog, gw>>

\* The counters that a program shows.
PositionsOf(kind) ==
  CASE kind \in {"perVip", "sum"} -> 0..maxVips - 1
    [] kind = "lru" -> {StatsPosition[do] : do \in DOMAIN StatsPosition \ {"getIcmpTooBigStats"}}
    [] kind = "icmp" -> {StatsPosition["getIcmpTooBigStats"]}
    [] OTHER -> {}

CountPacket(p) ==
  /\ hist.packets < MaxPackets(prog["peer"].kind)
  /\ Count(p)
  /\ hist' = [hist EXCEPT !.packets = @ + 1, !.since[p] = @ + 1]
  /\ UNCHANGED <<call, server, giant, rpc, prog, gw>>

-----------------------------------------------------------------------------
(* Signals: the first one schedules the end, later ones are ignored, so    *)
(* one is enough.                                                          *)

signalReceived ==
  /\ server = "up" /\ server' = "scheduled" /\ MaxSignals(prog["peer"].kind) > 0
  /\ UNCHANGED <<lbVars, giant, rpc, prog, gw, hist>>

Shutdown ==
  /\ server = "scheduled" /\ server' = "stopping"
  /\ UNCHANGED <<lbVars, giant, rpc, prog, gw, hist>>

\* Mutant: Wait returns when no client is left.
exitNoClients ==
  /\ server = "stopping" /\ \A c \in Clients : prog[c].pc # "run"
  /\ server' = "down"
  /\ UNCHANGED <<lbVars, giant, rpc, prog, gw, hist>>

\* Wait returns when no handler runs.
Exit ==
  /\ server = "stopping" /\ \A c \in Clients : rpc[c].at \notin {"waiting", "running"}
  /\ server' = "down"
  /\ UNCHANGED <<lbVars, giant, rpc, prog, gw, hist>>

-----------------------------------------------------------------------------
(* Clients.  A program has RPCs to make (todo), those of a round of        *)
(* statistics (loop), and the answers so far (got).                        *)

Program(kind, todo, loop) ==
  [kind |-> kind, pc |-> "run", todo |-> todo, loop |-> loop, keys |-> <<>>, got |-> <<>>, skip |-> 0,
   old |-> [i \in 1..Len(loop) |-> 0], shown |-> <<>>, due |-> <<>>, rounds |-> 0,
   current |-> BadMac, retries |-> 0]

Idle == [Program("none", <<>>, <<>>) EXCEPT !.pc = "done"]

Viewers == {"perVip", "sum", "lru", "icmp"}

\* Each command is a run of the client.
Command(todo) ==
  /\ prog["admin"] = Idle /\ hist.commands < MaxCommands(prog["peer"].kind)
  /\ prog' = [prog EXCEPT !["admin"] = Program("command", todo, <<>>)]
  /\ hist' = [hist EXCEPT !.commands = @ + 1]
  /\ UNCHANGED <<lbVars, server, giant, rpc, gw>>

\* The programs that go on with the keys that an RPC has returned.
IsFetch(kind, do) ==
  \/ kind \in {"clearAll", "list", "perVip", "sum"} /\ do = "getAllVips"
  \/ kind = "clearAll" /\ do = "getHealthcheckersDst"

Continue(p, do, keys) ==
  LET loop == IF config.grpc THEN Go!StatsForVips(keys) ELSE Cpp!StatsForVips(keys) IN
  CASE p.kind = "clearAll" ->
         [p EXCEPT !.todo = IF config.grpc THEN Go!ClearAll(do, keys) ELSE Cpp!clearAll(do, keys)]
    [] p.kind = "list" ->
         [p EXCEPT !.todo = IF config.grpc THEN Go!List(keys) ELSE Cpp!list(keys), !.keys = keys]
    [] p.kind = "sum" -> [p EXCEPT !.todo = loop, !.loop = loop, !.keys = keys, !.old = <<0>>]
    [] p.kind = "perVip" ->
         [p EXCEPT !.todo = (IF config.grpc THEN <<>> ELSE Cpp!firstStats(keys)) \o loop, !.loop = loop,
                   !.keys = keys, !.skip = IF config.grpc THEN 0 ELSE Len(keys),
                   !.old = [i \in DOMAIN keys |-> 0]]

Died(p, a) == IF config.grpc THEN Go!checkError(p.kind, a.req.do, a.status) ELSE Cpp!throws(a.status)

Take(c) ==
  /\ rpc[c].at = "answered" /\ prog[c].kind # "watcher"
  /\ LET a == rpc[c]
         p == prog[c]
         done == [p EXCEPT !.todo = Tail(@)]
     IN
     \/ /\ Died(p, a)
        /\ prog' = [prog EXCEPT ![c] = IF c = "admin" THEN Idle ELSE [p EXCEPT !.pc = "dead"]]
     \/ /\ ~Died(p, a) /\ IsFetch(p.kind, a.req.do)
        /\ \E keys \in SetToSeqs(IF a.req.do = "getAllVips" THEN a.val ELSE DOMAIN a.val) :
             prog' = [prog EXCEPT ![c] = Continue(p, a.req.do, keys)]
     \/ /\ ~Died(p, a) /\ ~IsFetch(p.kind, a.req.do)
        /\ prog' = [prog EXCEPT ![c] =
             IF config.grpc /\ Go!Restarts(p.kind, a.status) THEN [p EXCEPT !.todo = p.loop, !.got = <<>>]
             ELSE IF p.skip > 0 THEN [done EXCEPT !.skip = @ - 1]
             ELSE [done EXCEPT !.got = Append(@, [ok |-> a.status = "OK", val |-> a.val])]]
  /\ rpc' = [rpc EXCEPT ![c] = NoRpc]
  /\ UNCHANGED <<lbVars, server, giant, gw, hist>>

Finish(c) ==
  /\ prog[c].pc = "run" /\ prog[c].todo = <<>> /\ rpc[c] = NoRpc
  /\ prog[c].kind \notin Viewers \cup {"watcher"}
  /\ prog' = [prog EXCEPT ![c] = IF c = "admin" THEN Idle ELSE [@ EXCEPT !.pc = "done"]]
  /\ UNCHANGED <<lbVars, server, giant, rpc, gw, hist>>

Shown(p) ==
  CASE p.kind = "sum" -> IF config.grpc THEN Go!ShowSumStats(p.old, p.got) ELSE Cpp!showSumStats(p.old, p.got)
    [] p.kind = "perVip" ->
         IF config.grpc THEN Go!ShowPerVipStats(p.old, p.got) ELSE Cpp!showPerVipStats(p.old, p.got)
    [] p.kind = "lru" -> IF config.grpc THEN Go!ShowLruStats(p.old, p.got) ELSE Cpp!showLruStats(p.old, p.got)
    [] p.kind = "icmp" -> IF config.grpc THEN Go!ShowIcmpStats(p.old, p.got) ELSE Cpp!showIcmpStats(p.old, p.got)

\* The end of a round of statistics; rounds counts to 2.
Show ==
  /\ LET p == prog["peer"] IN
     /\ p.kind \in Viewers /\ p.pc = "run" /\ p.todo = <<>> /\ rpc["peer"] = NoRpc
     /\ prog' = [prog EXCEPT !["peer"] =
          [p EXCEPT !.shown = Shown(p).shown, !.old = Shown(p).old, !.todo = p.loop, !.got = <<>>,
                    !.due = hist.due,
                    !.rounds = IF @ < 2 THEN @ + 1 ELSE @]]
  /\ hist' = [hist EXCEPT !.due = <<>>]
  /\ UNCHANGED <<lbVars, server, giant, rpc, gw>>

-----------------------------------------------------------------------------
(* start_katran                                                            *)

\* The server is started with the MAC address of the gateway, then asked for
\* it until it answers.
StartKatran(mac) == [Program("watcher", <<[do |-> "getMac"]>>, <<>>) EXCEPT !.current = mac]

ServerStarts ==
  /\ server = "starting" /\ server' \in {"up", "down"}
  /\ UNCHANGED <<lbVars, giant, rpc, prog, gw, hist>>

\* Mutant: the table of neighbours is read once, at the start.
gatewayAtStart == {prog["peer"].current}

\* Without a default route, ip neighbor lists the neighbours.  A gateway that
\* does not answer has no MAC address, and nothing happens.
GetDefaultGatewayMac == IF gw.route THEN {gw.mac} ELSE Macs

\* Nobody reads the current one until the RPC has returned.
CheckDefaultGwMac(new) ==
  /\ new # prog["peer"].current
  /\ prog' = [prog EXCEPT !["peer"].todo = Go!ChangeMac(new), !["peer"].current = new]

Watch ==
  /\ prog["peer"].kind = "watcher" /\ prog["peer"].pc = "run" /\ prog["peer"].todo = <<>>
  /\ \E new \in GetDefaultGatewayMac : CheckDefaultGwMac(new)
  /\ UNCHANGED <<lbVars, server, giant, rpc, gw, hist>>

\* Errors of getMac are retried, one of changeMac ends start_katran.
WatchTake ==
  /\ rpc["peer"].at = "answered" /\ prog["peer"].kind = "watcher"
  /\ LET ok == rpc["peer"].status = "OK"
         retry == ~ok /\ rpc["peer"].req.do = "getMac" /\ prog["peer"].retries + 1 # MAX_RETRIES
     IN prog' = [prog EXCEPT !["peer"] = [@ EXCEPT !.pc = IF ok \/ retry THEN @ ELSE "dead",
                                                  !.todo = IF ok THEN Tail(@) ELSE @,
                                                  !.retries = IF retry THEN @ + 1 ELSE @]]
  /\ rpc' = [rpc EXCEPT !["peer"] = NoRpc]
  /\ UNCHANGED <<lbVars, server, giant, gw, hist>>

\* start_katran ends with the server.
WatchEnds ==
  /\ prog["peer"].kind = "watcher" /\ prog["peer"].pc = "run" /\ prog["peer"].todo = <<>>
  /\ server = "down"
  /\ prog' = [prog EXCEPT !["peer"].pc = "dead"]
  /\ UNCHANGED <<lbVars, server, giant, rpc, gw, hist>>

\* The network: another gateway, or none.
GatewayMoves ==
  /\ hist.moves < MaxMoves /\ prog["peer"].kind = "watcher"
  /\ gw' \in [mac : Macs, route : BOOLEAN] \ {gw}
  /\ hist' = [hist EXCEPT !.moves = @ + 1]
  /\ UNCHANGED <<lbVars, server, giant, rpc, prog>>

-----------------------------------------------------------------------------
SvcStep ==
  \/ \E c \in Clients : Request(c) \/ lock(c) \/ unlock(c) \/ Take(c) \/ Finish(c)
  \/ signalReceived \/ Shutdown \/ Exit \/ Show
  \/ ServerStarts \/ Watch \/ WatchTake \/ WatchEnds \/ GatewayMoves
  \/ \E p \in PositionsOf(prog["peer"].kind) : CountPacket(p)

SvcInit(program) ==
  /\ server = IF program.kind = "watcher" THEN "starting" ELSE "up"
  /\ giant = NoOne
  /\ rpc = [c \in Clients |-> NoRpc]
  /\ prog = [c \in Clients |-> IF c = "peer" THEN program ELSE Idle]
  /\ gw = [mac |-> ctlValues, route |-> TRUE]
  /\ hist = [vips |-> {}, marks |-> {}, mac |-> FALSE, since |-> [p \in DOMAIN stats |-> 0], due |-> <<>>,
             packets |-> 0, commands |-> 0, moves |-> 0]

-----------------------------------------------------------------------------
(* Properties.                                                             *)

\* The lock giant_ is held by the client whose call is in progress, the counters
\* keep their width, and no VIP number is lost.
ServiceTypeOK ==
  /\ server \in {"starting", "up", "scheduled", "stopping", "down"}
  /\ giant \in Clients \cup {NoOne}
  /\ prog["peer"].kind # "wire" => (giant = NoOne) = (call = NoCall)
  /\ \A c \in Clients : (rpc[c].at = "running") = (giant = c)
  /\ \A p \in DOMAIN stats : stats[p] \in 0..CounterLimit - 1
  /\ Cardinality(DOMAIN vips) + Len(vipNums) = maxVips

\* When clearAll has ended with the server running, no VIP and no health check
\* is left but those that someone else has handled meanwhile.
ClearAllClears ==
  prog["peer"].kind = "clearAll" /\ prog["peer"].pc = "done" /\ server \in {"up", "scheduled"} /\ ~bpfFailed =>
    DOMAIN vips \subseteq hist.vips /\ DOMAIN hcReals \subseteq hist.marks

\* When list has ended, it has shown every VIP that nobody has changed
\* meanwhile, with its reals and its flags, whatever happened to the others.
ListShows ==
  LET p == prog["peer"] IN
  p.kind = "list" /\ p.pc = "done" =>
    \A v \in DOMAIN vips \ hist.vips :
      \E i \in DOMAIN p.keys : /\ p.keys[i] = v /\ 2 * i \in DOMAIN p.got
                               /\ p.got[2 * i - 1].val = vips[v].reals /\ p.got[2 * i].val = vips[v].flags

\* From the second round on, the rate that a client shows is the number of
\* packets between two readings of the counter, also when the counter wraps;
\* not so for a VIP that is deleted or added meanwhile, after a failed system
\* call, and in showIcmpStats of the C++ client.
RateIsTraffic ==
  LET p == prog["peer"] IN
  /\ p.kind \in Viewers /\ p.rounds = 2 /\ server \in {"up", "scheduled"} /\ ~bpfFailed
  /\ p.kind = "sum" => hist.vips = {}
  /\ config.grpc \/ p.kind # "icmp"
  => IF p.kind = "sum" THEN p.shown[1] = FoldLeft(LAMBDA n, d : n + d, 0, p.due) % CounterLimit
     ELSE \A i \in DOMAIN p.shown :
            p.shown[i] = p.due[i] % CounterLimit \/ (p.kind = "perVip" /\ p.keys[i] \in hist.vips)

\* What the clients show, as list or as rates, is what the server has; its calls
\* do not mix (giant_).
ShownIsTrue == ServiceTypeOK /\ ListShows /\ RateIsTraffic

\* After a signal the server stops, whatever RPCs are in progress.
ServerStops == server = "scheduled" ~> server = "down"

\* start_katran runs with a server, there is a default route, and nobody else
\* has changed the MAC address.
Watching ==
  /\ prog["peer"].kind = "watcher" /\ prog["peer"].pc = "run"
  /\ server = "up" /\ gw.route /\ ~hist.mac

\* Packets are finally sent to the MAC address of the gateway, however often
\* it has changed.
WatcherConverges == <>[](Watching => ctl_array = gw.mac)
=============================================================================
