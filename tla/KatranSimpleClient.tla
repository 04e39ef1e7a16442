------------------------- MODULE KatranSimpleClient -------------------------
(***************************************************************************)
(* The C++ client of the thrift service (KatranSimpleClient.cpp), as the   *)
(* Go client in module Katranc.                                            *)
(***************************************************************************)
EXTENDS Integers, Sequences, SequencesExt

CONSTANTS
  flagTranslationTable,  \* names of flags
  CounterLimit           \* counters are modulo this

-----------------------------------------------------------------------------
(* Commands: the RPCs that they start with.                                *)

changeMac(mac) == <<[do |-> "changeMac", mac |-> mac]>>
getMac == <<[do |-> "getMac"]>>

\* Nothing is done for an unknown flag.
addOrModifyService(vip, flag, modify, setFlags) ==
  LET flags == IF flag = "" THEN {} ELSE {flag} IN
  IF flag # "" /\ flag \notin flagTranslationTable THEN <<>>
  ELSE IF modify THEN <<[do |-> "modifyVip", vip |-> vip, flags |-> flags, set |-> setFlags]>>
  ELSE <<[do |-> "addVip", vip |-> vip, flags |-> flags]>>

delService(vip) == <<[do |-> "delVip", vip |-> vip]>>

updateServerForVip(vip, real, delete) ==
  <<[do |-> "modifyRealsForVip", vip |-> vip, reals |-> {real}, del |-> delete]>>

modifyQuicMappings(real, id, delete) ==
  <<[do |-> "modifyQuicRealsMapping", real |-> real, id |-> id, del |-> delete]>>

addHc(addr, mark) == <<[do |-> "addHealthcheckerDst", dst |-> addr, mark |-> mark]>>
delHc(mark) == <<[do |-> "delHealthcheckerDst", mark |-> mark]>>
getAllVips == <<[do |-> "getAllVips"]>>
getAllHcs == <<[do |-> "getHealthcheckersDst"]>>
listQm == <<[do |-> "getQuicRealsMapping"]>>
listHc == getAllHcs

-----------------------------------------------------------------------------
(* Commands that go on with what the first RPC has returned: keys is the   *)
(* order in which it has returned them.                                    *)

getRealsForVip(vip) == [do |-> "getRealsForVip", vip |-> vip]
getFlags(vip) == [do |-> "getVipFlags", vip |-> vip]
listVipAndReals(vip) == <<getRealsForVip(vip), getFlags(vip)>>

list(keys) == FlattenSeq([i \in DOMAIN keys |-> listVipAndReals(keys[i])])

\* First the VIPs, then the health checks.
clearAll(do, keys) ==
  IF do = "getAllVips" THEN [i \in DOMAIN keys |-> [do |-> "delVip", vip |-> keys[i]]] \o getAllHcs
  ELSE [i \in DOMAIN keys |-> [do |-> "delHealthcheckerDst", mark |-> keys[i]]]

\* The RPCs of one round of the statistics.
StatsForVips(keys) == [i \in DOMAIN keys |-> [do |-> "getStatsForVip", vip |-> keys[i]]]
\* showPerVipStats asks for every VIP once before it starts.
firstStats(keys) == StatsForVips(keys)
LruStats == <<[do |-> "getLruStats"], [do |-> "getLruMissStats"], [do |-> "getLruFallbackStats"]>>
IcmpStats == <<[do |-> "getIcmpTooBigStats"]>>

-----------------------------------------------------------------------------
(* Answers.                                                                *)

\* Nothing is thrown but when there is no server.
throws(status) == status = "UNAVAILABLE"

Minus(x, y) == (x + CounterLimit - y) % CounterLimit

showSumStats(old, got) ==
  LET pkts == FoldLeft(LAMBDA n, g : (n + g.val) % CounterLimit, 0, got) IN
  [shown |-> <<Minus(pkts, old[1])>>, old |-> <<pkts>>]

Differences(old, got) ==
  [shown |-> [i \in DOMAIN got |-> Minus(got[i].val, old[i])], old |-> [i \in DOMAIN got |-> got[i].val]]

showPerVipStats(old, got) == Differences(old, got)
showLruStats(old, got) == Differences(old, got)

\* The difference is stored, not the counter.
showIcmpStats(old, got) ==
  LET diff == Minus(got[1].val, old[1]) IN [shown |-> <<diff>>, old |-> <<diff>>]
=============================================================================
