------------------------------ MODULE Katranc -------------------------------
(***************************************************************************)
(* The Go client of the gRPC service (katranc.go).  A command is the       *)
(* sequence of RPCs that it makes; shown is what a command shows of the    *)
(* counters, given those of the last round and the answers of this one.    *)
(***************************************************************************)
EXTENDS Integers, Sequences, SequencesExt

CONSTANTS
  flagTranslationTable,  \* names of flags
  CounterLimit           \* counters are modulo this

-----------------------------------------------------------------------------
(* Commands: the RPCs that they start with.                                *)

ChangeMac(mac) == <<[do |-> "changeMac", mac |-> mac]>>
GetMac == <<[do |-> "getMac"]>>

\* Nothing is done for an unknown flag.
AddOrModifyService(vip, flag, modify, setFlags) ==
  LET flags == IF flag = "" THEN {} ELSE {flag} IN
  IF flag # "" /\ flag \notin flagTranslationTable THEN <<>>
  ELSE IF modify THEN <<[do |-> "modifyVip", vip |-> vip, flags |-> flags, set |-> setFlags]>>
  ELSE <<[do |-> "addVip", vip |-> vip, flags |-> flags]>>

DelService(vip) == <<[do |-> "delVip", vip |-> vip]>>

UpdateServerForVip(vip, real, delete) ==
  <<[do |-> "modifyRealsForVip", vip |-> vip, reals |-> {real}, del |-> delete]>>

ModifyQuicMappings(real, id, delete) ==
  <<[do |-> "modifyQuicRealsMapping", real |-> real, id |-> id, del |-> delete]>>

AddHc(addr, mark) == <<[do |-> "addHealthcheckerDst", dst |-> addr, mark |-> mark]>>
DelHc(mark) == <<[do |-> "delHealthcheckerDst", mark |-> mark]>>
GetAllVips == <<[do |-> "getAllVips"]>>
GetAllHcs == <<[do |-> "getHealthcheckersDst"]>>
ListQm == <<[do |-> "getQuicRealsMapping"]>>
ListHc == GetAllHcs

-----------------------------------------------------------------------------
(* Commands that go on with what the first RPC has returned: keys is the   *)
(* order in which it has returned them.                                    *)

GetRealsForVip(vip) == [do |-> "getRealsForVip", vip |-> vip]
GetFlags(vip) == [do |-> "getVipFlags", vip |-> vip]
ListVipAndReals(vip) == <<GetRealsForVip(vip), GetFlags(vip)>>

List(keys) == FlattenSeq([i \in DOMAIN keys |-> ListVipAndReals(keys[i])])

\* Mutant: health checks are left.
clearVipsOnly(do, keys) ==
  IF do = "getAllVips" THEN [i \in DOMAIN keys |-> [do |-> "delVip", vip |-> keys[i]]] ELSE <<>>

\* First the VIPs, then the health checks.
ClearAll(do, keys) ==
  IF do = "getAllVips" THEN [i \in DOMAIN keys |-> [do |-> "delVip", vip |-> keys[i]]] \o GetAllHcs
  ELSE [i \in DOMAIN keys |-> [do |-> "delHealthcheckerDst", mark |-> keys[i]]]

\* The RPCs of one round of the statistics.
StatsForVips(keys) == [i \in DOMAIN keys |-> [do |-> "getStatsForVip", vip |-> keys[i]]]
LruStats == <<[do |-> "getLruStats"], [do |-> "getLruMissStats"], [do |-> "getLruFallbackStats"]>>
IcmpStats == <<[do |-> "getIcmpTooBigStats"]>>

-----------------------------------------------------------------------------
(* Answers.                                                                *)

\* Errors end the client, but not in loops over VIPs and health checks.
checkError(kind, do, status) ==
  /\ status # "OK"
  /\ ~(kind = "clearAll" /\ do \in {"delVip", "delHealthcheckerDst"})
  /\ ~(kind \in {"sum", "perVip", "lru"} /\ do # "getAllVips")

Minus(x, y) == (x + CounterLimit - y) % CounterLimit

\* A VIP without an answer is left out.
Sum(got) == FoldLeft(LAMBDA n, g : IF g.ok THEN (n + g.val) % CounterLimit ELSE n, 0, got)

ShowSumStats(old, got) == [shown |-> <<Minus(Sum(got), old[1])>>, old |-> <<Sum(got)>>]

ShowPerVipStats(old, got) ==
  [shown |-> [i \in DOMAIN got |-> IF got[i].ok THEN Minus(got[i].val, old[i]) ELSE 0],
   old |-> [i \in DOMAIN got |-> IF got[i].ok THEN got[i].val ELSE old[i]]]

\* A round with an error starts again.
Restarts(kind, status) == kind = "lru" /\ status # "OK"

ShowLruStats(old, got) ==
  [shown |-> [i \in DOMAIN got |-> Minus(got[i].val, old[i])], old |-> [i \in DOMAIN got |-> got[i].val]]

ShowIcmpStats(old, got) == [shown |-> <<Minus(got[1].val, old[1])>>, old |-> <<got[1].val>>]
=============================================================================
