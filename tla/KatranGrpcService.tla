------------------------- MODULE KatranGrpcService --------------------------
(***************************************************************************)
(* What the handlers of the gRPC service make of the result of a call of   *)
(* KatranLb: the status of the RPC and the response.  The lock is taken in *)
(* module Service.                                                         *)
(***************************************************************************)
CONSTANT Flags    \* all flags of a VIP: the bits of -1

returnStatus(result) == IF result THEN "OK" ELSE "CANCELLED"

Bool(r) == [status |-> returnStatus(r.ok), val |-> r.ok]

\* What a call has returned, or an exception instead of a result.
Value(r) == [status |-> "OK", val |-> r.val]

changeMac(r) == Bool(r)
getMac(r) == Value(r)
addVip(r) == Bool(r)
delVip(r) == Bool(r)
getAllVips(r) == Value(r)
modifyVip(r) == Bool(r)

\* The flags are -1 after an exception.
getVipFlags(r) == IF r.ok THEN Value(r) ELSE [status |-> "OK", val |-> Flags]

addRealForVip(r) == Bool(r)
delRealForVip(r) == Bool(r)
modifyRealsForVip(r) == Bool(r)
getRealsForVip(r) == [status |-> returnStatus(r.ok), val |-> r.val]
modifyQuicRealsMapping(r) == Bool(r)
getQuicRealsMapping(r) == [status |-> returnStatus(r.ok), val |-> r.val]
getStatsForVip(r) == Value(r)
getLruStats(r) == Value(r)
getLruMissStats(r) == Value(r)
getLruFallbackStats(r) == Value(r)
getIcmpTooBigStats(r) == Value(r)

\* Without hcForwarding_ nothing is called.
Cancelled == [status |-> "CANCELLED", val |-> {}]
addHealthcheckerDst(hcForwarding, r) == IF hcForwarding THEN Bool(r) ELSE Cancelled
delHealthcheckerDst(hcForwarding, r) == IF hcForwarding THEN Bool(r) ELSE Cancelled
getHealthcheckersDst(hcForwarding, r) == IF hcForwarding THEN Value(r) ELSE Cancelled

Handler(hcForwarding, do, r) ==
  CASE do = "changeMac" -> changeMac(r)
    [] do = "getMac" -> getMac(r)
    [] do = "addVip" -> addVip(r)
    [] do = "delVip" -> delVip(r)
    [] do = "getAllVips" -> getAllVips(r)
    [] do = "modifyVip" -> modifyVip(r)
    [] do = "getVipFlags" -> getVipFlags(r)
    [] do = "addRealForVip" -> addRealForVip(r)
    [] do = "delRealForVip" -> delRealForVip(r)
    [] do = "modifyRealsForVip" -> modifyRealsForVip(r)
    [] do = "getRealsForVip" -> getRealsForVip(r)
    [] do = "modifyQuicRealsMapping" -> modifyQuicRealsMapping(r)
    [] do = "getQuicRealsMapping" -> getQuicRealsMapping(r)
    [] do = "getStatsForVip" -> getStatsForVip(r)
    [] do = "getLruStats" -> getLruStats(r)
    [] do = "getLruMissStats" -> getLruMissStats(r)
    [] do = "getLruFallbackStats" -> getLruFallbackStats(r)
    [] do = "getIcmpTooBigStats" -> getIcmpTooBigStats(r)
    [] do = "addHealthcheckerDst" -> addHealthcheckerDst(hcForwarding, r)
    [] do = "delHealthcheckerDst" -> delHealthcheckerDst(hcForwarding, r)
    [] do = "getHealthcheckersDst" -> getHealthcheckersDst(hcForwarding, r)
=============================================================================
