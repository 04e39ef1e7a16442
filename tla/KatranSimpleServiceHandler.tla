--------------------- MODULE KatranSimpleServiceHandler ---------------------
(***************************************************************************)
(* What the handlers of the thrift service make of the result of a call of *)
(* KatranLb.  No status tells of a failure.  The lock is taken in module   *)
(* Service.                                                                *)
(***************************************************************************)
CONSTANT Flags    \* all flags of a VIP: the bits of -1

Bool(r) == [status |-> "OK", val |-> r.ok]

\* What a call has returned, or an exception instead of a result.
Value(r) == [status |-> "OK", val |-> r.val]

changeMac(r) == Bool(r)
getMac(r) == Value(r)
addVip(r) == Bool(r)
delVip(r) == Bool(r)
getAllVips(r) == Value(r)
modifyVip(r) == Bool(r)

\* The flags are -1 after an exception.
getVipFlags(r) == IF r.ok THEN Value(r) ELSE [status |-> "OK", val |-> Flags]

addRealForVip(r) == Bool(r)
delRealForVip(r) == Bool(r)
modifyRealsForVip(r) == Bool(r)
getRealsForVip(r) == Value(r)
modifyQuicRealsMapping(r) == Bool(r)
getQuicRealsMapping(r) == Value(r)
getStatsForVip(r) == Value(r)
getLruStats(r) == Value(r)
getLruMissStats(r) == Value(r)
getLruFallbackStats(r) == Value(r)
getIcmpTooBigStats(r) == Value(r)

\* Without hcForwarding_ nothing is called.
addHealthcheckerDst(hcForwarding, r) == [status |-> "OK", val |-> hcForwarding /\ r.ok]
delHealthcheckerDst(hcForwarding, r) == [status |-> "OK", val |-> hcForwarding /\ r.ok]
getHealthcheckersDst(hcForwarding, r) == [status |-> "OK", val |-> IF hcForwarding THEN r.val ELSE <<>>]

Handler(hcForwarding, do, r) ==
  CASE do = "changeMac" -> changeMac(r)
    [] do = "getMac" -> getMac(r)
    [] do = "addVip" -> addVip(r)
    [] do = "delVip" -> delVip(r)
    [] do = "getAllVips" -> getAllVips(r)
    [] do = "modifyVip" -> modifyVip(r)
    [] do = "getVipFlags" -> getVipFlags(r)
    [] do = "addRealForVip" -> addRealForVip(r)
    [] do = "delRealForVip" -> delRealForVip(r)
    [] do = "modifyRealsForVip" -> modifyRealsForVip(r)
    [] do = "getRealsForVip" -> getRealsForVip(r)
    [] do = "modifyQuicRealsMapping" -> modifyQuicRealsMapping(r)
    [] do = "getQuicRealsMapping" -> getQuicRealsMapping(r)
    [] do = "getStatsForVip" -> getStatsForVip(r)
    [] do = "getLruStats" -> getLruStats(r)
    [] do = "getLruMissStats" -> getLruMissStats(r)
    [] do = "getLruFallbackStats" -> getLruFallbackStats(r)
    [] do = "getIcmpTooBigStats" -> getIcmpTooBigStats(r)
    [] do = "addHealthcheckerDst" -> addHealthcheckerDst(hcForwarding, r)
    [] do = "delHealthcheckerDst" -> delHealthcheckerDst(hcForwarding, r)
    [] do = "getHealthcheckersDst" -> getHealthcheckersDst(hcForwarding, r)
=============================================================================
