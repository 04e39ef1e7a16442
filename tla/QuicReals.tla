----------------------------- MODULE QuicReals ------------------------------
(***************************************************************************)
(* KatranLb's mapping of QUIC server ids to reals: modifyQuicRealsMapping  *)
(* and the BPF array map "quic_mapping".                                   *)
(***************************************************************************)
EXTENDS RealPool

CONSTANTS
  QuicIds,      \* ids given to modifyQuicRealsMapping
  kMaxQuicId,   \* largest id that is accepted
  quicMapSize,  \* entries of quic_mapping (MAX_QUIC_REALS)
  NoId,         \* the address has no mapping
  QuicBatches   \* vectors of QuicReal given to modifyQuicRealsMapping

QuicReal == [address : Addrs \cup {NoAddr}, id : QuicIds]

ASSUME QuicAssumption ==
  /\ QuicIds \subseteq Nat
  /\ NoId \notin QuicIds
  /\ kMaxQuicId \in Nat
  /\ quicMapSize \in Nat
  /\ QuicBatches \subseteq Seq(QuicReal)

VARIABLES
  quicMapping,   \* quicMapping_: address -> id
  quic_mapping,  \* BPF array map "quic_mapping": id -> number
  qtodo,         \* the QuicReals the call's loop has still to visit
  to_update      \* id -> number, to be written to quic_mapping; maxReals: none

quicVars == <<quicMapping, quic_mapping>>

quicCallVars == <<qtodo, to_update>>

NoQuicUpdates == [id \in QuicIds |-> maxReals]

QuicTypeOK ==
  /\ quicMapping \in [Addrs -> QuicIds \cup {NoId}]
  /\ quic_mapping \in [QuicIds -> Nums]
  /\ qtodo \in Seq(QuicReal)
  /\ to_update \in [QuicIds -> 0..maxReals]

QuicInit ==
  /\ quicMapping = [a \in Addrs |-> NoId]
  /\ quic_mapping = [id \in QuicIds |-> 0]
  /\ qtodo = <<>>
  /\ to_update = NoQuicUpdates

-----------------------------------------------------------------------------
\* The loop's skipped entries: an invalid address, or an id out of range.
SkippedQuicReal(r) == r.address = NoAddr \/ r.id > kMaxQuicId

modifyQuicRealsMapping(action, batch) ==
  /\ Idle
  /\ action = "ADD" => RefCountsInBound
  /\ op' = IF action = "ADD" THEN "quicADD" ELSE "quicDEL"
  /\ qtodo' = batch
  /\ UNCHANGED <<poolVars, quicVars, to_update>>

\* Mutant: the address is mapped but its id is not put down for quic_mapping.
addQuicRealNoUpdate ==
  /\ op = "quicADD"
  /\ qtodo # <<>>
  /\ qtodo' = Tail(qtodo)
  /\ LET r == Head(qtodo)
         a == r.address
         new == ~SkippedQuicReal(r) /\ quicMapping[a] = NoId
     IN
     \/ /\ ~new
        /\ UNCHANGED <<poolVars, quicMapping>>
     \/ /\ new
        /\ increaseRefCountForReal(a)
        /\ IF Rnum(a) = maxReals THEN UNCHANGED quicMapping
           ELSE quicMapping' = [quicMapping EXCEPT ![a] = r.id]
  /\ UNCHANGED <<op, quic_mapping, to_update>>

\* An address that has a mapping keeps it.
addQuicReal ==
  /\ op = "quicADD"
  /\ qtodo # <<>>
  /\ qtodo' = Tail(qtodo)
  /\ LET r == Head(qtodo)
         a == r.address
         new == ~SkippedQuicReal(r) /\ quicMapping[a] = NoId
     IN
     \/ /\ ~new
        /\ UNCHANGED <<poolVars, quicMapping, to_update>>
     \/ /\ new
        /\ increaseRefCountForReal(a)
        /\ IF Rnum(a) = maxReals
           THEN UNCHANGED <<quicMapping, to_update>>
           ELSE /\ to_update' = [to_update EXCEPT ![r.id] = Rnum(a)]
                /\ quicMapping' = [quicMapping EXCEPT ![a] = r.id]
  /\ UNCHANGED <<op, quic_mapping>>

\* Nothing is written to quic_mapping for a deleted mapping.
delQuicReal ==
  /\ op = "quicDEL"
  /\ qtodo # <<>>
  /\ qtodo' = Tail(qtodo)
  /\ LET r == Head(qtodo)
         a == r.address
         mapped == ~SkippedQuicReal(r) /\ quicMapping[a] # NoId
     IN
     \/ /\ ~mapped
        /\ UNCHANGED <<poolVars, quicMapping>>
     \/ /\ mapped
        /\ decreaseRefCountForReal(a)
        /\ UNCHANGED <<bpf_reals, bpfFailed>>
        /\ quicMapping' = [quicMapping EXCEPT ![a] = NoId]
  /\ UNCHANGED <<op, quic_mapping, to_update>>

\* One update of quic_mapping, in the order of an unordered_map; an index
\* beyond the end of the array is refused by the kernel.
writeQuicMapping ==
  /\ op \in {"quicADD", "quicDEL"}
  /\ qtodo = <<>>
  /\ \E id \in QuicIds, res \in BpfResults :
       LET ok == res /\ id < quicMapSize IN
       /\ to_update[id] # maxReals
       /\ quic_mapping' = IF ok THEN [quic_mapping EXCEPT ![id] = to_update[id]]
                          ELSE quic_mapping
       /\ CountFailure(ok)
       /\ to_update' = [to_update EXCEPT ![id] = maxReals]
  /\ UNCHANGED <<op, reals, numToReals, realNums, bpf_reals, quicMapping, qtodo>>

modifyQuicEnd ==
  /\ op \in {"quicADD", "quicDEL"}
  /\ qtodo = <<>>
  /\ \A id \in QuicIds : to_update[id] = maxReals
  /\ op' = "idle"
  /\ UNCHANGED <<poolVars, quicVars, quicCallVars>>

QuicNext ==
  \/ \E action \in {"ADD", "DEL"}, batch \in QuicBatches :
       modifyQuicRealsMapping(action, batch)
  \/ addQuicReal
  \/ delQuicReal
  \/ writeQuicMapping
  \/ modifyQuicEnd

-----------------------------------------------------------------------------
\* An address that has a QUIC mapping keeps a number.
QuicRealsBound == \A a \in Addrs : quicMapping[a] # NoId => reals[a] # NoReal

\* As long as no bpf() call has failed, a QUIC packet that carries the id of a
\* mapped address is sent to that address (quic_mapping, then reals), from the
\* moment its entry of quic_mapping has been written.
QuicMappingServes ==
  ~bpfFailed =>
    \A a \in Addrs :
      quicMapping[a] # NoId /\ to_update[quicMapping[a]] = maxReals =>
        bpf_reals[quic_mapping[quicMapping[a]]] = a

=============================================================================
