----------------------------- MODULE SrcRouting -----------------------------
(***************************************************************************)
(* Source based routing rules of KatranLb: addSrcRoutingRule,              *)
(* delSrcRoutingRule, clearAllSrcRoutingRules and the BPF LPM tries        *)
(* "lpm_src_v4" / "lpm_src_v6" (one map here: a prefix has one family).    *)
(***************************************************************************)
EXTENDS RealPool

CONSTANTS
  Srcs,           \* source prefixes (folly::CIDRNetwork)
  BadSrc,         \* a string that is not a prefix
  maxLpmSrcSize,  \* config_.maxLpmSrcSize
  SrcBatches      \* vectors of strings given to the calls

ASSUME SrcAssumption ==
  /\ BadSrc \notin Srcs
  /\ IsFiniteSet(Srcs)
  /\ maxLpmSrcSize \in Nat
  /\ SrcBatches \subseteq Seq(Srcs \cup {BadSrc})

kError == -1

VARIABLES
  lpmSrcMapping,  \* lpmSrcMapping_: prefix -> number; maxReals: no rule
  lpm_src,        \* BPF LPM tries: prefix -> number; maxReals: no entry
  asked,          \* the strings the call was given
  srcs,           \* the strings the call has still to visit
  src_networks,   \* the accepted prefixes the call has still to install
  dst,            \* the destination the call was given
  num_errors,     \* what addSrcRoutingRule will return
  cleared         \* the rules clearAllSrcRoutingRules has visited

srcVars == <<lpmSrcMapping, lpm_src>>

srcCallVars == <<asked, srcs, src_networks, dst, num_errors, cleared>>

NoRules == [s \in Srcs |-> maxReals]

Rules == {s \in Srcs : lpmSrcMapping[s] # maxReals}

SrcTypeOK ==
  /\ lpmSrcMapping \in [Srcs -> 0..maxReals]
  /\ lpm_src \in [Srcs -> 0..maxReals]
  /\ asked \in Seq(Srcs \cup {BadSrc})
  /\ srcs \in Seq(Srcs \cup {BadSrc})
  /\ src_networks \in Seq(Srcs)
  /\ dst \in Addrs \cup {NoAddr}
  /\ num_errors \in Int
  /\ cleared \in SUBSET Srcs

SrcInit ==
  /\ lpmSrcMapping = NoRules
  /\ lpm_src = NoRules
  /\ asked = <<>> /\ srcs = <<>> /\ src_networks = <<>> /\ dst = NoAddr
  /\ num_errors = 0 /\ cleared = {}

-----------------------------------------------------------------------------
\* modifyLpmSrcRule: an update may only fail; deleting a missing prefix does.
modifyLpmSrcRule(action, s, num) ==
  \E res \in BpfResults :
    LET ok == res /\ (action = "DEL" => lpm_src[s] # maxReals)
        to == IF action = "ADD" THEN num ELSE maxReals
    IN
    /\ lpm_src' = IF ok THEN [lpm_src EXCEPT ![s] = to] ELSE lpm_src
    /\ CountFailure(ok)

ReturnFromSrcCall ==
  /\ op' = "idle"
  /\ asked' = <<>> /\ srcs' = <<>> /\ src_networks' = <<>> /\ dst' = NoAddr
  /\ num_errors' = 0 /\ cleared' = {}

(* addSrcRoutingRule.  The call with strings checks them first, the one    *)
(* with networks is its second half.                                       *)

addSrcRoutingRule(batch, a) ==
  /\ Idle
  /\ RefCountsInBound
  /\ op' = "srcParse"
  /\ asked' = batch
  /\ srcs' = batch
  /\ dst' = a
  /\ UNCHANGED <<poolVars, srcVars, src_networks, num_errors, cleared>>

addSrcRoutingRuleCidr(networks, a) ==
  /\ Idle
  /\ RefCountsInBound
  /\ op' = "srcADD"
  /\ asked' = networks
  /\ src_networks' = networks
  /\ dst' = a
  /\ UNCHANGED <<poolVars, srcVars, srcs, num_errors, cleared>>

\* Mutant: a string that is not a prefix is skipped without counting an error.
parseSrcNoError ==
  /\ op = "srcParse"
  /\ srcs # <<>>
  /\ LET s == Head(srcs)
         full == Cardinality(Rules) + Len(src_networks) + 1 > maxLpmSrcSize
     IN
     \/ /\ s = BadSrc
        /\ srcs' = Tail(srcs)
        /\ UNCHANGED <<src_networks, num_errors>>
     \/ /\ s # BadSrc /\ full
        /\ srcs' = <<>>
        /\ num_errors' = num_errors + (Len(asked) - Len(src_networks))
        /\ UNCHANGED src_networks
     \/ /\ s # BadSrc /\ ~full
        /\ srcs' = Tail(srcs)
        /\ src_networks' = Append(src_networks, s)
        /\ UNCHANGED num_errors
  /\ UNCHANGED <<op, poolVars, srcVars, asked, dst, cleared>>

\* Mutant: the string that finds no space is not counted.
parseSrcLostOne ==
  /\ op = "srcParse"
  /\ srcs # <<>>
  /\ LET s == Head(srcs)
         full == Cardinality(Rules) + Len(src_networks) + 1 > maxLpmSrcSize
     IN
     \/ /\ s = BadSrc
        /\ srcs' = Tail(srcs)
        /\ num_errors' = num_errors + 1
        /\ UNCHANGED src_networks
     \/ /\ s # BadSrc /\ full
        /\ srcs' = <<>>
        /\ num_errors' = num_errors + (Len(asked) - Len(src_networks) - 1)
        /\ UNCHANGED src_networks
     \/ /\ s # BadSrc /\ ~full
        /\ srcs' = Tail(srcs)
        /\ src_networks' = Append(src_networks, s)
        /\ UNCHANGED num_errors
  /\ UNCHANGED <<op, poolVars, srcVars, asked, dst, cleared>>

parseSrc ==
  /\ op = "srcParse"
  /\ srcs # <<>>
  /\ LET s == Head(srcs)
         full == Cardinality(Rules) + Len(src_networks) + 1 > maxLpmSrcSize
     IN
     \/ /\ s = BadSrc
        /\ srcs' = Tail(srcs)
        /\ num_errors' = num_errors + 1
        /\ UNCHANGED src_networks
     \/ /\ s # BadSrc /\ full                       \* bailing out
        /\ srcs' = <<>>
        /\ num_errors' = num_errors + (Len(asked) - Len(src_networks))
        /\ UNCHANGED src_networks
     \/ /\ s # BadSrc /\ ~full
        /\ srcs' = Tail(srcs)
        /\ src_networks' = Append(src_networks, s)
        /\ UNCHANGED num_errors
  /\ UNCHANGED <<op, poolVars, srcVars, asked, dst, cleared>>

parseSrcEnd ==
  /\ op = "srcParse"
  /\ srcs = <<>>
  /\ op' = "srcADD"
  /\ UNCHANGED <<poolVars, srcVars, srcCallVars>>

\* Takes a reference on dst for the next prefix.  A rule that was there is
\* overwritten; the reference it held stays.
addSrcRule ==
  /\ op = "srcADD"
  /\ src_networks # <<>>
  /\ \/ /\ Cardinality(Rules) + 1 > maxLpmSrcSize
        /\ num_errors' = kError
        /\ src_networks' = <<>>
        /\ UNCHANGED <<op, poolVars, lpmSrcMapping>>
     \/ /\ Cardinality(Rules) + 1 <= maxLpmSrcSize
        /\ increaseRefCountForReal(dst)
        /\ \/ /\ Rnum(dst) = maxReals               \* exhausted real's space
              /\ num_errors' = kError
              /\ src_networks' = <<>>
              /\ UNCHANGED <<op, lpmSrcMapping>>
           \/ /\ Rnum(dst) # maxReals
              /\ lpmSrcMapping' = [lpmSrcMapping EXCEPT ![Head(src_networks)] = Rnum(dst)]
              /\ op' = "srcWrite"
              /\ UNCHANGED <<num_errors, src_networks>>
  /\ UNCHANGED <<lpm_src, asked, srcs, dst, cleared>>

writeSrcRule ==
  /\ op = "srcWrite"
  /\ LET s == Head(src_networks) IN modifyLpmSrcRule("ADD", s, lpmSrcMapping[s])
  /\ src_networks' = Tail(src_networks)
  /\ op' = "srcADD"
  /\ UNCHANGED <<reals, numToReals, realNums, bpf_reals, lpmSrcMapping,
                 asked, srcs, dst, num_errors, cleared>>

addSrcEnd ==
  /\ op = "srcADD"
  /\ src_networks = <<>>
  /\ ReturnFromSrcCall
  /\ UNCHANGED <<poolVars, srcVars>>

-----------------------------------------------------------------------------
delSrcRoutingRule(batch) ==
  /\ Idle
  /\ op' = "srcDEL"
  /\ srcs' = batch
  /\ UNCHANGED <<poolVars, srcVars, asked, src_networks, dst, num_errors, cleared>>

delSrcRule ==
  /\ op = "srcDEL"
  /\ srcs # <<>>
  /\ srcs' = Tail(srcs)
  /\ LET s == Head(srcs) IN
     \/ /\ s \notin Rules
        /\ UNCHANGED <<poolVars, srcVars>>
     \/ /\ s \in Rules
        /\ decreaseRefCountForReal(numToReals[lpmSrcMapping[s]])
        /\ modifyLpmSrcRule("DEL", s, lpmSrcMapping[s])
        /\ lpmSrcMapping' = [lpmSrcMapping EXCEPT ![s] = maxReals]
        /\ UNCHANGED bpf_reals
  /\ UNCHANGED <<op, asked, src_networks, dst, num_errors, cleared>>

delSrcEnd ==
  /\ op = "srcDEL"
  /\ srcs = <<>>
  /\ ReturnFromSrcCall
  /\ UNCHANGED <<poolVars, srcVars>>

clearAllSrcRoutingRules ==
  /\ Idle
  /\ op' = "srcCLEAR"
  /\ UNCHANGED <<poolVars, srcVars, srcCallVars>>

\* numToReals_.find(n)->second, without a test that n is found.
FoundReal(n) == IF numToReals[n] # NoAddr THEN {numToReals[n]} ELSE Addrs \cup {NoAddr}

clearSrcRule ==
  /\ op = "srcCLEAR"
  /\ \E s \in Rules \ cleared :
       /\ \E a \in FoundReal(lpmSrcMapping[s]) : decreaseRefCountForReal(a)
       /\ modifyLpmSrcRule("DEL", s, lpmSrcMapping[s])
       /\ cleared' = cleared \cup {s}
  /\ UNCHANGED <<op, bpf_reals, lpmSrcMapping, asked, srcs, src_networks, dst, num_errors>>

\* Mutant: lpmSrcMapping_ is not cleared.
clearSrcEndKeeps ==
  /\ op = "srcCLEAR"
  /\ Rules \subseteq cleared
  /\ ReturnFromSrcCall
  /\ UNCHANGED <<poolVars, srcVars>>

clearSrcEnd ==
  /\ op = "srcCLEAR"
  /\ Rules \subseteq cleared
  /\ lpmSrcMapping' = NoRules
  /\ ReturnFromSrcCall
  /\ UNCHANGED <<poolVars, lpm_src>>

SrcNext ==
  \/ \E batch \in SrcBatches, a \in Addrs : addSrcRoutingRule(batch, a)
  \/ \E batch \in SrcBatches \cap Seq(Srcs), a \in Addrs : addSrcRoutingRuleCidr(batch, a)
  \/ parseSrc
  \/ parseSrcEnd
  \/ addSrcRule
  \/ writeSrcRule
  \/ addSrcEnd
  \/ \E batch \in SrcBatches : delSrcRoutingRule(batch)
  \/ delSrcRule
  \/ delSrcEnd
  \/ clearAllSrcRoutingRules
  \/ clearSrcRule
  \/ clearSrcEnd

-----------------------------------------------------------------------------
\* The rules whose references are still held, as far as the call in progress
\* has come.
HeldRules == Rules \ cleared

\* The point at which addSrcRoutingRule returns num_errors.
Returning == op = "srcADD" /\ src_networks = <<>>

\* KatranLb.h:249, "0 on success": when addSrcRoutingRule returns 0, each of
\* the given sources is a prefix and has a rule that leads to dst.
ZeroMeansInstalled ==
  Returning /\ num_errors = 0 =>
    \A i \in DOMAIN asked :
      asked[i] \in Rules /\ numToReals[lpmSrcMapping[asked[i]]] = dst

\* KatranLb.h:249, "number of errors otherwise": a source that has no rule to dst
\* when addSrcRoutingRule returns, because it is no prefix or because there is no
\* space (which an existing rule that would be overwritten needs too), is counted
\* in the result; kError may stand for any number.
ErrorsCoverMissing ==
  Returning /\ num_errors # kError =>
    num_errors >= Cardinality({i \in DOMAIN asked :
      ~(asked[i] \in Rules /\ numToReals[lpmSrcMapping[asked[i]]] = dst)})

\* As long as no bpf() call has failed, the XDP program routes each source
\* prefix that has a rule, and no other, to the address that the rule names.
SrcRuleServes ==
  ~bpfFailed /\ op # "srcWrite" =>
    \A s \in Srcs :
      lpm_src[s] = IF s \in HeldRules THEN lpmSrcMapping[s] ELSE maxReals

=============================================================================
