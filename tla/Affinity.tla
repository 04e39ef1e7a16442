----------------------------- MODULE Affinity -----------------------------
(***************************************************************************)
(* How start_katran (tools/start_katran) spreads the interrupts of the     *)
(* interface over the cpus and derives from the same mapping the list of   *)
(* forwarding cores, with their NUMA nodes, that it starts the server      *)
(* with.  Pure functions of the host: the lines of /proc/interrupts, the   *)
(* MSI numbers of the device and the NUMA node of every cpu.               *)
(***************************************************************************)
EXTENDS Integers, Sequences, FiniteSets, SequencesExt

Strategies == {"SEQ_NODES", "SAME_NODE", "ALL_NODES"}

\* The index expression of the code is out of range: the tool panics.
NoCpu == -1

\* A host.  interrupts: the numbered lines of /proc/interrupts, each with the
\* interfaces whose name occurs in it; msi: /sys/class/net/.../msi_irqs.
Host(interrupts, msi, numa) ==
  [interrupts |-> interrupts, msi |-> msi, numa |-> numa]

parseProcIrqs(host, intf) ==
  LET lines == SelectSeq(host.interrupts, LAMBDA line : intf = "" \/ intf \in line.names)
  IN [i \in 1..Len(lines) |-> lines[i].irq]

parseMsiIrqs(host) ==
  LET known == Range(parseProcIrqs(host, ""))
  IN SelectSeq(host.msi, LAMBDA irq : irq \in known)

GetInterfaceIrq(host, intf) ==
  LET irqs == parseProcIrqs(host, intf)
  IN IF irqs # <<>> THEN irqs ELSE parseMsiIrqs(host)

\* topology_parser.GetCpuTopology: the cpus of a node in ascending order.
GetCpuTopology(host) ==
  [Cpu2Numa |-> host.numa,
   Numa2Cpu |-> [n \in Range(host.numa) |->
      SetToSortSeq({c \in DOMAIN host.numa : host.numa[c] = n}, <)],
   Ncpus |-> Cardinality(DOMAIN host.numa)]

\* The cpus of NUMA node n; a node that is not in the map has none.
CpusOf(topo, n) ==
  IF n \in DOMAIN topo.Numa2Cpu THEN topo.Numa2Cpu[n] ELSE <<>>

ElementOf(s, i) == IF i < Len(s) THEN s[i + 1] ELSE NoCpu

\* The cpu of the i-th interrupt, counted from 0.
affinitizeSeqNodes(topo, i) == i % topo.Ncpus

affinitizeSameNode(topo, i) ==
  LET node0 == CpusOf(topo, 0)
  IN IF node0 = <<>> THEN NoCpu ELSE ElementOf(node0, i % Len(node0))

\* The code assumes nodes numbered from 0 with as many cpus as node 0.
affinitizeAllNodes(topo, i) ==
  LET nodes == Cardinality(DOMAIN topo.Numa2Cpu)
      node0 == CpusOf(topo, 0)
  IN IF node0 = <<>> THEN NoCpu
     ELSE ElementOf(CpusOf(topo, i % nodes), (i \div nodes) % Len(node0))

CpuOfIrq(topo, strategy, i) ==
  CASE strategy = "SEQ_NODES" -> affinitizeSeqNodes(topo, i)
    [] strategy = "SAME_NODE" -> affinitizeSameNode(topo, i)
    [] strategy = "ALL_NODES" -> affinitizeAllNodes(topo, i)

\* AffinitizeIntf: the affinity written for every interrupt of the interface.
AffinitizeIntf(host, intf, strategy) ==
  LET irqs == GetInterfaceIrq(host, intf)
  IN {<<irqs[i + 1], CpuOfIrq(GetCpuTopology(host), strategy, i)>> :
         i \in 0..(Len(irqs) - 1)}

\* GetAffinitizeMapping: the cpus in the order they are first used.
GetAffinitizeMapping(host, intf, strategy) ==
  LET topo == GetCpuTopology(host)
  IN FoldLeftDomain(LAMBDA cpus, i :
        LET cpu == CpuOfIrq(topo, strategy, i - 1)
        IN IF cpu \in Range(cpus) THEN cpus ELSE Append(cpus, cpu),
        <<>>, GetInterfaceIrq(host, intf))

GetNumaListForCpus(topo, cpus) ==
  [i \in 1..Len(cpus) |-> topo.Cpu2Numa[cpus[i]]]

Panics(host, intf, strategy) ==
  \E a \in AffinitizeIntf(host, intf, strategy) : a[2] = NoCpu

\* prepareKatranArgs: -forwarding_cores and -numa_nodes.
prepareKatranArgs(host, intf, strategy) ==
  LET cpus == GetAffinitizeMapping(host, intf, strategy)
  IN [cores |-> cpus, numa |-> GetNumaListForCpus(GetCpuTopology(host), cpus)]
==========================================================================
