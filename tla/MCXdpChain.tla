---------------------------- MODULE MCXdpChain ----------------------------
(* Instances of XdpChain: configurations of the server. *)
EXTENDS XdpChain

\* Interrupts 1..n of eth0 on hosts with the given NUMA nodes; the third host
\* has no line that names the interface and lists the numbers as MSI.
Lines(n, names) == [i \in 1..n |-> [irq |-> i, names |-> names]]

Hosts ==
  {Host(Lines(3, {"eth0"}), <<>>, (0 :> 0) @@ (1 :> 1)),
   Host(Lines(3, {"eth0"}), <<>>, (0 :> 1) @@ (1 :> 0) @@ (2 :> 1)),
   Host(Lines(3, {"mlx5"}), <<2, 3, 9>>, (0 :> 0) @@ (1 :> 0) @@ (2 :> 1))}

Balancer(features) ==
  BpfObject({"xdp-balancer"}, BalancerMaps \cup features)
Hc(features) == BpfObject({"cls-hc"}, HcMaps \cup features)

Plain ==
  [standalone |-> TRUE, disableForwarding |-> FALSE, enableHc |-> FALSE,
   defaultMac |-> TRUE, localMac |-> TRUE, srcs |-> {"v4", "v6"}, rootMapPos |-> 2,
   cores |-> <<0, 1>>, numa |-> <<>>, irqCpus |-> {0, 1},
   balancer |-> Balancer({}), healthchecking |-> Hc({})]

\* Servers started by start_katran on every host it does not panic on.
Started ==
  {[[Plain EXCEPT !.cores = prepareKatranArgs(h, "eth0", s).cores]
      EXCEPT !.numa = prepareKatranArgs(h, "eth0", s).numa,
             !.irqCpus = {a[2] : a \in AffinitizeIntf(h, "eth0", s)}] :
     <<h, s>> \in {x \in Hosts \X Strategies : ~Panics(x[1], "eth0", x[2])}}

MCConfigs ==
  Started \cup
  {[Plain EXCEPT !.standalone = FALSE, !.cores = <<0>>, !.irqCpus = {0}],
   [Plain EXCEPT !.enableHc = TRUE, !.cores = <<0>>, !.irqCpus = {0},
      !.balancer = Balancer({"pckt_srcs", "decap_dst", "katran_subprograms", "event_pipe"}),
      !.healthchecking = Hc({"hc_pckt_srcs_map", "hc_pckt_macs"})],
   [Plain EXCEPT !.standalone = FALSE, !.enableHc = TRUE, !.cores = <<>>, !.irqCpus = {}],
   [Plain EXCEPT !.standalone = FALSE, !.enableHc = TRUE, !.disableForwarding = TRUE],
   [Plain EXCEPT !.enableHc = TRUE, !.disableForwarding = TRUE],
   [Plain EXCEPT !.numa = <<0>>], [Plain EXCEPT !.cores = <<0, 9>>],
   [Plain EXCEPT !.defaultMac = FALSE],
   [Plain EXCEPT !.balancer = Balancer({"pckt_srcs"}), !.srcs = {}],
   [Plain EXCEPT !.enableHc = TRUE, !.localMac = FALSE,
      !.healthchecking = Hc({"hc_pckt_srcs_map", "hc_pckt_macs"})],
   [Plain EXCEPT !.balancer = BpfObject({"xdp-balancer"}, {"ctl_array"})]}
==========================================================================
