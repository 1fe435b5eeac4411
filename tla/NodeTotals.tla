----------------------------- MODULE NodeTotals -----------------------------
(***************************************************************************)
(* `hpcat gpu|cpu|mem|net -t` (core/summarize.py): folding the dictionaries *)
(* of the nodes into a row per node and a row for the cluster.  As in      *)
(* StgTotals the loop takes the nodes in any order, since the dictionary   *)
(* it walks is in the order their polls completed in.                      *)
(*                                                                         *)
(* What makes it hard is that a node's answer may be half an answer (cpu   *)
(* and mem ask the node and the scheduler), that nodes differ in how many  *)
(* GPUs and ports they have, and that ports share netdevs.  Units are left *)
(* out, and percentages and means are rounded down.                        *)
(***************************************************************************)
EXTENDS NodeAnswers, Views, FiniteSets, FiniteSetsExt

CONSTANTS Node,       \* the nodes that were polled
          Hardware,   \* command -> what a node may answer
          Scheduler   \* command -> what scontrol may answer, for cpu and mem

\* A line of nvidia-smi and a device of InfiniBand, in their columns.
GpuLine  == [index : Nat, model : STRING, util_pct : Nat \cup {NA}, mem_used_mb : Nat,
             mem_total_mb : Nat, temp_c : Nat, power_w : Nat \cup {NA}]
IBDevice == [name : STRING, ports : Seq([state : STRING, link_layer : STRING]),
             netdevs : Seq(STRING)]

ASSUME NodeAssumption == IsFiniteSet(Node)

\* nvidia-smi numbers its GPUs, and the kernel never calls more memory
\* available than there is.
ASSUME HardwareAssumption ==
  /\ \A x \in Hardware.gpu : /\ x \in Seq(GpuLine)
                             /\ \A i, j \in DOMAIN x : x[i].index = x[j].index => i = j
  /\ \A x \in Hardware.cpu :
       \A k \in {"cpus", "sockets"} \cap DOMAIN x : x[k] \in Nat \cup {NA}
  /\ \A x \in Hardware.mem : /\ \A k \in MeminfoKeys \cap DOMAIN x : x[k] \in Nat \cup {NA}
                             /\ Number(x, "os_memavailable_mb") <= Number(x, "os_memtotal_mb")
  /\ \A x \in Hardware.net : /\ x.devices \in Seq(IBDevice)
                             /\ \A dev \in DOMAIN x.stats : \A k \in DOMAIN x.stats[dev] :
                                  x.stats[dev][k] \in Nat \cup {NA}

ASSUME SchedulerAssumption ==
  \A m \in {"cpu", "mem"} : \A x \in Scheduler[m] :
    \A k \in SlurmKeys[m] \cap DOMAIN x : x[k] \in Nat \cup {NA}

VARIABLES cmd,     \* the subcommand
          state,   \* the cluster state: a dictionary per node
          left,    \* the nodes the loop has still to take
          rows,    \* the rows of the nodes it took
          c        \* the accumulators of the cluster row

vars == <<cmd, state, left, rows, c>>

TotalCommand == {"gpu", "cpu", "mem", "net"}

\* The dictionaries a poll of command m may return.
Answer(m) == PollNode(m, Hardware[m], IF AsksSlurm(m) THEN Scheduler[m] ELSE {})

\* The keys of c that are added up, and those of which the highest is kept.
\* all_utils, all_temps and loads are kept as sums, counts and highest values.
Added == [gpu |-> {"gpus", "util_sum", "power_w", "mem_used_gb", "mem_total_gb"},
          cpu |-> {"nodes", "load", "cpus_total", "cpus_alloc", "cpus_idle", "sockets"},
          mem |-> {"os_total_gb", "os_avail_gb", "slurm_real_gb", "slurm_alloc_gb",
                   "slurm_free_gb"},
          net |-> {"ports", "ports_up", "ports_down", "out_of_buffer", "errors",
                   "link_down_events", "nodes_degraded"}]
Highest == [gpu |-> {"util_max", "temp_max"}, cpu |-> {}, mem |-> {},
            net |-> {"pause_active"}]

Init == /\ cmd \in TotalCommand
        /\ state \in [Node -> Answer(cmd)]
        /\ left = {n \in Node : HasRow(cmd, DOMAIN state[n])}
        /\ rows = [n \in {} |-> 0]
        /\ c = [k \in Added[cmd] \cup Highest[cmd] |-> 0]
-----------------------------------------------------------------------------
(* The rows.  What a row does not show but c needs stands next to it. *)

Column(list, k) == [i \in DOMAIN list |-> list[i][k]]
SumOf(list, k)  == SumAt(Column(list, k), DOMAIN list)
MaxOf(list, k)  == Max(Range(Column(list, k)) \cup {0})

\* Mutant of GpuRow: the mean of a node is handed on, not the sum.
GpuRowMean(d) ==
  LET util == Average(SumOf(d.gpus, "util_pct"), Len(d.gpus))
      used == SumOf(d.gpus, "mem_used_mb")
      all  == SumOf(d.gpus, "mem_total_mb")
  IN  [gpus |-> Len(d.gpus), util_sum |-> util, util_avg |-> util,
       util_max |-> MaxOf(d.gpus, "util_pct"), temp_max |-> MaxOf(d.gpus, "temp_c"),
       power_w |-> SumOf(d.gpus, "power_w"), mem_used_gb |-> used,
       mem_total_gb |-> all, mem_used_pct |-> Percent(used, all)]

\* _summarize_gpu.  A node without GPUs has a row of zeros.
GpuRow(d) ==
  LET util == SumOf(d.gpus, "util_pct")
      used == SumOf(d.gpus, "mem_used_mb")
      all  == SumOf(d.gpus, "mem_total_mb")
  IN  [gpus |-> Len(d.gpus), util_sum |-> util,
       util_avg |-> Average(util, Len(d.gpus)),
       util_max |-> MaxOf(d.gpus, "util_pct"), temp_max |-> MaxOf(d.gpus, "temp_c"),
       power_w |-> SumOf(d.gpus, "power_w"), mem_used_gb |-> used,
       mem_total_gb |-> all, mem_used_pct |-> Percent(used, all)]

\* The scheduler's count of CPUs, or without one the node's own.
CpuCount(d) == Number(d, IF "slurm_cputot" \in DOMAIN d THEN "slurm_cputot" ELSE "cpus")

\* _summarize_cpu.
CpuRow(d) ==
  LET total == CpuCount(d)
      alloc == Number(d, "slurm_alloccpus")
  IN  [nodes |-> 1, cpus_total |-> total, cpus_alloc |-> alloc,
       cpus_idle |-> Number(d, "slurm_idlecpus"), alloc_pct |-> Percent(alloc, total),
       load |-> Number(d, "slurm_cpuload"), sockets |-> Number(d, "sockets")]

\* Mutant of MemRow: the scheduler's size stands in for a missing one.
MemRowStandIn(d) ==
  LET total == Number(d, IF "os_memtotal_mb" \in DOMAIN d THEN "os_memtotal_mb"
                         ELSE "slurm_realmemory")
      avail == Number(d, "os_memavailable_mb")
      real  == Number(d, "slurm_realmemory")
      alloc == Number(d, "slurm_allocmem")
  IN  [os_total_gb |-> total, os_avail_gb |-> avail,
       os_used_pct |-> Percent(total - avail, total), slurm_real_gb |-> real,
       slurm_alloc_gb |-> alloc, slurm_free_gb |-> Number(d, "slurm_freemem"),
       slurm_alloc_pct |-> Percent(alloc, real)]

\* _summarize_mem.
MemRow(d) ==
  LET total == Number(d, "os_memtotal_mb")
      avail == Number(d, "os_memavailable_mb")
      real  == Number(d, "slurm_realmemory")
      alloc == Number(d, "slurm_allocmem")
  IN  [os_total_gb |-> total, os_avail_gb |-> avail,
       os_used_pct |-> Percent(total - avail, total), slurm_real_gb |-> real,
       slurm_alloc_gb |-> alloc, slurm_free_gb |-> Number(d, "slurm_freemem"),
       slurm_alloc_pct |-> Percent(alloc, real)]

\* Mutant of NET_ERROR_KEYS: the CRC errors are left out.
NET_ERROR_KEYS_NO_CRC == {"rx_symbol_err_phy", "rx_discards_phy", "tx_discards_phy",
                          "link_down_events_phy"}

NET_ERROR_KEYS == {"rx_crc_errors_phy", "rx_symbol_err_phy", "rx_discards_phy",
                   "tx_discards_phy", "link_down_events_phy"}

\* Mutant of CountedPorts: a netdev counts at each of its ports.
CountedPortsAll(ports) == {i \in DOMAIN ports : ports[i].netdev # "-"}

\* seen_netdevs: a netdev counts at the first of its ports only.
CountedPorts(ports) ==
  {i \in DOMAIN ports : /\ ports[i].netdev # "-"
                        /\ \A j \in 1 .. i - 1 : ports[j].netdev # ports[i].netdev}

\* The sum of one ethtool counter over the netdevs of a node.
Counted(d, k) ==
  SumAt([i \in DOMAIN d.ports |-> Number(Stats(d, d.ports[i]), k)], CountedPorts(d.ports))

\* _summarize_net.
NetRow(d) ==
  LET ports == d.ports
      up    == Cardinality({i \in DOMAIN ports : ports[i].state = "ACTIVE"})
      errs  == SumAt([k \in NET_ERROR_KEYS |-> Counted(d, k)], NET_ERROR_KEYS)
      pause == \E i \in CountedPorts(ports) : Paused(Stats(d, ports[i]))
  IN  [ports |-> Len(ports), ports_up |-> up, ports_down |-> Len(ports) - up,
       out_of_buffer |-> Counted(d, "rx_out_of_buffer"), errors |-> errs,
       link_down_events |-> Counted(d, "link_down_events_phy"),
       pause_active |-> IF pause THEN 1 ELSE 0,
       nodes_degraded |-> IF up < Len(ports) \/ errs > 0 THEN 1 ELSE 0]

Row(m, d) == CASE m = "gpu" -> GpuRow(d)
               [] m = "cpu" -> CpuRow(d)
               [] m = "mem" -> MemRow(d)
               [] m = "net" -> NetRow(d)

\* What a row shows of that.
HiddenKeys == {"util_sum", "nodes", "nodes_degraded"}
Shown(row) == Restrict(row, DOMAIN row \ HiddenKeys)

\* One turn of the loop: node n's row, and what it adds to the cluster's.
Take(n) ==
  LET row == Row(cmd, state[n])
  IN  /\ n \in left
      /\ left' = left \ {n}
      /\ rows' = [x \in DOMAIN rows \cup {n} |->
                    IF x = n THEN Shown(row) ELSE rows[x]]
      /\ c' = [k \in DOMAIN c |-> IF k \in Added[cmd] THEN c[k] + row[k]
                                  ELSE Max({c[k], row[k]})]
      /\ UNCHANGED <<cmd, state>>

\* The loop is over.
Over == left = {} /\ UNCHANGED vars

Next == (\E n \in Node : Take(n)) \/ Over

Spec == Init /\ [][Next]_vars
-----------------------------------------------------------------------------
\* The cluster row: percentages and means from the sums.  load is the mean of
\* the nodes that have a row, utilisation that of all GPUs.
Cluster ==
  CASE cmd = "gpu" -> Merged(Restrict(c, DOMAIN c \ {"util_sum"}),
                             [util_avg |-> Average(c.util_sum, c.gpus),
                              mem_used_pct |-> Percent(c.mem_used_gb, c.mem_total_gb)])
    [] cmd = "cpu" -> Merged(Restrict(c, DOMAIN c \ {"nodes"}),
                             [alloc_pct |-> Percent(c.cpus_alloc, c.cpus_total),
                              load |-> Average(c.load, c.nodes)])
    [] cmd = "mem" -> Merged(c, [os_used_pct |->
                                   Percent(c.os_total_gb - c.os_avail_gb, c.os_total_gb),
                                 slurm_alloc_pct |-> Percent(c.slurm_alloc_gb, c.slurm_real_gb)])
    [] cmd = "net" -> c
-----------------------------------------------------------------------------
Taken == DOMAIN rows
Has(n, k) == k \in DOMAIN state[n] /\ state[n][k] # NA

\* The type invariant; the dictionaries are those NodePoll knows by their keys.
TypeOK == /\ cmd \in TotalCommand
          /\ \A n \in Node : [node |-> n, keys |-> KeysOf(cmd, state[n])] \in PollResult(cmd, n)
          /\ left \subseteq Node
          /\ Taken \subseteq Node \ left
          /\ \A n \in Taken : rows[n] \in [DOMAIN Cluster \ {"nodes_degraded"} -> Nat]
          /\ c \in [Added[cmd] \cup Highest[cmd] -> Nat]

\* "Averaged over every GPU, not over nodes" (summarize.py:129-130): the
\* cluster's mean utilisation is the mean of the GPUs, after any nodes in any
\* order, so it lies between the lowest and the highest mean of a node that has
\* GPUs, whatever nodes without GPUs or without an answer stand beside them.
WeightedPerGpu ==
  cmd = "gpu" =>
    LET gpu  == UNION {{<<n, i>> : i \in DOMAIN state[n].gpus} : n \in Taken}
        mean == {rows[n].util_avg : n \in {x \in Taken : rows[x].gpus > 0}}
    IN  gpu # {} =>
          /\ Cluster.util_avg =
               SumAt([g \in gpu |-> state[g[1]].gpus[g[2]].util_pct], gpu) \div Cardinality(gpu)
          /\ Cluster.util_avg \in Min(mean) .. Max(mean)

\* Whatever mixture of whole, half and incomplete answers there is, the other
\* half of a node does not reach a percentage: memory in use is that of the nodes
\* that answered, memory and CPUs allocated are those of the nodes the scheduler
\* answered for (summarize.py:151-187, 199-233).  What an answer leaves out pulls
\* one way only.  A node without MemAvailable (Linux before 3.14) counts as full,
\* so memory in use is never less than that of the other nodes; a node counted by
\* lscpu for want of CPUTot has nothing allocated, so the CPUs allocated are never
\* more than those of the CPUs the scheduler counts.
HalvesDoNotMix ==
  LET Across(S, k) == SumAt([n \in S |-> Number(state[n], k)], S)
      InUse(S)     == Across(S, "os_memtotal_mb") - Across(S, "os_memavailable_mb")
      failed   == {"slurm_error", "slurm_status"}
      answered == {n \in Taken : "error" \notin DOMAIN state[n]}
      slurm    == {n \in Taken : failed \cap DOMAIN state[n] = {}}
  IN  /\ cmd = "mem" =>
           LET whole == {n \in answered : Has(n, "os_memavailable_mb")}
           IN  /\ Cluster.slurm_alloc_pct =
                    Percent(Across(slurm, "slurm_allocmem"), Across(slurm, "slurm_realmemory"))
               /\ Cluster.os_used_pct =
                    Percent(InUse(whole) + Across(answered \ whole, "os_memtotal_mb"),
                            Across(answered, "os_memtotal_mb"))
               /\ Cluster.os_used_pct >=
                    Percent(InUse(whole), Across(whole, "os_memtotal_mb"))
      /\ cmd = "cpu" =>
           LET counted == {n \in slurm : "slurm_cputot" \in DOMAIN state[n]}
               alloc   == Across(slurm, "slurm_alloccpus")
               total   == Across(counted, "slurm_cputot")
           IN  /\ Cluster.alloc_pct =
                    Percent(alloc, total + Across(Taken \ counted, "cpus"))
               /\ total > 0 => Cluster.alloc_pct <= Percent(alloc, total)
-----------------------------------------------------------------------------
(* The totals and the detail views, for the nodes taken. *)

\* The samples of a metric that the taken nodes have in the detail view; each
\* with its node.
Detail(metric) ==
  UNION {{<<n, s>> : s \in {x \in Samples(cmd, state[n]) : x.metric = metric}} : n \in Taken}
ValueSum(P)       == SumAt([p \in P |-> p[2].value], P)
DetailSum(metric) == ValueSum(Detail(metric))

\* The samples of a metric, one for each netdev: those of its first port.
PerNetdev(metric) ==
  {p \in Detail(metric) : \A q \in Detail(metric) :
     p[1] = q[1] /\ state[p[1]].ports[p[2].at].netdev = state[q[1]].ports[q[2].at].netdev
       => p[2].at <= q[2].at}
NetdevSum(metric) == ValueSum(PerNetdev(metric))

\* The metrics of the counters that NET_ERROR_KEYS adds up.
ErrorMetrics == {"hpcat_net_rx_crc_errors_phy_total", "hpcat_net_rx_symbol_errors_phy_total",
                 "hpcat_net_rx_discards_phy_total", "hpcat_net_tx_discards_phy_total",
                 "hpcat_net_link_down_events_phy_total"}

\* Nodes with a row that the detail view shows as an error: half an answer.
Half == {n \in Taken : "error" \in DOMAIN state[n]}
HalfSum(k) == SumAt([n \in Half |-> Number(state[n], k)], Half)

\* The totals are those of the detail view: every GPU and every netdev of a
\* port is in them once, however many ports share it, and what they have more
\* than the detail is the scheduler's half of the nodes that the detail shows
\* as an error (summarize.py:85-301 against prometheus_out.py:41-211).
TotalsMatchDetail ==
  CASE cmd = "gpu" ->
         /\ Cluster.gpus = Cardinality(Detail("hpcat_gpu_utilization_percent"))
         /\ Cluster.power_w = DetailSum("hpcat_gpu_power_draw_watts")
         /\ Cluster.mem_used_gb = DetailSum("hpcat_gpu_memory_used_bytes")
         /\ \A p \in Detail("hpcat_gpu_temperature_celsius") : p[2].value <= Cluster.temp_max
    [] cmd = "cpu" ->
         /\ Cluster.sockets = DetailSum("hpcat_cpu_sockets_total")
         /\ Cluster.cpus_total >= DetailSum("hpcat_slurm_cpu_total") + HalfSum("slurm_cputot")
    [] cmd = "mem" ->
         /\ Cluster.os_total_gb = DetailSum("hpcat_os_memory_total_bytes")
         /\ Cluster.slurm_real_gb =
              DetailSum("hpcat_slurm_memory_real_bytes") + HalfSum("slurm_realmemory")
         /\ Cluster.slurm_free_gb =
              DetailSum("hpcat_slurm_memory_free_bytes") + HalfSum("slurm_freemem")
    [] cmd = "net" ->
         /\ Cluster.ports_up = DetailSum("hpcat_ib_port_link_up")
         /\ Cluster.out_of_buffer = NetdevSum("hpcat_net_rx_out_of_buffer_total")
         /\ Cluster.link_down_events = NetdevSum("hpcat_net_link_down_events_phy_total")
         /\ Cluster.errors = SumAt([m \in ErrorMetrics |-> NetdevSum(m)], ErrorMetrics)

\* The count of degraded nodes is that of the nodes that have a sample to be
\* alarmed about in the detail view, a port that is not up or an error counter
\* that is not zero, and pause frames show in the total exactly when a port
\* shows them (summarize.py:276-298): no alarm is averaged away.
AlarmsSurviveTotals ==
  cmd = "net" =>
    LET Alarm(s) == \/ s.metric = "hpcat_ib_port_link_up" /\ s.value = 0
                    \/ s.metric \in ErrorMetrics /\ s.value > 0
    IN  /\ Cluster.nodes_degraded =
             Cardinality({n \in Taken : \E s \in Samples("net", state[n]) : Alarm(s)})
        /\ Cluster.pause_active = 1 <=>
             \E p \in Detail("hpcat_net_pause_frames_active") : p[2].value = 1

\* No two samples of a metric have the same labels, which would make scrapers
\* reject the whole exposition, unless two ports of one device share a netdev
\* and a link layer: the port is no label (prometheus_out.py:104).
SeriesDistinct ==
  \A n \in Node :
    (cmd = "net" /\ "error" \notin DOMAIN state[n] =>
       IsInjective([i \in DOMAIN state[n].ports |-> NetLabels(state[n], i)]))
    => OneSamplePerSeries(cmd, state[n])

\* CSV and Prometheus never contradict each other about a node.
FormatsAgree == \A n \in Node : DetailViewsAgree(cmd, state[n])

\* The tables of columns and metrics fit the rows.
TablesFit == SummaryViewsAgree(cmd, rows, Cluster)
-----------------------------------------------------------------------------
\* "per-port" (prometheus_out.py:87): the metrics of the network section have a
\* series for each port.
SeriesPerPort ==
  cmd = "net" => \A n \in Node : OneSamplePerSeries("net", state[n])
=============================================================================
