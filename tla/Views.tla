-------------------------------- MODULE Views --------------------------------
(***************************************************************************)
(* What the CSV and Prometheus formatters make of a node's dictionary, and *)
(* of the rows of the -t view.  Prometheus output is a set of samples: the *)
(* metric, the place in the listing it comes from, its labels (the node's  *)
(* name, which every sample of a detail view has, is left out) and value.  *)
(* CSV output is a function from places and keys to cells.  JSON prints    *)
(* the dictionary itself.                                                  *)
(***************************************************************************)
EXTENDS Fields, Sequences

Blank == -2     \* an empty CSV cell

\* A port's counters: none without a netdev, or for one without ethtool.
NoStats == [k \in {} |-> 0]
Stats(d, port) ==
  IF port.netdev # "-" /\ port.netdev \in DOMAIN d.netdevs
    THEN d.netdevs[port.netdev] ELSE NoStats

\* The parts of a node's dictionary that get a line or a sample each.
Parts(cmd, d) ==
  CASE cmd = "gpu" -> d.gpus
    [] cmd \in {"cpu", "mem"} -> <<d>>
    [] cmd = "net" -> [i \in DOMAIN d.ports |-> Stats(d, d.ports[i])]
    [] cmd = "stg" -> d.mounts \o d.beegfs.meta \o d.beegfs.storage \o d.lustre

\* The metrics of prometheus_out.render, with the key each one's value has in
\* a part.  Factors that change the unit are left out.
METRICS ==
  [gpu |-> [hpcat_gpu_utilization_percent |-> "util_pct",
            hpcat_gpu_memory_used_bytes   |-> "mem_used_mb",
            hpcat_gpu_memory_total_bytes  |-> "mem_total_mb",
            hpcat_gpu_temperature_celsius |-> "temp_c",
            hpcat_gpu_power_draw_watts    |-> "power_w"],
   cpu |-> [hpcat_cpu_cores_total   |-> "cpus",
            hpcat_cpu_sockets_total |-> "sockets",
            hpcat_slurm_cpu_total   |-> "slurm_cputot",
            hpcat_slurm_cpu_load    |-> "slurm_cpuload"],
   mem |-> [hpcat_os_memory_total_bytes     |-> "os_memtotal_mb",
            hpcat_os_memory_available_bytes |-> "os_memavailable_mb",
            hpcat_os_memory_free_bytes      |-> "os_memfree_mb",
            hpcat_os_memory_buffers_bytes   |-> "os_buffers_mb",
            hpcat_os_memory_cached_bytes    |-> "os_cached_mb",
            hpcat_os_swap_total_bytes       |-> "os_swaptotal_mb",
            hpcat_os_swap_free_bytes        |-> "os_swapfree_mb",
            hpcat_slurm_memory_real_bytes   |-> "slurm_realmemory",
            hpcat_slurm_memory_alloc_bytes  |-> "slurm_allocmem",
            hpcat_slurm_memory_free_bytes   |-> "slurm_freemem"],
   net |-> [hpcat_net_rx_out_of_buffer_total       |-> "rx_out_of_buffer",
            hpcat_net_rx_crc_errors_phy_total      |-> "rx_crc_errors_phy",
            hpcat_net_rx_symbol_errors_phy_total   |-> "rx_symbol_err_phy",
            hpcat_net_rx_discards_phy_total        |-> "rx_discards_phy",
            hpcat_net_tx_discards_phy_total        |-> "tx_discards_phy",
            hpcat_net_link_down_events_phy_total   |-> "link_down_events_phy"],
   stg |-> [hpcat_storage_mount_use_percent     |-> "pcent",
            hpcat_storage_mount_available_bytes |-> "avail_1k",
            hpcat_beegfs_target_free_percent    |-> "free_pct",
            hpcat_lustre_target_use_percent     |-> "use_pct"]]

\* Mutant of HasSample: a counter that is zero is taken for one that is missing.
HasSampleIfTrue(cmd, part, k) ==
  /\ k \in DOMAIN part /\ part[k] \notin {0, NA}
  /\ k = "use_pct" => "target" \in DOMAIN part

\* Which keys of a part get a sample although the part lacks them (gpu, mem,
\* and cpu's own half), and which do not.
HasSample(cmd, part, k) ==
  CASE cmd \in {"gpu", "mem"} -> TRUE
    [] cmd = "cpu" -> k \in {"cpus", "sockets"} \/ k \in DOMAIN part
    [] cmd = "net" -> part # NoStats
    [] cmd = "stg" -> /\ k \in DOMAIN part
                      /\ k = "avail_1k" => part[k] # NA
                      /\ k = "use_pct" => "target" \in DOMAIN part

\* Mutants of GpuLabels and StgLabels: a GPU is known by its model; a BeeGFS
\* target by its number and pool.
GpuLabelsModel(d, i) == <<d.gpus[i].model>>
StgLabelsNoKind(d, i) ==
  LET part == Parts("stg", d)[i]
  IN  CASE "mountpoint" \in DOMAIN part -> <<part.mountpoint, part.fstype>>
        [] "target_id" \in DOMAIN part  -> <<part.target_id, part.pool>>
        [] "target" \in DOMAIN part     -> <<part.target>>

\* The labels of the samples of a part, next to the node.
GpuLabels(d, i) == <<d.gpus[i].index, d.gpus[i].model>>
CpuLabels(d)    == <<IF "model_name" \in DOMAIN d THEN d.model_name ELSE "unknown">>
NetLabels(d, i) == <<d.ports[i].device, d.ports[i].netdev, d.ports[i].link_layer>>
StgLabels(d, i) ==
  LET part == Parts("stg", d)[i]
      kind == IF i <= Len(d.mounts \o d.beegfs.meta) THEN "meta" ELSE "storage"
  IN  CASE "mountpoint" \in DOMAIN part -> <<part.mountpoint, part.fstype>>
        [] "target_id" \in DOMAIN part  -> <<part.target_id, kind, part.pool>>
        [] "target" \in DOMAIN part     -> <<part.target>>
Labels(cmd, d, i) == CASE cmd = "gpu" -> GpuLabels(d, i)
                       [] cmd = "cpu" -> CpuLabels(d)
                       [] cmd = "mem" -> <<>>
                       [] cmd = "net" -> NetLabels(d, i)
                       [] cmd = "stg" -> StgLabels(d, i)

\* Two metrics of a port are no counters: is the link up, were there pause frames?
Paused(stats) == Number(stats, "rx_pause_ctrl_phy") > 0 \/ Number(stats, "tx_pause_ctrl_phy") > 0
PortSamples(d) ==
  {[metric |-> "hpcat_ib_port_link_up", at |-> i, labels |-> NetLabels(d, i),
    value |-> IF d.ports[i].state = "ACTIVE" THEN 1 ELSE 0] : i \in DOMAIN d.ports}
  \cup
  {[metric |-> "hpcat_net_pause_frames_active", at |-> i, labels |-> NetLabels(d, i),
    value |-> IF Paused(Stats(d, d.ports[i])) THEN 1 ELSE 0] :
      i \in {j \in DOMAIN d.ports : Stats(d, d.ports[j]) # NoStats}}

\* prometheus_out.render: the samples of one node.
Samples(cmd, d) ==
  LET part == Parts(cmd, d)
  IN  IF "error" \in DOMAIN d THEN {}
      ELSE {[metric |-> p[1], at |-> p[2], labels |-> Labels(cmd, d, p[2]),
             value |-> NumberOr(part[p[2]], METRICS[cmd][p[1]],
                                IF METRICS[cmd][p[1]] = "pcent" THEN Unknown ELSE 0)] :
              p \in {q \in (DOMAIN METRICS[cmd]) \X (DOMAIN part) :
                       HasSample(cmd, part[q[2]], METRICS[cmd][q[1]])}}
           \cup IF cmd = "net" THEN PortSamples(d) ELSE {}

\* csv_out.render: the cell of a part's line under key k, the set of what is
\* in it, which is empty when the cell is blank.  The three sizes of
\* a mount are converted together, and blank when one of them is no number; a
\* row of a storage listing that is no target has no line.
MountSizes == {"blocks_1k", "used_1k", "avail_1k"}
Cell(cmd, d, i, k) ==
  LET part == Parts(cmd, d)[i]
  IN  IF \/ "error" \in DOMAIN d
         \/ k \notin DOMAIN part
         \/ k \in MountSizes /\ \E s \in MountSizes : part[s] = NA
         \/ k = "use_pct" /\ "target" \notin DOMAIN part
        THEN {} ELSE {part[k]}
-----------------------------------------------------------------------------
(* The -t view. *)

\* The numeric columns of the table, which the CSV takes over.
COLUMNS ==
  [gpu |-> {"gpus", "util_avg", "util_max", "temp_max", "power_w",
            "mem_used_gb", "mem_total_gb", "mem_used_pct"},
   cpu |-> {"cpus_total", "cpus_alloc", "cpus_idle", "alloc_pct", "load", "sockets"},
   mem |-> {"os_total_gb", "os_avail_gb", "os_used_pct", "slurm_real_gb",
            "slurm_alloc_gb", "slurm_alloc_pct"},
   net |-> {"ports", "ports_up", "ports_down", "out_of_buffer", "errors",
            "link_down_events", "pause_active"},
   stg |-> {"mounts", "size_gb", "used_gb", "avail_gb", "use_pct", "worst_pct",
            "beegfs_targets", "beegfs_free_pct_min", "lustre_targets",
            "lustre_use_pct_max"}]

\* Mutant of SUMMARY_METRICS: a key is spelt as no row has it.
SUMMARY_METRICS_MISSPELT ==
  [m \in DOMAIN COLUMNS |->
     {IF k = "pause_active" THEN "pause" ELSE
      IF k = "lustre_use_pct_max" THEN "lustre_pct_max" ELSE k : k \in COLUMNS[m]}]

\* The keys that have a metric, each once per node and once for the cluster.
SUMMARY_METRICS ==
  [gpu |-> {"gpus", "util_avg", "util_max", "temp_max", "power_w",
            "mem_used_gb", "mem_total_gb", "mem_used_pct"},
   cpu |-> {"cpus_total", "cpus_alloc", "cpus_idle", "alloc_pct", "load", "sockets"},
   mem |-> {"os_total_gb", "os_avail_gb", "os_used_pct", "slurm_real_gb",
            "slurm_alloc_gb", "slurm_free_gb", "slurm_alloc_pct"},
   net |-> {"ports", "ports_up", "ports_down", "out_of_buffer", "errors",
            "link_down_events", "pause_active", "nodes_degraded"},
   stg |-> {"mounts", "size_gb", "used_gb", "avail_gb", "use_pct", "worst_pct",
            "beegfs_targets", "beegfs_free_pct_min", "lustre_targets",
            "lustre_use_pct_max", "shared_mounts_deduped"}]

\* csv_out.render_summary and summary_out._row: the cell under a column, blank
\* (a dash in the table) when the row has no such key.
SummaryCell(row, k) == IF k \in DOMAIN row THEN row[k] ELSE Blank

\* prometheus_out.render_summary: a sample for each metric whose key the row
\* has; keys a row lacks are skipped.
SummarySamples(cmd, row) ==
  [k \in SUMMARY_METRICS[cmd] \cap DOMAIN row |-> row[k]]
-----------------------------------------------------------------------------
\* The two detail formats never contradict each other about a node: where a
\* CSV line has a number, Prometheus has the sample, with that number; where a
\* sample has no such number behind it, it is 0 or the sentinel, or a mount's
\* available space whose line is blank for the sake of another size.
DetailViewsAgree(cmd, d) ==
  "error" \notin DOMAIN d =>
    \A m \in DOMAIN METRICS[cmd], i \in DOMAIN Parts(cmd, d) :
      LET k    == METRICS[cmd][m]
          cell == Cell(cmd, d, i, k)
          shown == {s.value : s \in {x \in Samples(cmd, d) : x.metric = m /\ x.at = i}}
      IN  IF cell \subseteq {NA} THEN shown \subseteq {0, Unknown} \/ k = "avail_1k"
          ELSE shown = cell

\* No two samples of a node have one metric and one set of labels.
OneSamplePerSeries(cmd, d) ==
  \A s, t \in Samples(cmd, d) :
    s.metric = t.metric /\ s.labels = t.labels => s.at = t.at

\* The tables of the -t view fit the rows: no column is blank in the row of a
\* node or the cluster, what a column shows is what its metric says, and every
\* metric has its cluster sample.
SummaryViewsAgree(cmd, rows, cluster) ==
  /\ \A row \in Range(rows) \cup {cluster} : \A k \in COLUMNS[cmd] :
       /\ SummaryCell(row, k) # Blank
       /\ k \in DOMAIN SummarySamples(cmd, row)
       /\ SummarySamples(cmd, row)[k] = SummaryCell(row, k)
  /\ DOMAIN SummarySamples(cmd, cluster) = SUMMARY_METRICS[cmd]
=============================================================================
