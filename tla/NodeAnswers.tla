----------------------------- MODULE NodeAnswers -----------------------------
(***************************************************************************)
(* What poll_node() of gpu, cpu, mem and net makes of the records a node   *)
(* and the scheduler answer with.  NodePoll keeps the keys of the resulting *)
(* dictionary; here are its values, which the totals and formats need.     *)
(*                                                                         *)
(* The models start where a tool's line has been split into its columns.   *)
(***************************************************************************)
EXTENDS Fields, NodePoll, Sequences, SequencesExt

\* The fields each side is asked for.  An lscpu or scontrol value is kept as
\* text, so NA stays in the dictionary.
LscpuKeys   == {"model_name", "cpus", "sockets"}
MeminfoKeys == {"os_memtotal_mb", "os_memavailable_mb", "os_memfree_mb", "os_buffers_mb",
                "os_cached_mb", "os_swaptotal_mb", "os_swapfree_mb"}
SlurmKeys   == [cpu |-> {"slurm_cputot", "slurm_alloccpus", "slurm_idlecpus", "slurm_cpuload"},
                mem |-> {"slurm_realmemory", "slurm_allocmem", "slurm_freemem"}]
Wanted(d, keys) == Restrict(d, keys \cap DOMAIN d)

\* Every line of nvidia-smi is a GPU; a utilisation or power reading that is
\* [Not Supported] becomes 0.
GpuData(lines) ==
  [gpus |-> [i \in DOMAIN lines |->
     [lines[i] EXCEPT !.util_pct = IF @ = NA THEN 0 ELSE @,
                      !.power_w  = IF @ = NA THEN 0 ELSE @]]]

CpuData(lscpu) == Wanted(lscpu, LscpuKeys)

\* A value of /proc/meminfo that is no number goes under another key.
MemData(meminfo) ==
  Wanted(meminfo, {k \in MeminfoKeys \cap DOMAIN meminfo : meminfo[k] # NA})

\* The remote script walks the InfiniBand devices and their ports, and gives
\* every port of a device the first of the device's netdevs, then reads the
\* statistics of every netdev of the node.
PortsOf(dev) ==
  [i \in DOMAIN dev.ports |->
     [device |-> dev.name, state |-> dev.ports[i].state,
      link_layer |-> dev.ports[i].link_layer,
      netdev |-> IF dev.netdevs = <<>> THEN "-" ELSE Head(dev.netdevs)]]
NetData(sysfs) ==
  [ports   |-> FlattenSeq([i \in DOMAIN sysfs.devices |-> PortsOf(sysfs.devices[i])]),
   netdevs |-> sysfs.stats]

\* query_node_state, when scontrol knows the node.
SlurmData(cmd, fields) == Wanted(fields, SlurmKeys[cmd])

\* The ends of either side that are not data.
NoAnswer    == [error |-> "ssh"]
NotInSlurm  == [slurm_status |-> "Not in Slurm"]
SlurmFailed == [slurm_error |-> "exception"]

\* poll_node: the node's half, and for cpu and mem the scheduler's merged over it.
Halves(cmd, raw) ==
  {NoAnswer} \cup
  CASE cmd = "gpu" -> {GpuData(x) : x \in raw}
    [] cmd = "cpu" -> {CpuData(x) : x \in raw}
    [] cmd = "mem" -> {MemData(x) : x \in raw}
    [] cmd = "net" -> {NetData(x) : x \in raw}
SlurmHalves(cmd, raw) ==
  {NotInSlurm, SlurmFailed} \cup {SlurmData(cmd, x) : x \in raw}
PollNode(cmd, raw, slurm) ==
  IF AsksSlurm(cmd)
    THEN {Merged(h, s) : h \in Halves(cmd, raw), s \in SlurmHalves(cmd, slurm)}
    ELSE Halves(cmd, raw)

\* The keys NodePoll has for this dictionary, and its mark of an entry.
Listed(cmd, d) == CASE cmd = "gpu" -> d.gpus
                    [] cmd = "net" -> d.ports
                    [] OTHER       -> <<>>
KeysOf(cmd, d) ==
  (DOMAIN d \cap Key)
  \cup (IF "error" \notin DOMAIN d /\ Listed(cmd, d) # <<>> THEN {"entry"} ELSE {})
  \cup (IF DOMAIN d \cap (LscpuKeys \cup MeminfoKeys) # {} THEN {"hw"} ELSE {})
  \cup (IF AsksSlurm(cmd) /\ DOMAIN d \cap SlurmKeys[cmd] # {} THEN {"slurm"} ELSE {})
=============================================================================
