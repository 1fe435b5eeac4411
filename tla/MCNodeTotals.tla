---------------------------- MODULE MCNodeTotals ----------------------------
(* Small instances of NodeTotals for TLC. *)
EXTENDS NodeTotals, TLC

CONSTANTS n1, n2, n3

Gpu(i, util, used, power) ==
  [index |-> i, model |-> "A100", util_pct |-> util, mem_used_mb |-> used,
   mem_total_mb |-> 8, temp_c |-> 30 + util, power_w |-> power]
\* No GPU; one busy GPU; three, of which one does not support two readings.
Smi == {<<>>, <<Gpu(0, 9, 5, 4)>>,
        <<Gpu(0, 1, 0, 1), Gpu(1, NA, 1, NA), Gpu(2, 3, 8, 2)>>}

\* Exit code 0 with none of the fields asked for.
NoFields == [k \in {} |-> NA]

\* Two sockets, without a model; a listing without a socket count; an empty one.
Lscpu == {NoFields, [cpus |-> 8, sockets |-> 2], [cpus |-> 4, model_name |-> "EPYC"]}
\* An old kernel does not give MemAvailable; one value is no number; an empty file.
Meminfo == {NoFields,
            [os_memtotal_mb |-> 8, os_memavailable_mb |-> 2, os_memfree_mb |-> 1],
            [os_memtotal_mb |-> 4, os_memavailable_mb |-> 4, os_memfree_mb |-> NA,
             os_cached_mb |-> 1],
            [os_memtotal_mb |-> 4, os_memfree_mb |-> 3]}
\* A node in use; one that is down, whose load and free memory are N/A;
\* one of which it prints a part alone; one of which it prints none of these.
CpuFields == {NoFields, [slurm_alloccpus |-> 1],
              [slurm_cputot |-> 8, slurm_alloccpus |-> 6, slurm_idlecpus |-> 2, slurm_cpuload |-> 5],
              [slurm_cputot |-> 4, slurm_alloccpus |-> 0, slurm_idlecpus |-> 4, slurm_cpuload |-> NA]}
MemFields == {NoFields, [slurm_realmemory |-> NA, slurm_allocmem |-> 2],
              [slurm_realmemory |-> 8, slurm_allocmem |-> 6, slurm_freemem |-> 1],
              [slurm_realmemory |-> 4, slurm_allocmem |-> 1, slurm_freemem |-> NA]}

Port(st, layer) == [state |-> st, link_layer |-> layer]
Up == Port("ACTIVE", "InfiniBand")
Dn == Port("DOWN", "InfiniBand")
Dev(name, ports, netdevs) == [name |-> name, ports |-> ports, netdevs |-> netdevs]
Eth(oob, crc, flaps, pause) ==
  [rx_out_of_buffer |-> oob, rx_crc_errors_phy |-> crc,
   link_down_events_phy |-> flaps, rx_pause_ctrl_phy |-> pause]
\* A node without devices but with a management interface; two devices with a
\* netdev each; a device of two ports, which share the first of its netdevs and of
\* which the first is down; one of two link layers; a device without a netdev next to one without ethtool.
Sysfs ==
  {[devices |-> <<>>, stats |-> [eno1 |-> Eth(9, 9, 9, 9)]],
   [devices |-> <<Dev("mlx5_0", <<Up>>, <<"ib0">>), Dev("mlx5_1", <<Dn>>, <<"ib1">>)>>,
    stats |-> [ib0 |-> Eth(1, 0, 0, 0), ib1 |-> Eth(2, 0, 0, NA)]],
   [devices |-> <<Dev("mlx4_0", <<Dn, Up>>, <<"ib0", "ib1">>)>>,
    stats |-> [ib0 |-> Eth(3, 1, 2, 0), ib1 |-> Eth(5, 7, 0, 1)]],
   [devices |-> <<Dev("mlx5_0", <<Up, Port("ACTIVE", "Ethernet")>>, <<"eth0">>)>>,
    stats |-> [eth0 |-> Eth(4, 1, 0, 6)]],
   [devices |-> <<Dev("mlx5_0", <<Up>>, <<>>), Dev("mlx5_1", <<Up>>, <<"ib1">>)>>,
    stats |-> [ib1 |-> NoStats]]}

Nodes  == [gpu |-> Smi, cpu |-> Lscpu, mem |-> Meminfo, net |-> Sysfs]
Slurmd == [cpu |-> CpuFields, mem |-> MemFields]

\* Nodes are interchangeable.
Symmetry == Permutations(Node)
=============================================================================
