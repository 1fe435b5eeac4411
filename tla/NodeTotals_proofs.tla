-------------------------- MODULE NodeTotals_proofs --------------------------
(***************************************************************************)
(* Proofs about NodeTotals, for every set of nodes and whatever the nodes  *)
(* and the scheduler answer.                                               *)
(***************************************************************************)
EXTENDS NodeTotals, Views_proofs, Sums_proofs, SequenceTheorems, TLAPS

-----------------------------------------------------------------------------
(* What a node may answer. *)

\* Sequences in one behind the other are a sequence.
LEMMA FlattenType ==
  ASSUME NEW B, NEW seqs \in Seq(Seq(B)) PROVE FlattenSeq(seqs) \in Seq(B)
<1> DEFINE N == Len(seqs)
           Step(f, i)   == IF i = 1 THEN seqs[i] ELSE f[i - 1] \o seqs[i]
           Solves(f, n) == f = [i \in 1 .. n |-> Step(f, i)]
           Typed(f, n)  == \A i \in 1 .. n : f[i] \in Seq(B)
           P == {n \in 1 .. N : \E f : Solves(f, n) /\ Typed(f, n)}
           all == CHOOSE f : Solves(f, N)
<1>1. N \in Nat /\ \A i \in 1 .. N : seqs[i] \in Seq(B)
  OBVIOUS
<1>2. FlattenSeq(seqs) = IF N = 0 THEN seqs ELSE all[N]
  BY DEF FlattenSeq
<1> HIDE DEF N
<1>3. N # 0 => 1 \in P
  <2> DEFINE f == [i \in 1 .. 1 |-> seqs[1]]
  <2>1. N # 0 => Solves(f, 1) /\ Typed(f, 1)
    BY <1>1
  <2>2. N # 0 => 1 \in 1 .. N
    BY <1>1
  <2> HIDE DEF f, Solves, Typed
  <2> QED BY <2>1, <2>2
<1>4. ASSUME NEW n \in 1 .. N, n \in P, n + 1 \in 1 .. N PROVE n + 1 \in P
  <2>1. PICK g : Solves(g, n) /\ Typed(g, n)
    BY <1>4
  <2> DEFINE f == [i \in 1 .. n + 1 |-> IF i = n + 1 THEN g[n] \o seqs[n + 1] ELSE g[i]]
  <2>2. n \in 1 .. n /\ \A i \in 1 .. n + 1 : i = n + 1 \/ i \in 1 .. n
    BY <1>1
  <2>3. ASSUME NEW i \in 1 .. n + 1 PROVE f[i] = Step(f, i) /\ f[i] \in Seq(B)
    <3>1. CASE i = n + 1
      <4>1. i # 1 /\ i - 1 = n /\ n # n + 1 /\ n \in 1 .. n + 1
        BY <1>1, <3>1
      <4>2. f[n] = g[n] /\ g[n] \in Seq(B)
        BY <2>1, <2>2, <4>1
      <4>3. f[i] = g[n] \o seqs[n + 1]
        BY <3>1
      <4>4. seqs[n + 1] \in Seq(B)
        BY <1>1, <1>4
      <4>5. Step(f, i) = f[n] \o seqs[n + 1]
        BY <3>1, <4>1
      <4>6. g[n] \o seqs[n + 1] \in Seq(B)
        BY <4>2, <4>4, ConcatProperties
      <4> HIDE DEF f, Step
      <4> QED BY <4>2, <4>3, <4>5, <4>6
    <3>2. CASE i # n + 1
      <4>1. i \in 1 .. n /\ f[i] = g[i]
        BY <2>2, <3>2
      <4>2. i # 1 => i - 1 \in 1 .. n + 1 /\ i - 1 # n + 1 /\ i - 1 \in 1 .. n
        BY <1>1, <4>1
      <4>3. i # 1 => f[i - 1] = g[i - 1]
        BY <4>2
      <4>4. g[i] = Step(g, i)
        BY <2>1, <4>1
      <4> HIDE DEF f
      <4> QED BY <2>1, <4>1, <4>3, <4>4
    <3> QED BY <3>1, <3>2
  <2>4. f = [i \in 1 .. n + 1 |-> f[i]]
    OBVIOUS
  <2> HIDE DEF f
  <2>5. Solves(f, n + 1) /\ Typed(f, n + 1)
    <3> HIDE DEF Step
    <3> QED BY <2>3, <2>4
  <2> HIDE DEF Solves, Typed
  <2> QED BY <1>4, <2>5
<1> HIDE DEF P
<1>5. \A n \in 1 .. N : n \in P
  BY <1>1, <1>3, <1>4, IntervalInduction
<1>6. CASE N = 0
  BY <1>2, <1>6 DEF N
<1>7. CASE N # 0
  <2>1. N \in 1 .. N
    BY <1>1, <1>7
  <2>2. \E f : Solves(f, N)
    BY <1>5, <2>1 DEF P
  <2>3. Solves(all, N)
    <3> HIDE DEF Solves
    <3> QED BY <2>2
  <2> HIDE DEF all
  <2> DEFINE Q == {n \in 1 .. N : all[n] \in Seq(B)}
  <2>4. \A n \in 1 .. N : all[n] = Step(all, n)
    BY <2>3
  <2>5. 1 \in Q
    BY <1>1, <1>7, <2>4
  <2>6. ASSUME NEW n \in 1 .. N, n \in Q, n + 1 \in 1 .. N PROVE n + 1 \in Q
    <3>1. n + 1 # 1 /\ (n + 1) - 1 = n
      BY <1>1
    <3>2. all[n + 1] = all[n] \o seqs[n + 1]
      BY <2>4, <2>6, <3>1
    <3>3. all[n] \in Seq(B) /\ seqs[n + 1] \in Seq(B)
      BY <1>1, <2>6
    <3>4. all[n] \o seqs[n + 1] \in Seq(B)
      BY <3>3, ConcatProperties
    <3> QED BY <2>6, <3>2, <3>4
  <2> HIDE DEF Q
  <2>7. \A n \in 1 .. N : n \in Q
    BY <1>1, <2>5, <2>6, IntervalInduction
  <2> QED BY <1>2, <1>7, <2>1, <2>7 DEF Q
<1> QED BY <1>6, <1>7

\* A GPU as the dictionaries have them.
Reading == [index : Nat, model : STRING, util_pct : Nat, mem_used_mb : Nat,
            mem_total_mb : Nat, temp_c : Nat, power_w : Nat]

LEMMA GpuAnswer ==
  ASSUME NEW d \in Answer("gpu"), "error" \notin DOMAIN d
  PROVE  /\ DOMAIN d = {"gpus"} /\ d.gpus \in Seq(Reading)
         /\ \A i, j \in DOMAIN d.gpus : d.gpus[i].index = d.gpus[j].index => i = j
<1>1. PICK x \in Hardware.gpu : d = GpuData(x)
  BY DEF Answer, PollNode, AsksSlurm, Halves, NoAnswer
<1>2. x \in Seq(GpuLine) /\ \A i, j \in DOMAIN x : x[i].index = x[j].index => i = j
  BY HardwareAssumption
<1> DEFINE fixed(l) == [l EXCEPT !.util_pct = IF @ = NA THEN 0 ELSE @,
                                 !.power_w  = IF @ = NA THEN 0 ELSE @]
           gpus == [i \in DOMAIN x |-> fixed(x[i])]
<1>3. \A l \in GpuLine : fixed(l) \in Reading /\ fixed(l).index = l.index
  BY DEF GpuLine, Reading
<1>4. DOMAIN d = {"gpus"} /\ d.gpus = gpus
  BY <1>1 DEF GpuData
<1> HIDE DEF fixed
<1>5. gpus \in Seq(Reading)
  <2>1. \A i \in 1 .. Len(x) : x[i] \in GpuLine
    BY <1>2
  <2>2. gpus = [i \in 1 .. Len(x) |-> fixed(x[i])] /\ Len(x) \in Nat
    BY <1>2
  <2> QED BY <1>3, <2>1, <2>2
<1>6. \A i \in DOMAIN x : x[i] \in GpuLine
  BY <1>2
<1> QED BY <1>2, <1>3, <1>4, <1>5, <1>6

LEMMA NetAnswer ==
  ASSUME NEW d \in Answer("net"), "error" \notin DOMAIN d
  PROVE  /\ DOMAIN d = {"ports", "netdevs"}
         /\ Len(d.ports) \in Nat /\ DOMAIN d.ports = 1 .. Len(d.ports)
         /\ \A dev \in DOMAIN d.netdevs : \A k \in DOMAIN d.netdevs[dev] :
              d.netdevs[dev][k] \in Nat \cup {NA}
<1>1. PICK x \in Hardware.net : d = NetData(x)
  BY DEF Answer, PollNode, AsksSlurm, Halves, NoAnswer
<1>2. /\ x.devices \in Seq(IBDevice)
      /\ \A dev \in DOMAIN x.stats : \A k \in DOMAIN x.stats[dev] :
           x.stats[dev][k] \in Nat \cup {NA}
  BY HardwareAssumption
<1> DEFINE seqs == [i \in DOMAIN x.devices |-> PortsOf(x.devices[i])]
<1>3. DOMAIN d = {"ports", "netdevs"} /\ d.ports = FlattenSeq(seqs) /\ d.netdevs = x.stats
  BY <1>1 DEF NetData
<1> DEFINE B == UNION {Range(PortsOf(dev)) : dev \in IBDevice}
<1>4. ASSUME NEW dev \in IBDevice PROVE PortsOf(dev) \in Seq(B)
  <2> DEFINE p == PortsOf(dev)
             N == Len(dev.ports)
  <2>1. N \in Nat /\ DOMAIN dev.ports = 1 .. N
    BY DEF IBDevice
  <2>2. DOMAIN p = 1 .. N /\ p = [i \in DOMAIN p |-> p[i]]
    BY <2>1 DEF PortsOf
  <2>3. \A i \in DOMAIN p : p[i] \in B
    BY DEF Range
  <2> HIDE DEF p, N, B
  <2>4. p \in Seq(B)
    BY <2>1, <2>2, <2>3
  <2> QED BY <2>4 DEF p
<1> HIDE DEF B
<1>5. seqs \in Seq(Seq(B))
  <2>1. \A i \in 1 .. Len(x.devices) : PortsOf(x.devices[i]) \in Seq(B)
    BY <1>2, <1>4
  <2>2. seqs = [i \in 1 .. Len(x.devices) |-> PortsOf(x.devices[i])] /\ Len(x.devices) \in Nat
    BY <1>2
  <2> QED BY <2>1, <2>2
<1> HIDE DEF seqs
<1>6. FlattenSeq(seqs) \in Seq(B)
  BY <1>5, FlattenType
<1> QED BY <1>2, <1>3, <1>6

\* Half a dictionary keeps the fields that were asked for, as they were.
LEMMA WantedNumber ==
  ASSUME NEW x, NEW keys
  PROVE  /\ DOMAIN Wanted(x, keys) = keys \cap DOMAIN x
         /\ \A k \in keys : Number(Wanted(x, keys), k) = Number(x, k)
BY DEF Wanted, Restrict, Number, NumberOr

LEMMA MergedNumber ==
  ASSUME NEW h, NEW s, NEW k
  PROVE  Number(Merged(h, s), k) = IF k \in DOMAIN s THEN Number(s, k) ELSE Number(h, k)
BY DEF Merged, Number, NumberOr

\* The values under the keys that the rows of cpu and mem are made from.
NumericKeys == [cpu |-> {"cpus", "sockets"} \cup SlurmKeys.cpu,
                mem |-> MeminfoKeys \cup SlurmKeys.mem]
HardwareKey == [cpu |-> LscpuKeys, mem |-> MeminfoKeys]

\* cpu and mem: the dictionary is the node's half with the scheduler's in it,
\* and each half is an error or what was asked for.
LEMMA HalvesAnswer ==
  ASSUME NEW m \in {"cpu", "mem"}, NEW d \in Answer(m)
  PROVE  \E h, s :
           /\ d = Merged(h, s)
           /\ \/ h = NoAnswer
              \/ m = "cpu" /\ \E x \in Hardware.cpu : h = CpuData(x)
              \/ m = "mem" /\ \E x \in Hardware.mem : h = MemData(x)
           /\ s \in {NotInSlurm, SlurmFailed} \/ \E x \in Scheduler[m] : s = SlurmData(m, x)
BY DEF Answer, PollNode, AsksSlurm, Halves, SlurmHalves

\* The numbers of each half.
LEMMA SlurmNumbers ==
  ASSUME NEW m \in {"cpu", "mem"}, NEW s,
         s \in {NotInSlurm, SlurmFailed} \/ \E x \in Scheduler[m] : s = SlurmData(m, x)
  PROVE  /\ DOMAIN s \subseteq SlurmKeys[m] \cup {"slurm_status", "slurm_error"}
         /\ \A k \in SlurmKeys[m] : Number(s, k) \in Nat
         /\ \/ DOMAIN s \in {{"slurm_status"}, {"slurm_error"}}
            \/ DOMAIN s \subseteq SlurmKeys[m]
<1>0. {"slurm_status", "slurm_error"} \cap SlurmKeys[m] = {}
  BY DEF SlurmKeys
<1>1. CASE s \in {NotInSlurm, SlurmFailed}
  <2>1. DOMAIN s \in {{"slurm_status"}, {"slurm_error"}}
    BY <1>1 DEF NotInSlurm, SlurmFailed
  <2>2. \A k \in SlurmKeys[m] : Number(s, k) = 0
    BY <1>0, <2>1 DEF Number, NumberOr
  <2> QED BY <2>1, <2>2
<1>2. ASSUME NEW x \in Scheduler[m], s = SlurmData(m, x) PROVE
         /\ DOMAIN s \subseteq SlurmKeys[m]
         /\ \A k \in SlurmKeys[m] : Number(s, k) \in Nat
  <2> DEFINE keys == SlurmKeys[m]
  <2>1. s = Wanted(x, keys)
    BY <1>2 DEF SlurmData
  <2>2. \A k \in keys \cap DOMAIN x : x[k] \in Nat \cup {NA}
    BY SchedulerAssumption
  <2>3. \A k \in keys : Number(x, k) \in Nat
    BY <2>2 DEF Number, NumberOr
  <2> HIDE DEF keys
  <2>4. DOMAIN s = keys \cap DOMAIN x /\ \A k \in keys : Number(s, k) = Number(x, k)
    BY <2>1, WantedNumber
  <2> QED BY <2>2, <2>3, <2>4 DEF keys
<1> QED BY <1>1, <1>2

LEMMA HardwareNumbers ==
  ASSUME NEW m \in {"cpu", "mem"}, NEW h,
         \/ h = NoAnswer
         \/ m = "cpu" /\ \E x \in Hardware.cpu : h = CpuData(x)
         \/ m = "mem" /\ \E x \in Hardware.mem : h = MemData(x)
  PROVE  /\ DOMAIN h = {"error"} \/ DOMAIN h \subseteq HardwareKey[m]
         /\ \A k \in NumericKeys[m] \ SlurmKeys[m] : Number(h, k) \in Nat
         /\ m = "mem" => Number(h, "os_memavailable_mb") <= Number(h, "os_memtotal_mb")
<1>0. /\ NumericKeys.cpu \ SlurmKeys.cpu = {"cpus", "sockets"}
      /\ NumericKeys.mem \ SlurmKeys.mem = MeminfoKeys
      /\ "error" \notin {"cpus", "sockets"} \cup MeminfoKeys
      /\ {"cpus", "sockets"} \subseteq LscpuKeys
      /\ {"os_memavailable_mb", "os_memtotal_mb"} \subseteq MeminfoKeys
  BY DEF NumericKeys, SlurmKeys, MeminfoKeys, LscpuKeys
<1>1. CASE h = NoAnswer
  <2>1. DOMAIN h = {"error"}
    BY <1>1 DEF NoAnswer
  <2>2. \A k \in {"cpus", "sockets"} \cup MeminfoKeys : Number(h, k) = 0
    BY <1>0, <2>1 DEF Number, NumberOr
  <2>3. m = "mem" => Number(h, "os_memavailable_mb") = 0 /\ Number(h, "os_memtotal_mb") = 0
    BY <1>0, <2>2
  <2>4. \A k \in NumericKeys[m] \ SlurmKeys[m] : Number(h, k) = 0
    BY <1>0, <2>2
  <2> QED BY <2>1, <2>3, <2>4
<1>2. ASSUME m = "cpu", NEW x \in Hardware.cpu, h = CpuData(x) PROVE
         /\ DOMAIN h \subseteq LscpuKeys
         /\ \A k \in {"cpus", "sockets"} : Number(h, k) \in Nat
  <2>1. DOMAIN h = LscpuKeys \cap DOMAIN x /\ \A k \in LscpuKeys : Number(h, k) = Number(x, k)
    BY <1>2, WantedNumber DEF CpuData
  <2>2. \A k \in {"cpus", "sockets"} : Number(x, k) \in Nat
    BY HardwareAssumption DEF Number, NumberOr
  <2> QED BY <1>0, <2>1, <2>2
<1>3. ASSUME m = "mem", NEW x \in Hardware.mem, h = MemData(x) PROVE
         /\ DOMAIN h \subseteq MeminfoKeys
         /\ \A k \in MeminfoKeys : Number(h, k) \in Nat
         /\ Number(h, "os_memavailable_mb") <= Number(h, "os_memtotal_mb")
  <2> DEFINE keys == {k \in MeminfoKeys \cap DOMAIN x : x[k] # NA}
  <2>1. h = Wanted(x, keys)
    BY <1>3 DEF MemData
  <2>2. DOMAIN h = keys \cap DOMAIN x /\ \A k \in keys : Number(h, k) = Number(x, k)
    <3> HIDE DEF keys
    <3> QED BY <2>1, WantedNumber
  <2>3. \A k \in MeminfoKeys : Number(h, k) = Number(x, k)
    <3> SUFFICES ASSUME NEW k \in MeminfoKeys, k \notin keys PROVE Number(h, k) = Number(x, k)
      BY <2>2
    <3>1. k \notin DOMAIN h /\ (k \in DOMAIN x => x[k] = NA)
      BY <2>2
    <3> QED BY <3>1 DEF Number, NumberOr
  <2>4. \A k \in MeminfoKeys : Number(x, k) \in Nat
    BY HardwareAssumption DEF Number, NumberOr
  <2>5. Number(x, "os_memavailable_mb") <= Number(x, "os_memtotal_mb")
    BY HardwareAssumption
  <2> QED BY <1>0, <2>2, <2>3, <2>4, <2>5
<1> QED BY <1>0, <1>1, <1>2, <1>3 DEF HardwareKey

\* What the row of a node of cpu or mem is made from.
LEMMA HalvesNumbers ==
  ASSUME NEW m \in {"cpu", "mem"}, NEW d \in Answer(m)
  PROVE  /\ \A k \in NumericKeys[m] : Number(d, k) \in Nat
         /\ {"slurm_status", "slurm_error"} \cap DOMAIN d # {} =>
              DOMAIN d \cap SlurmKeys[m] = {}
         /\ m = "mem" => Number(d, "os_memavailable_mb") <= Number(d, "os_memtotal_mb")
         /\ "error" \in DOMAIN d => DOMAIN d \cap HardwareKey[m] = {}
<1>1. PICK h, s :
        /\ d = Merged(h, s)
        /\ \/ h = NoAnswer
           \/ m = "cpu" /\ \E x \in Hardware.cpu : h = CpuData(x)
           \/ m = "mem" /\ \E x \in Hardware.mem : h = MemData(x)
        /\ s \in {NotInSlurm, SlurmFailed} \/ \E x \in Scheduler[m] : s = SlurmData(m, x)
  BY HalvesAnswer
<1> DEFINE mine == NumericKeys[m] \ SlurmKeys[m]
<1>2. /\ DOMAIN s \subseteq SlurmKeys[m] \cup {"slurm_status", "slurm_error"}
      /\ \A k \in SlurmKeys[m] : Number(s, k) \in Nat
      /\ \/ DOMAIN s \in {{"slurm_status"}, {"slurm_error"}}
         \/ DOMAIN s \subseteq SlurmKeys[m]
  BY <1>1, SlurmNumbers
<1>3. /\ DOMAIN h = {"error"} \/ DOMAIN h \subseteq HardwareKey[m]
      /\ \A k \in mine : Number(h, k) \in Nat
      /\ m = "mem" => Number(h, "os_memavailable_mb") <= Number(h, "os_memtotal_mb")
  BY <1>1, HardwareNumbers
<1>4. /\ HardwareKey[m] \cap (SlurmKeys[m] \cup {"slurm_status", "slurm_error", "error"}) = {}
      /\ mine \subseteq HardwareKey[m] /\ NumericKeys[m] = mine \cup SlurmKeys[m]
      /\ SlurmKeys[m] \cap {"slurm_status", "slurm_error", "error"} = {}
      /\ m = "mem" => {"os_memavailable_mb", "os_memtotal_mb"} \subseteq mine
  <2>1. CASE m = "cpu"
    BY <2>1 DEF HardwareKey, NumericKeys, LscpuKeys, SlurmKeys
  <2>2. CASE m = "mem"
    BY <2>2 DEF HardwareKey, NumericKeys, MeminfoKeys, SlurmKeys
  <2> QED BY <2>1, <2>2
<1> HIDE DEF mine
<1>5. \A k \in mine : Number(d, k) = Number(h, k)
  BY <1>1, <1>2, <1>4, MergedNumber
<1>6. \A k \in SlurmKeys[m] : Number(d, k) = Number(s, k)
  <2> SUFFICES ASSUME NEW k \in SlurmKeys[m] PROVE Number(d, k) = Number(s, k)
    OBVIOUS
  <2>1. k \notin DOMAIN h
    BY <1>3, <1>4
  <2>2. Number(h, k) = 0
    BY <2>1 DEF Number, NumberOr
  <2>3. k \notin DOMAIN s => Number(s, k) = 0
    BY DEF Number, NumberOr
  <2> QED BY <1>1, <2>2, <2>3, MergedNumber
<1>7. DOMAIN d = DOMAIN h \cup DOMAIN s
  BY <1>1 DEF Merged
<1>8. "error" \in DOMAIN d => DOMAIN d \cap HardwareKey[m] = {}
  BY <1>2, <1>3, <1>4, <1>7
<1>9. {"slurm_status", "slurm_error"} \cap DOMAIN d # {} => DOMAIN d \cap SlurmKeys[m] = {}
  BY <1>2, <1>3, <1>4, <1>7
<1> QED BY <1>2, <1>3, <1>4, <1>5, <1>6, <1>8, <1>9
-----------------------------------------------------------------------------
(* The row of a node. *)

\* The sum and the highest value of a column of natural numbers.
LEMMA ColumnTotals ==
  ASSUME NEW list, Len(list) \in Nat, DOMAIN list = 1 .. Len(list), NEW k,
         \A i \in DOMAIN list : list[i][k] \in Nat
  PROVE  /\ SumOf(list, k) \in Nat
         /\ MaxOf(list, k) \in Nat
         /\ \A i \in DOMAIN list : list[i][k] <= MaxOf(list, k)
<1> DEFINE col == Column(list, k)
           D   == DOMAIN list
           V   == {col[i] : i \in D} \cup {0}
<1>1. \A i \in D : col[i] \in Nat /\ col[i] = list[i][k]
  BY DEF Column
<1>2. IsFiniteSet(D)
  BY FS_Interval
<1>3. SumOf(list, k) = SumAt(col, D) /\ MaxOf(list, k) = Max(V)
  BY DEF SumOf, MaxOf, Column, Range
<1> HIDE DEF col, D
<1>4. SumAt(col, D) \in Nat
  BY <1>1, <1>2, SumNat
<1>5. IsFiniteSet(V) /\ V \in SUBSET Nat /\ V # {}
  <2> DEFINE W == {col[i] : i \in D}
  <2>1. IsFiniteSet(W) /\ W \in SUBSET Nat
    BY <1>1, <1>2, ImageFinite
  <2> HIDE DEF W
  <2>2. IsFiniteSet(W \cup {0})
    BY <2>1, FS_AddElement
  <2> QED BY <2>1, <2>2 DEF W
<1>6. \A i \in D : col[i] \in V
  OBVIOUS
<1> HIDE DEF V
<1>7. V \in SUBSET Int
  BY <1>5
<1>8. Max(V) \in V /\ \A x \in V : x <= Max(V)
  BY <1>5, <1>7, HighestIn
<1> QED BY <1>1, <1>3, <1>4, <1>5, <1>6, <1>8 DEF D

\* What the rows and the sums of gpu need of an answer.
LEMMA Gpus ==
  ASSUME NEW d \in Answer("gpu"), HasRow("gpu", DOMAIN d)
  PROVE  /\ "error" \notin DOMAIN d
         /\ Len(d.gpus) \in Nat /\ DOMAIN d.gpus = 1 .. Len(d.gpus)
         /\ \A k \in {"util_pct", "mem_used_mb", "mem_total_mb", "temp_c", "power_w"} :
              /\ \A i \in DOMAIN d.gpus : d.gpus[i][k] \in Nat
              /\ SumOf(d.gpus, k) \in Nat /\ MaxOf(d.gpus, k) \in Nat
              /\ \A i \in DOMAIN d.gpus : d.gpus[i][k] <= MaxOf(d.gpus, k)
<1>1. "error" \notin DOMAIN d
  BY DEF HasRow, AsksSlurm
<1> DEFINE g == d.gpus
<1>2. g \in Seq(Reading)
  BY <1>1, GpuAnswer
<1> HIDE DEF g
<1>3. Len(g) \in Nat /\ DOMAIN g = 1 .. Len(g) /\ \A i \in DOMAIN g : g[i] \in Reading
  BY <1>2
<1>4. ASSUME NEW k \in {"util_pct", "mem_used_mb", "mem_total_mb", "temp_c", "power_w"}
      PROVE  \A i \in DOMAIN g : g[i][k] \in Nat
  <2>1. \A r \in Reading : r[k] \in Nat
    BY DEF Reading
  <2> QED BY <1>3, <2>1
<1>5. ASSUME NEW k \in {"util_pct", "mem_used_mb", "mem_total_mb", "temp_c", "power_w"}
      PROVE  /\ SumOf(g, k) \in Nat /\ MaxOf(g, k) \in Nat
             /\ \A i \in DOMAIN g : g[i][k] <= MaxOf(g, k)
  BY <1>3, <1>4, ColumnTotals
<1> QED BY <1>1, <1>3, <1>4, <1>5 DEF g

\* What the rows and the sums of net need of an answer.
LEMMA Ports ==
  ASSUME NEW d \in Answer("net"), HasRow("net", DOMAIN d)
  PROVE  /\ "error" \notin DOMAIN d
         /\ Len(d.ports) \in Nat /\ DOMAIN d.ports = 1 .. Len(d.ports)
         /\ IsFiniteSet(DOMAIN d.ports)
         /\ CountedPorts(d.ports) \in SUBSET DOMAIN d.ports
         /\ IsFiniteSet(CountedPorts(d.ports))
         /\ \A i \in DOMAIN d.ports : \A k : Number(Stats(d, d.ports[i]), k) \in Nat
         /\ \A k : Counted(d, k) \in Nat
<1>1. "error" \notin DOMAIN d
  BY DEF HasRow, AsksSlurm
<1> DEFINE p == d.ports
<1>2. /\ Len(p) \in Nat /\ DOMAIN p = 1 .. Len(p)
      /\ \A dev \in DOMAIN d.netdevs : \A k \in DOMAIN d.netdevs[dev] :
           d.netdevs[dev][k] \in Nat \cup {NA}
  BY <1>1, NetAnswer
<1>3. ASSUME NEW i \in DOMAIN p, NEW k PROVE Number(Stats(d, p[i]), k) \in Nat
  <2> DEFINE dev == p[i].netdev
  <2>1. CASE dev # "-" /\ dev \in DOMAIN d.netdevs
    <3>1. Stats(d, p[i]) = d.netdevs[dev]
      BY <2>1 DEF Stats
    <3> HIDE DEF dev
    <3> QED BY <1>2, <2>1, <3>1 DEF Number, NumberOr
  <2>2. CASE ~ (dev # "-" /\ dev \in DOMAIN d.netdevs)
    <3>1. Stats(d, p[i]) = NoStats
      BY <2>2 DEF Stats
    <3> QED BY <3>1 DEF NoStats, Number, NumberOr
  <2> QED BY <2>1, <2>2
<1>4. CountedPorts(p) \in SUBSET DOMAIN p
  BY DEF CountedPorts
<1>5. IsFiniteSet(DOMAIN p)
  BY <1>2, FS_Interval
<1>6. ASSUME NEW k PROVE Counted(d, k) \in Nat
  <2> DEFINE f == [i \in DOMAIN p |-> Number(Stats(d, p[i]), k)]
             S == CountedPorts(p)
  <2>1. Counted(d, k) = SumAt(f, S)
    BY DEF Counted
  <2>2. \A i \in S : f[i] \in Nat
    BY <1>3, <1>4
  <2> HIDE DEF f, S, p
  <2>3. IsFiniteSet(S)
    BY <1>4, <1>5, FS_Subset DEF S
  <2> QED BY <2>1, <2>2, <2>3, SumNat
<1>7. IsFiniteSet(CountedPorts(p))
  BY <1>4, <1>5, FS_Subset
<1> QED BY <1>1, <1>2, <1>3, <1>4, <1>5, <1>6, <1>7

LEMMA ErrorKeysFinite == IsFiniteSet(NET_ERROR_KEYS)
<1> DEFINE a == "rx_crc_errors_phy"
           b == "rx_symbol_err_phy"
           e == "rx_discards_phy"
           f == "tx_discards_phy"
           g == "link_down_events_phy"
<1>1. NET_ERROR_KEYS = ((({a} \cup {b}) \cup {e}) \cup {f}) \cup {g}
  BY DEF NET_ERROR_KEYS
<1> HIDE DEF a, b, e, f, g
<1>2. IsFiniteSet({a}) /\ \A S, x : IsFiniteSet(S) => IsFiniteSet(S \cup {x})
  BY FS_Singleton, FS_AddElement
<1> QED BY <1>1, <1>2

\* The keys of a row.
RowKeys == [gpu |-> COLUMNS.gpu \cup {"util_sum"}, cpu |-> COLUMNS.cpu \cup {"nodes"},
            mem |-> COLUMNS.mem \cup {"slurm_free_gb"}, net |-> COLUMNS.net \cup {"nodes_degraded"}]

LEMMA GpuRowType ==
  ASSUME NEW d \in Answer("gpu"), HasRow("gpu", DOMAIN d)
  PROVE  DOMAIN GpuRow(d) = RowKeys.gpu /\ \A k \in RowKeys.gpu : GpuRow(d)[k] \in Nat
<1> DEFINE util == SumOf(d.gpus, "util_pct")
           used == SumOf(d.gpus, "mem_used_mb")
           all  == SumOf(d.gpus, "mem_total_mb")
           pow  == SumOf(d.gpus, "power_w")
           mu   == MaxOf(d.gpus, "util_pct")
           mt   == MaxOf(d.gpus, "temp_c")
           n    == Len(d.gpus)
           avg  == Average(util, n)
           pct  == Percent(used, all)
<1>1. /\ util \in Nat /\ used \in Nat /\ all \in Nat /\ pow \in Nat /\ mu \in Nat /\ mt \in Nat
      /\ n \in Nat
  BY Gpus
<1>2. GpuRow(d) = [gpus |-> n, util_sum |-> util, util_avg |-> avg, util_max |-> mu,
                   temp_max |-> mt, power_w |-> pow, mem_used_gb |-> used,
                   mem_total_gb |-> all, mem_used_pct |-> pct]
  BY DEF GpuRow
<1> HIDE DEF util, used, all, pow, mu, mt, n
<1>3. avg \in Nat /\ pct \in Nat
  BY <1>1, AverageNat, PercentNat
<1> HIDE DEF avg, pct
<1> QED BY <1>1, <1>2, <1>3 DEF RowKeys, COLUMNS

LEMMA CpuRowType ==
  ASSUME NEW d \in Answer("cpu")
  PROVE  DOMAIN CpuRow(d) = RowKeys.cpu /\ \A k \in RowKeys.cpu : CpuRow(d)[k] \in Nat
<1> DEFINE total == CpuCount(d)
           alloc == Number(d, "slurm_alloccpus")
           idle  == Number(d, "slurm_idlecpus")
           load  == Number(d, "slurm_cpuload")
           socks == Number(d, "sockets")
           pct   == Percent(alloc, total)
<1>1. \A k \in {"cpus", "sockets", "slurm_cputot", "slurm_alloccpus", "slurm_idlecpus",
                "slurm_cpuload"} : Number(d, k) \in Nat
  BY HalvesNumbers DEF NumericKeys, SlurmKeys
<1>2. total \in Nat /\ alloc \in Nat /\ idle \in Nat /\ load \in Nat /\ socks \in Nat
  BY <1>1 DEF CpuCount
<1>3. CpuRow(d) = [nodes |-> 1, cpus_total |-> total, cpus_alloc |-> alloc, cpus_idle |-> idle,
                   alloc_pct |-> pct, load |-> load, sockets |-> socks]
  BY DEF CpuRow
<1> HIDE DEF total, alloc, idle, load, socks
<1>4. pct \in Nat
  BY <1>2, PercentNat
<1> HIDE DEF pct
<1> QED BY <1>2, <1>3, <1>4 DEF RowKeys, COLUMNS

LEMMA MemRowType ==
  ASSUME NEW d \in Answer("mem")
  PROVE  DOMAIN MemRow(d) = RowKeys.mem /\ \A k \in RowKeys.mem : MemRow(d)[k] \in Nat
<1> DEFINE total == Number(d, "os_memtotal_mb")
           avail == Number(d, "os_memavailable_mb")
           real  == Number(d, "slurm_realmemory")
           alloc == Number(d, "slurm_allocmem")
           free  == Number(d, "slurm_freemem")
           used  == Percent(total - avail, total)
           pct   == Percent(alloc, real)
<1>1. /\ \A k \in {"os_memtotal_mb", "os_memavailable_mb", "slurm_realmemory", "slurm_allocmem",
                   "slurm_freemem"} : Number(d, k) \in Nat
      /\ avail <= total
  BY HalvesNumbers DEF NumericKeys, SlurmKeys, MeminfoKeys
<1>2. total \in Nat /\ avail \in Nat /\ real \in Nat /\ alloc \in Nat /\ free \in Nat
  BY <1>1
<1>3. MemRow(d) = [os_total_gb |-> total, os_avail_gb |-> avail, os_used_pct |-> used,
                   slurm_real_gb |-> real, slurm_alloc_gb |-> alloc, slurm_free_gb |-> free,
                   slurm_alloc_pct |-> pct]
  BY DEF MemRow
<1> HIDE DEF total, avail, real, alloc, free
<1>4. total - avail \in Nat
  BY <1>1, <1>2
<1>5. used \in Nat /\ pct \in Nat
  BY <1>2, <1>4, PercentNat
<1> HIDE DEF used, pct
<1> QED BY <1>2, <1>3, <1>5 DEF RowKeys, COLUMNS

LEMMA NetRowType ==
  ASSUME NEW d \in Answer("net"), HasRow("net", DOMAIN d)
  PROVE  DOMAIN NetRow(d) = RowKeys.net /\ \A k \in RowKeys.net : NetRow(d)[k] \in Nat
<1> DEFINE n    == Len(d.ports)
           Up   == {i \in DOMAIN d.ports : d.ports[i].state = "ACTIVE"}
           up   == Cardinality(Up)
           C    == [k \in NET_ERROR_KEYS |-> Counted(d, k)]
           errs == SumAt(C, NET_ERROR_KEYS)
           p    == IF \E i \in CountedPorts(d.ports) : Paused(Stats(d, d.ports[i])) THEN 1 ELSE 0
           deg  == IF up < n \/ errs > 0 THEN 1 ELSE 0
           oob  == Counted(d, "rx_out_of_buffer")
           flap == Counted(d, "link_down_events_phy")
<1>1. n \in Nat /\ DOMAIN d.ports = 1 .. n /\ oob \in Nat /\ flap \in Nat
  BY Ports
<1>2. up \in Nat /\ up <= n
  <2>1. Up \in SUBSET (1 .. n)
    BY <1>1
  <2>2. IsFiniteSet(1 .. n) /\ Cardinality(1 .. n) = n
    <3> HIDE DEF n
    <3>1. n \in Int /\ 1 \in Int
      BY <1>1
    <3>2. IsFiniteSet(1 .. n) /\ Cardinality(1 .. n) = IF 1 <= n THEN n - 1 + 1 ELSE 0
      BY <3>1, FS_Interval
    <3> QED BY <1>1, <3>2
  <2> DEFINE I == 1 .. n
  <2> HIDE DEF Up, I, n
  <2>3. Cardinality(Up) <= Cardinality(I) /\ IsFiniteSet(Up)
    BY <2>1, <2>2, FS_Subset DEF I
  <2> QED BY <2>2, <2>3, FS_CardinalityType DEF I
<1>3. errs \in Nat
  <2>1. IsFiniteSet(NET_ERROR_KEYS)
    BY ErrorKeysFinite
  <2>2. \A k \in NET_ERROR_KEYS : C[k] \in Nat
    BY Ports
  <2> HIDE DEF C
  <2> QED BY <2>1, <2>2, SumNat
<1>4. NetRow(d) = [ports |-> n, ports_up |-> up, ports_down |-> n - up,
                   out_of_buffer |-> oob, errors |-> errs, link_down_events |-> flap,
                   pause_active |-> p, nodes_degraded |-> deg]
  BY DEF NetRow
<1>5. p \in Nat /\ deg \in Nat
  OBVIOUS
<1> HIDE DEF n, up, errs, p, deg, oob, flap
<1>6. n - up \in Nat
  BY <1>1, <1>2
<1> QED BY <1>1, <1>2, <1>3, <1>4, <1>5, <1>6 DEF RowKeys, COLUMNS

LEMMA RowType ==
  ASSUME NEW m \in TotalCommand, NEW d \in Answer(m), HasRow(m, DOMAIN d)
  PROVE  DOMAIN Row(m, d) = RowKeys[m] /\ \A k \in RowKeys[m] : Row(m, d)[k] \in Nat
<1>1. CASE m = "gpu"
  BY <1>1, GpuRowType DEF Row
<1>2. CASE m = "cpu"
  BY <1>2, CpuRowType DEF Row
<1>3. CASE m = "mem"
  BY <1>3, MemRowType DEF Row
<1>4. CASE m = "net"
  BY <1>4, NetRowType DEF Row
<1> QED BY <1>1, <1>2, <1>3, <1>4 DEF TotalCommand

\* Every accumulator has its key in the row.
LEMMA KeysAdded ==
  ASSUME NEW m \in TotalCommand
  PROVE  Added[m] \cup Highest[m] \subseteq RowKeys[m] /\ Added[m] \cap Highest[m] = {}
<1>1. CASE m = "gpu"
  BY <1>1 DEF Added, Highest, RowKeys, COLUMNS
<1>2. CASE m = "cpu"
  BY <1>2 DEF Added, Highest, RowKeys, COLUMNS
<1>3. CASE m = "mem"
  BY <1>3 DEF Added, Highest, RowKeys, COLUMNS
<1>4. CASE m = "net"
  BY <1>4 DEF Added, Highest, RowKeys, COLUMNS
<1> QED BY <1>1, <1>2, <1>3, <1>4 DEF TotalCommand
-----------------------------------------------------------------------------
(* The inductive invariant: the rows are those of the nodes taken, and what is *)
(* accumulated is the sum, or the highest value, of a column of theirs.        *)

RowOf(n)    == Row(cmd, state[n])
ColumnOf(k) == [n \in Node |-> RowOf(n)[k]]
WithRow     == {n \in Node : HasRow(cmd, DOMAIN state[n])}

\* x is the highest of a column, or 0.
IsHighest(x, column, S) == /\ x \in {column[n] : n \in S} \cup {0}
                           /\ \A n \in S : column[n] <= x

RowInv == /\ cmd \in TotalCommand
          /\ state \in [Node -> Answer(cmd)]
          /\ left \subseteq WithRow
          /\ Taken \subseteq WithRow
          /\ left \cap Taken = {}
          /\ \A n \in Taken : rows[n] = Shown(RowOf(n))
          /\ c \in [Added[cmd] \cup Highest[cmd] -> Nat]
          /\ \A k \in Added[cmd] : c[k] = SumAt(ColumnOf(k), Taken)
          /\ \A k \in Highest[cmd] : IsHighest(c[k], ColumnOf(k), Taken)

\* What RowInv says of a node with a row.
LEMMA RowOfType ==
  ASSUME RowInv, NEW n \in WithRow
  PROVE  /\ state[n] \in Answer(cmd) /\ HasRow(cmd, DOMAIN state[n]) /\ n \in Node
         /\ DOMAIN RowOf(n) = RowKeys[cmd]
         /\ \A k \in RowKeys[cmd] : RowOf(n)[k] \in Nat /\ ColumnOf(k)[n] = RowOf(n)[k]
<1>1. n \in Node /\ HasRow(cmd, DOMAIN state[n]) /\ state[n] \in Answer(cmd) /\ cmd \in TotalCommand
  BY DEF WithRow, RowInv
<1>2. DOMAIN RowOf(n) = RowKeys[cmd] /\ \A k \in RowKeys[cmd] : RowOf(n)[k] \in Nat
  BY <1>1, RowType DEF RowOf
<1>3. \A k : ColumnOf(k)[n] = RowOf(n)[k]
  BY <1>1 DEF ColumnOf
<1> QED BY <1>1, <1>2, <1>3

LEMMA TakenRows ==
  ASSUME RowInv
  PROVE  /\ IsFiniteSet(Taken) /\ Taken \subseteq WithRow /\ Taken \subseteq Node
         /\ \A k \in RowKeys[cmd] : \A n \in Taken :
              ColumnOf(k)[n] \in Nat /\ ColumnOf(k)[n] = RowOf(n)[k]
<1>1. Taken \subseteq WithRow /\ WithRow \subseteq Node
  BY DEF RowInv, WithRow
<1>2. IsFiniteSet(Taken)
  BY <1>1, NodeAssumption, FS_Subset
<1> QED BY <1>1, <1>2, RowOfType

LEMMA HigherOfTwo ==
  ASSUME NEW a \in Int, NEW b \in Int
  PROVE  Max({a, b}) \in {a, b} /\ a <= Max({a, b}) /\ b <= Max({a, b})
<1> DEFINE S == {a, b}
<1>1. S \in SUBSET Int /\ S # {} /\ a \in S /\ b \in S /\ S = {a} \cup {b}
  OBVIOUS
<1> HIDE DEF S
<1>2. IsFiniteSet(S)
  BY <1>1, FS_Singleton, FS_AddElement
<1>3. Max(S) \in S /\ \A x \in S : x <= Max(S)
  BY <1>1, <1>2, HighestIn
<1> QED BY <1>1, <1>3 DEF S

LEMMA InitRow == Init => RowInv
<1> SUFFICES ASSUME Init PROVE RowInv
  OBVIOUS
<1>1. Taken = {} /\ left = WithRow /\ cmd \in TotalCommand /\ state \in [Node -> Answer(cmd)]
  BY DEF Init, Taken, WithRow
<1>2. \A f : SumAt(f, {}) = 0
  BY SumEmpty
<1>3. c = [k \in Added[cmd] \cup Highest[cmd] |-> 0]
  BY DEF Init
<1>4. \A k \in Added[cmd] : c[k] = SumAt(ColumnOf(k), Taken)
  BY <1>1, <1>2, <1>3
<1>5. \A k \in Highest[cmd] : IsHighest(c[k], ColumnOf(k), Taken)
  BY <1>1, <1>3 DEF IsHighest
<1> QED BY <1>1, <1>3, <1>4, <1>5 DEF RowInv

LEMMA TakeRow ==
  ASSUME RowInv, NEW n \in Node, Take(n) PROVE RowInv'
<1> DEFINE row == RowOf(n)
<1>1. /\ n \in left /\ left' = left \ {n} /\ cmd' = cmd /\ state' = state
      /\ rows' = [x \in Taken \cup {n} |-> IF x = n THEN Shown(row) ELSE rows[x]]
      /\ c' = [k \in DOMAIN c |-> IF k \in Added[cmd] THEN c[k] + row[k]
                                  ELSE Max({c[k], row[k]})]
  BY DEF Take, Taken, RowOf
<1>2. n \in WithRow /\ n \notin Taken
  BY <1>1 DEF RowInv
<1>3. Taken' = Taken \cup {n}
  BY <1>1 DEF Taken
<1>4. /\ \A x : RowOf(x)' = RowOf(x)
      /\ \A k : ColumnOf(k)' = ColumnOf(k)
      /\ WithRow' = WithRow
  BY <1>1 DEF RowOf, ColumnOf, WithRow
<1>5. /\ Added[cmd] \cup Highest[cmd] \subseteq RowKeys[cmd]
      /\ Added[cmd] \cap Highest[cmd] = {}
  BY KeysAdded DEF RowInv
<1>6. \A k \in RowKeys[cmd] : row[k] \in Nat /\ ColumnOf(k)[n] = row[k]
  BY <1>2, RowOfType
<1>7. DOMAIN c = Added[cmd] \cup Highest[cmd] /\ \A k \in DOMAIN c : c[k] \in Nat
  BY DEF RowInv
<1> HIDE DEF row
<1>8. ASSUME NEW k \in Added[cmd]
      PROVE  c'[k] \in Nat /\ c'[k] = SumAt(ColumnOf(k), Taken \cup {n})
  <2> DEFINE f == ColumnOf(k)
             T == Taken
  <2>1. k \in RowKeys[cmd] /\ k \in DOMAIN c
    BY <1>5, <1>7
  <2>2. c'[k] = c[k] + row[k] /\ c[k] = SumAt(f, T) /\ c[k] \in Nat
    BY <1>1, <1>7, <2>1 DEF RowInv
  <2>3. IsFiniteSet(T) /\ n \notin T /\ f[n] = row[k] /\ row[k] \in Nat
    BY <1>2, <1>6, <2>1, TakenRows
  <2>4. \A x \in T \cup {n} : f[x] \in Int
    BY <1>6, <2>1, TakenRows
  <2> HIDE DEF f, T
  <2>5. SumAt(f, T \cup {n}) = f[n] + SumAt(f, T)
    BY <2>3, <2>4, SumAdd
  <2>6. c'[k] \in Nat /\ c'[k] = SumAt(f, T \cup {n})
    <3> DEFINE a == c[k]
               b == row[k]
    <3>1. a \in Nat /\ b \in Nat /\ c'[k] = a + b /\ SumAt(f, T \cup {n}) = b + a
      BY <2>2, <2>3, <2>5
    <3> HIDE DEF a, b
    <3> QED BY <3>1
  <2> QED BY <2>6 DEF f, T
<1>9. ASSUME NEW k \in Highest[cmd]
      PROVE  c'[k] \in Nat /\ IsHighest(c'[k], ColumnOf(k), Taken \cup {n})
  <2> DEFINE f == ColumnOf(k)
  <2>1. k \in RowKeys[cmd] /\ k \in DOMAIN c /\ k \notin Added[cmd]
    BY <1>5, <1>7
  <2>2. c'[k] = Max({c[k], row[k]}) /\ c[k] \in Nat /\ row[k] \in Nat /\ f[n] = row[k]
    BY <1>1, <1>6, <1>7, <2>1
  <2>3. c'[k] \in {c[k], row[k]} /\ c[k] <= c'[k] /\ row[k] <= c'[k]
    <3> DEFINE a == c[k]
               b == row[k]
    <3>1. a \in Int /\ b \in Int /\ c'[k] = Max({a, b})
      BY <2>2
    <3> HIDE DEF a, b
    <3>2. c'[k] \in {a, b} /\ a <= c'[k] /\ b <= c'[k]
      BY <3>1, HigherOfTwo
    <3> QED BY <3>2 DEF a, b
  <2>4. c[k] \in {f[x] : x \in Taken} \cup {0} /\ \A x \in Taken : f[x] <= c[k] /\ f[x] \in Nat
    BY <2>1, TakenRows DEF RowInv, IsHighest
  <2> HIDE DEF f
  <2>5. \A x \in Taken \cup {n} : f[x] <= c'[k]
    BY <2>2, <2>3, <2>4
  <2> QED BY <2>2, <2>3, <2>4, <2>5 DEF IsHighest, f
<1>10. c' \in [Added[cmd] \cup Highest[cmd] -> Nat]
  BY <1>1, <1>7, <1>8, <1>9
<1>11. \A x \in Taken' : rows'[x] = Shown(RowOf(x))
  BY <1>1, <1>3 DEF RowInv, row
<1>12. /\ cmd \in TotalCommand /\ state \in [Node -> Answer(cmd)]
       /\ left \ {n} \subseteq WithRow /\ Taken \cup {n} \subseteq WithRow
       /\ (left \ {n}) \cap (Taken \cup {n}) = {}
  BY <1>2 DEF RowInv
<1> QED BY <1>1, <1>3, <1>4, <1>8, <1>9, <1>10, <1>11, <1>12 DEF RowInv

LEMMA StutterRow == ASSUME RowInv, UNCHANGED vars PROVE RowInv'
BY DEF RowInv, vars, Taken, WithRow, RowOf, ColumnOf

LEMMA RowInvariant == Spec => []RowInv
<1>1. ASSUME RowInv, [Next]_vars PROVE RowInv'
  <2>1. CASE \E n \in Node : Take(n)
    BY <2>1, <1>1, TakeRow
  <2>2. CASE UNCHANGED vars
    BY <2>2, <1>1, StutterRow
  <2> QED BY <2>1, <2>2, <1>1 DEF Next, Over
<1> QED BY <1>1, InitRow, PTL DEF Spec
-----------------------------------------------------------------------------
(* The cluster row. *)

LEMMA GpuCluster ==
  ASSUME RowInv, cmd = "gpu"
  PROVE  /\ DOMAIN Cluster = SUMMARY_METRICS.gpu
         /\ \A k \in {"gpus", "util_max", "temp_max", "power_w", "mem_used_gb", "mem_total_gb"} :
              Cluster[k] = c[k]
         /\ Cluster.util_avg = Average(c.util_sum, c.gpus)
         /\ Cluster.mem_used_pct = Percent(c.mem_used_gb, c.mem_total_gb)
         /\ \A k \in DOMAIN Cluster : Cluster[k] \in Nat
<1> DEFINE shown == {"gpus", "util_max", "temp_max", "power_w", "mem_used_gb", "mem_total_gb"}
           avg == Average(c.util_sum, c.gpus)
           pct == Percent(c.mem_used_gb, c.mem_total_gb)
           new == [util_avg |-> avg, mem_used_pct |-> pct]
           old == Restrict(c, DOMAIN c \ {"util_sum"})
<1>1. c \in [shown \cup {"util_sum"} -> Nat]
  BY DEF RowInv, Added, Highest
<1>2. avg \in Nat /\ pct \in Nat
  <2>1. c.util_sum \in Nat /\ c.gpus \in Nat /\ c.mem_used_gb \in Nat /\ c.mem_total_gb \in Nat
    BY <1>1
  <2> QED BY <2>1, AverageNat, PercentNat
<1>3. DOMAIN old = shown /\ \A k \in shown : old[k] = c[k]
  BY <1>1 DEF Restrict
<1>4. Cluster = Merged(old, new)
  BY DEF Cluster
<1> HIDE DEF avg, pct, old
<1>5. DOMAIN new = {"util_avg", "mem_used_pct"} /\ new.util_avg = avg /\ new.mem_used_pct = pct
  OBVIOUS
<1> HIDE DEF new
<1>6. /\ DOMAIN Cluster = shown \cup {"util_avg", "mem_used_pct"}
      /\ \A k \in shown : Cluster[k] = c[k]
      /\ Cluster.util_avg = avg /\ Cluster.mem_used_pct = pct
  BY <1>3, <1>4, <1>5 DEF Merged
<1> QED BY <1>1, <1>2, <1>6 DEF SUMMARY_METRICS, avg, pct

LEMMA CpuCluster ==
  ASSUME RowInv, cmd = "cpu"
  PROVE  /\ DOMAIN Cluster = SUMMARY_METRICS.cpu
         /\ \A k \in {"cpus_total", "cpus_alloc", "cpus_idle", "sockets"} : Cluster[k] = c[k]
         /\ Cluster.alloc_pct = Percent(c.cpus_alloc, c.cpus_total)
         /\ Cluster.load = Average(c.load, c.nodes)
         /\ \A k \in DOMAIN Cluster : Cluster[k] \in Nat
<1> DEFINE shown == {"cpus_total", "cpus_alloc", "cpus_idle", "sockets"}
           avg == Average(c.load, c.nodes)
           pct == Percent(c.cpus_alloc, c.cpus_total)
           new == [alloc_pct |-> pct, load |-> avg]
           old == Restrict(c, DOMAIN c \ {"nodes"})
<1>1. c \in [shown \cup {"nodes", "load"} -> Nat]
  BY DEF RowInv, Added, Highest
<1>2. avg \in Nat /\ pct \in Nat
  <2>1. c.load \in Nat /\ c.nodes \in Nat /\ c.cpus_alloc \in Nat /\ c.cpus_total \in Nat
    BY <1>1
  <2> QED BY <2>1, AverageNat, PercentNat
<1>3. DOMAIN old = shown \cup {"load"} /\ \A k \in shown : old[k] = c[k]
  BY <1>1 DEF Restrict
<1>4. Cluster = Merged(old, new)
  BY DEF Cluster
<1> HIDE DEF avg, pct, old
<1>5. DOMAIN new = {"alloc_pct", "load"} /\ new.alloc_pct = pct /\ new.load = avg
  OBVIOUS
<1> HIDE DEF new
<1>6. /\ DOMAIN Cluster = shown \cup {"alloc_pct", "load"}
      /\ \A k \in shown : Cluster[k] = c[k]
      /\ Cluster.alloc_pct = pct /\ Cluster.load = avg
  BY <1>3, <1>4, <1>5 DEF Merged
<1> QED BY <1>1, <1>2, <1>6 DEF SUMMARY_METRICS, avg, pct

LEMMA MemCluster ==
  ASSUME RowInv, cmd = "mem"
  PROVE  /\ DOMAIN Cluster = SUMMARY_METRICS.mem
         /\ \A k \in Added.mem : Cluster[k] = c[k]
         /\ Cluster.os_used_pct = Percent(c.os_total_gb - c.os_avail_gb, c.os_total_gb)
         /\ Cluster.slurm_alloc_pct = Percent(c.slurm_alloc_gb, c.slurm_real_gb)
         /\ \A k \in DOMAIN Cluster : Cluster[k] \in Nat
<1> DEFINE used == Percent(c.os_total_gb - c.os_avail_gb, c.os_total_gb)
           pct  == Percent(c.slurm_alloc_gb, c.slurm_real_gb)
           new  == [os_used_pct |-> used, slurm_alloc_pct |-> pct]
<1>1. c \in [Added.mem -> Nat]
  <2>1. Added.mem \cup Highest.mem = Added.mem
    BY DEF Highest
  <2> QED BY <2>1 DEF RowInv
<1>2. {"os_total_gb", "os_avail_gb", "slurm_real_gb", "slurm_alloc_gb"} \subseteq Added.mem
  BY DEF Added
<1>3. c.os_avail_gb <= c.os_total_gb
  <2> DEFINE a == ColumnOf("os_avail_gb")
             t == ColumnOf("os_total_gb")
  <2>1. c.os_avail_gb = SumAt(a, Taken) /\ c.os_total_gb = SumAt(t, Taken)
    BY <1>2 DEF RowInv
  <2>2. {"os_avail_gb", "os_total_gb"} \subseteq RowKeys[cmd]
    BY DEF RowKeys, COLUMNS
  <2>3. ASSUME NEW n \in Taken PROVE a[n] \in Int /\ t[n] \in Int /\ a[n] <= t[n]
    <3>1. /\ a[n] \in Nat /\ a[n] = RowOf(n).os_avail_gb
          /\ t[n] \in Nat /\ t[n] = RowOf(n).os_total_gb
      BY <2>2, TakenRows
    <3>2. state[n] \in Answer("mem")
      BY TakenRows, RowOfType
    <3>3. /\ RowOf(n).os_avail_gb = Number(state[n], "os_memavailable_mb")
          /\ RowOf(n).os_total_gb = Number(state[n], "os_memtotal_mb")
      BY DEF RowOf, Row, MemRow
    <3> QED BY <3>1, <3>2, <3>3, HalvesNumbers
  <2> HIDE DEF a, t
  <2>4. SumAt(a, Taken) <= SumAt(t, Taken)
    BY <2>3, TakenRows, SumAtMost
  <2> QED BY <2>1, <2>4
<1>4. used \in Nat /\ pct \in Nat
  <2> DEFINE t == c.os_total_gb
             d == c.os_total_gb - c.os_avail_gb
  <2>1. /\ t \in Nat /\ d \in Nat /\ c.slurm_alloc_gb \in Nat /\ c.slurm_real_gb \in Nat
    BY <1>1, <1>2, <1>3
  <2> HIDE DEF t, d
  <2>2. Percent(d, t) \in Nat /\ pct \in Nat
    BY <2>1, PercentNat
  <2> QED BY <2>2 DEF d, t
<1>5. Cluster = Merged(c, new)
  BY DEF Cluster
<1> HIDE DEF used, pct
<1>6. DOMAIN new = {"os_used_pct", "slurm_alloc_pct"} /\ new.os_used_pct = used
      /\ new.slurm_alloc_pct = pct
  OBVIOUS
<1> HIDE DEF new
<1>7. Added.mem \cap {"os_used_pct", "slurm_alloc_pct"} = {}
  BY DEF Added
<1>8. /\ DOMAIN Cluster = Added.mem \cup {"os_used_pct", "slurm_alloc_pct"}
      /\ \A k \in Added.mem : Cluster[k] = c[k]
      /\ Cluster.os_used_pct = used /\ Cluster.slurm_alloc_pct = pct
  BY <1>1, <1>5, <1>6, <1>7 DEF Merged
<1>9. SUMMARY_METRICS.mem = Added.mem \cup {"os_used_pct", "slurm_alloc_pct"}
  BY DEF SUMMARY_METRICS, Added
<1> QED BY <1>1, <1>4, <1>8, <1>9 DEF used, pct

LEMMA NetCluster ==
  ASSUME RowInv, cmd = "net"
  PROVE  /\ DOMAIN Cluster = SUMMARY_METRICS.net
         /\ Cluster = c
         /\ \A k \in DOMAIN Cluster : Cluster[k] \in Nat
<1>1. Cluster = c
  BY DEF Cluster
<1> QED BY <1>1 DEF RowInv, SUMMARY_METRICS, Added, Highest

LEMMA ClusterType ==
  ASSUME RowInv
  PROVE  DOMAIN Cluster = SUMMARY_METRICS[cmd] /\ \A k \in DOMAIN Cluster : Cluster[k] \in Nat
BY GpuCluster, CpuCluster, MemCluster, NetCluster DEF RowInv, TotalCommand

\* A row shows the cluster's keys, the count of degraded nodes apart.
LEMMA ShownType ==
  ASSUME RowInv, NEW n \in Taken
  PROVE  /\ rows[n] \in [SUMMARY_METRICS[cmd] \ {"nodes_degraded"} -> Nat]
         /\ \A k \in SUMMARY_METRICS[cmd] \ {"nodes_degraded"} : rows[n][k] = RowOf(n)[k]
<1> DEFINE keys == SUMMARY_METRICS[cmd] \ {"nodes_degraded"}
<1>1. RowKeys[cmd] \ HiddenKeys = keys
  <2>1. CASE cmd = "gpu"
    BY <2>1 DEF RowKeys, SUMMARY_METRICS, COLUMNS, HiddenKeys
  <2>2. CASE cmd = "cpu"
    BY <2>2 DEF RowKeys, SUMMARY_METRICS, COLUMNS, HiddenKeys
  <2>3. CASE cmd = "mem"
    BY <2>3 DEF RowKeys, SUMMARY_METRICS, COLUMNS, HiddenKeys
  <2>4. CASE cmd = "net"
    BY <2>4 DEF RowKeys, SUMMARY_METRICS, COLUMNS, HiddenKeys
  <2> QED BY <2>1, <2>2, <2>3, <2>4 DEF RowInv, TotalCommand
<1>2. /\ DOMAIN RowOf(n) = RowKeys[cmd]
      /\ \A k \in RowKeys[cmd] : RowOf(n)[k] \in Nat
  BY TakenRows, RowOfType
<1>3. rows[n] = Shown(RowOf(n))
  BY DEF RowInv
<1> HIDE DEF keys
<1>4. rows[n] = [k \in keys |-> RowOf(n)[k]] /\ keys \subseteq RowKeys[cmd]
  BY <1>1, <1>2, <1>3 DEF Shown, Restrict
<1> QED BY <1>2, <1>4 DEF keys
-----------------------------------------------------------------------------
(* Types. *)

\* By their keys the dictionaries are those that the polls of NodePoll return.
LEMMA KeysOfOne ==
  ASSUME NEW m \in {"gpu", "net"}, NEW d \in Answer(m)
  PROVE  \E r \in Reply : ~ Raises(m, r) /\ KeysOf(m, d) = HardwareKeys(m, r)
<1> DEFINE mark == IF "error" \notin DOMAIN d /\ Listed(m, d) # <<>> THEN {"entry"} ELSE {}
<1>1. DOMAIN d \cap (LscpuKeys \cup MeminfoKeys) = {} =>
        KeysOf(m, d) = (DOMAIN d \cap Key) \cup mark
  BY DEF KeysOf, AsksSlurm
<1>2. CASE "error" \in DOMAIN d
  <2>1. DOMAIN d = {"error"}
    <3>1. d = NoAnswer \/ (\E x : d = GpuData(x)) \/ (\E x : d = NetData(x))
      BY DEF Answer, PollNode, AsksSlurm, Halves
    <3>2. \A x : "error" \notin DOMAIN GpuData(x) /\ "error" \notin DOMAIN NetData(x)
      BY DEF GpuData, NetData
    <3> QED BY <1>2, <3>1, <3>2 DEF NoAnswer
  <2>2. KeysOf(m, d) = {"error"}
    BY <1>1, <2>1 DEF Key, LscpuKeys, MeminfoKeys
  <2>3. "nonzero" \in Reply /\ ~ Raises(m, "nonzero") /\ HardwareKeys(m, "nonzero") = {"error"}
    BY DEF Reply, Raises, HardwareKeys, SshPoll
  <2> QED BY <2>2, <2>3
<1>3. CASE "error" \notin DOMAIN d
  <2>1. DOMAIN d = IF m = "gpu" THEN {"gpus"} ELSE {"ports", "netdevs"}
    BY <1>3, GpuAnswer, NetAnswer
  <2>2. KeysOf(m, d) = DOMAIN d \cup mark
    <3> HIDE DEF mark
    <3> QED BY <1>1, <2>1 DEF Key, LscpuKeys, MeminfoKeys
  <2> DEFINE r == IF mark = {} THEN "blank" ELSE "good"
  <2>3. r \in Reply /\ ~ Raises(m, r) /\ SshPoll(r) = {} /\ Entries(r) = mark
    BY DEF Reply, Raises, SshPoll, Entries
  <2>4. HardwareKeys(m, r) = DOMAIN d \cup mark
    <3> HIDE DEF r, mark
    <3> QED BY <2>1, <2>3 DEF HardwareKeys, ParseGpu, ParseNet
  <2> QED BY <2>2, <2>3, <2>4
<1> QED BY <1>2, <1>3

LEMMA KeysOfHalves ==
  ASSUME NEW m \in {"cpu", "mem"}, NEW d \in Answer(m)
  PROVE  \E r \in Reply : \E t \in SlurmReply :
           ~ Raises(m, r) /\ KeysOf(m, d) = HardwareKeys(m, r) \cup QueryNodeState(t)
<1>1. PICK h, s :
        /\ d = Merged(h, s)
        /\ \/ h = NoAnswer
           \/ m = "cpu" /\ \E x \in Hardware.cpu : h = CpuData(x)
           \/ m = "mem" /\ \E x \in Hardware.mem : h = MemData(x)
        /\ s \in {NotInSlurm, SlurmFailed} \/ \E x \in Scheduler[m] : s = SlurmData(m, x)
  BY HalvesAnswer
<1> DEFINE hw  == LscpuKeys \cup MeminfoKeys
           own == SlurmKeys[m]
<1>2. DOMAIN d = DOMAIN h \cup DOMAIN s
  BY <1>1 DEF Merged
<1>3. DOMAIN h = {"error"} \/ DOMAIN h \subseteq HardwareKey[m]
  BY <1>1, HardwareNumbers
<1>4. DOMAIN s \in {{"slurm_status"}, {"slurm_error"}} \/ DOMAIN s \subseteq own
  BY <1>1, SlurmNumbers
<1>5. /\ HardwareKey[m] \subseteq hw
      /\ hw \cap own = {} /\ (hw \cup own) \cap Key = {}
      /\ {"error", "slurm_status", "slurm_error"} \subseteq Key
  <2>1. CASE m = "cpu"
    BY <2>1 DEF HardwareKey, LscpuKeys, MeminfoKeys, SlurmKeys, Key
  <2>2. CASE m = "mem"
    BY <2>2 DEF HardwareKey, LscpuKeys, MeminfoKeys, SlurmKeys, Key
  <2> QED BY <2>1, <2>2
<1>6. KeysOf(m, d) = (DOMAIN d \cap Key) \cup (IF DOMAIN d \cap hw # {} THEN {"hw"} ELSE {})
                                         \cup (IF DOMAIN d \cap own # {} THEN {"slurm"} ELSE {})
  BY DEF KeysOf, Listed, AsksSlurm
<1> DEFINE H == IF DOMAIN h = {"error"} THEN {"error"} ELSE IF DOMAIN h = {} THEN {} ELSE {"hw"}
           S == IF DOMAIN s \in {{"slurm_status"}, {"slurm_error"}} THEN DOMAIN s
                ELSE IF DOMAIN s = {} THEN {} ELSE {"slurm"}
<1> HIDE DEF hw, own
<1>7. KeysOf(m, d) = H \cup S
  <2>1. /\ (DOMAIN h \cap Key) \cup (IF DOMAIN h \cap hw # {} THEN {"hw"} ELSE {}) = H
        /\ DOMAIN h \cap own = {}
    BY <1>3, <1>5
  <2>2. /\ (DOMAIN s \cap Key) \cup (IF DOMAIN s \cap own # {} THEN {"slurm"} ELSE {}) = S
        /\ DOMAIN s \cap hw = {}
    BY <1>4, <1>5
  <2> HIDE DEF H, S
  <2>3. /\ DOMAIN d \cap hw = DOMAIN h \cap hw /\ DOMAIN d \cap own = DOMAIN s \cap own
        /\ DOMAIN d \cap Key = (DOMAIN h \cap Key) \cup (DOMAIN s \cap Key)
    BY <1>2, <2>1, <2>2
  <2> QED BY <1>6, <2>1, <2>2, <2>3
<1>8. \E r \in Reply : ~ Raises(m, r) /\ H = HardwareKeys(m, r)
  <2>1. ~ Raises(m, "nonzero") /\ ~ Raises(m, "good") /\ ~ Raises(m, "blank")
    BY DEF Raises
  <2>2. /\ HardwareKeys(m, "nonzero") = {"error"} /\ HardwareKeys(m, "good") = {"hw"}
        /\ HardwareKeys(m, "blank") = {}
    BY DEF HardwareKeys, SshPoll, ParseCpu, ParseMem
  <2>3. H \in {{"error"}, {"hw"}, {}}
    OBVIOUS
  <2> HIDE DEF H
  <2> QED BY <2>1, <2>2, <2>3 DEF Reply
<1>9. \E t \in SlurmReply : S = QueryNodeState(t)
  <2>1. S \in {{"slurm"}, {}, {"slurm_status"}, {"slurm_error"}}
    OBVIOUS
  <2>2. /\ QueryNodeState("fields") = {"slurm"} /\ QueryNodeState("nonzero") = {"slurm_status"}
        /\ QueryNodeState("exception") = {"slurm_error"} /\ QueryNodeState("blank") = {}
    BY DEF QueryNodeState
  <2> HIDE DEF S
  <2> QED BY <2>1, <2>2 DEF SlurmReply
<1> HIDE DEF H, S
<1> QED BY <1>7, <1>8, <1>9

LEMMA PolledKeys ==
  ASSUME NEW m \in TotalCommand, NEW d \in Answer(m), NEW n
  PROVE  [node |-> n, keys |-> KeysOf(m, d)] \in PollResult(m, n)
<1> DEFINE R == {q \in Reply : ~ Raises(m, q)}
           S == IF AsksSlurm(m) THEN {QueryNodeState(t) : t \in SlurmReply} ELSE {{}}
           k == KeysOf(m, d)
<1>1. \E r \in R : \E s \in S : k = HardwareKeys(m, r) \cup s
  <2>1. CASE m \in {"gpu", "net"}
    <3>1. S = {{}}
      BY <2>1 DEF AsksSlurm
    <3>2. \E r \in R : k = HardwareKeys(m, r)
      BY <2>1, KeysOfOne
    <3> HIDE DEF R, S, k
    <3>3. {} \in S /\ \A x : x \cup {} = x
      BY <3>1
    <3> QED BY <3>2, <3>3
  <2>2. CASE m \in {"cpu", "mem"}
    <3>1. S = {QueryNodeState(t) : t \in SlurmReply}
      BY <2>2 DEF AsksSlurm
    <3>2. \E r \in R : \E t \in SlurmReply : k = HardwareKeys(m, r) \cup QueryNodeState(t)
      BY <2>2, KeysOfHalves
    <3> HIDE DEF R, S, k
    <3> QED BY <3>1, <3>2
  <2> QED BY <2>1, <2>2 DEF TotalCommand
<1>2. PollResult(m, n) = [node : {n}, keys : {HardwareKeys(m, r) \cup s : r \in R, s \in S}]
  BY DEF PollResult
<1> HIDE DEF R, S, k
<1>3. [node |-> n, keys |-> k] \in PollResult(m, n)
  BY <1>1, <1>2
<1> QED BY <1>3 DEF k

\* Rows, accumulators and percentages are natural numbers after any number of
\* nodes, under the same keys whatever the nodes answered, and the dictionaries
\* are by their keys those that poll_node returns.
THEOREM WellTyped == Spec => []TypeOK
<1>1. ASSUME RowInv PROVE TypeOK
  <2>1. cmd \in TotalCommand /\ c \in [Added[cmd] \cup Highest[cmd] -> Nat]
    BY <1>1 DEF RowInv
  <2>2. \A n \in Node : [node |-> n, keys |-> KeysOf(cmd, state[n])] \in PollResult(cmd, n)
    BY <1>1, PolledKeys DEF RowInv
  <2>3. left \subseteq Node /\ Taken \subseteq Node \ left
    BY <1>1 DEF RowInv, WithRow
  <2>4. \A n \in Taken : rows[n] \in [DOMAIN Cluster \ {"nodes_degraded"} -> Nat]
    BY <1>1, ShownType, ClusterType
  <2> QED BY <2>1, <2>2, <2>3, <2>4 DEF TypeOK
<1> QED BY <1>1, RowInvariant, PTL

\* The tables of columns and metrics fit the rows of the nodes and the cluster.
THEOREM TablesAlwaysFit == Spec => []TablesFit
<1>1. ASSUME RowInv PROVE TablesFit
  <2>1. cmd \in Commands /\ COLUMNS[cmd] \subseteq SUMMARY_METRICS[cmd] \ {"nodes_degraded"}
    <3>1. cmd \in Commands
      BY <1>1 DEF RowInv, TotalCommand, Commands
    <3>2. "nodes_degraded" \notin COLUMNS[cmd]
      BY <3>1 DEF COLUMNS, Commands
    <3> QED BY <3>1, <3>2, ColumnsHaveMetrics
  <2>2. ASSUME NEW row \in Range(rows) \cup {Cluster}
        PROVE  COLUMNS[cmd] \subseteq DOMAIN row /\ \A k \in COLUMNS[cmd] : row[k] \in Nat
    <3>1. CASE row \in Range(rows)
      <4>1. PICK n \in Taken : row = rows[n]
        BY <3>1 DEF Range, Taken
      <4> QED BY <1>1, <2>1, <4>1, ShownType
    <3>2. CASE row = Cluster
      BY <1>1, <2>1, <3>2, ClusterType
    <3> QED BY <3>1, <3>2
  <2>3. \A x \in Nat : x # Blank
    BY DEF Blank
  <2>4. SUMMARY_METRICS[cmd] \subseteq DOMAIN Cluster
    BY <1>1, ClusterType
  <2>5. ASSUME NEW C, C = Cluster PROVE SummaryViewsAgree(cmd, rows, C)
    BY <2>1, <2>2, <2>3, <2>4, <2>5, RowsFit
  <2> QED BY <2>5 DEF TablesFit
<1> QED BY <1>1, RowInvariant, PTL

\* The CSV and the Prometheus output of gpu, cpu, mem and net never contradict
\* each other about a node, whatever its poll returned.
THEOREM FormatsAgreed == Spec => []FormatsAgree
<1>1. RowInv => FormatsAgree
  BY ViewsAgreeAlways DEF FormatsAgree, RowInv, TotalCommand, Commands
<1> QED BY <1>1, RowInvariant, PTL

\* No two samples of a metric have the same labels, but for two ports of one
\* device with one netdev and link layer.
THEOREM NodeSeriesDistinct == Spec => []SeriesDistinct
<1>1. ASSUME RowInv PROVE SeriesDistinct
  <2> SUFFICES ASSUME NEW n \in Node, NEW d, d = state[n],
                      cmd = "net" /\ "error" \notin DOMAIN d =>
                        IsInjective([i \in DOMAIN d.ports |-> NetLabels(d, i)])
               PROVE  OneSamplePerSeries(cmd, d)
    BY DEF SeriesDistinct
  <2>1. cmd \in TotalCommand /\ cmd \in Commands /\ d \in Answer(cmd)
    BY <1>1 DEF RowInv, TotalCommand, Commands
  <2>2. CASE "error" \in DOMAIN d
    BY <2>2 DEF OneSamplePerSeries, Samples
  <2>3. CASE "error" \notin DOMAIN d
    <3>1. \A i, j \in DOMAIN Parts(cmd, d) : Labels(cmd, d, i) = Labels(cmd, d, j) => i = j
      <4>1. CASE cmd = "gpu"
        <5>1. \A i, j \in DOMAIN d.gpus : d.gpus[i].index = d.gpus[j].index => i = j
          BY <2>1, <2>3, <4>1, GpuAnswer
        <5> QED BY <4>1, <5>1 DEF Parts, Labels, GpuLabels
      <4>2. CASE cmd \in {"cpu", "mem"}
        <5>1. Parts(cmd, d) = <<d>>
          BY <4>2 DEF Parts
        <5>2. DOMAIN Parts(cmd, d) = 1 .. 1
          BY <5>1
        <5> QED BY <5>2
      <4>3. CASE cmd = "net"
        <5>1. \A i, j \in DOMAIN d.ports : NetLabels(d, i) = NetLabels(d, j) => i = j
          BY <2>3, <4>3 DEF IsInjective
        <5> QED BY <4>3, <5>1 DEF Parts, Labels
      <4> QED BY <2>1, <4>1, <4>2, <4>3 DEF TotalCommand
    <3> QED BY <2>1, <3>1, LabelsDistinct
  <2> QED BY <2>2, <2>3
<1> QED BY <1>1, RowInvariant, PTL
-----------------------------------------------------------------------------
(* Half answers. *)

\* An accumulator is the sum of a field over the nodes that have it, when the
\* others add nothing.
LEMMA AddedOver ==
  ASSUME RowInv, NEW S \in SUBSET Taken, NEW k \in Added[cmd], NEW key,
         \A n \in S : RowOf(n)[k] = Number(state[n], key),
         \A n \in Taken \ S : RowOf(n)[k] = 0
  PROVE  /\ c[k] = SumAt([n \in S |-> Number(state[n], key)], S)
         /\ c[k] \in Nat
<1> DEFINE f == ColumnOf(k)
           g == [n \in S |-> Number(state[n], key)]
<1>1. k \in RowKeys[cmd] /\ c[k] = SumAt(f, Taken) /\ c[k] \in Nat
  BY KeysAdded DEF RowInv
<1>2. IsFiniteSet(Taken) /\ \A n \in Taken : f[n] \in Nat /\ f[n] = RowOf(n)[k]
  BY <1>1, TakenRows
<1>3. \A n \in S : f[n] = g[n] /\ g[n] \in Int
  BY <1>2
<1> HIDE DEF f, g
<1>4. SumAt(f, Taken) = SumAt(f, S)
  <2>1. \A n \in Taken : f[n] \in Int
    BY <1>2
  <2>2. \A n \in Taken \ S : f[n] = 0
    BY <1>2
  <2> QED BY <1>2, <2>1, <2>2, SumSupport
<1>5. SumAt(f, S) = SumAt(g, S)
  BY <1>2, <1>3, FS_Subset, SumSame
<1> QED BY <1>1, <1>4, <1>5 DEF g

\* The sum of a field over nodes.
Across(S, k) == SumAt([n \in S |-> Number(state[n], k)], S)

\* Over two sets of nodes with nothing in common it is the sum of both.
LEMMA AcrossSplit ==
  ASSUME NEW S, IsFiniteSet(S), NEW T \in SUBSET S, NEW k,
         \A n \in S : Number(state[n], k) \in Nat
  PROVE  /\ Across(S, k) = Across(T, k) + Across(S \ T, k)
         /\ Across(S, k) \in Nat /\ Across(T, k) \in Nat /\ Across(S \ T, k) \in Nat
<1> DEFINE f == [n \in S |-> Number(state[n], k)]
           R == S \ T
<1>1. IsFiniteSet(T) /\ IsFiniteSet(R) /\ T \cap R = {} /\ T \cup R = S
  BY FS_Subset, FS_Difference
<1>2. \A n \in S : f[n] \in Nat
  OBVIOUS
<1>3. ASSUME NEW Q \in SUBSET S, IsFiniteSet(Q)
      PROVE  Across(Q, k) = SumAt(f, Q) /\ SumAt(f, Q) \in Nat
  <2> DEFINE g == [n \in Q |-> Number(state[n], k)]
  <2>1. \A n \in Q : g[n] \in Int /\ g[n] = f[n] /\ f[n] \in Nat
    BY <1>2
  <2> HIDE DEF f, g
  <2> QED BY <1>3, <2>1, SumSame, SumNat DEF Across, g
<1>4. R \in SUBSET S /\ S \in SUBSET S
  OBVIOUS
<1> HIDE DEF f, R
<1>5. SumAt(f, S) = SumAt(f, T) + SumAt(f, R)
  <2>1. \A n \in T \cup R : f[n] \in Int
    BY <1>1, <1>2
  <2>2. SumAt(f, T \cup R) = SumAt(f, T) + SumAt(f, R)
    BY <1>1, <2>1, SumUnion
  <2> QED BY <1>1, <2>2
<1> QED BY <1>1, <1>3, <1>4, <1>5 DEF R

\* An accumulator is the sum of a field over all nodes but those without it.
LEMMA AddedAcross ==
  ASSUME RowInv, NEW S \in SUBSET Taken, NEW k \in Added[cmd], NEW key,
         \A n \in Taken : RowOf(n)[k] = Number(state[n], key),
         \A n \in Taken \ S : Number(state[n], key) = 0
  PROVE  c[k] = Across(S, key) /\ c[k] \in Nat
<1>1. /\ \A n \in S : RowOf(n)[k] = Number(state[n], key)
      /\ \A n \in Taken \ S : RowOf(n)[k] = 0
  OBVIOUS
<1> QED BY <1>1, AddedOver DEF Across

\* An error takes the place of every field of its half.
LEMMA ErrorHasNoFields ==
  ASSUME RowInv, cmd \in {"cpu", "mem"}, NEW n \in Taken, NEW k
  PROVE  /\ Number(state[n], k) # 0 => k \in DOMAIN state[n] /\ Has(n, k)
         /\ k \in NumericKeys[cmd] => Number(state[n], k) \in Nat
         /\ k \in SlurmKeys[cmd] /\ {"slurm_error", "slurm_status"} \cap DOMAIN state[n] # {} =>
              k \notin DOMAIN state[n] /\ Number(state[n], k) = 0
         /\ k \in HardwareKey[cmd] /\ "error" \in DOMAIN state[n] => Number(state[n], k) = 0
         /\ cmd = "mem" => Number(state[n], "os_memavailable_mb")
                             <= Number(state[n], "os_memtotal_mb")
<1>1. state[n] \in Answer(cmd)
  BY TakenRows, RowOfType
<1>2. k \notin DOMAIN state[n] => Number(state[n], k) = 0
  BY DEF Number, NumberOr
<1>3. Number(state[n], k) # 0 => k \in DOMAIN state[n] /\ Has(n, k)
  BY DEF Number, NumberOr, Has
<1> QED BY <1>1, <1>2, <1>3, HalvesNumbers

\* The other half of an answer does not reach the percentages of memory, and a
\* node that does not give MemAvailable counts as full.
LEMMA MemoryApart ==
  ASSUME RowInv, cmd = "mem" PROVE HalvesDoNotMix
<1> DEFINE failed   == {"slurm_error", "slurm_status"}
           answered == {n \in Taken : "error" \notin DOMAIN state[n]}
           slurm    == {n \in Taken : failed \cap DOMAIN state[n] = {}}
           whole    == {n \in answered : Has(n, "os_memavailable_mb")}
           rest     == answered \ whole
           T        == "os_memtotal_mb"
           A        == "os_memavailable_mb"
<1>1. {"os_total_gb", "os_avail_gb", "slurm_real_gb", "slurm_alloc_gb"} \subseteq Added[cmd]
  BY DEF Added
<1>2. /\ {T, A} \subseteq HardwareKey[cmd] \cap NumericKeys[cmd]
      /\ {"slurm_realmemory", "slurm_allocmem"} \subseteq SlurmKeys[cmd]
  BY DEF HardwareKey, NumericKeys, MeminfoKeys, SlurmKeys
<1>3. ASSUME NEW n \in Taken
      PROVE  /\ RowOf(n).os_total_gb = Number(state[n], T)
             /\ RowOf(n).os_avail_gb = Number(state[n], A)
             /\ RowOf(n).slurm_real_gb = Number(state[n], "slurm_realmemory")
             /\ RowOf(n).slurm_alloc_gb = Number(state[n], "slurm_allocmem")
             /\ n \notin slurm => /\ Number(state[n], "slurm_realmemory") = 0
                                  /\ Number(state[n], "slurm_allocmem") = 0
             /\ n \notin answered => Number(state[n], T) = 0 /\ Number(state[n], A) = 0
             /\ n \in rest => Number(state[n], A) = 0
             /\ Number(state[n], T) \in Nat /\ Number(state[n], A) \in Nat
             /\ Number(state[n], A) <= Number(state[n], T)
  <2>1. RowOf(n) = MemRow(state[n])
    BY DEF RowOf, Row
  <2> QED BY <1>2, <2>1, ErrorHasNoFields DEF MemRow
<1>4. /\ IsFiniteSet(Taken) /\ slurm \in SUBSET Taken /\ answered \in SUBSET Taken
      /\ whole \in SUBSET answered /\ rest \in SUBSET answered
  BY TakenRows
<1>5. IsFiniteSet(answered) /\ IsFiniteSet(whole) /\ IsFiniteSet(rest)
  BY <1>4, FS_Subset
<1> DEFINE aw == Across(whole, A)
           tw == Across(whole, T)
           tr == Across(rest, T)
           ta == Across(answered, T)
<1> HIDE DEF slurm, answered, whole, rest
<1>6. /\ c.slurm_alloc_gb = Across(slurm, "slurm_allocmem")
      /\ c.slurm_real_gb = Across(slurm, "slurm_realmemory")
  <2>1. "slurm_alloc_gb" \in Added[cmd] /\ "slurm_real_gb" \in Added[cmd]
    BY <1>1
  <2>2. c.slurm_alloc_gb = Across(slurm, "slurm_allocmem")
    BY <1>3, <1>4, <2>1, AddedAcross
  <2>3. c.slurm_real_gb = Across(slurm, "slurm_realmemory")
    BY <1>3, <1>4, <2>1, AddedAcross
  <2> QED BY <2>2, <2>3
<1>7. c.os_total_gb = ta /\ c.os_avail_gb = Across(answered, A)
  BY <1>1, <1>3, <1>4, AddedAcross
<1>8. ta = tw + tr /\ tw \in Nat /\ tr \in Nat
  BY <1>3, <1>4, <1>5, AcrossSplit DEF rest
<1>9. Across(answered, A) = aw /\ aw \in Nat
  <2>1. Across(answered, A) = aw + Across(rest, A) /\ aw \in Nat
    BY <1>3, <1>4, <1>5, AcrossSplit DEF rest
  <2>2. Across(rest, A) = 0
    <3> DEFINE f == [n \in rest |-> Number(state[n], A)]
    <3>1. \A n \in rest : f[n] = 0
      BY <1>3, <1>4
    <3> HIDE DEF f
    <3>2. SumAt(f, rest) = 0
      BY <1>5, <3>1, SumZeros
    <3> QED BY <3>2 DEF Across, f
  <2> HIDE DEF aw
  <2> QED BY <2>1, <2>2
<1>10. aw <= tw
  <2> DEFINE f == [n \in whole |-> Number(state[n], A)]
             g == [n \in whole |-> Number(state[n], T)]
  <2>1. \A n \in whole : f[n] \in Int /\ g[n] \in Int /\ f[n] <= g[n]
    BY <1>3, <1>4
  <2> HIDE DEF f, g
  <2>2. SumAt(f, whole) <= SumAt(g, whole)
    BY <1>5, <2>1, SumAtMost
  <2> QED BY <2>2 DEF Across, f, g
<1>11. /\ Cluster.slurm_alloc_pct = Percent(c.slurm_alloc_gb, c.slurm_real_gb)
       /\ Cluster.os_used_pct = Percent(c.os_total_gb - c.os_avail_gb, c.os_total_gb)
  BY MemCluster
<1> HIDE DEF aw, tw, tr, ta
<1>12. /\ tw - aw \in Nat /\ tw - aw <= tw /\ (tw + tr) - aw = (tw - aw) + tr
  BY <1>8, <1>9, <1>10
<1>13. /\ Cluster.os_used_pct = Percent((tw - aw) + tr, ta)
       /\ ta = tw + tr
  BY <1>7, <1>8, <1>9, <1>11, <1>12
<1>14. Percent(tw - aw, tw) <= Percent((tw - aw) + tr, tw + tr)
  BY <1>8, <1>12, PercentOfFuller
<1>15. /\ Percent(tw - aw, tw) \in Nat /\ Cluster.os_used_pct \in Nat
  <2> DEFINE u == tw - aw
             v == u + tr
             w == tw + tr
  <2>1. u \in Nat /\ v \in Nat /\ w \in Nat
    BY <1>8, <1>12
  <2>2. Cluster.os_used_pct = Percent(v, w)
    BY <1>13
  <2> HIDE DEF u, v, w
  <2>3. Percent(u, tw) \in Nat /\ Percent(v, w) \in Nat
    BY <1>8, <2>1, PercentNat
  <2> QED BY <2>2, <2>3 DEF u
<1>16. Cluster.os_used_pct >= Percent(tw - aw, tw)
  BY <1>13, <1>14, <1>15
<1> QED BY <1>6, <1>11, <1>13, <1>16
        DEF HalvesDoNotMix, Across, aw, tw, tr, ta, rest, whole, answered, slurm

\* The other half of an answer does not reach the percentage of the CPUs, and a
\* node that only lscpu counts has nothing allocated.
LEMMA ProcessorsApart ==
  ASSUME RowInv, cmd = "cpu" PROVE HalvesDoNotMix
<1> DEFINE failed  == {"slurm_error", "slurm_status"}
           slurm   == {n \in Taken : failed \cap DOMAIN state[n] = {}}
           counted == {n \in slurm : "slurm_cputot" \in DOMAIN state[n]}
           others  == Taken \ counted
           alloc   == Across(slurm, "slurm_alloccpus")
           total   == Across(counted, "slurm_cputot")
           own     == Across(others, "cpus")
           f       == ColumnOf("cpus_total")
<1>1. "cpus_total" \in Added[cmd] /\ "cpus_alloc" \in Added[cmd] /\ "cpus_total" \in RowKeys[cmd]
  <2>1. "cpus_total" \in Added[cmd] /\ "cpus_alloc" \in Added[cmd]
    BY DEF Added
  <2> QED BY <2>1, KeysAdded DEF RowInv
<1>2. /\ {"slurm_cputot", "slurm_alloccpus"} \subseteq SlurmKeys[cmd] \cap NumericKeys[cmd]
      /\ "cpus" \in NumericKeys[cmd]
  BY DEF NumericKeys, SlurmKeys
<1>3. ASSUME NEW n \in Taken
      PROVE  /\ RowOf(n).cpus_alloc = Number(state[n], "slurm_alloccpus")
             /\ RowOf(n).cpus_total = IF n \in counted THEN Number(state[n], "slurm_cputot")
                                      ELSE Number(state[n], "cpus")
             /\ n \notin slurm => Number(state[n], "slurm_alloccpus") = 0
             /\ Number(state[n], "slurm_cputot") \in Nat
             /\ Number(state[n], "slurm_alloccpus") \in Nat
             /\ Number(state[n], "cpus") \in Nat
  <2>1. RowOf(n) = CpuRow(state[n])
    BY DEF RowOf, Row
  <2>2. n \in counted <=> "slurm_cputot" \in DOMAIN state[n]
    BY <1>2, ErrorHasNoFields
  <2> QED BY <1>2, <2>1, <2>2, ErrorHasNoFields DEF CpuRow, CpuCount
<1>4. /\ IsFiniteSet(Taken) /\ slurm \in SUBSET Taken /\ counted \in SUBSET Taken
      /\ others \in SUBSET Taken /\ counted \cap others = {} /\ counted \cup others = Taken
  BY TakenRows
<1>5. IsFiniteSet(slurm) /\ IsFiniteSet(counted) /\ IsFiniteSet(others)
  BY <1>4, FS_Subset
<1>6. \A n \in Taken : f[n] \in Nat /\ f[n] = RowOf(n).cpus_total
  BY <1>1, TakenRows
<1>7. c.cpus_total = SumAt(f, Taken)
  BY <1>1 DEF RowInv
<1> HIDE DEF slurm, counted, others, f
<1>8. c.cpus_alloc = alloc /\ alloc \in Nat
  <2>1. /\ \A n \in Taken : RowOf(n).cpus_alloc = Number(state[n], "slurm_alloccpus")
        /\ \A n \in Taken \ slurm : Number(state[n], "slurm_alloccpus") = 0
    BY <1>3
  <2>2. c.cpus_alloc = Across(slurm, "slurm_alloccpus") /\ c.cpus_alloc \in Nat
    BY <1>1, <1>4, <2>1, AddedAcross
  <2> QED BY <2>2
<1>9. SumAt(f, counted) = total /\ total \in Nat
  <2> DEFINE g == [n \in counted |-> Number(state[n], "slurm_cputot")]
  <2>1. \A n \in counted : f[n] \in Int /\ f[n] = g[n] /\ g[n] \in Nat
    BY <1>3, <1>4, <1>6
  <2> HIDE DEF g
  <2> QED BY <1>5, <2>1, SumSame, SumNat DEF Across, g
<1>10. SumAt(f, others) = own /\ own \in Nat
  <2> DEFINE g == [n \in others |-> Number(state[n], "cpus")]
  <2>1. \A n \in others : f[n] \in Int /\ f[n] = g[n] /\ g[n] \in Nat
    BY <1>3, <1>4, <1>6
  <2> HIDE DEF g
  <2> QED BY <1>5, <2>1, SumSame, SumNat DEF Across, g
<1>11. SumAt(f, Taken) = SumAt(f, counted) + SumAt(f, others)
  <2>1. \A n \in counted \cup others : f[n] \in Int
    BY <1>4, <1>6
  <2>2. SumAt(f, counted \cup others) = SumAt(f, counted) + SumAt(f, others)
    BY <1>4, <1>5, <2>1, SumUnion
  <2> QED BY <1>4, <2>2
<1>12. Cluster.alloc_pct = Percent(alloc, total + own)
  BY <1>7, <1>8, <1>9, <1>10, <1>11, CpuCluster
<1> HIDE DEF alloc, total, own
<1>13. total > 0 => Cluster.alloc_pct <= Percent(alloc, total)
  BY <1>8, <1>9, <1>10, <1>12, PercentOfMore
<1> QED BY <1>12, <1>13
        DEF HalvesDoNotMix, Across, alloc, total, own, others, counted, slurm

\* Half an answer and an incomplete one bend the percentages of the cluster only
\* where, and only in the direction, that HalvesDoNotMix says.
THEOREM HalvesApart == Spec => []HalvesDoNotMix
<1>1. cmd \notin {"cpu", "mem"} => HalvesDoNotMix
  BY DEF HalvesDoNotMix
<1>2. RowInv => HalvesDoNotMix
  BY <1>1, MemoryApart, ProcessorsApart
<1> QED BY <1>2, RowInvariant, PTL
-----------------------------------------------------------------------------
(* GPUs, each counted once. *)

\* The mean utilisation of the cluster is that of its GPUs, between the lowest
\* and the highest mean of a node that has GPUs.
THEOREM MeanOfAllGpus == Spec => []WeightedPerGpu
<1>1. ASSUME RowInv, cmd = "gpu" PROVE WeightedPerGpu
  <2> DEFINE D    == [n \in Taken |-> DOMAIN state[n].gpus]
             gpu  == UNION {{<<n, i>> : i \in DOMAIN state[n].gpus} : n \in Taken}
             util == [g \in gpu |-> state[g[1]].gpus[g[2]].util_pct]
             C    == [n \in Taken |-> Column(state[n].gpus, "util_pct")]
             s    == ColumnOf("util_sum")
             g    == ColumnOf("gpus")
             With == {x \in Taken : rows[x].gpus > 0}
             mean == {rows[n].util_avg : n \in With}
  <2>1. IsFiniteSet(Taken) /\ c.util_sum = SumAt(s, Taken) /\ c.gpus = SumAt(g, Taken)
        /\ c.util_sum \in Nat /\ c.gpus \in Nat
    BY <1>1, TakenRows DEF RowInv, Added
  <2>2. ASSUME NEW n \in Taken
        PROVE  /\ IsFiniteSet(D[n]) /\ g[n] = Cardinality(D[n]) /\ g[n] \in Nat
               /\ \A i \in D[n] : state[n].gpus[i].util_pct \in Nat
               /\ s[n] = SumAt(C[n], D[n]) /\ s[n] \in Nat
               /\ g[n] = 0 => s[n] = 0
               /\ rows[n].gpus = g[n] /\ rows[n].util_avg = Average(s[n], g[n])
    <3> DEFINE list == state[n].gpus
               N    == Len(list)
    <3>1. state[n] \in Answer("gpu") /\ HasRow("gpu", DOMAIN state[n])
      BY <1>1, TakenRows, RowOfType
    <3>2. /\ N \in Nat /\ DOMAIN list = 1 .. N
          /\ \A i \in DOMAIN list : list[i].util_pct \in Nat
      BY <3>1, Gpus
    <3>3. {"gpus", "util_sum"} \subseteq RowKeys[cmd]
      BY <1>1 DEF RowKeys, COLUMNS
    <3>4. /\ g[n] \in Nat /\ g[n] = RowOf(n).gpus
          /\ s[n] \in Nat /\ s[n] = RowOf(n).util_sum
      BY <1>1, <3>3, TakenRows
    <3>5. /\ RowOf(n).gpus = N /\ RowOf(n).util_sum = SumOf(list, "util_pct")
          /\ RowOf(n).util_avg = Average(SumOf(list, "util_pct"), N)
      BY <1>1 DEF RowOf, Row, GpuRow
    <3>6. D[n] = DOMAIN list /\ C[n] = Column(list, "util_pct")
      OBVIOUS
    <3>7. IsFiniteSet(D[n]) /\ Cardinality(D[n]) = N
      <4> HIDE DEF N
      <4>1. 1 \in Int /\ N \in Int
        BY <3>2
      <4>2. IsFiniteSet(1 .. N) /\ Cardinality(1 .. N) = IF 1 <= N THEN N - 1 + 1 ELSE 0
        BY <4>1, FS_Interval
      <4> QED BY <3>2, <3>6, <4>2
    <3>8. s[n] = SumAt(C[n], D[n])
      BY <3>4, <3>5, <3>6 DEF SumOf
    <3>9. g[n] = 0 => s[n] = 0
      <4>1. g[n] = 0 => D[n] = {}
        BY <3>2, <3>4, <3>5, <3>6
      <4> QED BY <3>8, <4>1, SumEmpty
    <3>10. {"gpus", "util_avg"} \subseteq SUMMARY_METRICS[cmd] \ {"nodes_degraded"}
      BY <1>1 DEF SUMMARY_METRICS
    <3>11. rows[n].gpus = RowOf(n).gpus /\ rows[n].util_avg = RowOf(n).util_avg
      BY <1>1, <3>10, ShownType
    <3> QED BY <3>2, <3>4, <3>5, <3>6, <3>7, <3>8, <3>9, <3>11
  <2>3. gpu = Pairs(D, Taken)
    BY DEF Pairs
  <2>4. \A n \in Taken : \A i \in D[n] : C[n][i] \in Int /\ util[<<n, i>>] = C[n][i]
    <3> SUFFICES ASSUME NEW n \in Taken, NEW i \in D[n]
                 PROVE  C[n][i] \in Int /\ util[<<n, i>>] = C[n][i]
      OBVIOUS
    <3>1. C[n][i] = state[n].gpus[i].util_pct
      BY DEF Column
    <3>2. <<n, i>> \in gpu
      OBVIOUS
    <3>3. util[<<n, i>>] = state[n].gpus[i].util_pct
      BY <3>2
    <3> QED BY <2>2, <3>1, <3>3
  <2> HIDE DEF gpu, util, s, g, C, D
  <2>5. IsFiniteSet(Pairs(D, Taken)) /\ SumAt(util, Pairs(D, Taken)) = SumAt(s, Taken)
    <3>1. /\ \A n \in Taken : IsFiniteSet(D[n])
          /\ \A n \in Taken : s[n] = SumAt(C[n], D[n])
      BY <2>2
    <3>2. Grouped(Taken, D, C, util, s)
      BY <2>4, <3>1 DEF Grouped
    <3> QED BY <2>1, <3>2, SumGrouped
  <2>6. Cardinality(Pairs(D, Taken)) = SumAt(g, Taken)
    BY <2>1, <2>2, CountGrouped
  <2>7. gpu # {} => SumAt(g, Taken) # 0
    BY <2>3, <2>5, <2>6, FS_EmptySet
  <2>8. Cluster.util_avg = Average(c.util_sum, c.gpus)
    BY <1>1, GpuCluster
  <2>9. ASSUME gpu # {} PROVE Cluster.util_avg \in Min(mean) .. Max(mean)
    <3> DEFINE total == SumAt(g, Taken)
               all   == SumAt(s, Taken) \div SumAt(g, Taken)
    <3>1. Cluster.util_avg = all /\ all \in Nat
      <4>1. Cluster.util_avg = all
        BY <2>1, <2>7, <2>8, <2>9 DEF Average
      <4> QED BY <2>1, <2>7, <2>9, <4>1, QuotientNat
    <3>2. \A n \in With : rows[n].util_avg = s[n] \div g[n] /\ rows[n].util_avg \in Nat /\ n \in Taken
      <4> SUFFICES ASSUME NEW n \in With
                   PROVE  rows[n].util_avg = s[n] \div g[n] /\ rows[n].util_avg \in Nat
        OBVIOUS
      <4>1. g[n] # 0 /\ n \in Taken
        BY <2>2
      <4> QED BY <2>2, <4>1, QuotientNat DEF Average
    <3>3. \A n \in Taken : g[n] # 0 => n \in With
      BY <2>2
    <3>4. mean \in SUBSET Nat
      BY <3>2
    <3>5. IsFiniteSet(mean)
      <4> DEFINE avg == [n \in With |-> rows[n].util_avg]
      <4>1. mean = {avg[n] : n \in With}
        OBVIOUS
      <4>2. IsFiniteSet(With)
        BY <2>1, FS_Subset
      <4> HIDE DEF avg, With, mean
      <4> QED BY <4>1, <4>2, ImageFinite
    <3>6. mean # {}
      <4>1. \E n \in Taken : g[n] # 0
        <5>1. (\A n \in Taken : g[n] = 0) => SumAt(g, Taken) = 0
          BY <2>1, SumZeros
        <5> QED BY <2>7, <2>9, <5>1
      <4> QED BY <3>3, <4>1
    <3>7. \A n \in Taken : g[n] # 0 => s[n] \div g[n] \in mean
      BY <3>2, <3>3
    <3> HIDE DEF mean, With
    <3> DEFINE lo == Min(mean)
               hi == Max(mean)
    <3>8. mean \in SUBSET Int
      BY <3>4
    <3>9. lo \in mean /\ \A x \in mean : lo <= x
      BY <3>5, <3>6, <3>8, LowestIn
    <3>10. hi \in mean /\ \A x \in mean : x <= hi
      BY <3>5, <3>6, <3>8, HighestIn
    <3> HIDE DEF lo, hi
    <3>11. lo \in Nat /\ hi \in Nat
      BY <3>4, <3>9, <3>10
    <3>12. \A n \in Taken : g[n] # 0 => lo <= s[n] \div g[n] /\ s[n] \div g[n] <= hi
      BY <3>7, <3>9, <3>10
    <3>13. lo <= all /\ all <= hi
      BY <2>1, <2>2, <2>7, <2>9, <3>11, <3>12, MeanBetween
    <3> HIDE DEF all
    <3> QED BY <3>1, <3>11, <3>13 DEF lo, hi
  <2>10. ASSUME gpu # {} PROVE Cluster.util_avg = SumAt(util, gpu) \div Cardinality(gpu)
    <3>1. Average(c.util_sum, c.gpus) = c.util_sum \div c.gpus
      BY <2>1, <2>7, <2>10 DEF Average
    <3> QED BY <2>1, <2>3, <2>5, <2>6, <2>8, <3>1
  <2> QED BY <2>9, <2>10 DEF WeightedPerGpu, gpu, util
<1>2. RowInv => WeightedPerGpu
  BY <1>1 DEF WeightedPerGpu
<1> QED BY <1>2, RowInvariant, PTL
-----------------------------------------------------------------------------
(* The totals and the detail views. *)

\* D has, of every node taken, a sample b[n][i] for each of the places P[n], with
\* the value v[n][i].
SamplesFor(P, b, v, D) ==
  \A n \in Taken : /\ IsFiniteSet(P[n])
                   /\ \A i \in P[n] : /\ b[n][i].at = i /\ b[n][i].value = v[n][i]
                                       /\ v[n][i] \in Int
                   /\ \A s : s \in D[n] <=> \E i \in P[n] : s = b[n][i]

\* The number of such samples and the sum of their values, node by node.
LEMMA SamplePairs ==
  ASSUME RowInv, NEW P, NEW b, NEW v, NEW D, SamplesFor(P, b, v, D),
         NEW g, \A n \in Taken : g[n] = SumAt(v[n], P[n]),
         NEW h, \A n \in Taken : h[n] = Cardinality(P[n])
  PROVE  /\ ValueSum(Pairs(D, Taken)) = SumAt(g, Taken)
         /\ Cardinality(Pairs(D, Taken)) = SumAt(h, Taken)
<1> USE DEF SamplesFor
<1> DEFINE C   == [n \in Taken |-> [s \in D[n] |-> s.value]]
           all == Pairs(D, Taken)
           val == [p \in all |-> p[2].value]
<1>1. ASSUME NEW n \in Taken
      PROVE  /\ IsFiniteSet(D[n]) /\ Cardinality(D[n]) = Cardinality(P[n])
             /\ SumAt(C[n], D[n]) = SumAt(v[n], P[n])
             /\ \A s \in D[n] : s.value \in Int
  <2> DEFINE S    == P[n]
             at   == b[n]
             col  == v[n]
             Img  == {at[i] : i \in S}
             mine == [s \in Img |-> s.value]
  <2>1. IsFiniteSet(S) /\ D[n] = Img
    <3>1. \A s : s \in D[n] <=> s \in Img
      OBVIOUS
    <3> QED BY <3>1
  <2>2. /\ \A i \in S : at[i].at = i /\ at[i].value = col[i] /\ col[i] \in Int
    OBVIOUS
  <2>3. C[n] = mine
    BY <2>1
  <2> HIDE DEF S, at, col
  <2>4. \A i, j \in S : at[i] = at[j] => i = j
    BY <2>2
  <2>5. \A i \in S : col[i] \in Int /\ col[i] = mine[at[i]]
    BY <2>2
  <2>6. \A s \in Img : s.value \in Int
    BY <2>2
  <2> HIDE DEF mine
  <2>7. IsFiniteSet(Img) /\ SumAt(mine, Img) = SumAt(col, S)
    <3>1. IsFiniteSet(S)
      BY <2>1
    <3> QED BY ONLY <2>4, <2>5, <3>1, SumImage
  <2>8. Cardinality(Img) = Cardinality(S)
    <3> DEFINE one == [i \in S |-> 1]
               ones == [s \in Img |-> 1]
    <3>1. \A i \in S : one[i] \in Int /\ one[i] = ones[at[i]] /\ one[i] = 1
      OBVIOUS
    <3>2. \A s \in Img : ones[s] = 1
      OBVIOUS
    <3> HIDE DEF one, ones
    <3>3. SumAt(ones, Img) = SumAt(one, S)
      <4>1. IsFiniteSet(S)
        BY <2>1
      <4>2. \A i \in S : one[i] \in Int /\ one[i] = ones[at[i]]
        BY <3>1
      <4> QED BY ONLY <2>4, <4>1, <4>2, SumImage
    <3>4. SumAt(one, S) = Cardinality(S)
      BY <2>1, <3>1, CountIsSum
    <3> HIDE DEF Img
    <3>5. SumAt(ones, Img) = Cardinality(Img)
      BY <2>7, <3>2, CountIsSum
    <3> QED BY <3>3, <3>4, <3>5
  <2> QED BY <2>1, <2>3, <2>6, <2>7, <2>8 DEF S, col
<1>2. IsFiniteSet(Taken)
  BY TakenRows
<1>3. ASSUME NEW n \in Taken, NEW s \in D[n]
      PROVE  C[n][s] \in Int /\ val[<<n, s>>] = C[n][s]
  <2>1. <<n, s>> \in all
    BY DEF Pairs
  <2> HIDE DEF all
  <2> QED BY <1>1, <2>1
<1>4. ValueSum(Pairs(D, Taken)) = SumAt(val, Pairs(D, Taken))
  BY DEF ValueSum
<1>5. /\ \A n \in Taken : IsFiniteSet(D[n])
      /\ \A n \in Taken : g[n] = SumAt(C[n], D[n])
  BY <1>1
<1>6. \A n \in Taken : \A s \in D[n] : C[n][s] \in Int /\ val[<<n, s>>] = C[n][s]
  BY <1>3
<1> HIDE DEF C, val, all
<1>7. IsFiniteSet(Pairs(D, Taken)) /\ SumAt(val, Pairs(D, Taken)) = SumAt(g, Taken)
  <2>1. \A n \in Taken : IsFiniteSet(D[n])
    BY <1>5
  <2>2. \A n \in Taken : g[n] = SumAt(C[n], D[n])
    BY <1>5
  <2>3. Grouped(Taken, D, C, val, g)
    BY <1>6, <2>1, <2>2 DEF Grouped
  <2> QED BY <1>2, <2>3, SumGrouped
<1>8. Cardinality(Pairs(D, Taken)) = SumAt(h, Taken)
  <2>1. \A n \in Taken : h[n] = Cardinality(D[n])
    BY <1>1
  <2> QED BY <1>2, <1>5, <2>1, CountGrouped
<1> QED BY <1>4, <1>7, <1>8

\* The detail of a metric, node by node.
LEMMA DetailPairs ==
  ASSUME NEW metric
  PROVE  Detail(metric) = Pairs([n \in Taken |-> SamplesOf(cmd, state[n], metric)], Taken)
BY DEF Detail, Pairs, SamplesOf

\* Samples of a metric of METRICS: a node that is shown as an error has none,
\* and another those of the places that have one.
PlacesOn(n, m) == IF "error" \in DOMAIN state[n] THEN {} ELSE PlacesOf(cmd, state[n], m)
ValuesOn(n, m) ==
  [i \in PlacesOn(n, m) |-> Value(cmd, Parts(cmd, state[n])[i], METRICS[cmd][m])]

LEMMA MetricTotal ==
  ASSUME RowInv, NEW m \in DOMAIN METRICS[cmd],
         \A n \in Taken : /\ IsFiniteSet(PlacesOn(n, m))
                          /\ \A i \in PlacesOn(n, m) : ValuesOn(n, m)[i] \in Int,
         NEW g, \A n \in Taken : g[n] = SumAt(ValuesOn(n, m), PlacesOn(n, m)),
         NEW h, \A n \in Taken : h[n] = Cardinality(PlacesOn(n, m))
  PROVE  DetailSum(m) = SumAt(g, Taken) /\ Cardinality(Detail(m)) = SumAt(h, Taken)
<1> DEFINE P == [n \in Taken |-> PlacesOn(n, m)]
           b == [n \in Taken |-> [i \in PlacesOn(n, m) |-> SampleAt(cmd, state[n], m, i)]]
           D == [n \in Taken |-> SamplesOf(cmd, state[n], m)]
           v == [n \in Taken |-> ValuesOn(n, m)]
<1>1. cmd \in Commands
  BY DEF RowInv, TotalCommand, Commands
<1>2. ASSUME NEW n \in Taken PROVE D[n] = {b[n][i] : i \in P[n]}
  <2>1. {b[n][i] : i \in P[n]} = {SampleAt(cmd, state[n], m, i) : i \in PlacesOn(n, m)}
    OBVIOUS
  <2>2. CASE "error" \in DOMAIN state[n]
    BY <2>1, <2>2 DEF PlacesOn, SamplesOf, Samples
  <2>3. CASE "error" \notin DOMAIN state[n]
    BY <1>1, <2>1, <2>3, SamplesAtPlaces DEF PlacesOn
  <2> QED BY <2>2, <2>3
<1>3. ASSUME NEW n \in Taken, NEW i \in P[n]
      PROVE  b[n][i].at = i /\ b[n][i].value = v[n][i] /\ v[n][i] \in Int
  <2>1. i \in PlacesOn(n, m) /\ b[n][i] = SampleAt(cmd, state[n], m, i)
        /\ v[n] = ValuesOn(n, m)
    OBVIOUS
  <2>2. b[n][i].at = i /\ b[n][i].value = ValuesOn(n, m)[i]
    BY <2>1 DEF SampleAt, ValuesOn
  <2> QED BY <2>1, <2>2
<1>4. \A n \in Taken : IsFiniteSet(P[n]) /\ P[n] = PlacesOn(n, m) /\ v[n] = ValuesOn(n, m)
  OBVIOUS
<1>5. Detail(m) = Pairs(D, Taken) /\ DetailSum(m) = ValueSum(Detail(m))
  BY DetailPairs DEF DetailSum
<1> HIDE DEF P, b, D, v
<1>6. /\ \A n \in Taken : g[n] = SumAt(v[n], P[n])
      /\ \A n \in Taken : h[n] = Cardinality(P[n])
  BY <1>4
<1>7. /\ ValueSum(Pairs(D, Taken)) = SumAt(g, Taken)
      /\ Cardinality(Pairs(D, Taken)) = SumAt(h, Taken)
  <2>1. SamplesFor(P, b, v, D)
    BY <1>2, <1>3, <1>4 DEF SamplesFor
  <2>4. \A n \in Taken : g[n] = SumAt(v[n], P[n])
    BY <1>6
  <2>5. \A n \in Taken : h[n] = Cardinality(P[n])
    BY <1>6
  <2> QED BY ONLY RowInv, <2>1, <2>4, <2>5, SamplePairs
<1> QED BY <1>5, <1>7

\* The samples of a metric of gpu are those of the GPUs.
LEMMA GpuDetail ==
  ASSUME RowInv, cmd = "gpu", NEW m \in DOMAIN METRICS.gpu, NEW n \in Taken
  PROVE  LET list == state[n].gpus
             k    == METRICS.gpu[m]
         IN  /\ PlacesOn(n, m) = DOMAIN list /\ IsFiniteSet(DOMAIN list)
             /\ Cardinality(DOMAIN list) = Len(list)
             /\ \A i \in DOMAIN list : ValuesOn(n, m)[i] = list[i][k] /\ list[i][k] \in Nat
             /\ SumAt(ValuesOn(n, m), DOMAIN list) = SumOf(list, k)
             /\ \A i \in DOMAIN list : list[i][k] <= MaxOf(list, k)
<1> DEFINE list == state[n].gpus
           k    == METRICS.gpu[m]
           N    == Len(list)
           vals == ValuesOn(n, m)
<1>1. k \in {"util_pct", "mem_used_mb", "mem_total_mb", "temp_c", "power_w"}
  BY DEF METRICS
<1>2. state[n] \in Answer("gpu") /\ HasRow("gpu", DOMAIN state[n])
  BY TakenRows, RowOfType
<1>3. "error" \notin DOMAIN state[n] /\ N \in Nat /\ DOMAIN list = 1 .. N
  BY <1>2, Gpus
<1>4. \A i \in DOMAIN list : list[i][k] \in Nat /\ list[i][k] <= MaxOf(list, k)
  BY <1>1, <1>2, Gpus
<1>5. \A i \in DOMAIN list : k \in DOMAIN list[i]
  <2>1. list \in Seq(Reading)
    BY <1>2, <1>3, GpuAnswer
  <2> HIDE DEF list, k
  <2>2. \A i \in DOMAIN list : list[i] \in Reading
    BY <2>1
  <2> QED BY <1>1, <2>2 DEF Reading
<1>6. Parts(cmd, state[n]) = list /\ PlacesOn(n, m) = DOMAIN list
  BY <1>3 DEF Parts, PlacesOn, PlacesOf, HasSample
<1>7. \A i \in DOMAIN list : vals[i] = list[i][k]
  <2> SUFFICES ASSUME NEW i \in DOMAIN list PROVE vals[i] = list[i][k]
    OBVIOUS
  <2>1. vals[i] = Value(cmd, list[i], k)
    BY <1>6 DEF ValuesOn
  <2>2. list[i][k] # NA
    BY <1>4 DEF NA
  <2> HIDE DEF list, k, vals
  <2> QED BY <1>5, <2>1, <2>2 DEF Value, NumberOr
<1>8. IsFiniteSet(1 .. N) /\ Cardinality(1 .. N) = N
  <2> HIDE DEF N
  <2>1. 1 \in Int /\ N \in Int
    BY <1>3
  <2>2. IsFiniteSet(1 .. N) /\ Cardinality(1 .. N) = IF 1 <= N THEN N - 1 + 1 ELSE 0
    BY <2>1, FS_Interval
  <2> QED BY <1>3, <2>2
<1>9. SumAt(vals, DOMAIN list) = SumOf(list, k)
  <2> DEFINE col == Column(list, k)
             D   == DOMAIN list
  <2>1. \A i \in D : vals[i] \in Int /\ vals[i] = col[i]
    BY <1>4, <1>7 DEF Column
  <2>2. IsFiniteSet(D) /\ SumOf(list, k) = SumAt(col, D)
    BY <1>3, <1>8 DEF SumOf
  <2> HIDE DEF col, D, vals
  <2>3. SumAt(vals, D) = SumAt(col, D)
    BY ONLY <2>1, <2>2, SumSame
  <2> QED BY <2>2, <2>3 DEF D
<1> QED BY <1>3, <1>4, <1>6, <1>7, <1>8, <1>9

\* cpu and mem: a number over all nodes taken is that over the nodes in the
\* detail view and that over those shown as an error.
LEMMA HalvesDetail ==
  ASSUME RowInv, cmd \in {"cpu", "mem"}, NEW m \in DOMAIN METRICS[cmd], NEW k,
         k = METRICS[cmd][m], k \in NumericKeys[cmd]
  PROVE  /\ SumAt([n \in Node |-> Number(state[n], k)], Taken) = DetailSum(m) + HalfSum(k)
         /\ DetailSum(m) \in Nat /\ HalfSum(k) \in Nat
<1> DEFINE all  == [n \in Node |-> Number(state[n], k)]
           here == [n \in Node |-> IF n \in Half THEN 0 ELSE Number(state[n], k)]
           half == [n \in Node |-> IF n \in Half THEN Number(state[n], k) ELSE 0]
           own  == [n \in Half |-> Number(state[n], k)]
<1>1. IsFiniteSet(Taken) /\ Taken \subseteq Node /\ Half \in SUBSET Taken
  BY TakenRows DEF Half
<1>2. ASSUME NEW n \in Taken PROVE Number(state[n], k) \in Nat
  BY TakenRows, RowOfType, HalvesNumbers
<1>3. ASSUME NEW n \in Taken
      PROVE  /\ IsFiniteSet(PlacesOn(n, m))
             /\ \A i \in PlacesOn(n, m) : ValuesOn(n, m)[i] \in Int
             /\ here[n] = SumAt(ValuesOn(n, m), PlacesOn(n, m))
  <2> DEFINE d == state[n]
             vals == ValuesOn(n, m)
  <2>1. CASE n \in Half
    <3>1. PlacesOn(n, m) = {} /\ here[n] = 0
      BY <1>1, <2>1 DEF PlacesOn, Half
    <3> QED BY <3>1, FS_EmptySet, SumEmpty
  <2>2. CASE n \notin Half
    <3>1. "error" \notin DOMAIN d
      BY <2>2 DEF Half
    <3>2. Parts(cmd, d) = <<d>>
      BY DEF Parts
    <3>3. DOMAIN Parts(cmd, d) = {1} /\ Parts(cmd, d)[1] = d
      BY <3>2
    <3>4. k # "pcent"
      BY DEF NumericKeys, SlurmKeys, MeminfoKeys
    <3>5. here[n] = Number(d, k) /\ Number(d, k) \in Nat
      BY <1>1, <1>2, <2>2
    <3>6. CASE HasSample(cmd, d, k)
      <4>1. PlacesOn(n, m) = {1}
        BY <3>1, <3>3, <3>6 DEF PlacesOn, PlacesOf
      <4>2. vals[1] = Number(d, k)
        BY <3>3, <3>4, <4>1 DEF ValuesOn, Value, Number
      <4> HIDE DEF vals
      <4>3. SumAt(vals, {1}) = vals[1]
        BY <3>5, <4>2, SumOne
      <4>4. IsFiniteSet({1})
        BY FS_Singleton
      <4> QED BY <3>5, <4>1, <4>2, <4>3, <4>4 DEF vals
    <3>7. CASE ~ HasSample(cmd, d, k)
      <4>1. PlacesOn(n, m) = {}
        BY <3>1, <3>3, <3>7 DEF PlacesOn, PlacesOf
      <4>2. Number(d, k) = 0
        BY <3>7 DEF HasSample, Number, NumberOr
      <4> QED BY <3>5, <4>1, <4>2, FS_EmptySet, SumEmpty
    <3> QED BY <3>6, <3>7
  <2> QED BY <2>1, <2>2
<1>4. /\ \A n \in Taken : /\ all[n] \in Nat /\ here[n] \in Nat /\ half[n] \in Nat
                          /\ all[n] = here[n] + half[n]
      /\ \A n \in Half : half[n] = own[n]
      /\ \A n \in Taken \ Half : half[n] = 0
  BY <1>1, <1>2
<1>5. HalfSum(k) = SumAt(own, Half)
  BY DEF HalfSum
<1> HIDE DEF all, here, half, own
<1>6. DetailSum(m) = SumAt(here, Taken)
  <2> DEFINE h == [n \in Taken |-> Cardinality(PlacesOn(n, m))]
  <2>1. \A n \in Taken : h[n] = Cardinality(PlacesOn(n, m))
    OBVIOUS
  <2> HIDE DEF h
  <2> QED BY <1>3, <2>1, MetricTotal
<1>7. SumAt(half, Taken) = SumAt(own, Half)
  <2>1. IsFiniteSet(Half)
    BY <1>1, FS_Subset
  <2>2. \A n \in Taken : half[n] \in Int
    BY <1>4
  <2>3. \A n \in Half : half[n] \in Int /\ half[n] = own[n]
    BY <1>1, <1>4
  <2>4. SumAt(half, Taken) = SumAt(half, Half)
    BY <1>1, <1>4, <2>2, SumSupport
  <2> QED BY <2>1, <2>3, <2>4, SumSame
<1>8. SumAt(all, Taken) = SumAt(here, Taken) + SumAt(half, Taken)
  <2>1. \A n \in Taken : here[n] \in Int /\ half[n] \in Int /\ all[n] = here[n] + half[n]
    BY <1>4
  <2> QED BY ONLY <1>1, <2>1, SumPlus
<1>9. SumAt(here, Taken) \in Nat /\ SumAt(half, Taken) \in Nat
  BY <1>1, <1>4, SumNat
<1> QED BY <1>5, <1>6, <1>7, <1>8, <1>9 DEF all

\* net: what the lemmas below need of the answer of a node taken.
LEMMA TakenPorts ==
  ASSUME RowInv, cmd = "net", NEW n \in Taken
  PROVE  /\ "error" \notin DOMAIN state[n]
         /\ state[n] \in Answer("net") /\ HasRow("net", DOMAIN state[n])
         /\ IsFiniteSet(DOMAIN state[n].ports)
         /\ Parts(cmd, state[n]) = [i \in DOMAIN state[n].ports |-> Stats(state[n], state[n].ports[i])]
         /\ DOMAIN Parts(cmd, state[n]) = DOMAIN state[n].ports
<1>1. state[n] \in Answer("net") /\ HasRow("net", DOMAIN state[n])
  BY TakenRows, RowOfType
<1>2. "error" \notin DOMAIN state[n] /\ IsFiniteSet(DOMAIN state[n].ports)
  BY <1>1, Ports
<1> QED BY <1>1, <1>2 DEF Parts

\* Ports that are up are the link samples of value 1.
LEMMA LinkTotal ==
  ASSUME RowInv, cmd = "net" PROVE c.ports_up = DetailSum("hpcat_ib_port_link_up")
<1> DEFINE P == [n \in Taken |-> DOMAIN state[n].ports]
           b == [n \in Taken |-> [i \in DOMAIN state[n].ports |-> LinkSample(state[n], i)]]
           v == [n \in Taken |-> [i \in DOMAIN state[n].ports |->
                   IF state[n].ports[i].state = "ACTIVE" THEN 1 ELSE 0]]
           D == [n \in Taken |-> SamplesOf(cmd, state[n], "hpcat_ib_port_link_up")]
           g == ColumnOf("ports_up")
           h == [n \in Taken |-> Cardinality(P[n])]
<1>1. ASSUME NEW n \in Taken
      PROVE  /\ IsFiniteSet(P[n])
             /\ \A i \in P[n] : b[n][i].at = i /\ b[n][i].value = v[n][i] /\ v[n][i] \in Int
             /\ \A s : s \in D[n] <=> \E i \in P[n] : s = b[n][i]
  <2>1. IsFiniteSet(P[n]) /\ "error" \notin DOMAIN state[n]
    BY TakenPorts
  <2>2. D[n] = {LinkSample(state[n], i) : i \in DOMAIN state[n].ports}
    BY <2>1, SamplesOfPorts
  <2>3. P[n] = DOMAIN state[n].ports /\ \A i \in P[n] : b[n][i] = LinkSample(state[n], i)
    OBVIOUS
  <2>4. \A i \in P[n] : b[n][i].at = i /\ b[n][i].value = v[n][i] /\ v[n][i] \in Int
    BY <2>3 DEF LinkSample
  <2> HIDE DEF P, b, v, D
  <2>5. \A s : s \in D[n] <=> \E i \in P[n] : s = b[n][i]
    BY <2>2, <2>3
  <2> QED BY <2>1, <2>4, <2>5
<1>2. ASSUME NEW n \in Taken PROVE g[n] = SumAt(v[n], P[n])
  <2> DEFINE ports == state[n].ports
             all   == P[n]
             up    == {i \in DOMAIN ports : ports[i].state = "ACTIVE"}
             ones  == v[n]
  <2>1. "ports_up" \in RowKeys[cmd]
    BY DEF RowKeys, COLUMNS
  <2>2. g[n] = RowOf(n).ports_up
    BY <2>1, TakenRows
  <2>3. RowOf(n).ports_up = Cardinality(up)
    BY DEF RowOf, Row, NetRow
  <2>4. IsFiniteSet(all) /\ up \in SUBSET all
    BY <1>1
  <2>5. /\ \A i \in all : ones[i] \in Int
        /\ \A i \in all \ up : ones[i] = 0
        /\ \A i \in up : ones[i] = 1
    OBVIOUS
  <2>6. IsFiniteSet(up)
    BY <2>4, FS_Subset
  <2> HIDE DEF all, up, ones
  <2>7. SumAt(ones, all) = SumAt(ones, up)
    BY <2>4, <2>5, SumSupport
  <2>8. SumAt(ones, up) = Cardinality(up)
    BY <2>5, <2>6, CountIsSum
  <2> QED BY <2>2, <2>3, <2>7, <2>8 DEF all, ones
<1>3. \A n \in Taken : h[n] = Cardinality(P[n])
  OBVIOUS
<1>4. Detail("hpcat_ib_port_link_up") = Pairs(D, Taken)
  BY DetailPairs
<1>5. c.ports_up = SumAt(g, Taken)
  BY DEF RowInv, Added
<1> HIDE DEF P, b, v, D, g, h
<1>6. SamplesFor(P, b, v, D)
  BY <1>1 DEF SamplesFor
<1>7. ValueSum(Pairs(D, Taken)) = SumAt(g, Taken)
  BY ONLY RowInv, <1>2, <1>3, <1>6, SamplePairs
<1> QED BY <1>4, <1>5, <1>7 DEF DetailSum

\* A counter over the nodes taken is the sum of its metric's samples, one for
\* each netdev: the first port of a netdev is the one the totals count.
CountedOn(n, m) == CountedPorts(state[n].ports) \cap PlacesOf(cmd, state[n], m)
CountedSamples(n, m) == {SampleAt(cmd, state[n], m, i) : i \in CountedOn(n, m)}

LEMMA FirstPorts ==
  ASSUME RowInv, cmd = "net", NEW m \in DOMAIN METRICS["net"]
  PROVE  PerNetdev(m) = Pairs([n \in Taken |-> CountedSamples(n, m)], Taken)
<1> DEFINE netdev(p) == state[p[1]].ports[p[2].at].netdev
           dev(n, i) == state[n].ports[i].netdev
<1>1. ASSUME NEW n \in Taken
      PROVE  /\ SamplesOf(cmd, state[n], m) =
                  {SampleAt(cmd, state[n], m, i) : i \in PlacesOf(cmd, state[n], m)}
             /\ \A i \in PlacesOf(cmd, state[n], m) : i \in DOMAIN state[n].ports /\ dev(n, i) # "-"
             /\ \A i \in PlacesOf(cmd, state[n], m) : \A j \in DOMAIN state[n].ports :
                  dev(n, j) = dev(n, i) => j \in PlacesOf(cmd, state[n], m)
  <2> DEFINE d == state[n]
  <2>1. "error" \notin DOMAIN d /\ Parts(cmd, d) = [i \in DOMAIN d.ports |-> Stats(d, d.ports[i])]
    BY TakenPorts
  <2>2. SamplesOf(cmd, d, m) = {SampleAt(cmd, d, m, i) : i \in PlacesOf(cmd, d, m)}
    BY <2>1, SamplesAtPlaces DEF Commands
  <2>3. \A i : i \in PlacesOf(cmd, d, m) <=> i \in DOMAIN d.ports /\ Stats(d, d.ports[i]) # NoStats
    BY <2>1 DEF PlacesOf, HasSample
  <2>4. \A i \in PlacesOf(cmd, d, m) : dev(n, i) # "-"
    BY <2>3 DEF Stats
  <2>5. ASSUME NEW i \in PlacesOf(cmd, d, m), NEW j \in DOMAIN d.ports, dev(n, j) = dev(n, i)
        PROVE  j \in PlacesOf(cmd, d, m)
    <3>1. Stats(d, d.ports[j]) = Stats(d, d.ports[i])
      BY <2>5 DEF Stats
    <3> QED BY <2>3, <3>1
  <2> QED BY <2>2, <2>3, <2>4, <2>5
<1>2. \A n, i : SampleAt(cmd, state[n], m, i).at = i
  BY DEF SampleAt
<1>3. ASSUME NEW p
      PROVE  p \in Detail(m) <=> \E n \in Taken : \E i \in PlacesOf(cmd, state[n], m) :
                                   p = <<n, SampleAt(cmd, state[n], m, i)>>
  <2>1. p \in Detail(m) <=> \E n \in Taken : \E s \in SamplesOf(cmd, state[n], m) : p = <<n, s>>
    BY DetailPairs DEF Pairs
  <2> QED BY <1>1, <2>1
<1>4. ASSUME NEW n \in Taken, NEW i \in PlacesOf(cmd, state[n], m)
      PROVE  <<n, SampleAt(cmd, state[n], m, i)>> \in PerNetdev(m) <=> i \in CountedOn(n, m)
  <2> DEFINE p == <<n, SampleAt(cmd, state[n], m, i)>>
  <2>1. p[1] = n /\ p[2].at = i /\ p \in Detail(m) /\ i \in DOMAIN state[n].ports
    BY <1>1, <1>2, <1>3
  <2>2. i \in CountedOn(n, m) <=> \A j \in 1 .. i - 1 : dev(n, j) # dev(n, i)
    BY <1>1, <2>1 DEF CountedOn, CountedPorts
  <2>3. p \in PerNetdev(m) <=>
          \A q \in Detail(m) : p[1] = q[1] /\ dev(n, i) = netdev(q) => i <= q[2].at
    BY <2>1 DEF PerNetdev
  <2>4. DOMAIN state[n].ports \subseteq Nat /\ \A j : j \in 1 .. i - 1 => j \in DOMAIN state[n].ports
    <3>1. /\ Len(state[n].ports) \in Nat /\ DOMAIN state[n].ports = 1 .. Len(state[n].ports)
      BY TakenPorts, Ports
    <3> QED BY <2>1, <3>1
  <2>5. ASSUME i \in CountedOn(n, m), NEW q \in Detail(m), p[1] = q[1], dev(n, i) = netdev(q)
        PROVE  i <= q[2].at
    <3>1. PICK j \in PlacesOf(cmd, state[n], m) : q = <<n, SampleAt(cmd, state[n], m, j)>>
      BY <1>3, <2>1, <2>5
    <3>2. q[2].at = j /\ netdev(q) = dev(n, j) /\ j \in DOMAIN state[n].ports
      BY <1>1, <1>2, <3>1
    <3>3. j \notin 1 .. i - 1
      BY <2>2, <2>5, <3>2
    <3>4. j \in Nat /\ i \in Nat /\ j >= 1
      <4>1. DOMAIN state[n].ports = 1 .. Len(state[n].ports) /\ Len(state[n].ports) \in Nat
        BY TakenPorts, Ports
      <4> QED BY <2>1, <3>2, <4>1
    <3> QED BY <3>2, <3>3, <3>4
  <2>6. ASSUME p \in PerNetdev(m), NEW j \in 1 .. i - 1, dev(n, j) = dev(n, i)
        PROVE  FALSE
    <3> DEFINE q == <<n, SampleAt(cmd, state[n], m, j)>>
    <3>1. j \in PlacesOf(cmd, state[n], m)
      BY <1>1, <2>4, <2>6
    <3>2. q \in Detail(m) /\ q[1] = n /\ q[2].at = j
      BY <1>2, <1>3, <3>1
    <3>3. netdev(q) = dev(n, j)
      BY <3>2
    <3> HIDE DEF q, p, netdev, dev
    <3>4. i <= j
      BY <2>1, <2>3, <2>6, <3>2, <3>3
    <3> QED BY <2>1, <2>4, <3>4
  <2> HIDE DEF p
  <2> QED BY <2>2, <2>3, <2>5, <2>6 DEF p
<1>5. ASSUME NEW p
      PROVE  p \in PerNetdev(m) <=> \E n \in Taken : \E i \in CountedOn(n, m) :
                                      p = <<n, SampleAt(cmd, state[n], m, i)>>
  <2>1. p \in PerNetdev(m) => p \in Detail(m)
    BY DEF PerNetdev
  <2>2. \A n : CountedOn(n, m) \subseteq PlacesOf(cmd, state[n], m)
    BY DEF CountedOn
  <2> QED BY <1>3, <1>4, <2>1, <2>2
<1>6. ASSUME NEW p
      PROVE  p \in Pairs([n \in Taken |-> CountedSamples(n, m)], Taken) <=>
               \E n \in Taken : \E i \in CountedOn(n, m) : p = <<n, SampleAt(cmd, state[n], m, i)>>
  BY DEF Pairs, CountedSamples
<1>7. ASSUME NEW p
      PROVE  p \in PerNetdev(m) <=> p \in Pairs([n \in Taken |-> CountedSamples(n, m)], Taken)
  BY <1>5, <1>6
<1> QED BY <1>7

LEMMA NetdevTotal ==
  ASSUME RowInv, cmd = "net", NEW m \in DOMAIN METRICS["net"]
  PROVE  NetdevSum(m) = SumAt([n \in Node |-> Counted(state[n], METRICS["net"][m])], Taken)
<1> DEFINE k == METRICS["net"][m]
           P == [n \in Taken |-> CountedOn(n, m)]
           b == [n \in Taken |-> [i \in CountedOn(n, m) |-> SampleAt(cmd, state[n], m, i)]]
           v == [n \in Taken |-> [i \in CountedOn(n, m) |->
                                    Number(Stats(state[n], state[n].ports[i]), k)]]
           D == [n \in Taken |-> CountedSamples(n, m)]
           g == [n \in Node |-> Counted(state[n], k)]
           h == [n \in Taken |-> Cardinality(P[n])]
<1>1. ASSUME NEW n \in Taken
      PROVE  /\ IsFiniteSet(P[n])
             /\ \A i \in P[n] : b[n][i].at = i /\ b[n][i].value = v[n][i] /\ v[n][i] \in Int
             /\ \A s : s \in D[n] <=> \E i \in P[n] : s = b[n][i]
             /\ g[n] = SumAt(v[n], P[n])
  <2> DEFINE d     == state[n]
             ports == d.ports
             all   == CountedPorts(ports)
             col   == [i \in DOMAIN ports |-> Number(Stats(d, ports[i]), k)]
             ones  == v[n]
  <2>1. /\ IsFiniteSet(all) /\ all \in SUBSET DOMAIN ports
        /\ \A i \in DOMAIN ports : Number(Stats(d, ports[i]), k) \in Nat
    BY TakenPorts, Ports
  <2>2. P[n] \in SUBSET all /\ P[n] = CountedOn(n, m)
    BY DEF CountedOn
  <2>3. IsFiniteSet(P[n])
    BY <2>1, <2>2, FS_Subset
  <2>4. ASSUME NEW i \in P[n]
        PROVE  b[n][i].at = i /\ b[n][i].value = v[n][i] /\ v[n][i] \in Int
    <3>1. i \in CountedOn(n, m) /\ i \in DOMAIN ports
      BY <2>1, <2>2
    <3>2. b[n][i] = SampleAt(cmd, d, m, i) /\ v[n][i] = Number(Stats(d, ports[i]), k)
      BY <3>1
    <3>3. Parts(cmd, d)[i] = Stats(d, ports[i]) /\ k # "pcent"
      <4>1. k # "pcent"
        BY DEF METRICS
      <4> QED BY <3>1, <4>1, TakenPorts
    <3>4. b[n][i].at = i /\ b[n][i].value = Number(Stats(d, ports[i]), k)
      BY <3>2, <3>3 DEF SampleAt, Value, Number
    <3> QED BY <2>1, <3>1, <3>2, <3>4
  <2>5. \A s : s \in D[n] <=> \E i \in P[n] : s = b[n][i]
    BY DEF CountedSamples
  <2>6. /\ \A i \in all : col[i] \in Int
        /\ \A i \in all \ P[n] : col[i] = 0
        /\ \A i \in P[n] : col[i] \in Int /\ col[i] = ones[i]
    <3>1. \A i \in all : col[i] \in Int
      BY <2>1
    <3>2. ASSUME NEW i \in all \ P[n] PROVE col[i] = 0
      <4>1. Parts(cmd, d)[i] = Stats(d, ports[i]) /\ i \in DOMAIN Parts(cmd, d)
        BY <2>1, TakenPorts
      <4>2. Stats(d, ports[i]) = NoStats
        BY <2>2, <3>2, <4>1 DEF CountedOn, PlacesOf, HasSample
      <4>3. Number(NoStats, k) = 0
        BY DEF Number, NumberOr, NoStats
      <4> QED BY <2>1, <4>2, <4>3
    <3>3. \A i \in P[n] : col[i] = ones[i]
      BY <2>1, <2>2
    <3> QED BY <2>2, <3>1, <3>2, <3>3
  <2>7. g[n] = SumAt(col, all)
    BY TakenRows DEF Counted
  <2> HIDE DEF P, v, all, col, ones
  <2>8. SumAt(col, all) = SumAt(col, P[n])
    BY ONLY <2>1, <2>2, <2>6, SumSupport
  <2>9. SumAt(col, P[n]) = SumAt(ones, P[n])
    BY ONLY <2>3, <2>6, SumSame
  <2> QED BY <2>3, <2>4, <2>5, <2>7, <2>8, <2>9 DEF ones
<1>2. \A n \in Taken : g[n] = SumAt(v[n], P[n])
  BY <1>1
<1>3. \A n \in Taken : h[n] = Cardinality(P[n])
  OBVIOUS
<1>4. PerNetdev(m) = Pairs(D, Taken)
  BY FirstPorts
<1> HIDE DEF P, b, v, D, g, h
<1>5. SamplesFor(P, b, v, D)
  BY <1>1 DEF SamplesFor
<1>6. ValueSum(Pairs(D, Taken)) = SumAt(g, Taken)
  BY ONLY RowInv, <1>2, <1>3, <1>5, SamplePairs
<1> QED BY <1>4, <1>6 DEF NetdevSum, g

\* The metrics of the error counters, each of another counter.
LEMMA ErrorCounters ==
  /\ ErrorMetrics \subseteq DOMAIN METRICS["net"]
  /\ {METRICS["net"][m] : m \in ErrorMetrics} = NET_ERROR_KEYS
  /\ \A l, m \in ErrorMetrics : METRICS["net"][l] = METRICS["net"][m] => l = m
<1> DEFINE t == METRICS["net"]
<1>1. /\ t["hpcat_net_rx_crc_errors_phy_total"] = "rx_crc_errors_phy"
      /\ t["hpcat_net_rx_symbol_errors_phy_total"] = "rx_symbol_err_phy"
      /\ t["hpcat_net_rx_discards_phy_total"] = "rx_discards_phy"
      /\ t["hpcat_net_tx_discards_phy_total"] = "tx_discards_phy"
      /\ t["hpcat_net_link_down_events_phy_total"] = "link_down_events_phy"
  BY DEF METRICS
<1>2. ErrorMetrics \subseteq DOMAIN t
  BY DEF METRICS, ErrorMetrics
<1> HIDE DEF t
<1>3. {t[m] : m \in ErrorMetrics} = NET_ERROR_KEYS
  BY <1>1 DEF ErrorMetrics, NET_ERROR_KEYS
<1>4. \A l, m \in ErrorMetrics : t[l] = t[m] => l = m
  BY <1>1 DEF ErrorMetrics
<1> QED BY <1>2, <1>3, <1>4 DEF t

LEMMA ErrorMetricsFinite == IsFiniteSet(ErrorMetrics)
<1> DEFINE a == "hpcat_net_rx_crc_errors_phy_total"
           b == "hpcat_net_rx_symbol_errors_phy_total"
           e == "hpcat_net_rx_discards_phy_total"
           f == "hpcat_net_tx_discards_phy_total"
           g == "hpcat_net_link_down_events_phy_total"
<1>1. ErrorMetrics = ((({a} \cup {b}) \cup {e}) \cup {f}) \cup {g}
  BY DEF ErrorMetrics
<1> HIDE DEF a, b, e, f, g
<1>2. IsFiniteSet({a}) /\ \A S, x : IsFiniteSet(S) => IsFiniteSet(S \cup {x})
  BY FS_Singleton, FS_AddElement
<1> QED BY <1>1, <1>2

LEMMA ErrorTotal ==
  ASSUME RowInv, cmd = "net"
  PROVE  c.errors = SumAt([m \in ErrorMetrics |-> NetdevSum(m)], ErrorMetrics)
<1> DEFINE t == METRICS["net"]
           K == NET_ERROR_KEYS
           F == [n \in Node |-> [k \in K |-> Counted(state[n], k)]]
           G == [k \in K |-> [n \in Node |-> Counted(state[n], k)]]
           r == ColumnOf("errors")
           q == [k \in K |-> SumAt(G[k], Taken)]
           w == [m \in ErrorMetrics |-> NetdevSum(m)]
<1>1. c.errors = SumAt(r, Taken)
  BY DEF RowInv, Added
<1>2. ASSUME NEW n \in Taken PROVE \A k \in K : Counted(state[n], k) \in Nat
  BY TakenPorts, Ports
<1>3. ASSUME NEW n \in Taken PROVE r[n] = SumAt(F[n], K)
  <2>1. "errors" \in RowKeys[cmd]
    BY DEF RowKeys, COLUMNS
  <2>2. r[n] = RowOf(n).errors
    BY <2>1, TakenRows
  <2>3. RowOf(n).errors = SumAt([k \in K |-> Counted(state[n], k)], K)
    BY DEF RowOf, Row, NetRow
  <2> QED BY <2>2, <2>3, TakenRows
<1>4. IsFiniteSet(Taken) /\ Taken \subseteq Node /\ IsFiniteSet(K)
  BY TakenRows, ErrorKeysFinite
<1>5. \A n \in Taken : \A k \in K : F[n][k] \in Int /\ G[k][n] = F[n][k]
  BY <1>2, <1>4
<1>6. \A m \in ErrorMetrics : t[m] \in K /\ w[m] = q[t[m]]
  <2> SUFFICES ASSUME NEW m \in ErrorMetrics PROVE t[m] \in K /\ w[m] = q[t[m]]
    OBVIOUS
  <2>1. t[m] \in K /\ m \in DOMAIN METRICS["net"]
    BY ErrorCounters
  <2>2. q[t[m]] = SumAt([n \in Node |-> Counted(state[n], t[m])], Taken)
    BY <2>1
  <2> QED BY <2>1, <2>2, NetdevTotal
<1>7. \A k \in K : q[k] = SumAt(G[k], Taken)
  OBVIOUS
<1>8. \A k \in K : q[k] \in Int
  <2> SUFFICES ASSUME NEW k \in K PROVE q[k] \in Int
    OBVIOUS
  <2> DEFINE row == G[k]
  <2>1. \A n \in Taken : row[n] \in Int
    BY <1>5
  <2> HIDE DEF row
  <2>2. SumAt(row, Taken) \in Int
    BY <1>4, <2>1, SumInt
  <2> QED BY <2>2 DEF row
<1> HIDE DEF F, G, r, q, w, t, K
<1>9. SumAt(r, Taken) = SumAt(q, K)
  <2>1. \A n \in Taken : \A k \in K : F[n][k] \in Int
    BY <1>5
  <2>2. \A n \in Taken : \A k \in K : G[k][n] = F[n][k]
    BY <1>5
  <2>3. \A n \in Taken : r[n] = SumAt(F[n], K)
    BY <1>3
  <2> QED BY ONLY <1>4, <1>7, <2>1, <2>2, <2>3, SumSwap
<1>10. SumAt(q, K) = SumAt(w, ErrorMetrics)
  <2>1. {t[m] : m \in ErrorMetrics} = K /\ \A l, m \in ErrorMetrics : t[l] = t[m] => l = m
    BY ErrorCounters DEF t, K
  <2>2. \A m \in ErrorMetrics : w[m] \in Int /\ w[m] = q[t[m]]
    BY <1>6, <1>8
  <2>3. SumAt(q, {t[m] : m \in ErrorMetrics}) = SumAt(w, ErrorMetrics)
    BY ONLY <2>1, <2>2, ErrorMetricsFinite, SumImage
  <2> QED BY <2>1, <2>3
<1> QED BY <1>1, <1>9, <1>10 DEF w

\* Every GPU and every netdev of a port is once in the totals, and what they
\* have more than the detail view is the scheduler's half of nodes shown as an
\* error: after any nodes in any order.
THEOREM MatchesDetail == Spec => []TotalsMatchDetail
<1>1. ASSUME RowInv, cmd = "gpu" PROVE TotalsMatchDetail
  <2>1. ASSUME NEW m \in DOMAIN METRICS.gpu, NEW k \in Added.gpu,
               \A n \in Taken : RowOf(n)[k] = SumOf(state[n].gpus, METRICS.gpu[m])
        PROVE  c[k] = DetailSum(m)
    <3> DEFINE h == [n \in Taken |-> Cardinality(PlacesOn(n, m))]
               g == ColumnOf(k)
    <3>1. k \in RowKeys[cmd] /\ c[k] = SumAt(g, Taken)
      BY <1>1, KeysAdded DEF RowInv
    <3>2. \A n \in Taken : g[n] = SumAt(ValuesOn(n, m), PlacesOn(n, m))
      BY <1>1, <2>1, <3>1, TakenRows, GpuDetail
    <3>3. \A n \in Taken : h[n] = Cardinality(PlacesOn(n, m))
      OBVIOUS
    <3>4. \A n \in Taken : /\ IsFiniteSet(PlacesOn(n, m))
                           /\ \A i \in PlacesOn(n, m) : ValuesOn(n, m)[i] \in Int
      BY <1>1, GpuDetail
    <3> HIDE DEF g, h
    <3> QED BY <1>1, <3>1, <3>2, <3>3, <3>4, MetricTotal
  <2>2. \A n \in Taken : RowOf(n) = GpuRow(state[n])
    BY <1>1 DEF RowOf, Row
  <2>3. c.power_w = DetailSum("hpcat_gpu_power_draw_watts")
    <3> DEFINE m == "hpcat_gpu_power_draw_watts"
    <3>1. m \in DOMAIN METRICS.gpu /\ METRICS.gpu[m] = "power_w" /\ "power_w" \in Added.gpu
      BY DEF METRICS, Added
    <3>2. \A n \in Taken : RowOf(n).power_w = SumOf(state[n].gpus, METRICS.gpu[m])
      BY <2>2, <3>1 DEF GpuRow
    <3> QED BY <2>1, <3>1, <3>2
  <2>4. c.mem_used_gb = DetailSum("hpcat_gpu_memory_used_bytes")
    <3> DEFINE m == "hpcat_gpu_memory_used_bytes"
    <3>1. m \in DOMAIN METRICS.gpu /\ METRICS.gpu[m] = "mem_used_mb" /\ "mem_used_gb" \in Added.gpu
      BY DEF METRICS, Added
    <3>2. \A n \in Taken : RowOf(n).mem_used_gb = SumOf(state[n].gpus, METRICS.gpu[m])
      BY <2>2, <3>1 DEF GpuRow
    <3> QED BY <2>1, <3>1, <3>2
  <2>5. c.gpus = Cardinality(Detail("hpcat_gpu_utilization_percent"))
    <3> DEFINE m == "hpcat_gpu_utilization_percent"
               g == [n \in Taken |-> SumAt(ValuesOn(n, m), PlacesOn(n, m))]
               h == ColumnOf("gpus")
    <3>1. m \in DOMAIN METRICS[cmd] /\ m \in DOMAIN METRICS.gpu /\ "gpus" \in RowKeys[cmd]
          /\ c.gpus = SumAt(h, Taken)
      BY <1>1 DEF METRICS, RowInv, Added, RowKeys, COLUMNS
    <3> HIDE DEF m
    <3>2. \A n \in Taken : h[n] = Cardinality(PlacesOn(n, m))
      <4>1. \A n \in Taken : h[n] = Len(state[n].gpus)
        BY <1>1, <2>2, <3>1, TakenRows DEF GpuRow
      <4> HIDE DEF h
      <4> QED BY <1>1, <3>1, <4>1, GpuDetail
    <3>3. \A n \in Taken : g[n] = SumAt(ValuesOn(n, m), PlacesOn(n, m))
      OBVIOUS
    <3>4. \A n \in Taken : /\ IsFiniteSet(PlacesOn(n, m))
                           /\ \A i \in PlacesOn(n, m) : ValuesOn(n, m)[i] \in Int
      BY <1>1, <3>1, GpuDetail
    <3> HIDE DEF g, h
    <3>5. Cardinality(Detail(m)) = SumAt(h, Taken)
      BY <1>1, <3>1, <3>2, <3>3, <3>4, MetricTotal
    <3> QED BY <3>1, <3>5 DEF m
  <2>6. ASSUME NEW p \in Detail("hpcat_gpu_temperature_celsius") PROVE p[2].value <= c.temp_max
    <3> DEFINE m == "hpcat_gpu_temperature_celsius"
    <3>1. m \in DOMAIN METRICS[cmd] /\ m \in DOMAIN METRICS.gpu /\ METRICS.gpu[m] = "temp_c"
          /\ "temp_max" \in RowKeys[cmd] /\ "temp_max" \in Highest[cmd] /\ cmd \in Commands
      BY <1>1 DEF METRICS, RowKeys, COLUMNS, Highest, Commands
    <3>2. PICK n \in Taken : \E s \in SamplesOf(cmd, state[n], m) : p = <<n, s>>
      BY DetailPairs DEF Pairs
    <3>3. PICK s \in SamplesOf(cmd, state[n], m) : p = <<n, s>>
      BY <3>2
    <3> HIDE DEF m
    <3>4. "error" \notin DOMAIN state[n]
      BY <3>3 DEF SamplesOf, Samples
    <3>5. PICK i \in PlacesOf(cmd, state[n], m) : s = SampleAt(cmd, state[n], m, i)
      <4>1. SamplesOf(cmd, state[n], m) =
              {SampleAt(cmd, state[n], m, i) : i \in PlacesOf(cmd, state[n], m)}
        BY <3>1, <3>4, SamplesAtPlaces
      <4> QED BY <3>3, <4>1
    <3>6. i \in PlacesOn(n, m) /\ s.value = ValuesOn(n, m)[i]
      BY <3>4, <3>5 DEF PlacesOn, SampleAt, ValuesOn
    <3> DEFINE top == MaxOf(state[n].gpus, "temp_c")
               x   == s.value
    <3>7. x <= top /\ x \in Nat
      BY <1>1, <3>1, <3>6, GpuDetail
    <3>8. ColumnOf("temp_max")[n] = top /\ top \in Nat
      <4>1. RowOf(n).temp_max = top
        BY <2>2 DEF GpuRow
      <4> QED BY <1>1, <3>1, <4>1, TakenRows
    <3>9. ColumnOf("temp_max")[n] <= c.temp_max /\ c.temp_max \in Nat
      BY <1>1, <3>1 DEF RowInv, IsHighest
    <3> HIDE DEF top, x
    <3>10. x <= c.temp_max
      BY <3>7, <3>8, <3>9
    <3> QED BY <3>3, <3>10 DEF x
  <2>7. /\ Cluster.gpus = c.gpus /\ Cluster.power_w = c.power_w
        /\ Cluster.mem_used_gb = c.mem_used_gb /\ Cluster.temp_max = c.temp_max
    BY <1>1, GpuCluster
  <2> QED BY <1>1, <2>3, <2>4, <2>5, <2>6, <2>7 DEF TotalsMatchDetail
<1>2. ASSUME RowInv, cmd \in {"cpu", "mem"}, NEW k \in Added[cmd],
             NEW m \in DOMAIN METRICS[cmd], METRICS[cmd][m] \in NumericKeys[cmd],
             \A n \in Taken : RowOf(n)[k] = Number(state[n], METRICS[cmd][m])
      PROVE  c[k] = DetailSum(m) + HalfSum(METRICS[cmd][m])
  <2> DEFINE key == METRICS[cmd][m]
             all == [n \in Node |-> Number(state[n], key)]
             f   == ColumnOf(k)
  <2>1. k \in RowKeys[cmd] /\ c[k] = SumAt(f, Taken)
    BY <1>2, KeysAdded DEF RowInv
  <2>2. \A n \in Taken : f[n] \in Int /\ f[n] = all[n]
    BY <1>2, <2>1, TakenRows
  <2>3. IsFiniteSet(Taken)
    BY <1>2, TakenRows
  <2>4. SumAt(all, Taken) = DetailSum(m) + HalfSum(key)
    BY <1>2, HalvesDetail
  <2> HIDE DEF f, all
  <2>5. SumAt(f, Taken) = SumAt(all, Taken)
    BY ONLY <2>2, <2>3, SumSame
  <2> QED BY <2>1, <2>4, <2>5
<1>3. ASSUME RowInv, cmd = "cpu" PROVE TotalsMatchDetail
  <2>1. \A n \in Taken : RowOf(n) = CpuRow(state[n]) /\ state[n] \in Answer("cpu")
    BY <1>3, TakenRows, RowOfType DEF RowOf, Row
  <2>2. c.sockets = DetailSum("hpcat_cpu_sockets_total")
    <3> DEFINE m == "hpcat_cpu_sockets_total"
    <3>1. /\ m \in DOMAIN METRICS[cmd] /\ METRICS[cmd][m] = "sockets"
          /\ "sockets" \in Added[cmd] /\ "sockets" \in NumericKeys[cmd]
      BY <1>3 DEF METRICS, Added, NumericKeys
    <3>2. \A n \in Taken : RowOf(n).sockets = Number(state[n], "sockets")
      BY <2>1 DEF CpuRow
    <3>3. c.sockets = DetailSum(m) + HalfSum("sockets")
      BY <1>2, <1>3, <3>1, <3>2
    <3>4. HalfSum("sockets") = 0
      <4> DEFINE f == [n \in Half |-> Number(state[n], "sockets")]
      <4>1. \A n \in Half : f[n] = 0
        <5>1. "sockets" \in HardwareKey.cpu
          BY DEF HardwareKey, LscpuKeys
        <5>2. \A n \in Half : n \in Taken /\ "error" \in DOMAIN state[n]
          BY DEF Half
        <5>3. \A n \in Half : "sockets" \notin DOMAIN state[n]
          BY <2>1, <5>1, <5>2, HalvesNumbers
        <5> QED BY <5>3 DEF Number, NumberOr
      <4>2. IsFiniteSet(Half)
        BY <1>3, TakenRows, FS_Subset DEF Half
      <4> HIDE DEF f
      <4>3. SumAt(f, Half) = 0
        BY <4>1, <4>2, SumZeros
      <4> QED BY <4>3 DEF f, HalfSum
    <3>5. DetailSum(m) \in Nat
      BY <1>3, <3>1, HalvesDetail
    <3> QED BY <3>3, <3>4, <3>5
  <2>3. c.cpus_total >= DetailSum("hpcat_slurm_cpu_total") + HalfSum("slurm_cputot")
    <3> DEFINE m == "hpcat_slurm_cpu_total"
               f == ColumnOf("cpus_total")
               g == [n \in Node |-> Number(state[n], "slurm_cputot")]
    <3>1. /\ m \in DOMAIN METRICS[cmd] /\ METRICS[cmd][m] = "slurm_cputot"
          /\ "slurm_cputot" \in NumericKeys[cmd] /\ "cpus_total" \in RowKeys[cmd]
          /\ "cpus_total" \in Added[cmd]
      BY <1>3 DEF METRICS, Added, NumericKeys, RowKeys, COLUMNS, SlurmKeys
    <3>2. SumAt(g, Taken) = DetailSum(m) + HalfSum("slurm_cputot")
      BY <1>3, <3>1, HalvesDetail
    <3>3. c.cpus_total = SumAt(f, Taken)
      BY <1>3, <3>1 DEF RowInv
    <3>4. ASSUME NEW n \in Taken PROVE g[n] \in Int /\ f[n] \in Int /\ g[n] <= f[n]
      <4> DEFINE x == Number(state[n], "slurm_cputot")
                 y == CpuCount(state[n])
      <4>1. f[n] = y /\ f[n] \in Nat
        BY <1>3, <2>1, <3>1, TakenRows DEF CpuRow
      <4>2. g[n] = x /\ x \in Nat
        BY <1>3, <2>1, <3>1, TakenRows, HalvesNumbers
      <4>3. x = y \/ x = 0
        BY DEF CpuCount, Number, NumberOr
      <4> HIDE DEF x, y, f, g
      <4> QED BY <4>1, <4>2, <4>3
    <3>5. IsFiniteSet(Taken)
      BY <1>3, TakenRows
    <3> HIDE DEF f, g
    <3>6. SumAt(g, Taken) <= SumAt(f, Taken)
      BY ONLY <3>4, <3>5, SumAtMost
    <3> DEFINE x == SumAt(g, Taken)
               y == SumAt(f, Taken)
    <3>7. x \in Int /\ y \in Int
      <4>1. /\ \A n \in Taken : g[n] \in Int
            /\ \A n \in Taken : f[n] \in Int
        BY <3>4
      <4> QED BY <3>5, <4>1, SumInt
    <3> HIDE DEF x, y
    <3>8. y >= x
      <4>1. x <= y
        BY <3>6 DEF x, y
      <4> QED BY <3>7, <4>1
    <3> QED BY <3>2, <3>3, <3>8 DEF x, y
  <2>4. Cluster.sockets = c.sockets /\ Cluster.cpus_total = c.cpus_total
    BY <1>3, CpuCluster
  <2> QED BY <1>3, <2>2, <2>3, <2>4 DEF TotalsMatchDetail
<1>4. ASSUME RowInv, cmd = "mem" PROVE TotalsMatchDetail
  <2>1. \A n \in Taken : RowOf(n) = MemRow(state[n]) /\ state[n] \in Answer("mem")
    BY <1>4, TakenRows, RowOfType DEF RowOf, Row
  <2>2. c.os_total_gb = DetailSum("hpcat_os_memory_total_bytes")
    <3> DEFINE m == "hpcat_os_memory_total_bytes"
    <3>1. /\ m \in DOMAIN METRICS[cmd] /\ METRICS[cmd][m] = "os_memtotal_mb"
          /\ "os_total_gb" \in Added[cmd] /\ "os_memtotal_mb" \in NumericKeys[cmd]
      BY <1>4 DEF METRICS, Added, NumericKeys, MeminfoKeys
    <3>2. \A n \in Taken : RowOf(n).os_total_gb = Number(state[n], "os_memtotal_mb")
      BY <2>1 DEF MemRow
    <3>3. c.os_total_gb = DetailSum(m) + HalfSum("os_memtotal_mb")
      BY <1>2, <1>4, <3>1, <3>2
    <3>4. HalfSum("os_memtotal_mb") = 0
      <4> DEFINE f == [n \in Half |-> Number(state[n], "os_memtotal_mb")]
      <4>1. \A n \in Half : f[n] = 0
        <5>1. "os_memtotal_mb" \in HardwareKey.mem
          BY DEF HardwareKey, MeminfoKeys
        <5>2. \A n \in Half : n \in Taken /\ "error" \in DOMAIN state[n]
          BY DEF Half
        <5>3. \A n \in Half : "os_memtotal_mb" \notin DOMAIN state[n]
          BY <2>1, <5>1, <5>2, HalvesNumbers
        <5> QED BY <5>3 DEF Number, NumberOr
      <4>2. IsFiniteSet(Half)
        BY <1>4, TakenRows, FS_Subset DEF Half
      <4> HIDE DEF f
      <4>3. SumAt(f, Half) = 0
        BY <4>1, <4>2, SumZeros
      <4> QED BY <4>3 DEF f, HalfSum
    <3>5. DetailSum(m) \in Nat
      BY <1>4, <3>1, HalvesDetail
    <3> QED BY <3>3, <3>4, <3>5
  <2>3. c.slurm_real_gb = DetailSum("hpcat_slurm_memory_real_bytes") + HalfSum("slurm_realmemory")
    <3> DEFINE m == "hpcat_slurm_memory_real_bytes"
    <3>1. /\ m \in DOMAIN METRICS[cmd] /\ METRICS[cmd][m] = "slurm_realmemory"
          /\ "slurm_real_gb" \in Added[cmd] /\ "slurm_realmemory" \in NumericKeys[cmd]
      BY <1>4 DEF METRICS, Added, NumericKeys, SlurmKeys
    <3>2. \A n \in Taken : RowOf(n).slurm_real_gb = Number(state[n], "slurm_realmemory")
      BY <2>1 DEF MemRow
    <3> QED BY <1>2, <1>4, <3>1, <3>2
  <2>4. c.slurm_free_gb = DetailSum("hpcat_slurm_memory_free_bytes") + HalfSum("slurm_freemem")
    <3> DEFINE m == "hpcat_slurm_memory_free_bytes"
    <3>1. /\ m \in DOMAIN METRICS[cmd] /\ METRICS[cmd][m] = "slurm_freemem"
          /\ "slurm_free_gb" \in Added[cmd] /\ "slurm_freemem" \in NumericKeys[cmd]
      BY <1>4 DEF METRICS, Added, NumericKeys, SlurmKeys
    <3>2. \A n \in Taken : RowOf(n).slurm_free_gb = Number(state[n], "slurm_freemem")
      BY <2>1 DEF MemRow
    <3> QED BY <1>2, <1>4, <3>1, <3>2
  <2>5. \A k \in {"os_total_gb", "slurm_real_gb", "slurm_free_gb"} : Cluster[k] = c[k]
    BY <1>4, MemCluster DEF Added
  <2> QED BY <1>4, <2>2, <2>3, <2>4, <2>5 DEF TotalsMatchDetail
<1>5. ASSUME RowInv, cmd = "net" PROVE TotalsMatchDetail
  <2>1. ASSUME NEW k \in Added[cmd], NEW m \in DOMAIN METRICS["net"],
               \A n \in Taken : RowOf(n)[k] = Counted(state[n], METRICS["net"][m])
        PROVE  c[k] = NetdevSum(m)
    <3> DEFINE f == ColumnOf(k)
               g == [n \in Node |-> Counted(state[n], METRICS["net"][m])]
    <3>1. k \in RowKeys[cmd] /\ c[k] = SumAt(f, Taken)
      BY <1>5, KeysAdded DEF RowInv
    <3>2. \A n \in Taken : f[n] \in Int /\ f[n] = g[n]
      BY <1>5, <2>1, <3>1, TakenRows
    <3>3. IsFiniteSet(Taken) /\ NetdevSum(m) = SumAt(g, Taken)
      BY <1>5, TakenRows, NetdevTotal
    <3> HIDE DEF f, g
    <3>4. SumAt(f, Taken) = SumAt(g, Taken)
      BY ONLY <3>2, <3>3, SumSame
    <3> QED BY <3>1, <3>3, <3>4
  <2>2. ASSUME NEW n \in Taken
        PROVE  /\ RowOf(n).out_of_buffer = Counted(state[n], "rx_out_of_buffer")
               /\ RowOf(n).link_down_events = Counted(state[n], "link_down_events_phy")
    BY <1>5 DEF RowOf, Row, NetRow
  <2>3. c.out_of_buffer = NetdevSum("hpcat_net_rx_out_of_buffer_total")
    <3> DEFINE m == "hpcat_net_rx_out_of_buffer_total"
    <3>1. /\ m \in DOMAIN METRICS["net"] /\ METRICS["net"][m] = "rx_out_of_buffer"
          /\ "out_of_buffer" \in Added[cmd]
      BY <1>5 DEF METRICS, Added
    <3>2. \A n \in Taken : RowOf(n).out_of_buffer = Counted(state[n], "rx_out_of_buffer")
      BY <2>2
    <3> QED BY <2>1, <3>1, <3>2
  <2>4. c.link_down_events = NetdevSum("hpcat_net_link_down_events_phy_total")
    <3> DEFINE m == "hpcat_net_link_down_events_phy_total"
    <3>1. /\ m \in DOMAIN METRICS["net"] /\ METRICS["net"][m] = "link_down_events_phy"
          /\ "link_down_events" \in Added[cmd]
      BY <1>5 DEF METRICS, Added
    <3>2. \A n \in Taken : RowOf(n).link_down_events = Counted(state[n], "link_down_events_phy")
      BY <2>2
    <3> QED BY <2>1, <3>1, <3>2
  <2> QED BY <1>5, <2>3, <2>4, LinkTotal, ErrorTotal, NetCluster DEF TotalsMatchDetail
<1>6. RowInv => TotalsMatchDetail
  BY <1>1, <1>3, <1>4, <1>5 DEF RowInv, TotalCommand
<1> QED BY <1>6, RowInvariant, PTL
-----------------------------------------------------------------------------
(* Alarms. *)

\* A netdev counts at one port of those that have it.
LEMMA FirstOfNetdev ==
  ASSUME NEW ports, NEW N \in Nat, DOMAIN ports = 1 .. N,
         NEW i \in DOMAIN ports, ports[i].netdev # "-"
  PROVE  \E j \in CountedPorts(ports) : ports[j].netdev = ports[i].netdev
<1> DEFINE S == {j \in 1 .. N : ports[j].netdev = ports[i].netdev}
           first == Min(S)
<1>1. i \in S /\ S \in SUBSET Int /\ S # {}
  OBVIOUS
<1>2. IsFiniteSet(S)
  <2>1. IsFiniteSet(1 .. N)
    BY FS_Interval
  <2>2. S \in SUBSET (1 .. N)
    OBVIOUS
  <2> QED BY <2>1, <2>2, FS_Subset
<1>3. \A j : j \in S <=> j \in 1 .. N /\ ports[j].netdev = ports[i].netdev
  OBVIOUS
<1> HIDE DEF S
<1>4. first \in S /\ \A j \in S : first <= j
  BY <1>1, <1>2, LowestIn
<1> HIDE DEF first
<1>5. \A j \in 1 .. first - 1 : ports[j].netdev # ports[first].netdev
  <2> SUFFICES ASSUME NEW j \in 1 .. first - 1, ports[j].netdev = ports[first].netdev
               PROVE  FALSE
    OBVIOUS
  <2>1. j \in S
    BY <1>3, <1>4
  <2>2. first <= j /\ first \in Int /\ j \in Int /\ j <= first - 1
    BY <1>3, <1>4, <2>1
  <2> QED BY <2>2
<1> QED BY <1>3, <1>4, <1>5 DEF CountedPorts

\* What is true of no missing counters is true of a port's where it is of a
\* counted port's.
LEMMA AtSomePort ==
  ASSUME NEW d \in Answer("net"), HasRow("net", DOMAIN d), NEW T, NoStats \notin T
  PROVE  (\E i \in CountedPorts(d.ports) : Stats(d, d.ports[i]) \in T) <=>
           \E i \in DOMAIN d.ports : Stats(d, d.ports[i]) \in T
<1> DEFINE p == d.ports
<1>1. /\ Len(p) \in Nat /\ DOMAIN p = 1 .. Len(p) /\ CountedPorts(p) \in SUBSET DOMAIN p
  BY Ports
<1>2. ASSUME NEW i \in DOMAIN p, Stats(d, p[i]) \in T
      PROVE  \E j \in CountedPorts(p) : Stats(d, p[j]) \in T
  <2>1. p[i].netdev # "-"
    BY <1>2 DEF Stats
  <2>2. PICK j \in CountedPorts(p) : p[j].netdev = p[i].netdev
    BY <1>1, <2>1, FirstOfNetdev
  <2>3. Stats(d, p[j]) = Stats(d, p[i])
    BY <2>2 DEF Stats
  <2> QED BY <1>2, <2>3
<1> QED BY <1>1, <1>2

\* Is the sample one to be alarmed about?
Alarming(s) == \/ s.metric = "hpcat_ib_port_link_up" /\ s.value = 0
               \/ s.metric \in ErrorMetrics /\ s.value > 0

\* A port that is not up has a link sample of 0.
LEMMA LinkAlarm ==
  ASSUME NEW d \in Answer("net"), HasRow("net", DOMAIN d)
  PROVE  NetRow(d).ports_up < Len(d.ports) <=>
           \E s \in Samples("net", d) : s.metric = "hpcat_ib_port_link_up" /\ s.value = 0
<1> DEFINE p  == d.ports
           N  == Len(p)
           up == {i \in DOMAIN p : p[i].state = "ACTIVE"}
           I  == 1 .. N
<1>1. "error" \notin DOMAIN d /\ N \in Nat /\ DOMAIN p = I
  BY Ports
<1>2. NetRow(d).ports_up = Cardinality(up)
  BY DEF NetRow
<1>3. IsFiniteSet(I) /\ Cardinality(I) = N
  <2> HIDE DEF N
  <2>1. 1 \in Int /\ N \in Int
    BY <1>1
  <2>2. IsFiniteSet(1 .. N) /\ Cardinality(1 .. N) = IF 1 <= N THEN N - 1 + 1 ELSE 0
    BY <2>1, FS_Interval
  <2> QED BY <1>1, <2>2
<1>4. up \in SUBSET I /\ (up = I <=> \A i \in DOMAIN p : p[i].state = "ACTIVE")
  BY <1>1
<1> HIDE DEF up, I, N
<1>5. /\ Cardinality(up) \in Nat /\ Cardinality(up) <= N
      /\ Cardinality(up) = N => up = I
  <2>1. IsFiniteSet(up) /\ Cardinality(up) <= Cardinality(I)
        /\ (Cardinality(up) = Cardinality(I) => up = I)
    BY <1>3, <1>4, FS_Subset
  <2> QED BY <1>3, <2>1, FS_CardinalityType
<1>6. Cardinality(up) < N <=> up # I
  BY <1>1, <1>3, <1>5
<1>7. SamplesOf("net", d, "hpcat_ib_port_link_up") = {LinkSample(d, i) : i \in DOMAIN p}
  BY <1>1, SamplesOfPorts
<1>8. \A i \in DOMAIN p : LinkSample(d, i).value = 0 <=> p[i].state # "ACTIVE"
  BY DEF LinkSample
<1>9. (\E s \in Samples("net", d) : s.metric = "hpcat_ib_port_link_up" /\ s.value = 0) <=>
        \E i \in DOMAIN p : p[i].state # "ACTIVE"
  <2>1. (\E s \in Samples("net", d) : s.metric = "hpcat_ib_port_link_up" /\ s.value = 0) <=>
          \E s \in SamplesOf("net", d, "hpcat_ib_port_link_up") : s.value = 0
    BY DEF SamplesOf
  <2> HIDE DEF p
  <2> QED BY <1>7, <1>8, <2>1
<1> QED BY <1>2, <1>4, <1>6, <1>9 DEF N

\* An error counter that is not zero has a sample that is not.
LEMMA ErrorAlarm ==
  ASSUME NEW d \in Answer("net"), HasRow("net", DOMAIN d)
  PROVE  NetRow(d).errors > 0 <=>
           \E s \in Samples("net", d) : s.metric \in ErrorMetrics /\ s.value > 0
<1> DEFINE p    == d.ports
           t    == METRICS["net"]
           K    == NET_ERROR_KEYS
           C    == [k \in K |-> Counted(d, k)]
           bad(k) == {x \in {Stats(d, p[i]) : i \in DOMAIN p} : Number(x, k) > 0}
<1>1. /\ "error" \notin DOMAIN d /\ CountedPorts(p) \in SUBSET DOMAIN p
      /\ IsFiniteSet(CountedPorts(p))
      /\ \A i \in DOMAIN p : \A k : Number(Stats(d, p[i]), k) \in Nat
      /\ \A k : Counted(d, k) \in Nat
  BY Ports
<1>2. NetRow(d).errors = SumAt(C, K)
  BY DEF NetRow
<1>3. NetRow(d).errors > 0 <=> \E k \in K : Counted(d, k) > 0
  <2>1. \A k \in K : C[k] \in Nat /\ C[k] = Counted(d, k)
    BY <1>1
  <2> HIDE DEF C
  <2>2. SumAt(C, K) > 0 <=> \E k \in K : C[k] > 0
    BY <2>1, ErrorKeysFinite, SumPositive
  <2> QED BY <1>2, <2>1, <2>2
<1>4. ASSUME NEW k
      PROVE  Counted(d, k) > 0 <=> \E i \in DOMAIN p : Number(Stats(d, p[i]), k) > 0
  <2> DEFINE col == [i \in DOMAIN p |-> Number(Stats(d, p[i]), k)]
             S   == CountedPorts(p)
             T   == bad(k)
  <2>1. Counted(d, k) = SumAt(col, S)
    BY DEF Counted
  <2>2. \A i \in S : col[i] \in Nat /\ col[i] = Number(Stats(d, p[i]), k) /\ i \in DOMAIN p
    BY <1>1
  <2>3. NoStats \notin T
    BY DEF Number, NumberOr, NoStats
  <2>4. \A i \in DOMAIN p : Stats(d, p[i]) \in T <=> Number(Stats(d, p[i]), k) > 0
    OBVIOUS
  <2> HIDE DEF T, col
  <2>5. SumAt(col, S) > 0 <=> \E i \in S : col[i] > 0
    BY <1>1, <2>2, SumPositive
  <2>6. (\E i \in S : Stats(d, p[i]) \in T) <=> \E i \in DOMAIN p : Stats(d, p[i]) \in T
    BY <2>3, AtSomePort
  <2> HIDE DEF S
  <2> QED BY <2>1, <2>2, <2>4, <2>5, <2>6
<1>5. /\ DOMAIN Parts("net", d) = DOMAIN p
      /\ \A i \in DOMAIN p : Parts("net", d)[i] = Stats(d, p[i])
  BY DEF Parts
<1>6. ASSUME NEW m \in ErrorMetrics
      PROVE  (\E s \in Samples("net", d) : s.metric = m /\ s.value > 0) <=>
               \E i \in DOMAIN p : Number(Stats(d, p[i]), t[m]) > 0
  <2>1. m \in DOMAIN t
    BY ErrorCounters
  <2>2. SamplesOf("net", d, m) = {SampleAt("net", d, m, i) : i \in PlacesOf("net", d, m)}
    BY <1>1, <2>1, SamplesAtPlaces DEF Commands
  <2>3. \A i : i \in PlacesOf("net", d, m) <=> i \in DOMAIN p /\ Stats(d, p[i]) # NoStats
    BY <1>5 DEF PlacesOf, HasSample
  <2>4. t[m] # "pcent"
    BY <2>1 DEF METRICS
  <2>5. \A i \in DOMAIN p : SampleAt("net", d, m, i).value = Number(Stats(d, p[i]), t[m])
    BY <1>5, <2>4 DEF SampleAt, Value, Number
  <2>6. \A i \in DOMAIN p : Number(Stats(d, p[i]), t[m]) > 0 => Stats(d, p[i]) # NoStats
    BY DEF Number, NumberOr, NoStats
  <2>7. (\E s \in Samples("net", d) : s.metric = m /\ s.value > 0) <=>
          \E s \in SamplesOf("net", d, m) : s.value > 0
    BY DEF SamplesOf
  <2> HIDE DEF p, t
  <2> QED BY <2>2, <2>3, <2>5, <2>6, <2>7
<1>7. /\ \A m \in ErrorMetrics : t[m] \in K
      /\ \A k \in K : \E m \in ErrorMetrics : k = t[m]
  BY ErrorCounters
<1>8. (\E s \in Samples("net", d) : s.metric \in ErrorMetrics /\ s.value > 0) <=>
        \E m \in ErrorMetrics : \E s \in Samples("net", d) : s.metric = m /\ s.value > 0
  OBVIOUS
<1> HIDE DEF t, K, p, bad
<1> QED BY <1>3, <1>4, <1>6, <1>7, <1>8

LEMMA NodeAlarm ==
  ASSUME NEW d \in Answer("net"), HasRow("net", DOMAIN d)
  PROVE  /\ NetRow(d).nodes_degraded =
              IF \E s \in Samples("net", d) : Alarming(s) THEN 1 ELSE 0
         /\ NetRow(d).pause_active =
              IF \E s \in SamplesOf("net", d, "hpcat_net_pause_frames_active") : s.value = 1
                THEN 1 ELSE 0
<1> DEFINE p == d.ports
           row == NetRow(d)
           T == {x \in {Stats(d, p[i]) : i \in DOMAIN p} : Paused(x)}
<1>1. row.nodes_degraded = IF row.ports_up < Len(p) \/ row.errors > 0 THEN 1 ELSE 0
  BY DEF NetRow
<1>2. row.nodes_degraded = IF \E s \in Samples("net", d) : Alarming(s) THEN 1 ELSE 0
  <2>1. (\E s \in Samples("net", d) : Alarming(s)) <=>
          \/ \E s \in Samples("net", d) : s.metric = "hpcat_ib_port_link_up" /\ s.value = 0
          \/ \E s \in Samples("net", d) : s.metric \in ErrorMetrics /\ s.value > 0
    BY DEF Alarming
  <2> HIDE DEF row
  <2> QED BY <1>1, <2>1, LinkAlarm, ErrorAlarm DEF row
<1>3. row.pause_active = IF \E i \in CountedPorts(p) : Paused(Stats(d, p[i])) THEN 1 ELSE 0
  BY DEF NetRow
<1>4. NoStats \notin T
  BY DEF Paused, Number, NumberOr, NoStats
<1>5. \A i \in DOMAIN p : Stats(d, p[i]) \in T <=> Paused(Stats(d, p[i]))
  OBVIOUS
<1>6. "error" \notin DOMAIN d /\ CountedPorts(p) \in SUBSET DOMAIN p
  BY Ports
<1> HIDE DEF T
<1>7. (\E i \in CountedPorts(p) : Stats(d, p[i]) \in T) <=>
        \E i \in DOMAIN p : Stats(d, p[i]) \in T
  BY <1>4, AtSomePort
<1>8. (\E i \in CountedPorts(p) : Paused(Stats(d, p[i]))) <=>
        \E i \in DOMAIN p : Paused(Stats(d, p[i]))
  BY <1>5, <1>6, <1>7
<1>9. SamplesOf("net", d, "hpcat_net_pause_frames_active") =
        {PauseSample(d, i) : i \in {j \in DOMAIN p : Stats(d, p[j]) # NoStats}}
  BY <1>6, SamplesOfPorts
<1>10. \A i \in DOMAIN p : /\ PauseSample(d, i).value = 1 <=> Paused(Stats(d, p[i]))
                           /\ Paused(Stats(d, p[i])) => Stats(d, p[i]) # NoStats
  BY <1>4, <1>5 DEF PauseSample
<1>11. (\E s \in SamplesOf("net", d, "hpcat_net_pause_frames_active") : s.value = 1) <=>
         \E i \in DOMAIN p : Paused(Stats(d, p[i]))
  <2> HIDE DEF p
  <2> QED BY <1>9, <1>10
<1> QED BY <1>2, <1>3, <1>8, <1>11

\* No alarm is averaged away: the degraded nodes are those with a sample to be
\* alarmed about, and pause frames at any port show in the total.
THEOREM NoAlarmLost == Spec => []AlarmsSurviveTotals
<1>1. ASSUME RowInv, cmd = "net" PROVE AlarmsSurviveTotals
  <2> DEFINE alarmed == {n \in Taken : \E s \in Samples("net", state[n]) : Alarming(s)}
             paused(n) == \E s \in SamplesOf("net", state[n], "hpcat_net_pause_frames_active") :
                            s.value = 1
             f == ColumnOf("nodes_degraded")
             g == ColumnOf("pause_active")
  <2>1. /\ {"nodes_degraded", "pause_active"} \subseteq RowKeys[cmd]
        /\ "nodes_degraded" \in Added[cmd] /\ "pause_active" \in Highest[cmd]
    BY <1>1 DEF RowKeys, COLUMNS, Added, Highest
  <2>2. ASSUME NEW n \in Taken
        PROVE  /\ f[n] = IF n \in alarmed THEN 1 ELSE 0
               /\ g[n] = IF paused(n) THEN 1 ELSE 0
    <3>1. RowOf(n) = NetRow(state[n])
      BY <1>1 DEF RowOf, Row
    <3>2. f[n] = NetRow(state[n]).nodes_degraded /\ g[n] = NetRow(state[n]).pause_active
      BY <1>1, <2>1, <3>1, TakenRows
    <3>3. state[n] \in Answer("net") /\ HasRow("net", DOMAIN state[n])
      BY <1>1, TakenPorts
    <3> QED BY <3>2, <3>3, NodeAlarm
  <2>3. c.nodes_degraded = Cardinality(alarmed)
    <3>1. IsFiniteSet(Taken) /\ alarmed \in SUBSET Taken
      BY <1>1, TakenRows
    <3>2. /\ \A n \in Taken : f[n] \in Int
          /\ \A n \in Taken \ alarmed : f[n] = 0
          /\ \A n \in alarmed : f[n] = 1
      <4> HIDE DEF f, alarmed
      <4> QED BY <2>2, <3>1
    <3>3. IsFiniteSet(alarmed)
      BY <3>1, FS_Subset
    <3>4. c.nodes_degraded = SumAt(f, Taken)
      BY <1>1, <2>1 DEF RowInv
    <3> HIDE DEF f, alarmed
    <3>5. SumAt(f, Taken) = SumAt(f, alarmed)
      BY ONLY <3>1, <3>2, SumSupport
    <3>6. SumAt(f, alarmed) = Cardinality(alarmed)
      BY ONLY <3>2, <3>3, CountIsSum
    <3> QED BY <3>4, <3>5, <3>6
  <2>4. c.pause_active = 1 <=> \E n \in Taken : paused(n)
    <3>1. IsHighest(c.pause_active, g, Taken) /\ c.pause_active \in Nat
      BY <1>1, <2>1 DEF RowInv
    <3> HIDE DEF g, paused
    <3> QED BY <2>2, <3>1 DEF IsHighest
  <2>5. (\E p \in Detail("hpcat_net_pause_frames_active") : p[2].value = 1) <=>
          \E n \in Taken : paused(n)
    <3> DEFINE S(n) == SamplesOf(cmd, state[n], "hpcat_net_pause_frames_active")
               all  == Detail("hpcat_net_pause_frames_active")
    <3>1. \A p : p \in all <=> \E n \in Taken : \E s \in S(n) : p = <<n, s>>
      BY DetailPairs DEF Pairs
    <3>2. \A n \in Taken : paused(n) <=> \E s \in S(n) : s.value = 1
      BY <1>1
    <3> HIDE DEF S, all, paused
    <3>3. ASSUME NEW p \in all, p[2].value = 1 PROVE \E n \in Taken : paused(n)
      BY <3>1, <3>2, <3>3
    <3>4. ASSUME NEW n \in Taken, paused(n) PROVE \E p \in all : p[2].value = 1
      <4>1. PICK s \in S(n) : s.value = 1
        BY <3>2, <3>4
      <4>2. <<n, s>> \in all /\ <<n, s>>[2].value = 1
        BY <3>1, <4>1
      <4> QED BY <4>2
    <3> QED BY <3>3, <3>4 DEF all
  <2>6. Cluster = c
    BY <1>1, NetCluster
  <2> QED BY <2>3, <2>4, <2>5, <2>6 DEF AlarmsSurviveTotals, Alarming
<1>2. RowInv => AlarmsSurviveTotals
  BY <1>1 DEF AlarmsSurviveTotals
<1> QED BY <1>2, RowInvariant, PTL
=============================================================================
