---------------------------- MODULE Views_proofs ----------------------------
(***************************************************************************)
(* Proofs about the detail formats, for every dictionary a node may have:  *)
(* nothing is assumed of its listings or its values.                       *)
(***************************************************************************)
EXTENDS Views, TLAPS

Commands == {"gpu", "cpu", "mem", "net", "stg"}

\* The keys that need more than being there belong to listings of storage.
LEMMA StorageKeys ==
  ASSUME NEW cmd \in Commands \ {"stg"}, NEW m \in DOMAIN METRICS[cmd]
  PROVE  METRICS[cmd][m] \notin MountSizes \cup {"use_pct"}
<1>1. CASE cmd = "gpu"
  BY <1>1 DEF METRICS, MountSizes
<1>2. CASE cmd = "cpu"
  BY <1>2 DEF METRICS, MountSizes
<1>3. CASE cmd = "mem"
  BY <1>3 DEF METRICS, MountSizes
<1>4. CASE cmd = "net"
  BY <1>4 DEF METRICS, MountSizes
<1> QED BY <1>1, <1>2, <1>3, <1>4 DEF Commands

LEMMA StorageSizes ==
  ASSUME NEW m \in DOMAIN METRICS["stg"]
  PROVE  METRICS["stg"][m] \in MountSizes => METRICS["stg"][m] = "avail_1k"
  BY DEF METRICS, MountSizes

\* Two metrics of a port are none of the table's.
LEMMA PortMetrics ==
  {"hpcat_ib_port_link_up", "hpcat_net_pause_frames_active"} \cap DOMAIN METRICS["net"] = {}
  BY DEF METRICS

\* The value of a metric's sample, and the values it has at one place.
Value(cmd, part, k) == NumberOr(part, k, IF k = "pcent" THEN Unknown ELSE 0)
ShownAt(cmd, d, m, i) == {s.value : s \in {x \in Samples(cmd, d) : x.metric = m /\ x.at = i}}

LEMMA ValuesAtPlace ==
  ASSUME NEW cmd \in Commands, NEW d, "error" \notin DOMAIN d,
         NEW m \in DOMAIN METRICS[cmd], NEW i \in DOMAIN Parts(cmd, d)
  PROVE  ShownAt(cmd, d, m, i) =
           IF HasSample(cmd, Parts(cmd, d)[i], METRICS[cmd][m])
             THEN {Value(cmd, Parts(cmd, d)[i], METRICS[cmd][m])} ELSE {}
<1> DEFINE part == Parts(cmd, d)
           Place == {q \in (DOMAIN METRICS[cmd]) \X (DOMAIN part) :
                       HasSample(cmd, part[q[2]], METRICS[cmd][q[1]])}
           Sample(p) == [metric |-> p[1], at |-> p[2], labels |-> Labels(cmd, d, p[2]),
                         value |-> Value(cmd, part[p[2]], METRICS[cmd][p[1]])]
<1>1. \A x \in Samples(cmd, d) : x.metric = m => \E p \in Place : x = Sample(p)
  <2>1. \A x \in PortSamples(d) :
          x.metric \in {"hpcat_ib_port_link_up", "hpcat_net_pause_frames_active"}
    BY DEF PortSamples
  <2>2. cmd = "net" => \A x \in PortSamples(d) : x.metric # m
    BY <2>1, PortMetrics
  <2> QED BY <2>2 DEF Samples, Value
<1>2. \A p \in Place : Sample(p) \in Samples(cmd, d)
  BY DEF Samples, Value
<1>3. HasSample(cmd, part[i], METRICS[cmd][m]) <=> <<m, i>> \in Place
  OBVIOUS
<1>4. \A p \in Place : Sample(p).metric = m /\ Sample(p).at = i => p = <<m, i>>
  OBVIOUS
<1>5. Sample(<<m, i>>).value = Value(cmd, part[i], METRICS[cmd][m])
  OBVIOUS
<1>6. Sample(<<m, i>>).metric = m /\ Sample(<<m, i>>).at = i
  OBVIOUS
<1> HIDE DEF Place, Sample, part
<1>7. CASE <<m, i>> \in Place
  BY <1>1, <1>2, <1>3, <1>4, <1>5, <1>6, <1>7 DEF ShownAt, part
<1>8. CASE <<m, i>> \notin Place
  BY <1>1, <1>3, <1>4, <1>8 DEF ShownAt, part
<1> QED BY <1>7, <1>8

\* CSV and Prometheus agree about every dictionary: every number of a CSV line
\* has its sample, and a sample without one is 0, the sentinel or a size.
LEMMA ViewsAgreeAlways ==
  ASSUME NEW cmd \in Commands, NEW d PROVE DetailViewsAgree(cmd, d)
<1> SUFFICES ASSUME "error" \notin DOMAIN d,
                    NEW m \in DOMAIN METRICS[cmd], NEW i \in DOMAIN Parts(cmd, d)
             PROVE  LET k     == METRICS[cmd][m]
                        cell  == Cell(cmd, d, i, k)
                        shown == ShownAt(cmd, d, m, i)
                    IN  IF cell \subseteq {NA} THEN shown \subseteq {0, Unknown} \/ k = "avail_1k"
                        ELSE shown = cell
  BY DEF DetailViewsAgree, ShownAt
<1> DEFINE part == Parts(cmd, d)[i]
           k    == METRICS[cmd][m]
           cell == Cell(cmd, d, i, k)
<1>1. ShownAt(cmd, d, m, i) = IF HasSample(cmd, part, k) THEN {Value(cmd, part, k)} ELSE {}
  BY ValuesAtPlace
<1>2. k \in MountSizes => cmd = "stg" /\ k = "avail_1k"
  BY StorageKeys, StorageSizes
<1>3. k = "use_pct" => cmd = "stg"
  BY StorageKeys
<1>4. cell = IF \/ k \notin DOMAIN part
                \/ k \in MountSizes /\ \E s \in MountSizes : part[s] = NA
                \/ k = "use_pct" /\ "target" \notin DOMAIN part
               THEN {} ELSE {part[k]}
  BY DEF Cell
<1>5. "avail_1k" \in MountSizes
  BY DEF MountSizes
<1> HIDE DEF part, k, cell
<1>6. Value(cmd, part, k) = IF k \in DOMAIN part /\ part[k] # NA THEN part[k]
                            ELSE IF k = "pcent" THEN Unknown ELSE 0
  BY DEF Value, NumberOr
<1>7. ASSUME cell \subseteq {NA}, k # "avail_1k"
      PROVE  ShownAt(cmd, d, m, i) \subseteq {0, Unknown}
  <2>1. \/ k \notin DOMAIN part \/ part[k] = NA
        \/ cmd = "stg" /\ k = "use_pct" /\ "target" \notin DOMAIN part
    BY <1>2, <1>3, <1>4, <1>7
  <2>2. CASE k \notin DOMAIN part \/ part[k] = NA
    <3>1. Value(cmd, part, k) \in {0, Unknown}
      BY <1>6, <2>2
    <3> QED BY <1>1, <3>1
  <2>3. CASE cmd = "stg" /\ k = "use_pct" /\ "target" \notin DOMAIN part
    <3>1. ~ HasSample(cmd, part, k)
      BY <2>3 DEF HasSample
    <3> QED BY <1>1, <3>1
  <2> QED BY <2>1, <2>2, <2>3
<1>8. ASSUME ~ (cell \subseteq {NA})
      PROVE  ShownAt(cmd, d, m, i) = cell
  <2>1. cell = {part[k]} /\ k \in DOMAIN part /\ part[k] # NA
    BY <1>4, <1>8
  <2>2. HasSample(cmd, part, k)
    <3>1. k = "use_pct" => "target" \in DOMAIN part
      BY <1>4, <1>8
    <3>2. cmd = "net" => part # NoStats
      BY <2>1 DEF NoStats
    <3> QED BY <2>1, <3>1, <3>2 DEF HasSample, Commands
  <2> QED BY <1>1, <1>6, <1>8, <2>1, <2>2
<1> QED BY <1>7, <1>8 DEF part, k, cell

\* A sample stands for a part that has it, and has that part's labels.
LEMMA SampleOf ==
  ASSUME NEW cmd \in Commands, NEW d, NEW s \in Samples(cmd, d)
  PROVE  /\ s.at \in DOMAIN Parts(cmd, d)
         /\ s.labels = Labels(cmd, d, s.at)
         /\ cmd # "net" => /\ s.metric \in DOMAIN METRICS[cmd]
                           /\ HasSample(cmd, Parts(cmd, d)[s.at], METRICS[cmd][s.metric])
<1> DEFINE part == Parts(cmd, d)
           Place == {q \in (DOMAIN METRICS[cmd]) \X (DOMAIN part) :
                       HasSample(cmd, part[q[2]], METRICS[cmd][q[1]])}
           Sample(p) == [metric |-> p[1], at |-> p[2], labels |-> Labels(cmd, d, p[2]),
                         value |-> Value(cmd, part[p[2]], METRICS[cmd][p[1]])]
<1>1. CASE \E p \in Place : s = Sample(p)
  <2>1. PICK p \in Place : s = Sample(p)
    BY <1>1
  <2>2. s.metric = p[1] /\ s.at = p[2] /\ s.labels = Labels(cmd, d, p[2])
    BY <2>1
  <2>3. p[1] \in DOMAIN METRICS[cmd] /\ p[2] \in DOMAIN part
        /\ HasSample(cmd, part[p[2]], METRICS[cmd][p[1]])
    OBVIOUS
  <2> QED BY <2>2, <2>3
<1>2. CASE cmd = "net" /\ s \in PortSamples(d)
  <2>1. s.at \in DOMAIN d.ports /\ s.labels = NetLabels(d, s.at)
    BY <1>2 DEF PortSamples
  <2>2. DOMAIN part = DOMAIN d.ports
    BY <1>2 DEF Parts
  <2> QED BY <1>2, <2>1, <2>2 DEF Labels
<1>3. (\E p \in Place : s = Sample(p)) \/ (cmd = "net" /\ s \in PortSamples(d))
  BY DEF Samples, Value
<1> QED BY <1>1, <1>2, <1>3

\* Where the labels of no two parts are alike, neither are those of two samples.
LEMMA LabelsDistinct ==
  ASSUME NEW cmd \in Commands, NEW d,
         \A i, j \in DOMAIN Parts(cmd, d) : Labels(cmd, d, i) = Labels(cmd, d, j) => i = j
  PROVE  OneSamplePerSeries(cmd, d)
BY SampleOf DEF OneSamplePerSeries

\* The sample of a metric at a place, and the two a port has besides.
SampleAt(cmd, d, m, i) == [metric |-> m, at |-> i, labels |-> Labels(cmd, d, i),
                           value |-> Value(cmd, Parts(cmd, d)[i], METRICS[cmd][m])]
LinkSample(d, i) == [metric |-> "hpcat_ib_port_link_up", at |-> i, labels |-> NetLabels(d, i),
                     value |-> IF d.ports[i].state = "ACTIVE" THEN 1 ELSE 0]
PauseSample(d, i) == [metric |-> "hpcat_net_pause_frames_active", at |-> i,
                      labels |-> NetLabels(d, i),
                      value |-> IF Paused(Stats(d, d.ports[i])) THEN 1 ELSE 0]

\* The samples of a metric, and the places that have one.
SamplesOf(cmd, d, m) == {x \in Samples(cmd, d) : x.metric = m}
PlacesOf(cmd, d, m) ==
  {i \in DOMAIN Parts(cmd, d) : HasSample(cmd, Parts(cmd, d)[i], METRICS[cmd][m])}

\* The samples of a metric are those of its places, one for each.
LEMMA SamplesAtPlaces ==
  ASSUME NEW cmd \in Commands, NEW d, "error" \notin DOMAIN d, NEW m \in DOMAIN METRICS[cmd]
  PROVE  SamplesOf(cmd, d, m) = {SampleAt(cmd, d, m, i) : i \in PlacesOf(cmd, d, m)}
<1> DEFINE part == Parts(cmd, d)
           Place == {q \in (DOMAIN METRICS[cmd]) \X (DOMAIN part) :
                       HasSample(cmd, part[q[2]], METRICS[cmd][q[1]])}
<1>1. ASSUME NEW x \in Samples(cmd, d), x.metric = m
      PROVE  \E i \in PlacesOf(cmd, d, m) : x = SampleAt(cmd, d, m, i)
  <2>1. \A y \in PortSamples(d) :
          y.metric \in {"hpcat_ib_port_link_up", "hpcat_net_pause_frames_active"}
    BY DEF PortSamples
  <2>2. cmd = "net" => x \notin PortSamples(d)
    BY <1>1, <2>1, PortMetrics
  <2>3. PICK p \in Place : x = SampleAt(cmd, d, p[1], p[2])
    BY <2>2 DEF Samples, Value, SampleAt
  <2>4. p[1] = m
    BY <1>1, <2>3 DEF SampleAt
  <2>5. p[2] \in PlacesOf(cmd, d, m)
    BY <2>4 DEF PlacesOf
  <2> QED BY <2>3, <2>4, <2>5
<1>2. ASSUME NEW i \in PlacesOf(cmd, d, m)
      PROVE  SampleAt(cmd, d, m, i) \in Samples(cmd, d) /\ SampleAt(cmd, d, m, i).metric = m
  <2>1. <<m, i>> \in Place
    BY DEF PlacesOf
  <2>2. \A p \in Place : SampleAt(cmd, d, p[1], p[2]) \in Samples(cmd, d)
    BY DEF Samples, Value, SampleAt
  <2>3. SampleAt(cmd, d, m, i) \in Samples(cmd, d)
    <3> DEFINE p == <<m, i>>
    <3>1. p[1] = m /\ p[2] = i
      OBVIOUS
    <3> HIDE DEF p, Place
    <3> QED BY <2>1, <2>2, <3>1 DEF p
  <2> QED BY <2>3 DEF SampleAt
<1>3. ASSUME NEW x PROVE x \in SamplesOf(cmd, d, m) <=>
                         \E i \in PlacesOf(cmd, d, m) : x = SampleAt(cmd, d, m, i)
  BY <1>1, <1>2 DEF SamplesOf
<1> QED BY <1>3

LEMMA SamplesOfPorts ==
  ASSUME NEW d, "error" \notin DOMAIN d
  PROVE  /\ SamplesOf("net", d, "hpcat_ib_port_link_up") =
              {LinkSample(d, i) : i \in DOMAIN d.ports}
         /\ SamplesOf("net", d, "hpcat_net_pause_frames_active") =
              {PauseSample(d, i) : i \in {j \in DOMAIN d.ports : Stats(d, d.ports[j]) # NoStats}}
<1> DEFINE L == {LinkSample(d, i) : i \in DOMAIN d.ports}
           P == {PauseSample(d, i) : i \in {j \in DOMAIN d.ports : Stats(d, d.ports[j]) # NoStats}}
<1>1. \A x \in Samples("net", d) : x \in L \cup P \/ x.metric \in DOMAIN METRICS["net"]
  BY DEF Samples, PortSamples, LinkSample, PauseSample
<1>2. L \cup P \subseteq Samples("net", d)
  BY DEF Samples, PortSamples, LinkSample, PauseSample
<1>3. /\ \A x \in L : x.metric = "hpcat_ib_port_link_up"
      /\ \A x \in P : x.metric = "hpcat_net_pause_frames_active"
  BY DEF LinkSample, PauseSample
<1> HIDE DEF L, P
<1>4. /\ "hpcat_ib_port_link_up" \notin DOMAIN METRICS["net"]
      /\ "hpcat_net_pause_frames_active" \notin DOMAIN METRICS["net"]
  BY PortMetrics
<1>5. SamplesOf("net", d, "hpcat_ib_port_link_up") = L
  BY <1>1, <1>2, <1>3, <1>4 DEF SamplesOf
<1>6. SamplesOf("net", d, "hpcat_net_pause_frames_active") = P
  BY <1>1, <1>2, <1>3, <1>4 DEF SamplesOf
<1> QED BY <1>5, <1>6 DEF L, P

-----------------------------------------------------------------------------
(* The -t view. *)

\* Every column has a metric of its own.
LEMMA ColumnsHaveMetrics ==
  ASSUME NEW cmd \in Commands PROVE COLUMNS[cmd] \subseteq SUMMARY_METRICS[cmd]
<1>1. CASE cmd = "gpu"
  BY <1>1 DEF COLUMNS, SUMMARY_METRICS
<1>2. CASE cmd = "cpu"
  BY <1>2 DEF COLUMNS, SUMMARY_METRICS
<1>3. CASE cmd = "mem"
  BY <1>3 DEF COLUMNS, SUMMARY_METRICS
<1>4. CASE cmd = "net"
  BY <1>4 DEF COLUMNS, SUMMARY_METRICS
<1>5. CASE cmd = "stg"
  BY <1>5 DEF COLUMNS, SUMMARY_METRICS
<1> QED BY <1>1, <1>2, <1>3, <1>4, <1>5 DEF Commands

\* Rows that have the columns fit the tables.
LEMMA RowsFit ==
  ASSUME NEW cmd \in Commands, NEW rows, NEW cluster,
         \A row \in Range(rows) \cup {cluster} :
           COLUMNS[cmd] \subseteq DOMAIN row /\ \A k \in COLUMNS[cmd] : row[k] # Blank,
         SUMMARY_METRICS[cmd] \subseteq DOMAIN cluster
  PROVE  SummaryViewsAgree(cmd, rows, cluster)
<1>1. ASSUME NEW row \in Range(rows) \cup {cluster}, NEW k \in COLUMNS[cmd]
      PROVE  /\ SummaryCell(row, k) # Blank
             /\ k \in DOMAIN SummarySamples(cmd, row)
             /\ SummarySamples(cmd, row)[k] = SummaryCell(row, k)
  <2>1. k \in DOMAIN row /\ row[k] # Blank /\ k \in SUMMARY_METRICS[cmd]
    BY ColumnsHaveMetrics
  <2> QED BY <2>1 DEF SummaryCell, SummarySamples
<1>2. DOMAIN SummarySamples(cmd, cluster) = SUMMARY_METRICS[cmd]
  BY DEF SummarySamples
<1> QED BY <1>1, <1>2 DEF SummaryViewsAgree
=============================================================================
