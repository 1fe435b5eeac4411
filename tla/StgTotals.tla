----------------------------- MODULE StgTotals -----------------------------
(***************************************************************************)
(* `hpcat stg -t` (core/summarize.py, _summarize_stg): folding what every  *)
(* node says of its mounts and storage targets into one cluster row.  The  *)
(* loop takes the nodes in the order of the dictionary, which is the order *)
(* their polls completed in, so here it takes them in any order.           *)
(*                                                                         *)
(* What makes it hard is that a shared filesystem is reported by every     *)
(* client, and by each a little differently: its used space is read at     *)
(* different times.  Sizes are small numbers of gigabytes, and percentages *)
(* are rounded down to whole numbers.                                      *)
(***************************************************************************)
EXTENDS StgListing, Views

CONSTANTS Node,      \* the nodes that were polled
          Outputs    \* what the remote script may print on a node

\* One line of df: its seven columns, a number being NA where df prints none.
Mount == [source : STRING, fstype : STRING, mountpoint : STRING,
          blocks_1k : Nat \cup {NA}, used_1k : Nat \cup {NA},
          avail_1k : Nat \cup {NA}, pcent : Nat \cup {NA}]

\* A line of beegfs-df and one of lfs df, as the regular expressions leave them.
BeegfsTarget == [target_id : Nat, pool : STRING, free_pct : Nat]
BeegfsLine   == BeegfsTarget \cup [section : STRING] \cup [error : STRING] \cup [unparsed : STRING]
LustreTarget == [target : [number : Nat, words : SUBSET {"MDT", "OST"}], use_pct : Nat]
LustreLine   == LustreTarget \cup [unparsed : STRING]
                \cup [is_summary : BOOLEAN, total : Nat, used : Nat, avail : Nat, use_pct : Nat]

ASSUME NodeAssumption == IsFiniteSet(Node)
ASSUME OutputsAssumption ==
  \A o \in Outputs :
    /\ o.df \in Seq(Range(o.df)) /\ o.beegfs \in Seq(BeegfsLine) /\ o.lfs \in Seq(LustreLine)
    /\ \A i \in DOMAIN o.df : IsMount(o.df[i]) => o.df[i] \in Mount

VARIABLES output,       \* what each node printed, or Failed
          state,        \* the cluster state: what poll_node makes of it
          left,         \* the nodes the loop has still to take
          nodes,        \* the rows of the nodes it took
          seen,         \* cluster_seen: keys of the mounts already counted
          total,        \* c and c_worst: the cluster's mounts
          shared,       \* cluster_shared: shared mounts not counted again
          beegfs,       \* beegfs_seen and beegfs_free_min
          lustre        \* lustre_seen and lustre_use_max

vars == <<output, state, left, nodes, seen, total, shared, beegfs, lustre>>

PollNode(o) == IF o = Failed THEN Failed ELSE StgData(o)

Init == /\ output \in [Node -> Outputs \cup {Failed}]
        /\ state = [n \in Node |-> PollNode(output[n])]
        /\ left = {n \in Node : "error" \notin DOMAIN state[n]}
        /\ nodes = [n \in {} |-> 0]
        /\ seen = {}
        /\ total = [mounts |-> 0, size |-> 0, used |-> 0, avail |-> 0, worst |-> Unknown]
        /\ shared = 0
        /\ beegfs = [seen |-> {}, free |-> Unknown]
        /\ lustre = [seen |-> {}, use |-> Unknown]
-----------------------------------------------------------------------------
\* Filesystems that are served remotely.
NETWORK_FSTYPES == {"nfs", "nfs4", "cifs", "smb3", "beegfs", "fuse.beegfs", "lustre",
                    "fuse.lustre", "gpfs", "ceph", "fuse.ceph", "glusterfs",
                    "fuse.glusterfs", "9p", "afs", "panfs"}
Shared(m) == m.fstype \in NETWORK_FSTYPES

\* Mutant of MountKey: a local mount is known by its path and size alone.
MountKeyNoNode(n, m) == IF Shared(m) THEN <<"shared", m.fstype, m.source, m.blocks_1k>>
                        ELSE <<"local", m.mountpoint, m.blocks_1k>>

\* _mount_key: the identity of a mount reported by node n.
MountKey(n, m) == IF Shared(m) THEN <<"shared", m.fstype, m.source, m.blocks_1k>>
                  ELSE <<"local", n, m.mountpoint, m.blocks_1k>>

\* The keys of a listing, in its order.  A BeeGFS target is keyed by id and
\* pool, a Lustre target by its name.
MountKeys(n, l) == [i \in DOMAIN l |-> MountKey(n, l[i])]
BeegfsKeys(l)   == [i \in DOMAIN l |-> <<l[i].target_id, l[i].pool>>]
LustreKeys(l)   == [i \in DOMAIN l |-> l[i].target]

\* The rows of both sections, and of Lustre, that are targets.
BeegfsRows(d) == LET all == d.beegfs.meta \o d.beegfs.storage
                 IN  Pick(all, {i \in DOMAIN all : "target_id" \in DOMAIN all[i]})
LustreRows(d) == Pick(d.lustre, Targets(d))

\* Mutant of New: does not look for a key earlier in the same listing.
NewAll(keys, S) == {i \in DOMAIN keys : keys[i] \notin S}

\* The places whose key is not in S and stands at no earlier place: what the
\* loop over a listing adds to the set of keys seen.
New(keys, S) == {i \in DOMAIN keys : /\ keys[i] \notin S
                                     /\ \A j \in 1 .. i - 1 : keys[j] # keys[i]}

\* The columns of a listing.
UsedLessReserved(l) == [i \in DOMAIN l |-> Number(l[i], "used_1k") - 1]   \* mutant of Used
Used(l)  == [i \in DOMAIN l |-> Number(l[i], "used_1k")]
Size(l)  == [i \in DOMAIN l |-> Number(l[i], "blocks_1k")]
Avail(l) == [i \in DOMAIN l |-> Number(l[i], "avail_1k")]
Pct(l)   == [i \in DOMAIN l |-> NumberOr(l[i], "pcent", Unknown)]
Use(l)   == [i \in DOMAIN l |-> l[i].use_pct]
Free(l)  == [i \in DOMAIN l |-> l[i].free_pct]

\* Mutant of Highest: forgets the value so far.
HighestForgets(column, I, low) == Max({column[i] : i \in I} \cup {Unknown})
Highest(column, I, low) == Max({column[i] : i \in I} \cup {low})
\* The lowest, where Unknown is no value yet.
Lowest(S) == IF S \ {Unknown} = {} THEN Unknown ELSE Min(S \ {Unknown})

\* The row of a node.
Row(n) ==
  LET m   == state[n].mounts
      own == New(MountKeys(n, m), {})
      b   == BeegfsRows(state[n])
      l   == LustreRows(state[n])
  IN  [mounts |-> Cardinality(own),
       size_gb |-> SumAt(Size(m), own),
       used_gb |-> SumAt(Used(m), own),
       avail_gb |-> SumAt(Avail(m), own),
       use_pct |-> Percent(SumAt(Used(m), own), SumAt(Size(m), own)),
       worst_pct |-> Highest(Pct(m), own, Unknown),
       beegfs_targets |-> Len(b),
       beegfs_free_pct_min |-> Lowest(Range(Free(b))),
       lustre_targets |-> Len(l),
       lustre_use_pct_max |-> Highest(Use(l), DOMAIN l, Unknown)]

\* One turn of the loop: node n's row, and what it adds to the cluster's.
Take(n) ==
  LET m      == state[n].mounts
      key    == MountKeys(n, m)
      own    == New(key, {})
      fresh  == {i \in own : key[i] \notin seen}
      b      == BeegfsRows(state[n])
      bFresh == New(BeegfsKeys(b), beegfs.seen)
      l      == LustreRows(state[n])
      lFresh == New(LustreKeys(l), lustre.seen)
  IN  /\ n \in left
      /\ left' = left \ {n}
      /\ nodes' = [x \in DOMAIN nodes \cup {n} |-> IF x = n THEN Row(n) ELSE nodes[x]]
      /\ seen' = seen \cup Range(Restrict(key, fresh))
      /\ total' = [mounts |-> total.mounts + Cardinality(fresh),
                   size |-> total.size + SumAt(Size(m), fresh),
                   used |-> total.used + SumAt(Used(m), fresh),
                   avail |-> total.avail + SumAt(Avail(m), fresh),
                   worst |-> Highest(Pct(m), fresh, total.worst)]
      /\ shared' = shared + Cardinality({i \in own \ fresh : Shared(m[i])})
      /\ beegfs' = [seen |-> beegfs.seen \cup Range(BeegfsKeys(b)),
                    free |-> Lowest(Range(Restrict(Free(b), bFresh)) \cup {beegfs.free})]
      /\ lustre' = [seen |-> lustre.seen \cup Range(LustreKeys(l)),
                    use |-> Highest(Use(l), lFresh, lustre.use)]
      /\ UNCHANGED <<output, state>>

\* The loop is over.
Over == left = {} /\ UNCHANGED vars

Next == (\E n \in Node : Take(n)) \/ Over

Spec == Init /\ [][Next]_vars

\* The cluster row.
Cluster ==
  [mounts |-> total.mounts, size_gb |-> total.size, used_gb |-> total.used,
   avail_gb |-> total.avail, use_pct |-> Percent(total.used, total.size),
   worst_pct |-> total.worst, beegfs_targets |-> Cardinality(beegfs.seen),
   beegfs_free_pct_min |-> beegfs.free, lustre_targets |-> Cardinality(lustre.seen),
   lustre_use_pct_max |-> lustre.use, shared_mounts_deduped |-> shared]
-----------------------------------------------------------------------------
Taken == DOMAIN nodes

\* The type invariant.
TypeOK == /\ output \in [Node -> Outputs \cup {Failed}]
          /\ state = [n \in Node |-> PollNode(output[n])]
          /\ left \subseteq Node
          /\ \A row \in Range(nodes) :
               /\ DOMAIN row = COLUMNS.stg
               /\ Range(row) \subseteq Nat \cup {Unknown}
               /\ \A k \in {"size_gb", "used_gb", "avail_gb", "use_pct"} : row[k] \in Nat
          /\ total \in [mounts : Nat, size : Nat, used : Nat, avail : Nat,
                        worst : Nat \cup {Unknown}]
          /\ shared \in Nat
          /\ beegfs.free \in Nat \cup {Unknown}
          /\ lustre.use \in Nat \cup {Unknown}

\* Every (node, mount) pair the loop has been through.
Reported == UNION {{<<n, i>> : i \in DOMAIN state[n].mounts} : n \in Taken}
KeyOf(p)   == MountKey(p[1], state[p[1]].mounts[p[2]])
MountOf(p) == state[p[1]].mounts[p[2]]

\* The cluster row counts every distinct filesystem once, whichever client was
\* the first to report it, so no node shows more mounts than the cluster
\* (summarize.py:308-319, 347-363).
MountsCountedOnce ==
  /\ total.mounts = Cardinality({KeyOf(p) : p \in Reported})
  /\ \A n \in Taken : nodes[n].mounts <= total.mounts

\* The mounts that the nodes report and that are of a shared filesystem.
SharedMounts == {p \in Reported : Shared(MountOf(p))}

\* Every pair of a node and a filesystem it reports is either counted in the
\* cluster row or among the mounts it folded, and those folded are the clients of
\* a shared filesystem but one of each (summarize.py:360-369): no disk of a node
\* is folded into another's, and no client is left out, after any nodes in any
\* order.  What is neither counted nor folded is a filesystem's second path on
\* one node.
FoldedAreOtherClients ==
  LET Pairs(R) == {<<p[1], KeyOf(p)>> : p \in R}
  IN  /\ total.mounts + shared = Cardinality(Pairs(Reported))
      /\ shared + Cardinality({KeyOf(p) : p \in SharedMounts}) = Cardinality(Pairs(SharedMounts))

\* "The footer reports how many mounts were folded together" (README.md:195-196):
\* what is left of the shared mounts, and what was folded, are all of them.
FoldedMountsReported ==
  Cardinality({KeyOf(p) : p \in SharedMounts}) + shared = Cardinality(SharedMounts)

\* The capacity of the cluster row is that of the distinct filesystems, each
\* counted once however many clients and paths it is mounted on, and no node
\* reports more than the cluster (summarize.py:308-319, 347-369).
CapacityCountedOnce ==
  /\ LET keys == {KeyOf(p) : p \in Reported}
     IN  total.size = SumAt([k \in keys |-> IF k[4] = NA THEN 0 ELSE k[4]], keys)
  /\ \A n \in Taken : nodes[n].size_gb <= total.size

\* Clients agree when equal keys come with equal numbers.
ClientsAgree ==
  /\ \A p, q \in Reported : KeyOf(p) = KeyOf(q) =>
       \A k \in {"used_1k", "avail_1k", "pcent"} : MountOf(p)[k] = MountOf(q)[k]
  /\ \A n, k \in Taken :
       \A r \in Range(LustreRows(state[n])), s \in Range(LustreRows(state[k])) :
         r.target = s.target => r.use_pct = s.use_pct
  /\ \A n, k \in Taken :
       \A r \in Range(BeegfsRows(state[n])), s \in Range(BeegfsRows(state[k])) :
         <<r.target_id, r.pool>> = <<s.target_id, s.pool>> => r.free_pct = s.free_pct

\* When all clients tell the same of a shared filesystem, the cluster row does
\* not depend on the order their polls completed in: it shows the worst mount
\* and the fullest BeeGFS and Lustre target of any node, and the space used of
\* every distinct filesystem (summarize.py:353-369, 375-393).
OrderDoesNotMatter ==
  ClientsAgree =>
    /\ total.worst = Max({nodes[n].worst_pct : n \in Taken} \cup {Unknown})
    /\ beegfs.free = Lowest({nodes[n].beegfs_free_pct_min : n \in Taken})
    /\ lustre.use = Max({nodes[n].lustre_use_pct_max : n \in Taken} \cup {Unknown})
    /\ \A R \in SUBSET Reported :
         /\ \A p, q \in R : p # q => KeyOf(p) # KeyOf(q)
         /\ {KeyOf(p) : p \in R} = seen
         => total.used = SumAt([p \in R |-> Number(MountOf(p), "used_1k")], R)

\* What the metric's help text says (prometheus_out.py:290): the cluster row
\* counts the distinct BeeGFS targets, so no node has seen more.
BeegfsTargetsDistinct ==
  \A n \in Taken : nodes[n].beegfs_targets <= Cardinality(beegfs.seen)
-----------------------------------------------------------------------------
(* The detail views. *)

Answered == {n \in Node : "error" \notin DOMAIN state[n]}

\* The dictionary of a node has the lines it printed as often as it should: no
\* target, summary or line that was not understood is lost or doubled, except
\* that a broken line of df is dropped (stg.py:142-206).
LinesKeptInParsing == \A n \in Answered : LinesKept(output[n], state[n])

\* The table on the console hides no target that is full, -e or not
\* (stg.py:350-387).
FullTargetsShown == \A n \in Answered, e \in BOOLEAN : FullIsShown(state[n], e)

\* df lists no two mounts of one type at one path, and beegfs-df no target
\* twice in one of its sections.
ListedOnce(mounts) ==
  \A i, j \in DOMAIN mounts :
    <<mounts[i].mountpoint, mounts[i].fstype>> = <<mounts[j].mountpoint, mounts[j].fstype>> => i = j
TargetsOnce(section) ==
  \A i, j \in {k \in DOMAIN section : "target_id" \in DOMAIN section[k]} :
    <<section[i].target_id, section[i].pool>> = <<section[j].target_id, section[j].pool>> => i = j

\* No two samples of a metric have the same labels, which would make scrapers
\* reject the whole exposition (prometheus_out.py:139-161), unless df or
\* beegfs-df lists the same thing twice: the dictionary has each Lustre target
\* once, although lfs lists it once for every mount point, and a metadata and a
\* storage target of BeeGFS differ in their kind.
SeriesDistinct ==
  \A n \in Answered :
    /\ ListedOnce(state[n].mounts)
    /\ TargetsOnce(state[n].beegfs.meta) /\ TargetsOnce(state[n].beegfs.storage)
    => OneSamplePerSeries("stg", state[n])

\* CSV and Prometheus never contradict each other about a node
\* (csv_out.py:97-132, prometheus_out.py:135-161).
FormatsAgree == \A n \in Node : DetailViewsAgree("stg", state[n])

\* The tables of columns and metrics fit the rows (summary_out.py:51-62,
\* prometheus_out.py:283-295).
TablesFit == SummaryViewsAgree("stg", nodes, Cluster)
=============================================================================
