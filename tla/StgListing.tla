----------------------------- MODULE StgListing -----------------------------
(***************************************************************************)
(* `hpcat stg` (commands/stg.py) for one node: what becomes of the lines   *)
(* the remote script prints, and which of them the table on the console    *)
(* shows one by one.                                                       *)
(*                                                                         *)
(* A line is the record its columns make, and has other fields when the    *)
(* row's regular expression does not match it.  A Lustre target's name is  *)
(* known by its number and by which of "MDT" and "OST" it contains.  Sizes *)
(* are in gigabytes.                                                       *)
(***************************************************************************)
EXTENDS Fields, Sequences, FiniteSets, FiniteSetsExt

DF_SKIP_FSTYPES == {"tmpfs", "devtmpfs", "proc", "sysfs", "cgroup", "cgroup2", "overlay",
                    "squashfs", "devpts", "autofs", "mqueue", "debugfs", "tracefs",
                    "securityfs", "pstore", "hugetlbfs", "nsfs", "rpc_pipefs", "fusectl"}

\* The dictionary of a node that could not be asked.
Failed == [error |-> "ssh"]

\* A df line counts when it splits into seven columns.
IsMount(line) == "mountpoint" \in DOMAIN line /\ line.fstype \notin DF_SKIP_FSTYPES

\* beegfs-df prints a heading before each section: the one row i stands under.
\* A row under another heading, or before any, goes with the storage targets.
Headings(lines)    == {i \in DOMAIN lines : "section" \in DOMAIN lines[i]}
Section(lines, i)  == LET above == {j \in Headings(lines) : j < i}
                      IN  IF above = {} THEN "none" ELSE lines[Max(above)].section
IsMeta(lines, i)   == Section(lines, i) = "meta"

\* The k-th of a set of places, and the lines at those places in their order.
Nth(places, k)      == CHOOSE i \in places : Cardinality({j \in places : j <= i}) = k
Pick(lines, places) == [k \in 1 .. Cardinality(places) |-> lines[Nth(places, k)]]

\* Mutant of LustreKey: a target is known by its number alone.
LustreKeyNumber(row) == IF "target" \in DOMAIN row THEN <<"target", row.target.number>>
                        ELSE <<"summary", row.total, row.used, row.avail>>

\* lfs df repeats its listing for every mount point.  A target is known by its
\* name, a filesystem's summary by its sizes.
LustreKey(row) == IF "target" \in DOMAIN row THEN <<"target", row.target>>
                  ELSE <<"summary", row.total, row.used, row.avail>>

Unparsed(row) == "unparsed" \in DOMAIN row

\* Every line that could not be parsed is kept, every other key once.
KeptLustre(lines) ==
  {i \in DOMAIN lines :
     Unparsed(lines[i]) \/
     \A j \in 1 .. i - 1 : ~ Unparsed(lines[j]) => LustreKey(lines[j]) # LustreKey(lines[i])}

\* _parse_remote_output.
StgData(output) ==
  LET bee  == output.beegfs
      rows == DOMAIN bee \ Headings(bee)
      meta == {i \in rows : IsMeta(bee, i)}
  IN  [mounts |-> Pick(output.df, {i \in DOMAIN output.df : IsMount(output.df[i])}),
       beegfs |-> [meta |-> Pick(bee, meta), storage |-> Pick(bee, rows \ meta)],
       lustre |-> Pick(output.lfs, KeptLustre(output.lfs))]
-----------------------------------------------------------------------------
(* The console: print_console, with -e (extended) or without. *)

LOW_SPACE == 90

Targets(d) == {i \in DOMAIN d.lustre : "target" \in DOMAIN d.lustre[i]}
NamedAs(d, word) == {i \in Targets(d) : word \in d.lustre[i].target.words}
Mdts(d)   == NamedAs(d, "MDT")
Osts(d)   == NamedAs(d, "OST")
Others(d) == Targets(d) \ (Mdts(d) \cup Osts(d))
Uses(d, places) == {d.lustre[i].use_pct : i \in places}

\* Mutant of Collapsed: only the spread of the readings counts.
CollapsedIfUniform(d, extended) ==
  /\ Osts(d) # {}
  /\ ~ extended
  /\ Max(Uses(d, Osts(d))) - Min(Uses(d, Osts(d))) <= 2

\* Are the OSTs summed up in a line?
Collapsed(d, extended) ==
  /\ Osts(d) # {}
  /\ ~ extended
  /\ Max(Uses(d, Osts(d))) - Min(Uses(d, Osts(d))) <= 2
  /\ \A p \in Uses(d, Osts(d)) : p < LOW_SPACE

\* How many lines of its own a target gets.
Lines(d, extended, i) ==
    (IF i \in Mdts(d) THEN 1 ELSE 0)
  + (IF i \in Osts(d) /\ ~ Collapsed(d, extended) THEN 1 ELSE 0)
  + (IF i \in Others(d) THEN 1 ELSE 0)
-----------------------------------------------------------------------------
\* What becomes of the lines.  One of df is in the dictionary as often as it was
\* printed if it is a mount, and otherwise dropped without a trace: not only a
\* pseudo filesystem, but also a line that does not split into seven columns.  A
\* row of beegfs-df is in one of the two sections.  A Lustre target is there
\* exactly once by its name, the summary of a Lustre filesystem exactly once by
\* its three sizes, however often lfs printed them, and a line of lfs that was not
\* understood as often as it came.
LinesKept(output, d) ==
  LET lfs == output.lfs
      HowOften(list, row) == Cardinality({i \in DOMAIN list : list[i] = row})
      IsTarget(row)  == "target" \in DOMAIN row
      IsSummary(row) == "is_summary" \in DOMAIN row
      Named(row)     == {j \in DOMAIN d.lustre :
                           IsTarget(d.lustre[j]) /\ d.lustre[j].target = row.target}
      Sized(row)     == {j \in DOMAIN d.lustre :
                           /\ IsSummary(d.lustre[j])
                           /\ \A k \in {"total", "used", "avail"} : d.lustre[j][k] = row[k]}
  IN  /\ \A i \in DOMAIN output.df :
           LET row == output.df[i]
           IN  HowOften(d.mounts, row) = IF IsMount(row) THEN HowOften(output.df, row) ELSE 0
      /\ \A i \in DOMAIN output.beegfs \ Headings(output.beegfs) :
           LET row == output.beegfs[i]
           IN  HowOften(d.beegfs.meta, row) + HowOften(d.beegfs.storage, row)
                 = HowOften(output.beegfs, row)
      /\ \A i \in DOMAIN lfs :
           /\ IsTarget(lfs[i]) => Cardinality(Named(lfs[i])) = 1
           /\ IsSummary(lfs[i]) => Cardinality(Sized(lfs[i])) = 1
           /\ Unparsed(lfs[i]) => HowOften(d.lustre, lfs[i]) = HowOften(lfs, lfs[i])

\* The table hides nothing that is full: a target at 90% or more has a line of
\* its own, with its warning; a target without a line is an OST that
\* differs by at most 2 from all others; and no target has two lines, unless
\* its name has both words in it.
FullIsShown(d, extended) ==
  /\ \A i \in Targets(d) :
       /\ d.lustre[i].use_pct >= LOW_SPACE => Lines(d, extended, i) > 0
       /\ Lines(d, extended, i) = 0 =>
            /\ i \in Osts(d)
            /\ \A j \in Osts(d) : d.lustre[j].use_pct - d.lustre[i].use_pct \in -2 .. 2
       /\ Lines(d, extended, i) > 1 => d.lustre[i].target.words = {"MDT", "OST"}
  /\ extended => \A i \in Targets(d) : Lines(d, extended, i) > 0
=============================================================================
