---------------------------- MODULE MCStgTotals ----------------------------
(* Small instances of StgTotals for TLC. *)
EXTENDS StgTotals, TLC

CONSTANTS n1, n2, n3

Line(source, fstype, path, size, used, avail, pct) ==
  [source |-> source, fstype |-> fstype, mountpoint |-> path, blocks_1k |-> size,
   used_1k |-> used, avail_1k |-> avail, pcent |-> pct]
Nfs(path, used, pct) == Line("srv:/a", "nfs", path, 4, used, 4 - used, pct)
Other == Line("srv:/b", "nfs", "/b", 3, 3, 0, 100)
Disk(size, used, pct) == Line("sda", "xfs", "/", size, used, size - used, pct)
Tmp == Line("tmpfs", "tmpfs", "/run", 2, 1, 1, 50)
Efi == Line("efivarfs", "efivarfs", "/sys/firmware/efi/efivars", NA, NA, 1, NA)
Wrapped == [source |-> "a line of fewer columns"]

\* No mount; a disk and a share next to a pseudo filesystem; the share later,
\* fuller; the share at two paths next to another one; a disk mounted over,
\* without a percentage; a filesystem without sizes next to a broken line.
Mounts == {<<>>,
           <<Disk(4, 1, 25), Tmp, Nfs("/a", 1, 25)>>,
           <<Nfs("/a", 2, 50)>>,
           <<Nfs("/a", 1, 25), Nfs("/home", 1, 25), Other>>,
           <<Disk(4, 1, 25), Disk(4, 1, NA), Disk(1, 0, NA)>>,
           <<Wrapped, Efi>>}

Heading(name) == [section |-> name]
Bee(id, free) == [target_id |-> id, pool |-> "normal", free_pct |-> free]
\* No client; a metadata and a storage target with one id; with two, and a row
\* that is an error; rows before and under headings of another version.
Beegfs == {<<>>,
           <<Heading("meta"), Bee(1, 90), Heading("storage"), Bee(1, 40)>>,
           <<Heading("meta"), Bee(2, 80), Heading("storage"), Bee(1, 60), [error |-> "[ERROR"]>>,
           <<Bee(3, 5), [unparsed |-> "x"], Heading("meta"), Bee(2, 80), [unparsed |-> "x"]>>}

Target(number, words, use) == [target |-> [number |-> number, words |-> words], use_pct |-> use]
Ost(number, use) == Target(number, {"OST"}, use)
Mdt  == Target(0, {"MDT"}, 10)
Both == Target(0, {"MDT", "OST"}, 95)
Mgs  == Target(1, {}, 20)
All  == [is_summary |-> TRUE, total |-> 9, used |-> 5, avail |-> 4, use_pct |-> 60]
All2 == [is_summary |-> TRUE, total |-> 9, used |-> 1, avail |-> 8, use_pct |-> 12]
Odd  == [unparsed |-> "inactive device"]
\* No client; targets; OSTs alike, listed twice with a line that is not
\* understood, next to another filesystem of the same size; OSTs alike but one is
\* full; names of other forms.
Lustre == {<<>>, <<Mdt, Ost(0, 70)>>, <<Ost(0, 71)>>,
           <<Mdt, Ost(0, 70), Ost(1, 71), Odd, All, Mdt, Ost(0, 70), Ost(1, 71), Odd, All, All2>>,
           <<Ost(0, 89), Ost(1, 91), Mgs>>, <<Both, Ost(1, 10)>>}

Out(m, b, l) == [df |-> m, beegfs |-> b, lfs |-> l]
ADf == <<Nfs("/a", 1, 25)>>

\* The three listings are folded apart, so not every combination is needed:
\* those of df with one of the others, and those of beegfs-df with those of lfs.
MCOutputs == {Out(m, <<Heading("meta"), Bee(1, 90)>>, <<Mdt, Ost(0, 70)>>) : m \in Mounts}
             \cup {Out(ADf, b, l) : b \in Beegfs, l \in Lustre}

\* Nodes are interchangeable.
Symmetry == Permutations(Node)
=============================================================================
