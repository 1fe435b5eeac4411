# A verification development for hpcat

hpcat is a command line tool that asks the nodes of an HPC cluster for GPU,
CPU, memory, network and storage telemetry over ssh, and the Slurm scheduler
for its view of them.  A run is short, but it is concurrent (up to 30 polls at
a time), half of what it asks can fail at any moment, what the nodes answer
overlaps (shared filesystems, shared network devices), and one command keeps a
file between runs.  This directory models those parts in TLA+, checks them
with TLC on small instances, and proves the core for all instances with TLAPS.

Line numbers refer to `src/hpcat/` unless a path is given; `PROJECT.json` maps
every definition to the lines it stands for, lists the hazards of the code with
the properties that cover them, and has for every property a plausible bug that
breaks it.

## Inventory

| Component | State | Operations | Interacts with | Hard part |
|---|---|---|---|---|
| `core/cluster.py` `poll_cluster` | the pool's queue and workers, the dictionary | submit, as_completed loop, end of the `with` block | calls a command's `poll_node` in threads | completion order, exceptions, Ctrl-C, a full pool |
| `commands/*.py` `poll_node`, `core/ssh.py`, `core/slurm.py` | none | transport, parse, ask scontrol, merge | run in a worker thread | two sources that fail apart; what an exception does |
| `cli.py` `main`, `execute`, `core/discovery.py`, `core/output.py` | the arguments, the exit code | resolve targets, poll, summarize, render | calls everything else | every failure must be visible somewhere |
| `commands/net.py` `-d` | the snapshot file, kept between runs | load, compare, save | other runs of hpcat, the counters on the nodes | crash while writing, counter resets, overlapping runs |
| `core/summarize.py`, storage, and the listings of `commands/stg.py` | the folds of one pass | filter, section and dedupe lines; dedupe and add up mounts and targets | rendering | one filesystem seen by many clients |
| `core/summarize.py`, gpu, cpu, mem, net | the folds of one pass | skip failed nodes, add up | rendering | half an answer, shared netdevs, means and empty denominators |
| `formatters/*` | none | JSON, CSV, Prometheus, console | called by `render_or_print` | the same nodes and numbers in every format; unique label sets |
| `commands/jobs.py` | none | squeue, count per state | rendering | little: one call with a timeout |
| remote scripts, row parsers | none | shell, awk, regular expressions | the nodes | text of other programs |

What makes each correct: `poll_cluster` returns exactly one answer per distinct
target or nothing, and every poll it submits is run; a poll turns every failure
into data; a run with exit code 0 accounts for every target; a delta tells the truth
about the time since the snapshot it is taken from; the totals count each
filesystem, GPU and netdev once, in whatever order the nodes answer, and lose
no alarm of the detail view; the formats do not contradict each other.

## Modules

    NodePoll            operators: the keys a poll's dictionary gets
      PollPromise       abstract: poll_cluster as its callers see it
        HpcatRun        one run of hpcat, built on the promise
          HpcatRun_proofs
      ClusterPoll       poll_cluster with its threads; implements PollPromise
        ClusterPoll_proofs
    NetDelta            runs of `net -d`, the counters and the snapshot file
      NetDelta_proofs
    Fields              operators: numbers taken out of a dictionary
      Sums_proofs       lemmas: sums over sets, induction, extreme values
      Views             operators: CSV, Prometheus and the -t tables
        Views_proofs
      NodeAnswers       operators: the values of a gpu, cpu, mem or net answer
        NodeTotals      the -t view of gpu, cpu, mem and net (with Views)
          NodeTotals_proofs
      StgListing        operators: the lines of df, beegfs-df and lfs df
        StgTotals       the -t view of stg (with Views)
          StgTotals_proofs

`MC*` modules give small instances of the constants.  Operators whose comment
calls them a mutant are faulty variants of the definition after them; no
specification uses them, they are there so that each property can be shown to
fail when the code is wrong.

**NodePoll.**  A node's data is the set of the keys of the dictionary its poll
returns, with a mark for what its lists hold (`entry`, `unparsed`): every
decision of the control flow tests for a key or for an entry to print.  A transport call
ends in one of six ways (`Reply`; exit code 0 splits in three, for text the
parser understands, text it does not, and text without anything the command
wants), scontrol in four.  `Raises` says when
the poll raises: only gpu converts fields outside a `try`
(`commands/gpu.py:26-34`).

**ClusterPoll.**  `cmd`, `targets`: the call.  `stage`: where the task of each
target is (`new`, `queued`, `remote`, `slurm`, `done`, `raised`); a task is a
position of the list, so that a node named twice is two tasks.  `main` and
`outcome`: where the main thread is and how it left the `with` block.
`Submit`, `Collect`, `LoopEnds`, `Shutdown` are the lines of `poll_cluster`;
`Start`, `RemoteAnswers`, `SlurmAnswers` the worker threads; `Interrupt` is
Ctrl-C, which may reach the main thread anywhere and more than once.
`Shutdown` waits for every submitted task: the pool is left with
`shutdown(wait=True)` and nothing is cancelled.  A Ctrl-C during that wait breaks
it off and ends the call, while the workers go on with what is running and
queued.  A further Ctrl-C, while the interpreter joins the workers at its exit,
is outside the call and not modelled.

**PollPromise.**  The same call seen from outside: one step that returns the
complete dictionary, or one that fails.  `ClusterPoll!KeepsPromise` states the
refinement: the dictionary under construction is hidden until the call is over.

**HpcatRun.**  `place` follows `main()` through resolving the targets, polling
(the promise's `Return` and `Fail`), rendering and leaving; `args` are the
options that matter: -n (absent, bare, with names), -t, -e and the format.
`printed` is which nodes were shown, as data, as errors or with a line that
there is nothing to show, and the counts of -t.  A node that answered without a
GPU, port, mount or target has no line in the views that print one per entry
(`commands/gpu.py:62`, `commands/stg.py:275`, `formatters/csv_out.py:21`, `102`,
`formatters/prometheus_out.py:48`); the CSV has it as an error for net (`csv_out.py:70`).
Interrupts and a broken output pipe may strike at every place.  The name of the
host (`Here`) is a node; which spelling of it ssh.py takes for local only chooses
between two transports that fail alike.

**NetDelta.**  Three actors: the counters (`Event`, `Reset`), up to `MaxRuns`
runs in any mix of with and without -d and on any subset of the nodes, and the
file.  The file is a function from positions to blocks, so that truncation
(`Open`), writing in pieces (`Write`), a run that dies or fails between
two pieces, and two runs that write into one file are all steps.  `Parse` is
what `json.load` may make of the result: the text of one run when it is whole,
otherwise nothing, or, when texts of equal length have been mixed, possibly a
mixture.  `events`, `resets`, `owner`, `alone` and `overlapped` are ghosts: the
properties need them, no guard of the program reads them.  A node stands for one
netdev with one counter, since the code treats each (netdev, key) pair alike.

**Fields.**  The tolerant conversions that `core/summarize.py` and the
formatters share: `_f`, `_i`, `_to_float`, `_pct`, `_avg`.  A value is a whole
number or NA, any text that is no number.  Percentages and means are rounded
down to whole numbers; unit factors are left out.

**NodeAnswers.**  What `poll_node` of gpu, cpu, mem and net makes of the columns
a node and scontrol give: which keys are kept, which readings become 0, which
netdev a port gets, and the scheduler's half merged over the node's.
`NodeTotals!TypeOK` checks that the keys are those `NodePoll` has.

**Views.**  The formatters.  Prometheus output is a set of samples (metric,
place in the listing, labels, value); CSV output gives the cell under a key in
the line of a place; the -t view has the columns of `summary_out.py` and the
metrics of `render_summary`.  The tables of keys (`METRICS`, `COLUMNS`,
`SUMMARY_METRICS`) are the code's.

**NodeTotals.**  The loops of `_summarize_gpu`, `_summarize_cpu`,
`_summarize_mem` and `_summarize_net`, a node at a time in any order, as the
dictionary they walk is in completion order.  `rows` are the node rows, `c` the
accumulators; what a row only hands on to `c` is taken off by `Shown`; `Cluster`
is the cluster row.

**StgListing.**  `commands/stg.py` for one node: df lines that are kept, rows of
beegfs-df put under the last heading, repeated listings of lfs df folded, and
which Lustre targets the console shows one by one (`FullIsShown`).

**StgTotals.**  The loop of `_summarize_stg`, a node at a time in any order.  A
shared mount's key is its filesystem and size, a local one's its node, path and
size.  `output` is what the remote script printed on each node, or `Failed`;
`state` the dictionary made of it; `seen`, `total`, `shared`, `beegfs` and
`lustre` are the accumulators.  Sizes are in whole gigabytes.

## Runs

| Run | Instance | Shows |
|---|---|---|
| `cluster_poll` | 4 target lists of up to 3 tasks, 2 workers, 5 commands; 326,000 states | safety of `poll_cluster`, that it implements its promise, that it ends unless an scontrol never answers, and that every poll it submitted is run |
| `cluster_poll_raises` | 2 tasks | finding 1 |
| `hpcat_run` | 2 nodes, all commands, 5 ways to name targets, 16 views; 322,000 states | exit code 0 accounts for every target; where the views agree; what can hang |
| `net_delta` | 1 counter, 3 runs, 3 events, 1 reset, in sequence; 2.2 million states | deltas are true, nothing is shown twice, nothing falls between two runs |
| `net_snapshot` | 2 nodes, 3 runs, up to 3 at a time; 720,000 states | the file: whole or nothing, and it heals |
| `net_since_last_run` | 1 counter, in sequence | finding 2 |
| `net_cluster_counter` | 2 counters, in sequence | finding 3 |
| `stg_totals` | 3 nodes, 30 outputs or an error each; 46,300 states | listings, totals and formats of stg, in every order |
| `stg_beegfs` | 2 nodes | finding 4 |
| `stg_folded` | 2 nodes | finding 5 |
| `node_totals` | 3 nodes, up to 5 answers of the node and 3 of scontrol, or failures of either; 54,800 states | totals and formats of gpu, cpu, mem and net, in every order |
| `node_totals_labels` | 2 nodes | finding 6 |

What `NothingVanishes` and `ViewsAgree` say: exit code 0 accounts for every
target, with two exceptions that the property names: Prometheus shows no failed
node (the -t view counts it), and a view that prints a line per entry shows no
node without one.  The CSV differs from -t and the console about two kinds of
nodes, those of which the scheduler's half alone answered and those of net
without a port.

What the properties of the totals say: `FoldedAreOtherClients`,
`MountsCountedOnce` and `CapacityCountedOnce`, that deduplication neither drops
nor multiplies a filesystem, and folds only the other clients of a shared one;
`OrderDoesNotMatter`, that the cluster row is the same in every completion order
when the clients agree; `WeightedPerGpu`, `HalvesDoNotMix`, `TotalsMatchDetail`
and `AlarmsSurviveTotals`, that a mean is over the things it names, what half an
answer and an incomplete one do to each percentage, and in which direction, that
totals are those of the Prometheus samples of the same nodes, and that a node with
an alarming sample is counted as degraded; `SeriesDistinct`, `FormatsAgree` and
`TablesFit` are about the formatters, the last in one direction: no column and
no metric is without its key.  `LinesKeptInParsing` says how often each line of the
three listings is in the dictionary: once by its own name or sizes for Lustre, as
often as printed for the others, and never for a df line that is broken or of a
pseudo filesystem.  `FullTargetsShown` is about what the console shows of them.

Why the bounds are enough.  `cluster_poll`: three tasks on two workers is the
least with a task queued behind a full pool; the lists include a node named
twice, next to itself and around another.  The proofs remove these bounds.
`net_delta`: three runs are the least with a failed save between two good ones,
three events are one in each interval, a reset can hide some of them or all.
`net_snapshot`: two nodes give texts of one and of two blocks, so a torn file can
look like a short one; three runs are the least in which a third run saves while
two others have garbled the file.  `MaxEvents` and `MaxResets` bound the
counters' steps, `MaxActive` how many runs are under way at a time.
`stg_totals`: three nodes are the least where two agree on a mount and the third
does not; its listings have a share at two paths, two sizes at one path, a
missing percentage, a broken df line, BeeGFS numbers that repeat, rows outside
known headings, a Lustre listing repeated, two Lustre filesystems of one size, a
metadata and an object target of one number, and OSTs at and around the threshold and the spread.
The three listings are folded apart, so not every combination is taken.
`node_totals`: three nodes for the same reason, with none, one and three GPUs,
unsupported readings, a kernel without MemAvailable, a node that is down in
Slurm, one of which Slurm prints a part without its whole, and ports without, with
one, and with a shared netdev, the first of its ports being down.  Symmetry is used
where nodes are interchangeable and only invariants are checked.  Deadlock is
checked everywhere; `Over` is the terminal state.

**Fairness.**  `ClusterPoll`: the main thread and the workers are scheduled, and
a transport ends, because `subprocess.run` is given a timeout and kills what
outlives it (`core/ssh.py:58-61`, `84-86`).  The workers are scheduled after the
call, too: they are no daemon threads, and the interpreter joins them at exit.  Nothing is assumed of
`SlurmAnswers`: scontrol is run without a timeout (`core/slurm.py:14`).
`HpcatRun`: the same for `Discover` (sinfo, `core/discovery.py:17`) and for
polls of cpu and mem; the polls of the other commands end by
`EndsWithoutScontrol`, and squeue has a timeout.  Ctrl-C is never assumed to come.

## Findings

1. A gpu poll raises on text it cannot convert, and `future.result()` re-raises
   it: one node's answer costs the answers of all (`commands/gpu.py:26-34`,
   `core/cluster.py:24`), although every poll is said to return its pair
   (`core/cluster.py:18`).
2. `net -d` shows the change since the last `net -d`, not the last `net` run
   (`src/README.md:123`, `cli.py:91`, `commands/net.py:233`).
3. The cluster's counters of `net -t` are exported as counters
   (`formatters/prometheus_out.py:277`) but are sums over the nodes that
   answered (`core/summarize.py:293`), so they fall when a node does not.
4. A metadata and a storage target of BeeGFS with one number and pool are counted
   as one (`core/summarize.py:378`), although distinct targets are promised
   (`formatters/prometheus_out.py:290`).
5. A share that one node mounts at two paths is folded and counted nowhere
   (`core/summarize.py:349-351`), although the footer is said to report how many
   mounts were folded together (`src/README.md:195-196`,
   `formatters/prometheus_out.py:294`).
6. Two ports of one device that share a netdev give two samples of one metric
   with the same labels (`formatters/prometheus_out.py:104`, `87`;
   `commands/net.py:123`), which a scraper rejects; if one port is down, its
   link metric is 0 and 1 under the same labels.

Seen while reading, without a run of its own:

- a cpu or mem node that ssh cannot reach and Slurm does not know keeps a row of
  zeros in -t and counts as answered, since `slurm_status` is no `slurm_error`
  (`core/slurm.py:18`, `core/summarize.py:152-155`);
- of two overlapping -d runs, one may compare its samples with a snapshot that
  is newer, and call the negative difference a reset (`commands/net.py:92`);
- the cluster's worst mount percentage is that of the first client to answer,
  and can be lower than a node's own (`core/summarize.py:360`): why
  `OrderDoesNotMatter` asks for clients that agree;
- a gpu node without a GPU, and a stg node without mounts and targets, has no line
  on the console (stg without -e), in the CSV or in Prometheus, although the run
  ends with exit code 0; a net node without a port is an error in the CSV alone
  (`formatters/csv_out.py:70`): the exceptions of `NothingVanishes` and `ViewsAgree`;
- the percentage of a half of an answer that is missing is 0.0
  (`core/summarize.py:69`), not the -1 of `src/README.md:202`;
- a df line that does not split into seven columns, as one wrapped after a long
  source, is dropped without a trace (`commands/stg.py:162-163`);
- the counters of a device's second netdev are in no total (`commands/net.py:123`);
- "CPUs" of a node the scheduler has no figures for are those of lscpu
  (`core/summarize.py:158`), and its load counts as 0 in the mean
  (`core/summarize.py:160`, `173`); a node with MemTotal and without
  MemAvailable counts as full (`core/summarize.py:212`): `HalvesDoNotMix`
  says in which direction each of these moves a percentage;
- the Prometheus view of mem gives 0 for fields of Slurm that are missing
  (`formatters/prometheus_out.py:198`);
- a Lustre target whose name has both MDT and OST in it, as the name of the
  filesystem may make it, is shown twice (`commands/stg.py:354-356`);
- the console and CSV columns of `net -t` have no count of degraded nodes
  (`src/README.md:190`).

## Proofs

The theorems hold for every value of the constants, from the named assumptions
of the modules alone, all of which TLC evaluates in the runs:

- `ClusterPoll`: at least one worker, and target lists that are not empty (a run
  without targets ends before it polls);
- `NetDelta`: natural numbers as bounds, a finite set of nodes;
- `StgTotals`: a finite set of nodes, and listings that are sequences whose df
  lines have their seven columns and whose Lustre targets have a percentage,
  since the row parsers keep no other lines;
- `NodeTotals`: a finite set of nodes; numbers that are natural or NA;
  nvidia-smi numbers its GPUs, so no index repeats; and MemAvailable is at most
  MemTotal, which is about the kernel, not about hpcat: without it "used" would be
  negative.  Nothing is assumed of how the scheduler's numbers fit each other.

Every invariant that a passing run checks is proved, and so are its action
properties and the refinement; what is left to TLC is liveness.

**ClusterPoll_proofs** proves every safety property of the run `cluster_poll`.
They are not inductive by themselves: that a normal return is complete depends
on which futures were handed over, and what the dictionary holds depends on which
tasks were.  The invariant `IInv` adds:

- `MainInv`: how `main`, `outcome` and `submitted` go together: a task is new
  exactly when it has not been submitted, and the loop is entered with all submitted;
- `OutcomeInv`: a return means every task was handed over and none had raised, a
  raise that one of them had;
- `ResultInv`: the name in a task's result is its target's, and a finished task
  holds an answer its node may give;
- `StateInv`: the dictionary's names are those of the tasks handed over, and each
  entry is the result of one of them.

`NoLoss` and the refinement are proved from it for each step: all steps
stutter under the mapping but `Shutdown`, which is `Return` or `Fail` according
to `outcome`, and a Ctrl-C that breaks off its wait, which is `Fail` also when
the dictionary was complete.

**HpcatRun_proofs** proves `TypeOK`, `NothingVanishes` and `ViewsAgree` of a
whole run.  The invariant relates the place in `main()` to the phase of the
promise and says what has been printed is `Output`; the core are lemmas about
keys: a node without a row has an error to show, and one that answered without an
entry is what the views that print entries leave out.

**NetDelta_proofs** proves `TypeOK`, `LoadsLastSave`, `UndisturbedSaveHeals`,
`DeltaSound`, `NoDoubleCount` and `DeltasAddUp`, for any number of nodes and
runs, overlapping or not.  A delta relates two samples that different runs took
at different times and one of them went through the file, so the invariant has
to order all of these:

- `StartInv` and `PhaseInv`: runs start in their order, and how far a run is says
  what it holds;
- `FileInv`: a run that truncated the file with no other writing has it for
  itself, block by block, until the next truncates it;
- `SequenceInv`: without overlap one run is under way, the ones before it are
  over, the ones after it idle, and the owner is the last that opened the file;
- `WorldInv` and `OrderInv`: the counter now, and the sample of a later run, may
  have been read after the sample of an earlier one (`Since`: events and resets
  only grow, and without a reset the value grows by the events);
- `ComparedLast`: the baseline is the last snapshot, whole, or none.  It says
  this also of a run that was killed after it opened the file, which
  `LoadsLastSave` is not about: such a run is a link of the chain that
  `DeltasAddUp` is about, since the next one starts from what it saved.

From these `DeltaSound` is arithmetic about two samples, and `NoDoubleCount` says
that the intervals of two runs do not overlap.  `DeltasAddUp` is the telescoping
sum: `OneDelta` says that a link is the events since the link before it, and
`ChainGrows` that if the chain up to that link adds up, the chain with one link
more does; the first run for which it did not would contradict it.

**Sums_proofs** has the lemmas about sums that the totals need.  The library's
induction theorems take an operator as a parameter, which the provers cannot
instantiate; `SubsetInduction` is induction about a set of sets, which they can,
and follows from the library's fact that the strict subsets of a finite set are
well-founded.  With it the fold of the community modules is shown to exist and to
satisfy its equation (`SolutionExists`, `SumRemove`), and a sum to behave as one:
union, image under an injection, sum of sums, exchange, grouping by a key,
counting as a sum of ones, and a mean between the lowest and the highest.

**Views_proofs** proves `ViewsAgreeAlways`: for each of the five commands and
any dictionary, the CSV cell and the Prometheus sample of a metric agree.
**NodeTotals_proofs** and **StgTotals_proofs** take `FormatsAgree` from it.  It
also says which samples a dictionary has of a metric, place by place
(`SamplesAtPlaces`, `SamplesOfPorts`), so that a sum over samples is a sum over
the places of a listing.

**StgTotals_proofs** proves every property of the run `stg_totals`.  The
parsers pick lines out of a listing; `Nth` names the k-th
picked line by its rank, `RankBijection` shows that ranks and picked
places correspond one to one, and counting arguments go through bijections and
the library's facts about cardinality (`PickTimes`, `KeptOnce`, `NewOnce`).  The
invariants of the loop are:

- `CountInv`: the keys seen are those of the nodes taken, and the count is their
  number (`MountsCountedOnce`);
- `TypeInv`: and every row is `Row` of its node, whenever it was taken (`TypeOK`);
- `SeenInv`: and the targets seen are those of the nodes taken (`TablesFit`);
- `FoldInv`: and every pair of a node and a key is counted or folded, and those
  folded are the pairs of a shared key but one of each (`FoldedAreOtherClients`).
  What a node adds and the cluster does not is shared, since a local key names its
  node (`FoldedAreShared`);
- `CapacityInv`: and the total is the sum over the keys seen.  The size is part
  of the key, so it does not matter which client was first;
- `OrderInv`: and, while the nodes taken agree, the worst percentages are those
  of all lines of all nodes taken, and the space used is that of any choice of
  one mount per key (`OrderDoesNotMatter`).  Agreement of the nodes taken is
  passed down when one more is taken, which makes the implication inductive.

`SeriesDistinct` is about one dictionary: two samples with the same labels are of
one place, because a section of beegfs-df has each number once, the kind is a
label, and what lfs repeats was folded by the key that the labels are made of.

**NodeTotals_proofs** proves every property of the run `node_totals`.  One
invariant serves all four commands, `RowInv`: the rows are those of their nodes,
each accumulator that is added up is the sum of its column over the nodes taken,
and each that keeps the highest is the highest.  The properties then compare two
ways to sum the same state:

- `WeightedPerGpu` regroups the GPUs by node and bounds a weighted mean by the
  lowest and the highest of its parts;
- `TotalsMatchDetail` turns the samples of the Prometheus view into places of the
  nodes' listings; for net it shows that the ports that are counted are, for each
  netdev with counters, exactly one of those that name it;
- `AlarmsSurviveTotals` shows that a sum of natural numbers is positive exactly
  when a term is, and that a netdev left out because it was counted has been
  counted with the same numbers;
- `HalvesDoNotMix` splits the sums at the nodes whose answer is whole; the rest adds
  equally to memory in use and to the memory there is, which moves a percentage
  up (`PercentOfFuller`), or to the CPUs there are alone, which moves it down
  (`PercentOfMore`).

Model-checked only: liveness (`EndsUnlessScontrolHangs`, `EndsWithoutScontrol`,
`SubmittedPollsFinish`, `HangsOnlyOnSlurm`), which is beyond these provers, and the counterexamples
behind the findings.

## Not modelled

Text: the shell and awk of the remote scripts, the regular expressions of the row
parsers (the models start from the columns they yield), column layout, colours and
escaping.  argparse and the spelling of host names (`core/ssh.py`,
`is_local_node`).  The extended details of -e, except for Lustre targets.  The
counting of jobs per state and the views of it.  Rounding to decimals, and units.
The failure of a final flush of stdout after `main()` has left.

## Plan

Done: NodePoll, ClusterPoll with its refinement, HpcatRun, NetDelta, Fields,
NodeAnswers, Views, NodeTotals, StgListing and StgTotals, and the proofs above.
Left, in order:

1. Proofs: the conditions of `OrderDoesNotMatter` weighed one by one (which half
   of the agreement is needed for which conclusion).
2. `Targeting`: host names and the local short-circuit of `core/ssh.py` composed
   with target resolution.
3. `JobCounts`: the counting of `commands/jobs.py` and its views.
