------------------------------ MODULE NetDelta ------------------------------
(***************************************************************************)
(* `hpcat net` and `hpcat net -d` (commands/net.py): runs of the program   *)
(* that poll error counters and, with -d, compare them with the snapshot   *)
(* the previous run left in a file, then replace that snapshot.            *)
(*                                                                         *)
(* Three things move independently: the counters on the nodes, which count *)
(* events and restart from zero when a driver is reloaded; the runs, each  *)
(* a process that may be killed at any point and whose write may fail; and *)
(* the one file they share, which is truncated first and written after.    *)
(*                                                                         *)
(* A node stands for one netdev with one of DELTA_KEYS: the code treats    *)
(* every (netdev, key) pair alike and apart.  A run polls through          *)
(* poll_cluster, whose promise (PollPromise) is that the answers of all    *)
(* targets are in before anything else happens.                            *)
(***************************************************************************)
EXTENDS Integers, FiniteSets, FiniteSetsExt, Functions

CONSTANTS Node,       \* the nodes
          MaxRuns,    \* bound: how many runs are started
          MaxEvents,  \* bound: how many events a counter sees
          MaxResets,  \* bound: how many resets a counter sees
          Faults,     \* how a poll may fail to read a counter
          MaxActive   \* bound: how many runs are under way at a time

ASSUME BoundsAssumption == /\ MaxRuns \in Nat
                           /\ MaxEvents \in Nat
                           /\ MaxResets \in Nat
                           /\ MaxActive \in Nat
ASSUME NodeAssumption == IsFiniteSet(Node)
ASSUME FaultsAssumption == Faults \subseteq {"error", "nostats"}

VARIABLES counter,  \* the value ethtool shows on each node
          events,   \* how many events each node has had, resets or not
          resets,   \* how often each counter has been reset
          phase,    \* where each run is
          delta,    \* was the run given -d?
          want,     \* the target nodes of each run
          sample,   \* what each run has polled so far
          base,     \* the snapshot each run has loaded
          pos,      \* how many blocks it wrote, -1 before the file is open
          file,     \* the blocks of the snapshot file
          owner,    \* ghost: the last run that truncated the file, 0 if none
          alone,    \* ghost: was no other run writing the file when it did?
          overlapped  \* ghost: did a run start while another was under way?

world == <<counter, events, resets>>
ghosts == <<owner, alone, overlapped>>
vars == <<world, phase, delta, want, sample, base, pos, file, ghosts>>

\* Runs are numbered in the order they are started.
Run    == 1 .. MaxRuns
Active == {"polling", "loaded", "saving", "saved"}
Phase  == {"idle", "shown", "dead"} \cup Active

\* What a poll of a node finds: an error row, a netdev without statistics (no
\* ethtool), or a counter.  events and resets are ghosts: what had happened on
\* the node when it was read, which the program cannot see.
Unread(k) == [kind |-> k, val |-> 0, events |-> 0, resets |-> 0]
Reading   == [kind : {"stats"}, val : Nat, events : Nat, resets : Nat]
Sample    == {Unread("error"), Unread("nostats")} \cup Reading

\* A snapshot maps nodes to samples.  _load_snapshot returns None when there
\* is no file or it does not parse; no run saves a snapshot without a node.
None == [n \in {} |-> Unread("error")]

\* The snapshot of run r is written as one block per node.  A block of the
\* file is known by its writer and its place in the writer's text.  No file is
\* the same as an empty one: neither can be parsed.
Block     == {<<r, k>> : r \in Run, k \in 1 .. Cardinality(Node)}
Hole      == <<0, 0>>
NoBlocks  == [k \in {} |-> Hole]
Blocks(r) == Cardinality(DOMAIN sample[r])

Init == /\ counter = [n \in Node |-> 0]
        /\ events = [n \in Node |-> 0]
        /\ resets = [n \in Node |-> 0]
        /\ phase = [r \in Run |-> "idle"]
        /\ delta = [r \in Run |-> FALSE]
        /\ want = [r \in Run |-> {}]
        /\ sample = [r \in Run |-> None]
        /\ base = [r \in Run |-> None]
        /\ pos = [r \in Run |-> -1]
        /\ file = NoBlocks
        /\ owner = 0
        /\ alone = TRUE
        /\ overlapped = FALSE
-----------------------------------------------------------------------------
(* The counters. *)

Event(n) == /\ events[n] < MaxEvents
            /\ counter' = [counter EXCEPT ![n] = @ + 1]
            /\ events' = [events EXCEPT ![n] = @ + 1]
            /\ UNCHANGED <<resets, phase, delta, want, sample, base, pos, file, ghosts>>

\* A driver reload or a reboot of the node.
Reset(n) == /\ resets[n] < MaxResets
            /\ counter' = [counter EXCEPT ![n] = 0]
            /\ resets' = [resets EXCEPT ![n] = @ + 1]
            /\ UNCHANGED <<events, phase, delta, want, sample, base, pos, file, ghosts>>
-----------------------------------------------------------------------------
(* The snapshot file. *)

\* Writing block b at offset k: what lies between the end and k is a hole.
WriteAt(f, k, b) ==
  [i \in DOMAIN f \cup 1 .. k |->
     IF i = k THEN b ELSE IF i \in DOMAIN f THEN f[i] ELSE Hole]

\* The file is the whole text of run r and nothing else.
IsTextOf(f, r) == /\ Blocks(r) > 0
                  /\ DOMAIN f = 1 .. Blocks(r)
                  /\ \A k \in DOMAIN f : f[k] = <<r, k>>

\* Blocks of several runs whose texts are of the file's length, none missing.
\* Whether the cuts fall where the pieces make JSON again is a matter of chance.
Writers(f) == {f[k][1] : k \in DOMAIN f}
IsMixed(f) == /\ Hole \notin Range(f)
              /\ Cardinality(Writers(f)) > 1
              /\ \A r \in Writers(f) : DOMAIN f = 1 .. Blocks(r)
Mixtures(f) ==
  {m \in UNION {[N -> UNION {Range(sample[r]) : r \in Writers(f)}] : N \in SUBSET Node} :
     \A n \in DOMAIN m :
       \E r \in Writers(f) : n \in DOMAIN sample[r] /\ m[n] = sample[r][n]}

\* Mutant of Parse: makes do with the beginning of a run's text.
ParseBeginning(f) ==
  LET from == {r \in Run : DOMAIN f # {} /\ \A k \in DOMAIN f : f[k] = <<r, k>>}
  IN  IF from # {} THEN {sample[r] : r \in from} ELSE {None}

\* What json.load may make of the file: _load_snapshot catches every failure.
Parse(f) ==
  IF \E r \in Run : IsTextOf(f, r)
    THEN {sample[r] : r \in {s \in Run : IsTextOf(f, s)}}
    ELSE {None} \cup IF IsMixed(f) THEN Mixtures(f) ELSE {}

WentDown == -1

\* Mutants of ComputeDeltas: shows the difference, whatever its sign; takes a
\* counter that stood still for one that was reset.
ComputeDifferences(cur, prev) ==
  [n \in {x \in DOMAIN cur \cap DOMAIN prev :
            cur[x].kind = "stats" /\ prev[x].kind = "stats"} |->
     cur[n].val - prev[n].val]
ComputeIfMore(cur, prev) ==
  [n \in {x \in DOMAIN cur \cap DOMAIN prev :
            cur[x].kind = "stats" /\ prev[x].kind = "stats"} |->
     IF cur[n].val > prev[n].val THEN cur[n].val - prev[n].val ELSE WentDown]

\* _compute_deltas: an entry for each node both snapshots have a counter of;
\* a counter that went down is reported as a reset (None).
ComputeDeltas(cur, prev) ==
  [n \in {x \in DOMAIN cur \cap DOMAIN prev :
            cur[x].kind = "stats" /\ prev[x].kind = "stats"} |->
     IF cur[n].val >= prev[n].val THEN cur[n].val - prev[n].val ELSE WentDown]

\* The cluster row of -t: the counter summed over the nodes that answered.
ClusterTotal(r) ==
  LET read == {n \in DOMAIN sample[r] : sample[r][n].kind = "stats"}
      Val(n) == sample[r][n].val
  IN  MapThenSumSet(Val, read)
-----------------------------------------------------------------------------
(* The runs. *)

Go(r, p) == phase' = [phase EXCEPT ![r] = p]
UnderWay == {r \in Run : phase[r] \in Active}

\* The user, or a timer, starts run r on the nodes W, with -d or without.
Begin(r, d, W) == /\ phase[r] = "idle"
                  /\ \A s \in Run : s < r => phase[s] # "idle"
                  /\ Cardinality(UnderWay) < MaxActive
                  /\ overlapped' = (overlapped \/ UnderWay # {})
                  /\ Go(r, "polling")
                  /\ delta' = [delta EXCEPT ![r] = d]
                  /\ want' = [want EXCEPT ![r] = W]
                  /\ UNCHANGED <<world, sample, base, pos, file, owner, alone>>

\* One of the targets answers: poll_node's result for it.
Poll(r, n) == /\ phase[r] = "polling"
              /\ n \in want[r] \ DOMAIN sample[r]
              /\ \E s \in {Unread(k) : k \in Faults}
                       \cup {[kind |-> "stats", val |-> counter[n],
                              events |-> events[n], resets |-> resets[n]]} :
                   sample' = [sample EXCEPT ![r] =
                     [x \in DOMAIN sample[r] \cup {n} |->
                        IF x = n THEN s ELSE sample[r][x]]]
              /\ UNCHANGED <<world, phase, delta, want, base, pos, file, ghosts>>

\* poll_cluster has returned.  With -d the snapshot is loaded and the deltas
\* are computed; without, the state is rendered as it is.
Load(r) == /\ phase[r] = "polling"
           /\ DOMAIN sample[r] = want[r]
           /\ delta[r]
           /\ \E b \in Parse(file) : base' = [base EXCEPT ![r] = b]
           /\ Go(r, "loaded")
           /\ UNCHANGED <<world, delta, want, sample, pos, file, ghosts>>
SkipSnapshot(r) == /\ phase[r] = "polling"
                   /\ DOMAIN sample[r] = want[r]
                   /\ ~ delta[r]
                   /\ Go(r, "saved")
                   /\ UNCHANGED <<world, delta, want, sample, base, pos, file, ghosts>>

\* Mutant of Open: the file is opened for update and not truncated.
OpenForUpdate(r) == /\ phase[r] = "loaded"
                    /\ Go(r, "saving")
                    /\ pos' = [pos EXCEPT ![r] = 0]
                    /\ owner' = r
                    /\ alone' = \A s \in Run : phase[s] # "saving"
                    /\ UNCHANGED <<world, delta, want, sample, base, file, overlapped>>

\* open(path, "w") truncates the file, or raises OSError and leaves it alone;
\* either way the run goes on, with a warning.
Open(r) == /\ phase[r] = "loaded"
           /\ Go(r, "saving")
           /\ pos' = [pos EXCEPT ![r] = 0]
           /\ file' = NoBlocks
           /\ owner' = r
           /\ alone' = \A s \in Run : phase[s] # "saving"
           /\ UNCHANGED <<world, delta, want, sample, base, overlapped>>
OpenFails(r) == /\ phase[r] = "loaded"
                /\ Go(r, "saved")
                /\ UNCHANGED <<world, delta, want, sample, base, pos, file, ghosts>>

\* Mutant of Write: tests for the end before it moves on.
WriteOneMore(r) == /\ phase[r] = "saving"
                   /\ pos' = [pos EXCEPT ![r] = @ + 1]
                   /\ file' = WriteAt(file, pos'[r], <<r, pos'[r]>>)
                   /\ Go(r, IF pos[r] = Blocks(r) THEN "saved" ELSE "saving")
                   /\ UNCHANGED <<world, delta, want, sample, base, ghosts>>

\* json.dump writes block after block at the file position of this run.
Write(r) == /\ phase[r] = "saving"
            /\ pos[r] < Blocks(r)
            /\ pos' = [pos EXCEPT ![r] = @ + 1]
            /\ file' = WriteAt(file, pos'[r], <<r, pos'[r]>>)
            /\ Go(r, IF pos'[r] = Blocks(r) THEN "saved" ELSE "saving")
            /\ UNCHANGED <<world, delta, want, sample, base, ghosts>>

\* A write fails (the disk is full, over quota): a warning, and the run goes on.
WriteFails(r) == /\ phase[r] = "saving"
                 /\ Go(r, "saved")
                 /\ UNCHANGED <<world, delta, want, sample, base, pos, file, ghosts>>

\* The deltas are rendered and the run is over.
Show(r) == /\ phase[r] = "saved"
           /\ Go(r, "shown")
           /\ UNCHANGED <<world, delta, want, sample, base, pos, file, ghosts>>

\* Ctrl-C, a kill, a crash of the host, a closed output pipe.
Die(r) == /\ phase[r] \in Active
          /\ Go(r, "dead")
          /\ UNCHANGED <<world, delta, want, sample, base, pos, file, ghosts>>
-----------------------------------------------------------------------------
World == \E n \in Node : Event(n) \/ Reset(n)

RunStep(r) == \/ \E n \in Node : Poll(r, n)
              \/ Load(r) \/ SkipSnapshot(r)
              \/ Open(r) \/ OpenFails(r) \/ Write(r) \/ WriteFails(r)
              \/ Show(r)

\* Every run has been started and is over.
Over == /\ \A r \in Run : phase[r] \in {"shown", "dead"}
        /\ UNCHANGED vars

Next == \/ World
        \/ \E r \in Run, d \in BOOLEAN, W \in (SUBSET Node) \ {{}} : Begin(r, d, W)
        \/ \E r \in Run : RunStep(r) \/ Die(r)
        \/ Over

Spec == Init /\ [][Next]_vars
-----------------------------------------------------------------------------
\* The type invariant.
TypeOK == /\ counter \in [Node -> Nat]
          /\ events \in [Node -> 0 .. MaxEvents]
          /\ resets \in [Node -> 0 .. MaxResets]
          /\ phase \in [Run -> Phase]
          /\ delta \in [Run -> BOOLEAN]
          /\ want \in [Run -> SUBSET Node]
          /\ DOMAIN sample = Run /\ DOMAIN base = Run /\ pos \in [Run -> Int]
          /\ \A r \in Run : /\ DOMAIN sample[r] \subseteq want[r]
                            /\ Range(sample[r]) \subseteq Sample
                            /\ DOMAIN base[r] \subseteq Node
                            /\ Range(base[r]) \subseteq Sample
                            /\ pos[r] \in -1 .. Blocks(r)
          /\ Range(file) \subseteq Block \cup {Hole}
          /\ owner \in Run \cup {0}
          /\ alone \in BOOLEAN
          /\ overlapped \in BOOLEAN

\* Runs that have compared, and the deltas they show.
Loaded(r)  == delta[r] /\ phase[r] \in {"loaded", "saving", "saved", "shown"}
Deltas(r)  == ComputeDeltas(sample[r], base[r])
Opened(r)  == pos[r] >= 0
Saved(r)   == Opened(r) /\ pos[r] = Blocks(r)

\* When no two runs overlapped, a delta tells the truth about the time since the
\* sample it is taken from: a number is exactly the events since, or less when a
\* reset hid some, and never negative; "reset" is only said when there was one (net.py:59-98).
DeltaSound ==
  ~ overlapped => \A r \in Run : Loaded(r) =>
    \A n \in DOMAIN Deltas(r) :
      LET cur == sample[r][n]
          old == base[r][n]
          d   == Deltas(r)[n]
      IN  IF d = WentDown THEN old.resets < cur.resets
          ELSE /\ d \in 0 .. cur.events - old.events
               /\ old.resets = cur.resets => d = cur.events - old.events

\* When no two runs overlapped, what is loaded is the whole snapshot of the last
\* run that opened the file for writing if that run wrote it to the end, and None if it was killed or
\* failed half-way or there was none: never a torn file, never an older
\* snapshot, and a torn file is healed by the next complete save (net.py:40-56).
LoadsLastSave ==
  ~ overlapped => \A r \in Run : Loaded(r) =>
    LET before == {s \in Run : s < r /\ Opened(s)}
    IN  IF before = {} THEN base[r] = None
        ELSE \E s \in before : /\ \A t \in before : t <= s
                               /\ base[r] = IF Saved(s) THEN sample[s] ELSE None

\* No event is counted in the numbers two runs show, unless they overlapped or
\* the earlier one could not replace the snapshot it had compared with (net.py:233-243).
NoDoubleCount ==
  ~ overlapped => \A r, s \in Run :
    r < s /\ Loaded(r) /\ Loaded(s) /\ Opened(r) =>
      \A n \in DOMAIN Deltas(r) \cap DOMAIN Deltas(s) :
        sample[r][n].events <= base[s][n].events

\* Runs that interfere do no lasting harm: once a run has replaced the snapshot
\* from beginning to end with no other run writing, the file reads as exactly
\* what that run saw, whatever was done to it before (net.py:40-56).
UndisturbedSaveHeals ==
  owner # 0 /\ alone /\ Saved(owner) => Parse(file) = {sample[owner]}

\* What one run has compared is not lost to the next: the deltas of the runs
\* after r up to s, each of which replaced the snapshot of the one before, add
\* up to the events between the samples of r and s.  So whoever adds up what is
\* printed misses exactly the deltas of the runs that died between saving the
\* snapshot and printing them (net.py:242-247).
DeltasAddUp ==
  ~ overlapped => \A r, s \in Run, n \in Node :
    LET chain == {t \in Run : r < t /\ t < s /\ Opened(t)} \cup {s}
        shown == [t \in chain |-> Deltas(t)[n]]
    IN  /\ r < s /\ Opened(r) /\ (Loaded(s) \/ Opened(s))
        /\ \A t \in chain \cup {r} : /\ n \in DOMAIN sample[t]
                                     /\ sample[t][n].kind = "stats"
                                     /\ sample[t][n].resets = sample[r][n].resets
                                     /\ t # s => Saved(t)
        => SumFunctionOnSet(shown, chain) = sample[s][n].events - sample[r][n].events

\* What the type of the cluster metrics says (prometheus_out.py:277-279): the
\* summed counters are counters, which fall only when a counter they are summed
\* over starts again from zero.
ClusterCounterNeverFalls ==
  ~ overlapped => \A r, s \in Run :
    r < s /\ phase[r] = "shown" /\ phase[s] = "shown" /\ want[r] = want[s] =>
      \/ ClusterTotal(r) <= ClusterTotal(s)
      \/ \E n \in want[s] : resets[n] > 0

\* What README.md:123 and the help text (cli.py:91) say of `net -d`: it shows
\* the change since the last `net` run.
SinceLastRun ==
  \A r, s \in Run :
    s < r /\ Loaded(r) /\ phase[s] = "shown" /\ (delta[s] => Saved(s)) =>
      \A n \in DOMAIN Deltas(r) \cap DOMAIN sample[s] :
        sample[s][n].kind = "stats" => sample[s][n].events <= base[r][n].events
=============================================================================
