------------------------------ MODULE HpcatRun ------------------------------
(***************************************************************************)
(* One run of hpcat, from the parsed command line to the exit code:        *)
(* main() in cli.py, the execute() of the subcommand, resolve_nodes and    *)
(* render_or_print.  poll_cluster appears as what it promises              *)
(* (PollPromise, which ClusterPoll implements), so nothing here depends on *)
(* how the polls are scheduled.                                            *)
(*                                                                         *)
(* What is printed is abstracted to which nodes it shows, as data, as an   *)
(* error or with a line that says there is nothing to show, and to the     *)
(* node counts of the -t view.  net -d compares and                        *)
(* saves its snapshot between polling and rendering (NetDelta); that       *)
(* touches no key a decision made here depends on.                         *)
(***************************************************************************)
EXTENDS Naturals, Sequences, FiniteSets, Functions, PollPromise

CONSTANTS Node,       \* the nodes that can be named or discovered
          Here,       \* the short name of the host hpcat runs on
          GpuNode,    \* the nodes whose GRES mentions a GPU
          NodeLists   \* what -n may be followed by; <<>> is a bare -n

ASSUME NodeAssumption == /\ IsFiniteSet(Node)
                         /\ Here \in Node
                         /\ GpuNode \subseteq Node
ASSUME ListsAssumption == \A l \in NodeLists : l \in Seq(Node)

VARIABLES args,     \* the command line: -n, -t, -e and the output format
          place,    \* where main() is
          printed,  \* what went to stdout
          exit      \* the exit code

vars == <<pvars, args, place, printed, exit>>

Format == {"console", "json", "csv", "prometheus"}
\* given says whether -n was; argparse tells a bare -n from none.  jobs has no
\* -n at all, and gpu and jobs no -e.
Args   == [given : BOOLEAN, nodes : NodeLists, total : BOOLEAN,
           extended : BOOLEAN, format : Format]

Paper == [rows |-> {}, errors |-> {}, notes |-> {}, total |-> 0, ok |-> 0, error |-> 0]
NoCode == 999

Init == /\ PInit
        /\ cmd \in Command \cup {"jobs"}
        /\ name = {}
        /\ args \in Args
        /\ cmd = "jobs" => ~ args.given
        /\ args.extended => cmd \notin {"gpu", "jobs"}
        /\ place = "resolve"
        /\ printed = Paper
        /\ exit = NoCode

Exit(code) == place' = "exited" /\ exit' = code
-----------------------------------------------------------------------------
(* Choosing the targets. *)

\* Mutant of Discovered: the GRES filter is dropped.
DiscoveredUnfiltered(N) == N

\* sinfo lists the set N, or fails (no such program, a non-zero exit: no node),
\* and gpu keeps the nodes with a GPU.
Discovered(N) == IF cmd = "gpu" THEN N \cap GpuNode ELSE N

\* resolve_nodes, and the early return of execute() when it finds no target.
Resolve(N) == /\ place = "resolve"
              /\ cmd # "jobs"
              /\ name' = IF ~ args.given THEN Discovered(N)
                         ELSE IF args.nodes = <<>> THEN {Here}
                         ELSE Range(args.nodes)
              /\ IF name' = {} THEN Exit(1) ELSE place' = "poll" /\ UNCHANGED exit
              /\ UNCHANGED <<cmd, phase, answer, args, printed>>

\* sinfo cannot be started, or prints a line that does not split: an exception
\* that is no FileNotFoundError reaches main().
ResolveRaises == /\ place = "resolve"
                 /\ cmd # "jobs"
                 /\ ~ args.given
                 /\ Exit(1)
                 /\ UNCHANGED <<pvars, args, printed>>

\* jobs asks squeue instead, which has a timeout; every failure is an error
\* dictionary and exit code 1.
Squeue(ok) == /\ place = "resolve"
              /\ cmd = "jobs"
              /\ IF ok THEN place' = "render" /\ UNCHANGED exit ELSE Exit(1)
              /\ UNCHANGED <<pvars, args, printed>>
-----------------------------------------------------------------------------
(* Polling. *)

Answers == {a \in [name -> UNION {PollResult(cmd, n) : n \in name}] :
              \A n \in name : a[n].node = n}

PollReturns == /\ place = "poll"
               /\ \E a \in Answers : answer' = a
               /\ Return
               /\ place' = "render"
               /\ UNCHANGED <<args, printed, exit>>

\* An exception of a poll; only gpu's raises (ClusterPoll!OnlyGarbledGpuAborts).
PollRaises == /\ place = "poll"
              /\ cmd = "gpu"
              /\ Fail
              /\ Exit(1)
              /\ UNCHANGED <<args, printed>>
-----------------------------------------------------------------------------
(* Rendering: render_or_print. *)

\* The test by which print_console shows a node as an error.
ConsoleError(k) == IF AsksSlurm(cmd) THEN "error" \in k /\ "slurm_error" \in k
                                     ELSE "error" \in k

\* gpu, net and stg print a line per entry of the node's lists, cpu and mem one
\* line per node.  The console also prints the rows without a target.
HasLine(k) == AsksSlurm(cmd) \/ "entry" \in k
HasConsoleLine(k) == HasLine(k) \/ "unparsed" \in k

\* Is data of a node with keys k shown?  The JSON detail is the dictionary itself.
ShowsData(total, format, k) ==
  CASE total                          -> HasRow(cmd, k)
    [] ~ total /\ format = "json"     -> TRUE
    [] ~ total /\ format = "console"  -> ~ ConsoleError(k) /\ HasConsoleLine(k)
    [] ~ total /\ format \in {"csv", "prometheus"} -> "error" \notin k /\ HasLine(k)

\* Is the node shown as an error?  summarize lists the nodes with an error and no
\* row, and the CSV of net also the nodes without a port.  Prometheus shows no
\* error in either view.
ShowsError(total, format, k) ==
  CASE format = "prometheus"          -> FALSE
    [] format # "prometheus" /\ total -> "error" \in k /\ ~ HasRow(cmd, k)
    [] format = "json" /\ ~ total     -> FALSE
    [] format = "console" /\ ~ total  -> ConsoleError(k)
    [] format = "csv" /\ ~ total      -> "error" \in k \/ (cmd = "net" /\ ~ HasLine(k))

\* Is there only a line that says there is nothing?  The console has one for a
\* net node without a port, and with -e a heading for every stg node.
ShowsNote(k) ==
  /\ ~ args.total /\ args.format = "console"
  /\ ~ ConsoleError(k) /\ ~ HasConsoleLine(k)
  /\ cmd = "net" \/ (cmd = "stg" /\ args.extended)

Output ==
  LET data(n)   == ShowsData(args.total, args.format, answer[n].keys)
      error(n)  == ShowsError(args.total, args.format, answer[n].keys)
      failed(n) == "error" \in answer[n].keys /\ ~ HasRow(cmd, answer[n].keys)
  IN  [rows   |-> {n \in DOMAIN answer : data(n)},
       errors |-> {n \in DOMAIN answer : error(n)},
       notes  |-> {n \in DOMAIN answer : ShowsNote(answer[n].keys)},
       total  |-> IF args.total THEN Cardinality(DOMAIN answer) ELSE 0,
       ok     |-> IF args.total THEN Cardinality({n \in DOMAIN answer : data(n)}) ELSE 0,
       error  |-> IF args.total THEN Cardinality({n \in DOMAIN answer : failed(n)}) ELSE 0]

Render == /\ place = "render"
          /\ printed' = Output
          /\ place' = "leave"
          /\ UNCHANGED <<pvars, args, exit>>

\* The output breaks off (a closed pipe, Ctrl-C while it is printed): some of
\* it may have been written.
RenderBreaks(code) ==
  /\ place = "render"
  /\ \E R \in SUBSET Output.rows, E \in SUBSET Output.errors, M \in SUBSET Output.notes :
       printed' = [Paper EXCEPT !.rows = R, !.errors = E, !.notes = M]
  /\ Exit(code)
  /\ UNCHANGED <<pvars, args>>

\* execute() has returned 0 to main().
Leave == /\ place = "leave"
         /\ Exit(0)
         /\ UNCHANGED <<pvars, args, printed>>
-----------------------------------------------------------------------------
\* KeyboardInterrupt: main() catches it wherever it was raised.
Interrupt == /\ place # "exited"
             /\ IF place = "poll" THEN Fail ELSE UNCHANGED pvars
             /\ Exit(130)
             /\ UNCHANGED <<args, printed>>

Over == place = "exited" /\ UNCHANGED vars

ResolveNamed == args.given /\ Resolve({})
Discover     == ~ args.given /\ \E N \in SUBSET Node : Resolve(N)
JobsStep     == \E ok \in BOOLEAN : Squeue(ok)
PollEnds     == PollReturns \/ PollRaises
RenderEnds   == Render \/ \E code \in {1, 130} : RenderBreaks(code)

Next == \/ ResolveNamed \/ Discover \/ ResolveRaises \/ JobsStep
        \/ PollEnds
        \/ RenderEnds
        \/ Leave
        \/ Interrupt
        \/ Over

Spec == Init /\ [][Next]_vars

\* What ends by itself: squeue has a timeout, and so has every poll of a
\* command that does not ask scontrol (ClusterPoll!EndsWithoutScontrol).
\* Nothing is assumed of Discover: sinfo is run without a timeout.
Fairness == /\ WF_vars(ResolveNamed)
            /\ WF_vars(JobsStep)
            /\ WF_vars(PollEnds /\ ~ AsksSlurm(cmd))
            /\ WF_vars(RenderEnds)
            /\ WF_vars(Leave)

LiveSpec == Spec /\ Fairness
-----------------------------------------------------------------------------
\* The type invariant.
TypeOK == /\ cmd \in Command \cup {"jobs"}
          /\ name \subseteq IF cmd = "gpu" /\ ~ args.given THEN GpuNode ELSE Node
          /\ phase \in {"polling", "returned", "failed"}
          /\ DOMAIN answer \subseteq name
          /\ \A n \in DOMAIN answer : answer[n] \in PollResult(cmd, n)
          /\ args \in Args
          /\ place \in {"resolve", "poll", "render", "leave", "exited"}
          /\ \A f \in {"rows", "errors", "notes"} : printed[f] \subseteq name
          /\ \A f \in {"total", "ok", "error"} : printed[f] \in 0 .. Cardinality(Node)
          /\ exit \in {NoCode, 0, 1, 130}

\* Exit code 0 accounts for every target.  Whatever each of them and the
\* scheduler answered, each is shown in at most one way.  A failed one is missing
\* from Prometheus only, and -t counts it there (summarize.py:444-459); an
\* answered one only from a detail view that prints a line per entry (gpu.py:62,
\* stg.py:275, csv_out.py:21, prometheus_out.py:48), and only if it has none.
NothingVanishes ==
  exit = 0 /\ cmd # "jobs" =>
    /\ phase = "returned"
    /\ name # {}
    /\ printed.rows \cap printed.errors = {}
    /\ printed.notes \cap (printed.rows \cup printed.errors) = {}
    /\ \A n \in name \ (printed.rows \cup printed.errors \cup printed.notes) :
         /\ args.format # "json"
         /\ \/ args.format = "prometheus" /\ "error" \in answer[n].keys
            \/ /\ ~ args.total
               /\ {"error", "entry"} \cap answer[n].keys = {}
               /\ cmd \in IF args.format = "prometheus" THEN {"gpu", "net", "stg"}
                                                        ELSE {"gpu", "stg"}
    /\ args.total => /\ printed.total = Cardinality(name)
                     /\ printed.ok = Cardinality(printed.rows)
                     /\ printed.ok + printed.error = printed.total

\* The views agree on who failed: -t lists as an error exactly the nodes the
\* console does ("matches print_console's own error test", summarize.py:154).
\* The CSV detail has an error besides for two kinds of nodes that have a row with
\* -t: those whose scheduler half answered alone, and those of net without a port.
\* What it shows as data has a row with -t and samples in Prometheus.
ViewsAgree ==
  place = "render" =>
    \A n \in DOMAIN answer :
      LET k == answer[n].keys
      IN  /\ ShowsError(TRUE, "csv", k) = ShowsError(FALSE, "console", k)
          /\ ShowsError(FALSE, "csv", k) /\ ~ ShowsError(TRUE, "csv", k) <=>
               \/ AsksSlurm(cmd) /\ "error" \in k /\ "slurm_error" \notin k
               \/ cmd = "net" /\ "error" \notin k /\ "entry" \notin k
          /\ ShowsData(FALSE, "csv", k) => /\ ShowsData(TRUE, "csv", k)
                                           /\ ShowsData(FALSE, "console", k)
                                           /\ ShowsData(FALSE, "prometheus", k)

\* A run can only hang in Slurm's hands: in discovery, where sinfo has no
\* timeout (discovery.py:17), or in a cpu or mem poll, where scontrol has none
\* (slurm.py:14).  A run with -n of any other command ends, and so does jobs.
HangsOnlyOnSlurm ==
  \/ <>(place = "exited")
  \/ <>[](place = "resolve" /\ cmd # "jobs" /\ ~ args.given)
  \/ <>[](place = "poll" /\ cmd \in {"cpu", "mem"})
=============================================================================
