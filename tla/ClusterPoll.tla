---------------------------- MODULE ClusterPoll ----------------------------
(***************************************************************************)
(* poll_cluster (core/cluster.py): one call that fans poll_node out over a *)
(* thread pool, and collects the futures as they complete, with the        *)
(* interrupts (Ctrl-C) that may reach the main thread anywhere.            *)
(*                                                                         *)
(* A task is a position of the target list, not a node: `-n n1 n1` submits *)
(* two polls of n1.  Tasks move through                                    *)
(*   new -> queued -> remote -> [slurm] -> done | raised                   *)
(* and the main thread through                                             *)
(*   submit -> collect -> exit -> end                                      *)
(* where "exit" is the end of the with block: it waits for every submitted *)
(* task, on the normal path, after an exception and after an interrupt.    *)
(* A Ctrl-C there ends the call at once, while the workers go on with what *)
(* is running and queued.                                                  *)
(***************************************************************************)
EXTENDS Naturals, Sequences, FiniteSets, Functions, NodePoll

CONSTANTS Node,         \* the nodes that can be named
          MaxWorkers,   \* size of the thread pool (30 in the code)
          TargetLists,  \* the target lists a call may be given
          Commands      \* the commands a call may be made for

ASSUME WorkersAssumption == MaxWorkers \in Nat \ {0}

\* execute() stops before the call when the target list is empty.
ASSUME TargetsAssumption ==
  \A t \in TargetLists : t \in Seq(Node) /\ t # <<>>

ASSUME CommandsAssumption == Commands \subseteq Command

VARIABLES cmd,            \* which command's poll_node is polled with
          targets,        \* the list of target nodes
          submitted,      \* how many tasks the main thread has submitted
          stage,          \* where each task is
          result,         \* what each task has gathered, returned once done
          yielded,        \* tasks whose future as_completed has handed over
          cluster_state,  \* the dictionary under construction
          main,           \* where the main thread is
          outcome         \* how the body of the with block was left

vars == <<cmd, targets, submitted, stage, result, yielded, cluster_state,
          main, outcome>>

Task     == 1 .. Len(targets)
Running  == {"remote", "slurm"}
Finished == {"done", "raised"}
Stage    == {"new", "queued"} \cup Running \cup Finished

\* The data of a task nothing has answered yet, and a dictionary update.
NoData(n) == [node |-> n, keys |-> {}]
PutFresh(f, k, v) == [x \in {k} |-> v]   \* mutant: starts over
Put(f, k, v) == [x \in DOMAIN f \cup {k} |-> IF x = k THEN v ELSE f[x]]

Init == /\ cmd \in Commands
        /\ targets \in TargetLists
        /\ submitted = 0
        /\ stage = [i \in Task |-> "new"]
        /\ result = [i \in Task |-> NoData(targets[i])]
        /\ yielded = {}
        /\ cluster_state = [n \in {} |-> {}]
        /\ main = "submit"
        /\ outcome = "none"
-----------------------------------------------------------------------------
(* The main thread. *)

\* Mutant of Submit: tests the count before the increment.
SubmitOneMore == /\ main = "submit"
                 /\ submitted' = submitted + 1
                 /\ stage' = [stage EXCEPT ![submitted + 1] = "queued"]
                 /\ main' = IF submitted = Len(targets) THEN "collect" ELSE main
                 /\ UNCHANGED <<cmd, targets, result, yielded, cluster_state, outcome>>

\* The dictionary comprehension: one executor.submit per target, in order.
Submit == /\ main = "submit"
          /\ submitted' = submitted + 1
          /\ stage' = [stage EXCEPT ![submitted + 1] = "queued"]
          /\ main' = IF submitted' = Len(targets) THEN "collect" ELSE main
          /\ UNCHANGED <<cmd, targets, result, yielded, cluster_state, outcome>>

\* Mutant of Collect: swallows what a poll raised.
CollectSkipsRaised(i) ==
  /\ main = "collect"
  /\ stage[i] \in Finished
  /\ i \notin yielded
  /\ yielded' = yielded \cup {i}
  /\ cluster_state' = IF stage[i] = "raised" THEN cluster_state
                      ELSE Put(cluster_state, result[i].node, result[i])
  /\ UNCHANGED <<cmd, targets, submitted, stage, result, main, outcome>>

\* One turn of the as_completed loop: future.result() returns the pair, or
\* raises what the poll raised and leaves the with block.
Collect(i) == /\ main = "collect"
              /\ stage[i] \in Finished
              /\ i \notin yielded
              /\ yielded' = yielded \cup {i}
              /\ IF stage[i] = "raised"
                   THEN /\ main' = "exit"
                        /\ outcome' = "raise"
                        /\ UNCHANGED cluster_state
                   ELSE /\ cluster_state' = Put(cluster_state, result[i].node, result[i])
                        /\ UNCHANGED <<main, outcome>>
              /\ UNCHANGED <<cmd, targets, submitted, stage, result>>

\* Mutant of LoopEnds: all futures are done, but not all were handed over.
LoopEndsWhenDone == /\ main = "collect"
                    /\ \A i \in Task : stage[i] \in Finished
                    /\ main' = "exit"
                    /\ outcome' = "return"
                    /\ UNCHANGED <<cmd, targets, submitted, stage, result,
                                   yielded, cluster_state>>

\* as_completed is exhausted: the body is left on the way to the return.
LoopEnds == /\ main = "collect"
            /\ yielded = Task
            /\ main' = "exit"
            /\ outcome' = "return"
            /\ UNCHANGED <<cmd, targets, submitted, stage, result, yielded,
                           cluster_state>>

\* KeyboardInterrupt is raised in the main thread, wherever it is.  In the body
\* it leaves it; in the wait of __exit__ it breaks that off, and the call ends.
Interrupt == /\ main \in {"submit", "collect", "exit"}
             /\ main' = IF main = "exit" THEN "end" ELSE "exit"
             /\ outcome' = "interrupt"
             /\ UNCHANGED <<cmd, targets, submitted, stage, result, yielded,
                            cluster_state>>

\* Mutant of Shutdown: waits also for tasks that were never submitted.
ShutdownWaitsForAll == /\ main = "exit"
                       /\ \A i \in Task : stage[i] \in Finished
                       /\ main' = "end"
                       /\ UNCHANGED <<cmd, targets, submitted, stage, result,
                                      yielded, cluster_state, outcome>>

\* ThreadPoolExecutor.__exit__ waits until no submitted task is left, unless
\* Interrupt breaks it off.
Shutdown == /\ main = "exit"
            /\ \A i \in Task : stage[i] \in Finished \cup {"new"}
            /\ main' = "end"
            /\ UNCHANGED <<cmd, targets, submitted, stage, result, yielded,
                           cluster_state, outcome>>
-----------------------------------------------------------------------------
(* The worker threads.  They run on whatever the main thread does. *)

\* Mutant of Busy: a worker is not given back when its task is done.
BusyEver == {i \in Task : stage[i] \notin {"new", "queued"}}

Busy == {i \in Task : stage[i] \in Running}

\* Mutant of Start: no task is taken once the call is over.
StartUntilEnd(i) == /\ main # "end"
                    /\ stage[i] = "queued"
                    /\ \A j \in Task : stage[j] = "queued" => i <= j
                    /\ Cardinality(Busy) < MaxWorkers
                    /\ stage' = [stage EXCEPT ![i] = "remote"]
                    /\ UNCHANGED <<cmd, targets, submitted, result, yielded,
                                   cluster_state, main, outcome>>

\* A free worker takes the oldest queued task, also when nobody waits for it
\* any more: shutdown cancels nothing.
Start(i) == /\ stage[i] = "queued"
            /\ \A j \in Task : stage[j] = "queued" => i <= j
            /\ Cardinality(Busy) < MaxWorkers
            /\ stage' = [stage EXCEPT ![i] = "remote"]
            /\ UNCHANGED <<cmd, targets, submitted, result, yielded,
                           cluster_state, main, outcome>>

\* The transport ends, with r: parse, then return, raise, or ask the scheduler.
RemoteAnswers(i, r) ==
  /\ stage[i] = "remote"
  /\ IF Raises(cmd, r)
       THEN /\ stage' = [stage EXCEPT ![i] = "raised"]
            /\ UNCHANGED result
       ELSE /\ stage' = [stage EXCEPT ![i] = IF AsksSlurm(cmd) THEN "slurm" ELSE "done"]
            /\ result' = [result EXCEPT ![i].keys = HardwareKeys(cmd, r)]
  /\ UNCHANGED <<cmd, targets, submitted, yielded, cluster_state, main, outcome>>

\* scontrol ends, with s: the two dictionaries are merged and returned.
SlurmAnswers(i, s) ==
  /\ stage[i] = "slurm"
  /\ stage' = [stage EXCEPT ![i] = "done"]
  /\ result' = [result EXCEPT ![i].keys = @ \cup QueryNodeState(s)]
  /\ UNCHANGED <<cmd, targets, submitted, yielded, cluster_state, main, outcome>>
-----------------------------------------------------------------------------
\* The call is over.
Over == main = "end" /\ UNCHANGED vars

Main == Submit \/ (\E i \in Task : Collect(i)) \/ LoopEnds \/ Shutdown

Next == \/ Main
        \/ Interrupt
        \/ \E i \in Task : Start(i)
        \/ \E i \in Task, r \in Reply : RemoteAnswers(i, r)
        \/ \E i \in Task, s \in SlurmReply : SlurmAnswers(i, s)
        \/ Over

Spec == Init /\ [][Next]_vars

\* The main thread and the workers are scheduled, and the transport ends:
\* subprocess.run is given a timeout, and kills what outlives it.  Nothing is
\* assumed of SlurmAnswers: scontrol is run without one.  Workers are no daemon
\* threads: the interpreter joins them at its exit, so they are scheduled after
\* the call, too, for as long as the process is.
Fairness == /\ WF_vars(Main)
            /\ WF_vars(\E i \in Task : Start(i))
            /\ WF_vars(\E i \in Task, r \in Reply : RemoteAnswers(i, r))

LiveSpec == Spec /\ Fairness
-----------------------------------------------------------------------------
Name == Range(targets)

Outcome == {"none", "return", "raise", "interrupt"}

\* The type invariant.
TypeOK == /\ cmd \in Commands
          /\ targets \in TargetLists
          /\ submitted \in 0 .. Len(targets)
          /\ stage \in [Task -> Stage]
          /\ result \in [Task -> [node : Node, keys : SUBSET Key]]
          /\ yielded \subseteq Task
          /\ DOMAIN cluster_state \subseteq Name
          /\ main \in {"submit", "collect", "exit", "end"}
          /\ outcome \in Outcome

\* A normal return leaves nothing out and mixes nothing up: every distinct
\* target has an entry, nothing else does, and the entry is what a finished
\* poll of that node returned, whatever order the polls completed in and
\* however often the node was named (cluster.py, poll_cluster).
ReturnIsComplete ==
  outcome = "return" =>
    /\ DOMAIN cluster_state = Name
    /\ \A n \in Name : \E i \in Task : /\ targets[i] = n
                                       /\ stage[i] = "done"
                                       /\ cluster_state[n] = result[i]

\* The only thing that makes poll_cluster raise is a gpu poll whose text does
\* not parse (gpu.py:26-34): no ssh failure, timeout or scheduler failure of
\* any node, in any order, aborts the call.
OnlyGarbledGpuAborts ==
  outcome = "raise" => /\ cmd = "gpu"
                       /\ \E i \in yielded : stage[i] = "raised"

\* What was collected is never lost, and only the next poll of the same node
\* (a node named twice) replaces it (cluster.py:25).
NoLoss == [][\A n \in DOMAIN cluster_state :
               /\ n \in DOMAIN cluster_state'
               /\ cluster_state'[n] # cluster_state[n]
                    => \E i \in yielded' \ yielded : targets[i] = n]_vars

\* The call ends, and can be held up by one thing only: an scontrol that never
\* answers (slurm.py:13, run without a timeout).
EndsUnlessScontrolHangs ==
  \/ <>(main = "end")
  \/ <>[](\E i \in Task : stage[i] = "slurm")

\* Commands that do not ask the scheduler always end, interrupted or not.
EndsWithoutScontrol == ~ AsksSlurm(cmd) ~> main = "end"

\* An interrupt cancels nothing: wherever the first and the second strike, every
\* poll that was submitted is run to its end, those included that no worker had
\* taken when the call ended: Ctrl-C does not free the process before the
\* slowest poll has ended (cluster.py:21, where no future is cancelled).
SubmittedPollsFinish ==
  ~ AsksSlurm(cmd) ~> /\ main = "end"
                      /\ \A i \in Task : i <= submitted => stage[i] \in Finished

\* poll_cluster keeps the promise its callers rely on.
Promise == INSTANCE PollPromise WITH
             name   <- Name,
             phase  <- IF main # "end" THEN "polling"
                       ELSE IF outcome = "return" THEN "returned" ELSE "failed",
             answer <- IF main = "end" /\ outcome = "return" THEN cluster_state
                       ELSE [n \in {} |-> {}]
KeepsPromise == Promise!PSpec

\* What the docstring says of the functions poll_cluster is given
\* (cluster.py:18): every poll returns its (node, data) pair.
EveryPollReturns == \A i \in Task : stage[i] # "raised"
=============================================================================
