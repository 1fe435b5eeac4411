------------------------- MODULE ClusterPoll_proofs -------------------------
(***************************************************************************)
(* Proofs about ClusterPoll, for every set of nodes, every pool size,      *)
(* every set of target lists and of commands.                              *)
(*                                                                         *)
(* The inductive invariant relates the four things a step of one thread    *)
(* can change under another's feet: how far the main thread has submitted, *)
(* where each task is, what was handed over, and the dictionary.           *)
(***************************************************************************)
EXTENDS ClusterPoll, TLAPS

USE DEF Task, Running, Finished, Stage, Name, Outcome, NoData

\* Submission is in order, and each place of the main thread says how far it is.
MainInv ==
  /\ \A i \in Task : stage[i] = "new" <=> i > submitted
  /\ main = "submit" => submitted < Len(targets) /\ yielded = {}
  /\ main = "collect" => submitted = Len(targets)
  /\ outcome = "none" <=> main \in {"submit", "collect"}
  /\ main = "collect" => \A i \in yielded : stage[i] # "raised"

\* How the body was left says what was handed over until then.
OutcomeInv ==
  /\ outcome = "return" => yielded = Task /\ \A i \in Task : stage[i] # "raised"
  /\ outcome = "raise" => \E i \in yielded : stage[i] = "raised"

\* A task's data is its own node's, and is what the answers so far make of it.
ResultInv ==
  \A i \in Task :
    /\ result[i].node = targets[i]
    /\ stage[i] = "raised" => cmd = "gpu"
    /\ stage[i] = "slurm" =>
         /\ AsksSlurm(cmd)
         /\ \E r \in Reply : ~ Raises(cmd, r) /\ result[i].keys = HardwareKeys(cmd, r)
    /\ stage[i] = "done" => result[i] \in PollResult(cmd, targets[i])

\* The dictionary holds the result of a task handed over for each of its keys,
\* and has the node of every task handed over.
StateInv ==
  /\ \A i \in yielded : stage[i] \in Finished
  /\ \A i \in yielded : stage[i] = "done" => targets[i] \in DOMAIN cluster_state
  /\ \A n \in DOMAIN cluster_state :
       \E i \in yielded : /\ targets[i] = n
                          /\ stage[i] = "done"
                          /\ cluster_state[n] = result[i]

IInv == TypeOK /\ MainInv /\ OutcomeInv /\ ResultInv /\ StateInv
-----------------------------------------------------------------------------
(* Lemmas about the operators. *)

\* The parsers and the scheduler query only ever produce known keys.
LEMMA KeysType ==
  ASSUME NEW c \in Command
  PROVE  /\ \A r \in Reply : HardwareKeys(c, r) \in SUBSET Key
         /\ \A s \in SlurmReply : QueryNodeState(s) \in SUBSET Key
  BY DEF Command, Reply, SlurmReply, Key, HardwareKeys, SshPoll, ParseGpu,
         ParseCpu, ParseMem, ParseNet, ParseStg, Entries, QueryNodeState

\* A poll that asked no scheduler returns the transport's keys alone.
LEMMA RemoteResult ==
  ASSUME NEW c, NEW n, NEW r \in Reply, ~ Raises(c, r), ~ AsksSlurm(c)
  PROVE  [node |-> n, keys |-> HardwareKeys(c, r)] \in PollResult(c, n)
<1>1. HardwareKeys(c, r) = HardwareKeys(c, r) \cup {}
  OBVIOUS
<1> QED BY <1>1 DEF PollResult

\* A poll that asked the scheduler returns the two sets of keys merged.
LEMMA MergedResult ==
  ASSUME NEW c, NEW n, NEW r \in Reply, NEW s \in SlurmReply,
         ~ Raises(c, r), AsksSlurm(c)
  PROVE  [node |-> n, keys |-> HardwareKeys(c, r) \cup QueryNodeState(s)]
           \in PollResult(c, n)
  BY DEF PollResult

\* The target list is a non-empty sequence of nodes, and Name is its range.
LEMMA TargetFacts ==
  ASSUME targets \in TargetLists
  PROVE  /\ Len(targets) \in Nat
         /\ Len(targets) > 0
         /\ \A i \in Task : targets[i] \in Node /\ targets[i] \in Name
         /\ \A n \in Name : \E i \in Task : targets[i] = n
<1>1. targets \in Seq(Node) /\ targets # <<>>
  BY TargetsAssumption
<1>2. Len(targets) \in Nat /\ DOMAIN targets = Task
  BY <1>1
<1>3. Len(targets) > 0
  BY <1>1, <1>2
<1>4. \A i \in Task : targets[i] \in Node
  BY <1>1, <1>2
<1> QED BY <1>2, <1>3, <1>4 DEF Range
-----------------------------------------------------------------------------
(* The inductive invariant. *)

LEMMA InitIInv == Init => IInv
<1> SUFFICES ASSUME Init PROVE IInv
  OBVIOUS
<1> USE DEF Init
<1>1. TypeOK
  BY TargetFacts DEF TypeOK
<1>2. MainInv
  BY TargetFacts DEF MainInv
<1>3. OutcomeInv /\ ResultInv /\ StateInv
  BY DEF OutcomeInv, ResultInv, StateInv
<1> QED BY <1>1, <1>2, <1>3 DEF IInv

LEMMA SubmitIInv == IInv /\ Submit => IInv'
<1> SUFFICES ASSUME IInv, Submit PROVE IInv'
  OBVIOUS
<1> USE DEF Submit
<1>0. TypeOK /\ MainInv /\ OutcomeInv /\ ResultInv /\ StateInv
  BY DEF IInv
<1>1. Len(targets) \in Nat /\ submitted < Len(targets) /\ submitted \in Nat
  BY <1>0, TargetFacts DEF TypeOK, MainInv
<1>2. submitted + 1 \in Task /\ stage[submitted + 1] = "new"
  BY <1>0, <1>1 DEF MainInv
<1>3. \A i \in Task : stage'[i] = IF i = submitted + 1 THEN "queued" ELSE stage[i]
  BY <1>0, <1>2 DEF TypeOK
<1>4. TypeOK'
  BY <1>0, <1>1, <1>2 DEF TypeOK
<1>5. MainInv'
  <2>1. (\A i \in Task : stage[i] = "new" <=> i > submitted)'
    BY <1>0, <1>1, <1>3 DEF MainInv, TypeOK
  <2>2. yielded' = {}
    BY <1>0 DEF MainInv
  <2>3. submitted' = Len(targets) \/ submitted' < Len(targets)
    BY <1>1
  <2> QED BY <1>0, <2>1, <2>2, <2>3 DEF MainInv
<1>6. OutcomeInv'
  BY <1>0 DEF OutcomeInv, MainInv
<1>7. ResultInv'
  BY <1>0, <1>3 DEF ResultInv
<1>8. StateInv'
  BY <1>0 DEF StateInv, MainInv
<1> QED BY <1>4, <1>5, <1>6, <1>7, <1>8 DEF IInv

LEMMA CollectIInv == ASSUME IInv, NEW i \in Task, Collect(i) PROVE IInv'
<1> USE DEF Collect
<1>0. TypeOK /\ MainInv /\ OutcomeInv /\ ResultInv /\ StateInv
  BY DEF IInv
<1>1. CASE stage[i] = "raised"
  BY <1>0, <1>1 DEF IInv, TypeOK, MainInv, OutcomeInv, ResultInv, StateInv
<1>2. CASE stage[i] = "done"
  <2>1. result[i].node = targets[i] /\ targets[i] \in Name
    BY <1>0, TargetFacts DEF ResultInv, TypeOK
  <2>2. /\ DOMAIN cluster_state' = DOMAIN cluster_state \cup {targets[i]}
        /\ cluster_state'[targets[i]] = result[i]
        /\ \A n \in DOMAIN cluster_state :
             n # targets[i] => cluster_state'[n] = cluster_state[n]
    <3>1. cluster_state' = Put(cluster_state, targets[i], result[i])
      BY <1>2, <2>1
    <3> QED BY <3>1 DEF Put
  <2>3. TypeOK'
    BY <1>0, <1>2, <2>1, <2>2 DEF TypeOK
  <2>4. MainInv' /\ OutcomeInv' /\ ResultInv'
    BY <1>0, <1>2 DEF MainInv, OutcomeInv, ResultInv
  <2>5. StateInv'
    <3>1. (\A j \in yielded : stage[j] = "done" => targets[j] \in DOMAIN cluster_state)'
      BY <1>0, <2>2 DEF StateInv
    <3>2. ASSUME NEW n \in DOMAIN cluster_state'
          PROVE  \E j \in yielded' : /\ targets[j] = n
                                     /\ stage[j] = "done"
                                     /\ cluster_state'[n] = result[j]
      <4>1. CASE n = targets[i]
        BY <1>2, <2>2, <4>1
      <4>2. CASE n # targets[i]
        BY <1>0, <2>2, <4>2 DEF StateInv
      <4> QED BY <4>1, <4>2
    <3> QED BY <1>0, <1>2, <3>1, <3>2 DEF StateInv
  <2> QED BY <2>3, <2>4, <2>5 DEF IInv
<1> QED BY <1>1, <1>2

LEMMA LeaveIInv == IInv /\ (LoopEnds \/ Interrupt \/ Shutdown) => IInv'
<1> SUFFICES ASSUME IInv PROVE LoopEnds \/ Interrupt \/ Shutdown => IInv'
  OBVIOUS
<1>0. TypeOK /\ MainInv /\ OutcomeInv /\ ResultInv /\ StateInv
  BY DEF IInv
<1>1. CASE LoopEnds
  BY <1>0, <1>1 DEF LoopEnds, IInv, TypeOK, MainInv, OutcomeInv, ResultInv, StateInv
<1>2. CASE Interrupt
  BY <1>0, <1>2 DEF Interrupt, IInv, TypeOK, MainInv, OutcomeInv, ResultInv, StateInv
<1>3. CASE Shutdown
  BY <1>0, <1>3 DEF Shutdown, IInv, TypeOK, MainInv, OutcomeInv, ResultInv, StateInv
<1> QED BY <1>1, <1>2, <1>3

\* A worker's step moves one unfinished task i to stage x with data v, and
\* leaves the main thread's state alone.  Such a step keeps the invariant when
\* the new stage and data are right for i.
LEMMA WorkerIInv ==
  ASSUME IInv, NEW i \in Task, NEW x \in Stage \ {"new"}, NEW v,
         stage[i] \notin Finished \cup {"new"},
         stage' = [stage EXCEPT ![i] = x],
         result' = [result EXCEPT ![i] = v],
         UNCHANGED <<cmd, targets, submitted, yielded, cluster_state, main, outcome>>,
         v \in [node : {targets[i]}, keys : SUBSET Key],
         x = "raised" => cmd = "gpu",
         x = "slurm" =>
           /\ AsksSlurm(cmd)
           /\ \E r \in Reply : ~ Raises(cmd, r) /\ v.keys = HardwareKeys(cmd, r),
         x = "done" => v \in PollResult(cmd, targets[i])
  PROVE  IInv'
<1>0. TypeOK /\ MainInv /\ OutcomeInv /\ ResultInv /\ StateInv
  BY DEF IInv
<1>1. \A j \in Task : /\ stage'[j] = IF j = i THEN x ELSE stage[j]
                      /\ result'[j] = IF j = i THEN v ELSE result[j]
  BY <1>0 DEF TypeOK
<1>2. i \notin yielded /\ outcome # "return"
  BY <1>0 DEF StateInv, OutcomeInv
<1>3. TypeOK'
  BY <1>0, TargetFacts DEF TypeOK
<1>4. MainInv'
  BY <1>0, <1>1, <1>2 DEF MainInv, TypeOK
<1>5. OutcomeInv'
  BY <1>0, <1>1, <1>2 DEF OutcomeInv, TypeOK
<1>6. ResultInv'
  BY <1>0, <1>1 DEF ResultInv
<1>7. StateInv'
  BY <1>0, <1>1, <1>2 DEF StateInv, TypeOK
<1> QED BY <1>3, <1>4, <1>5, <1>6, <1>7 DEF IInv

LEMMA StartIInv == ASSUME IInv, NEW i \in Task, Start(i) PROVE IInv'
<1>1. result \in [Task -> [node : Node, keys : SUBSET Key]] /\ ResultInv
  BY DEF IInv, TypeOK
<1>2. result[i] \in [node : {targets[i]}, keys : SUBSET Key]
  BY <1>1 DEF ResultInv
<1>3. result' = [result EXCEPT ![i] = result[i]]
  BY <1>1 DEF Start
<1> QED BY <1>2, <1>3, WorkerIInv DEF Start

LEMMA RemoteIInv ==
  ASSUME IInv, NEW i \in Task, NEW r \in Reply, RemoteAnswers(i, r) PROVE IInv'
<1>1. /\ result \in [Task -> [node : Node, keys : SUBSET Key]]
      /\ cmd \in Command
      /\ ResultInv
  BY CommandsAssumption DEF IInv, TypeOK
<1>2. result[i] \in [node : {targets[i]}, keys : SUBSET Key]
  BY <1>1 DEF ResultInv
<1>3. CASE Raises(cmd, r)
  <2>1. result' = [result EXCEPT ![i] = result[i]]
    BY <1>1, <1>3 DEF RemoteAnswers
  <2>2. cmd = "gpu"
    BY <1>3 DEF Raises
  <2> QED BY <1>2, <1>3, <2>1, <2>2, WorkerIInv DEF RemoteAnswers
<1>4. CASE ~ Raises(cmd, r)
  <2> DEFINE v == [node |-> targets[i], keys |-> HardwareKeys(cmd, r)]
             x == IF AsksSlurm(cmd) THEN "slurm" ELSE "done"
  <2>1. v \in [node : {targets[i]}, keys : SUBSET Key]
    BY <1>1, KeysType
  <2>2. result' = [result EXCEPT ![i] = v]
    <3>1. [result[i] EXCEPT !.keys = HardwareKeys(cmd, r)] = v
      BY <1>2
    <3> QED BY <1>1, <1>4, <3>1 DEF RemoteAnswers
  <2>3. x = "done" => v \in PollResult(cmd, targets[i])
    BY <1>4, RemoteResult
  <2>4. x = "slurm" => AsksSlurm(cmd) /\ v.keys = HardwareKeys(cmd, r)
    OBVIOUS
  <2>5. /\ stage[i] \notin Finished \cup {"new"}
        /\ stage' = [stage EXCEPT ![i] = x]
        /\ x \in {"slurm", "done"}
        /\ UNCHANGED <<cmd, targets, submitted, yielded, cluster_state, main, outcome>>
    BY <1>4 DEF RemoteAnswers
  <2> HIDE DEF v, x
  <2> QED BY <1>4, <2>1, <2>2, <2>3, <2>4, <2>5, WorkerIInv
<1> QED BY <1>3, <1>4

LEMMA SlurmIInv ==
  ASSUME IInv, NEW i \in Task, NEW s \in SlurmReply, SlurmAnswers(i, s) PROVE IInv'
<1> DEFINE v == [node |-> targets[i], keys |-> result[i].keys \cup QueryNodeState(s)]
<1>1. /\ result \in [Task -> [node : Node, keys : SUBSET Key]]
      /\ cmd \in Command
      /\ ResultInv
  BY CommandsAssumption DEF IInv, TypeOK
<1>2. result[i] \in [node : {targets[i]}, keys : SUBSET Key]
  BY <1>1 DEF ResultInv
<1>3. v \in [node : {targets[i]}, keys : SUBSET Key]
  BY <1>1, <1>2, KeysType
<1>4. result' = [result EXCEPT ![i] = v]
  <2> DEFINE k == result[i].keys \cup QueryNodeState(s)
  <2>1. result' = [result EXCEPT ![i].keys = k]
    BY DEF SlurmAnswers
  <2> HIDE DEF k
  <2>2. [result[i] EXCEPT !.keys = k] = [node |-> targets[i], keys |-> k]
    BY <1>2
  <2> QED BY <1>1, <2>1, <2>2 DEF k
<1>5. v \in PollResult(cmd, targets[i])
  <2>1. AsksSlurm(cmd)
    BY <1>1 DEF SlurmAnswers, ResultInv
  <2>2. PICK r \in Reply : ~ Raises(cmd, r) /\ result[i].keys = HardwareKeys(cmd, r)
    BY <1>1 DEF SlurmAnswers, ResultInv
  <2> QED BY <2>1, <2>2, MergedResult
<1>6. /\ stage[i] \notin Finished \cup {"new"}
      /\ stage' = [stage EXCEPT ![i] = "done"]
      /\ UNCHANGED <<cmd, targets, submitted, yielded, cluster_state, main, outcome>>
  BY DEF SlurmAnswers
<1> HIDE DEF v
<1> QED BY <1>3, <1>4, <1>5, <1>6, WorkerIInv

LEMMA NextIInv == IInv /\ [Next]_vars => IInv'
<1> SUFFICES ASSUME IInv, [Next]_vars PROVE IInv'
  OBVIOUS
<1>1. CASE Main
  BY <1>1, SubmitIInv, CollectIInv, LeaveIInv DEF Main
<1>2. CASE Interrupt
  BY <1>2, LeaveIInv
<1>3. CASE \E i \in Task : Start(i)
  BY <1>3, StartIInv
<1>4. CASE \E i \in Task, r \in Reply : RemoteAnswers(i, r)
  BY <1>4, RemoteIInv
<1>5. CASE \E i \in Task, s \in SlurmReply : SlurmAnswers(i, s)
  BY <1>5, SlurmIInv
<1>6. CASE Over \/ UNCHANGED vars
  <2> USE <1>6 DEF Over, vars
  <2>1. TypeOK => TypeOK'
    BY DEF TypeOK
  <2>2. MainInv => MainInv'
    BY DEF MainInv
  <2>3. OutcomeInv /\ ResultInv => OutcomeInv' /\ ResultInv'
    BY DEF OutcomeInv, ResultInv
  <2>4. StateInv => StateInv'
    BY DEF StateInv
  <2> QED BY <2>1, <2>2, <2>3, <2>4 DEF IInv
<1> QED BY <1>1, <1>2, <1>3, <1>4, <1>5, <1>6 DEF Next

\* The strengthened invariant holds of every reachable state.
THEOREM Invariance == Spec => []IInv
  BY InitIInv, NextIInv, PTL DEF Spec
-----------------------------------------------------------------------------
(* The properties. *)

\* Once every task is done and handed over, the dictionary's keys are the
\* distinct targets.
LEMMA AllYieldedDomain ==
  ASSUME IInv, yielded = Task, \A i \in Task : stage[i] = "done"
  PROVE  DOMAIN cluster_state = Name
<1>1. TypeOK /\ StateInv
  BY DEF IInv
<1>2. \A i \in Task : targets[i] \in DOMAIN cluster_state
  BY <1>1 DEF StateInv
<1>3. \A n \in Name : n \in DOMAIN cluster_state
  BY <1>1, <1>2, TargetFacts DEF TypeOK
<1> QED BY <1>1, <1>3 DEF TypeOK

\* Every variable keeps its type.
THEOREM TypeCorrect == Spec => []TypeOK
<1>1. IInv => TypeOK
  BY DEF IInv
<1> QED BY <1>1, Invariance, PTL

\* Whatever the pool size, the target list and the order of completion, what
\* poll_cluster returns has one entry per distinct target, from a poll of it.
THEOREM ReturnsComplete == Spec => []ReturnIsComplete
<1>1. IInv => ReturnIsComplete
  <2> SUFFICES ASSUME IInv, outcome = "return" PROVE ReturnIsComplete
    BY DEF ReturnIsComplete
  <2>1. TypeOK /\ OutcomeInv /\ StateInv
    BY DEF IInv
  <2>2. yielded = Task /\ \A i \in Task : stage[i] = "done"
    BY <2>1 DEF OutcomeInv, StateInv
  <2>3. DOMAIN cluster_state = Name
    BY <2>2, AllYieldedDomain
  <2> QED BY <2>1, <2>2, <2>3 DEF ReturnIsComplete, StateInv
<1> QED BY <1>1, Invariance, PTL

\* Only gpu output that does not parse makes the call raise.
THEOREM OnlyGpuAborts == Spec => []OnlyGarbledGpuAborts
<1>1. IInv => OnlyGarbledGpuAborts
  BY DEF IInv, TypeOK, OutcomeInv, ResultInv, OnlyGarbledGpuAborts
<1> QED BY <1>1, Invariance, PTL

\* No step drops an entry, and only another poll of the node replaces it.
THEOREM NothingLost == Spec => NoLoss
<1> DEFINE Keeps == \A n \in DOMAIN cluster_state :
                      /\ n \in DOMAIN cluster_state'
                      /\ cluster_state'[n] # cluster_state[n]
                           => \E i \in yielded' \ yielded : targets[i] = n
<1>1. IInv /\ [Next]_vars => [Keeps]_vars
  <2> SUFFICES ASSUME IInv, Next PROVE Keeps
    OBVIOUS
  <2>1. CASE \E i \in Task : Collect(i)
    <3>1. PICK i \in Task : Collect(i)
      BY <2>1
    <3>2. result[i].node = targets[i] /\ i \in yielded' \ yielded
      BY <3>1 DEF Collect, IInv, ResultInv
    <3> QED BY <3>1, <3>2 DEF Collect, Put
  <2>2. CASE UNCHANGED cluster_state
    BY <2>2
  <2> QED
    BY <2>1, <2>2 DEF Next, Main, Submit, LoopEnds, Shutdown, Interrupt, Start,
                      RemoteAnswers, SlurmAnswers, Over, vars
<1> QED BY <1>1, Invariance, PTL DEF Spec, NoLoss
-----------------------------------------------------------------------------
(* The refinement: poll_cluster implements PollPromise. *)

\* The promise's answers are the poll's.
LEMMA SameAnswers == \A c, n : Promise!PollResult(c, n) = PollResult(c, n)
  BY DEF PollResult, Raises, HardwareKeys, SshPoll, ParseGpu, ParseCpu, ParseMem,
         ParseNet, ParseStg, Entries, AsksSlurm, QueryNodeState, Reply, SlurmReply,
         Promise!PollResult, Promise!Raises, Promise!HardwareKeys,
         Promise!SshPoll, Promise!ParseGpu, Promise!ParseCpu, Promise!ParseMem,
         Promise!ParseNet, Promise!ParseStg, Promise!Entries, Promise!AsksSlurm,
         Promise!QueryNodeState, Promise!Reply, Promise!SlurmReply

\* The end of the wait is visible to the caller: it returns or it fails.
LEMMA ShutdownKeepsPromise == IInv /\ Shutdown => Promise!PNext
<1> SUFFICES ASSUME IInv, Shutdown PROVE Promise!PNext
  OBVIOUS
<1>1. main = "exit" /\ main' = "end" /\ UNCHANGED <<cmd, targets, cluster_state, outcome>>
  BY DEF Shutdown
<1>2. CASE outcome = "return"
  <2>1. yielded = Task /\ \A i \in Task : stage[i] = "done"
    BY <1>2 DEF IInv, OutcomeInv, StateInv
  <2>2. DOMAIN cluster_state = Name
    BY <2>1, AllYieldedDomain
  <2>3. \A n \in Name : cluster_state[n] \in PollResult(cmd, n)
    BY <2>1, <2>2 DEF IInv, StateInv, ResultInv
  <2> QED BY <1>1, <1>2, <2>2, <2>3, SameAnswers DEF Promise!PNext, Promise!Return
<1>3. CASE outcome # "return"
  BY <1>1, <1>3 DEF Promise!PNext, Promise!Fail
<1> QED BY <1>2, <1>3

\* So is an interrupt of the wait, which fails, whatever the body came to.
LEMMA InterruptKeepsPromise == Interrupt /\ main = "exit" => Promise!PNext
  BY DEF Interrupt, Promise!PNext, Promise!Fail

\* Every behaviour of the pool is one the promise allows.
THEOREM Refinement == Spec => KeepsPromise
<1>1. Init => Promise!PInit
  BY DEF Init, Promise!PInit, Promise!Nothing
<1>2. IInv /\ [Next]_vars => [Promise!PNext]_(Promise!pvars)
  <2> SUFFICES ASSUME IInv, [Next]_vars
               PROVE  Promise!PNext \/ UNCHANGED Promise!pvars
    OBVIOUS
  <2>1. CASE Shutdown
    BY <2>1, ShutdownKeepsPromise
  <2>2. CASE Interrupt /\ main = "exit"
    BY <2>2, InterruptKeepsPromise
  <2>3. CASE main # "end" /\ main' # "end" /\ UNCHANGED <<cmd, targets>>
    BY <2>3 DEF Promise!pvars
  <2>4. CASE UNCHANGED <<cmd, targets, main, outcome, cluster_state>>
    BY <2>4 DEF Promise!pvars
  <2> QED
    BY <2>1, <2>2, <2>3, <2>4
    DEF Next, Main, Submit, Collect, LoopEnds, Interrupt, Start, RemoteAnswers,
        SlurmAnswers, Over, vars
<1> QED BY <1>1, <1>2, Invariance, PTL DEF Spec, KeepsPromise, Promise!PSpec
=============================================================================
