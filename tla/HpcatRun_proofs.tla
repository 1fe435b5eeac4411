-------------------------- MODULE HpcatRun_proofs --------------------------
(***************************************************************************)
(* Proofs about HpcatRun, for every set of nodes and every set of lists.   *)
(***************************************************************************)
EXTENDS HpcatRun, FiniteSetTheorems, TLAPS

\* The answer of poll_cluster is in, for every target and at least one.
Answered == /\ phase = "returned"
            /\ DOMAIN answer = name
            /\ name # {}

\* What each place of main() says of the call of poll_cluster and of stdout.
\* A run of jobs never polls.
PlaceInv ==
  /\ place = "resolve" => name = {}
  /\ place \in {"resolve", "poll"} => phase = "polling" /\ answer = Nothing
  /\ place = "poll" => cmd # "jobs" /\ name # {}
  /\ place \in {"render", "leave"} => cmd = "jobs" \/ Answered
  /\ place # "exited" => exit = NoCode
  /\ place = "leave" \/ exit = 0 => printed = Output /\ (cmd = "jobs" \/ Answered)
  /\ cmd = "jobs" => answer = Nothing

IInv == TypeOK /\ PlaceInv
-----------------------------------------------------------------------------
(* Lemmas about the views. *)

\* A node without a row has an error to show, whatever its keys.
LEMMA RowOrError == \A c, k : HasRow(c, k) \/ "error" \in k
  BY DEF HasRow

\* What is printed of a set of answers: which nodes, and how many.
LEMMA OutputType ==
  ASSUME TypeOK
  PROVE  /\ Output.rows \subseteq name
         /\ Output.errors \subseteq name
         /\ Output.notes \subseteq name
         /\ \A f \in {"total", "ok", "error"} : Output[f] \in 0 .. Cardinality(Node)
<1>1. DOMAIN answer \subseteq name /\ name \subseteq Node /\ IsFiniteSet(Node)
  BY NodeAssumption DEF TypeOK
<1>2. /\ Output.rows \subseteq DOMAIN answer
      /\ Output.errors \subseteq DOMAIN answer
      /\ Output.notes \subseteq DOMAIN answer
  BY DEF Output
<1>3. \A S \in SUBSET DOMAIN answer : Cardinality(S) \in 0 .. Cardinality(Node)
  <2> SUFFICES ASSUME NEW S \in SUBSET DOMAIN answer
               PROVE  Cardinality(S) \in 0 .. Cardinality(Node)
    OBVIOUS
  <2>1. S \subseteq Node
    BY <1>1
  <2>2. Cardinality(S) <= Cardinality(Node) /\ IsFiniteSet(S)
    BY <2>1, <1>1, FS_Subset
  <2> QED BY <2>2, <1>1, FS_CardinalityType
<1>4. 0 \in 0 .. Cardinality(Node)
  BY <1>1, FS_CardinalityType
<1>5. /\ Output.total \in {0, Cardinality(DOMAIN answer)}
      /\ \E S \in SUBSET DOMAIN answer : Output.ok \in {0, Cardinality(S)}
      /\ \E S \in SUBSET DOMAIN answer : Output.error \in {0, Cardinality(S)}
  BY DEF Output
<1> QED BY <1>1, <1>2, <1>3, <1>4, <1>5
-----------------------------------------------------------------------------
(* The inductive invariant. *)

LEMMA InitIInv == Init => IInv
<1> SUFFICES ASSUME Init PROVE IInv
  OBVIOUS
<1>1. 0 \in 0 .. Cardinality(Node)
  BY NodeAssumption, FS_CardinalityType
<1> QED BY <1>1 DEF Init, PInit, IInv, TypeOK, PlaceInv, Answered, Paper, Nothing, NoCode

LEMMA ResolveIInv ==
  ASSUME IInv, NEW N \in SUBSET Node, Resolve(N) PROVE IInv'
<1>1. name' \in SUBSET IF cmd = "gpu" /\ ~ args.given THEN GpuNode ELSE Node
  <2>1. args.given => args.nodes \in Seq(Node) /\ Here \in Node
    BY ListsAssumption, NodeAssumption DEF IInv, TypeOK, Args
  <2>2. args.given => Range(args.nodes) \subseteq Node
    BY <2>1 DEF Range
  <2>3. ~ args.given => Discovered(N) \subseteq IF cmd = "gpu" THEN GpuNode ELSE Node
    BY DEF Discovered
  <2> QED BY <2>1, <2>2, <2>3 DEF Resolve
<1>2. name = {} /\ printed.rows = {} /\ printed.errors = {} /\ printed.notes = {}
  BY DEF IInv, PlaceInv, TypeOK, Resolve
<1>3. DOMAIN answer = {}
  BY DEF IInv, PlaceInv, Resolve, Nothing
<1>4. TypeOK'
  BY <1>1, <1>2, <1>3 DEF IInv, TypeOK, Resolve, Exit
<1>5. PlaceInv'
  BY DEF IInv, PlaceInv, Resolve, Exit, Answered, NoCode
<1> QED BY <1>4, <1>5 DEF IInv

LEMMA PollIInv ==
  ASSUME IInv, PollReturns \/ PollRaises PROVE IInv'
<1>1. CASE PollReturns
  <2>1. PICK a \in Answers : answer' = a
    BY <1>1 DEF PollReturns
  <2>2. DOMAIN answer' = name /\ \A n \in name : answer'[n] \in PollResult(cmd, n)
    BY <1>1 DEF PollReturns, Return
  <2>3. TypeOK'
    BY <1>1, <2>2 DEF IInv, TypeOK, PollReturns, Return
  <2>4. PlaceInv'
    BY <1>1, <2>2 DEF IInv, PlaceInv, PollReturns, Return, Answered, NoCode
  <2> QED BY <2>3, <2>4 DEF IInv
<1>2. CASE PollRaises
  BY <1>2 DEF IInv, TypeOK, PlaceInv, PollRaises, Fail, Exit, Answered, NoCode
<1> QED BY <1>1, <1>2

LEMMA RenderIInv ==
  ASSUME IInv, Render \/ Leave PROVE IInv'
<1>1. CASE Render
  <2>1. Output' = Output
    BY <1>1 DEF Render, Output, ShowsData, ShowsError, ShowsNote, HasLine,
             HasConsoleLine, ConsoleError, pvars
  <2>2. TypeOK'
    BY <1>1, OutputType DEF IInv, TypeOK, Render, pvars
  <2>3. PlaceInv'
    BY <1>1, <2>1 DEF IInv, PlaceInv, Render, Answered, NoCode, pvars
  <2> QED BY <2>2, <2>3 DEF IInv
<1>2. CASE Leave
  <2>1. Output' = Output
    BY <1>2 DEF Leave, Output, ShowsData, ShowsError, ShowsNote, HasLine,
             HasConsoleLine, ConsoleError, pvars
  <2>2. TypeOK'
    BY <1>2 DEF IInv, TypeOK, Leave, Exit, pvars
  <2>3. PlaceInv'
    BY <1>2, <2>1 DEF IInv, PlaceInv, Leave, Exit, Answered, NoCode, pvars
  <2> QED BY <2>2, <2>3 DEF IInv
<1> QED BY <1>1, <1>2

LEMMA BreakIInv ==
  ASSUME IInv, NEW code \in {1, 130}, RenderBreaks(code) PROVE IInv'
<1>1. PICK R \in SUBSET Output.rows, E \in SUBSET Output.errors, M \in SUBSET Output.notes :
        printed' = [Paper EXCEPT !.rows = R, !.errors = E, !.notes = M]
  BY DEF RenderBreaks
<1>2. 0 \in 0 .. Cardinality(Node)
  BY NodeAssumption, FS_CardinalityType
<1>3. TypeOK'
  BY <1>1, <1>2, OutputType DEF IInv, TypeOK, RenderBreaks, Exit, Paper, pvars
<1>4. PlaceInv'
  BY DEF IInv, PlaceInv, RenderBreaks, Exit, Answered, pvars
<1> QED BY <1>3, <1>4 DEF IInv

LEMMA ExitIInv ==
  ASSUME IInv, ResolveRaises \/ Interrupt \/ \E ok \in BOOLEAN : Squeue(ok)
  PROVE  IInv'
<1>1. CASE ResolveRaises
  BY <1>1 DEF IInv, TypeOK, PlaceInv, ResolveRaises, Exit, Answered, pvars
<1>2. CASE Interrupt
  BY <1>2 DEF IInv, TypeOK, PlaceInv, Interrupt, Fail, Exit, Answered, pvars
<1>3. CASE \E ok \in BOOLEAN : Squeue(ok)
  BY <1>3 DEF IInv, TypeOK, PlaceInv, Squeue, Exit, Answered, pvars, NoCode
<1> QED BY <1>1, <1>2, <1>3

LEMMA NextIInv == IInv /\ [Next]_vars => IInv'
<1> SUFFICES ASSUME IInv, [Next]_vars PROVE IInv'
  OBVIOUS
<1>1. CASE ResolveNamed \/ Discover
  BY <1>1, ResolveIInv DEF ResolveNamed, Discover
<1>2. CASE PollEnds
  BY <1>2, PollIInv DEF PollEnds
<1>3. CASE RenderEnds \/ Leave
  BY <1>3, RenderIInv, BreakIInv DEF RenderEnds
<1>4. CASE ResolveRaises \/ JobsStep \/ Interrupt
  BY <1>4, ExitIInv DEF JobsStep
<1>5. CASE UNCHANGED vars
  <2>1. Output' = Output
    BY <1>5 DEF vars, pvars, Output, ShowsData, ShowsError, ShowsNote, HasLine,
             HasConsoleLine, ConsoleError
  <2>2. TypeOK'
    BY <1>5 DEF vars, pvars, IInv, TypeOK
  <2>3. PlaceInv'
    BY <1>5, <2>1 DEF vars, pvars, IInv, PlaceInv, Answered
  <2> QED BY <2>2, <2>3 DEF IInv
<1> QED BY <1>1, <1>2, <1>3, <1>4, <1>5 DEF Next, Over

\* Where a run is, what it has been told and what it has printed go together.
THEOREM Invariance == Spec => []IInv
  BY InitIInv, NextIInv, PTL DEF Spec
-----------------------------------------------------------------------------
(* The properties. *)

\* Type correctness of a run; a discovery for gpu only targets nodes with one.
THEOREM TypeCorrect == Spec => []TypeOK
<1>1. IInv => TypeOK
  BY DEF IInv
<1> QED BY <1>1, Invariance, PTL

\* The counts of the -t view add up.
LEMMA CountsAddUp ==
  ASSUME TypeOK, args.total, DOMAIN answer = name
  PROVE  /\ Output.total = Cardinality(name)
         /\ Output.ok = Cardinality(Output.rows)
         /\ Output.ok + Output.error = Output.total
<1> DEFINE R == {n \in name : HasRow(cmd, answer[n].keys)}
<1>1. /\ Output.rows = R
      /\ Output.ok = Cardinality(R)
      /\ Output.total = Cardinality(name)
  BY DEF Output, ShowsData
<1>2. Output.error = Cardinality(name \ R)
  <2>1. {n \in DOMAIN answer : "error" \in answer[n].keys
                               /\ ~ HasRow(cmd, answer[n].keys)} = name \ R
    BY RowOrError
  <2> QED BY <2>1 DEF Output
<1>3. IsFiniteSet(name) /\ R \subseteq name
  BY NodeAssumption, FS_Subset DEF TypeOK
<1>4. Cardinality(name \ R) = Cardinality(name) - Cardinality(R)
  <2>1. name \cap R = R
    BY <1>3
  <2>2. Cardinality(name \ R) = Cardinality(name) - Cardinality(name \cap R)
    <3> HIDE DEF R
    <3> QED BY <1>3, FS_Difference
  <2> QED BY <2>1, <2>2
<1>5. Cardinality(name) \in Nat /\ Cardinality(R) \in Nat
  BY <1>3, FS_Subset, FS_CardinalityType
<1> QED BY <1>1, <1>2, <1>4, <1>5

\* A node with keys k may be missing from the view asked for.
MayMiss(k) ==
  /\ args.format # "json"
  /\ \/ args.format = "prometheus" /\ "error" \in k
     \/ /\ ~ args.total
        /\ {"error", "entry"} \cap k = {}
        /\ cmd \in IF args.format = "prometheus" THEN {"gpu", "net", "stg"}
                                                 ELSE {"gpu", "stg"}

\* Each answered node is shown in at most one way, and in one unless it may miss.
LEMMA EachShownOnce ==
  ASSUME TypeOK, cmd # "jobs", DOMAIN answer = name
  PROVE  /\ Output.rows \cap Output.errors = {}
         /\ Output.notes \cap (Output.rows \cup Output.errors) = {}
         /\ \A n \in name \ (Output.rows \cup Output.errors \cup Output.notes) :
              MayMiss(answer[n].keys)
<1>1. /\ args.total \in BOOLEAN /\ args.format \in Format
      /\ cmd \in Command
  BY DEF TypeOK, Args
<1> DEFINE D(k) == ShowsData(args.total, args.format, k)
           E(k) == ShowsError(args.total, args.format, k)
<1>2. ASSUME NEW k
      PROVE  /\ ~ (D(k) /\ E(k))
             /\ ~ (ShowsNote(k) /\ (D(k) \/ E(k)))
             /\ D(k) \/ E(k) \/ ShowsNote(k) \/ MayMiss(k)
  <2> USE <1>1 DEF ShowsData, ShowsError, ShowsNote, HasLine, HasConsoleLine,
                   ConsoleError, MayMiss, AsksSlurm, Command, Format
  <2>1. CASE args.total
    BY <2>1, RowOrError
  <2>2. CASE ~ args.total /\ args.format = "console"
    BY <2>2
  <2>3. CASE ~ args.total /\ args.format = "csv"
    BY <2>3
  <2>4. CASE ~ args.total /\ args.format \in {"json", "prometheus"}
    BY <2>4
  <2> QED BY <2>1, <2>2, <2>3, <2>4
<1> HIDE DEF D, E
<1> QED BY <1>2 DEF Output, D, E

\* Exit code 0 accounts for every target, in every view of every command.
THEOREM AllAccounted == Spec => []NothingVanishes
<1>1. IInv => NothingVanishes
  <2> SUFFICES ASSUME IInv, exit = 0, cmd # "jobs" PROVE NothingVanishes
    BY DEF NothingVanishes
  <2>1. printed = Output /\ Answered
    BY DEF IInv, PlaceInv
  <2> QED BY <2>1, CountsAddUp, EachShownOnce DEF IInv, Answered, NothingVanishes, MayMiss
<1> QED BY <1>1, Invariance, PTL

\* -t and the console agree on who failed; the CSV differs on two kinds of nodes
\* alone, and what it shows as data the other views show, too.
THEOREM ViewsAgreed == Spec => []ViewsAgree
<1>1. ViewsAgree
  <2> SUFFICES ASSUME NEW k
               PROVE  /\ ShowsError(TRUE, "csv", k) = ShowsError(FALSE, "console", k)
                      /\ ShowsError(FALSE, "csv", k) /\ ~ ShowsError(TRUE, "csv", k) <=>
                           \/ AsksSlurm(cmd) /\ "error" \in k /\ "slurm_error" \notin k
                           \/ cmd = "net" /\ "error" \notin k /\ "entry" \notin k
                      /\ ShowsData(FALSE, "csv", k) => /\ ShowsData(TRUE, "csv", k)
                                                       /\ ShowsData(FALSE, "console", k)
                                                       /\ ShowsData(FALSE, "prometheus", k)
    BY DEF ViewsAgree
  <2>1. /\ ShowsError(TRUE, "csv", k) = ("error" \in k /\ ~ HasRow(cmd, k))
        /\ ShowsError(FALSE, "console", k) = ConsoleError(k)
        /\ ShowsError(FALSE, "csv", k) = ("error" \in k \/ (cmd = "net" /\ ~ HasLine(k)))
    BY DEF ShowsError
  <2>2. ConsoleError(k) = ("error" \in k /\ ~ HasRow(cmd, k))
    BY DEF ConsoleError, HasRow
  <2>3. ShowsError(FALSE, "csv", k) /\ ~ ShowsError(TRUE, "csv", k) <=>
          \/ AsksSlurm(cmd) /\ "error" \in k /\ "slurm_error" \notin k
          \/ cmd = "net" /\ "error" \notin k /\ "entry" \notin k
    BY <2>1 DEF HasRow, HasLine, AsksSlurm
  <2>4. ShowsData(FALSE, "csv", k) => /\ ShowsData(TRUE, "csv", k)
                                     /\ ShowsData(FALSE, "console", k)
                                     /\ ShowsData(FALSE, "prometheus", k)
    BY DEF ShowsData, HasConsoleLine, ConsoleError, HasRow
  <2> QED BY <2>1, <2>2, <2>3, <2>4
<1> QED BY <1>1, PTL
=============================================================================
