--------------------------- MODULE NetDelta_proofs ---------------------------
(***************************************************************************)
(* Proofs about NetDelta, for every set of nodes, every number of runs and *)
(* every way a poll may fail.                                              *)
(***************************************************************************)
EXTENDS NetDelta, Sums_proofs

\* What a node shows now, as a poll would read it.
Now(n) == [kind |-> "stats", val |-> counter[n],
           events |-> events[n], resets |-> resets[n]]

\* cur may have been read of a counter after old was.
Since(old, cur) ==
  /\ old.events <= cur.events
  /\ old.resets <= cur.resets
  /\ old.resets = cur.resets => cur.val = old.val + (cur.events - old.events)
  /\ old.resets < cur.resets => cur.val <= cur.events - old.events

\* Runs are started in their order.
StartInv == \A s, t \in Run : s < t /\ phase[s] = "idle" => phase[t] = "idle"

\* How far a run is says what it has: nothing, then samples of all targets,
\* then the file.
PhaseInv ==
  \A r \in Run :
    /\ phase[r] = "idle" => sample[r] = None
    /\ phase[r] \in {"idle", "polling", "loaded"} => pos[r] = -1
    /\ phase[r] \in {"loaded", "saving"} \/ Opened(r) =>
         DOMAIN sample[r] = want[r] /\ want[r] # {}
    /\ phase[r] = "saving" => Opened(r)
    /\ phase[r] \in {"loaded", "saving"} => delta[r]
    /\ phase[r] # "idle" => want[r] # {}

\* A run that truncated the file with no other run writing has it for itself
\* until the next one truncates it.
FileInv ==
  /\ owner = 0 => /\ DOMAIN file = {}
                  /\ \A s \in Run : ~ Opened(s)
  /\ alone => \A s \in Run : phase[s] = "saving" => s = owner
  /\ alone /\ owner # 0 => /\ Opened(owner)
                           /\ DOMAIN file = 1 .. pos[owner]
                           /\ \A k \in DOMAIN file : file[k] = <<owner, k>>

\* Without overlap one run is under way, between those that are over and those
\* not yet started, and the last to open the file is the owner.
SequenceInv ==
  ~ overlapped =>
    /\ alone
    /\ \A r, s \in Run : phase[r] \in Active =>
         /\ s < r => phase[s] \in {"shown", "dead"}
         /\ s > r => phase[s] = "idle"
    /\ \A s \in Run : Opened(s) => s <= owner

\* Every sample is of a counter as it was then.
WorldInv ==
  \A r \in Run : \A n \in DOMAIN sample[r] :
    sample[r][n].kind = "stats" => Since(sample[r][n], Now(n))

\* Without overlap, a later run's samples were read later.
OrderInv ==
  ~ overlapped => \A s, r \in Run : s < r =>
    \A n \in DOMAIN sample[s] \cap DOMAIN sample[r] :
      sample[s][n].kind = "stats" /\ sample[r][n].kind = "stats" =>
        Since(sample[s][n], sample[r][n])

\* What run r has loaded is the last snapshot saved before it.
LoadsLast(r) ==
  LET before == {s \in Run : s < r /\ Opened(s)}
  IN  IF before = {} THEN base[r] = None
      ELSE \E s \in before : /\ \A t \in before : t <= s
                             /\ base[r] = IF Saved(s) THEN sample[s] ELSE None

\* That holds of every run that has got to where it compares, those included
\* that were killed after they had opened the file.
Compared(r)  == Loaded(r) \/ Opened(r)
ComparedLast == ~ overlapped => \A r \in Run : Compared(r) => LoadsLast(r)

\* A step that touches no run but r.
OthersStay(r) ==
  /\ \A s \in Run \ {r} :
       /\ phase'[s] = phase[s] /\ delta'[s] = delta[s] /\ want'[s] = want[s]
       /\ sample'[s] = sample[s] /\ base'[s] = base[s] /\ pos'[s] = pos[s]
  /\ overlapped' = overlapped

IInv == /\ TypeOK
        /\ StartInv
        /\ PhaseInv
        /\ FileInv
        /\ SequenceInv
        /\ WorldInv
        /\ OrderInv
        /\ ComparedLast
-----------------------------------------------------------------------------
(* Lemmas about samples and about the file. *)

LEMMA SampleFields ==
  ASSUME NEW s \in Sample
  PROVE  s.val \in Nat /\ s.events \in Nat /\ s.resets \in Nat
  BY DEF Sample, Unread, Reading

LEMMA NowIsReading ==
  ASSUME TypeOK, NEW n \in Node
  PROVE  Now(n) \in Reading /\ Now(n) \in Sample
  BY BoundsAssumption DEF TypeOK, Now, Reading, Sample

\* A text has as many blocks as the run has samples, at most one per node.
LEMMA BlocksType ==
  ASSUME TypeOK, NEW r \in Run
  PROVE  /\ IsFiniteSet(DOMAIN sample[r])
         /\ Blocks(r) \in 0 .. Cardinality(Node)
         /\ Cardinality(Node) \in Nat
         /\ Blocks(r) = 0 <=> DOMAIN sample[r] = {}
<1>1. DOMAIN sample[r] \subseteq Node
  BY DEF TypeOK
<1>2. IsFiniteSet(DOMAIN sample[r]) /\ Cardinality(DOMAIN sample[r]) <= Cardinality(Node)
  BY <1>1, NodeAssumption, FS_Subset
<1>3. Cardinality(Node) \in Nat /\ Cardinality(DOMAIN sample[r]) \in Nat
  BY <1>2, NodeAssumption, FS_CardinalityType
<1> QED BY <1>2, <1>3, FS_EmptySet DEF Blocks

\* Whatever is read from the file is a snapshot.
LEMMA ParseType ==
  ASSUME TypeOK, NEW b \in Parse(file)
  PROVE  DOMAIN b \subseteq Node /\ Range(b) \subseteq Sample
<1>1. CASE b = None
  BY <1>1 DEF None, Range
<1>2. ASSUME NEW r \in Run, b = sample[r] PROVE DOMAIN b \subseteq Node /\ Range(b) \subseteq Sample
  BY <1>2 DEF TypeOK
<1>3. CASE IsMixed(file) /\ b \in Mixtures(file)
  <2>1. Writers(file) \subseteq Run
    <3>1. \A k \in DOMAIN file : file[k] \in Block
      BY <1>3 DEF IsMixed, TypeOK, Range
    <3>2. \A x \in Block : x[1] \in Run
      BY DEF Block
    <3> QED BY <3>1, <3>2 DEF Writers
  <2>2. PICK N \in SUBSET Node : b \in [N -> UNION {Range(sample[r]) : r \in Writers(file)}]
    BY <1>3 DEF Mixtures
  <2>3. UNION {Range(sample[r]) : r \in Writers(file)} \subseteq Sample
    BY <2>1 DEF TypeOK
  <2> QED BY <2>2, <2>3 DEF Range
<1> QED BY <1>1, <1>2, <1>3 DEF Parse

\* A file that a run has to itself reads as all that run saw, or as nothing.
LEMMA ParseOwnFile ==
  ASSUME TypeOK, PhaseInv, FileInv, alone
  PROVE  Parse(file) = {IF owner # 0 /\ Saved(owner) THEN sample[owner] ELSE None}
<1>1. Writers(file) \subseteq {owner}
  BY DEF FileInv, Writers
<1>2. ~ IsMixed(file)
  <2>1. IsFiniteSet({owner}) /\ Cardinality({owner}) = 1
    BY FS_Singleton
  <2>2. Cardinality(Writers(file)) <= 1
    BY <1>1, <2>1, FS_Subset
  <2>3. Cardinality(Writers(file)) \in Nat
    BY <1>1, <2>1, FS_Subset, FS_CardinalityType
  <2> QED BY <2>2, <2>3 DEF IsMixed
<1>3. ASSUME NEW r \in Run, IsTextOf(file, r)
      PROVE  r = owner /\ Saved(r)
  <2>1. Blocks(r) \in Nat \ {0} /\ DOMAIN file = 1 .. Blocks(r)
    BY <1>3, BlocksType DEF IsTextOf
  <2>2. 1 \in DOMAIN file /\ file[1] = <<r, 1>>
    BY <1>3, <2>1 DEF IsTextOf
  <2>3. owner \in Run /\ Opened(owner) /\ DOMAIN file = 1 .. pos[owner] /\ file[1] = <<owner, 1>>
    BY <2>2 DEF FileInv, TypeOK
  <2>4. r = owner /\ pos[r] \in Nat
    BY <2>2, <2>3 DEF TypeOK, Opened
  <2>5. pos[r] = Blocks(r)
    <3>1. \A k \in Nat : k \in 1 .. pos[r] <=> k \in 1 .. Blocks(r)
      BY <2>1, <2>3, <2>4
    <3>2. Blocks(r) \in 1 .. Blocks(r) /\ pos[r] + 1 \notin 1 .. pos[r]
      BY <2>1, <2>4
    <3> QED BY <3>1, <3>2, <2>1, <2>4
  <2> QED BY <2>3, <2>4, <2>5 DEF Saved
<1>4. ASSUME owner # 0, Saved(owner)
      PROVE  owner \in Run /\ IsTextOf(file, owner)
  <2>1. owner \in Run /\ Opened(owner) /\ pos[owner] = Blocks(owner)
    BY <1>4 DEF TypeOK, Saved
  <2>2. Blocks(owner) > 0
    BY <2>1, BlocksType DEF PhaseInv
  <2> QED BY <1>4, <2>1, <2>2 DEF FileInv, IsTextOf
<1>5. CASE owner # 0 /\ Saved(owner)
  <2>1. {s \in Run : IsTextOf(file, s)} = {owner}
    BY <1>3, <1>4, <1>5
  <2> QED BY <1>5, <2>1 DEF Parse
<1>6. CASE ~ (owner # 0 /\ Saved(owner))
  <2>1. ~ \E s \in Run : IsTextOf(file, s)
    BY <1>3, <1>6 DEF Run
  <2> QED BY <1>2, <1>6, <2>1 DEF Parse
<1> QED BY <1>5, <1>6
-----------------------------------------------------------------------------
(* The inductive invariant holds at first, and no step breaks it. *)

LEMMA InitIInv == Init => IInv
<1> SUFFICES ASSUME Init PROVE IInv
  OBVIOUS
<1>1. None = [n \in {} |-> Unread("error")] /\ DOMAIN None = {} /\ Range(None) = {}
  BY DEF None, Range
<1>2. DOMAIN NoBlocks = {} /\ Range(NoBlocks) = {}
  BY DEF NoBlocks, Range
<1>3. \A r \in Run : sample[r] = None /\ base[r] = None /\ pos[r] = -1 /\ Blocks(r) = 0
  BY <1>1, FS_EmptySet DEF Init, Blocks
<1>4. TypeOK
  <2>1. /\ counter \in [Node -> Nat]
        /\ events \in [Node -> 0 .. MaxEvents]
        /\ resets \in [Node -> 0 .. MaxResets]
    BY BoundsAssumption DEF Init
  <2>2. /\ phase \in [Run -> Phase] /\ delta \in [Run -> BOOLEAN]
        /\ want \in [Run -> SUBSET Node] /\ pos \in [Run -> Int]
        /\ DOMAIN sample = Run /\ DOMAIN base = Run
    BY DEF Init, Phase
  <2>3. \A r \in Run : pos[r] \in -1 .. Blocks(r)
    BY <1>3
  <2>4. \A r \in Run : /\ DOMAIN sample[r] \subseteq want[r]
                       /\ Range(sample[r]) \subseteq Sample
                       /\ DOMAIN base[r] \subseteq Node
                       /\ Range(base[r]) \subseteq Sample
    BY <1>1, <1>3
  <2>5. /\ Range(file) \subseteq Block \cup {Hole}
        /\ owner \in Run \cup {0} /\ alone \in BOOLEAN /\ overlapped \in BOOLEAN
    BY <1>2 DEF Init
  <2> QED BY <2>1, <2>2, <2>3, <2>4, <2>5 DEF TypeOK
<1> QED
  BY <1>1, <1>2, <1>3, <1>4
     DEF Init, IInv, StartInv, PhaseInv, FileInv, SequenceInv, WorldInv,
         OrderInv, ComparedLast, Compared, Active, Opened, Loaded

\* A counter moves: what was read of it before stays behind.
LEMMA WorldIInv ==
  ASSUME IInv, NEW n \in Node, Event(n) \/ Reset(n) PROVE IInv'
<1> USE DEF IInv
<1>1. UNCHANGED <<phase, delta, want, sample, base, pos, file, ghosts>>
  BY DEF Event, Reset
<1>2. TypeOK'
  <2>1. counter' \in [Node -> Nat]
    BY DEF TypeOK, Event, Reset
  <2>2. events' \in [Node -> 0 .. MaxEvents] /\ resets' \in [Node -> 0 .. MaxResets]
    <3>1. CASE Event(n)
      BY <3>1, BoundsAssumption DEF TypeOK, Event
    <3>2. CASE Reset(n)
      BY <3>2, BoundsAssumption DEF TypeOK, Reset
    <3> QED BY <3>1, <3>2
  <2>3. UNCHANGED <<phase, delta, want, sample, base, pos, file, owner, alone, overlapped>>
    BY <1>1 DEF ghosts
  <2>4. \A r \in Run : Blocks(r)' = Blocks(r)
    BY <2>3 DEF Blocks
  <2> HIDE DEF IInv
  <2>5. TypeOK
    BY DEF IInv
  <2> QED BY <2>1, <2>2, <2>3, <2>4, <2>5 DEF TypeOK
<1>3. WorldInv'
  <2> SUFFICES ASSUME NEW r \in Run, NEW m \in DOMAIN sample[r],
                      sample[r][m].kind = "stats"
               PROVE  Since(sample[r][m], Now(m)')
    BY <1>1 DEF WorldInv
  <2>1. Since(sample[r][m], Now(m)) /\ m \in Node
    BY DEF WorldInv, TypeOK
  <2>2. sample[r][m] \in Sample
    BY DEF TypeOK, Range
  <2>3. /\ sample[r][m].val \in Nat /\ sample[r][m].events \in Nat /\ sample[r][m].resets \in Nat
        /\ counter[m] \in Nat /\ events[m] \in Nat /\ resets[m] \in Nat
    BY <2>1, <2>2, SampleFields, BoundsAssumption DEF TypeOK
  <2>4. \/ counter'[m] = counter[m] /\ events'[m] = events[m] /\ resets'[m] = resets[m]
        \/ counter'[m] = counter[m] + 1 /\ events'[m] = events[m] + 1 /\ resets'[m] = resets[m]
        \/ counter'[m] = 0 /\ events'[m] = events[m] /\ resets'[m] = resets[m] + 1
    BY <2>1 DEF Event, Reset, TypeOK
  <2> QED BY <2>1, <2>3, <2>4 DEF Since, Now
<1>4. StartInv' /\ PhaseInv' /\ FileInv' /\ SequenceInv'
  BY <1>1 DEF StartInv, PhaseInv, FileInv, SequenceInv, Opened, ghosts
<1>5. OrderInv' /\ ComparedLast'
  BY <1>1 DEF OrderInv, ComparedLast, Compared, LoadsLast, Loaded, Opened, Saved, Blocks, ghosts
<1> QED BY <1>2, <1>3, <1>4, <1>5

\* A run is started.
LEMMA BeginIInv ==
  ASSUME IInv, NEW r \in Run, NEW d \in BOOLEAN, NEW W \in (SUBSET Node) \ {{}},
         Begin(r, d, W)
  PROVE  IInv'
<1> USE DEF IInv
<1>1. UNCHANGED <<world, sample, base, pos, file, owner, alone>>
  BY DEF Begin
<1>2. /\ phase[r] = "idle" /\ phase'[r] = "polling"
      /\ \A s \in Run \ {r} : phase'[s] = phase[s]
      /\ \A s \in Run : s < r => phase[s] # "idle"
  BY DEF Begin, Go, TypeOK
<1>3. /\ want'[r] = W /\ delta'[r] = d
      /\ \A s \in Run \ {r} : want'[s] = want[s] /\ delta'[s] = delta[s]
  BY DEF Begin, TypeOK
<1>4. sample[r] = None /\ DOMAIN sample[r] = {}
  BY <1>2 DEF PhaseInv, None
<1>5. TypeOK'
  <2>1. phase' \in [Run -> Phase] /\ delta' \in [Run -> BOOLEAN] /\ want' \in [Run -> SUBSET Node]
    BY DEF Begin, Go, TypeOK, Phase, Active
  <2>2. overlapped' \in BOOLEAN
    BY DEF Begin, TypeOK
  <2>3. \A s \in Run : DOMAIN sample[s] \subseteq want'[s]
    BY <1>3, <1>4 DEF TypeOK
  <2> QED BY <1>1, <2>1, <2>2, <2>3 DEF TypeOK, Blocks, world
<1>6. StartInv'
  <2> SUFFICES ASSUME NEW s \in Run, NEW t \in Run, s < t, phase'[s] = "idle"
               PROVE  phase'[t] = "idle"
    BY DEF StartInv
  <2>1. s # r /\ phase[s] = "idle"
    BY <1>2
  <2>2. t # r /\ phase[t] = "idle"
    BY <1>2, <2>1 DEF StartInv
  <2> QED BY <1>2, <2>2
<1>7. PhaseInv'
  <2>1. pos[r] = -1 /\ ~ Opened(r) /\ W # {}
    <3>1. pos[r] = -1
      BY <1>2 DEF PhaseInv
    <3> QED BY <3>1 DEF Opened
  <2>2. \A s \in Run \ {r} :
          /\ phase'[s] = phase[s] /\ want'[s] = want[s] /\ delta'[s] = delta[s]
          /\ sample'[s] = sample[s] /\ pos'[s] = pos[s]
          /\ Opened(s)' <=> Opened(s)
    BY <1>1, <1>2, <1>3 DEF Opened
  <2>3. pos'[r] = -1 /\ ~ Opened(r)'
    BY <1>1, <2>1 DEF Opened
  <2> SUFFICES ASSUME NEW s \in Run
               PROVE  /\ phase'[s] = "idle" => sample'[s] = None
                      /\ phase'[s] \in {"idle", "polling", "loaded"} => pos'[s] = -1
                      /\ phase'[s] \in {"loaded", "saving"} \/ Opened(s)' =>
                           DOMAIN sample'[s] = want'[s] /\ want'[s] # {}
                      /\ phase'[s] = "saving" => Opened(s)'
                      /\ phase'[s] \in {"loaded", "saving"} => delta'[s]
                      /\ phase'[s] # "idle" => want'[s] # {}
    BY DEF PhaseInv, None
  <2>4. CASE s = r
    BY <1>2, <1>3, <2>1, <2>3, <2>4
  <2>5. CASE s # r
    BY <2>2, <2>5 DEF PhaseInv
  <2> QED BY <2>4, <2>5
<1>8. FileInv'
  BY <1>1, <1>2 DEF FileInv, Opened
<1>9. SequenceInv'
  <2> SUFFICES ASSUME ~ overlapped' PROVE SequenceInv'
    BY DEF SequenceInv
  <2>1. ~ overlapped /\ \A s \in Run : phase[s] \notin Active
    BY DEF Begin, UnderWay
  <2>2. \A s \in Run : s < r => phase'[s] \in {"shown", "dead"}
    BY <1>2, <2>1 DEF TypeOK, Phase, Run
  <2>3. \A s \in Run : s > r => phase'[s] = "idle"
    BY <1>2 DEF StartInv, Run
  <2>4. \A s \in Run : phase'[s] \in Active => s = r
    BY <1>2, <2>1
  <2> QED BY <1>1, <2>1, <2>2, <2>3, <2>4 DEF SequenceInv, Opened
<1>10. WorldInv' /\ OrderInv'
  BY <1>1 DEF WorldInv, OrderInv, Begin, Now, world
<1>11. ComparedLast'
  <2>1. \A s \in Run : Compared(s)' => Compared(s)
    BY <1>1, <1>2, <1>3 DEF Compared, Loaded, Opened
  <2> QED BY <1>1, <2>1 DEF ComparedLast, LoadsLast, Opened, Saved, Blocks, Begin
<1> QED BY <1>5, <1>6, <1>7, <1>8, <1>9, <1>10, <1>11

\* A step of a run under way keeps the order of the runs, and what the others
\* have loaded.
LEMMA RunMoves ==
  ASSUME IInv, NEW r \in Run, phase[r] \in Active,
         phase'[r] \in Active \cup {"shown", "dead"}, OthersStay(r)
  PROVE  /\ StartInv'
         /\ ~ overlapped => \A s \in Run \ {r} : /\ ~ Opened(s) \/ s < r
                                                 /\ s > r => sample[s] = None
         /\ ~ overlapped => \A s, t \in Run : phase'[s] \in Active =>
              /\ t < s => phase'[t] \in {"shown", "dead"}
              /\ t > s => phase'[t] = "idle"
         /\ ~ overlapped => \A s \in Run \ {r} : Compared(s)' => LoadsLast(s)'
<1> USE DEF IInv
<1>1. phase'[r] # "idle" /\ phase[r] # "idle"
  BY DEF Active
<1>2. StartInv'
  BY <1>1 DEF StartInv, OthersStay
<1>3. ASSUME ~ overlapped
      PROVE  \A s \in Run : /\ s < r => phase[s] \in {"shown", "dead"}
                            /\ s > r => phase[s] = "idle"
  BY <1>3 DEF SequenceInv
<1>4. ASSUME ~ overlapped, NEW s \in Run \ {r}
      PROVE  (~ Opened(s) \/ s < r) /\ (s > r => sample[s] = None)
  <2>1. s < r \/ s > r
    BY DEF Run
  <2>2. CASE s > r
    <3>1. sample[s] = None /\ pos[s] = -1
      BY <1>3, <1>4, <2>2 DEF PhaseInv
    <3> QED BY <3>1 DEF Opened
  <2> QED BY <2>1, <2>2 DEF Run
<1>5. ASSUME ~ overlapped, NEW s \in Run, NEW t \in Run, phase'[s] \in Active
      PROVE  /\ t < s => phase'[t] \in {"shown", "dead"}
             /\ t > s => phase'[t] = "idle"
  <2>1. s = r
    <3> SUFFICES ASSUME s # r PROVE FALSE
      OBVIOUS
    <3>1. phase[s] \in Active /\ (s < r \/ s > r)
      BY <1>5 DEF OthersStay, Run
    <3> QED BY <3>1, <1>3, <1>5 DEF Active
  <2>2. t < s \/ t > s => t # r
    BY <2>1 DEF Run
  <2> QED BY <2>1, <2>2, <1>3, <1>5 DEF OthersStay
<1>6. ASSUME ~ overlapped, NEW s \in Run \ {r}, Compared(s)'
      PROVE  LoadsLast(s)'
  <2>1. Compared(s)
    BY <1>6 DEF Compared, Loaded, Opened, OthersStay
  <2>2. s < r
    BY <1>3, <1>4, <1>6, <2>1 DEF Compared, Loaded, Run
  <2>3. LoadsLast(s)
    BY <1>6, <2>1 DEF ComparedLast
  <2>4. \A t \in Run : t < s => t # r
    BY <2>2 DEF Run
  <2>5. \A t \in Run : t < s => /\ Opened(t)' <=> Opened(t)
                                /\ Saved(t)' <=> Saved(t)
                                /\ sample'[t] = sample[t]
    BY <2>4 DEF OthersStay, Opened, Saved, Blocks
  <2>6. base'[s] = base[s]
    BY DEF OthersStay
  <2>7. {t \in Run : t < s /\ Opened(t)}' = {t \in Run : t < s /\ Opened(t)}
    BY <2>5
  <2> QED BY <2>3, <2>5, <2>6, <2>7 DEF LoadsLast
<1> QED BY <1>2, <1>4, <1>5, <1>6

LEMMA ComparedLastByRun ==
  ComparedLast' <=> (~ overlapped' => \A r \in Run : Compared(r)' => LoadsLast(r)')
  BY DEF ComparedLast, LoadsLast, Compared

\* Steps that only move a run on: a write that is skipped or fails, the end.
Quiet(r) == /\ phase[r] \in Active
            /\ \E p \in {"saved", "shown", "dead"} : Go(r, p)
            /\ Loaded(r)' => Loaded(r)
            /\ UNCHANGED <<world, delta, want, sample, base, pos, file, ghosts>>

LEMMA QuietSteps ==
  ASSUME TypeOK, NEW r \in Run,
         SkipSnapshot(r) \/ OpenFails(r) \/ WriteFails(r) \/ Show(r) \/ Die(r)
  PROVE  Quiet(r)
<1> USE DEF Quiet, Go, Active, Loaded, TypeOK
<1>1. CASE SkipSnapshot(r) BY <1>1 DEF SkipSnapshot
<1>2. CASE OpenFails(r) BY <1>2 DEF OpenFails
<1>3. CASE WriteFails(r) BY <1>3 DEF WriteFails
<1>4. CASE Show(r) BY <1>4 DEF Show
<1>5. CASE Die(r) BY <1>5 DEF Die
<1> QED BY <1>1, <1>2, <1>3, <1>4, <1>5

LEMMA QuietIInv ==
  ASSUME IInv, NEW r \in Run, Quiet(r) PROVE IInv'
<1> USE DEF IInv
<1>1. UNCHANGED <<world, delta, want, sample, base, pos, file, ghosts>>
  BY DEF Quiet
<1>2. /\ phase[r] \in Active /\ phase'[r] \in {"saved", "shown", "dead"}
      /\ \A s \in Run \ {r} : phase'[s] = phase[s]
  BY DEF Quiet, Go, TypeOK
<1>3. OthersStay(r)
  BY <1>1, <1>2 DEF OthersStay, ghosts
<1>4. phase'[r] \in Active \cup {"shown", "dead"}
  BY <1>2 DEF Active
<1>5. TypeOK'
  <2>1. phase' \in [Run -> Phase]
    BY DEF Quiet, Go, TypeOK, Phase, Active
  <2> QED BY <1>1, <2>1 DEF TypeOK, Blocks, world, ghosts
<1>6. PhaseInv'
  BY <1>1, <1>2 DEF PhaseInv, Opened, Active
<1>7. FileInv'
  BY <1>1, <1>2 DEF FileInv, Opened, ghosts
<1>8. StartInv'
  BY <1>2, <1>3, <1>4, RunMoves
<1>9. SequenceInv'
  <2>1. ~ overlapped => \A s, t \in Run : phase'[s] \in Active =>
              /\ t < s => phase'[t] \in {"shown", "dead"}
              /\ t > s => phase'[t] = "idle"
    BY <1>2, <1>3, <1>4, RunMoves
  <2> QED BY <1>1, <2>1 DEF SequenceInv, Opened, ghosts
<1>10. WorldInv' /\ OrderInv'
  BY <1>1 DEF WorldInv, OrderInv, Now, world, ghosts
<1>11. ComparedLast'
  <2>1. \A s \in Run : Compared(s)' => Compared(s)
    BY <1>1, <1>2 DEF Quiet, Compared, Loaded, Opened
  <2> QED BY <1>1, <2>1 DEF ComparedLast, LoadsLast, Opened, Saved, Blocks, ghosts
<1> QED BY <1>5, <1>6, <1>7, <1>8, <1>9, <1>10, <1>11

\* A node answers.
LEMMA PollIInv ==
  ASSUME IInv, NEW r \in Run, NEW n \in Node, Poll(r, n) PROVE IInv'
<1> USE DEF IInv
<1>1. PICK a \in Sample :
        /\ a.kind = "stats" => a = Now(n)
        /\ sample' = [sample EXCEPT ![r] =
                        [x \in DOMAIN sample[r] \cup {n} |->
                           IF x = n THEN a ELSE sample[r][x]]]
  <2>1. \A k \in Faults : Unread(k) \in Sample /\ Unread(k).kind # "stats"
    BY FaultsAssumption DEF Sample, Unread
  <2>2. Now(n) \in Sample
    BY NowIsReading
  <2>3. PICK a \in {Unread(k) : k \in Faults} \cup {Now(n)} :
          sample' = [sample EXCEPT ![r] =
                       [x \in DOMAIN sample[r] \cup {n} |->
                          IF x = n THEN a ELSE sample[r][x]]]
    BY DEF Poll, Now
  <2>4. a \in Sample /\ (a.kind = "stats" => a = Now(n))
    BY <2>1, <2>2
  <2> QED BY <2>3, <2>4
<1>2. /\ phase[r] = "polling" /\ n \in want[r] \ DOMAIN sample[r]
      /\ UNCHANGED <<world, phase, delta, want, base, pos, file, ghosts>>
  BY DEF Poll
<1>3. /\ DOMAIN sample' = Run
      /\ DOMAIN sample'[r] = DOMAIN sample[r] \cup {n}
      /\ sample'[r][n] = a
      /\ \A x \in DOMAIN sample[r] : sample'[r][x] = sample[r][x]
      /\ \A s \in Run \ {r} : sample'[s] = sample[s]
  BY <1>1, <1>2 DEF TypeOK
<1>4. pos[r] = -1 /\ ~ Opened(r)
  <2>1. pos[r] = -1
    BY <1>2 DEF PhaseInv
  <2> QED BY <2>1 DEF Opened
<1>5. OthersStay(r)
  BY <1>2, <1>3 DEF OthersStay, ghosts
<1>6. TypeOK'
  <2>1. DOMAIN sample'[r] \subseteq want[r] /\ Range(sample'[r]) \subseteq Sample
    <3>1. DOMAIN sample[r] \subseteq want[r] /\ \A x \in DOMAIN sample[r] : sample[r][x] \in Sample
      BY DEF TypeOK, Range
    <3>2. \A x \in DOMAIN sample'[r] : sample'[r][x] \in Sample
      BY <1>3, <3>1
    <3> QED BY <1>2, <1>3, <3>1, <3>2 DEF Range
  <2>2. Cardinality(DOMAIN sample'[r]) \in Nat
    <3>1. DOMAIN sample'[r] \subseteq Node
      BY <2>1 DEF TypeOK
    <3> QED BY <3>1, NodeAssumption, FS_Subset, FS_CardinalityType
  <2>3. \A s \in Run : pos[s] \in -1 .. Cardinality(DOMAIN sample'[s])
    <3> SUFFICES ASSUME NEW s \in Run
                 PROVE  pos[s] \in -1 .. Cardinality(DOMAIN sample'[s])
      OBVIOUS
    <3>1. CASE s = r
      BY <1>4, <2>2, <3>1
    <3>2. CASE s # r
      BY <1>3, <3>2 DEF TypeOK, Blocks
    <3> QED BY <3>1, <3>2
  <2> QED BY <1>2, <1>3, <2>1, <2>3 DEF TypeOK, Blocks, world, ghosts
<1>7. PhaseInv'
  BY <1>2, <1>3, <1>4 DEF PhaseInv, Opened
<1>8. StartInv' /\ FileInv' /\ SequenceInv'
  BY <1>2 DEF StartInv, FileInv, SequenceInv, Opened, ghosts
<1>9. WorldInv'
  <2>1. a.kind = "stats" => Since(a, Now(n))
    <3>1. counter[n] \in Int /\ events[n] \in Int /\ resets[n] \in Int
      BY BoundsAssumption DEF TypeOK
    <3> QED BY <1>1, <3>1 DEF Since, Now
  <2> QED BY <1>2, <1>3, <2>1 DEF WorldInv, Now, world
<1>10. OrderInv'
  <2> SUFFICES ASSUME ~ overlapped, NEW s \in Run, NEW t \in Run, s < t,
                      NEW m \in DOMAIN sample'[s] \cap DOMAIN sample'[t],
                      sample'[s][m].kind = "stats", sample'[t][m].kind = "stats"
               PROVE  Since(sample'[s][m], sample'[t][m])
    BY <1>2 DEF OrderInv, ghosts
  <2>1. CASE s = r
    <3>1. sample'[t] = None
      BY <1>2, <1>3, <1>5, <2>1, RunMoves DEF Run, Active
    <3> QED BY <3>1 DEF None
  <2>2. CASE t = r /\ m = n
    <3>1. s # r /\ sample'[s] = sample[s] /\ sample'[t][m] = Now(m)
      BY <1>1, <1>3, <2>2 DEF Run
    <3> QED BY <3>1 DEF WorldInv
  <2>3. CASE s # r /\ ~ (t = r /\ m = n)
    <3>1. m \in DOMAIN sample[t] /\ sample'[t][m] = sample[t][m] /\ sample'[s] = sample[s]
      BY <1>3, <2>3
    <3> QED BY <3>1 DEF OrderInv
  <2> QED BY <2>1, <2>2, <2>3
<1>11. ComparedLast'
  <2>1. ~ Compared(r)'
    BY <1>2, <1>4 DEF Compared, Loaded, Opened
  <2>2. ~ overlapped => \A s \in Run \ {r} : Compared(s)' => LoadsLast(s)'
    BY <1>2, <1>5, RunMoves DEF Active
  <2> QED BY <1>2, <2>1, <2>2, ComparedLastByRun DEF ghosts
<1> QED BY <1>6, <1>7, <1>8, <1>9, <1>10, <1>11

\* The snapshot is loaded.  Without overlap the file belongs to its last writer,
\* so what is read is that writer's text or nothing.
LEMMA LoadIInv ==
  ASSUME IInv, NEW r \in Run, Load(r) PROVE IInv'
<1> USE DEF IInv
<1>1. /\ phase[r] = "polling" /\ DOMAIN sample[r] = want[r] /\ delta[r]
      /\ UNCHANGED <<world, delta, want, sample, pos, file, ghosts>>
  BY DEF Load
<1>2. /\ phase'[r] = "loaded"
      /\ \A s \in Run \ {r} : phase'[s] = phase[s]
  BY DEF Load, Go, TypeOK
<1>3. PICK b \in Parse(file) : base' = [base EXCEPT ![r] = b]
  BY DEF Load
<1>4. base'[r] = b /\ \A s \in Run \ {r} : base'[s] = base[s]
  BY <1>3 DEF TypeOK
<1>5. OthersStay(r)
  BY <1>1, <1>2, <1>4 DEF OthersStay, ghosts
<1>6. phase[r] \in Active /\ phase'[r] \in Active \cup {"shown", "dead"}
  BY <1>1, <1>2 DEF Active
<1>7. TypeOK'
  <2>1. phase' \in [Run -> Phase]
    BY DEF Load, Go, TypeOK, Phase, Active
  <2>2. \A s \in Run : DOMAIN base'[s] \subseteq Node /\ Range(base'[s]) \subseteq Sample
    BY <1>4, ParseType DEF TypeOK
  <2>3. DOMAIN base' = Run
    BY <1>3 DEF TypeOK
  <2> QED BY <1>1, <2>1, <2>2, <2>3 DEF TypeOK, Blocks, world, ghosts
<1>8. PhaseInv'
  BY <1>1, <1>2 DEF PhaseInv, Opened
<1>9. FileInv'
  BY <1>1, <1>2 DEF FileInv, Opened, ghosts
<1>10. StartInv'
  BY <1>5, <1>6, RunMoves
<1>11. SequenceInv'
  <2>1. ~ overlapped => \A s, t \in Run : phase'[s] \in Active =>
              /\ t < s => phase'[t] \in {"shown", "dead"}
              /\ t > s => phase'[t] = "idle"
    BY <1>5, <1>6, RunMoves
  <2> QED BY <1>1, <2>1 DEF SequenceInv, Opened, ghosts
<1>12. WorldInv' /\ OrderInv'
  BY <1>1 DEF WorldInv, OrderInv, Now, world, ghosts
<1>13. ~ overlapped => LoadsLast(r)'
  <2> SUFFICES ASSUME ~ overlapped PROVE LoadsLast(r)'
    OBVIOUS
  <2>1. b = IF owner # 0 /\ Saved(owner) THEN sample[owner] ELSE None
    BY ParseOwnFile DEF SequenceInv
  <2>2. \A s \in Run : Opened(s) => s < r
    <3>1. pos[r] = -1
      BY <1>1 DEF PhaseInv
    <3>2. ~ Opened(r)
      BY <3>1 DEF Opened
    <3> QED BY <1>5, <1>6, <3>2, RunMoves
  <2>3. \A s \in Run : Opened(s)' <=> Opened(s)
    BY <1>1 DEF Opened
  <2>4. CASE owner = 0
    <3>1. \A s \in Run : ~ Opened(s)
      BY <2>4 DEF FileInv
    <3> QED BY <1>4, <2>1, <2>3, <2>4, <3>1 DEF LoadsLast
  <2>5. CASE owner # 0
    <3>1. owner \in Run /\ Opened(owner) /\ owner < r
      BY <2>2, <2>5 DEF TypeOK, FileInv, SequenceInv
    <3>2. \A s \in Run : Opened(s) => s <= owner
      BY DEF SequenceInv
    <3>3. \A s \in Run : sample'[s] = sample[s] /\ (Saved(s)' <=> Saved(s))
      BY <1>1 DEF Saved, Opened, Blocks
    <3>4. base'[r] = IF Saved(owner) THEN sample[owner] ELSE None
      BY <1>4, <2>1, <2>5
    <3> QED BY <2>3, <3>1, <3>2, <3>3, <3>4 DEF LoadsLast
  <2> QED BY <2>4, <2>5
<1>14. ComparedLast'
  <2>1. ~ overlapped => \A s \in Run \ {r} : Compared(s)' => LoadsLast(s)'
    BY <1>5, <1>6, RunMoves
  <2> QED BY <1>1, <1>13, <2>1, ComparedLastByRun DEF ghosts
<1> QED BY <1>7, <1>8, <1>9, <1>10, <1>11, <1>12, <1>14

\* The file is truncated and has a new owner.
LEMMA OpenIInv ==
  ASSUME IInv, NEW r \in Run, Open(r) PROVE IInv'
<1> USE DEF IInv
<1>1. /\ phase[r] = "loaded" /\ file' = NoBlocks /\ owner' = r
      /\ alone' = \A s \in Run : phase[s] # "saving"
      /\ UNCHANGED <<world, delta, want, sample, base, overlapped>>
  BY DEF Open
<1>2. /\ phase'[r] = "saving" /\ pos'[r] = 0
      /\ \A s \in Run \ {r} : phase'[s] = phase[s] /\ pos'[s] = pos[s]
  BY DEF Open, Go, TypeOK
<1>3. OthersStay(r)
  BY <1>1, <1>2 DEF OthersStay
<1>4. phase[r] \in Active /\ phase'[r] \in Active \cup {"shown", "dead"}
  BY <1>1, <1>2 DEF Active
<1>5. \A s \in Run : Opened(s)' <=> s = r \/ Opened(s)
  BY <1>2 DEF Opened
<1>6. DOMAIN file' = {} /\ Range(file') = {}
  BY <1>1 DEF NoBlocks, Range
<1>7. TypeOK'
  <2>1. phase' \in [Run -> Phase]
    BY DEF Open, Go, TypeOK, Phase, Active
  <2>2. pos' \in [Run -> Int]
    BY DEF Open, TypeOK
  <2>3. \A s \in Run : pos'[s] \in -1 .. Blocks(s)
    BY <1>2, BlocksType DEF TypeOK
  <2> QED BY <1>1, <1>6, <2>1, <2>2, <2>3 DEF TypeOK, Blocks, world
<1>8. PhaseInv'
  BY <1>1, <1>2, <1>5 DEF PhaseInv
<1>9. FileInv'
  <2>1. owner' # 0
    BY <1>1 DEF Run
  <2>2. alone' => \A s \in Run : phase'[s] = "saving" => s = owner'
    BY <1>1, <1>2
  <2>3. Opened(owner)' /\ DOMAIN file' = 1 .. pos'[owner']
    BY <1>1, <1>2, <1>5, <1>6
  <2> QED BY <1>6, <2>1, <2>2, <2>3 DEF FileInv
<1>10. StartInv'
  BY <1>3, <1>4, RunMoves
<1>11. SequenceInv'
  <2> SUFFICES ASSUME ~ overlapped PROVE SequenceInv'
    BY <1>1 DEF SequenceInv
  <2>1. \A s, t \in Run : phase'[s] \in Active =>
              /\ t < s => phase'[t] \in {"shown", "dead"}
              /\ t > s => phase'[t] = "idle"
    BY <1>3, <1>4, RunMoves
  <2>2. alone'
    <3>1. \A s \in Run : phase[s] = "saving" => s = r
      <4>1. \A s \in Run : s < r \/ s > r \/ s = r
        BY DEF Run
      <4> QED BY <1>4, <4>1 DEF SequenceInv
    <3> QED BY <1>1, <3>1
  <2>3. \A s \in Run : Opened(s)' => s <= owner'
    <3>1. \A s \in Run \ {r} : Opened(s) => s < r
      BY <1>3, <1>4, RunMoves
    <3> QED BY <1>1, <1>5, <3>1 DEF Run
  <2> QED BY <2>1, <2>2, <2>3 DEF SequenceInv
<1>12. WorldInv' /\ OrderInv'
  BY <1>1 DEF WorldInv, OrderInv, Now, world
<1>13. ComparedLast'
  <2>1. ~ overlapped => \A s \in Run \ {r} : Compared(s)' => LoadsLast(s)'
    BY <1>3, <1>4, RunMoves
  <2>2. ~ overlapped => LoadsLast(r)'
    <3> SUFFICES ASSUME ~ overlapped PROVE LoadsLast(r)'
      OBVIOUS
    <3>1. LoadsLast(r)
      BY <1>1 DEF Compared, Loaded, ComparedLast, PhaseInv
    <3>2. \A s \in Run : s < r => /\ Opened(s)' <=> Opened(s)
                                  /\ Saved(s)' <=> Saved(s)
      BY <1>1, <1>2, <1>5 DEF Saved, Blocks, Run
    <3>3. {s \in Run : s < r /\ Opened(s)}' = {s \in Run : s < r /\ Opened(s)}
      BY <3>2
    <3> QED BY <1>1, <3>1, <3>2, <3>3 DEF LoadsLast
  <2> QED BY <1>1, <2>1, <2>2, ComparedLastByRun
<1> QED BY <1>7, <1>8, <1>9, <1>10, <1>11, <1>12, <1>13

\* A block is written, the next one at the end of the file when the run has the
\* file for itself.
LEMMA WriteIInv ==
  ASSUME IInv, NEW r \in Run, Write(r) PROVE IInv'
<1> USE DEF IInv
<1>1. /\ phase[r] = "saving" /\ pos[r] < Blocks(r)
      /\ file' = WriteAt(file, pos'[r], <<r, pos'[r]>>)
      /\ UNCHANGED <<world, delta, want, sample, base, ghosts>>
  BY DEF Write
<1>2. /\ phase'[r] \in {"saving", "saved"}
      /\ \A s \in Run \ {r} : phase'[s] = phase[s] /\ pos'[s] = pos[s]
  BY DEF Write, Go, TypeOK
<1>3. Opened(r) /\ pos[r] \in Nat /\ pos'[r] = pos[r] + 1
  <2>1. Opened(r)
    BY <1>1 DEF PhaseInv
  <2> QED BY <2>1 DEF Write, TypeOK, Opened
<1>4. OthersStay(r)
  BY <1>1, <1>2 DEF OthersStay, ghosts
<1>5. phase[r] \in Active /\ phase'[r] \in Active \cup {"shown", "dead"}
  BY <1>1, <1>2 DEF Active
<1>6. \A s \in Run : Opened(s)' <=> Opened(s)
  BY <1>2, <1>3 DEF Opened
<1>7. /\ DOMAIN file' = DOMAIN file \cup 1 .. pos'[r]
      /\ \A k \in DOMAIN file' : file'[k] = IF k = pos'[r] THEN <<r, k>>
                                            ELSE IF k \in DOMAIN file THEN file[k] ELSE Hole
  BY <1>1 DEF WriteAt
<1>8. TypeOK'
  <2>1. phase' \in [Run -> Phase] /\ pos' \in [Run -> Int]
    BY <1>3 DEF Write, Go, TypeOK, Phase, Active
  <2>2. \A s \in Run : pos'[s] \in -1 .. Blocks(s)
    BY <1>1, <1>2, <1>3, BlocksType DEF TypeOK
  <2>3. Range(file') \subseteq Block \cup {Hole}
    <3>1. pos'[r] \in 1 .. Cardinality(Node)
      BY <1>1, <1>3, BlocksType
    <3>2. <<r, pos'[r]>> \in Block
      BY <3>1 DEF Block
    <3>3. \A k \in DOMAIN file : file[k] \in Block \cup {Hole}
      BY DEF TypeOK, Range
    <3> QED BY <1>7, <3>2, <3>3 DEF Range
  <2> QED BY <1>1, <2>1, <2>2, <2>3 DEF TypeOK, Blocks, world, ghosts
<1>9. PhaseInv'
  BY <1>1, <1>2, <1>6 DEF PhaseInv
<1>10. FileInv'
  <2>1. owner # 0
    BY <1>3 DEF FileInv
  <2>2. alone => owner = r
    BY <1>1 DEF FileInv
  <2>3. alone => /\ DOMAIN file' = 1 .. pos'[owner]
                 /\ \A k \in DOMAIN file' : file'[k] = <<owner, k>>
    <3> SUFFICES ASSUME alone
                 PROVE  /\ DOMAIN file' = 1 .. pos'[r]
                        /\ \A k \in DOMAIN file' : file'[k] = <<r, k>>
      BY <2>2
    <3>1. DOMAIN file = 1 .. pos[r] /\ \A k \in DOMAIN file : file[k] = <<r, k>>
      BY <2>1, <2>2 DEF FileInv
    <3>2. DOMAIN file' = 1 .. pos'[r]
      BY <1>3, <1>7, <3>1
    <3>3. \A k \in DOMAIN file' : k = pos'[r] \/ k \in DOMAIN file
      BY <1>3, <3>1, <3>2
    <3> QED BY <1>7, <3>1, <3>2, <3>3
  <2>4. alone => Opened(owner) /\ \A s \in Run : phase'[s] = "saving" => s = owner
    BY <1>1, <1>2, <1>3, <2>2 DEF FileInv
  <2> QED BY <1>1, <1>6, <2>1, <2>3, <2>4 DEF FileInv, ghosts, Opened, TypeOK
<1>11. StartInv'
  BY <1>4, <1>5, RunMoves
<1>12. SequenceInv'
  <2>1. ~ overlapped => \A s, t \in Run : phase'[s] \in Active =>
              /\ t < s => phase'[t] \in {"shown", "dead"}
              /\ t > s => phase'[t] = "idle"
    BY <1>4, <1>5, RunMoves
  <2> QED BY <1>1, <1>6, <2>1 DEF SequenceInv, ghosts
<1>13. WorldInv' /\ OrderInv'
  BY <1>1 DEF WorldInv, OrderInv, Now, world, ghosts
<1>14. ComparedLast'
  <2>1. ~ overlapped => \A s \in Run \ {r} : Compared(s)' => LoadsLast(s)'
    BY <1>4, <1>5, RunMoves
  <2>2. ~ overlapped => LoadsLast(r)'
    <3> SUFFICES ASSUME ~ overlapped PROVE LoadsLast(r)'
      OBVIOUS
    <3>1. LoadsLast(r)
      BY <1>1 DEF Compared, Loaded, ComparedLast, PhaseInv
    <3>2. \A s \in Run : s < r => /\ Opened(s)' <=> Opened(s)
                                  /\ Saved(s)' <=> Saved(s)
      BY <1>1, <1>2, <1>6 DEF Saved, Blocks, Run
    <3>3. {s \in Run : s < r /\ Opened(s)}' = {s \in Run : s < r /\ Opened(s)}
      BY <3>2
    <3> QED BY <1>1, <3>1, <3>2, <3>3 DEF LoadsLast
  <2> QED BY <1>1, <2>1, <2>2, ComparedLastByRun DEF ghosts
<1> QED BY <1>8, <1>9, <1>10, <1>11, <1>12, <1>13, <1>14

LEMMA StutterIInv == IInv /\ UNCHANGED vars => IInv'
<1> SUFFICES ASSUME IInv, UNCHANGED vars PROVE IInv'
  OBVIOUS
<1>1. UNCHANGED <<counter, events, resets, phase, delta, want, sample, base,
                  pos, file, owner, alone, overlapped>>
  BY DEF vars, world, ghosts
<1>2. TypeOK'
  BY <1>1 DEF IInv, TypeOK, Blocks
<1>3. StartInv' /\ PhaseInv' /\ FileInv' /\ SequenceInv'
  BY <1>1 DEF IInv, StartInv, PhaseInv, FileInv, SequenceInv, Opened
<1>4. WorldInv' /\ OrderInv'
  BY <1>1 DEF IInv, WorldInv, OrderInv, Now
<1>5. ComparedLast'
  BY <1>1 DEF IInv, ComparedLast, Compared, LoadsLast, Blocks, Opened, Saved, Loaded
<1> QED BY <1>2, <1>3, <1>4, <1>5 DEF IInv

LEMMA NextIInv == IInv /\ [Next]_vars => IInv'
<1> SUFFICES ASSUME IInv, [Next]_vars PROVE IInv'
  OBVIOUS
<1>1. CASE World
  BY <1>1, WorldIInv DEF World
<1>2. CASE \E r \in Run, d \in BOOLEAN, W \in (SUBSET Node) \ {{}} : Begin(r, d, W)
  BY <1>2, BeginIInv
<1>3. ASSUME NEW r \in Run, RunStep(r) \/ Die(r) PROVE IInv'
  <2>1. CASE \E n \in Node : Poll(r, n)
    BY <2>1, PollIInv
  <2>2. CASE Load(r)
    BY <2>2, LoadIInv
  <2>3. CASE Open(r)
    BY <2>3, OpenIInv
  <2>4. CASE Write(r)
    BY <2>4, WriteIInv
  <2>5. CASE SkipSnapshot(r) \/ OpenFails(r) \/ WriteFails(r) \/ Show(r) \/ Die(r)
    BY <2>5, QuietSteps, QuietIInv DEF IInv
  <2> QED BY <1>3, <2>1, <2>2, <2>3, <2>4, <2>5 DEF RunStep
<1>4. CASE UNCHANGED vars
  BY <1>4, StutterIInv
<1> QED BY <1>1, <1>2, <1>3, <1>4 DEF Next, Over

\* In every reachable state the file, what each run has loaded, what it has
\* polled and what the counters show now are ordered as the runs are.
THEOREM Invariance == Spec => []IInv
  BY InitIInv, NextIInv, PTL DEF Spec
-----------------------------------------------------------------------------
(* The properties. *)

\* Type correctness of the runs, the counters and the snapshot file.
THEOREM TypeCorrect == Spec => []TypeOK
<1>1. IInv => TypeOK
  BY DEF IInv
<1> QED BY <1>1, Invariance, PTL

\* A run in sequence loads the last snapshot saved before it, whole, or None.
THEOREM LoadsLastSaved == Spec => []LoadsLastSave
<1>1. IInv => LoadsLastSave
  BY DEF IInv, ComparedLast, Compared, LoadsLast, LoadsLastSave
<1> QED BY <1>1, Invariance, PTL

\* An undisturbed save makes the file readable, whatever was in it before.
THEOREM SaveHeals == Spec => []UndisturbedSaveHeals
<1>1. IInv => UndisturbedSaveHeals
  BY ParseOwnFile DEF IInv, UndisturbedSaveHeals
<1> QED BY <1>1, Invariance, PTL

\* Where a delta is shown, both samples are of a counter and the run that the
\* older one is of came before and had opened the file.
LEMMA DeltaBase ==
  ASSUME IInv, ~ overlapped, NEW r \in Run, Loaded(r), NEW n \in DOMAIN Deltas(r)
  PROVE  /\ n \in DOMAIN sample[r] /\ sample[r][n].kind = "stats"
         /\ base[r][n].kind = "stats"
         /\ \E s \in Run : /\ s < r /\ Opened(s) /\ base[r] = sample[s]
                           /\ n \in DOMAIN sample[s]
                           /\ \A t \in Run : t < r /\ Opened(t) => t <= s
<1>1. /\ n \in DOMAIN sample[r] /\ n \in DOMAIN base[r]
      /\ sample[r][n].kind = "stats" /\ base[r][n].kind = "stats"
  BY DEF Deltas, ComputeDeltas
<1>2. base[r] # None
  BY <1>1 DEF None
<1>3. LoadsLast(r)
  BY DEF IInv, ComparedLast, Compared
<1> QED BY <1>1, <1>2, <1>3 DEF LoadsLast

\* In sequence, a number is the events since the sample it is taken from, or
\* less if a reset hid some, and "reset" is only said when there was one.
THEOREM DeltasSound == Spec => []DeltaSound
<1>1. IInv => DeltaSound
  <2> SUFFICES ASSUME IInv, ~ overlapped, NEW r \in Run, Loaded(r),
                      NEW n \in DOMAIN Deltas(r)
               PROVE  LET cur == sample[r][n]
                          old == base[r][n]
                          d   == Deltas(r)[n]
                      IN  IF d = WentDown THEN old.resets < cur.resets
                          ELSE /\ d \in 0 .. cur.events - old.events
                               /\ old.resets = cur.resets => d = cur.events - old.events
    BY DEF DeltaSound
  <2> DEFINE cur == sample[r][n]
             old == base[r][n]
  <2>1. Since(old, cur)
    BY DeltaBase DEF IInv, OrderInv
  <2>2. cur \in Sample /\ old \in Sample
    BY DeltaBase DEF IInv, TypeOK, Range
  <2>3. /\ cur.val \in Nat /\ cur.events \in Nat /\ cur.resets \in Nat
        /\ old.val \in Nat /\ old.events \in Nat /\ old.resets \in Nat
    BY <2>2, SampleFields
  <2>4. Deltas(r)[n] = IF cur.val >= old.val THEN cur.val - old.val ELSE WentDown
    BY DEF Deltas, ComputeDeltas
  <2> HIDE DEF cur, old
  <2>5. CASE cur.val >= old.val
    BY <2>1, <2>3, <2>4, <2>5 DEF Since, WentDown, cur, old
  <2>6. CASE ~ (cur.val >= old.val)
    BY <2>1, <2>3, <2>4, <2>6 DEF Since, WentDown, cur, old
  <2> QED BY <2>5, <2>6
<1> QED BY <1>1, Invariance, PTL

\* In sequence, no event is in the numbers two runs show, if the earlier one
\* replaced the snapshot it had compared with.
THEOREM NothingCountedTwice == Spec => []NoDoubleCount
<1>1. IInv => NoDoubleCount
  <2> SUFFICES ASSUME IInv, ~ overlapped, NEW r \in Run, NEW s \in Run,
                      r < s, Loaded(r), Loaded(s), Opened(r),
                      NEW n \in DOMAIN Deltas(r) \cap DOMAIN Deltas(s)
               PROVE  sample[r][n].events <= base[s][n].events
    BY DEF NoDoubleCount
  <2>1. n \in DOMAIN sample[r] /\ sample[r][n].kind = "stats"
    BY DeltaBase
  <2>2. PICK t \in Run : /\ base[s] = sample[t] /\ n \in DOMAIN sample[t]
                         /\ sample[t][n].kind = "stats" /\ r <= t
    BY DeltaBase
  <2>3. CASE r = t
    <3>1. sample[r][n] \in Sample
      BY <2>1 DEF IInv, TypeOK, Range
    <3> QED BY <2>2, <2>3, <3>1, SampleFields
  <2>4. CASE r < t
    BY <2>1, <2>2, <2>4 DEF IInv, OrderInv, Since
  <2> QED BY <2>2, <2>3, <2>4 DEF Run
<1> QED BY <1>1, Invariance, PTL
-----------------------------------------------------------------------------
(* Deltas add up. *)

\* A run that compares with the snapshot of p shows the events since.
LEMMA OneDelta ==
  ASSUME IInv, ~ overlapped, NEW p \in Run, NEW t \in Run, p < t, NEW n \in Node,
         Compared(t), Saved(p), \A u \in Run : u < t /\ Opened(u) => u <= p,
         n \in DOMAIN sample[p], n \in DOMAIN sample[t],
         sample[p][n].kind = "stats", sample[t][n].kind = "stats",
         sample[t][n].resets = sample[p][n].resets
  PROVE  /\ Deltas(t)[n] = sample[t][n].events - sample[p][n].events
         /\ Deltas(t)[n] \in Int
<1> DEFINE cur == sample[t][n]
           old == sample[p][n]
<1>1. base[t] = sample[p]
  <2>1. LoadsLast(t) /\ Opened(p)
    BY DEF IInv, ComparedLast, Saved
  <2>2. PICK q \in {s \in Run : s < t /\ Opened(s)} :
          /\ \A u \in {s \in Run : s < t /\ Opened(s)} : u <= q
          /\ base[t] = IF Saved(q) THEN sample[q] ELSE None
    BY <2>1 DEF LoadsLast
  <2>3. q <= p /\ p <= q
    BY <2>1, <2>2
  <2>4. q = p
    BY <2>3 DEF Run
  <2> QED BY <2>2, <2>4
<1>2. Since(old, cur)
  BY DEF IInv, OrderInv
<1>3. cur \in Sample /\ old \in Sample
  BY DEF IInv, TypeOK, Range
<1>4. /\ cur.val \in Nat /\ cur.events \in Nat /\ cur.resets \in Nat
      /\ old.val \in Nat /\ old.events \in Nat /\ old.resets \in Nat
  BY <1>3, SampleFields
<1>5. Deltas(t)[n] = IF cur.val >= old.val THEN cur.val - old.val ELSE WentDown
  BY <1>1 DEF Deltas, ComputeDeltas
<1>6. cur.resets = old.resets
  OBVIOUS
<1> HIDE DEF cur, old
<1>7. Deltas(t)[n] = cur.events - old.events
  BY <1>2, <1>4, <1>5, <1>6 DEF Since
<1>8. cur.events - old.events \in Int
  BY <1>4
<1> QED BY <1>7, <1>8 DEF cur, old

\* The runs after r up to s that replaced the snapshot, and what they show.
Chain(r, s)    == {t \in Run : r < t /\ t < s /\ Opened(t)} \cup {s}
Shown(r, s, n) == [t \in Chain(r, s) |-> Deltas(t)[n]]

\* They all read the counter of n, none saw it reset, and all but the last
\* saved what they saw.
Linked(r, s, n) ==
  /\ r < s /\ Opened(r) /\ Compared(s)
  /\ \A t \in Chain(r, s) \cup {r} : /\ n \in DOMAIN sample[t]
                                     /\ sample[t][n].kind = "stats"
                                     /\ sample[t][n].resets = sample[r][n].resets
                                     /\ t # s => Saved(t)

Telescopes(r, s, n) ==
  /\ \A t \in Chain(r, s) : Deltas(t)[n] \in Int
  /\ SumAt(Shown(r, s, n), Chain(r, s)) = sample[s][n].events - sample[r][n].events

LEMMA ChainFinite ==
  ASSUME NEW r \in Run, NEW s \in Run
  PROVE  Chain(r, s) \in SUBSET Run /\ IsFiniteSet(Chain(r, s))
<1>1. Chain(r, s) \subseteq Run
  BY DEF Chain
<1>2. IsFiniteSet(Run)
  BY BoundsAssumption, FS_Interval DEF Run
<1> QED BY <1>1, <1>2, FS_Subset

\* If the run before s in the chain adds up, s does.
LEMMA ChainGrows ==
  ASSUME IInv, ~ overlapped, NEW r \in Run, NEW s \in Run, NEW n \in Node,
         Linked(r, s, n),
         \A p \in Run : p < s /\ Linked(r, p, n) => Telescopes(r, p, n)
  PROVE  Telescopes(r, s, n)
<1> DEFINE M == {t \in Run : r < t /\ t < s /\ Opened(t)}
<1>1. r < s /\ Compared(s) /\ s \in Chain(r, s) /\ Saved(r)
  BY DEF Linked, Chain, Run
<1>2. ASSUME NEW t \in Chain(r, s) \cup {r}
      PROVE  /\ t \in Run /\ n \in DOMAIN sample[t] /\ sample[t][n].kind = "stats"
             /\ sample[t][n].resets = sample[r][n].resets
             /\ t # s => Saved(t)
             /\ sample[t][n].events \in Int
  <2>1. t \in Run
    BY ChainFinite
  <2>2. n \in DOMAIN sample[t]
    BY DEF Linked
  <2>3. sample[t][n] \in Sample
    BY <2>1, <2>2 DEF IInv, TypeOK, Range
  <2>4. sample[t][n].events \in Nat
    BY <2>3, SampleFields
  <2> QED BY <2>1, <2>4 DEF Linked
<1>3. CASE M = {}
  <2>1. Chain(r, s) = {s}
    BY <1>3 DEF Chain
  <2>2. \A u \in Run : u < s /\ Opened(u) => u <= r
    <3>1. \A u \in Run : u <= r \/ r < u
      BY DEF Run
    <3> QED BY <1>3, <3>1
  <2>3. /\ Deltas(s)[n] = sample[s][n].events - sample[r][n].events
        /\ Deltas(s)[n] \in Int
    BY <1>1, <1>2, <2>2, OneDelta
  <2>4. Shown(r, s, n)[s] = Deltas(s)[n]
    BY <1>1 DEF Shown
  <2>5. SumAt(Shown(r, s, n), {s}) = Deltas(s)[n]
    BY <2>3, <2>4, SumOne
  <2> QED BY <2>1, <2>3, <2>5 DEF Telescopes
<1>4. CASE M # {}
  <2> DEFINE p == Max(M)
             C == Chain(r, p)
             f == Shown(r, s, n)
             g == Shown(r, p, n)
  <2>1. p \in M /\ \A u \in M : u <= p
    <3>1. M \in SUBSET Int
      BY DEF Run
    <3>2. IsFiniteSet(M)
      <4>1. M \subseteq Run /\ IsFiniteSet(Run)
        BY BoundsAssumption, FS_Interval DEF Run
      <4> QED BY <4>1, FS_Subset
    <3> HIDE DEF M
    <3> QED BY <1>4, <3>1, <3>2, HighestIn
  <2> HIDE DEF p
  <2>2. p \in Run /\ r < p /\ p < s /\ Opened(p) /\ p # s
    BY <2>1 DEF Run
  <2>3. \A u \in Run : u < s /\ Opened(u) => u <= p
    <3>1. \A u \in Run : u <= r \/ r < u
      BY DEF Run
    <3>2. \A u \in Run : u <= r => u <= p
      BY <2>2 DEF Run
    <3> QED BY <2>1, <3>1, <3>2
  <2>4. C \subseteq M /\ p \in C
    BY <2>1, <2>2 DEF Chain, Run
  <2>5. M \subseteq C
    <3> SUFFICES ASSUME NEW u \in M PROVE u \in C
      OBVIOUS
    <3>1. u \in Run /\ u <= p
      BY <2>1
    <3>2. u = p \/ u < p
      BY <2>2, <3>1 DEF Run
    <3> QED BY <3>1, <3>2 DEF Chain
  <2>6. Chain(r, s) = C \cup {s} /\ s \notin C
    <3>1. Chain(r, s) = M \cup {s} /\ s \notin M
      BY DEF Chain, Run
    <3> QED BY <2>4, <2>5, <3>1
  <2>7. Linked(r, p, n)
    <3>1. \A t \in C \cup {r} : t \in Chain(r, s) \cup {r} /\ t # s
      BY <1>1, <2>6 DEF Run
    <3> HIDE DEF C
    <3>2. \A t \in C \cup {r} : /\ n \in DOMAIN sample[t]
                                /\ sample[t][n].kind = "stats"
                                /\ sample[t][n].resets = sample[r][n].resets
                                /\ Saved(t)
      BY <1>2, <3>1
    <3> QED BY <2>2, <3>2 DEF Linked, Compared, C, Saved
  <2>8. /\ \A t \in C : Deltas(t)[n] \in Int
        /\ SumAt(g, C) = sample[p][n].events - sample[r][n].events
    BY <2>2, <2>7 DEF Telescopes
  <2>9. /\ Deltas(s)[n] = sample[s][n].events - sample[p][n].events
        /\ Deltas(s)[n] \in Int
    <3>1. p \in Chain(r, s)
      BY <2>4, <2>6
    <3>2. sample[s][n].resets = sample[p][n].resets
      BY <1>1, <1>2, <3>1
    <3> QED BY <1>1, <1>2, <2>2, <2>3, <3>1, <3>2, OneDelta
  <2>10. /\ \A t \in C : f[t] = Deltas(t)[n] /\ g[t] = Deltas(t)[n]
         /\ f[s] = Deltas(s)[n]
    BY <2>6 DEF Shown
  <2>11. IsFiniteSet(C)
    BY <2>2, ChainFinite
  <2>12. sample[s][n].events \in Int /\ sample[p][n].events \in Int /\ sample[r][n].events \in Int
    BY <1>1, <1>2, <2>4, <2>6
  <2> HIDE DEF C, f, g
  <2>13. SumAt(f, C) = SumAt(g, C)
    <3>1. \A t \in C : f[t] = g[t] /\ f[t] \in Int
      BY <2>8, <2>10
    <3> QED BY <2>11, <3>1, SumSame
  <2>14. SumAt(f, C \cup {s}) = f[s] + SumAt(f, C)
    <3>1. \A t \in C \cup {s} : f[t] \in Int
      BY <2>8, <2>9, <2>10
    <3> QED BY <2>6, <2>11, <3>1, SumAdd
  <2>15. SumAt(f, Chain(r, s)) = sample[s][n].events - sample[r][n].events
    BY <2>6, <2>8, <2>9, <2>10, <2>12, <2>13, <2>14
  <2> QED BY <2>6, <2>8, <2>9, <2>15 DEF Telescopes, f
<1> QED BY <1>3, <1>4

\* In sequence, the deltas of consecutive saves add up to the events between
\* the first sample and the last.
THEOREM ConsecutiveDeltasAddUp == Spec => []DeltasAddUp
<1>1. IInv => DeltasAddUp
  <2> SUFFICES ASSUME IInv, ~ overlapped, NEW r \in Run, NEW s \in Run, NEW n \in Node,
                      Linked(r, s, n)
               PROVE  Telescopes(r, s, n)
    BY DEF DeltasAddUp, Linked, Compared, Chain, Shown, Telescopes, SumAt
  <2> DEFINE bad == {q \in Run : Linked(r, q, n) /\ ~ Telescopes(r, q, n)}
  <2> SUFFICES ASSUME bad # {} PROVE FALSE
    OBVIOUS
  <2>1. bad \in SUBSET Int
    BY DEF Run
  <2>2. IsFiniteSet(bad)
    <3>1. bad \subseteq Run /\ IsFiniteSet(Run)
      BY BoundsAssumption, FS_Interval DEF Run
    <3> QED BY <3>1, FS_Subset
  <2> HIDE DEF bad
  <2>3. PICK q \in bad : \A x \in bad : q <= x
    BY <2>1, <2>2, LowestIn
  <2>4. q \in Run /\ Linked(r, q, n) /\ ~ Telescopes(r, q, n)
    BY DEF bad
  <2>5. ASSUME NEW p \in Run, p < q, Linked(r, p, n) PROVE Telescopes(r, p, n)
    <3>1. ~ (q <= p)
      BY <2>4, <2>5 DEF Run
    <3> QED BY <2>3, <2>5, <3>1 DEF bad
  <2> QED BY <2>4, <2>5, ChainGrows
<1> QED BY <1>1, Invariance, PTL
=============================================================================
