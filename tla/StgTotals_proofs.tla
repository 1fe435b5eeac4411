-------------------------- MODULE StgTotals_proofs --------------------------
(***************************************************************************)
(* Proofs about StgTotals, for every set of nodes and all outputs that     *)
(* OutputsAssumption allows.  The sums are those of Sums_proofs; the       *)
(* invariants grow with what they are about: CountInv (the keys counted),  *)
(* TypeInv (the types, and every row as it was made), SeenInv (the         *)
(* targets), FoldInv, CapacityInv and OrderInv.                            *)
(***************************************************************************)
EXTENDS StgTotals, Views_proofs, Sums_proofs

-----------------------------------------------------------------------------
(* Places of a listing, numbered in their order. *)

\* How many places of S are not after i.
Rank(S, i) == Cardinality({j \in S : j <= i})

LEMMA RankBijection ==
  ASSUME NEW S \in SUBSET Nat, IsFiniteSet(S)
  PROVE  [i \in S |-> Rank(S, i)] \in Bijection(S, 1 .. Cardinality(S))
<1> DEFINE Upto(i) == {j \in S : j <= i}
           rank == [i \in S |-> Rank(S, i)]
           N == Cardinality(S)
<1>1. N \in Nat
  BY FS_CardinalityType
<1>2. ASSUME NEW i \in S
      PROVE  IsFiniteSet(Upto(i)) /\ Cardinality(Upto(i)) \in 1 .. N
  <2>1. Upto(i) \in SUBSET S /\ Upto(i) # {} /\ i \in Upto(i)
    OBVIOUS
  <2> HIDE DEF Upto
  <2>2. IsFiniteSet(Upto(i)) /\ Cardinality(Upto(i)) <= N
    BY <2>1, FS_Subset
  <2>3. Cardinality(Upto(i)) \in Nat /\ Cardinality(Upto(i)) # 0
    BY <2>1, <2>2, FS_CardinalityType, FS_EmptySet
  <2> QED BY <1>1, <2>2, <2>3
<1>3. ASSUME NEW i \in S, NEW k \in S, i < k
      PROVE  Cardinality(Upto(i)) # Cardinality(Upto(k))
  <2>1. Upto(i) \in SUBSET Upto(k) /\ k \in Upto(k) /\ k \notin Upto(i)
    <3>1. i \in Nat /\ k \in Nat /\ \A j \in S : j \in Nat
      OBVIOUS
    <3>2. \A j \in S : j <= i => j <= k
      BY <1>3, <3>1
    <3>3. k <= k /\ ~ (k <= i)
      BY <1>3, <3>1
    <3> QED BY <3>2, <3>3
  <2>2. IsFiniteSet(Upto(k))
    BY <1>2
  <2> HIDE DEF Upto
  <2> QED BY <2>1, <2>2, FS_Subset
<1>4. rank \in Injection(S, 1 .. N)
  <2>1. rank \in [S -> 1 .. N]
    BY <1>2 DEF Rank
  <2>2. \A i, k \in S : rank[i] = rank[k] => i = k
    <3> SUFFICES ASSUME NEW i \in S, NEW k \in S, i # k PROVE rank[i] # rank[k]
      OBVIOUS
    <3>1. i < k \/ k < i
      OBVIOUS
    <3> QED BY <1>3, <3>1 DEF Rank
  <2> QED BY <2>1, <2>2 DEF Injection, IsInjective
<1>5. IsFiniteSet(1 .. N) /\ Cardinality(1 .. N) = N
  BY <1>1, FS_Interval
<1> HIDE DEF rank, N
<1>6. rank \in Surjection(S, 1 .. N)
  BY <1>4, <1>5, FS_Injection DEF N
<1> QED BY <1>4, <1>6 DEF Bijection, rank, N

\* Nth names every place once, by its rank.
LEMMA NthPlace ==
  ASSUME NEW S \in SUBSET Nat, IsFiniteSet(S)
  PROVE  /\ Cardinality(S) \in Nat
         /\ \A k \in 1 .. Cardinality(S) : Nth(S, k) \in S /\ Rank(S, Nth(S, k)) = k
         /\ \A i \in S : Rank(S, i) \in 1 .. Cardinality(S) /\ Nth(S, Rank(S, i)) = i
<1>1. [i \in S |-> Rank(S, i)] \in Bijection(S, 1 .. Cardinality(S))
  BY RankBijection
<1>2. /\ \A i \in S : Rank(S, i) \in 1 .. Cardinality(S)
      /\ \A i, j \in S : Rank(S, i) = Rank(S, j) => i = j
      /\ \A k \in 1 .. Cardinality(S) : \E i \in S : Rank(S, i) = k
  BY <1>1 DEF Bijection, Injection, Surjection, IsInjective
<1>3. \A k \in 1 .. Cardinality(S) : Nth(S, k) \in S /\ Rank(S, Nth(S, k)) = k
  BY <1>2 DEF Nth, Rank
<1> QED BY <1>2, <1>3, FS_CardinalityType

\* The first place.
LEMMA FirstPlace ==
  ASSUME NEW S \in SUBSET Nat, IsFiniteSet(S), S # {}
  PROVE  \E m \in S : \A j \in S : m <= j
<1>1. S \in SUBSET Int
  OBVIOUS
<1> QED BY <1>1, LowestIn

\* What is picked of a listing are the lines at the places, each once.
LEMMA PickPlaces ==
  ASSUME NEW l, l \in Seq(Range(l)), NEW P \in SUBSET DOMAIN l
  PROVE  /\ P \in SUBSET Nat /\ IsFiniteSet(P) /\ IsFiniteSet(DOMAIN l)
         /\ DOMAIN Pick(l, P) = 1 .. Cardinality(P)
         /\ Cardinality(P) \in Nat
         /\ \A k \in DOMAIN Pick(l, P) : Nth(P, k) \in P /\ Pick(l, P)[k] = l[Nth(P, k)]
         /\ \A i \in P : /\ Rank(P, i) \in DOMAIN Pick(l, P)
                         /\ Nth(P, Rank(P, i)) = i
         /\ \A k \in DOMAIN Pick(l, P) : Rank(P, Nth(P, k)) = k
<1>1. DOMAIN l = 1 .. Len(l) /\ Len(l) \in Nat
  OBVIOUS
<1>2. IsFiniteSet(DOMAIN l)
  BY <1>1, FS_Interval
<1>3. IsFiniteSet(P)
  BY <1>2, FS_Subset
<1>4. P \in SUBSET Nat
  BY <1>1
<1> QED BY <1>2, <1>3, <1>4, NthPlace DEF Pick
-----------------------------------------------------------------------------
(* The dictionaries. *)

\* The loop leaves the outputs and the dictionaries alone.
DataInv == /\ output \in [Node -> Outputs \cup {Failed}]
           /\ state = [n \in Node |-> PollNode(output[n])]

LEMMA DataInvariant == Spec => []DataInv
<1>1. Init => DataInv
  BY DEF Init, DataInv
<1>2. DataInv /\ [Next]_vars => DataInv'
  BY DEF DataInv, Next, Take, Over, vars
<1> QED BY <1>1, <1>2, PTL DEF Spec

\* The lines of an output.
LEMMA LinesOf ==
  ASSUME NEW o \in Outputs
  PROVE  /\ o.df \in Seq(Range(o.df)) /\ o.beegfs \in Seq(Range(o.beegfs)) /\ o.lfs \in Seq(Range(o.lfs))
         /\ \A i \in DOMAIN o.df : IsMount(o.df[i]) => o.df[i] \in Mount
         /\ \A i \in DOMAIN o.beegfs : o.beegfs[i] \in BeegfsLine
         /\ \A i \in DOMAIN o.lfs : o.lfs[i] \in LustreLine
<1>1. ASSUME NEW A, NEW l \in Seq(A)
      PROVE  l \in Seq(Range(l)) /\ \A i \in DOMAIN l : l[i] \in A
  BY <1>1 DEF Range
<1> QED BY <1>1, OutputsAssumption

LEMMA TargetLines ==
  /\ \A r \in BeegfsLine : "target_id" \in DOMAIN r => r \in BeegfsTarget
  /\ \A r \in LustreLine : "target" \in DOMAIN r => r \in LustreTarget
<1>1. \A r \in [section : STRING] \cup [error : STRING] \cup [unparsed : STRING] :
        "target_id" \notin DOMAIN r
  <2>1. \A r \in [section : STRING] : DOMAIN r = {"section"}
    OBVIOUS
  <2>2. \A r \in [error : STRING] : DOMAIN r = {"error"}
    OBVIOUS
  <2>3. \A r \in [unparsed : STRING] : DOMAIN r = {"unparsed"}
    OBVIOUS
  <2> QED BY <2>1, <2>2, <2>3
<1>2. \A r \in [is_summary : BOOLEAN, total : Nat, used : Nat, avail : Nat, use_pct : Nat]
               \cup [unparsed : STRING] : "target" \notin DOMAIN r
  <2>1. \A r \in [is_summary : BOOLEAN, total : Nat, used : Nat, avail : Nat, use_pct : Nat] :
          DOMAIN r = {"is_summary", "total", "used", "avail", "use_pct"}
    OBVIOUS
  <2>2. \A r \in [unparsed : STRING] : DOMAIN r = {"unparsed"}
    OBVIOUS
  <2> QED BY <2>1, <2>2
<1> QED BY <1>1, <1>2 DEF BeegfsLine, LustreLine

LEMMA AnsweredData ==
  ASSUME DataInv, NEW n \in Answered
  PROVE  output[n] \in Outputs /\ state[n] = StgData(output[n])
<1>1. n \in Node /\ state[n] = PollNode(output[n]) /\ "error" \notin DOMAIN state[n]
  BY DEF DataInv, Answered
<1>2. output[n] # Failed
  BY <1>1 DEF PollNode, Failed
<1> QED BY <1>1, <1>2 DEF DataInv, PollNode

\* What an answered node's Lustre listing is made of.
LEMMA LustreListing ==
  ASSUME DataInv, NEW n \in Answered
  PROVE  /\ state[n].lustre = Pick(output[n].lfs, KeptLustre(output[n].lfs))
         /\ output[n].lfs \in Seq(Range(output[n].lfs))
         /\ KeptLustre(output[n].lfs) \in SUBSET DOMAIN output[n].lfs
         /\ IsFiniteSet(Targets(state[n]))
         /\ \A i \in Targets(state[n]) : /\ state[n].lustre[i].use_pct \in Nat
                                         /\ state[n].lustre[i].target.words \subseteq {"MDT", "OST"}
<1> DEFINE lfs == output[n].lfs
           l   == state[n].lustre
<1>1. l = Pick(lfs, KeptLustre(lfs))
  <2>1. state[n] = StgData(output[n])
    BY AnsweredData
  <2>2. StgData(output[n]).lustre = Pick(lfs, KeptLustre(lfs))
    BY DEF StgData
  <2> QED BY <2>1, <2>2
<1>2. lfs \in Seq(Range(lfs)) /\ KeptLustre(lfs) \in SUBSET DOMAIN lfs
  BY AnsweredData, LinesOf DEF KeptLustre
<1>3. \A i \in DOMAIN lfs : "target" \in DOMAIN lfs[i] =>
        lfs[i].use_pct \in Nat /\ lfs[i].target.words \subseteq {"MDT", "OST"}
  BY AnsweredData, LinesOf, TargetLines DEF LustreTarget
<1> HIDE DEF lfs, l
<1>4. \A i \in DOMAIN l : \E j \in DOMAIN lfs : l[i] = lfs[j]
  BY <1>1, <1>2, PickPlaces
<1>5. \A i \in DOMAIN l : "target" \in DOMAIN l[i] =>
        l[i].use_pct \in Nat /\ l[i].target.words \subseteq {"MDT", "OST"}
  BY <1>3, <1>4
<1>6. IsFiniteSet(DOMAIN l)
  <2>1. \E N \in Nat : DOMAIN l = 1 .. N
    BY <1>1, <1>2, PickPlaces
  <2> QED BY <2>1, FS_Interval
<1>7. Targets(state[n]) \in SUBSET DOMAIN l
  BY DEF Targets, l
<1>8. IsFiniteSet(Targets(state[n]))
  BY <1>6, <1>7, FS_Subset
<1> QED BY <1>1, <1>2, <1>5, <1>8 DEF Targets, lfs, l
-----------------------------------------------------------------------------
(* The console. *)

\* The highest and the lowest reading, as Collapsed takes them.
LEMMA MaxMinUse ==
  ASSUME NEW d, NEW O, IsFiniteSet(O), O # {}, \A i \in O : d.lustre[i].use_pct \in Nat
  PROVE  /\ Max(Uses(d, O)) \in Nat /\ Min(Uses(d, O)) \in Nat
         /\ \A i \in O : /\ d.lustre[i].use_pct <= Max(Uses(d, O))
                         /\ d.lustre[i].use_pct >= Min(Uses(d, O))
<1> DEFINE U == Uses(d, O)
           use == [i \in O |-> d.lustre[i].use_pct]
<1>1. U \in SUBSET Nat /\ U # {}
  BY DEF Uses
<1>2. use \in Surjection(O, U)
  BY DEF Uses, Surjection
<1>3. IsFiniteSet(U)
  <2> HIDE DEF U, use
  <2> QED BY <1>2, FS_Surjection
<1>4. \A i \in O : d.lustre[i].use_pct \in U
  BY DEF Uses
<1> HIDE DEF U, use
<1>5. Max(U) \in U /\ \A x \in U : Max(U) >= x
  <2>1. U \in SUBSET Int
    BY <1>1
  <2>2. Max(U) \in U /\ \A x \in U : x <= Max(U)
    BY <1>1, <1>3, <2>1, HighestIn
  <2> DEFINE m == Max(U)
  <2> HIDE DEF m
  <2>3. \A x \in U : m >= x
    BY <2>1, <2>2 DEF m
  <2> QED BY <2>2, <2>3 DEF m
<1>6. Min(U) \in U /\ \A x \in U : Min(U) <= x
  <2>1. U \in SUBSET Int
    BY <1>1
  <2> QED BY <1>1, <1>3, <2>1, LowestIn
<1> QED BY <1>1, <1>4, <1>5, <1>6 DEF U

LEMMA FullShown ==
  ASSUME NEW d, NEW e \in BOOLEAN, IsFiniteSet(Targets(d)),
         \A i \in Targets(d) : /\ d.lustre[i].use_pct \in Nat
                               /\ d.lustre[i].target.words \subseteq {"MDT", "OST"}
  PROVE  FullIsShown(d, e)
<1>1. Mdts(d) \subseteq Targets(d) /\ Osts(d) \subseteq Targets(d)
  BY DEF Mdts, Osts, NamedAs
<1>2. ASSUME Collapsed(d, e), NEW i \in Osts(d), NEW j \in Osts(d)
      PROVE  d.lustre[j].use_pct - d.lustre[i].use_pct \in -2 .. 2
  <2>1. IsFiniteSet(Osts(d)) /\ Osts(d) # {} /\ \A k \in Osts(d) : d.lustre[k].use_pct \in Nat
    BY <1>1, FS_Subset
  <2>2. Max(Uses(d, Osts(d))) - Min(Uses(d, Osts(d))) <= 2
    BY <1>2 DEF Collapsed
  <2> DEFINE hi == Max(Uses(d, Osts(d)))
             lo == Min(Uses(d, Osts(d)))
  <2>3. /\ hi \in Nat /\ lo \in Nat
        /\ \A k \in Osts(d) : d.lustre[k].use_pct <= hi /\ d.lustre[k].use_pct >= lo
    BY <2>1, MaxMinUse
  <2> HIDE DEF hi, lo
  <2> QED BY <2>1, <2>2, <2>3 DEF hi, lo
<1>3. ASSUME Collapsed(d, e), NEW i \in Osts(d) PROVE d.lustre[i].use_pct < LOW_SPACE
  BY <1>3 DEF Collapsed, Uses
<1>4. ASSUME NEW i \in Targets(d)
      PROVE  /\ Lines(d, e, i) = 0 <=> i \in Osts(d) \ Mdts(d) /\ Collapsed(d, e)
             /\ Lines(d, e, i) \in Nat
             /\ Lines(d, e, i) > 1 => i \in Osts(d) \cap Mdts(d)
  <2>1. i \in Others(d) <=> i \notin Mdts(d) \cup Osts(d)
    BY DEF Others
  <2>2. Collapsed(d, e) \in BOOLEAN
    BY DEF Collapsed
  <2>3. CASE i \in Mdts(d)
    BY <2>1, <2>2, <2>3 DEF Lines
  <2>4. CASE i \notin Mdts(d)
    BY <2>1, <2>2, <2>4 DEF Lines
  <2> QED BY <2>3, <2>4
<1>5. ASSUME NEW i \in Osts(d) \cap Mdts(d)
      PROVE  d.lustre[i].target.words = {"MDT", "OST"}
  BY <1>1 DEF Mdts, Osts, NamedAs
<1>6. e => ~ Collapsed(d, e)
  BY DEF Collapsed
<1>7. \A i \in Targets(d) : d.lustre[i].use_pct >= LOW_SPACE => Lines(d, e, i) > 0
  BY <1>3, <1>4 DEF LOW_SPACE
<1>8. \A i \in Targets(d) : Lines(d, e, i) = 0 =>
        /\ i \in Osts(d)
        /\ \A j \in Osts(d) : d.lustre[j].use_pct - d.lustre[i].use_pct \in -2 .. 2
  BY <1>2, <1>4
<1>9. \A i \in Targets(d) : Lines(d, e, i) > 1 => d.lustre[i].target.words = {"MDT", "OST"}
  BY <1>4, <1>5
<1>10. e => \A i \in Targets(d) : Lines(d, e, i) > 0
  <2>1. ~ Collapsed(d, e) => \A i \in Targets(d) : Lines(d, e, i) \in Nat /\ Lines(d, e, i) # 0
    BY <1>4
  <2>2. ~ Collapsed(d, e) => \A i \in Targets(d) : Lines(d, e, i) > 0
    BY <2>1
  <2> QED BY <1>6, <2>2
<1> QED BY <1>7, <1>8, <1>9, <1>10 DEF FullIsShown

\* The table on the console gives every full Lustre target a line of its own,
\* and a target without one is like all other OSTs, for every listing.
THEOREM FullHaveLines == Spec => []FullTargetsShown
<1>1. DataInv => FullTargetsShown
  BY LustreListing, FullShown DEF FullTargetsShown
<1> QED BY <1>1, DataInvariant, PTL

\* CSV and Prometheus agree about every node.
THEOREM FormatsAgreed == Spec => []FormatsAgree
<1>1. FormatsAgree
  BY ViewsAgreeAlways DEF FormatsAgree, Commands
<1> QED BY <1>1, PTL
-----------------------------------------------------------------------------
(* The parser. *)

\* How often a row is in a listing.
Times(list, row) == {i \in DOMAIN list : list[i] = row}

\* A row is picked as often as it stands at the places picked.
LEMMA PickTimes ==
  ASSUME NEW l, l \in Seq(Range(l)), NEW P \in SUBSET DOMAIN l, NEW row
  PROVE  /\ IsFiniteSet({i \in P : l[i] = row})
         /\ Cardinality(Times(Pick(l, P), row)) = Cardinality({i \in P : l[i] = row})
<1> DEFINE A == {i \in P : l[i] = row}
           B == Times(Pick(l, P), row)
           f == [i \in A |-> Rank(P, i)]
<1>1. A \in SUBSET P /\ IsFiniteSet(P)
  BY PickPlaces
<1>2. IsFiniteSet(A)
  <2> HIDE DEF A
  <2> QED BY <1>1, FS_Subset
<1>3. f \in [A -> B]
  BY PickPlaces DEF Times
<1>4. f \in Injection(A, B)
  <2>1. \A i \in P : Nth(P, Rank(P, i)) = i
    BY PickPlaces
  <2>2. \A i, j \in A : f[i] = f[j] => i = j
    BY <2>1
  <2> QED BY <1>3, <2>2 DEF Injection, IsInjective
<1>5. f \in Surjection(A, B)
  <2>1. ASSUME NEW k \in B PROVE \E i \in A : f[i] = k
    <3>1. Nth(P, k) \in A /\ Rank(P, Nth(P, k)) = k
      BY PickPlaces DEF Times
    <3> QED BY <3>1
  <2> QED BY <1>3, <2>1 DEF Surjection
<1>6. ExistsBijection(A, B)
  BY <1>4, <1>5 DEF ExistsBijection, Bijection
<1> HIDE DEF A, B, f
<1>7. Cardinality(B) = Cardinality(A)
  BY <1>2, <1>6, FS_Bijection
<1> QED BY <1>2, <1>7 DEF A, B

\* Every row under one of the headings is in one of the sections.
LEMMA SectionsKeepRows ==
  ASSUME NEW l, l \in Seq(Range(l)), NEW M \in SUBSET (DOMAIN l \ Headings(l)),
         NEW i \in DOMAIN l \ Headings(l)
  PROVE  Cardinality(Times(Pick(l, M), l[i]))
           + Cardinality(Times(Pick(l, (DOMAIN l \ Headings(l)) \ M), l[i]))
           = Cardinality(Times(l, l[i]))
<1> DEFINE rows == DOMAIN l \ Headings(l)
           A == {j \in M : l[j] = l[i]}
           B == {j \in rows \ M : l[j] = l[i]}
<1>1. /\ IsFiniteSet(A) /\ Cardinality(Times(Pick(l, M), l[i])) = Cardinality(A)
      /\ IsFiniteSet(B) /\ Cardinality(Times(Pick(l, rows \ M), l[i])) = Cardinality(B)
  <2>1. M \in SUBSET DOMAIN l /\ rows \ M \in SUBSET DOMAIN l
    OBVIOUS
  <2> HIDE DEF rows
  <2>2. IsFiniteSet(A) /\ Cardinality(Times(Pick(l, M), l[i])) = Cardinality(A)
    BY <2>1, PickTimes
  <2>3. IsFiniteSet(B) /\ Cardinality(Times(Pick(l, rows \ M), l[i])) = Cardinality(B)
    <3> DEFINE Q == rows \ M
    <3>1. Q \in SUBSET DOMAIN l
      BY <2>1
    <3> HIDE DEF Q
    <3>2. /\ IsFiniteSet({j \in Q : l[j] = l[i]})
          /\ Cardinality(Times(Pick(l, Q), l[i])) = Cardinality({j \in Q : l[j] = l[i]})
      BY <3>1, PickTimes
    <3> QED BY <3>2 DEF Q
  <2> QED BY <2>2, <2>3
<1>2. Times(l, l[i]) = A \cup B
  <2>1. \A j \in DOMAIN l : l[j] = l[i] => j \in rows
    BY DEF Headings
  <2> QED BY <2>1 DEF Times
<1>3. A \cap B = {}
  OBVIOUS
<1> HIDE DEF A, B
<1>4. Cardinality(A \cup B) = Cardinality(A) + Cardinality(B)
  <2>1. Cardinality(A) \in Nat /\ Cardinality(B) \in Nat /\ Cardinality({}) = 0
    BY <1>1, FS_CardinalityType, FS_EmptySet
  <2>2. Cardinality(A \cup B) = Cardinality(A) + Cardinality(B) - Cardinality(A \cap B)
    BY <1>1, FS_Union
  <2>3. Cardinality(A \cap B) = 0
    BY <1>3, <2>1
  <2> QED BY <2>1, <2>2, <2>3
<1> QED BY <1>1, <1>2, <1>4

\* A Lustre line is kept at the first place of its key, and nowhere else.
LEMMA KeptOnce ==
  ASSUME NEW l, l \in Seq(Range(l)), NEW i \in DOMAIN l, ~ Unparsed(l[i])
  PROVE  \E m \in KeptLustre(l) :
           /\ ~ Unparsed(l[m]) /\ LustreKey(l[m]) = LustreKey(l[i])
           /\ \A p \in KeptLustre(l) :
                ~ Unparsed(l[p]) /\ LustreKey(l[p]) = LustreKey(l[i]) => p = m
<1> DEFINE S == {j \in DOMAIN l : ~ Unparsed(l[j]) /\ LustreKey(l[j]) = LustreKey(l[i])}
<1>1. DOMAIN l = 1 .. Len(l) /\ Len(l) \in Nat
  OBVIOUS
<1>2. S \in SUBSET Nat /\ IsFiniteSet(S) /\ i \in S
  <2>1. S \in SUBSET DOMAIN l /\ IsFiniteSet(DOMAIN l)
    BY <1>1, FS_Interval
  <2>2. i \in S
    OBVIOUS
  <2> HIDE DEF S
  <2>3. IsFiniteSet(S)
    BY <2>1, FS_Subset
  <2> QED BY <1>1, <2>1, <2>2, <2>3
<1>3. PICK m \in S : \A j \in S : m <= j
  <2> HIDE DEF S
  <2> QED BY <1>2, FirstPlace
<1>4. m \in KeptLustre(l)
  <2>1. \A j \in 1 .. m - 1 : j \in DOMAIN l /\ j \notin S
    BY <1>1, <1>3
  <2> QED BY <2>1 DEF KeptLustre
<1>5. ASSUME NEW p \in KeptLustre(l), p \in S PROVE p = m
  <2>1. m <= p /\ m \in Nat \ {0} /\ p \in Nat
    BY <1>1, <1>3, <1>5
  <2>2. \A j \in 1 .. p - 1 : j \notin S
    BY <1>5 DEF KeptLustre
  <2>3. m \notin 1 .. p - 1
    BY <1>3, <2>2
  <2> QED BY <2>1, <2>3
<1>6. \A p \in KeptLustre(l) : p \in DOMAIN l
  BY DEF KeptLustre
<1> QED BY <1>4, <1>5, <1>6

\* So there is one line with its key in the dictionary.
LEMMA OneOfItsKey ==
  ASSUME NEW l, l \in Seq(Range(l)), NEW i \in DOMAIN l, ~ Unparsed(l[i]),
         NEW kept, kept = Pick(l, KeptLustre(l))
  PROVE  Cardinality({j \in DOMAIN kept :
           ~ Unparsed(kept[j]) /\ LustreKey(kept[j]) = LustreKey(l[i])}) = 1
<1> DEFINE K == KeptLustre(l)
<1>1. K \in SUBSET DOMAIN l
  BY DEF KeptLustre
<1>2. PICK m \in K :
        /\ ~ Unparsed(l[m]) /\ LustreKey(l[m]) = LustreKey(l[i])
        /\ \A p \in K : ~ Unparsed(l[p]) /\ LustreKey(l[p]) = LustreKey(l[i]) => p = m
  BY KeptOnce
<1> HIDE DEF K
<1>3. /\ \A k \in DOMAIN kept : Nth(K, k) \in K /\ kept[k] = l[Nth(K, k)]
      /\ Rank(K, m) \in DOMAIN kept /\ Nth(K, Rank(K, m)) = m
      /\ \A k \in DOMAIN kept : Rank(K, Nth(K, k)) = k
  BY <1>1, PickPlaces DEF K
<1>4. {j \in DOMAIN kept : ~ Unparsed(kept[j]) /\ LustreKey(kept[j]) = LustreKey(l[i])}
        = {Rank(K, m)}
  BY <1>2, <1>3
<1> QED BY <1>4, FS_Singleton

\* The three forms of a line of lfs, and when two of a form have one key.
LEMMA LustreForms ==
  /\ \A r \in LustreLine :
       /\ "target" \in DOMAIN r => ~ Unparsed(r)
       /\ "is_summary" \in DOMAIN r => ~ Unparsed(r) /\ "target" \notin DOMAIN r
       /\ "target" \in DOMAIN r \/ "is_summary" \in DOMAIN r \/ Unparsed(r)
  /\ \A r, s \in LustreLine :
       /\ "target" \in DOMAIN r =>
            (~ Unparsed(s) /\ LustreKey(s) = LustreKey(r) <=>
               "target" \in DOMAIN s /\ s.target = r.target)
       /\ "is_summary" \in DOMAIN r =>
            (~ Unparsed(s) /\ LustreKey(s) = LustreKey(r) <=>
               /\ "is_summary" \in DOMAIN s
               /\ \A k \in {"total", "used", "avail"} : s[k] = r[k])
<1>1. \A r \in LustreLine : DOMAIN r \in {{"target", "use_pct"}, {"unparsed"},
                                          {"is_summary", "total", "used", "avail", "use_pct"}}
  BY DEF LustreLine, LustreTarget
<1>2. \A r \in LustreLine :
       /\ "target" \in DOMAIN r => ~ Unparsed(r)
       /\ "is_summary" \in DOMAIN r => ~ Unparsed(r) /\ "target" \notin DOMAIN r
       /\ "target" \in DOMAIN r \/ "is_summary" \in DOMAIN r \/ Unparsed(r)
  BY <1>1 DEF Unparsed
<1>3. ASSUME NEW r \in LustreLine, NEW s \in LustreLine
      PROVE  /\ "target" \in DOMAIN s => LustreKey(s) = <<"target", s.target>>
             /\ "is_summary" \in DOMAIN s =>
                  LustreKey(s) = <<"summary", s.total, s.used, s.avail>>
  BY <1>2 DEF LustreKey
<1>4. ASSUME NEW r \in LustreLine, NEW s \in LustreLine, "target" \in DOMAIN r
      PROVE  ~ Unparsed(s) /\ LustreKey(s) = LustreKey(r) <=>
               "target" \in DOMAIN s /\ s.target = r.target
  <2>1. LustreKey(r)[1] = "target" /\ LustreKey(r)[2] = r.target
        /\ LustreKey(r) = <<"target", r.target>>
    BY <1>3, <1>4
  <2>2. CASE "target" \in DOMAIN s
    <3>1. LustreKey(s) = <<"target", s.target>> /\ LustreKey(s)[2] = s.target
      BY <1>3, <2>2
    <3> QED BY <1>2, <2>1, <2>2, <3>1
  <2>3. CASE "is_summary" \in DOMAIN s
    <3>1. LustreKey(s)[1] = "summary"
      BY <1>3, <2>3
    <3> QED BY <1>2, <2>1, <2>3, <3>1
  <2> QED BY <1>2, <2>2, <2>3
<1>5. ASSUME NEW r \in LustreLine, NEW s \in LustreLine, "is_summary" \in DOMAIN r
      PROVE  ~ Unparsed(s) /\ LustreKey(s) = LustreKey(r) <=>
               /\ "is_summary" \in DOMAIN s
               /\ \A k \in {"total", "used", "avail"} : s[k] = r[k]
  <2>1. /\ LustreKey(r) = <<"summary", r.total, r.used, r.avail>>
        /\ LustreKey(r)[1] = "summary" /\ LustreKey(r)[2] = r.total
        /\ LustreKey(r)[3] = r.used /\ LustreKey(r)[4] = r.avail
    BY <1>3, <1>5
  <2>2. CASE "is_summary" \in DOMAIN s
    <3>1. /\ LustreKey(s) = <<"summary", s.total, s.used, s.avail>>
          /\ LustreKey(s)[2] = s.total /\ LustreKey(s)[3] = s.used
          /\ LustreKey(s)[4] = s.avail
      BY <1>3, <2>2
    <3> QED BY <1>2, <2>1, <2>2, <3>1
  <2>3. CASE "target" \in DOMAIN s
    <3>1. LustreKey(s)[1] = "target"
      BY <1>3, <2>3
    <3> QED BY <1>2, <2>1, <2>3, <3>1
  <2> QED BY <1>2, <2>2, <2>3
<1> QED BY <1>2, <1>4, <1>5

LEMMA LustreKeepsLines ==
  ASSUME NEW l, l \in Seq(Range(l)), \A i \in DOMAIN l : l[i] \in LustreLine, NEW i \in DOMAIN l,
         NEW kept, kept = Pick(l, KeptLustre(l))
  PROVE  /\ "target" \in DOMAIN l[i] =>
              Cardinality({j \in DOMAIN kept :
                "target" \in DOMAIN kept[j] /\ kept[j].target = l[i].target}) = 1
         /\ "is_summary" \in DOMAIN l[i] =>
              Cardinality({j \in DOMAIN kept :
                /\ "is_summary" \in DOMAIN kept[j]
                /\ \A k \in {"total", "used", "avail"} : kept[j][k] = l[i][k]}) = 1
         /\ Unparsed(l[i]) => Cardinality(Times(kept, l[i])) = Cardinality(Times(l, l[i]))
<1> DEFINE K     == KeptLustre(l)
           alike == {j \in DOMAIN kept :
                       ~ Unparsed(kept[j]) /\ LustreKey(kept[j]) = LustreKey(l[i])}
<1>1. K \in SUBSET DOMAIN l
  BY DEF KeptLustre
<1>2. ASSUME Unparsed(l[i]) PROVE Cardinality(Times(kept, l[i])) = Cardinality(Times(l, l[i]))
  <2>1. \A j \in DOMAIN l : l[j] = l[i] => j \in K
    BY <1>2 DEF KeptLustre
  <2>2. {j \in K : l[j] = l[i]} = Times(l, l[i])
    BY <1>1, <2>1 DEF Times
  <2> HIDE DEF K
  <2> QED BY <1>1, <2>2, PickTimes DEF K
<1>3. \A j \in DOMAIN kept : kept[j] \in LustreLine
  <2>1. \A j \in DOMAIN kept : \E k \in DOMAIN l : kept[j] = l[k]
    BY <1>1, PickPlaces
  <2> QED BY <2>1
<1>4. ~ Unparsed(l[i]) => Cardinality(alike) = 1
  BY OneOfItsKey
<1>5. "target" \in DOMAIN l[i] =>
        /\ ~ Unparsed(l[i])
        /\ alike = {j \in DOMAIN kept :
                      "target" \in DOMAIN kept[j] /\ kept[j].target = l[i].target}
  BY <1>3, LustreForms
<1>6. "is_summary" \in DOMAIN l[i] =>
        /\ ~ Unparsed(l[i])
        /\ alike = {j \in DOMAIN kept :
                      /\ "is_summary" \in DOMAIN kept[j]
                      /\ \A k \in {"total", "used", "avail"} : kept[j][k] = l[i][k]}
  BY <1>3, LustreForms
<1> HIDE DEF alike
<1> QED BY <1>2, <1>4, <1>5, <1>6

\* A line of df that is a mount is kept as often as it was printed, another not.
LEMMA MountsKeepLines ==
  ASSUME NEW l, l \in Seq(Range(l)), NEW row,
         NEW P, P = {i \in DOMAIN l : IsMount(l[i])}
  PROVE  Cardinality(Times(Pick(l, P), row))
           = IF IsMount(row) THEN Cardinality(Times(l, row)) ELSE 0
<1>1. P \in SUBSET DOMAIN l
  OBVIOUS
<1>2. Cardinality(Times(Pick(l, P), row)) = Cardinality({i \in P : l[i] = row})
  BY <1>1, PickTimes
<1>3. CASE IsMount(row)
  <2>1. {i \in P : l[i] = row} = Times(l, row)
    BY <1>3 DEF Times
  <2> QED BY <1>2, <1>3, <2>1
<1>4. CASE ~ IsMount(row)
  <2>1. {i \in P : l[i] = row} = {}
    BY <1>4
  <2> QED BY <1>2, <1>4, <2>1, FS_EmptySet
<1> QED BY <1>3, <1>4

\* The dictionary of a node has the lines it printed as often as LinesKept says,
\* for every listing.
THEOREM ParsingKeepsLines == Spec => []LinesKeptInParsing
<1>1. DataInv => LinesKeptInParsing
  <2> SUFFICES ASSUME DataInv, NEW n \in Answered
               PROVE  LinesKept(output[n], state[n])
    BY DEF LinesKeptInParsing
  <2> DEFINE df  == output[n].df
             bee == output[n].beegfs
             lfs == output[n].lfs
             P == {i \in DOMAIN df : IsMount(df[i])}
             rows == DOMAIN bee \ Headings(bee)
             meta == {i \in rows : IsMeta(bee, i)}
  <2>1. output[n] \in Outputs /\ state[n] = StgData(output[n])
    BY AnsweredData
  <2>2. /\ df \in Seq(Range(df)) /\ bee \in Seq(Range(bee)) /\ lfs \in Seq(Range(lfs))
        /\ \A i \in DOMAIN lfs : lfs[i] \in LustreLine
    BY <2>1, LinesOf
  <2>3. /\ state[n].mounts = Pick(df, P)
        /\ state[n].beegfs.meta = Pick(bee, meta)
        /\ state[n].beegfs.storage = Pick(bee, rows \ meta)
        /\ state[n].lustre = Pick(lfs, KeptLustre(lfs))
    BY <2>1 DEF StgData
  <2>4. \A i \in rows :
          Cardinality(Times(Pick(bee, meta), bee[i])) + Cardinality(Times(Pick(bee, rows \ meta), bee[i]))
            = Cardinality(Times(bee, bee[i]))
    <3>1. meta \in SUBSET rows
      OBVIOUS
    <3> HIDE DEF bee, meta
    <3> QED BY <2>2, <3>1, SectionsKeepRows
  <2>5. \A i \in DOMAIN lfs :
          LET kept == Pick(lfs, KeptLustre(lfs))
          IN  /\ "target" \in DOMAIN lfs[i] =>
                   Cardinality({j \in DOMAIN kept :
                     "target" \in DOMAIN kept[j] /\ kept[j].target = lfs[i].target}) = 1
              /\ "is_summary" \in DOMAIN lfs[i] =>
                   Cardinality({j \in DOMAIN kept :
                     /\ "is_summary" \in DOMAIN kept[j]
                     /\ \A k \in {"total", "used", "avail"} : kept[j][k] = lfs[i][k]}) = 1
              /\ Unparsed(lfs[i]) => Cardinality(Times(kept, lfs[i])) = Cardinality(Times(lfs, lfs[i]))
    <3> HIDE DEF lfs
    <3> QED BY <2>2, LustreKeepsLines
  <2>6. \A i \in DOMAIN df :
          Cardinality(Times(Pick(df, P), df[i]))
            = IF IsMount(df[i]) THEN Cardinality(Times(df, df[i])) ELSE 0
    <3> HIDE DEF df
    <3> QED BY <2>2, MountsKeepLines
  <2>7. \A i \in DOMAIN output[n].df :
          Cardinality(Times(state[n].mounts, output[n].df[i]))
            = IF IsMount(output[n].df[i]) THEN Cardinality(Times(output[n].df, output[n].df[i])) ELSE 0
    BY ONLY <2>3, <2>6
  <2>8. \A i \in DOMAIN output[n].beegfs \ Headings(output[n].beegfs) :
          Cardinality(Times(state[n].beegfs.meta, output[n].beegfs[i]))
            + Cardinality(Times(state[n].beegfs.storage, output[n].beegfs[i]))
            = Cardinality(Times(output[n].beegfs, output[n].beegfs[i]))
    <3> HIDE DEF meta
    <3> QED BY ONLY <2>3, <2>4
  <2>9. \A i \in DOMAIN output[n].lfs :
          LET kept == state[n].lustre
              row  == output[n].lfs[i]
          IN  /\ "target" \in DOMAIN row =>
                   Cardinality({j \in DOMAIN kept :
                     "target" \in DOMAIN kept[j] /\ kept[j].target = row.target}) = 1
              /\ "is_summary" \in DOMAIN row =>
                   Cardinality({j \in DOMAIN kept :
                     /\ "is_summary" \in DOMAIN kept[j]
                     /\ \A k \in {"total", "used", "avail"} : kept[j][k] = row[k]}) = 1
              /\ Unparsed(row) => Cardinality(Times(kept, row)) = Cardinality(Times(output[n].lfs, row))
    BY ONLY <2>3, <2>5
  <2> HIDE DEF df, bee, lfs, P, rows, meta
  <2> QED BY ONLY <2>7, <2>8, <2>9 DEF LinesKept, Times
<1> QED BY <1>1, DataInvariant, PTL
-----------------------------------------------------------------------------
(* The count of mounts. *)

\* A pass over a listing adds each key it has not seen once.
LEMMA NewOnce ==
  ASSUME NEW keys, NEW N \in Nat, DOMAIN keys = 1 .. N, NEW S
  PROVE  /\ IsFiniteSet(Range(keys)) /\ IsFiniteSet(New(keys, S))
         /\ Cardinality(New(keys, S)) = Cardinality(Range(keys) \ S)
         /\ Range(Restrict(keys, New(keys, S))) = Range(keys) \ S
         /\ \A i, j \in New(keys, S) : keys[i] = keys[j] => i = j
<1> DEFINE I == New(keys, S)
           K == Range(keys) \ S
           f == [i \in I |-> keys[i]]
<1>1. I \in SUBSET DOMAIN keys
  BY DEF New
<1>2. IsFiniteSet(DOMAIN keys)
  BY FS_Interval
<1>3. IsFiniteSet(I)
  <2> HIDE DEF I
  <2> QED BY <1>1, <1>2, FS_Subset
<1>4. IsFiniteSet(Range(keys))
  <2> DEFINE g == [i \in DOMAIN keys |-> keys[i]]
  <2>1. g \in Surjection(DOMAIN keys, Range(keys))
    BY DEF Surjection, Range
  <2> HIDE DEF g
  <2> QED BY <1>2, <2>1, FS_Surjection
<1>5. f \in [I -> K]
  BY DEF New, Range
<1>6. \A i, j \in I : f[i] = f[j] => i = j
  <2> SUFFICES ASSUME NEW i \in I, NEW j \in I, i < j PROVE keys[i] # keys[j]
    <3>1. \A i, j \in I : i \in Int /\ j \in Int
      BY <1>1
    <3>2. \A i, j \in I : i = j \/ i < j \/ j < i
      BY <3>1
    <3> QED BY <3>2
  <2>1. i \in 1 .. j - 1
    BY <1>1
  <2> QED BY <2>1 DEF New
<1>7. \A v \in K : \E i \in I : f[i] = v
  <2> SUFFICES ASSUME NEW v \in K PROVE \E i \in I : keys[i] = v
    OBVIOUS
  <2> DEFINE P == {i \in DOMAIN keys : keys[i] = v}
  <2>1. P \in SUBSET DOMAIN keys /\ P # {}
    BY DEF Range
  <2>2. IsFiniteSet(P) /\ P \in SUBSET Nat
    <3> HIDE DEF P
    <3>1. IsFiniteSet(P)
      BY <1>2, <2>1, FS_Subset
    <3> QED BY <2>1, <3>1
  <2>3. PICK m \in P : \A j \in P : m <= j
    <3> HIDE DEF P
    <3> QED BY <2>1, <2>2, FirstPlace
  <2>4. \A j \in 1 .. m - 1 : j \notin P /\ j \in DOMAIN keys
    BY <2>3
  <2> QED BY <2>3, <2>4 DEF New
<1>8. ExistsBijection(I, K)
  <2>1. f \in Bijection(I, K)
    BY <1>5, <1>6, <1>7 DEF Bijection, Injection, Surjection, IsInjective
  <2> QED BY <2>1 DEF ExistsBijection
<1>9. Range(Restrict(keys, I)) = K
  BY <1>5, <1>7 DEF Range, Restrict
<1>10. \A i, j \in I : keys[i] = keys[j] => i = j
  BY <1>6
<1> HIDE DEF I, K, f
<1>11. Cardinality(K) = Cardinality(I)
  BY <1>3, <1>8, FS_Bijection
<1> QED BY <1>3, <1>4, <1>9, <1>10, <1>11 DEF I, K

\* The keys of a node's mounts.
Keys(n) == Range(MountKeys(n, state[n].mounts))

\* After every turn of the loop, the cluster's count is that of the keys of the
\* nodes taken, and a node's count that of its own.
CountInv == /\ DataInv
            /\ left \subseteq Answered /\ Taken \subseteq Answered
            /\ IsFiniteSet(seen) /\ total.mounts = Cardinality(seen)
            /\ seen = UNION {Keys(n) : n \in Taken}
            /\ \A n \in Taken : nodes[n].mounts = Cardinality(Keys(n))

LEMMA MountListing ==
  ASSUME DataInv, NEW n \in Answered
  PROVE  \E N \in Nat : DOMAIN MountKeys(n, state[n].mounts) = 1 .. N
<1> DEFINE df == output[n].df
           P  == {i \in DOMAIN df : IsMount(df[i])}
<1>1. output[n] \in Outputs /\ state[n] = StgData(output[n])
  BY AnsweredData
<1>2. df \in Seq(Range(df))
  BY <1>1, LinesOf
<1>3. state[n].mounts = Pick(df, P)
  BY <1>1 DEF StgData
<1>4. P \in SUBSET DOMAIN df
  OBVIOUS
<1> HIDE DEF df, P
<1>5. \E N \in Nat : DOMAIN Pick(df, P) = 1 .. N
  BY <1>2, <1>4, PickPlaces
<1> QED BY <1>3, <1>5 DEF MountKeys

LEMMA InitCount == Init => CountInv
<1> SUFFICES ASSUME Init PROVE CountInv
  OBVIOUS
<1>1. DataInv
  BY DEF Init, DataInv
<1>2. left \subseteq Answered /\ Taken = {}
  BY DEF Init, Answered, Taken
<1>3. seen = {} /\ total.mounts = 0
  BY DEF Init
<1> QED BY <1>1, <1>2, <1>3, FS_EmptySet DEF CountInv

LEMMA TakeCount ==
  ASSUME CountInv, NEW n \in Node, Take(n) PROVE CountInv'
<1> DEFINE key   == MountKeys(n, state[n].mounts)
           own   == New(key, {})
           fresh == {i \in own : key[i] \notin seen}
<1>1. n \in Answered
  BY DEF CountInv, Take
<1>2. PICK N \in Nat : DOMAIN key = 1 .. N
  BY <1>1, MountListing DEF CountInv
<1>3. fresh = New(key, seen)
  BY DEF New
<1>4. /\ Taken' = Taken \cup {n}
      /\ \A x \in Taken \ {n} : nodes'[x] = nodes[x]
      /\ nodes'[n].mounts = Cardinality(own)
  BY DEF Take, Taken, Row
<1>5. /\ seen' = seen \cup Range(Restrict(key, fresh))
      /\ total'.mounts = total.mounts + Cardinality(fresh)
      /\ UNCHANGED <<output, state>>
      /\ left' \subseteq left
  BY DEF Take
<1> HIDE DEF key, own, fresh
<1>6. /\ IsFiniteSet(Range(key))
      /\ Cardinality(fresh) = Cardinality(Range(key) \ seen)
      /\ Range(Restrict(key, fresh)) = Range(key) \ seen
      /\ Cardinality(own) = Cardinality(Range(key))
  <2>1. Range(key) \ {} = Range(key)
    OBVIOUS
  <2> QED BY <1>2, <1>3, <2>1, NewOnce DEF own
<1>7. seen' = seen \cup Range(key) /\ IsFiniteSet(seen')
  <2>1. seen' = seen \cup Range(key)
    BY <1>5, <1>6
  <2> QED BY <1>6, <2>1, FS_Union DEF CountInv
<1>8. total'.mounts = Cardinality(seen')
  <2> DEFINE K == Range(key) \ seen
  <2>1. IsFiniteSet(K) /\ seen' = seen \cup K /\ seen \cap K = {}
    BY <1>6, <1>7, FS_Difference
  <2> HIDE DEF K
  <2>2. Cardinality(seen \cup K) = Cardinality(seen) + Cardinality(K) - Cardinality(seen \cap K)
    BY <2>1, FS_Union DEF CountInv
  <2>3. Cardinality(seen) \in Nat /\ Cardinality(K) \in Nat /\ Cardinality(seen \cap K) = 0
    BY <2>1, FS_CardinalityType, FS_EmptySet DEF CountInv
  <2>4. total'.mounts = Cardinality(seen) + Cardinality(K)
    BY <1>5, <1>6 DEF CountInv, K
  <2> QED BY <2>1, <2>2, <2>3, <2>4
<1>9. \A x : Keys(x)' = Keys(x)
  BY <1>5 DEF Keys, MountKeys, MountKey
<1>10. Keys(n) = Range(key)
  BY DEF Keys, key
<1>11. seen' = UNION {Keys(x)' : x \in Taken'}
  BY <1>4, <1>7, <1>9, <1>10 DEF CountInv
<1>12. \A x \in Taken' : nodes'[x].mounts = Cardinality(Keys(x)')
  BY <1>4, <1>6, <1>9, <1>10 DEF CountInv
<1>13. DataInv' /\ left' \subseteq Answered' /\ Taken' \subseteq Answered'
  BY <1>1, <1>4, <1>5 DEF CountInv, DataInv, Answered
<1> QED BY <1>7, <1>8, <1>11, <1>12, <1>13 DEF CountInv

LEMMA CountInvariant == Spec => []CountInv
<1>1. CountInv /\ [Next]_vars => CountInv'
  <2> SUFFICES ASSUME CountInv, [Next]_vars PROVE CountInv'
    OBVIOUS
  <2>1. CASE \E n \in Node : Take(n)
    BY <2>1, TakeCount
  <2>2. CASE UNCHANGED vars
    <3>1. UNCHANGED <<output, state, left, nodes, seen, total>>
      BY <2>2 DEF vars
    <3>2. \A n : Keys(n)' = Keys(n)
      BY <3>1 DEF Keys, MountKeys, MountKey
    <3>3. Taken' = Taken /\ Answered' = Answered /\ DataInv'
      BY <3>1 DEF Taken, Answered, CountInv, DataInv
    <3> QED BY <3>1, <3>2, <3>3 DEF CountInv
  <2> QED BY <2>1, <2>2 DEF Next, Over
<1> QED BY <1>1, InitCount, PTL DEF Spec

\* The keys reported so far.
LEMMA ReportedKeys == ASSUME CountInv PROVE {KeyOf(p) : p \in Reported} = seen
<1>1. \A n \in Taken : Keys(n) = {KeyOf(<<n, i>>) : i \in DOMAIN state[n].mounts}
  BY DEF Keys, MountKeys, KeyOf, Range
<1>2. \A k : k \in seen <=> \E n \in Taken : k \in Keys(n)
  BY DEF CountInv
<1>3. \A n \in Taken : \A i \in DOMAIN state[n].mounts : <<n, i>> \in Reported
  BY DEF Reported
<1>4. \A p \in Reported : \E n \in Taken : \E i \in DOMAIN state[n].mounts : p = <<n, i>>
  BY DEF Reported
<1>5. {KeyOf(p) : p \in Reported} \subseteq seen
  BY <1>1, <1>2, <1>4
<1>6. seen \subseteq {KeyOf(p) : p \in Reported}
  <2> SUFFICES ASSUME NEW k \in seen PROVE \E p \in Reported : k = KeyOf(p)
    OBVIOUS
  <2>1. PICK n \in Taken : k \in Keys(n)
    BY <1>2
  <2>2. k \in {KeyOf(<<n, i>>) : i \in DOMAIN state[n].mounts}
    BY <1>1, <2>1
  <2>3. PICK i \in DOMAIN state[n].mounts : k = KeyOf(<<n, i>>)
    BY <2>2
  <2>4. <<n, i>> \in Reported
    BY <1>3
  <2> QED BY <2>3, <2>4
<1> QED BY <1>5, <1>6

\* The cluster row counts each distinct filesystem once, for any number of
\* clients, paths and nodes, taken in any order.
THEOREM EachCountedOnce == Spec => []MountsCountedOnce
<1>1. CountInv => MountsCountedOnce
  <2> SUFFICES ASSUME CountInv PROVE MountsCountedOnce
    OBVIOUS
  <2>1. ASSUME NEW n \in Taken PROVE nodes[n].mounts <= total.mounts
    <3>1. Keys(n) \in SUBSET seen
      BY DEF CountInv
    <3> QED BY <3>1, FS_Subset DEF CountInv
  <2> QED BY <2>1, ReportedKeys DEF CountInv, MountsCountedOnce
<1> QED BY <1>1, CountInvariant, PTL
-----------------------------------------------------------------------------
(* The rows of the dictionaries. *)

LEMMA PickIn ==
  ASSUME NEW l, l \in Seq(Range(l)), NEW P \in SUBSET DOMAIN l, NEW B, \A i \in P : l[i] \in B
  PROVE  Pick(l, P) \in Seq(B)
<1> DEFINE k == Pick(l, P)
<1>1. \E N \in Nat : DOMAIN k = 1 .. N
  BY PickPlaces
<1>2. \A i \in DOMAIN k : k[i] \in B
  BY PickPlaces
<1>3. k = [i \in DOMAIN k |-> k[i]]
  BY DEF Pick
<1> HIDE DEF k
<1>4. k \in Seq(B)
  BY <1>1, <1>2, <1>3
<1> QED BY <1>4 DEF k

LEMMA DictionaryRows ==
  ASSUME DataInv, NEW n \in Answered
  PROVE  /\ state[n].mounts \in Seq(Mount)
         /\ state[n].beegfs.meta \in Seq(BeegfsLine) /\ state[n].beegfs.storage \in Seq(BeegfsLine)
         /\ state[n].lustre \in Seq(LustreLine)
         /\ BeegfsRows(state[n]) \in Seq(BeegfsTarget)
         /\ LustreRows(state[n]) \in Seq(LustreTarget)
<1> DEFINE df   == output[n].df
           bee  == output[n].beegfs
           lfs  == output[n].lfs
           P    == {i \in DOMAIN df : IsMount(df[i])}
           rows == DOMAIN bee \ Headings(bee)
           meta == {i \in rows : IsMeta(bee, i)}
           K    == KeptLustre(lfs)
<1>1. output[n] \in Outputs /\ state[n] = StgData(output[n])
  BY AnsweredData
<1>2. /\ state[n].mounts = Pick(df, P)
      /\ state[n].beegfs.meta = Pick(bee, meta)
      /\ state[n].beegfs.storage = Pick(bee, rows \ meta)
      /\ state[n].lustre = Pick(lfs, K)
  BY <1>1 DEF StgData
<1>3. /\ df \in Seq(Range(df)) /\ bee \in Seq(Range(bee)) /\ lfs \in Seq(Range(lfs))
      /\ \A i \in P : df[i] \in Mount
      /\ \A i \in DOMAIN bee : bee[i] \in BeegfsLine
      /\ \A i \in DOMAIN lfs : lfs[i] \in LustreLine
  BY <1>1, LinesOf
<1>4. /\ P \in SUBSET DOMAIN df /\ K \in SUBSET DOMAIN lfs
      /\ meta \in SUBSET DOMAIN bee /\ rows \ meta \in SUBSET DOMAIN bee
  BY DEF KeptLustre
<1> HIDE DEF df, bee, lfs, P, rows, meta, K
<1>5. state[n].mounts \in Seq(Mount)
  BY <1>2, <1>3, <1>4, PickIn
<1>6. state[n].beegfs.meta \in Seq(BeegfsLine)
  <2>1. \A i \in meta : bee[i] \in BeegfsLine
    BY <1>3, <1>4
  <2>2. Pick(bee, meta) \in Seq(BeegfsLine)
    BY <1>3, <1>4, <2>1, PickIn
  <2> QED BY <1>2, <2>2
<1>7. state[n].beegfs.storage \in Seq(BeegfsLine)
  <2> DEFINE Q == rows \ meta
  <2>1. Q \in SUBSET DOMAIN bee /\ \A i \in Q : bee[i] \in BeegfsLine
    BY <1>3, <1>4
  <2> HIDE DEF Q
  <2>2. Pick(bee, Q) \in Seq(BeegfsLine)
    BY <1>3, <2>1, PickIn
  <2> QED BY <1>2, <2>2 DEF Q
<1>8. state[n].lustre \in Seq(LustreLine)
  <2>1. \A i \in K : lfs[i] \in LustreLine
    BY <1>3, <1>4
  <2>2. Pick(lfs, K) \in Seq(LustreLine)
    BY <1>3, <1>4, <2>1, PickIn
  <2> QED BY <1>2, <2>2
<1>9. BeegfsRows(state[n]) \in Seq(BeegfsTarget)
  <2> DEFINE all == state[n].beegfs.meta \o state[n].beegfs.storage
             T   == {i \in DOMAIN all : "target_id" \in DOMAIN all[i]}
  <2>1. all \in Seq(BeegfsLine)
    BY <1>6, <1>7
  <2>2. BeegfsRows(state[n]) = Pick(all, T)
    BY DEF BeegfsRows
  <2>3. T \in SUBSET DOMAIN all /\ \A i \in T : "target_id" \in DOMAIN all[i]
    OBVIOUS
  <2> HIDE DEF all, T
  <2>4. all \in Seq(Range(all)) /\ \A i \in T : all[i] \in BeegfsTarget
    <3>1. \A i \in DOMAIN all : all[i] \in BeegfsLine
      BY <2>1
    <3>2. all \in Seq(Range(all))
      BY <2>1 DEF Range
    <3> QED BY <2>3, <3>1, <3>2, TargetLines
  <2> QED BY <2>2, <2>3, <2>4, PickIn
<1>10. LustreRows(state[n]) \in Seq(LustreTarget)
  <2> DEFINE all == state[n].lustre
             T   == Targets(state[n])
  <2>1. T \in SUBSET DOMAIN all /\ \A i \in T : "target" \in DOMAIN all[i]
    BY DEF Targets
  <2>2. LustreRows(state[n]) = Pick(all, T)
    BY DEF LustreRows
  <2>3. all \in Seq(LustreLine)
    BY <1>8
  <2> HIDE DEF all, T
  <2>4. all \in Seq(Range(all)) /\ \A i \in T : all[i] \in LustreTarget
    <3>1. \A i \in DOMAIN all : all[i] \in LustreLine
      BY <2>3
    <3>2. all \in Seq(Range(all))
      BY <2>3 DEF Range
    <3> QED BY <2>1, <3>1, <3>2, TargetLines
  <2> QED BY <2>1, <2>2, <2>4, PickIn
<1> QED BY <1>5, <1>6, <1>7, <1>8, <1>9, <1>10
-----------------------------------------------------------------------------
(* Highest and lowest values. *)

Percentages == Nat \cup {Unknown}

\* x is the highest of V; x is the lowest of V that is known.
IsTop(x, V)    == x \in V /\ \A v \in V : v <= x
IsBottom(x, V) == IF V \ {Unknown} = {} THEN x = Unknown
                  ELSE x \in V \ {Unknown} /\ \A v \in V \ {Unknown} : x <= v

LEMMA HighestTop ==
  ASSUME NEW I, IsFiniteSet(I), NEW column, \A i \in I : column[i] \in Percentages,
         NEW low \in Percentages
  PROVE  /\ IsTop(Highest(column, I, low), {column[i] : i \in I} \cup {low})
         /\ Highest(column, I, low) \in Percentages
<1> DEFINE V == {column[i] : i \in I}
           W == V \cup {low}
<1>1. IsFiniteSet(V)
  BY ImageFinite
<1>2. W \subseteq Percentages /\ W # {}
  OBVIOUS
<1>3. Highest(column, I, low) = Max(W)
  BY DEF Highest
<1>4. IsFiniteSet(W)
  <2> HIDE DEF V
  <2> QED BY <1>1, FS_AddElement
<1> HIDE DEF V, W
<1>5. W \in SUBSET Int
  BY <1>2 DEF Percentages, Unknown
<1>6. Max(W) \in W /\ \A x \in W : x <= Max(W)
  BY <1>2, <1>4, <1>5, HighestIn
<1>7. IsTop(Max(W), W)
  BY <1>6 DEF IsTop
<1> QED BY <1>2, <1>3, <1>6, <1>7 DEF W, V

LEMMA LowestBottom ==
  ASSUME NEW V \in SUBSET Percentages, IsFiniteSet(V)
  PROVE  IsBottom(Lowest(V), V) /\ Lowest(V) \in Percentages
<1> DEFINE W == V \ {Unknown}
<1>1. W \in SUBSET Nat /\ IsFiniteSet(W)
  <2>1. W \in SUBSET V /\ W \in SUBSET Nat
    BY DEF Percentages
  <2> HIDE DEF W
  <2> QED BY <2>1, FS_Subset
<1>2. CASE W = {}
  BY <1>2 DEF IsBottom, Lowest, Percentages
<1>3. CASE W # {}
  <2>1. W \in SUBSET Int
    BY <1>1
  <2>2. Lowest(V) = Min(W)
    BY <1>3 DEF Lowest
  <2> HIDE DEF W
  <2>3. Min(W) \in W /\ \A x \in W : Min(W) <= x
    BY <1>1, <1>3, <2>1, LowestIn
  <2>4. Lowest(V) \in W /\ \A x \in W : Lowest(V) <= x
    BY <2>2, <2>3
  <2> QED BY <1>1, <1>3, <2>4 DEF IsBottom, Percentages, W
<1> QED BY <1>2, <1>3

LEMMA OneTop ==
  ASSUME NEW V \in SUBSET Percentages, NEW x, NEW y, IsTop(x, V), IsTop(y, V) PROVE x = y
<1>1. x \in Int /\ y \in Int /\ x <= y /\ y <= x
  BY DEF IsTop, Percentages, Unknown
<1> QED BY <1>1

LEMMA OneBottom ==
  ASSUME NEW V \in SUBSET Percentages, NEW x, NEW y, IsBottom(x, V), IsBottom(y, V) PROVE x = y
<1>1. CASE V \ {Unknown} = {}
  BY <1>1 DEF IsBottom
<1>2. CASE V \ {Unknown} # {}
  <2>1. x \in Nat /\ y \in Nat /\ x <= y /\ y <= x
    BY <1>2 DEF IsBottom, Percentages
  <2> QED BY <2>1
<1> QED BY <1>1, <1>2

-----------------------------------------------------------------------------
(* Types. *)

LEMMA Columns ==
  ASSUME DataInv, NEW n \in Answered, NEW m, m = state[n].mounts
  PROVE  /\ Len(m) \in Nat /\ DOMAIN m = 1 .. Len(m)
         /\ DOMAIN MountKeys(n, m) = 1 .. Len(m)
         /\ \A i \in DOMAIN m : /\ Used(m)[i] \in Nat /\ Size(m)[i] \in Nat
                                /\ Avail(m)[i] \in Nat /\ Pct(m)[i] \in Percentages
                                /\ m[i] \in Mount
<1>1. m \in Seq(Mount)
  BY DictionaryRows
<1>2. ASSUME NEW i \in DOMAIN m
      PROVE  /\ Number(m[i], "used_1k") \in Nat /\ Number(m[i], "blocks_1k") \in Nat
             /\ Number(m[i], "avail_1k") \in Nat
             /\ NumberOr(m[i], "pcent", Unknown) \in Percentages
  <2>1. m[i] \in Mount
    BY <1>1
  <2>2. /\ m[i].used_1k \in Nat \cup {NA} /\ m[i].blocks_1k \in Nat \cup {NA}
        /\ m[i].avail_1k \in Nat \cup {NA} /\ m[i].pcent \in Nat \cup {NA}
    BY <2>1 DEF Mount
  <2> QED BY <2>2 DEF Number, NumberOr, Percentages
<1> QED BY <1>1, <1>2 DEF Used, Size, Avail, Pct, MountKeys

LEMMA TargetColumns ==
  ASSUME DataInv, NEW n \in Answered
  PROVE  /\ LET b == BeegfsRows(state[n])
            IN  /\ Len(b) \in Nat /\ DOMAIN b = 1 .. Len(b) /\ DOMAIN Free(b) = 1 .. Len(b)
                /\ DOMAIN BeegfsKeys(b) = 1 .. Len(b)
                /\ \A i \in DOMAIN b : Free(b)[i] \in Nat
         /\ LET l == LustreRows(state[n])
            IN  /\ Len(l) \in Nat /\ DOMAIN l = 1 .. Len(l) /\ DOMAIN Use(l) = 1 .. Len(l)
                /\ DOMAIN LustreKeys(l) = 1 .. Len(l)
                /\ \A i \in DOMAIN l : Use(l)[i] \in Nat
<1> DEFINE b == BeegfsRows(state[n])
           l == LustreRows(state[n])
<1>1. b \in Seq(BeegfsTarget) /\ l \in Seq(LustreTarget)
  BY DictionaryRows
<1> HIDE DEF b, l
<1>2. (\A i \in DOMAIN b : b[i].free_pct \in Nat) /\ (\A i \in DOMAIN l : l[i].use_pct \in Nat)
  <2>1. (\A i \in DOMAIN b : b[i] \in BeegfsTarget) /\ (\A i \in DOMAIN l : l[i] \in LustreTarget)
    BY <1>1
  <2>2. \A r \in BeegfsTarget : r.free_pct \in Nat
    BY DEF BeegfsTarget
  <2>3. \A r \in LustreTarget : r.use_pct \in Nat
    BY DEF LustreTarget
  <2> QED BY <2>1, <2>2, <2>3
<1>3. /\ Len(b) \in Nat /\ DOMAIN b = 1 .. Len(b) /\ DOMAIN Free(b) = 1 .. Len(b)
      /\ DOMAIN BeegfsKeys(b) = 1 .. Len(b)
      /\ \A i \in DOMAIN b : Free(b)[i] \in Nat
  BY <1>1, <1>2 DEF Free, BeegfsKeys
<1>4. /\ Len(l) \in Nat /\ DOMAIN l = 1 .. Len(l) /\ DOMAIN Use(l) = 1 .. Len(l)
      /\ DOMAIN LustreKeys(l) = 1 .. Len(l)
      /\ \A i \in DOMAIN l : Use(l)[i] \in Nat
  BY <1>1, <1>2 DEF Use, LustreKeys
<1> QED BY <1>3, <1>4 DEF b, l

\* The places that a pass adds are finitely many, and a sum over them is one of
\* natural numbers.
LEMMA NewPlaces ==
  ASSUME NEW keys, NEW N \in Nat, DOMAIN keys = 1 .. N, NEW S
  PROVE  /\ New(keys, S) \in SUBSET (1 .. N)
         /\ IsFiniteSet(New(keys, S)) /\ Cardinality(New(keys, S)) \in Nat
         /\ \A column : (\A i \in 1 .. N : column[i] \in Nat)
                          => SumAt(column, New(keys, S)) \in Nat
<1> DEFINE I == New(keys, S)
<1>1. I \in SUBSET (1 .. N)
  BY DEF New
<1>2. IsFiniteSet(I)
  BY NewOnce
<1> HIDE DEF I
<1>3. \A column : (\A i \in 1 .. N : column[i] \in Nat) => SumAt(column, I) \in Nat
  <2> SUFFICES ASSUME NEW column, \A i \in 1 .. N : column[i] \in Nat
               PROVE  SumAt(column, I) \in Nat
    OBVIOUS
  <2> QED BY <1>1, <1>2, SumNat
<1> QED BY <1>1, <1>2, <1>3, FS_CardinalityType DEF I

LEMMA RowType ==
  ASSUME DataInv, NEW n \in Answered
  PROVE  /\ DOMAIN Row(n) = COLUMNS.stg
         /\ \A k \in DOMAIN Row(n) : Row(n)[k] \in Percentages
         /\ Row(n).mounts \in Nat /\ Row(n).size_gb \in Nat /\ Row(n).used_gb \in Nat
         /\ Row(n).avail_gb \in Nat /\ Row(n).use_pct \in Nat
<1> DEFINE m   == state[n].mounts
           own == New(MountKeys(n, m), {})
           b   == BeegfsRows(state[n])
           l   == LustreRows(state[n])
<1>1. /\ Len(m) \in Nat /\ DOMAIN m = 1 .. Len(m)
      /\ DOMAIN MountKeys(n, m) = 1 .. Len(m)
      /\ \A i \in DOMAIN m : /\ Used(m)[i] \in Nat /\ Size(m)[i] \in Nat
                             /\ Avail(m)[i] \in Nat /\ Pct(m)[i] \in Percentages
  BY Columns
<1>2. /\ Len(b) \in Nat /\ DOMAIN b = 1 .. Len(b) /\ DOMAIN Free(b) = 1 .. Len(b)
      /\ \A i \in DOMAIN b : Free(b)[i] \in Nat
      /\ Len(l) \in Nat /\ DOMAIN l = 1 .. Len(l)
      /\ \A i \in DOMAIN l : Use(l)[i] \in Nat
  BY TargetColumns
<1>3. /\ own \in SUBSET DOMAIN m /\ IsFiniteSet(own) /\ Cardinality(own) \in Nat
      /\ SumAt(Used(m), own) \in Nat /\ SumAt(Size(m), own) \in Nat /\ SumAt(Avail(m), own) \in Nat
  <2> DEFINE key == MountKeys(n, m)
  <2> HIDE DEF m, key
  <2>1. DOMAIN key = 1 .. Len(m)
    BY <1>1 DEF key
  <2>2. /\ New(key, {}) \in SUBSET (1 .. Len(m))
        /\ IsFiniteSet(New(key, {})) /\ Cardinality(New(key, {})) \in Nat
        /\ \A column : (\A i \in 1 .. Len(m) : column[i] \in Nat)
                         => SumAt(column, New(key, {})) \in Nat
    BY <1>1, <2>1, NewPlaces
  <2>3. own = New(key, {})
    BY DEF key
  <2> HIDE DEF own
  <2> QED BY <1>1, <2>2, <2>3
<1>4. Highest(Pct(m), own, Unknown) \in Percentages
  <2>1. Unknown \in Percentages /\ \A i \in own : Pct(m)[i] \in Percentages
    BY <1>1, <1>3 DEF Percentages
  <2> HIDE DEF m, own
  <2> QED BY <1>3, <2>1, HighestTop
<1>5. Lowest(Range(Free(b))) \in Percentages
  <2> HIDE DEF b
  <2>1. Range(Free(b)) \in SUBSET Percentages
    BY <1>2 DEF Range, Percentages
  <2>2. IsFiniteSet(Range(Free(b)))
    <3> DEFINE c == Free(b)
    <3>1. IsFiniteSet(DOMAIN c)
      BY <1>2, FS_Interval
    <3> HIDE DEF c
    <3>2. IsFiniteSet(Range(c))
      BY <3>1, ImageFinite DEF Range
    <3> QED BY <3>2 DEF c
  <2> QED BY <2>1, <2>2, LowestBottom
<1>6. Highest(Use(l), DOMAIN l, Unknown) \in Percentages
  <2> HIDE DEF l
  <2>1. Unknown \in Percentages /\ \A i \in DOMAIN l : Use(l)[i] \in Percentages
    BY <1>2 DEF Percentages
  <2>2. IsFiniteSet(DOMAIN l)
    BY <1>2, FS_Interval
  <2> QED BY <2>1, <2>2, HighestTop
<1>7. Percent(SumAt(Used(m), own), SumAt(Size(m), own)) \in Nat
  BY <1>3, PercentNat
<1> DEFINE used == SumAt(Used(m), own)
           size == SumAt(Size(m), own)
           avail == SumAt(Avail(m), own)
           pct   == Percent(SumAt(Used(m), own), SumAt(Size(m), own))
           worst == Highest(Pct(m), own, Unknown)
           free  == Lowest(Range(Free(b)))
           use   == Highest(Use(l), DOMAIN l, Unknown)
           count == Cardinality(own)
<1>8. Row(n) = [mounts |-> count, size_gb |-> size, used_gb |-> used, avail_gb |-> avail,
                use_pct |-> pct, worst_pct |-> worst, beegfs_targets |-> Len(b),
                beegfs_free_pct_min |-> free, lustre_targets |-> Len(l),
                lustre_use_pct_max |-> use]
  BY DEF Row
<1>9. /\ used \in Nat /\ size \in Nat /\ avail \in Nat /\ pct \in Nat /\ count \in Nat
      /\ Len(b) \in Nat /\ Len(l) \in Nat
      /\ worst \in Percentages /\ free \in Percentages /\ use \in Percentages
  BY <1>2, <1>3, <1>4, <1>5, <1>6, <1>7
<1> HIDE DEF used, size, avail, pct, count, worst, free, use, b, l
<1> QED BY <1>8, <1>9 DEF COLUMNS, Percentages

\* What a turn of the loop takes from node n: the keys of its listings, and the
\* places with a key that is new to the node or to the cluster.
Key(n)    == MountKeys(n, state[n].mounts)
Own(n)    == New(Key(n), {})
Fresh(n)  == New(Key(n), seen)
BKey(n)   == BeegfsKeys(BeegfsRows(state[n]))
BFresh(n) == New(BKey(n), beegfs.seen)
BFree(n)  == Free(BeegfsRows(state[n]))
LKey(n)   == LustreKeys(LustreRows(state[n]))
LFresh(n) == New(LKey(n), lustre.seen)
LUse(n)   == Use(LustreRows(state[n]))

LEMMA TakeFacts ==
  ASSUME NEW n \in Node, Take(n)
  PROVE  /\ n \in left /\ left' = left \ {n}
         /\ nodes' = [x \in Taken \cup {n} |-> IF x = n THEN Row(n) ELSE nodes[x]]
         /\ Taken' = Taken \cup {n}
         /\ seen' = seen \cup Range(Restrict(Key(n), Fresh(n)))
         /\ total' = [mounts |-> total'.mounts, size |-> total'.size, used |-> total'.used,
                      avail |-> total'.avail, worst |-> total'.worst]
         /\ total'.mounts = total.mounts + Cardinality(Fresh(n))
         /\ total'.size = total.size + SumAt(Size(state[n].mounts), Fresh(n))
         /\ total'.used = total.used + SumAt(Used(state[n].mounts), Fresh(n))
         /\ total'.avail = total.avail + SumAt(Avail(state[n].mounts), Fresh(n))
         /\ total'.worst = Highest(Pct(state[n].mounts), Fresh(n), total.worst)
         /\ shared' = shared + Cardinality({i \in Own(n) \ Fresh(n) : Shared(state[n].mounts[i])})
         /\ beegfs'.seen = beegfs.seen \cup Range(BKey(n))
         /\ beegfs'.free = Lowest(Range(Restrict(BFree(n), BFresh(n))) \cup {beegfs.free})
         /\ lustre'.seen = lustre.seen \cup Range(LKey(n))
         /\ lustre'.use = Highest(LUse(n), LFresh(n), lustre.use)
         /\ output' = output /\ state' = state
<1>1. {i \in Own(n) : Key(n)[i] \notin seen} = Fresh(n)
  BY DEF Own, Fresh, New
<1>2. nodes' = [x \in Taken \cup {n} |-> IF x = n THEN Row(n) ELSE nodes[x]]
  BY DEF Take, Taken
<1>3. /\ beegfs'.seen = beegfs.seen \cup Range(BKey(n))
      /\ beegfs'.free = Lowest(Range(Restrict(BFree(n), BFresh(n))) \cup {beegfs.free})
  <2> DEFINE S == beegfs.seen \cup Range(BKey(n))
             f == Lowest(Range(Restrict(BFree(n), BFresh(n))) \cup {beegfs.free})
  <2>1. beegfs' = [seen |-> S, free |-> f]
    BY DEF Take, BKey, BFresh, BFree
  <2> HIDE DEF S, f
  <2>2. beegfs'.seen = S /\ beegfs'.free = f
    BY <2>1
  <2> QED BY <2>2 DEF S, f
<1>4. /\ lustre'.seen = lustre.seen \cup Range(LKey(n))
      /\ lustre'.use = Highest(LUse(n), LFresh(n), lustre.use)
  <2> DEFINE S == lustre.seen \cup Range(LKey(n))
             u == Highest(LUse(n), LFresh(n), lustre.use)
  <2>1. lustre' = [seen |-> S, use |-> u]
    BY DEF Take, LKey, LFresh, LUse
  <2> HIDE DEF S, u
  <2>2. lustre'.seen = S /\ lustre'.use = u
    BY <2>1
  <2> QED BY <2>2 DEF S, u
<1>5. /\ total' = [mounts |-> total'.mounts, size |-> total'.size, used |-> total'.used,
                   avail |-> total'.avail, worst |-> total'.worst]
      /\ total'.mounts = total.mounts + Cardinality(Fresh(n))
      /\ total'.size = total.size + SumAt(Size(state[n].mounts), Fresh(n))
      /\ total'.used = total.used + SumAt(Used(state[n].mounts), Fresh(n))
      /\ total'.avail = total.avail + SumAt(Avail(state[n].mounts), Fresh(n))
      /\ total'.worst = Highest(Pct(state[n].mounts), Fresh(n), total.worst)
  <2> DEFINE c == total.mounts + Cardinality(Fresh(n))
             s == total.size + SumAt(Size(state[n].mounts), Fresh(n))
             u == total.used + SumAt(Used(state[n].mounts), Fresh(n))
             a == total.avail + SumAt(Avail(state[n].mounts), Fresh(n))
             w == Highest(Pct(state[n].mounts), Fresh(n), total.worst)
  <2>1. total' = [mounts |-> c, size |-> s, used |-> u, avail |-> a, worst |-> w]
    BY <1>1 DEF Take, Key, Own
  <2> HIDE DEF c, s, u, a, w
  <2>2. /\ total'.mounts = c /\ total'.size = s /\ total'.used = u /\ total'.avail = a
        /\ total'.worst = w
    BY <2>1
  <2> QED BY <2>1, <2>2 DEF c, s, u, a, w
<1> QED BY <1>1, <1>2, <1>3, <1>4, <1>5 DEF Take, Taken, Key, Own

\* The types, and that a node's row stays as it was made.
TypeInv == /\ CountInv
           /\ left \cap Taken = {}
           /\ \A n \in Taken : nodes[n] = Row(n)
           /\ total \in [mounts : Nat, size : Nat, used : Nat, avail : Nat, worst : Percentages]
           /\ shared \in Nat
           /\ beegfs.free \in Percentages /\ lustre.use \in Percentages

LEMMA InitType == Init => TypeInv
<1> SUFFICES ASSUME Init PROVE TypeInv
  OBVIOUS
<1>1. CountInv
  BY InitCount
<1>2. Taken = {}
  BY DEF Init, Taken
<1>3. /\ total \in [mounts : Nat, size : Nat, used : Nat, avail : Nat, worst : Percentages]
      /\ shared \in Nat /\ beegfs.free \in Percentages /\ lustre.use \in Percentages
  BY DEF Init, Percentages
<1> QED BY <1>1, <1>2, <1>3 DEF TypeInv

LEMMA TakeType ==
  ASSUME TypeInv, NEW n \in Node, Take(n) PROVE TypeInv'
<1> DEFINE m == state[n].mounts
<1>1. CountInv' /\ DataInv /\ n \in Answered
  <2>1. CountInv /\ n \in left
    BY TakeFacts DEF TypeInv
  <2> QED BY <2>1, TakeCount DEF CountInv
<1>2. /\ Len(m) \in Nat /\ DOMAIN Key(n) = 1 .. Len(m)
      /\ \A i \in 1 .. Len(m) : /\ Used(m)[i] \in Nat /\ Size(m)[i] \in Nat
                                /\ Avail(m)[i] \in Nat /\ Pct(m)[i] \in Percentages
  BY <1>1, Columns DEF Key
<1> HIDE DEF m
<1>3. /\ Fresh(n) \in SUBSET (1 .. Len(m)) /\ Own(n) \in SUBSET (1 .. Len(m))
      /\ IsFiniteSet(Fresh(n)) /\ Cardinality(Fresh(n)) \in Nat
      /\ IsFiniteSet(Own(n)) /\ Cardinality(Own(n)) \in Nat
      /\ SumAt(Used(m), Fresh(n)) \in Nat /\ SumAt(Size(m), Fresh(n)) \in Nat
      /\ SumAt(Avail(m), Fresh(n)) \in Nat
  BY <1>2, NewPlaces DEF Fresh, Own
<1>4. \A x \in Taken' : nodes'[x] = Row(x)'
  <2>1. \A x : Row(x)' = Row(x)
    <3>1. state' = state
      BY TakeFacts
    <3> QED BY <3>1 DEF Row, MountKeys, MountKey
  <2>2. /\ nodes' = [x \in Taken \cup {n} |-> IF x = n THEN Row(n) ELSE nodes[x]]
        /\ Taken' = Taken \cup {n}
    BY TakeFacts
  <2> QED BY <2>1, <2>2 DEF TypeInv
<1>5. left' \cap Taken' = {}
  BY TakeFacts DEF TypeInv
<1>6. total' \in [mounts : Nat, size : Nat, used : Nat, avail : Nat, worst : Percentages]
  <2> DEFINE c == Cardinality(Fresh(n))
             s == SumAt(Size(m), Fresh(n))
             u == SumAt(Used(m), Fresh(n))
             a == SumAt(Avail(m), Fresh(n))
             w == Highest(Pct(m), Fresh(n), total.worst)
  <2>1. w \in Percentages
    <3>1. total.worst \in Percentages /\ \A i \in Fresh(n) : Pct(m)[i] \in Percentages
      BY <1>2, <1>3 DEF TypeInv
    <3> QED BY <1>3, <3>1, HighestTop
  <2>2. c \in Nat /\ s \in Nat /\ u \in Nat /\ a \in Nat
    BY <1>3
  <2>3. /\ total' = [mounts |-> total'.mounts, size |-> total'.size, used |-> total'.used,
                     avail |-> total'.avail, worst |-> total'.worst]
        /\ total'.mounts = total.mounts + c /\ total'.size = total.size + s
        /\ total'.used = total.used + u /\ total'.avail = total.avail + a /\ total'.worst = w
    BY TakeFacts DEF m
  <2> HIDE DEF c, s, u, a, w
  <2> QED BY <2>1, <2>2, <2>3 DEF TypeInv
<1>7. shared' \in Nat
  <2> DEFINE S == {i \in Own(n) \ Fresh(n) : Shared(state[n].mounts[i])}
  <2>1. S \in SUBSET Own(n)
    OBVIOUS
  <2>2. shared' = shared + Cardinality(S)
    BY TakeFacts
  <2> HIDE DEF S
  <2>3. Cardinality(S) \in Nat
    BY <1>3, <2>1, FS_Subset, FS_CardinalityType
  <2> QED BY <2>2, <2>3 DEF TypeInv
<1>8. beegfs'.free \in Percentages
  <2> DEFINE r == Restrict(BFree(n), BFresh(n))
  <2>1. beegfs'.free = Lowest(Range(r) \cup {beegfs.free})
    BY TakeFacts
  <2>2. IsFiniteSet(BFresh(n)) /\ \A i \in BFresh(n) : BFree(n)[i] \in Nat
    <3>1. /\ Len(BeegfsRows(state[n])) \in Nat /\ DOMAIN BKey(n) = 1 .. Len(BeegfsRows(state[n]))
          /\ \A i \in 1 .. Len(BeegfsRows(state[n])) : BFree(n)[i] \in Nat
      BY <1>1, TargetColumns DEF BKey, BFree
    <3>2. BFresh(n) \in SUBSET DOMAIN BKey(n)
      BY DEF BFresh, New
    <3> QED BY <3>1, <3>2, NewPlaces DEF BFresh
  <2>3. Range(r) = {BFree(n)[i] : i \in BFresh(n)}
    BY DEF Restrict, Range
  <2>4. IsFiniteSet(Range(r)) /\ Range(r) \in SUBSET Percentages
    BY <2>2, <2>3, ImageFinite DEF Percentages
  <2> DEFINE V == Range(r) \cup {beegfs.free}
  <2> HIDE DEF r
  <2>5. IsFiniteSet(V) /\ V \in SUBSET Percentages
    BY <2>4, FS_AddElement DEF TypeInv
  <2> HIDE DEF V
  <2>6. Lowest(V) \in Percentages
    BY <2>5, LowestBottom
  <2> QED BY <2>1, <2>6 DEF V
<1>9. lustre'.use \in Percentages
  <2>1. IsFiniteSet(LFresh(n)) /\ \A i \in LFresh(n) : LUse(n)[i] \in Percentages
    <3>1. /\ Len(LustreRows(state[n])) \in Nat /\ DOMAIN LKey(n) = 1 .. Len(LustreRows(state[n]))
          /\ \A i \in 1 .. Len(LustreRows(state[n])) : LUse(n)[i] \in Nat
      BY <1>1, TargetColumns DEF LKey, LUse
    <3>2. LFresh(n) \in SUBSET DOMAIN LKey(n)
      BY DEF LFresh, New
    <3> QED BY <3>1, <3>2, NewPlaces DEF LFresh, Percentages
  <2>2. Highest(LUse(n), LFresh(n), lustre.use) \in Percentages
    BY <2>1, HighestTop DEF TypeInv
  <2> QED BY <2>2, TakeFacts
<1> QED BY <1>1, <1>4, <1>5, <1>6, <1>7, <1>8, <1>9 DEF TypeInv

LEMMA StutterType == ASSUME TypeInv, UNCHANGED vars PROVE TypeInv'
<1>1. UNCHANGED <<output, state, left, nodes, seen, total, shared, beegfs, lustre>>
  BY DEF vars
<1>2. \A n : Keys(n)' = Keys(n) /\ Row(n)' = Row(n)
  BY <1>1 DEF Keys, MountKeys, MountKey, Row
<1>3. Taken' = Taken /\ Answered' = Answered /\ DataInv'
  BY <1>1 DEF Taken, Answered, TypeInv, CountInv, DataInv
<1> QED BY <1>1, <1>2, <1>3 DEF TypeInv, CountInv

\* Rows, totals and minima have their types after any number of nodes: the
\* percentages are natural numbers or the sentinel, sizes and counts natural.
THEOREM WellTyped == Spec => []TypeOK
<1>1. TypeInv /\ [Next]_vars => TypeInv'
  BY TakeType, StutterType DEF Next, Over
<1>2. TypeInv => TypeOK
  <2> SUFFICES ASSUME TypeInv PROVE TypeOK
    OBVIOUS
  <2>1. output \in [Node -> Outputs \cup {Failed}] /\ state = [n \in Node |-> PollNode(output[n])]
    BY DEF TypeInv, CountInv, DataInv
  <2>2. left \subseteq Node
    BY DEF TypeInv, CountInv, Answered
  <2>3. ASSUME NEW row \in Range(nodes)
        PROVE  /\ DOMAIN row = COLUMNS.stg
               /\ Range(row) \subseteq Nat \cup {Unknown}
               /\ \A k \in {"size_gb", "used_gb", "avail_gb", "use_pct"} : row[k] \in Nat
    <3>1. PICK n \in Taken : row = nodes[n]
      BY DEF Taken, Range
    <3>2. n \in Answered /\ row = Row(n) /\ DataInv
      BY <3>1 DEF TypeInv, CountInv
    <3>3. /\ DOMAIN row = COLUMNS.stg /\ \A k \in DOMAIN row : row[k] \in Percentages
          /\ row.size_gb \in Nat /\ row.used_gb \in Nat
          /\ row.avail_gb \in Nat /\ row.use_pct \in Nat
      BY <3>2, RowType
    <3> QED BY <3>3 DEF Range, Percentages
  <2> QED BY <2>1, <2>2, <2>3 DEF TypeInv, TypeOK, Percentages
<1> QED BY <1>1, <1>2, InitType, PTL DEF Spec

LEMMA TypeInvariant == Spec => []TypeInv
<1>1. TypeInv /\ [Next]_vars => TypeInv'
  BY TakeType, StutterType DEF Next, Over
<1> QED BY <1>1, InitType, PTL DEF Spec
-----------------------------------------------------------------------------
(* The targets counted, and the tables. *)

\* The targets the cluster has seen are those of the nodes taken.
SeenInv == /\ TypeInv
           /\ IsFiniteSet(beegfs.seen) /\ beegfs.seen = UNION {Range(BKey(n)) : n \in Taken}
           /\ IsFiniteSet(lustre.seen) /\ lustre.seen = UNION {Range(LKey(n)) : n \in Taken}

LEMMA InitSeen == Init => SeenInv
<1> SUFFICES ASSUME Init PROVE SeenInv
  OBVIOUS
<1>1. Taken = {} /\ beegfs.seen = {} /\ lustre.seen = {}
  BY DEF Init, Taken
<1> QED BY <1>1, InitType, FS_EmptySet DEF SeenInv

LEMMA TakeSeen ==
  ASSUME SeenInv, NEW n \in Node, Take(n) PROVE SeenInv'
<1>1. TypeInv' /\ DataInv /\ n \in Answered
  <2>1. TypeInv /\ n \in left
    BY TakeFacts DEF SeenInv
  <2> QED BY <2>1, TakeType DEF TypeInv, CountInv
<1>2. (\A x : BKey(x)' = BKey(x)) /\ (\A x : LKey(x)' = LKey(x))
  BY TakeFacts DEF BKey, LKey
<1>3. IsFiniteSet(Range(BKey(n))) /\ IsFiniteSet(Range(LKey(n)))
  <2>1. /\ Len(BeegfsRows(state[n])) \in Nat /\ DOMAIN BKey(n) = 1 .. Len(BeegfsRows(state[n]))
        /\ Len(LustreRows(state[n])) \in Nat /\ DOMAIN LKey(n) = 1 .. Len(LustreRows(state[n]))
    BY <1>1, TargetColumns DEF BKey, LKey
  <2> QED BY <2>1, NewOnce
<1>4. /\ Taken' = Taken \cup {n}
      /\ beegfs'.seen = beegfs.seen \cup Range(BKey(n))
      /\ lustre'.seen = lustre.seen \cup Range(LKey(n))
  BY TakeFacts
<1>5. IsFiniteSet(beegfs'.seen) /\ IsFiniteSet(lustre'.seen)
  <2>1. \A A, B : IsFiniteSet(A) /\ IsFiniteSet(B) => IsFiniteSet(A \cup B)
    BY FS_Union
  <2>2. IsFiniteSet(beegfs.seen \cup Range(BKey(n))) /\ IsFiniteSet(lustre.seen \cup Range(LKey(n)))
    BY <1>3, <2>1 DEF SeenInv
  <2> QED BY <1>4, <2>2
<1>6. beegfs'.seen = UNION {Range(BKey(x)') : x \in Taken'}
  BY <1>2, <1>4 DEF SeenInv
<1>7. lustre'.seen = UNION {Range(LKey(x)') : x \in Taken'}
  BY <1>2, <1>4 DEF SeenInv
<1> QED BY <1>1, <1>5, <1>6, <1>7 DEF SeenInv

LEMMA StutterSeen == ASSUME SeenInv, UNCHANGED vars PROVE SeenInv'
<1>1. UNCHANGED <<output, state, left, nodes, seen, total, shared, beegfs, lustre>>
  BY DEF vars
<1>2. \A n : BKey(n)' = BKey(n) /\ LKey(n)' = LKey(n)
  BY <1>1 DEF BKey, LKey
<1>3. TypeInv'
  BY StutterType DEF SeenInv
<1>4. Taken' = Taken
  BY <1>1 DEF Taken
<1> QED BY <1>1, <1>2, <1>3, <1>4 DEF SeenInv

LEMMA SeenInvariant == Spec => []SeenInv
<1>1. SeenInv /\ [Next]_vars => SeenInv'
  BY TakeSeen, StutterSeen DEF Next, Over
<1> QED BY <1>1, InitSeen, PTL DEF Spec

\* No column of the -t table is blank and every metric has its cluster sample,
\* whatever the nodes print, also when no node answers.
THEOREM TablesAlwaysFit == Spec => []TablesFit
<1>1. SeenInv => TablesFit
  <2> SUFFICES ASSUME SeenInv PROVE TablesFit
    OBVIOUS
  <2>1. Blank \notin Percentages
    BY DEF Blank, Percentages, Unknown
  <2>2. ASSUME NEW row \in Range(nodes)
        PROVE  COLUMNS["stg"] \subseteq DOMAIN row /\ \A k \in COLUMNS["stg"] : row[k] # Blank
    <3>1. PICK n \in Taken : row = nodes[n]
      BY DEF Taken, Range
    <3>2. n \in Answered /\ row = Row(n) /\ DataInv
      BY <3>1 DEF SeenInv, TypeInv, CountInv
    <3>3. DOMAIN row = COLUMNS.stg /\ \A k \in DOMAIN row : row[k] \in Percentages
      BY <3>2, RowType
    <3> QED BY <2>1, <3>3
  <2>3. /\ DOMAIN Cluster = SUMMARY_METRICS["stg"]
        /\ \A k \in COLUMNS["stg"] : Cluster[k] # Blank
    <3> DEFINE b == Cardinality(beegfs.seen)
               l == Cardinality(lustre.seen)
               p == Percent(total.used, total.size)
    <3>1. /\ total.mounts \in Nat /\ total.size \in Nat /\ total.used \in Nat
          /\ total.avail \in Nat /\ total.worst \in Percentages
          /\ beegfs.free \in Percentages /\ lustre.use \in Percentages
      BY DEF SeenInv, TypeInv
    <3>2. b \in Nat /\ l \in Nat /\ p \in Nat
      BY <3>1, FS_CardinalityType, PercentNat DEF SeenInv
    <3>3. Cluster = [mounts |-> total.mounts, size_gb |-> total.size, used_gb |-> total.used,
                     avail_gb |-> total.avail, use_pct |-> p, worst_pct |-> total.worst,
                     beegfs_targets |-> b, beegfs_free_pct_min |-> beegfs.free,
                     lustre_targets |-> l, lustre_use_pct_max |-> lustre.use,
                     shared_mounts_deduped |-> shared]
      BY DEF Cluster
    <3> HIDE DEF b, l, p
    <3>4. DOMAIN Cluster = SUMMARY_METRICS["stg"]
      BY <3>3 DEF SUMMARY_METRICS
    <3>5. \A k \in COLUMNS["stg"] : Cluster[k] \in Percentages
      BY <3>1, <3>2, <3>3 DEF COLUMNS, Percentages
    <3> QED BY <2>1, <3>4, <3>5
  <2>4. COLUMNS["stg"] \subseteq SUMMARY_METRICS["stg"]
    BY ColumnsHaveMetrics DEF Commands
  <2>5. \A row \in Range(nodes) \cup {Cluster} :
          COLUMNS["stg"] \subseteq DOMAIN row /\ \A k \in COLUMNS["stg"] : row[k] # Blank
    BY <2>2, <2>3, <2>4
  <2> QED BY <2>3, <2>5, RowsFit DEF TablesFit, Commands
<1> QED BY <1>1, SeenInvariant, PTL

-----------------------------------------------------------------------------
(* The series. *)

\* The Lustre targets of a dictionary differ in their names.
LEMMA LustreOnce ==
  ASSUME DataInv, NEW n \in Answered, NEW i \in Targets(state[n]), NEW j \in Targets(state[n]),
         state[n].lustre[i].target = state[n].lustre[j].target
  PROVE  i = j
<1> DEFINE lfs == output[n].lfs
           K   == KeptLustre(lfs)
           l   == state[n].lustre
<1>1. /\ l = Pick(lfs, K) /\ lfs \in Seq(Range(lfs)) /\ K \in SUBSET DOMAIN lfs
      /\ i \in DOMAIN l /\ j \in DOMAIN l
      /\ "target" \in DOMAIN l[i] /\ "target" \in DOMAIN l[j]
  BY LustreListing DEF Targets
<1>2. \A k \in DOMAIN lfs : lfs[k] \in LustreLine
  BY AnsweredData, LinesOf
<1>3. \A r \in LustreTarget : ~ Unparsed(r)
  BY DEF LustreTarget, Unparsed
<1> HIDE DEF lfs, l
<1>4. /\ Nth(K, i) \in K /\ l[i] = lfs[Nth(K, i)]
      /\ Nth(K, j) \in K /\ l[j] = lfs[Nth(K, j)]
      /\ Rank(K, Nth(K, i)) = i /\ Rank(K, Nth(K, j)) = j
  <2> HIDE DEF K
  <2> QED BY <1>1, PickPlaces
<1> DEFINE p == Nth(K, i)
           q == Nth(K, j)
<1>5. /\ p \in DOMAIN lfs /\ q \in DOMAIN lfs
      /\ ~ Unparsed(lfs[p]) /\ ~ Unparsed(lfs[q])
      /\ LustreKey(lfs[p]) = LustreKey(lfs[q])
  <2>1. p \in DOMAIN lfs /\ q \in DOMAIN lfs
    BY <1>1, <1>4
  <2>2. lfs[p] \in LustreTarget /\ lfs[q] \in LustreTarget
    BY <1>1, <1>2, <1>4, <2>1, TargetLines
  <2>3. LustreKey(lfs[p]) = LustreKey(lfs[q])
    BY <1>1, <1>4 DEF LustreKey, l
  <2> QED BY <1>3, <2>1, <2>2, <2>3
<1>6. p = q
  <2>1. PICK m \in K : \A x \in K : ~ Unparsed(lfs[x]) /\ LustreKey(lfs[x]) = LustreKey(lfs[p]) => x = m
    <3> HIDE DEF K, p, q
    <3> QED BY <1>1, <1>5, KeptOnce DEF K
  <2> QED BY <1>4, <1>5, <2>1
<1> QED BY <1>4, <1>6

\* The keys of the storage metrics, and which lines have them.
LEMMA StorageMetrics ==
  \A m \in DOMAIN METRICS["stg"] : METRICS["stg"][m] \in {"pcent", "avail_1k", "free_pct", "use_pct"}
BY DEF METRICS

LEMMA LineKeys ==
  /\ \A r \in Mount : /\ "mountpoint" \in DOMAIN r
                      /\ DOMAIN r \cap {"free_pct", "use_pct", "target_id", "target"} = {}
  /\ \A r \in BeegfsLine : /\ DOMAIN r \cap {"mountpoint", "pcent", "avail_1k", "use_pct", "target"} = {}
                           /\ "free_pct" \in DOMAIN r => "target_id" \in DOMAIN r
  /\ \A r \in LustreLine : DOMAIN r \cap {"mountpoint", "target_id", "pcent", "avail_1k", "free_pct"} = {}
<1>1. \A r \in Mount : DOMAIN r = {"source", "fstype", "mountpoint", "blocks_1k", "used_1k",
                                    "avail_1k", "pcent"}
  BY DEF Mount
<1>2. \A r \in BeegfsLine : DOMAIN r \in {{"target_id", "pool", "free_pct"}, {"section"},
                                          {"error"}, {"unparsed"}}
  BY DEF BeegfsLine, BeegfsTarget
<1>3. \A r \in LustreLine : DOMAIN r \in {{"target", "use_pct"}, {"unparsed"},
                                          {"is_summary", "total", "used", "avail", "use_pct"}}
  BY DEF LustreLine, LustreTarget
<1>4. \A r \in BeegfsLine : /\ DOMAIN r \cap {"mountpoint", "pcent", "avail_1k", "use_pct", "target"} = {}
                            /\ "free_pct" \in DOMAIN r => "target_id" \in DOMAIN r
  BY <1>2
<1>5. \A r \in LustreLine :
        DOMAIN r \cap {"mountpoint", "target_id", "pcent", "avail_1k", "free_pct"} = {}
  BY <1>3
<1>6. \A r \in Mount : /\ "mountpoint" \in DOMAIN r
                       /\ DOMAIN r \cap {"free_pct", "use_pct", "target_id", "target"} = {}
  BY <1>1
<1> QED BY <1>4, <1>5, <1>6

\* Where in the four listings, one after the other, a place is.
LEMMA FourListings ==
  ASSUME NEW A, NEW B, NEW C, NEW p \in Seq(A), NEW q \in Seq(B), NEW r \in Seq(B), NEW t \in Seq(C),
         NEW i \in DOMAIN (p \o q \o r \o t)
  PROVE  LET a == Len(p)
             b == Len(p \o q)
             c == b + Len(r)
             x == (p \o q \o r \o t)[i]
         IN  /\ a \in Nat /\ b = a + Len(q) /\ Len(q) \in Nat /\ Len(r) \in Nat /\ i \in Nat
             /\ i <= a => i \in DOMAIN p /\ x = p[i]
             /\ i > a /\ i <= b => i - a \in DOMAIN q /\ x = q[i - a]
             /\ i > b /\ i <= c => i - b \in DOMAIN r /\ x = r[i - b]
             /\ i > c => i - c \in DOMAIN t /\ x = t[i - c]
<1> DEFINE D == A \cup B \cup C
<1>1. p \in Seq(D) /\ q \in Seq(D) /\ r \in Seq(D) /\ t \in Seq(D)
  OBVIOUS
<1> HIDE DEF D
<1>2. ASSUME NEW u \in Seq(D), NEW v \in Seq(D)
      PROVE  /\ u \o v \in Seq(D) /\ Len(u \o v) = Len(u) + Len(v)
             /\ \A k \in DOMAIN (u \o v) :
                  /\ k \in Nat \ {0} /\ k <= Len(u) + Len(v)
                  /\ k <= Len(u) => k \in DOMAIN u /\ (u \o v)[k] = u[k]
                  /\ k > Len(u) => k - Len(u) \in DOMAIN v /\ (u \o v)[k] = v[k - Len(u)]
             /\ DOMAIN u = 1 .. Len(u) /\ Len(u) \in Nat /\ DOMAIN (u \o v) = 1 .. Len(u) + Len(v)
  OBVIOUS
<1> DEFINE pq  == p \o q
           pqr == pq \o r
           all == pqr \o t
<1>3. /\ pq \in Seq(D) /\ Len(pq) = Len(p) + Len(q)
      /\ pqr \in Seq(D) /\ Len(pqr) = Len(pq) + Len(r)
      /\ Len(p) \in Nat /\ Len(q) \in Nat /\ Len(r) \in Nat /\ Len(t) \in Nat
  BY <1>1, <1>2
<1>4. /\ i \in Nat \ {0}
      /\ i <= Len(pqr) => i \in DOMAIN pqr /\ all[i] = pqr[i]
      /\ i > Len(pqr) => i - Len(pqr) \in DOMAIN t /\ all[i] = t[i - Len(pqr)]
  <2> HIDE DEF pqr
  <2> QED BY <1>1, <1>2, <1>3 DEF pqr
<1>5. i \in DOMAIN pqr => /\ i <= Len(pq) => i \in DOMAIN pq /\ pqr[i] = pq[i]
                          /\ i > Len(pq) => i - Len(pq) \in DOMAIN r /\ pqr[i] = r[i - Len(pq)]
  <2> HIDE DEF pq
  <2> QED BY <1>1, <1>2, <1>3
<1>6. i \in DOMAIN pq => /\ i <= Len(p) => i \in DOMAIN p /\ pq[i] = p[i]
                         /\ i > Len(p) => i - Len(p) \in DOMAIN q /\ pq[i] = q[i - Len(p)]
  BY <1>1, <1>2, <1>3
<1> HIDE DEF pq, pqr, all
<1> DEFINE a == Len(p)
           b == Len(pq)
           c == b + Len(r)
           x == all[i]
<1>7. /\ a \in Nat /\ b = a + Len(q) /\ Len(q) \in Nat /\ Len(r) \in Nat /\ i \in Nat
      /\ c = Len(pqr)
  BY <1>3, <1>4
<1>8. /\ i <= c <=> i \in DOMAIN pqr
      /\ i <= b <=> i \in DOMAIN pq
  BY <1>3, <1>4, <1>7
<1>9. /\ i <= a => i \in DOMAIN p /\ x = p[i]
      /\ i > a /\ i <= b => i - a \in DOMAIN q /\ x = q[i - a]
  <2>1. i <= a => i <= b
    BY <1>7
  <2>2. i <= b => i <= c
    BY <1>7 DEF c
  <2> QED BY <1>4, <1>5, <1>6, <1>8, <2>1, <2>2
<1>10. i > b /\ i <= c => i - b \in DOMAIN r /\ x = r[i - b]
  <2> SUFFICES ASSUME i > b, i <= c PROVE i - b \in DOMAIN r /\ x = r[i - b]
    OBVIOUS
  <2>1. i \in DOMAIN pqr /\ i <= Len(pqr)
    BY <1>7, <1>8
  <2>2. i - b \in DOMAIN r /\ pqr[i] = r[i - b]
    BY <1>5, <2>1
  <2> QED BY <1>4, <2>1, <2>2
<1>11. i > c => i - c \in DOMAIN t /\ x = t[i - c]
  <2> DEFINE e == Len(pqr)
  <2>1. i > e => i - e \in DOMAIN t /\ x = t[i - e]
    BY <1>4, Zenon
  <2>2. c = e
    BY ONLY <1>3
  <2> HIDE DEF c, e, x
  <2> QED BY <2>1, <2>2, Zenon
<1> QED BY <1>7, <1>9, <1>10, <1>11, Zenon DEF all, pqr, pq

\* What a sample of a storage metric stands for: a mount, a BeeGFS target of
\* one of the sections, or a Lustre target, with its labels.
LEMMA StorageSample ==
  ASSUME DataInv, NEW n \in Answered, NEW s \in Samples("stg", state[n])
  PROVE  LET M == state[n].mounts
             E == state[n].beegfs.meta
             T == state[n].beegfs.storage
             L == state[n].lustre
             a == Len(M)
             b == Len(M \o E)
             c == b + Len(T)
             k == METRICS["stg"][s.metric]
         IN  /\ s.at \in Nat /\ a \in Nat /\ b \in Nat /\ c \in Nat /\ a <= b
             /\ k \in {"pcent", "avail_1k"} =>
                  s.at \in DOMAIN M /\ s.labels = <<M[s.at].mountpoint, M[s.at].fstype>>
             /\ k = "free_pct" =>
                  \/ /\ s.at <= b /\ s.at - a \in {j \in DOMAIN E : "target_id" \in DOMAIN E[j]}
                     /\ s.labels = <<E[s.at - a].target_id, "meta", E[s.at - a].pool>>
                  \/ /\ s.at > b /\ s.at - b \in {j \in DOMAIN T : "target_id" \in DOMAIN T[j]}
                     /\ s.labels = <<T[s.at - b].target_id, "storage", T[s.at - b].pool>>
             /\ k = "use_pct" =>
                  s.at - c \in Targets(state[n]) /\ s.labels = <<L[s.at - c].target>>
             /\ k \in {"pcent", "avail_1k", "free_pct", "use_pct"}
<1> DEFINE M == state[n].mounts
           E == state[n].beegfs.meta
           T == state[n].beegfs.storage
           L == state[n].lustre
           a == Len(M)
           b == Len(M \o E)
           c == b + Len(T)
           i == s.at
           x == (M \o E \o T \o L)[i]
           k == METRICS["stg"][s.metric]
           kind == IF i <= b THEN "meta" ELSE "storage"
<1>1. /\ M \in Seq(Mount) /\ E \in Seq(BeegfsLine) /\ T \in Seq(BeegfsLine)
      /\ L \in Seq(LustreLine)
  BY DictionaryRows
<1>2. Parts("stg", state[n]) = M \o E \o T \o L
  BY DEF Parts
<1>3. /\ i \in DOMAIN (M \o E \o T \o L) /\ s.labels = StgLabels(state[n], i)
      /\ k \in {"pcent", "avail_1k", "free_pct", "use_pct"}
      /\ k \in DOMAIN x /\ (k = "use_pct" => "target" \in DOMAIN x)
  <2>1. /\ i \in DOMAIN Parts("stg", state[n]) /\ s.labels = Labels("stg", state[n], i)
        /\ s.metric \in DOMAIN METRICS["stg"]
        /\ HasSample("stg", Parts("stg", state[n])[i], k)
    BY SampleOf DEF Commands
  <2>2. k \in {"pcent", "avail_1k", "free_pct", "use_pct"}
    BY <2>1, StorageMetrics
  <2>3. k \in DOMAIN x /\ (k = "use_pct" => "target" \in DOMAIN x)
    BY <1>2, <2>1 DEF HasSample
  <2>4. s.labels = StgLabels(state[n], i)
    BY <2>1 DEF Labels
  <2> QED BY <1>2, <2>1, <2>2, <2>3, <2>4
<1>4. s.labels = CASE "mountpoint" \in DOMAIN x -> <<x.mountpoint, x.fstype>>
                   [] "target_id" \in DOMAIN x  -> <<x.target_id, kind, x.pool>>
                   [] "target" \in DOMAIN x     -> <<x.target>>
  BY <1>2, <1>3 DEF StgLabels
<1>5. L = state[n].lustre
  OBVIOUS
<1> HIDE DEF M, E, T, L
<1>6. /\ a \in Nat /\ b = a + Len(E) /\ Len(E) \in Nat /\ Len(T) \in Nat /\ i \in Nat
      /\ i <= a => i \in DOMAIN M /\ x = M[i]
      /\ i > a /\ i <= b => i - a \in DOMAIN E /\ x = E[i - a]
      /\ i > b /\ i <= c => i - b \in DOMAIN T /\ x = T[i - b]
      /\ i > c => i - c \in DOMAIN L /\ x = L[i - c]
  BY <1>1, <1>3, FourListings
<1>7. /\ \A j \in DOMAIN M : M[j] \in Mount
      /\ \A j \in DOMAIN E : E[j] \in BeegfsLine
      /\ \A j \in DOMAIN T : T[j] \in BeegfsLine
      /\ \A j \in DOMAIN L : L[j] \in LustreLine
  BY <1>1
<1> HIDE DEF a, b, c, x, k, i
<1>8. b \in Nat /\ c \in Nat /\ a <= b /\ b <= c
  BY <1>6 DEF c
<1>9. i <= a \/ (i > a /\ i <= b) \/ (i > b /\ i <= c) \/ i > c
  BY <1>6, <1>8
<1>10. CASE i <= a
  <2>1. x \in Mount /\ i \in DOMAIN M /\ x = M[i]
    BY <1>6, <1>7, <1>10
  <2>2. /\ "mountpoint" \in DOMAIN x /\ "target_id" \notin DOMAIN x /\ "target" \notin DOMAIN x
        /\ k \in {"pcent", "avail_1k"}
    BY <1>3, <2>1, LineKeys
  <2>3. s.labels = <<x.mountpoint, x.fstype>>
    BY <1>4, <2>2
  <2> QED BY <1>6, <1>8, <2>1, <2>2, <2>3 DEF M, E, T, L, a, b, c, k, i
<1>11. CASE i > a /\ i <= b
  <2>1. x \in BeegfsLine /\ i - a \in DOMAIN E /\ x = E[i - a]
    BY <1>6, <1>7, <1>11
  <2>2. /\ "mountpoint" \notin DOMAIN x /\ "target_id" \in DOMAIN x /\ "target" \notin DOMAIN x
        /\ k = "free_pct"
    BY <1>3, <2>1, LineKeys
  <2>3. s.labels = <<x.target_id, "meta", x.pool>>
    BY <1>4, <1>11, <2>2
  <2> QED BY <1>6, <1>8, <1>11, <2>1, <2>2, <2>3 DEF M, E, T, L, a, b, c, k, i
<1>12. CASE i > b /\ i <= c
  <2>1. x \in BeegfsLine /\ i - b \in DOMAIN T /\ x = T[i - b] /\ ~ (i <= b)
    BY <1>6, <1>7, <1>8, <1>12
  <2>2. /\ "mountpoint" \notin DOMAIN x /\ "target_id" \in DOMAIN x /\ "target" \notin DOMAIN x
        /\ k = "free_pct"
    BY <1>3, <2>1, LineKeys
  <2>3. s.labels = <<x.target_id, "storage", x.pool>>
    BY <1>4, <2>1, <2>2
  <2> QED BY <1>6, <1>8, <1>12, <2>1, <2>2, <2>3 DEF M, E, T, L, a, b, c, k, i
<1>13. CASE i > c
  <2>1. x \in LustreLine /\ i - c \in DOMAIN L /\ x = L[i - c]
    BY <1>6, <1>7, <1>13
  <2>2. "mountpoint" \notin DOMAIN x /\ "target_id" \notin DOMAIN x /\ k = "use_pct"
        /\ "target" \in DOMAIN x
    BY <1>3, <2>1, LineKeys
  <2>3. s.labels = <<x.target>>
    BY <1>4, <2>2
  <2>4. i - c \in Targets(state[n])
    BY <1>5, <2>1, <2>2 DEF Targets
  <2> QED BY <1>6, <1>8, <2>1, <2>2, <2>3, <2>4 DEF M, E, T, L, a, b, c, k, i
<1> QED BY <1>9, <1>10, <1>11, <1>12, <1>13

\* No two samples of a storage metric have the same labels: where df and
\* beegfs-df list nothing twice, neither does the exposition, although one
\* number may stand in both sections of beegfs-df and lfs repeats its listing.
THEOREM StorageSeriesDistinct == Spec => []SeriesDistinct
<1>1. DataInv => SeriesDistinct
  <2> SUFFICES ASSUME DataInv, NEW n \in Answered,
                      ListedOnce(state[n].mounts),
                      TargetsOnce(state[n].beegfs.meta), TargetsOnce(state[n].beegfs.storage),
                      NEW s \in Samples("stg", state[n]), NEW t \in Samples("stg", state[n]),
                      s.metric = t.metric, s.labels = t.labels
               PROVE  s.at = t.at
    BY DEF SeriesDistinct, OneSamplePerSeries
  <2> DEFINE M == state[n].mounts
             E == state[n].beegfs.meta
             T == state[n].beegfs.storage
             L == state[n].lustre
             a == Len(M)
             b == Len(M \o E)
             c == b + Len(T)
             k == METRICS["stg"][s.metric]
             Q == Targets(state[n])
             Said(u) ==
               /\ u.at \in Nat /\ a \in Nat /\ b \in Nat /\ c \in Nat
               /\ k \in {"pcent", "avail_1k"} =>
                    u.at \in DOMAIN M /\ u.labels = <<M[u.at].mountpoint, M[u.at].fstype>>
               /\ k = "free_pct" =>
                    \/ /\ u.at <= b /\ u.at - a \in {j \in DOMAIN E : "target_id" \in DOMAIN E[j]}
                       /\ u.labels = <<E[u.at - a].target_id, "meta", E[u.at - a].pool>>
                    \/ /\ u.at > b /\ u.at - b \in {j \in DOMAIN T : "target_id" \in DOMAIN T[j]}
                       /\ u.labels = <<T[u.at - b].target_id, "storage", T[u.at - b].pool>>
               /\ k = "use_pct" => u.at - c \in Q /\ u.labels = <<L[u.at - c].target>>
               /\ k \in {"pcent", "avail_1k", "free_pct", "use_pct"}
  <2>1. Said(s)
    BY StorageSample
  <2>2. Said(t)
    <3>1. k = METRICS["stg"][t.metric]
      OBVIOUS
    <3> QED BY <3>1, StorageSample
  <2>3. \A i, j \in Q : L[i].target = L[j].target => i = j
    BY LustreOnce
  <2> HIDE DEF M, E, T, L, a, b, c, k, Q
  <2>4. CASE k \in {"pcent", "avail_1k"}
    BY <2>1, <2>2, <2>4 DEF ListedOnce, M
  <2>5. CASE k = "free_pct"
    <3>1. s.at <= b /\ t.at <= b => s.at - a = t.at - a
      BY <2>1, <2>2, <2>5 DEF TargetsOnce, E
    <3>2. s.at > b /\ t.at > b => s.at - b = t.at - b
      BY <2>1, <2>2, <2>5 DEF TargetsOnce, T
    <3>3. s.at <= b <=> t.at <= b
      BY <2>1, <2>2, <2>5
    <3>4. s.at \in Nat /\ t.at \in Nat /\ a \in Nat /\ b \in Nat
      BY <2>1, <2>2
    <3> QED BY <3>1, <3>2, <3>3, <3>4
  <2>6. CASE k = "use_pct"
    <3>1. L[s.at - c].target = L[t.at - c].target
      BY <2>1, <2>2, <2>6
    <3>2. s.at - c = t.at - c
      BY <2>1, <2>2, <2>3, <2>6, <3>1
    <3> QED BY <2>1, <2>2, <3>2
  <2> QED BY <2>1, <2>4, <2>5, <2>6
<1> QED BY <1>1, DataInvariant, PTL
-----------------------------------------------------------------------------
(* The sums. *)

LEMMA TakenFinite ==
  ASSUME TypeInv PROVE IsFiniteSet(Taken) /\ DataInv /\ Taken \subseteq Answered
<1>1. Taken \in SUBSET Node /\ DataInv /\ Taken \subseteq Answered
  BY DEF TypeInv, CountInv, Answered
<1> QED BY <1>1, NodeAssumption, FS_Subset

LEMMA TakeNode ==
  ASSUME TypeInv, NEW n \in Node, Take(n)
  PROVE  n \in Answered /\ n \notin Taken /\ DataInv
BY TakeFacts DEF TypeInv, CountInv

\* The places of one node's pass: those new to the cluster are new to the node.
LEMMA Places ==
  ASSUME DataInv, NEW n \in Answered
  PROVE  /\ Len(state[n].mounts) \in Nat
         /\ DOMAIN Key(n) = 1 .. Len(state[n].mounts)
         /\ DOMAIN state[n].mounts = 1 .. Len(state[n].mounts)
         /\ Fresh(n) \in SUBSET Own(n) /\ Own(n) \in SUBSET (1 .. Len(state[n].mounts))
         /\ IsFiniteSet(Own(n)) /\ IsFiniteSet(Fresh(n))
         /\ Keys(n) = Range(Key(n)) /\ IsFiniteSet(Keys(n))
<1>1. /\ Len(state[n].mounts) \in Nat /\ DOMAIN Key(n) = 1 .. Len(state[n].mounts)
      /\ DOMAIN state[n].mounts = 1 .. Len(state[n].mounts)
  BY Columns DEF Key
<1>2. Fresh(n) \in SUBSET Own(n) /\ Own(n) \in SUBSET (1 .. Len(state[n].mounts))
  BY <1>1 DEF Fresh, Own, New
<1>3. IsFiniteSet(Own(n)) /\ IsFiniteSet(Fresh(n)) /\ IsFiniteSet(Range(Key(n)))
  BY <1>1, NewOnce DEF Own, Fresh
<1> QED BY <1>1, <1>2, <1>3 DEF Keys, Key

\* A mount that the node adds and the cluster does not is shared: the key of a
\* local one has the node's name in it, and the node has not been taken before.
LEMMA FoldedAreShared ==
  ASSUME TypeInv, NEW n \in Answered, n \notin Taken, NEW i \in Own(n) \ Fresh(n)
  PROVE  Shared(state[n].mounts[i])
<1> SUFFICES ASSUME ~ Shared(state[n].mounts[i]) PROVE FALSE
  OBVIOUS
<1>1. Key(n)[i] \in seen
  BY DEF Own, Fresh, New
<1>2. PICK k \in Taken : Key(n)[i] \in Keys(k)
  BY <1>1 DEF TypeInv, CountInv
<1>3. PICK j \in DOMAIN state[k].mounts : Key(n)[i] = MountKey(k, state[k].mounts[j])
  BY <1>2 DEF Keys, MountKeys, Range
<1>4. Key(n)[i] = MountKey(n, state[n].mounts[i])
  <2>1. i \in DOMAIN Key(n)
    BY DEF Own, New
  <2> QED BY <2>1 DEF Key, MountKeys
<1>5. Key(n)[i][1] = "local" /\ Key(n)[i][2] = n
  BY <1>4 DEF MountKey
<1>6. Key(n)[i][1] = "local" => Key(n)[i][2] = k
  BY <1>3 DEF MountKey
<1> QED BY <1>5, <1>6

\* The pairs of a node and a key, of the nodes taken.
Pair(n, k)     == <<n, k>>
IsSharedKey(k) == k[1] = "shared"
SharedKeys(n)  == {k \in Keys(n) : IsSharedKey(k)}
KeyPairs       == UNION {{Pair(n, k) : k \in Keys(n)} : n \in Taken}
SharedPairs    == UNION {{Pair(n, k) : k \in SharedKeys(n)} : n \in Taken}
SharedSeen     == {k \in seen : IsSharedKey(k)}

\* Every pair is counted or folded, and those folded are shared.
FoldInv == /\ TypeInv
           /\ IsFiniteSet(KeyPairs) /\ IsFiniteSet(SharedPairs)
           /\ total.mounts + shared = Cardinality(KeyPairs)
           /\ shared + Cardinality(SharedSeen) = Cardinality(SharedPairs)

\* Pairs with something new.
LEMMA PairsAdded ==
  ASSUME NEW P, IsFiniteSet(P), NEW K, IsFiniteSet(K), NEW n, \A k : Pair(n, k) \notin P,
         NEW R, \A q : q \in R <=> q \in P \/ \E k \in K : q = Pair(n, k)
  PROVE  /\ IsFiniteSet(R) /\ Cardinality(R) = Cardinality(P) + Cardinality(K)
         /\ Cardinality(P) \in Nat /\ Cardinality(K) \in Nat
<1> DEFINE Q == {Pair(n, k) : k \in K}
           f == [k \in K |-> Pair(n, k)]
<1>0. R = P \cup Q
  OBVIOUS
<1>1. f \in Bijection(K, Q)
  <2>1. \A k, j : Pair(n, k) = Pair(n, j) => k = j
    BY DEF Pair
  <2> QED BY <2>1 DEF Bijection, Injection, Surjection, IsInjective
<1>2. P \cap Q = {}
  OBVIOUS
<1> HIDE DEF Q, f
<1>3. IsFiniteSet(Q) /\ Cardinality(Q) = Cardinality(K)
  <2>1. ExistsBijection(K, Q)
    BY <1>1 DEF ExistsBijection
  <2> QED BY <2>1, FS_Bijection
<1>4. /\ IsFiniteSet(P \cup Q)
      /\ Cardinality(P \cup Q) = Cardinality(P) + Cardinality(Q) - Cardinality(P \cap Q)
  BY <1>3, FS_Union
<1>5. Cardinality(P \cap Q) = 0 /\ Cardinality(P) \in Nat /\ Cardinality(K) \in Nat
  BY <1>2, FS_EmptySet, FS_CardinalityType
<1> DEFINE p == Cardinality(P)
           k == Cardinality(K)
           r == Cardinality(R)
<1>6. IsFiniteSet(R) /\ r = p + k - 0 /\ p \in Nat /\ k \in Nat
  BY <1>0, <1>3, <1>4, <1>5
<1> HIDE DEF p, k, r
<1>7. r = p + k
  BY <1>6
<1> QED BY <1>6, <1>7 DEF p, k, r

\* The keys of a node, and those of its places that are folded.
LEMMA FoldedKeys ==
  ASSUME TypeInv, NEW n \in Answered, n \notin Taken,
         NEW folded, folded = {i \in Own(n) \ Fresh(n) : Shared(state[n].mounts[i])}
  PROVE  /\ Cardinality(Own(n)) = Cardinality(Keys(n))
         /\ Cardinality(folded) = Cardinality(SharedKeys(n) \cap seen)
         /\ Cardinality(Own(n)) = Cardinality(Fresh(n)) + Cardinality(folded)
         /\ Cardinality(Fresh(n)) \in Nat /\ Cardinality(folded) \in Nat
         /\ IsFiniteSet(Keys(n)) /\ IsFiniteSet(SharedKeys(n))
<1>1. /\ Len(state[n].mounts) \in Nat /\ DOMAIN Key(n) = 1 .. Len(state[n].mounts)
      /\ Fresh(n) \in SUBSET Own(n) /\ Own(n) \in SUBSET (1 .. Len(state[n].mounts))
      /\ IsFiniteSet(Own(n)) /\ IsFiniteSet(Fresh(n))
      /\ Keys(n) = Range(Key(n)) /\ IsFiniteSet(Keys(n))
  BY Places DEF TypeInv, CountInv
<1>2. /\ Cardinality(Own(n)) = Cardinality(Keys(n))
      /\ Range(Restrict(Key(n), Own(n))) = Keys(n)
      /\ \A i, j \in Own(n) : Key(n)[i] = Key(n)[j] => i = j
  <2>1. Range(Key(n)) \ {} = Keys(n)
    BY <1>1
  <2> QED BY <1>1, <2>1, NewOnce DEF Own
<1>3. folded = Own(n) \ Fresh(n)
  BY FoldedAreShared
<1>4. \A i \in Own(n) : Key(n)[i] = MountKey(n, state[n].mounts[i])
  BY <1>1 DEF Key, MountKeys
<1>5. \A i \in Own(n) : i \notin Fresh(n) <=> Key(n)[i] \in seen
  <2>1. \A i : i \in Own(n) <=> i \in DOMAIN Key(n) /\ \A j \in 1 .. i - 1 : Key(n)[j] # Key(n)[i]
    BY DEF Own, New
  <2>2. \A i : i \in Fresh(n) <=>
                 /\ i \in DOMAIN Key(n) /\ Key(n)[i] \notin seen
                 /\ \A j \in 1 .. i - 1 : Key(n)[j] # Key(n)[i]
    BY DEF Fresh, New
  <2> QED BY ONLY <2>1, <2>2
<1>6. \A i \in Own(n) : Shared(state[n].mounts[i]) => IsSharedKey(Key(n)[i])
  <2> SUFFICES ASSUME NEW i \in Own(n), Shared(state[n].mounts[i]) PROVE IsSharedKey(Key(n)[i])
    OBVIOUS
  <2>1. Key(n)[i] = MountKey(n, state[n].mounts[i])
    BY <1>4
  <2>2. MountKey(n, state[n].mounts[i])[1] = "shared"
    BY DEF MountKey
  <2> QED BY <2>1, <2>2 DEF IsSharedKey
<1>7. Cardinality(folded) = Cardinality(SharedKeys(n) \cap seen) /\ IsFiniteSet(folded)
  <2> DEFINE B == SharedKeys(n) \cap seen
             f == [i \in folded |-> Key(n)[i]]
  <2>1. \A i \in Own(n) : Key(n)[i] \in Keys(n)
    BY <1>1 DEF Range
  <2>2. \A i \in folded : Key(n)[i] \in B
    BY <1>5, <1>6, <2>1 DEF SharedKeys
  <2>3. \A k \in B : \E i \in folded : Key(n)[i] = k
    <3> SUFFICES ASSUME NEW k \in B PROVE \E i \in folded : Key(n)[i] = k
      OBVIOUS
    <3>1. k \in Range(Restrict(Key(n), Own(n)))
      BY <1>2 DEF SharedKeys
    <3>2. PICK i \in Own(n) : Key(n)[i] = k
      BY <3>1 DEF Range, Restrict
    <3>3. i \in folded
      BY <1>3, <1>5, <3>2
    <3> QED BY <3>2, <3>3
  <2>4. f \in Bijection(folded, B)
    BY <1>2, <2>2, <2>3 DEF Bijection, Injection, Surjection, IsInjective
  <2>5. IsFiniteSet(folded)
    BY <1>1, <1>3, FS_Difference
  <2> HIDE DEF B, f
  <2>6. ExistsBijection(folded, B)
    BY <2>4 DEF ExistsBijection
  <2> QED BY <2>5, <2>6, FS_Bijection DEF B
<1>8. /\ Cardinality(Own(n)) = Cardinality(Fresh(n)) + Cardinality(folded)
      /\ Cardinality(Fresh(n)) \in Nat /\ Cardinality(folded) \in Nat
  <2>1. Fresh(n) \cup folded = Own(n) /\ Fresh(n) \cap folded = {}
    BY <1>1, <1>3
  <2>2. /\ Cardinality(Fresh(n)) \in Nat /\ Cardinality(folded) \in Nat
        /\ Cardinality(Fresh(n) \cap folded) = 0
    BY <1>1, <1>7, <2>1, FS_CardinalityType, FS_EmptySet
  <2>3. Cardinality(Fresh(n) \cup folded)
          = Cardinality(Fresh(n)) + Cardinality(folded) - Cardinality(Fresh(n) \cap folded)
    BY <1>1, <1>7, FS_Union
  <2> DEFINE o == Cardinality(Own(n))
             a == Cardinality(Fresh(n))
             b == Cardinality(folded)
  <2>4. o = a + b - 0 /\ a \in Nat /\ b \in Nat
    BY <2>1, <2>2, <2>3
  <2> HIDE DEF o, a, b
  <2>5. o = a + b
    BY <2>4
  <2> QED BY <2>4, <2>5 DEF o, a, b
<1>9. IsFiniteSet(SharedKeys(n))
  <2>1. SharedKeys(n) \in SUBSET Keys(n)
    BY DEF SharedKeys
  <2> QED BY <1>1, <2>1, FS_Subset
<1> QED BY <1>1, <1>2, <1>7, <1>8, <1>9

LEMMA TakeFold ==
  ASSUME FoldInv, NEW n \in Node, Take(n) PROVE FoldInv'
<1> DEFINE folded == {i \in Own(n) \ Fresh(n) : Shared(state[n].mounts[i])}
           K == Keys(n)
           S == SharedKeys(n)
<1>1. TypeInv /\ TypeInv' /\ n \in Answered /\ n \notin Taken
  BY TakeType, TakeNode DEF FoldInv
<1>2. /\ Taken' = Taken \cup {n}
      /\ total'.mounts = total.mounts + Cardinality(Fresh(n))
      /\ shared' = shared + Cardinality(folded)
      /\ \A x : Keys(x)' = Keys(x)
  BY TakeFacts DEF Keys, MountKeys, MountKey
<1>3. /\ Cardinality(Own(n)) = Cardinality(K)
      /\ Cardinality(folded) = Cardinality(S \cap seen)
      /\ Cardinality(Own(n)) = Cardinality(Fresh(n)) + Cardinality(folded)
      /\ Cardinality(Fresh(n)) \in Nat /\ Cardinality(folded) \in Nat
      /\ IsFiniteSet(K) /\ IsFiniteSet(S)
  BY <1>1, FoldedKeys
<1>4. total.mounts \in Nat /\ shared \in Nat /\ IsFiniteSet(seen) /\ seen' = seen \cup K
  <2>1. seen = UNION {Keys(x) : x \in Taken} /\ seen' = UNION {Keys(x)' : x \in Taken'}
    BY <1>1 DEF TypeInv, CountInv
  <2> QED BY <1>1, <1>2, <2>1 DEF TypeInv, CountInv
<1> DEFINE KQ == {Pair(n, k) : k \in K}
           SQ == {Pair(n, k) : k \in S}
<1>5. KeyPairs' = KeyPairs \cup KQ /\ SharedPairs' = SharedPairs \cup SQ
  <2>1. \A x : SharedKeys(x)' = SharedKeys(x)
    BY <1>2 DEF SharedKeys, IsSharedKey
  <2>2. KeyPairs' = KeyPairs \cup KQ
    BY <1>2 DEF KeyPairs
  <2>3. SharedPairs' = SharedPairs \cup SQ
    BY <1>2, <2>1 DEF SharedPairs
  <2> QED BY <2>2, <2>3
<1>6. \A k : Pair(n, k) \notin KeyPairs /\ Pair(n, k) \notin SharedPairs
  <2>1. \A x, k, j : Pair(n, k) = Pair(x, j) => x = n
    BY DEF Pair
  <2> QED BY <1>1, <2>1 DEF KeyPairs, SharedPairs
<1>7. /\ IsFiniteSet(KeyPairs') /\ Cardinality(KeyPairs') = Cardinality(KeyPairs) + Cardinality(K)
      /\ Cardinality(KeyPairs) \in Nat /\ Cardinality(K) \in Nat
  <2>1. IsFiniteSet(KeyPairs) /\ IsFiniteSet(K) /\ (\A k : Pair(n, k) \notin KeyPairs)
        /\ \A q : q \in KeyPairs' <=> q \in KeyPairs \/ \E k \in K : q = Pair(n, k)
    BY <1>3, <1>5, <1>6 DEF FoldInv
  <2> HIDE DEF K
  <2> QED BY ONLY <2>1, PairsAdded
<1>8. /\ IsFiniteSet(SharedPairs')
      /\ Cardinality(SharedPairs') = Cardinality(SharedPairs) + Cardinality(S)
      /\ Cardinality(SharedPairs) \in Nat /\ Cardinality(S) \in Nat
  <2>1. IsFiniteSet(SharedPairs) /\ IsFiniteSet(S) /\ (\A k : Pair(n, k) \notin SharedPairs)
        /\ \A q : q \in SharedPairs' <=> q \in SharedPairs \/ \E k \in S : q = Pair(n, k)
    BY <1>3, <1>5, <1>6 DEF FoldInv
  <2> HIDE DEF S
  <2> QED BY ONLY <2>1, PairsAdded
<1> HIDE DEF K, S, folded, KQ, SQ
<1>9. total'.mounts + shared' = Cardinality(KeyPairs')
  <2> DEFINE k == Cardinality(K)
             f == Cardinality(Fresh(n))
             e == Cardinality(folded)
             v == Cardinality(KeyPairs')
             u == Cardinality(KeyPairs)
             t == total.mounts
  <2>1. /\ k \in Nat /\ f \in Nat /\ e \in Nat /\ u \in Nat /\ t \in Nat /\ shared \in Nat
        /\ v = u + k /\ t + shared = u /\ k = f + e /\ total'.mounts = t + f /\ shared' = shared + e
    BY <1>2, <1>3, <1>4, <1>7 DEF FoldInv
  <2> HIDE DEF k, f, e, v, u, t
  <2>2. total'.mounts + shared' = v
    BY ONLY <2>1
  <2> QED BY <2>2 DEF v
<1>10. Cardinality(SharedSeen') + Cardinality(S \cap seen) = Cardinality(SharedSeen) + Cardinality(S)
       /\ Cardinality(SharedSeen') \in Nat /\ Cardinality(SharedSeen) \in Nat
       /\ Cardinality(S) \in Nat
  <2>1. SharedSeen' = SharedSeen \cup S /\ SharedSeen \cap S = S \cap seen
    BY <1>4 DEF SharedSeen, SharedKeys, IsSharedKey, S, K
  <2>2. IsFiniteSet(SharedSeen)
    <3>1. SharedSeen \in SUBSET seen
      BY DEF SharedSeen
    <3> QED BY <1>4, <3>1, FS_Subset
  <2>3. /\ IsFiniteSet(SharedSeen \cup S)
        /\ Cardinality(SharedSeen \cup S)
             = Cardinality(SharedSeen) + Cardinality(S) - Cardinality(SharedSeen \cap S)
    BY <1>3, <2>2, FS_Union
  <2>4. IsFiniteSet(SharedSeen \cap S)
    BY <2>2, FS_Intersection
  <2>5. /\ Cardinality(SharedSeen \cup S) \in Nat /\ Cardinality(SharedSeen) \in Nat
        /\ Cardinality(S) \in Nat /\ Cardinality(SharedSeen \cap S) \in Nat
    BY <1>3, <2>2, <2>3, <2>4, FS_CardinalityType
  <2> DEFINE a == Cardinality(SharedSeen')
             b == Cardinality(SharedSeen)
             d == Cardinality(S)
             e == Cardinality(S \cap seen)
  <2>6. a = b + d - e /\ a \in Nat /\ b \in Nat /\ d \in Nat /\ e \in Nat
    BY <2>1, <2>3, <2>5
  <2> HIDE DEF a, b, d, e
  <2>7. a + e = b + d
    BY ONLY <2>6
  <2> QED BY <2>6, <2>7 DEF a, b, d, e
<1>11. shared' + Cardinality(SharedSeen') = Cardinality(SharedPairs')
  <2> DEFINE a == Cardinality(SharedSeen')
             b == Cardinality(SharedSeen)
             d == Cardinality(S)
             e == Cardinality(folded)
             v == Cardinality(SharedPairs')
             u == Cardinality(SharedPairs)
  <2>1. /\ a \in Nat /\ b \in Nat /\ d \in Nat /\ e \in Nat /\ a + e = b + d
        /\ v = u + d /\ shared + b = u /\ shared' = shared + e
    BY <1>2, <1>3, <1>8, <1>10 DEF FoldInv
  <2> HIDE DEF a, b, d, e, u, v
  <2>2. shared' + a = v
    BY <1>4, <2>1
  <2> QED BY <2>2 DEF a, v
<1> QED BY <1>1, <1>7, <1>8, <1>9, <1>11 DEF FoldInv

\* Every pair of a node and a filesystem is counted or folded, and those folded
\* are the clients of a shared filesystem but one of each, for any nodes and
\* mounts, taken in any order.
THEOREM NothingDropped == Spec => []FoldedAreOtherClients
<1>1. Init => FoldInv
  <2> SUFFICES ASSUME Init PROVE FoldInv
    OBVIOUS
  <2>1. Taken = {} /\ total.mounts = 0 /\ shared = 0 /\ seen = {}
    BY DEF Init, Taken
  <2>2. KeyPairs = {} /\ SharedPairs = {} /\ SharedSeen = {}
    BY <2>1 DEF KeyPairs, SharedPairs, SharedSeen
  <2> QED BY <2>1, <2>2, InitType, FS_EmptySet DEF FoldInv
<1>2. FoldInv /\ [Next]_vars => FoldInv'
  <2> SUFFICES ASSUME FoldInv, [Next]_vars PROVE FoldInv'
    OBVIOUS
  <2>1. CASE \E n \in Node : Take(n)
    BY <2>1, TakeFold
  <2>2. CASE UNCHANGED vars
    <3>1. TypeInv' /\ UNCHANGED <<state, nodes, seen, total, shared>>
      BY <2>2, StutterType DEF FoldInv, vars
    <3>2. \A x : Keys(x)' = Keys(x)
      BY <3>1 DEF Keys, MountKeys, MountKey
    <3>3. Taken' = Taken /\ SharedSeen' = SharedSeen
      BY <3>1 DEF Taken, SharedSeen, IsSharedKey
    <3>4. KeyPairs' = KeyPairs /\ SharedPairs' = SharedPairs
      BY <3>2, <3>3 DEF KeyPairs, SharedPairs, SharedKeys, IsSharedKey
    <3> QED BY <3>1, <3>3, <3>4 DEF FoldInv
  <2> QED BY <2>1, <2>2 DEF Next, Over
<1>3. FoldInv => FoldedAreOtherClients
  <2> SUFFICES ASSUME FoldInv PROVE FoldedAreOtherClients
    OBVIOUS
  <2>1. {KeyOf(p) : p \in Reported} = seen
    BY ReportedKeys DEF FoldInv, TypeInv
  <2>2. \A p \in Reported : IsSharedKey(KeyOf(p)) <=> Shared(MountOf(p))
    BY DEF KeyOf, MountOf, MountKey, IsSharedKey
  <2>3. {KeyOf(p) : p \in SharedMounts} = SharedSeen
    BY <2>1, <2>2 DEF SharedMounts, SharedSeen
  <2>4. ASSUME NEW n \in Taken
        PROVE  Keys(n) = {KeyOf(<<n, i>>) : i \in DOMAIN state[n].mounts}
    BY DEF Keys, MountKeys, KeyOf, Range
  <2>5. \A p : p \in Reported <=> \E n \in Taken : \E i \in DOMAIN state[n].mounts : p = <<n, i>>
    BY DEF Reported
  <2>6. \A n \in Taken : \A k :
          k \in Keys(n) <=> \E i \in DOMAIN state[n].mounts : k = KeyOf(<<n, i>>)
    <3> SUFFICES ASSUME NEW n \in Taken
                 PROVE \A k : k \in Keys(n) <=> \E i \in DOMAIN state[n].mounts : k = KeyOf(<<n, i>>)
      OBVIOUS
    <3>1. Keys(n) = {KeyOf(<<n, i>>) : i \in DOMAIN state[n].mounts}
      BY <2>4
    <3> QED BY ONLY <3>1
  <2>7. {Pair(p[1], KeyOf(p)) : p \in Reported} = KeyPairs
    <3>1. \A q : q \in KeyPairs <=> \E n \in Taken : \E k \in Keys(n) : q = Pair(n, k)
      BY DEF KeyPairs
    <3>2. \A q : q \in KeyPairs <=>
            \E n \in Taken : \E i \in DOMAIN state[n].mounts : q = Pair(n, KeyOf(<<n, i>>))
      <4>1. ASSUME NEW q, NEW n \in Taken, NEW k \in Keys(n), q = Pair(n, k)
            PROVE \E i \in DOMAIN state[n].mounts : q = Pair(n, KeyOf(<<n, i>>))
        <5>1. PICK i \in DOMAIN state[n].mounts : k = KeyOf(<<n, i>>)
          BY <2>6
        <5> QED BY <4>1, <5>1
      <4>2. ASSUME NEW q, NEW n \in Taken, NEW i \in DOMAIN state[n].mounts,
                   q = Pair(n, KeyOf(<<n, i>>))
            PROVE \E k \in Keys(n) : q = Pair(n, k)
        <5>1. KeyOf(<<n, i>>) \in Keys(n)
          BY <2>6
        <5> QED BY <4>2, <5>1
      <4> QED BY ONLY <3>1, <4>1, <4>2
    <3>3. \A q : q \in KeyPairs <=> \E p \in Reported : q = Pair(p[1], KeyOf(p))
      <4>1. ASSUME NEW q \in KeyPairs PROVE \E p \in Reported : q = Pair(p[1], KeyOf(p))
        <5>1. PICK n \in Taken : \E i \in DOMAIN state[n].mounts : q = Pair(n, KeyOf(<<n, i>>))
          BY <3>2
        <5>2. PICK i \in DOMAIN state[n].mounts : q = Pair(n, KeyOf(<<n, i>>))
          BY <5>1
        <5>3. <<n, i>> \in Reported /\ <<n, i>>[1] = n
          BY <2>5
        <5> QED BY ONLY <5>2, <5>3
      <4>2. ASSUME NEW q, NEW p \in Reported, q = Pair(p[1], KeyOf(p)) PROVE q \in KeyPairs
        <5>1. PICK n \in Taken : \E i \in DOMAIN state[n].mounts : p = <<n, i>>
          BY <2>5
        <5>2. PICK i \in DOMAIN state[n].mounts : p = <<n, i>>
          BY <5>1
        <5>3. q = Pair(n, KeyOf(<<n, i>>))
          BY ONLY <4>2, <5>2
        <5> QED BY ONLY <3>2, <5>3, n \in Taken, i \in DOMAIN state[n].mounts
      <4> QED BY ONLY <4>1, <4>2
    <3> QED BY ONLY <3>3
  <2>8. {Pair(p[1], KeyOf(p)) : p \in SharedMounts} = SharedPairs
    <3>1. \A q : q \in SharedPairs <=>
            \E n \in Taken : \E k \in Keys(n) : IsSharedKey(k) /\ q = Pair(n, k)
      BY DEF SharedPairs, SharedKeys
    <3>2. \A q : q \in SharedPairs <=>
            \E n \in Taken : \E i \in DOMAIN state[n].mounts :
              IsSharedKey(KeyOf(<<n, i>>)) /\ q = Pair(n, KeyOf(<<n, i>>))
      <4>1. ASSUME NEW q, NEW n \in Taken, NEW k \in Keys(n), IsSharedKey(k), q = Pair(n, k)
            PROVE \E i \in DOMAIN state[n].mounts :
                    IsSharedKey(KeyOf(<<n, i>>)) /\ q = Pair(n, KeyOf(<<n, i>>))
        <5>1. PICK i \in DOMAIN state[n].mounts : k = KeyOf(<<n, i>>)
          BY <2>6
        <5> QED BY <4>1, <5>1
      <4>2. ASSUME NEW q, NEW n \in Taken, NEW i \in DOMAIN state[n].mounts,
                   IsSharedKey(KeyOf(<<n, i>>)), q = Pair(n, KeyOf(<<n, i>>))
            PROVE \E k \in Keys(n) : IsSharedKey(k) /\ q = Pair(n, k)
        <5>1. KeyOf(<<n, i>>) \in Keys(n)
          BY <2>6
        <5> QED BY <4>2, <5>1
      <4> QED BY ONLY <3>1, <4>1, <4>2
    <3>3. \A q : q \in SharedPairs <=> \E p \in SharedMounts : q = Pair(p[1], KeyOf(p))
      <4>1. ASSUME NEW q \in SharedPairs PROVE \E p \in SharedMounts : q = Pair(p[1], KeyOf(p))
        <5>1. PICK n \in Taken : \E i \in DOMAIN state[n].mounts :
                IsSharedKey(KeyOf(<<n, i>>)) /\ q = Pair(n, KeyOf(<<n, i>>))
          BY <3>2
        <5>2. PICK i \in DOMAIN state[n].mounts :
                IsSharedKey(KeyOf(<<n, i>>)) /\ q = Pair(n, KeyOf(<<n, i>>))
          BY <5>1
        <5>3. <<n, i>> \in Reported /\ <<n, i>>[1] = n
          BY <2>5
        <5>4. <<n, i>> \in SharedMounts
          BY <2>2, <5>2, <5>3 DEF SharedMounts
        <5> QED BY ONLY <5>2, <5>3, <5>4
      <4>2. ASSUME NEW q, NEW p \in SharedMounts, q = Pair(p[1], KeyOf(p)) PROVE q \in SharedPairs
        <5>1. p \in Reported /\ IsSharedKey(KeyOf(p))
          BY <2>2, <4>2 DEF SharedMounts
        <5>2. PICK n \in Taken : \E i \in DOMAIN state[n].mounts : p = <<n, i>>
          BY <2>5, <5>1
        <5>3. PICK i \in DOMAIN state[n].mounts : p = <<n, i>>
          BY <5>2
        <5>4. q = Pair(n, KeyOf(<<n, i>>)) /\ IsSharedKey(KeyOf(<<n, i>>))
          BY ONLY <4>2, <5>1, <5>3
        <5> QED BY ONLY <3>2, <5>4, n \in Taken, i \in DOMAIN state[n].mounts
      <4> QED BY ONLY <4>1, <4>2
    <3> QED BY ONLY <3>3
  <2>9. \A p : <<p[1], KeyOf(p)>> = Pair(p[1], KeyOf(p))
    BY DEF Pair
  <2> QED BY <2>3, <2>7, <2>8, <2>9 DEF FoldInv, FoldedAreOtherClients
<1> QED BY <1>1, <1>2, <1>3, PTL DEF Spec

\* A pass adds to the sum over the keys seen what its new places have.
LEMMA FreshSum ==
  ASSUME NEW keys, NEW N \in Nat, DOMAIN keys = 1 .. N, NEW S, IsFiniteSet(S), NEW column, NEW u,
         \A i \in 1 .. N : column[i] \in Nat /\ column[i] = u[keys[i]],
         \A k \in S : u[k] \in Nat
  PROVE  SumAt(u, S \cup Range(keys)) = SumAt(u, S) + SumAt(column, New(keys, S))
<1> DEFINE I == New(keys, S)
           K == Range(keys) \ S
<1>1. I \in SUBSET (1 .. N)
  BY DEF New
<1>2. /\ IsFiniteSet(I) /\ IsFiniteSet(Range(keys)) /\ Range(Restrict(keys, I)) = K
      /\ \A i, j \in I : keys[i] = keys[j] => i = j
  BY NewOnce
<1>3. {keys[i] : i \in I} = K
  BY <1>2 DEF Restrict, Range
<1>4. IsFiniteSet(K) /\ S \cap K = {} /\ S \cup K = S \cup Range(keys)
  BY <1>2, FS_Difference
<1>5. \A k \in K : u[k] \in Nat
  BY DEF Range
<1> HIDE DEF I, K
<1>6. SumAt(u, {keys[i] : i \in I}) = SumAt(column, I)
  <2>1. \A i \in I : column[i] \in Int /\ column[i] = u[keys[i]]
    BY <1>1
  <2>2. IsFiniteSet(I) /\ \A x, y \in I : keys[x] = keys[y] => x = y
    BY <1>2
  <2> QED BY ONLY <2>1, <2>2, SumImage
<1>7. SumAt(u, K) = SumAt(column, I)
  BY <1>3, <1>6
<1>8. SumAt(u, S \cup K) = SumAt(u, S) + SumAt(u, K)
  <2>1. \A k \in S \cup K : u[k] \in Int
    BY <1>5
  <2> QED BY <1>4, <2>1, SumUnion
<1>9. SumAt(u, S \cup K) = SumAt(u, S \cup Range(keys))
  BY <1>4
<1> QED BY <1>7, <1>8, <1>9 DEF I

\* The size that stands in a key, in the fourth place for either kind of mount.
SizeAt(k) == IF k[4] = NA THEN 0 ELSE k[4]
Sizes(S)  == [k \in S |-> SizeAt(k)]

LEMMA KeySize ==
  ASSUME DataInv, NEW n \in Answered, NEW i \in DOMAIN state[n].mounts
  PROVE  /\ Key(n)[i] = MountKey(n, state[n].mounts[i])
         /\ SizeAt(Key(n)[i]) = Size(state[n].mounts)[i] /\ SizeAt(Key(n)[i]) \in Nat
<1> DEFINE m == state[n].mounts[i]
<1>1. m \in Mount /\ Size(state[n].mounts)[i] \in Nat
  BY Columns
<1>2. Key(n)[i] = MountKey(n, m)
  BY DEF Key, MountKeys
<1>3. MountKey(n, m)[4] = m.blocks_1k
  BY DEF MountKey
<1>4. "blocks_1k" \in DOMAIN m
  BY <1>1 DEF Mount
<1>5. Size(state[n].mounts)[i] = IF m.blocks_1k = NA THEN 0 ELSE m.blocks_1k
  BY <1>4 DEF Size, Number, NumberOr
<1> QED BY <1>1, <1>2, <1>3, <1>5 DEF SizeAt

LEMMA SeenSizes ==
  ASSUME TypeInv PROVE IsFiniteSet(seen) /\ \A k \in seen : SizeAt(k) \in Nat
<1> SUFFICES ASSUME NEW k \in seen PROVE SizeAt(k) \in Nat
  BY DEF TypeInv, CountInv
<1>1. PICK n \in Taken : k \in Keys(n)
  BY DEF TypeInv, CountInv
<1>2. n \in Answered /\ DataInv
  BY DEF TypeInv, CountInv
<1>3. PICK i \in DOMAIN state[n].mounts : k = Key(n)[i]
  BY <1>1 DEF Keys, Key, MountKeys, Range
<1> QED BY <1>2, <1>3, KeySize

\* What a node reports is the sum over its keys.
LEMMA RowSize ==
  ASSUME DataInv, NEW n \in Answered, NEW S, Keys(n) \subseteq S
  PROVE  Row(n).size_gb = SumAt(Sizes(S), Keys(n))
<1> DEFINE m == state[n].mounts
           u == Sizes(S)
           key == Key(n)
<1>1. /\ Len(m) \in Nat /\ DOMAIN key = 1 .. Len(m) /\ DOMAIN m = 1 .. Len(m)
      /\ Keys(n) = Range(key)
  BY Places
<1>2. \A i \in 1 .. Len(m) : Size(m)[i] \in Nat /\ Size(m)[i] = u[key[i]]
  <2> SUFFICES ASSUME NEW i \in 1 .. Len(m) PROVE Size(m)[i] \in Nat /\ Size(m)[i] = u[key[i]]
    OBVIOUS
  <2>1. SizeAt(key[i]) = Size(m)[i] /\ Size(m)[i] \in Nat
    BY <1>1, KeySize
  <2>2. key[i] \in S
    BY <1>1 DEF Range
  <2> QED BY <2>1, <2>2 DEF Sizes
<1>3. Row(n).size_gb = SumAt(Size(m), New(key, {}))
  BY DEF Row, Key
<1> HIDE DEF m, u, key
<1>4. SumAt(u, {} \cup Range(key)) = SumAt(u, {}) + SumAt(Size(m), New(key, {}))
  BY <1>1, <1>2, FS_EmptySet, FreshSum
<1>5. SumAt(u, {}) = 0 /\ SumAt(Size(m), New(key, {})) \in Nat
  BY <1>1, <1>2, SumEmpty, NewPlaces
<1>6. {} \cup Range(key) = Keys(n)
  BY <1>1
<1> DEFINE a == SumAt(Size(m), New(key, {}))
<1>7. SumAt(u, Keys(n)) = 0 + a /\ a \in Nat
  BY <1>4, <1>5, <1>6
<1> HIDE DEF a
<1>8. SumAt(u, Keys(n)) = a
  BY <1>7
<1> QED BY <1>3, <1>8 DEF a, u

CapacityInv == TypeInv /\ total.size = SumAt(Sizes(seen), seen)

LEMMA SeenGrows ==
  ASSUME TypeInv, NEW n \in Node, Take(n) PROVE seen' = seen \cup Range(Key(n))
<1>1. DataInv /\ n \in Answered
  BY TakeNode
<1>2. Range(Restrict(Key(n), Fresh(n))) = Range(Key(n)) \ seen
  BY <1>1, Places, NewOnce DEF Fresh
<1> QED BY <1>2, TakeFacts

LEMMA TakeCapacity ==
  ASSUME CapacityInv, NEW n \in Node, Take(n) PROVE CapacityInv'
<1> DEFINE m == state[n].mounts
           u == Sizes(seen')
           key == Key(n)
<1>1. /\ TypeInv /\ TypeInv' /\ DataInv /\ n \in Answered
      /\ total.size = SumAt(Sizes(seen), seen)
      /\ seen' = seen \cup Range(key)
      /\ total'.size = total.size + SumAt(Size(m), New(key, seen))
  BY TakeType, TakeNode, TakeFacts, SeenGrows DEF CapacityInv, Fresh
<1>2. Len(m) \in Nat /\ DOMAIN key = 1 .. Len(m) /\ DOMAIN m = 1 .. Len(m)
  BY <1>1, Places
<1>3. IsFiniteSet(seen) /\ \A k \in seen : SizeAt(k) \in Nat
  BY <1>1, SeenSizes
<1>4. \A i \in 1 .. Len(m) : Size(m)[i] \in Nat /\ Size(m)[i] = u[key[i]]
  <2> SUFFICES ASSUME NEW i \in 1 .. Len(m) PROVE Size(m)[i] \in Nat /\ Size(m)[i] = u[key[i]]
    OBVIOUS
  <2>1. SizeAt(key[i]) = Size(m)[i] /\ Size(m)[i] \in Nat
    BY <1>1, <1>2, KeySize
  <2>2. key[i] \in seen'
    BY <1>1, <1>2 DEF Range
  <2> QED BY <2>1, <2>2 DEF Sizes
<1>5. \A k \in seen : u[k] \in Nat /\ u[k] \in Int /\ Sizes(seen)[k] \in Int /\ Sizes(seen)[k] = u[k]
  BY <1>1, <1>3 DEF Sizes
<1>6. SumAt(Sizes(seen), seen) = SumAt(u, seen)
  <2> DEFINE v == Sizes(seen)
  <2> HIDE DEF u, v
  <2>1. \A k \in seen : v[k] \in Int /\ v[k] = u[k]
    BY <1>5 DEF v
  <2>2. SumAt(v, seen) = SumAt(u, seen)
    BY <1>3, <2>1, SumSame
  <2> QED BY <2>2 DEF v
<1> HIDE DEF m, key, u
<1>7. SumAt(u, seen \cup Range(key)) = SumAt(u, seen) + SumAt(Size(m), New(key, seen))
  BY <1>2, <1>3, <1>4, <1>5, FreshSum
<1>8. SumAt(u, seen') = total'.size
  BY <1>1, <1>6, <1>7
<1> QED BY <1>1, <1>8 DEF CapacityInv, u, Sizes, SizeAt

\* The capacity of the cluster row is that of the distinct filesystems, each
\* counted once, and no node reports more than the cluster, for any number of
\* clients, paths and sizes.
THEOREM EachCapacityOnce == Spec => []CapacityCountedOnce
<1>1. Init => CapacityInv
  <2> SUFFICES ASSUME Init PROVE CapacityInv
    OBVIOUS
  <2>1. seen = {} /\ total.size = 0
    BY DEF Init
  <2>2. SumAt(Sizes(seen), seen) = 0
    BY <2>1, SumEmpty
  <2> QED BY <2>1, <2>2, InitType DEF CapacityInv
<1>2. CapacityInv /\ [Next]_vars => CapacityInv'
  <2> SUFFICES ASSUME CapacityInv, [Next]_vars PROVE CapacityInv'
    OBVIOUS
  <2>1. CASE \E n \in Node : Take(n)
    BY <2>1, TakeCapacity
  <2>2. CASE UNCHANGED vars
    <3>1. TypeInv' /\ UNCHANGED <<seen, total>>
      BY <2>2, StutterType DEF CapacityInv, vars
    <3> QED BY <3>1 DEF CapacityInv, Sizes, SizeAt
  <2> QED BY <2>1, <2>2 DEF Next, Over
<1>3. CapacityInv => CapacityCountedOnce
  <2> SUFFICES ASSUME CapacityInv PROVE CapacityCountedOnce
    OBVIOUS
  <2>1. TypeInv /\ total.size = SumAt(Sizes(seen), seen)
    BY DEF CapacityInv
  <2>2. {KeyOf(p) : p \in Reported} = seen
    BY <2>1, ReportedKeys DEF TypeInv
  <2>3. total.size = SumAt([k \in seen |-> IF k[4] = NA THEN 0 ELSE k[4]], seen)
    BY <2>1 DEF Sizes, SizeAt
  <2>4. ASSUME NEW n \in Taken PROVE nodes[n].size_gb <= total.size
    <3>1. n \in Answered /\ DataInv /\ nodes[n] = Row(n) /\ Keys(n) \in SUBSET seen
      BY <2>1 DEF TypeInv, CountInv
    <3>2. Row(n).size_gb = SumAt(Sizes(seen), Keys(n))
      BY <3>1, RowSize
    <3> DEFINE u == Sizes(seen)
    <3>3. IsFiniteSet(seen) /\ \A k \in seen : u[k] \in Nat
      BY <2>1, SeenSizes DEF Sizes
    <3> HIDE DEF u
    <3>4. SumAt(u, Keys(n)) <= SumAt(u, seen)
      BY <3>1, <3>3, SumSubset
    <3> QED BY <2>1, <3>1, <3>2, <3>4 DEF u
  <2>5. /\ LET keys == {KeyOf(p) : p \in Reported}
           IN  total.size = SumAt([k \in keys |-> IF k[4] = NA THEN 0 ELSE k[4]], keys)
    BY <2>2, <2>3
  <2> QED BY <2>4, <2>5 DEF CapacityCountedOnce
<1> QED BY <1>1, <1>2, <1>3, PTL DEF Spec
-----------------------------------------------------------------------------
(* The order of the nodes. *)

\* N places with keys and percentages, equal ones for equal keys; V holds the
\* percentages of the keys of S.
Keyed(keys, N, S, column, V) ==
  /\ N \in Nat /\ DOMAIN keys = 1 .. N
  /\ \A i \in 1 .. N : column[i] \in Percentages
  /\ V \in SUBSET Percentages
  /\ \A i \in 1 .. N : keys[i] \in S => column[i] \in V
  /\ \A i, j \in 1 .. N : keys[i] = keys[j] => column[i] = column[j]

\* Taking only places with new keys loses nothing of the highest value, when
\* equal keys have equal values.
LEMMA TopStep ==
  ASSUME NEW keys, NEW N, NEW S, NEW column, NEW V, Keyed(keys, N, S, column, V),
         NEW x, IsTop(x, V)
  PROVE  IsTop(Highest(column, New(keys, S), x), V \cup {column[i] : i \in 1 .. N})
<1> SUFFICES ASSUME N \in Nat, DOMAIN keys = 1 .. N,
                    \A i \in 1 .. N : column[i] \in Percentages,
                    V \in SUBSET Percentages,
                    \A i \in 1 .. N : keys[i] \in S => column[i] \in V,
                    \A i, j \in 1 .. N : keys[i] = keys[j] => column[i] = column[j]
             PROVE  IsTop(Highest(column, New(keys, S), x), V \cup {column[i] : i \in 1 .. N})
  BY DEF Keyed
<1> DEFINE I == New(keys, S)
           h == Highest(column, I, x)
<1>1. /\ IsFiniteSet(I) /\ I \in SUBSET (1 .. N)
      /\ Range(Restrict(keys, I)) = Range(keys) \ S
  BY NewOnce, NewPlaces
<1>2. x \in Percentages
  BY DEF IsTop, Percentages
<1>3. \A i \in 1 .. N : keys[i] \notin S => \E j \in I : keys[j] = keys[i]
  <2> SUFFICES ASSUME NEW i \in 1 .. N, keys[i] \notin S PROVE \E j \in I : keys[j] = keys[i]
    OBVIOUS
  <2>1. keys[i] \in Range(Restrict(keys, I))
    BY <1>1 DEF Range
  <2> QED BY <2>1 DEF Range, Restrict
<1> HIDE DEF I
<1>4. IsTop(h, {column[i] : i \in I} \cup {x}) /\ h \in Percentages
  <2>1. \A i \in I : column[i] \in Percentages
    BY <1>1
  <2> QED BY <1>1, <1>2, <2>1, HighestTop
<1> HIDE DEF h
<1>5. x <= h /\ x \in Int /\ h \in Int
  <2>1. x \in Int /\ h \in Int
    BY <1>2, <1>4 DEF Percentages, Unknown
  <2>2. x <= h
    BY <1>4 DEF IsTop
  <2> QED BY <2>1, <2>2
<1>6. ASSUME NEW v \in V PROVE v <= h
  <2>1. v <= x /\ v \in Int
    BY DEF IsTop, Percentages, Unknown
  <2> QED BY <1>5, <2>1
<1>7. ASSUME NEW i \in 1 .. N PROVE column[i] <= h
  <2>1. CASE keys[i] \in S
    BY <1>6, <2>1
  <2>2. CASE keys[i] \notin S
    <3>1. PICK j \in I : keys[j] = keys[i]
      BY <1>3, <2>2
    <3>2. column[i] = column[j]
      BY <1>1, <3>1
    <3> QED BY <1>4, <3>2 DEF IsTop
  <2> QED BY <2>1, <2>2
<1>8. h \in V \cup {column[i] : i \in 1 .. N}
  BY <1>1, <1>4 DEF IsTop
<1> QED BY <1>6, <1>7, <1>8 DEF IsTop, h, I

\* Nor of the lowest one.
LEMMA BottomStep ==
  ASSUME NEW keys, NEW N, NEW S, NEW column, NEW V, Keyed(keys, N, S, column, V),
         NEW x, IsBottom(x, V)
  PROVE  IsBottom(Lowest(Range(Restrict(column, New(keys, S))) \cup {x}),
                  V \cup {column[i] : i \in 1 .. N})
<1> SUFFICES ASSUME N \in Nat, DOMAIN keys = 1 .. N,
                    \A i \in 1 .. N : column[i] \in Percentages,
                    V \in SUBSET Percentages,
                    \A i \in 1 .. N : keys[i] \in S => column[i] \in V,
                    \A i, j \in 1 .. N : keys[i] = keys[j] => column[i] = column[j]
             PROVE  IsBottom(Lowest(Range(Restrict(column, New(keys, S))) \cup {x}),
                             V \cup {column[i] : i \in 1 .. N})
  BY DEF Keyed
<1> DEFINE I == New(keys, S)
           W == Range(Restrict(column, I)) \cup {x}
           h == Lowest(W)
           A == V \cup {column[i] : i \in 1 .. N}
<1>1. /\ IsFiniteSet(I) /\ I \in SUBSET (1 .. N)
      /\ Range(Restrict(keys, I)) = Range(keys) \ S
  BY NewOnce, NewPlaces
<1>2. x \in Percentages
  BY DEF IsBottom, Percentages
<1>3. \A i \in 1 .. N : keys[i] \notin S => \E j \in I : keys[j] = keys[i]
  <2> SUFFICES ASSUME NEW i \in 1 .. N, keys[i] \notin S PROVE \E j \in I : keys[j] = keys[i]
    OBVIOUS
  <2>1. keys[i] \in Range(Restrict(keys, I))
    BY <1>1 DEF Range
  <2> QED BY <2>1 DEF Range, Restrict
<1> HIDE DEF I
<1>4. W = {column[i] : i \in I} \cup {x}
  BY DEF Restrict, Range
<1>5. IsFiniteSet(W) /\ W \in SUBSET Percentages
  <2>1. IsFiniteSet({column[i] : i \in I})
    BY <1>1, ImageFinite
  <2> DEFINE C == {column[i] : i \in I}
  <2> HIDE DEF C, W
  <2>2. IsFiniteSet(C \cup {x})
    BY <2>1, FS_AddElement DEF C
  <2>3. C \subseteq Percentages
    BY <1>1 DEF C
  <2> QED BY <1>2, <1>4, <2>2, <2>3 DEF C
<1> HIDE DEF W
<1>6. IsBottom(h, W)
  BY <1>5, LowestBottom
<1> HIDE DEF h
<1>7. A \in SUBSET Percentages
  OBVIOUS
<1>8. W \ {Unknown} \subseteq A
  <2>1. x # Unknown => x \in V
    BY DEF IsBottom
  <2> QED BY <1>1, <1>4, <2>1
<1>9. ASSUME NEW v \in A \ {Unknown} PROVE \E w \in W \ {Unknown} : w <= v
  <2>1. ASSUME v \in V PROVE \E w \in W \ {Unknown} : w <= v
    <3>1. x \in V \ {Unknown} /\ x <= v
      BY <2>1 DEF IsBottom
    <3> QED BY <1>4, <3>1
  <2>2. ASSUME v \notin V PROVE \E w \in W \ {Unknown} : w <= v
    <3>1. PICK i \in 1 .. N : v = column[i]
      BY <2>2
    <3>2. keys[i] \notin S
      BY <2>2, <3>1
    <3>3. PICK j \in I : keys[j] = keys[i]
      BY <1>3, <3>2
    <3>4. column[j] = v
      BY <1>1, <3>1, <3>3
    <3>5. v \in W
      BY <1>4, <3>4
    <3>6. v <= v
      BY <1>7 DEF Percentages, Unknown
    <3> QED BY <3>5, <3>6
  <2> QED BY <2>1, <2>2
<1> HIDE DEF A
<1>10. IsBottom(h, A)
  <2>1. CASE W \ {Unknown} = {}
    <3>1. A \ {Unknown} = {}
      BY <1>9, <2>1
    <3> QED BY <1>6, <2>1, <3>1 DEF IsBottom
  <2>2. CASE W \ {Unknown} # {}
    <3>1. h \in W \ {Unknown} /\ \A w \in W \ {Unknown} : h <= w
      BY <1>6, <2>2 DEF IsBottom
    <3>2. h \in A \ {Unknown}
      BY <1>8, <3>1
    <3>3. ASSUME NEW v \in A \ {Unknown} PROVE h <= v
      <4>1. PICK w \in W \ {Unknown} : w <= v
        BY <1>9
      <4>2. h <= w
        BY <3>1
      <4>3. h \in Int /\ w \in Int /\ v \in Int
        BY <1>5, <1>7, <3>1 DEF Percentages, Unknown
      <4> QED BY <4>1, <4>2, <4>3
    <3> QED BY <3>2, <3>3 DEF IsBottom
  <2> QED BY <2>1, <2>2
<1> QED BY <1>10 DEF A, h, W, I

\* The columns of node n's mounts, the nodes of T agreeing on every key, and
\* what they say together.
MUsed(n) == Used(state[n].mounts)
MPct(n)  == Pct(state[n].mounts)

Agreed(T) ==
  \A n, k \in T :
    /\ \A i \in DOMAIN Key(n), j \in DOMAIN Key(k) :
         Key(n)[i] = Key(k)[j] => MUsed(n)[i] = MUsed(k)[j] /\ MPct(n)[i] = MPct(k)[j]
    /\ \A i \in DOMAIN BKey(n), j \in DOMAIN BKey(k) : BKey(n)[i] = BKey(k)[j] => BFree(n)[i] = BFree(k)[j]
    /\ \A i \in DOMAIN LKey(n), j \in DOMAIN LKey(k) : LKey(n)[i] = LKey(k)[j] => LUse(n)[i] = LUse(k)[j]

AllPct(T)  == UNION {{MPct(n)[i] : i \in DOMAIN Key(n)} : n \in T}
AllFree(T) == UNION {{BFree(n)[i] : i \in DOMAIN BKey(n)} : n \in T}
AllUse(T)  == UNION {{LUse(n)[i] : i \in DOMAIN LKey(n)} : n \in T}

\* The listings of a node, with their columns.
LEMMA Listings ==
  ASSUME DataInv, NEW n \in Answered
  PROVE  /\ \E N \in Nat : /\ DOMAIN Key(n) = 1 .. N /\ DOMAIN state[n].mounts = 1 .. N
                           /\ \A i \in 1 .. N : MUsed(n)[i] \in Nat /\ MPct(n)[i] \in Percentages
         /\ \E N \in Nat : /\ DOMAIN BKey(n) = 1 .. N /\ DOMAIN BFree(n) = 1 .. N
                           /\ \A i \in 1 .. N : BFree(n)[i] \in Percentages
         /\ \E N \in Nat : /\ DOMAIN LKey(n) = 1 .. N /\ DOMAIN LUse(n) = 1 .. N
                           /\ \A i \in 1 .. N : LUse(n)[i] \in Percentages
<1>1. \E N \in Nat : /\ DOMAIN Key(n) = 1 .. N /\ DOMAIN state[n].mounts = 1 .. N
                     /\ \A i \in 1 .. N : MUsed(n)[i] \in Nat /\ MPct(n)[i] \in Percentages
  <2> DEFINE m == state[n].mounts
  <2>1. /\ Len(m) \in Nat /\ DOMAIN m = 1 .. Len(m) /\ DOMAIN Key(n) = 1 .. Len(m)
        /\ \A i \in DOMAIN m : Used(m)[i] \in Nat /\ Pct(m)[i] \in Percentages
    BY Columns DEF Key
  <2> QED BY <2>1 DEF MUsed, MPct
<1>2. \E N \in Nat : /\ DOMAIN BKey(n) = 1 .. N /\ DOMAIN BFree(n) = 1 .. N
                     /\ \A i \in 1 .. N : BFree(n)[i] \in Percentages
  <2> DEFINE b == BeegfsRows(state[n])
  <2>1. /\ Len(b) \in Nat /\ DOMAIN BKey(n) = 1 .. Len(b) /\ DOMAIN BFree(n) = 1 .. Len(b)
        /\ \A i \in 1 .. Len(b) : BFree(n)[i] \in Nat
    BY TargetColumns DEF BKey, BFree
  <2> QED BY <2>1 DEF Percentages
<1>3. \E N \in Nat : /\ DOMAIN LKey(n) = 1 .. N /\ DOMAIN LUse(n) = 1 .. N
                     /\ \A i \in 1 .. N : LUse(n)[i] \in Percentages
  <2> DEFINE l == LustreRows(state[n])
  <2>1. /\ Len(l) \in Nat /\ DOMAIN LKey(n) = 1 .. Len(l) /\ DOMAIN LUse(n) = 1 .. Len(l)
        /\ \A i \in 1 .. Len(l) : LUse(n)[i] \in Nat
    BY TargetColumns DEF LKey, LUse
  <2> QED BY <2>1 DEF Percentages
<1> QED BY <1>1, <1>2, <1>3

LEMMA AllTyped ==
  ASSUME DataInv, NEW T \in SUBSET Answered
  PROVE  AllPct(T) \subseteq Percentages /\ AllFree(T) \subseteq Percentages
         /\ AllUse(T) \subseteq Percentages
<1>1. \A n \in T : /\ \A i \in DOMAIN Key(n) : MPct(n)[i] \in Percentages
                   /\ \A i \in DOMAIN BKey(n) : BFree(n)[i] \in Percentages
                   /\ \A i \in DOMAIN LKey(n) : LUse(n)[i] \in Percentages
  BY Listings
<1> QED BY <1>1 DEF AllPct, AllFree, AllUse

\* While the nodes taken agree, the totals are the highest, the lowest and the
\* sum of all they say; u is any column that has, for each key, what they say.
SpaceUsed == \A u : (\A n \in Taken : \A i \in DOMAIN Key(n) : u[Key(n)[i]] = MUsed(n)[i])
                      => total.used = SumAt(u, seen)

OrderInv == /\ SeenInv
            /\ Agreed(Taken) => /\ IsTop(total.worst, AllPct(Taken) \cup {Unknown})
                                /\ IsBottom(beegfs.free, AllFree(Taken))
                                /\ IsTop(lustre.use, AllUse(Taken) \cup {Unknown})
                                /\ SpaceUsed

LEMMA InitOrder == Init => OrderInv
<1> SUFFICES ASSUME Init PROVE OrderInv
  OBVIOUS
<1>1. /\ Taken = {} /\ total.worst = Unknown /\ beegfs.free = Unknown /\ lustre.use = Unknown
      /\ total.used = 0 /\ seen = {}
  BY DEF Init, Taken
<1>2. AllPct(Taken) = {} /\ AllFree(Taken) = {} /\ AllUse(Taken) = {}
  BY <1>1 DEF AllPct, AllFree, AllUse
<1>3. IsTop(Unknown, {} \cup {Unknown}) /\ IsBottom(Unknown, {})
  BY DEF IsTop, IsBottom, Unknown
<1>4. SpaceUsed
  BY <1>1, SumEmpty DEF SpaceUsed
<1> QED BY <1>1, <1>2, <1>3, <1>4, InitSeen DEF OrderInv

LEMMA TakeOrder ==
  ASSUME OrderInv, NEW n \in Node, Take(n) PROVE OrderInv'
<1> DEFINE T == Taken
           U == Taken \cup {n}
<1>1. /\ SeenInv /\ SeenInv' /\ TypeInv /\ DataInv /\ n \in Answered /\ U \in SUBSET Answered
      /\ n \notin T
  BY TakeSeen, TakeNode, TakenFinite DEF OrderInv, SeenInv
<1>2. /\ Taken' = U /\ output' = output /\ state' = state
      /\ seen' = seen \cup Range(Key(n))
      /\ total'.used = total.used + SumAt(MUsed(n), Fresh(n))
      /\ total'.worst = Highest(MPct(n), Fresh(n), total.worst)
      /\ beegfs'.free = Lowest(Range(Restrict(BFree(n), BFresh(n))) \cup {beegfs.free})
      /\ lustre'.use = Highest(LUse(n), LFresh(n), lustre.use)
  BY <1>1, TakeFacts, SeenGrows DEF MUsed, MPct
<1>3. /\ Agreed(Taken)' <=> Agreed(U)
      /\ AllPct(Taken)' = AllPct(U) /\ AllFree(Taken)' = AllFree(U) /\ AllUse(Taken)' = AllUse(U)
      /\ \A x : Key(x)' = Key(x) /\ MUsed(x)' = MUsed(x)
  BY <1>2 DEF Agreed, AllPct, AllFree, AllUse, Key, MountKeys, MountKey, BKey, LKey, BFree, LUse,
              MUsed, MPct
<1> SUFFICES ASSUME Agreed(U)
             PROVE  /\ IsTop(total'.worst, AllPct(U) \cup {Unknown})
                    /\ IsBottom(beegfs'.free, AllFree(U))
                    /\ IsTop(lustre'.use, AllUse(U) \cup {Unknown})
                    /\ SpaceUsed'
  BY <1>1, <1>3 DEF OrderInv
<1>4. /\ Agreed(T)
      /\ IsTop(total.worst, AllPct(T) \cup {Unknown}) /\ IsBottom(beegfs.free, AllFree(T))
      /\ IsTop(lustre.use, AllUse(T) \cup {Unknown}) /\ SpaceUsed
  BY DEF Agreed, OrderInv
<1>5. AllPct(T) \subseteq Percentages /\ AllFree(T) \subseteq Percentages
      /\ AllUse(T) \subseteq Percentages
  BY <1>1, AllTyped
<1>6. \A x \in T : \A i \in DOMAIN Key(n), j \in DOMAIN Key(x) :
        Key(n)[i] = Key(x)[j] => MUsed(n)[i] = MUsed(x)[j] /\ MPct(n)[i] = MPct(x)[j]
  BY DEF Agreed
<1>7. PICK N \in Nat : /\ DOMAIN Key(n) = 1 .. N
                       /\ \A i \in 1 .. N : MUsed(n)[i] \in Nat /\ MPct(n)[i] \in Percentages
  BY <1>1, Listings
<1>8. IsTop(total'.worst, AllPct(U) \cup {Unknown})
  <2>1. \A i \in 1 .. N : Key(n)[i] \in seen => MPct(n)[i] \in AllPct(T)
    <3> SUFFICES ASSUME NEW i \in 1 .. N, Key(n)[i] \in seen PROVE MPct(n)[i] \in AllPct(T)
      OBVIOUS
    <3>1. PICK x \in T : Key(n)[i] \in Keys(x)
      BY <1>1 DEF TypeInv, CountInv
    <3>2. PICK j \in DOMAIN Key(x) : Key(n)[i] = Key(x)[j]
      BY <3>1 DEF Keys, Key, Range
    <3>3. MPct(n)[i] = MPct(x)[j]
      BY <1>6, <1>7, <3>2
    <3> QED BY <3>2, <3>3 DEF AllPct
  <2>2. \A i, j \in 1 .. N : Key(n)[i] = Key(n)[j] => MPct(n)[i] = MPct(n)[j]
    BY <1>7 DEF Agreed
  <2> DEFINE key == Key(n)
             col == MPct(n)
             V   == AllPct(T) \cup {Unknown}
             x   == total.worst
             S   == seen
  <2>3. Keyed(key, N, S, col, V) /\ IsTop(x, V)
    BY <1>4, <1>5, <1>7, <2>1, <2>2 DEF Keyed, Percentages
  <2>4. AllPct(U) \cup {Unknown} = V \cup {col[i] : i \in 1 .. N}
    BY <1>7 DEF AllPct
  <2>5. total'.worst = Highest(col, New(key, S), x)
    BY <1>2 DEF Fresh
  <2> HIDE DEF key, col, V, x, S
  <2>6. IsTop(Highest(col, New(key, S), x), V \cup {col[i] : i \in 1 .. N})
    BY <2>3, TopStep
  <2> QED BY <2>4, <2>5, <2>6
<1>9. IsTop(lustre'.use, AllUse(U) \cup {Unknown})
  <2>1. PICK M \in Nat : DOMAIN LKey(n) = 1 .. M /\ \A i \in 1 .. M : LUse(n)[i] \in Percentages
    BY <1>1, Listings
  <2>2. \A i \in 1 .. M : LKey(n)[i] \in lustre.seen => LUse(n)[i] \in AllUse(T)
    <3> SUFFICES ASSUME NEW i \in 1 .. M, LKey(n)[i] \in lustre.seen PROVE LUse(n)[i] \in AllUse(T)
      OBVIOUS
    <3>1. PICK x \in T : LKey(n)[i] \in Range(LKey(x))
      BY <1>1 DEF SeenInv
    <3>2. PICK j \in DOMAIN LKey(x) : LKey(n)[i] = LKey(x)[j]
      BY <3>1 DEF Range
    <3>3. LUse(n)[i] = LUse(x)[j]
      BY <2>1, <3>2 DEF Agreed
    <3> QED BY <3>2, <3>3 DEF AllUse
  <2>3. \A i, j \in 1 .. M : LKey(n)[i] = LKey(n)[j] => LUse(n)[i] = LUse(n)[j]
    BY <2>1 DEF Agreed
  <2> DEFINE key == LKey(n)
             col == LUse(n)
             V   == AllUse(T) \cup {Unknown}
             x   == lustre.use
             S   == lustre.seen
  <2>4. Keyed(key, M, S, col, V) /\ IsTop(x, V)
    BY <1>4, <1>5, <2>1, <2>2, <2>3 DEF Keyed, Percentages
  <2>5. AllUse(U) \cup {Unknown} = V \cup {col[i] : i \in 1 .. M}
    BY <2>1 DEF AllUse
  <2>6. lustre'.use = Highest(col, New(key, S), x)
    BY <1>2 DEF LFresh
  <2> HIDE DEF key, col, V, x, S
  <2>7. IsTop(Highest(col, New(key, S), x), V \cup {col[i] : i \in 1 .. M})
    BY <2>4, TopStep
  <2> QED BY <2>5, <2>6, <2>7
<1>10. IsBottom(beegfs'.free, AllFree(U))
  <2>1. PICK M \in Nat : DOMAIN BKey(n) = 1 .. M /\ \A i \in 1 .. M : BFree(n)[i] \in Percentages
    BY <1>1, Listings
  <2>2. \A i \in 1 .. M : BKey(n)[i] \in beegfs.seen => BFree(n)[i] \in AllFree(T)
    <3> SUFFICES ASSUME NEW i \in 1 .. M, BKey(n)[i] \in beegfs.seen PROVE BFree(n)[i] \in AllFree(T)
      OBVIOUS
    <3>1. PICK x \in T : BKey(n)[i] \in Range(BKey(x))
      BY <1>1 DEF SeenInv
    <3>2. PICK j \in DOMAIN BKey(x) : BKey(n)[i] = BKey(x)[j]
      BY <3>1 DEF Range
    <3>3. BFree(n)[i] = BFree(x)[j]
      BY <2>1, <3>2 DEF Agreed
    <3> QED BY <3>2, <3>3 DEF AllFree
  <2>3. \A i, j \in 1 .. M : BKey(n)[i] = BKey(n)[j] => BFree(n)[i] = BFree(n)[j]
    BY <2>1 DEF Agreed
  <2> DEFINE key == BKey(n)
             col == BFree(n)
             V   == AllFree(T)
             x   == beegfs.free
             S   == beegfs.seen
  <2>4. Keyed(key, M, S, col, V) /\ IsBottom(x, V)
    BY <1>4, <1>5, <2>1, <2>2, <2>3 DEF Keyed
  <2>5. AllFree(U) = V \cup {col[i] : i \in 1 .. M}
    BY <2>1 DEF AllFree
  <2>6. beegfs'.free = Lowest(Range(Restrict(col, New(key, S))) \cup {x})
    BY <1>2 DEF BFresh
  <2> HIDE DEF key, col, V, x, S
  <2>7. IsBottom(Lowest(Range(Restrict(col, New(key, S))) \cup {x}), V \cup {col[i] : i \in 1 .. M})
    BY <2>4, BottomStep
  <2> QED BY <2>5, <2>6, <2>7
<1>11. SpaceUsed'
  <2> SUFFICES ASSUME NEW u, \A x \in U : \A i \in DOMAIN Key(x) : u[Key(x)[i]] = MUsed(x)[i]
               PROVE  total'.used = SumAt(u, seen')
    BY <1>2, <1>3 DEF SpaceUsed
  <2>1. total.used = SumAt(u, seen)
    BY <1>4 DEF SpaceUsed
  <2>2. IsFiniteSet(seen) /\ \A k \in seen : u[k] \in Nat
    <3> SUFFICES ASSUME NEW k \in seen PROVE u[k] \in Nat
      BY <1>1, SeenSizes
    <3>1. PICK x \in T : k \in Keys(x)
      BY <1>1 DEF TypeInv, CountInv
    <3>2. PICK j \in DOMAIN Key(x) : k = Key(x)[j]
      BY <3>1 DEF Keys, Key, Range
    <3>3. MUsed(x)[j] \in Nat
      BY <1>1, <3>2, Listings
    <3> QED BY <3>2, <3>3
  <2> DEFINE key == Key(n)
             col == MUsed(n)
  <2>3. DOMAIN key = 1 .. N /\ \A i \in 1 .. N : col[i] \in Nat /\ col[i] = u[key[i]]
    BY <1>7
  <2>4. total'.used = total.used + SumAt(col, New(key, seen)) /\ seen' = seen \cup Range(key)
    BY <1>2 DEF Fresh
  <2> HIDE DEF key, col
  <2>5. SumAt(u, seen \cup Range(key)) = SumAt(u, seen) + SumAt(col, New(key, seen))
    BY ONLY N \in Nat, <2>2, <2>3, FreshSum
  <2> QED BY <2>1, <2>4, <2>5
<1> QED BY <1>8, <1>9, <1>10, <1>11

LEMMA StutterOrder == ASSUME OrderInv, UNCHANGED vars PROVE OrderInv'
<1>1. SeenInv'
  BY StutterSeen DEF OrderInv
<1>2. UNCHANGED <<output, state, left, nodes, seen, total, shared, beegfs, lustre>>
  BY DEF vars
<1>3. Taken' = Taken
  BY <1>2 DEF Taken
<1>4. \A x : /\ Key(x)' = Key(x) /\ BKey(x)' = BKey(x) /\ LKey(x)' = LKey(x)
            /\ MUsed(x)' = MUsed(x) /\ MPct(x)' = MPct(x)
            /\ BFree(x)' = BFree(x) /\ LUse(x)' = LUse(x)
  BY <1>2 DEF Key, BKey, LKey, BFree, LUse, MUsed, MPct, MountKeys, MountKey
<1>5. Agreed(Taken)' => Agreed(Taken)
  BY <1>3, <1>4 DEF Agreed
<1>6. AllPct(Taken)' = AllPct(Taken) /\ AllFree(Taken)' = AllFree(Taken) /\ AllUse(Taken)' = AllUse(Taken)
  BY <1>3, <1>4 DEF AllPct, AllFree, AllUse
<1>7. SpaceUsed => SpaceUsed'
  BY <1>2, <1>3, <1>4 DEF SpaceUsed
<1> QED BY <1>1, <1>2, <1>5, <1>6, <1>7 DEF OrderInv

LEMMA OrderInvariant == Spec => []OrderInv
<1>1. OrderInv /\ [Next]_vars => OrderInv'
  BY TakeOrder, StutterOrder DEF Next, Over
<1> QED BY <1>1, InitOrder, PTL DEF Spec

\* A has what the nodes of T have, W their worst of it, and x is the worst of A.
Tops(T, V, r, A, x, W) ==
  /\ A = (UNION {V[n] : n \in T}) \cup {Unknown} /\ A \in SUBSET Percentages
  /\ W = {r[n] : n \in T} \cup {Unknown}
  /\ \A n \in T : IsTop(r[n], V[n] \cup {Unknown})
  /\ IsTop(x, A)

\* The worst of the nodes' worst is the worst of all.
LEMMA TopOfTops ==
  ASSUME NEW T, NEW V, NEW r, NEW A, NEW x, NEW W, Tops(T, V, r, A, x, W)
  PROVE  x = Max(W)
<1>1. A \subseteq Int
  <2>1. A \subseteq Percentages
    BY DEF Tops
  <2> QED BY <2>1 DEF Percentages, Unknown
<1>2. W \subseteq A
  <2>1. \A n \in T : r[n] \in V[n] \cup {Unknown}
    BY DEF Tops, IsTop
  <2> QED BY <2>1 DEF Tops
<1>3. x \in A /\ \A w \in W : w <= x
  BY <1>2 DEF Tops, IsTop
<1>4. x \in W
  <2>1. CASE x = Unknown
    BY <2>1 DEF Tops
  <2>2. CASE x # Unknown
    <3>1. PICK n \in T : x \in V[n]
      BY <1>3, <2>2 DEF Tops
    <3>2. x <= r[n] /\ r[n] \in W
      BY <3>1 DEF Tops, IsTop
    <3>3. r[n] <= x /\ r[n] \in Int /\ x \in Int
      BY <1>1, <1>2, <1>3, <3>2
    <3>4. x = r[n]
      BY <3>2, <3>3
    <3> QED BY <3>2, <3>4
  <2> QED BY <2>1, <2>2
<1>5. W \in SUBSET Int
  BY <1>1, <1>2
<1> QED BY <1>3, <1>4, <1>5, HighestIs

\* The nodes of T have the percentages V and r is the lowest of each; x is the
\* lowest of all of them.
Bottoms(T, V, r, x) ==
  /\ \A n \in T : V[n] \in SUBSET Percentages /\ IsBottom(r[n], V[n])
  /\ IsBottom(x, UNION {V[n] : n \in T})

\* The lowest of the nodes' lowest is the lowest of all.
LEMMA BottomOfBottoms ==
  ASSUME NEW T, NEW V, NEW r, NEW x, Bottoms(T, V, r, x)
  PROVE  x = Lowest({r[n] : n \in T})
<1> USE DEF Bottoms
<1> DEFINE A == UNION {V[n] : n \in T}
           W == {r[n] : n \in T}
           B == A \ {Unknown}
           C == W \ {Unknown}
<1>1. B \in SUBSET Nat /\ \A n \in T : V[n] \ {Unknown} \subseteq B
  BY DEF Percentages
<1>2. ASSUME NEW n \in T, r[n] # Unknown
      PROVE  r[n] \in V[n] \ {Unknown} /\ \A v \in V[n] \ {Unknown} : r[n] <= v
  BY <1>2 DEF IsBottom
<1>3. C \subseteq B
  BY <1>1, <1>2
<1>4. ASSUME NEW v \in B PROVE \E w \in C : w <= v
  <2>1. PICK n \in T : v \in V[n] \ {Unknown}
    OBVIOUS
  <2>2. r[n] # Unknown /\ r[n] <= v
    BY <2>1 DEF IsBottom
  <2> QED BY <2>2
<1>5. IF B = {} THEN x = Unknown ELSE x \in B /\ \A v \in B : x <= v
  BY DEF IsBottom
<1> HIDE DEF A, W, B, C
<1>6. CASE C = {}
  <2>1. B = {}
    BY <1>4, <1>6
  <2> QED BY <1>5, <1>6, <2>1 DEF Lowest, C, W
<1>7. CASE C # {}
  <2>1. x \in B /\ \A v \in B : x <= v
    BY <1>3, <1>5, <1>7
  <2>2. PICK w \in C : w <= x
    BY <1>4, <2>1
  <2>3. x <= w /\ x \in Nat /\ w \in Nat
    BY <1>1, <1>3, <2>1
  <2>4. x \in C
    BY <2>2, <2>3
  <2>5. C \in SUBSET Int /\ \A w1 \in C : x <= w1
    BY <1>1, <1>3, <2>1
  <2>6. Min(C) = x
    BY <2>4, <2>5, LowestIs
  <2> QED BY <1>7, <2>6 DEF Lowest, C, W
<1> QED BY <1>6, <1>7

\* What a node's row shows as its worst, when the node agrees with itself.
LEMMA RowExtremes ==
  ASSUME DataInv, NEW n \in Answered,
         \A i, j \in DOMAIN Key(n) : Key(n)[i] = Key(n)[j] => MPct(n)[i] = MPct(n)[j]
  PROVE  /\ IsTop(Row(n).worst_pct, AllPct({n}) \cup {Unknown})
         /\ IsTop(Row(n).lustre_use_pct_max, AllUse({n}) \cup {Unknown})
         /\ IsBottom(Row(n).beegfs_free_pct_min, AllFree({n}))
<1>1. IsTop(Row(n).worst_pct, AllPct({n}) \cup {Unknown})
  <2>1. PICK N \in Nat : DOMAIN Key(n) = 1 .. N /\ \A i \in 1 .. N : MPct(n)[i] \in Percentages
    BY Listings
  <2> DEFINE key == Key(n)
             col == MPct(n)
             V   == {Unknown}
             x   == Unknown
             S   == {}
  <2>2. Keyed(key, N, S, col, V) /\ IsTop(x, V)
    BY <2>1 DEF Keyed, Percentages, IsTop, Unknown
  <2>3. AllPct({n}) \cup {Unknown} = V \cup {col[i] : i \in 1 .. N}
    BY <2>1 DEF AllPct
  <2>4. Row(n).worst_pct = Highest(col, New(key, S), x)
    BY DEF Row, MPct, Key
  <2> HIDE DEF key, col, V, x, S
  <2>5. IsTop(Highest(col, New(key, S), x), V \cup {col[i] : i \in 1 .. N})
    BY <2>2, TopStep
  <2> QED BY <2>3, <2>4, <2>5
<1>2. IsTop(Row(n).lustre_use_pct_max, AllUse({n}) \cup {Unknown})
  <2>1. PICK N \in Nat : DOMAIN LKey(n) = 1 .. N /\ DOMAIN LUse(n) = 1 .. N
                         /\ \A i \in 1 .. N : LUse(n)[i] \in Percentages
    BY Listings
  <2> DEFINE l   == LustreRows(state[n])
             col == LUse(n)
             I   == DOMAIN l
             x   == Unknown
  <2>2. I = 1 .. N
    <3>1. DOMAIN LUse(n) = DOMAIN l
      BY DEF LUse, Use
    <3> QED BY <2>1, <3>1
  <2>3. IsFiniteSet(I) /\ (\A i \in I : col[i] \in Percentages) /\ x \in Percentages
    BY <2>1, <2>2, FS_Interval DEF Percentages
  <2>4. AllUse({n}) \cup {Unknown} = {col[i] : i \in I} \cup {x}
    BY <2>1, <2>2 DEF AllUse
  <2>5. Row(n).lustre_use_pct_max = Highest(col, I, x)
    BY DEF Row, LUse
  <2> HIDE DEF l, col, I, x
  <2>6. IsTop(Highest(col, I, x), {col[i] : i \in I} \cup {x})
    BY ONLY <2>3, HighestTop
  <2> QED BY <2>4, <2>5, <2>6
<1>3. IsBottom(Row(n).beegfs_free_pct_min, AllFree({n}))
  <2>1. PICK N \in Nat : DOMAIN BKey(n) = 1 .. N /\ DOMAIN BFree(n) = 1 .. N
                         /\ \A i \in 1 .. N : BFree(n)[i] \in Percentages
    BY Listings
  <2> DEFINE col == BFree(n)
             V   == {col[i] : i \in 1 .. N}
  <2>2. AllFree({n}) = V /\ Range(col) = V
    BY <2>1 DEF AllFree, Range
  <2>3. Row(n).beegfs_free_pct_min = Lowest(Range(col))
    BY DEF Row, BFree
  <2>4. V \in SUBSET Percentages
    BY <2>1
  <2>5. IsFiniteSet(V)
    <3> HIDE DEF col
    <3>1. IsFiniteSet(1 .. N)
      BY FS_Interval
    <3> DEFINE I == 1 .. N
    <3> HIDE DEF I
    <3>2. IsFiniteSet({col[i] : i \in I})
      BY <3>1, ImageFinite DEF I
    <3> QED BY <3>2 DEF I
  <2> HIDE DEF col, V
  <2>6. IsBottom(Lowest(V), V)
    BY <2>4, <2>5, LowestBottom
  <2> QED BY <2>2, <2>3, <2>6
<1> QED BY <1>1, <1>2, <1>3

\* Clients that agree on every mount and target reported agree key by key.
LEMMA AgreeingClients ==
  ASSUME SeenInv, ClientsAgree PROVE Agreed(Taken)
<1>1. \A n \in Taken : n \in Answered /\ DataInv
  BY DEF SeenInv, TypeInv, CountInv
<1>2. ASSUME NEW n \in Taken, NEW k \in Taken, NEW i \in DOMAIN Key(n), NEW j \in DOMAIN Key(k),
             Key(n)[i] = Key(k)[j]
      PROVE  MUsed(n)[i] = MUsed(k)[j] /\ MPct(n)[i] = MPct(k)[j]
  <2> DEFINE p == <<n, i>>
             q == <<k, j>>
  <2>1. i \in DOMAIN state[n].mounts /\ j \in DOMAIN state[k].mounts
    BY DEF Key, MountKeys
  <2>2. p \in Reported /\ q \in Reported
    BY <2>1 DEF Reported
  <2>3. /\ MountOf(p) = state[n].mounts[i] /\ MountOf(q) = state[k].mounts[j]
        /\ KeyOf(p) = Key(n)[i] /\ KeyOf(q) = Key(k)[j]
    BY <2>1 DEF MountOf, KeyOf, Key, MountKeys
  <2>4. MountOf(p) \in Mount /\ MountOf(q) \in Mount
    <3>1. \A x \in Taken : \A y \in DOMAIN state[x].mounts : state[x].mounts[y] \in Mount
      BY <1>1, Columns
    <3> QED BY <2>1, <2>3, <3>1
  <2> HIDE DEF p, q
  <2>5. MountOf(p).used_1k = MountOf(q).used_1k /\ MountOf(p).pcent = MountOf(q).pcent
    BY <1>2, <2>2, <2>3 DEF ClientsAgree
  <2>6. /\ "used_1k" \in DOMAIN MountOf(p) /\ "used_1k" \in DOMAIN MountOf(q)
        /\ "pcent" \in DOMAIN MountOf(p) /\ "pcent" \in DOMAIN MountOf(q)
    BY <2>4 DEF Mount
  <2>7. /\ Number(MountOf(p), "used_1k") = Number(MountOf(q), "used_1k")
        /\ NumberOr(MountOf(p), "pcent", Unknown) = NumberOr(MountOf(q), "pcent", Unknown)
    BY <2>5, <2>6 DEF Number, NumberOr
  <2>8. /\ MUsed(n)[i] = Number(MountOf(p), "used_1k") /\ MUsed(k)[j] = Number(MountOf(q), "used_1k")
        /\ MPct(n)[i] = NumberOr(MountOf(p), "pcent", Unknown)
        /\ MPct(k)[j] = NumberOr(MountOf(q), "pcent", Unknown)
    BY <2>1, <2>3 DEF MUsed, MPct, Used, Pct
  <2> QED BY <2>7, <2>8
<1>3. ASSUME NEW n \in Taken, NEW k \in Taken, NEW i \in DOMAIN BKey(n), NEW j \in DOMAIN BKey(k),
             BKey(n)[i] = BKey(k)[j]
      PROVE  BFree(n)[i] = BFree(k)[j]
  <2> DEFINE b == BeegfsRows(state[n])
             c == BeegfsRows(state[k])
  <2>1. i \in DOMAIN b /\ j \in DOMAIN c
    BY DEF BKey, BeegfsKeys
  <2>2. b[i] \in Range(b) /\ c[j] \in Range(c)
    BY <2>1 DEF Range
  <2>3. <<b[i].target_id, b[i].pool>> = <<c[j].target_id, c[j].pool>>
    BY <1>3, <2>1 DEF BKey, BeegfsKeys
  <2>4. b[i].free_pct = c[j].free_pct
    BY <2>2, <2>3 DEF ClientsAgree
  <2> QED BY <2>1, <2>4 DEF BFree, Free
<1>4. ASSUME NEW n \in Taken, NEW k \in Taken, NEW i \in DOMAIN LKey(n), NEW j \in DOMAIN LKey(k),
             LKey(n)[i] = LKey(k)[j]
      PROVE  LUse(n)[i] = LUse(k)[j]
  <2> DEFINE l == LustreRows(state[n])
             m == LustreRows(state[k])
  <2>1. i \in DOMAIN l /\ j \in DOMAIN m
    BY DEF LKey, LustreKeys
  <2>2. l[i] \in Range(l) /\ m[j] \in Range(m)
    BY <2>1 DEF Range
  <2>3. l[i].target = m[j].target
    BY <1>4, <2>1 DEF LKey, LustreKeys
  <2>4. l[i].use_pct = m[j].use_pct
    BY <2>2, <2>3 DEF ClientsAgree
  <2> QED BY <2>1, <2>4 DEF LUse, Use
<1> QED BY <1>2, <1>3, <1>4 DEF Agreed

\* When all clients tell the same of a shared filesystem, the cluster row shows
\* the worst of any node and the space used of every distinct filesystem, in
\* whatever order the polls of any set of nodes completed.
THEOREM OrderNeverMatters == Spec => []OrderDoesNotMatter
<1>1. OrderInv => OrderDoesNotMatter
  <2> SUFFICES ASSUME OrderInv, ClientsAgree PROVE OrderDoesNotMatter
    BY DEF OrderDoesNotMatter
  <2> DEFINE T == Taken
  <2>1. /\ SeenInv /\ Agreed(T) /\ DataInv /\ CountInv
        /\ \A n \in T : n \in Answered /\ nodes[n] = Row(n)
    BY AgreeingClients DEF OrderInv, SeenInv, TypeInv, CountInv
  <2>2. /\ IsTop(total.worst, AllPct(T) \cup {Unknown})
        /\ IsBottom(beegfs.free, AllFree(T))
        /\ IsTop(lustre.use, AllUse(T) \cup {Unknown})
        /\ SpaceUsed
    BY <2>1 DEF OrderInv
  <2>3. ASSUME NEW n \in T
        PROVE  /\ IsTop(nodes[n].worst_pct, AllPct({n}) \cup {Unknown})
               /\ IsTop(nodes[n].lustre_use_pct_max, AllUse({n}) \cup {Unknown})
               /\ IsBottom(nodes[n].beegfs_free_pct_min, AllFree({n}))
               /\ AllPct({n}) \subseteq Percentages /\ AllFree({n}) \subseteq Percentages
               /\ AllUse({n}) \subseteq Percentages
    <3>1. \A i, j \in DOMAIN Key(n) : Key(n)[i] = Key(n)[j] => MPct(n)[i] = MPct(n)[j]
      BY <2>1 DEF Agreed
    <3>2. n \in Answered /\ nodes[n] = Row(n) /\ {n} \in SUBSET Answered
      BY <2>1
    <3> QED BY <2>1, <3>1, <3>2, RowExtremes, AllTyped
  <2>4. total.worst = Max({nodes[n].worst_pct : n \in T} \cup {Unknown})
    <3> DEFINE V == [n \in T |-> AllPct({n})]
               r == [n \in T |-> nodes[n].worst_pct]
               A == AllPct(T) \cup {Unknown}
               W == {nodes[n].worst_pct : n \in T} \cup {Unknown}
               x == total.worst
    <3>1. \A n \in T : IsTop(r[n], V[n] \cup {Unknown}) /\ V[n] \subseteq Percentages
      BY <2>3
    <3>2. A = (UNION {V[n] : n \in T}) \cup {Unknown}
      BY DEF AllPct
    <3>3. W = {r[n] : n \in T} \cup {Unknown}
      OBVIOUS
    <3>4. IsTop(x, A)
      BY <2>2
    <3> HIDE DEF V, r, A, W, x, T
    <3>5. A \in SUBSET Percentages
      BY <3>1, <3>2 DEF Percentages
    <3>6. Tops(T, V, r, A, x, W)
      BY <3>1, <3>2, <3>3, <3>4, <3>5 DEF Tops
    <3>7. x = Max(W)
      BY <3>6, TopOfTops
    <3> QED BY <3>7 DEF W, x
  <2>5. lustre.use = Max({nodes[n].lustre_use_pct_max : n \in T} \cup {Unknown})
    <3> DEFINE V == [n \in T |-> AllUse({n})]
               r == [n \in T |-> nodes[n].lustre_use_pct_max]
               A == AllUse(T) \cup {Unknown}
               W == {nodes[n].lustre_use_pct_max : n \in T} \cup {Unknown}
               x == lustre.use
    <3>1. \A n \in T : IsTop(r[n], V[n] \cup {Unknown}) /\ V[n] \subseteq Percentages
      BY <2>3
    <3>2. A = (UNION {V[n] : n \in T}) \cup {Unknown}
      BY DEF AllUse
    <3>3. W = {r[n] : n \in T} \cup {Unknown}
      OBVIOUS
    <3>4. IsTop(x, A)
      BY <2>2
    <3> HIDE DEF V, r, A, W, x, T
    <3>5. A \in SUBSET Percentages
      BY <3>1, <3>2 DEF Percentages
    <3>6. Tops(T, V, r, A, x, W)
      BY <3>1, <3>2, <3>3, <3>4, <3>5 DEF Tops
    <3>7. x = Max(W)
      BY <3>6, TopOfTops
    <3> QED BY <3>7 DEF W, x
  <2>6. beegfs.free = Lowest({nodes[n].beegfs_free_pct_min : n \in T})
    <3> DEFINE V == [n \in T |-> AllFree({n})]
               r == [n \in T |-> nodes[n].beegfs_free_pct_min]
               x == beegfs.free
    <3>1. /\ \A n \in T : V[n] \in SUBSET Percentages
          /\ \A n \in T : IsBottom(r[n], V[n])
      BY <2>3
    <3>2. UNION {V[n] : n \in T} = AllFree(T)
      BY DEF AllFree
    <3>3. {r[n] : n \in T} = {nodes[n].beegfs_free_pct_min : n \in T}
      OBVIOUS
    <3>4. IsBottom(x, UNION {V[n] : n \in T})
      BY <2>2, <3>2
    <3> HIDE DEF V, r, x, T
    <3>5. Bottoms(T, V, r, x)
      BY <3>1, <3>4 DEF Bottoms
    <3>6. x = Lowest({r[n] : n \in T})
      BY <3>5, BottomOfBottoms
    <3> QED BY <3>3, <3>6 DEF x
  <2>7. ASSUME NEW R \in SUBSET Reported, \A p, q \in R : p # q => KeyOf(p) # KeyOf(q),
               {KeyOf(p) : p \in R} = seen
        PROVE  total.used = SumAt([p \in R |-> Number(MountOf(p), "used_1k")], R)
    <3> DEFINE at(k) == CHOOSE p \in R : KeyOf(p) = k
               u == [k \in seen |-> Number(MountOf(at(k)), "used_1k")]
               f == [p \in R |-> Number(MountOf(p), "used_1k")]
               b == [p \in R |-> KeyOf(p)]
    <3>1. \A p \in Reported : \E n \in T : \E i \in DOMAIN Key(n) :
            KeyOf(p) = Key(n)[i] /\ Number(MountOf(p), "used_1k") = MUsed(n)[i]
      <4> SUFFICES ASSUME NEW p \in Reported
                   PROVE  \E n \in T : \E i \in DOMAIN Key(n) :
                            KeyOf(p) = Key(n)[i] /\ Number(MountOf(p), "used_1k") = MUsed(n)[i]
        OBVIOUS
      <4>1. PICK n \in T : \E i \in DOMAIN state[n].mounts : p = <<n, i>>
        BY DEF Reported
      <4>2. PICK i \in DOMAIN state[n].mounts : p = <<n, i>>
        BY <4>1
      <4> QED BY <4>2 DEF KeyOf, MountOf, Key, MountKeys, MUsed, Used
    <3>2. \A k \in seen : at(k) \in R /\ KeyOf(at(k)) = k
      BY <2>7
    <3>3. \A p \in R : at(KeyOf(p)) = p
      BY <2>7, <3>2
    <3>4. ASSUME NEW n \in T, NEW i \in DOMAIN Key(n) PROVE u[Key(n)[i]] = MUsed(n)[i]
      <4>1. Key(n)[i] \in seen
        <5>1. Key(n)[i] \in Keys(n)
          BY DEF Keys, Key, Range
        <5> QED BY <2>1, <5>1 DEF CountInv
      <4> DEFINE p == at(Key(n)[i])
      <4>2. p \in Reported /\ KeyOf(p) = Key(n)[i]
        BY <3>2, <4>1
      <4>3. u[Key(n)[i]] = Number(MountOf(p), "used_1k")
        BY <4>1
      <4> HIDE DEF p, u
      <4>4. PICK k \in T : \E j \in DOMAIN Key(k) :
              KeyOf(p) = Key(k)[j] /\ Number(MountOf(p), "used_1k") = MUsed(k)[j]
        BY <3>1, <4>2
      <4>5. PICK j \in DOMAIN Key(k) :
              KeyOf(p) = Key(k)[j] /\ Number(MountOf(p), "used_1k") = MUsed(k)[j]
        BY <4>4
      <4>6. MUsed(n)[i] = MUsed(k)[j]
        BY <2>1, <4>2, <4>5 DEF Agreed
      <4> QED BY <4>3, <4>5, <4>6
    <3>5. \A p \in R : f[p] = u[b[p]] /\ b[p] \in seen
      BY <2>7, <3>3
    <3>6. \A k \in seen : u[k] \in Nat
      <4> SUFFICES ASSUME NEW k \in seen PROVE u[k] \in Nat
        OBVIOUS
      <4> HIDE DEF u
      <4>1. PICK n \in T : k \in Keys(n)
        BY <2>1 DEF CountInv
      <4>2. PICK i \in DOMAIN Key(n) : k = Key(n)[i]
        BY <4>1 DEF Keys, Key, Range
      <4>3. MUsed(n)[i] \in Nat
        BY <2>1, Listings
      <4> QED BY <3>4, <4>2, <4>3
    <3>7. IsFiniteSet(R)
      <4>1. R = {[x \in seen |-> at(x)][k] : k \in seen}
        BY <2>7, <3>2, <3>3
      <4>2. IsFiniteSet(seen)
        BY <2>1 DEF CountInv
      <4> DEFINE a == [k \in seen |-> at(k)]
      <4> HIDE DEF a, at
      <4>3. IsFiniteSet({a[k] : k \in seen})
        BY <4>2, ImageFinite
      <4> QED BY <4>1, <4>3 DEF a
    <3>8. {b[p] : p \in R} = seen
      BY <2>7
    <3>9. total.used = SumAt(u, seen)
      <4> HIDE DEF u
      <4> QED BY <2>2, <3>4 DEF SpaceUsed
    <3>10. \A p, q \in R : b[p] = b[q] => p = q
      BY <2>7
    <3> HIDE DEF u, f, b
    <3>11. SumAt(u, {b[p] : p \in R}) = SumAt(f, R)
      <4>1. \A p \in R : f[p] \in Int /\ f[p] = u[b[p]]
        BY <3>5, <3>6
      <4> QED BY ONLY <3>7, <3>10, <4>1, SumImage
    <3> QED BY <3>8, <3>9, <3>11 DEF f
  <2> QED BY <2>4, <2>5, <2>6, <2>7 DEF OrderDoesNotMatter
<1> QED BY <1>1, OrderInvariant, PTL
=============================================================================
