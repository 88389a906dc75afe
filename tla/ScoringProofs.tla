----------------------------- MODULE ScoringProofs -----------------------------
(***************************************************************************)
(* Proofs about Scoring, for any profile, report and number of runs, and   *)
(* for the modes of MCScoring.  What a sum over sub-parameters gives is    *)
(* shown by an induction on sets of numbers (FromZero).                    *)
(***************************************************************************)
EXTENDS MCScoring, FiniteSetTheorems, WellFoundedInduction, TLAPS

-----------------------------------------------------------------------------
(* Sums over sub-parameters.  The fold that adds them up takes a first     *)
(* element of what is left, so that all that is known of it to begin with  *)
(* is what it gives for its own choice of elements.                        *)

First(S) == CHOOSE x \in S : TRUE

IsSum(f, S) ==
    f = [T \in SUBSET S |-> IF T = {} THEN 0 ELSE Worth[First(T)] + f[T \ {First(T)}]]

LEMMA SumIsChosen ==
    ASSUME NEW S
    PROVE  SumOf(S) = (CHOOSE f : IsSum(f, S))[S]
BY DEF SumOf, MapThenSumSet, MapThenFoldSet, IsSum, First

\* A set that holds zero and the successors of its members holds every number.
LEMMA FromZero ==
    ASSUME NEW Good, 0 \in Good, \A n \in Nat : n \in Good => n + 1 \in Good
    PROVE  \A n \in Nat : n \in Good
<1> DEFINE R == OpToRel(<, Nat)
           Bad == Nat \ Good
<1> SUFFICES ASSUME Bad # {} PROVE FALSE
  OBVIOUS
<1>1. IsWellFoundedOn(R, Nat)
  BY NatLessThanWellFounded
<1> HIDE DEF R
<1>2. PICK m \in Bad : \A n \in Bad : <<n, m>> \notin R
  BY <1>1, WFMin
<1>3. m # 0 /\ m - 1 \in Nat /\ m - 1 < m
  OBVIOUS
<1>4. m - 1 \in Good
  BY <1>2, <1>3 DEF R, OpToRel
<1> QED
  BY <1>3, <1>4

\* No set of elements is the empty set, and one of none is.
LEMMA Counted ==
    ASSUME NEW S, IsFiniteSet(S), NEW T \in SUBSET S
    PROVE  /\ IsFiniteSet(T)
           /\ Cardinality(T) \in Nat
           /\ Cardinality(T) = 0 <=> T = {}
BY FS_Subset, FS_CardinalityType, FS_EmptySet

\* Removing the first element of a non-empty finite set.
LEMMA WithoutFirst ==
    ASSUME NEW S, IsFiniteSet(S), NEW T \in SUBSET S, T # {}
    PROVE  /\ First(T) \in T
           /\ T \ {First(T)} \in SUBSET S
           /\ Cardinality(T) \in Nat
           /\ Cardinality(T \ {First(T)}) = Cardinality(T) - 1
           /\ Cardinality(T \ {First(T)}) \in Nat
<1>1. First(T) \in T
  BY DEF First
<1>2. IsFiniteSet(T) /\ IsFiniteSet(T \ {First(T)})
  BY FS_Subset
<1> QED
  BY <1>1, <1>2, FS_RemoveElement, FS_CardinalityType

LEMMA SumExists ==
    ASSUME NEW S, IsFiniteSet(S)
    PROVE  \E f : IsSum(f, S)
<1> DEFINE Upto(n) == {T \in SUBSET S : Cardinality(T) <= n}
           Adds(f, g, n) == g = [T \in Upto(n) |-> IF T = {} THEN 0
                                   ELSE Worth[First(T)] + f[T \ {First(T)}]]
           Good == {n \in Nat : \E f : Adds(f, f, n)}
<1>0. \A T \in SUBSET S : IsFiniteSet(T) /\ Cardinality(T) \in Nat
  BY FS_Subset, FS_CardinalityType
<1>1. 0 \in Good
  <2> DEFINE f == [T \in Upto(0) |-> 0]
  <2>1. \A T \in Upto(0) : T = {}
    BY <1>0, FS_EmptySet
  <2>2. Adds(f, f, 0)
    BY <2>1
  <2> QED
    BY <2>2
<1>2. ASSUME NEW n \in Nat, n \in Good PROVE n + 1 \in Good
  <2>1. PICK f : Adds(f, f, n)
    BY <1>2
  <2> DEFINE g == [T \in Upto(n + 1) |-> IF T = {} THEN 0
                                   ELSE Worth[First(T)] + f[T \ {First(T)}]]
  <2>2. \A T \in Upto(n) : T \in Upto(n + 1)
    BY <1>0
  <2>3. \A T \in Upto(n) : g[T] = f[T]
    BY <2>1, <2>2
  <2>4. \A T \in Upto(n + 1) : T # {} => T \ {First(T)} \in Upto(n)
    BY <1>0, WithoutFirst
  <2>5. \A T \in Upto(n + 1) : T # {} => f[T \ {First(T)}] = g[T \ {First(T)}]
    BY <2>3, <2>4
  <2> HIDE DEF Upto
  <2>6. Adds(g, g, n + 1)
    BY <2>5
  <2> HIDE DEF g, Adds
  <2> QED
    BY <2>6
<1> HIDE DEF Good
<1>3. Cardinality(S) \in Good
  BY <1>0, <1>1, <1>2, FromZero
<1>4. Upto(Cardinality(S)) = SUBSET S
  BY FS_Subset
<1> QED
  BY <1>3, <1>4 DEF Good, IsSum

\* Two such functions agree where both are defined.
LEMMA SumsAgree ==
    ASSUME NEW S, IsFiniteSet(S), NEW R \in SUBSET S, NEW f, NEW g,
           IsSum(f, R), IsSum(g, S)
    PROVE  f[R] = g[R]
<1> DEFINE Good == {n \in Nat : \A T \in SUBSET R : Cardinality(T) = n => f[T] = g[T]}
<1>0. \A T \in SUBSET S : IsFiniteSet(T) /\ Cardinality(T) \in Nat
  BY FS_Subset, FS_CardinalityType
<1>1. f[{}] = 0 /\ g[{}] = 0
  BY DEF IsSum
<1>2. \A T \in SUBSET R : T # {} => f[T] = Worth[First(T)] + f[T \ {First(T)}]
  BY DEF IsSum
<1>3. \A T \in SUBSET S : T # {} => g[T] = Worth[First(T)] + g[T \ {First(T)}]
  BY DEF IsSum
<1>4. 0 \in Good
  BY <1>0, <1>1, FS_EmptySet
<1>5. ASSUME NEW n \in Nat, n \in Good PROVE n + 1 \in Good
  <2>1. SUFFICES ASSUME NEW T \in SUBSET R, Cardinality(T) = n + 1 PROVE f[T] = g[T]
    OBVIOUS
  <2>2. T # {}
    BY <2>1, FS_EmptySet
  <2>3. IsFiniteSet(R)
    BY <1>0
  <2>4. /\ T \ {First(T)} \in SUBSET R
        /\ Cardinality(T \ {First(T)}) = n
    BY <2>1, <2>2, <2>3, WithoutFirst
  <2> QED
    BY <1>2, <1>3, <1>5, <2>2, <2>4
<1> HIDE DEF Good
<1>6. Cardinality(R) \in Good
  BY <1>0, <1>4, <1>5, FromZero
<1> QED
  BY <1>6 DEF Good

LEMMA SumIs ==
    ASSUME NEW S, IsFiniteSet(S)
    PROVE  \E f : IsSum(f, S) /\ SumOf(S) = f[S]
<1>1. IsSum(CHOOSE f : IsSum(f, S), S)
  BY SumExists
<1> QED
  BY <1>1, SumIsChosen

LEMMA SumOfNone == SumOf({}) = 0
BY SumIs, FS_EmptySet DEF IsSum

LEMMA SumFromFirst ==
    ASSUME NEW S, IsFiniteSet(S), S # {}
    PROVE  SumOf(S) = Worth[First(S)] + SumOf(S \ {First(S)})
<1> DEFINE R == S \ {First(S)}
<1>1. PICK g : IsSum(g, S) /\ SumOf(S) = g[S]
  BY SumIs
<1>2. IsFiniteSet(R) /\ R \in SUBSET S
  BY FS_Subset
<1>3. PICK f : IsSum(f, R) /\ SumOf(R) = f[R]
  BY <1>2, SumIs
<1>4. f[R] = g[R]
  BY <1>1, <1>2, <1>3, SumsAgree
<1>5. g[S] = Worth[First(S)] + g[R]
  BY <1>1 DEF IsSum
<1> QED
  BY <1>1, <1>3, <1>4, <1>5

\* A sum of worths is a number.
LEMMA SumType ==
    ASSUME NEW S \in SUBSET SubParameters
    PROVE  SumOf(S) \in Nat
<1> DEFINE Good == {n \in Nat : \A T \in SUBSET S : Cardinality(T) = n => SumOf(T) \in Nat}
<1>0. IsFiniteSet(S) /\ \A T \in SUBSET S : IsFiniteSet(T) /\ Cardinality(T) \in Nat
  BY ConstantsAssumption, FS_Subset, FS_CardinalityType DEF ConstantsAssumption
<1>1. \A s \in SubParameters : Worth[s] \in Nat
  BY ConstantsAssumption DEF ConstantsAssumption
<1>2. 0 \in Good
  <2>1. \A T \in SUBSET S : Cardinality(T) = 0 => T = {}
    BY <1>0, Counted
  <2>2. SumOf({}) \in Nat
    BY SumOfNone
  <2>3. \A T \in SUBSET S : Cardinality(T) = 0 => SumOf(T) \in Nat
    BY <2>1, <2>2, Zenon
  <2> QED
    BY <2>3
<1>3. ASSUME NEW n \in Nat, n \in Good PROVE n + 1 \in Good
  <2>1. SUFFICES ASSUME NEW T \in SUBSET S, Cardinality(T) = n + 1 PROVE SumOf(T) \in Nat
    OBVIOUS
  <2>2. T # {}
    BY <1>0, <2>1, Counted
  <2>3. /\ First(T) \in T
        /\ T \ {First(T)} \in SUBSET S
        /\ Cardinality(T \ {First(T)}) = n
    BY <1>0, <2>1, <2>2, WithoutFirst
  <2>4. SumOf(T) = Worth[First(T)] + SumOf(T \ {First(T)})
    BY <1>0, <2>2, SumFromFirst
  <2> QED
    BY <1>1, <1>3, <2>3, <2>4
<1> HIDE DEF Good
<1>4. Cardinality(S) \in Good
  BY <1>0, <1>2, <1>3, FromZero
<1> QED
  BY <1>4 DEF Good

\* The sum does not depend on the element that is taken first.
LEMMA SumFromAny ==
    ASSUME NEW S \in SUBSET SubParameters, NEW x \in S
    PROVE  SumOf(S) = Worth[x] + SumOf(S \ {x})
<1> DEFINE Good == {n \in Nat : \A T \in SUBSET S : Cardinality(T) = n =>
                                  \A y \in T : SumOf(T) = Worth[y] + SumOf(T \ {y})}
<1>0. IsFiniteSet(S) /\ \A T \in SUBSET S : IsFiniteSet(T) /\ Cardinality(T) \in Nat
  BY ConstantsAssumption, FS_Subset, FS_CardinalityType DEF ConstantsAssumption
<1>1. \A s \in SubParameters : Worth[s] \in Nat
  BY ConstantsAssumption DEF ConstantsAssumption
<1>2. 0 \in Good
  BY <1>0, FS_EmptySet
<1>3. ASSUME NEW n \in Nat, n \in Good PROVE n + 1 \in Good
  <2>1. SUFFICES ASSUME NEW T \in SUBSET S, Cardinality(T) = n + 1, NEW y \in T
                 PROVE  SumOf(T) = Worth[y] + SumOf(T \ {y})
    OBVIOUS
  <2> DEFINE f == First(T)
  <2>0. T # {}
    OBVIOUS
  <2>2. /\ f \in T
        /\ T \ {f} \in SUBSET S
        /\ Cardinality(T \ {f}) = n
    BY <1>0, <2>1, <2>0, WithoutFirst
  <2>3. SumOf(T) = Worth[f] + SumOf(T \ {f})
    BY <1>0, <2>0, SumFromFirst
  <2> HIDE DEF f
  <2>4. CASE y = f
    BY <2>3, <2>4
  <2>5. CASE y # f
    <3>1. SumOf(T \ {f}) = Worth[y] + SumOf((T \ {f}) \ {y})
      BY <1>3, <2>2, <2>5
    <3>0. Cardinality(T \ {y}) = Cardinality(T) - 1
      BY <1>0, FS_RemoveElement
    <3>2. T \ {y} \in SUBSET S /\ Cardinality(T \ {y}) = n
      BY <2>1, <3>0
    <3>3. SumOf(T \ {y}) = Worth[f] + SumOf((T \ {y}) \ {f})
      BY <1>3, <2>2, <2>5, <3>2
    <3>4. (T \ {y}) \ {f} = (T \ {f}) \ {y}
      OBVIOUS
    <3>5. SumOf((T \ {f}) \ {y}) \in Nat /\ Worth[f] \in Nat /\ Worth[y] \in Nat
      BY <1>1, <2>2, SumType
    <3>6. SumOf((T \ {y}) \ {f}) = SumOf((T \ {f}) \ {y})
      BY <3>4, Zenon
    <3> QED
      BY <2>3, <3>1, <3>3, <3>5, <3>6
  <2> QED
    BY <2>4, <2>5
<1> HIDE DEF Good
<1>4. Cardinality(S) \in Good
  BY <1>0, <1>2, <1>3, FromZero
<1> QED
  BY <1>4 DEF Good

\* Sums over disjoint sets add up.
LEMMA SumAddsUp ==
    ASSUME NEW A \in SUBSET SubParameters,
           NEW B \in SUBSET SubParameters, A \cap B = {}
    PROVE  SumOf(A \cup B) = SumOf(A) + SumOf(B)
<1> DEFINE Good == {n \in Nat : \A T \in SUBSET A : Cardinality(T) = n =>
                                  SumOf(T \cup B) = SumOf(T) + SumOf(B)}
<1>0. IsFiniteSet(A) /\ \A T \in SUBSET A : IsFiniteSet(T) /\ Cardinality(T) \in Nat
  BY ConstantsAssumption, FS_Subset, FS_CardinalityType DEF ConstantsAssumption
<1>1. \A s \in SubParameters : Worth[s] \in Nat
  BY ConstantsAssumption DEF ConstantsAssumption
<1>2. 0 \in Good
  <2>1. \A T \in SUBSET A : Cardinality(T) = 0 => T = {}
    BY <1>0, FS_EmptySet
  <2>2. {} \cup B = B /\ SumOf(B) \in Nat
    BY SumType
  <2>3. SumOf({} \cup B) = SumOf(B)
    BY <2>2, Zenon
  <2>4. SumOf({} \cup B) = SumOf({}) + SumOf(B)
    BY <2>2, <2>3, SumOfNone
  <2>5. \A T \in SUBSET A : Cardinality(T) = 0 => SumOf(T \cup B) = SumOf(T) + SumOf(B)
    BY <2>1, <2>4, Zenon
  <2> QED
    BY <2>5
<1>3. ASSUME NEW n \in Nat, n \in Good PROVE n + 1 \in Good
  <2>1. SUFFICES ASSUME NEW T \in SUBSET A, Cardinality(T) = n + 1
                 PROVE  SumOf(T \cup B) = SumOf(T) + SumOf(B)
    OBVIOUS
  <2>0. T # {}
    BY <1>0, <2>1, Counted
  <2>2. PICK x \in T : TRUE
    BY <2>0
  <2>1a. Cardinality(T \ {x}) = Cardinality(T) - 1
    BY <1>0, FS_RemoveElement
  <2>3. T \ {x} \in SUBSET A /\ Cardinality(T \ {x}) = n
    BY <2>1, <2>1a
  <2>4. SumOf((T \ {x}) \cup B) = SumOf(T \ {x}) + SumOf(B)
    BY <1>3, <2>3
  <2>5. SumOf(T \cup B) = Worth[x] + SumOf((T \cup B) \ {x})
    BY <2>2, SumFromAny
  <2>6. (T \cup B) \ {x} = (T \ {x}) \cup B
    OBVIOUS
  <2>7. SumOf(T) = Worth[x] + SumOf(T \ {x})
    BY <2>2, SumFromAny
  <2>8. Worth[x] \in Nat /\ SumOf(T \ {x}) \in Nat /\ SumOf(B) \in Nat
    BY <1>1, <2>2, SumType
  <2>9. SumOf((T \cup B) \ {x}) = SumOf((T \ {x}) \cup B)
    BY <2>6, Zenon
  <2> QED
    BY <2>4, <2>5, <2>7, <2>8, <2>9
<1> HIDE DEF Good
<1>4. Cardinality(A) \in Good
  BY <1>0, <1>2, <1>3, FromZero
<1> QED
  BY <1>4 DEF Good

\* A larger set is worth no less.
LEMMA SumGrows ==
    ASSUME NEW B \in SUBSET SubParameters, NEW A \in SUBSET B
    PROVE  SumOf(A) <= SumOf(B)
<1>1. SumOf(A \cup (B \ A)) = SumOf(A) + SumOf(B \ A)
  BY SumAddsUp
<1>2. A \cup (B \ A) = B
  OBVIOUS
<1>3. SumOf(A) \in Nat /\ SumOf(B \ A) \in Nat
  BY SumType
<1>4. SumOf(A \cup (B \ A)) = SumOf(B)
  BY <1>2, Zenon
<1> QED
  BY <1>1, <1>3, <1>4
-----------------------------------------------------------------------------
(* Type correctness.  That a filled row leaves no negative number of       *)
(* unfinished ones needs that each run at "fill" has an unfinished row of  *)
(* its own; runs that died there leave theirs behind.                      *)

RunStates ==
    [pc : {"idle", "open", "read", "score", "fill", "save", "reread", "decide"},
     todo : SUBSET Parameters, inHand : Parameters \cup {NONE},
     measures : [SubParameters -> Measures],
     total : 0..Cap \cup {NONE}, category : Categories]

Filling == {r \in Runs : run[r].pc = "fill"}

TypeInv ==
    /\ TypeOK
    /\ IsFiniteSet(Filling) /\ Cardinality(Filling) <= unfinished

\* The one run that moves is r.
Moves(r) == run'[r] \in RunStates /\ run' = [run EXCEPT ![r] = run'[r]]

LEMMA Capped ==
    ASSUME NEW n \in Nat
    PROVE  AtMostCap(n) \in 0..Cap
BY ConstantsAssumption DEF ConstantsAssumption, AtMostCap

LEMMA EarnedType ==
    ASSUME NEW p, NEW m
    PROVE  Earned(p, m) \in Nat
BY SumType DEF Earned

LEMMA CategoryType ==
    ASSUME NEW n
    PROVE  CategoryOf(n) \in Categories
BY DEF CategoryOf, Categories

LEMMA IdleType == Idle \in RunStates
BY DEF Idle, RunStates, NoReport, Measures, Categories

\* What each step makes of the run that takes it.
LEMMA BeginMoves ==
    ASSUME TypeOK, NEW r \in Runs, Begin(r)
    PROVE  /\ Moves(r) /\ run[r] = Idle
           /\ run'[r].pc \in {"open", "read"}
BY DEF TypeOK, Begin, Moves, RunStates

LEMMA OpenMoves ==
    ASSUME TypeOK, NEW r \in Runs, Open(r)
    PROVE  /\ Moves(r) /\ run[r].pc = "open"
           /\ run'[r].pc \in {"idle", "read"}
           /\ run'[r].pc = "idle" => run'[r] = Idle
<1>1. CASE scoringRow
  BY <1>1, IdleType DEF TypeOK, Open, Moves, Idle
<1>2. CASE ~scoringRow
  BY <1>2 DEF TypeOK, Open, Moves, RunStates
<1> QED
  BY <1>1, <1>2

LEMMA ReadReportMoves ==
    ASSUME TypeOK, NEW r \in Runs, ReadReport(r)
    PROVE  /\ Moves(r) /\ run[r].pc = "read"
           /\ run'[r].pc = "score" /\ run'[r].todo = Parameters /\ run'[r].measures = report
BY DEF TypeOK, ReadReport, Moves, RunStates

LEMMA InsertRowMoves ==
    ASSUME TypeOK, NEW r \in Runs, NEW p, InsertRow(r, p)
    PROVE  /\ Moves(r) /\ run[r].pc = "score" /\ p \in run[r].todo
           /\ run'[r].pc = "fill" /\ run'[r].inHand = p /\ run'[r].todo = run[r].todo \ {p}
           /\ run'[r].measures = run[r].measures
<1>1. run[r] \in RunStates /\ p \in Parameters
  BY DEF TypeOK, InsertRow, RunStates
<1>2. run[r].todo \ {p} \in SUBSET Parameters
  BY <1>1 DEF RunStates
<1> QED
  BY <1>1, <1>2 DEF TypeOK, InsertRow, Moves, RunStates

LEMMA FillRowMoves ==
    ASSUME TypeOK, NEW r \in Runs, FillRow(r)
    PROVE  /\ Moves(r) /\ run[r].pc = "fill"
           /\ run'[r].pc = "score" /\ run'[r].todo = run[r].todo
           /\ run'[r].measures = run[r].measures
BY DEF TypeOK, FillRow, Moves, RunStates

LEMMA SumMoves ==
    ASSUME TypeOK, NEW r \in Runs, Sum(r)
    PROVE  /\ Moves(r) /\ run[r].pc = "score" /\ run[r].todo = {}
           /\ unfinished > 0 => run'[r] = Idle
           /\ ~(unfinished > 0) => /\ run'[r].pc = "save" /\ run'[r].total = finished
                                   /\ run'[r].category = CategoryOf(finished)
<1>1. CASE unfinished > 0
  BY <1>1, IdleType DEF TypeOK, Sum, Moves
<1>2. CASE ~(unfinished > 0)
  <2>1. CategoryOf(finished) \in Categories
    BY CategoryType
  <2> QED
    BY <1>2, <2>1 DEF TypeOK, Sum, Moves, RunStates
<1> QED
  BY <1>1, <1>2

LEMMA SaveScoreMoves ==
    ASSUME TypeOK, NEW r \in Runs, SaveScore(r)
    PROVE  /\ Moves(r) /\ run[r].pc = "save" /\ run'[r].pc = "reread"
BY DEF TypeOK, SaveScore, Moves, RunStates

LEMMA RereadMoves ==
    ASSUME TypeOK, NEW r \in Runs, Reread(r)
    PROVE  /\ Moves(r) /\ run[r].pc = "reread"
           /\ category = NONE => run'[r] = Idle
           /\ category # NONE => /\ run'[r].pc = "decide" /\ run'[r].total = total
                                 /\ run'[r].category = category
<1>1. CASE category = NONE
  BY <1>1, IdleType DEF TypeOK, Reread, Moves
<1>2. CASE category # NONE
  BY <1>2 DEF TypeOK, Reread, Moves, RunStates
<1> QED
  BY <1>1, <1>2

LEMMA EndMoves ==
    ASSUME TypeOK, NEW r \in Runs, Decide(r) \/ Abort(r)
    PROVE  Moves(r) /\ run'[r] = Idle /\ (Decide(r) => run[r].pc = "decide")
BY IdleType DEF TypeOK, Decide, Abort, Moves
LEMMA TypesMove ==
    ASSUME TypeOK, NEW r \in Runs, Moves(r)
    PROVE  /\ run' \in [Runs -> RunStates]
           /\ \A q \in Runs : q # r => run'[q] = run[q]
           /\ Filling' = IF run'[r].pc = "fill" THEN Filling \cup {r} ELSE Filling \ {r}
<1>1. run \in [Runs -> RunStates]
  BY DEF TypeOK, RunStates
<1>2. /\ run' \in [Runs -> RunStates]
      /\ \A q \in Runs : q # r => run'[q] = run[q]
  BY <1>1 DEF Moves
<1> QED
  BY <1>2 DEF Filling

\* A step that adds no row and fills none.
LEMMA QuietTypes ==
    ASSUME TypeInv, NEW r \in Runs, Moves(r), UNCHANGED unfinished,
           run'[r].pc # "fill"
    PROVE  IsFiniteSet(Filling') /\ Cardinality(Filling') <= unfinished'
<1>1. Filling' = Filling \ {r}
  BY TypesMove DEF TypeInv
<1>2. Cardinality(Filling \ {r}) <= Cardinality(Filling) /\ IsFiniteSet(Filling \ {r})
  BY FS_Subset DEF TypeInv
<1>3. Cardinality(Filling) \in Nat /\ Cardinality(Filling \ {r}) \in Nat
  BY <1>2, FS_CardinalityType DEF TypeInv
<1>4. Cardinality(Filling) <= unfinished /\ unfinished \in Nat
  BY DEF TypeInv, TypeOK
<1>5. Cardinality(Filling') <= unfinished
  BY <1>1, <1>2, <1>3, <1>4
<1> QED
  BY <1>1, <1>2, <1>5

LEMMA TypeSteps ==
    ASSUME TypeInv, NEW r \in Runs, Step(r) \/ Abort(r)
    PROVE  TypeInv'
<1>t. TypeOK
  BY DEF TypeInv
<1>c. Cardinality(Filling) \in Nat /\ unfinished \in Nat /\ finished \in 0..Cap
  BY FS_CardinalityType DEF TypeInv, TypeOK
<1> DEFINE Rest == /\ status' \in {"SUBMITTED", "SCORED_PASS", "SCORED_FAIL"}
                   /\ landed' \in BOOLEAN /\ scoringRow' \in BOOLEAN
                   /\ report' \in [SubParameters -> Measures]
                   /\ finished' \in 0..Cap /\ unfinished' \in Nat
                   /\ total' \in 0..Cap \cup {NONE} /\ category' \in Categories
                   /\ faults' \in Nat
<1> SUFFICES /\ Moves(r) /\ Rest
             /\ IsFiniteSet(Filling') /\ Cardinality(Filling') <= unfinished'
  <2>1. ASSUME Moves(r), Rest PROVE TypeOK'
    BY <1>t, <2>1, TypesMove DEF TypeOK, RunStates
  <2> QED
    BY <2>1 DEF TypeInv
<1>1. CASE Begin(r)
  <2>1. Moves(r) /\ run'[r].pc # "fill"
    BY <1>t, <1>1, BeginMoves
  <2> QED
    BY <1>t, <1>1, <2>1, QuietTypes DEF TypeOK, Begin, rows, verdict
<1>2. CASE Open(r)
  <2>1. Moves(r) /\ run'[r].pc # "fill"
    BY <1>t, <1>2, OpenMoves
  <2> QED
    BY <1>t, <1>2, <2>1, QuietTypes DEF TypeOK, Open, rows, verdict
<1>3. CASE ReadReport(r)
  <2>1. Moves(r) /\ run'[r].pc # "fill"
    BY <1>t, <1>3, ReadReportMoves
  <2> QED
    BY <1>t, <1>3, <2>1, QuietTypes DEF TypeOK, ReadReport, rows, verdict
<1>4. ASSUME NEW p \in Parameters, InsertRow(r, p)
      PROVE  /\ Moves(r) /\ Rest
             /\ IsFiniteSet(Filling') /\ Cardinality(Filling') <= unfinished'
  <2>1. Moves(r) /\ run'[r].pc = "fill"
    BY <1>t, <1>4, InsertRowMoves
  <2>2. Filling' = Filling \cup {r}
    BY <1>t, <2>1, TypesMove
  <2>3. /\ IsFiniteSet(Filling \cup {r})
        /\ Cardinality(Filling \cup {r}) <= Cardinality(Filling) + 1
    <3>1. IsFiniteSet(Filling)
      BY DEF TypeInv
    <3> HIDE DEF Filling
    <3>2. /\ IsFiniteSet(Filling \cup {r})
          /\ Cardinality(Filling \cup {r}) =
               IF r \in Filling THEN Cardinality(Filling) ELSE Cardinality(Filling) + 1
      BY <3>1, FS_AddElement
    <3> QED
      BY <1>c, <3>2
  <2>4. unfinished' = unfinished + 1
    BY <1>4 DEF InsertRow
  <2>5. Cardinality(Filling \cup {r}) \in Nat /\ Cardinality(Filling) <= unfinished
    BY <2>3, FS_CardinalityType DEF TypeInv
  <2>6. Cardinality(Filling \cup {r}) <= unfinished'
    BY <1>c, <2>3, <2>4, <2>5
  <2>7. Rest
    BY <1>t, <1>4 DEF TypeOK, InsertRow, verdict
  <2> QED
    BY <2>1, <2>2, <2>3, <2>6, <2>7
<1>5. CASE FillRow(r)
  <2>1. Moves(r) /\ run[r].pc = "fill" /\ run'[r].pc # "fill"
    BY <1>t, <1>5, FillRowMoves
  <2>2. Filling' = Filling \ {r} /\ r \in Filling
    BY <1>t, <2>1, TypesMove DEF Filling
  <2>3. /\ IsFiniteSet(Filling \ {r})
        /\ Cardinality(Filling \ {r}) = Cardinality(Filling) - 1
    BY <2>2, FS_RemoveElement DEF TypeInv
  <2>4. Cardinality(Filling \ {r}) \in Nat /\ Cardinality(Filling) <= unfinished
    BY <2>3, FS_CardinalityType DEF TypeInv
  <2>5. unfinished' = unfinished - 1
    BY <1>5 DEF FillRow
  <2>6. Cardinality(Filling \ {r}) <= unfinished' /\ unfinished' \in Nat
    BY <1>c, <2>3, <2>4, <2>5
  <2>7. finished' \in 0..Cap
    <3> DEFINE n == Earned(run[r].inHand, run[r].measures)
    <3>1. n \in Nat
      BY EarnedType
    <3> HIDE DEF n
    <3>2. finished + n \in Nat
      BY <1>c, <3>1
    <3> QED
      BY <1>5, <3>2, Capped DEF FillRow, n
  <2>8. Rest
    BY <1>t, <1>5, <2>6, <2>7 DEF TypeOK, FillRow, verdict
  <2> QED
    BY <2>1, <2>2, <2>3, <2>6, <2>8
<1>6. CASE Sum(r)
  <2>1. Moves(r) /\ run'[r].pc # "fill"
    BY <1>t, <1>6, SumMoves DEF Idle
  <2> QED
    BY <1>t, <1>6, <2>1, QuietTypes DEF TypeOK, Sum, rows, verdict
<1>7. CASE SaveScore(r)
  <2>1. Moves(r) /\ run'[r].pc # "fill"
    BY <1>t, <1>7, SaveScoreMoves
  <2>2. run[r] \in RunStates
    BY <1>t DEF TypeOK, RunStates
  <2>3. run[r].total \in 0..Cap \cup {NONE} /\ run[r].category \in Categories
    BY <2>2 DEF RunStates
  <2> QED
    BY <1>t, <1>7, <2>1, <2>3, QuietTypes DEF TypeOK, SaveScore, rows
<1>8. CASE Reread(r)
  <2>1. Moves(r) /\ run'[r].pc # "fill"
    BY <1>t, <1>8, RereadMoves DEF Idle
  <2> QED
    BY <1>t, <1>8, <2>1, QuietTypes DEF TypeOK, Reread, rows, verdict
<1>9. CASE Decide(r)
  <2>1. Moves(r) /\ run'[r].pc # "fill"
    BY <1>t, <1>9, EndMoves DEF Idle
  <2>2. run[r] \in RunStates
    BY <1>t DEF TypeOK, RunStates
  <2>3. run[r].total \in 0..Cap \cup {NONE} /\ run[r].category \in Categories
    BY <2>2 DEF RunStates
  <2> QED
    BY <1>t, <1>9, <2>1, <2>3, QuietTypes DEF TypeOK, Decide, rows
<1>10. CASE Abort(r)
  <2>1. Moves(r) /\ run'[r].pc # "fill"
    BY <1>t, <1>10, EndMoves DEF Idle
  <2> QED
    BY <1>t, <1>10, <2>1, QuietTypes DEF TypeOK, Abort, rows, verdict
<1> QED
  BY <1>1, <1>2, <1>3, <1>4, <1>5, <1>6, <1>7, <1>8, <1>9, <1>10 DEF Step

LEMMA TypeInit == Init => TypeInv
<1> SUFFICES ASSUME Init PROVE TypeInv
  OBVIOUS
<1>1. report \in [SubParameters -> Measures]
  BY ConstantsAssumption DEF ConstantsAssumption, Init, NoReport, Measures
<1>2. run \in [Runs -> RunStates] /\ \A r \in Runs : run[r].pc = "idle"
  BY IdleType DEF Init, Idle
<1>0. Cap \in Nat /\ 0 \in 0..Cap
  BY ConstantsAssumption DEF ConstantsAssumption
<1>3. TypeOK
  BY <1>0, <1>1, <1>2 DEF Init, TypeOK, RunStates, Categories
<1>4. Filling = {}
  BY <1>2 DEF Filling
<1>5. IsFiniteSet(Filling) /\ Cardinality(Filling) = 0
  BY <1>4, FS_EmptySet
<1> QED
  BY <1>3, <1>5 DEF TypeInv, Init

LEMMA TypeLands ==
    ASSUME TypeInv, Land \/ UNCHANGED vars
    PROVE  TypeInv'
<1>1. report' \in [SubParameters -> Measures]
  BY ConstantsAssumption DEF ConstantsAssumption, Land, vars, TypeInv, TypeOK
<1> QED
  BY <1>1 DEF Land, vars, rows, verdict, TypeInv, TypeOK, Filling

LEMMA TypeStep == TypeInv /\ [Next]_vars => TypeInv'
BY TypeSteps, TypeLands DEF Next

\* Every variable keeps to its values (TypeOK): in particular no run, however
\* many overlap and die halfway, makes the number of unfinished rows negative.
THEOREM TypeCorrect == Spec => []TypeOK
<1>1. TypeInv => TypeOK
  BY DEF TypeInv
<1> QED
  BY <1>1, TypeInit, TypeStep, PTL DEF Spec
-----------------------------------------------------------------------------
(* No total leaves a parameter out.  Each run that has scored part of the  *)
(* profile finds at least as much among the finished rows, by itself and   *)
(* whatever others add, since no row is taken back.                        *)

\* The parameters that a run has yet to finish, and what the others are worth.
Waiting(x) == x.todo \cup (IF x.pc = "fill" THEN {x.inHand} ELSE {})

Scored(x) == {s \in SubParameters : Meets(x.measures, s) /\ ParameterOf[s] \notin Waiting(x)}

Enough(n) == n # NONE => n >= ProfileScore

Counts(r) ==
    /\ run[r].pc \in {"score", "fill"} =>
         run[r].measures = report /\ SumOf(Scored(run[r])) <= finished
    /\ run[r].pc \in {"save", "decide"} => Enough(run[r].total)

LeftOutInv == Enough(total) /\ \A r \in Runs : Counts(r)

WorthFits == SumOf(SubParameters) <= Cap

LEMMA ScoredType ==
    ASSUME NEW x
    PROVE  Scored(x) \in SUBSET SubParameters /\ SumOf(Scored(x)) \in Nat
<1>1. Scored(x) \in SUBSET SubParameters
  BY DEF Scored
<1> QED
  BY <1>1, SumType

LEMMA ProfileType == ProfileScore \in Nat
BY SumType DEF ProfileScore

\* Nothing is scored before the first parameter is, and a parameter in hand is
\* not scored yet.
LEMMA NothingScored ==
    ASSUME NEW x, x.pc = "score", x.todo = Parameters
    PROVE  Scored(x) = {}
BY ConstantsAssumption DEF ConstantsAssumption, Scored, Waiting

LEMMA InHandNotScored ==
    ASSUME NEW x, NEW y, NEW p \in x.todo, x.pc = "score", y.pc = "fill",
           y.todo = x.todo \ {p}, y.inHand = p, y.measures = x.measures
    PROVE  Scored(y) = Scored(x)
<1>1. Waiting(y) = Waiting(x)
  BY DEF Waiting
<1> QED
  BY <1>1 DEF Scored

\* Filling a row adds what its parameter earns, at most.
LEMMA FilledIsScored ==
    ASSUME NEW x, NEW y, x.pc = "fill", y.pc = "score",
           y.todo = x.todo, y.measures = x.measures
    PROVE  SumOf(Scored(y)) <= SumOf(Scored(x)) + Earned(x.inHand, x.measures)
<1> DEFINE A == Scored(x)
           B == Scored(y) \ Scored(x)
           C == {s \in SubParameters : ParameterOf[s] = x.inHand /\ Meets(x.measures, s)}
<1>1. A \cup B = Scored(y) /\ A \cap B = {} /\ B \in SUBSET C
  BY DEF Scored, Waiting
<1>2. A \in SUBSET SubParameters /\ B \in SUBSET SubParameters /\ C \in SUBSET SubParameters
  BY DEF Scored
<1>3. Earned(x.inHand, x.measures) = SumOf(C)
  BY DEF Earned
<1> HIDE DEF A, B, C
<1>4. SumOf(A \cup B) = SumOf(A) + SumOf(B)
  BY <1>1, <1>2, SumAddsUp
<1>5. SumOf(A \cup B) = SumOf(Scored(y))
  BY <1>1, Zenon
<1>6. SumOf(B) <= SumOf(C)
  BY <1>1, <1>2, SumGrows
<1>7. SumOf(A) \in Nat /\ SumOf(B) \in Nat /\ SumOf(C) \in Nat
  BY <1>2, SumType
<1>8. SumOf(Scored(y)) <= SumOf(A) + SumOf(C)
  BY <1>4, <1>5, <1>6, <1>7
<1> QED
  BY <1>3, <1>8 DEF A

\* A run that is through has scored all the profile gives.
LEMMA ThroughIsEnough ==
    ASSUME NEW x, x.pc = "score", x.todo = {}, x.measures = report
    PROVE  ProfileScore <= SumOf(Scored(x))
<1>1. {s \in SubParameters : report[s] = "meets"} \in SUBSET Scored(x)
  BY DEF Scored, Waiting, Meets
<1> QED
  BY <1>1, ScoredType, SumGrows DEF ProfileScore

\* What filling a row adds, up to the cap.
LEMMA FillAdds ==
    ASSUME TypeOK, NEW r \in Runs, FillRow(r)
    PROVE  /\ finished' = AtMostCap(finished + Earned(run[r].inHand, run[r].measures))
           /\ finished' \in 0..Cap /\ finished' >= finished
<1> DEFINE n == Earned(run[r].inHand, run[r].measures)
<1>1. n \in Nat /\ finished' = AtMostCap(finished + n)
  BY EarnedType DEF FillRow
<1> HIDE DEF n
<1>2. finished \in 0..Cap /\ Cap \in Nat
  BY ConstantsAssumption DEF TypeOK, ConstantsAssumption
<1>3. finished' \in 0..Cap /\ finished' >= finished
  BY <1>1, <1>2 DEF AtMostCap
<1> QED
  BY <1>1, <1>3 DEF n

\* The runs that do not move keep what they can count on.
LEMMA OthersCount ==
    ASSUME TypeOK, LeftOutInv, NEW r \in Runs, Moves(r), UNCHANGED report,
           finished' >= finished, finished' \in 0..Cap, Enough(total)', Counts(r)'
    PROVE  LeftOutInv'
<1>1. SUFFICES ASSUME NEW q \in Runs, q # r PROVE Counts(q)'
  BY DEF LeftOutInv
<1>2. run'[q] = run[q] /\ Counts(q)
  BY <1>1, TypesMove DEF LeftOutInv
<1>3. ProfileScore' = ProfileScore
  BY DEF ProfileScore
<1>4. SumOf(Scored(run[q])) \in Nat
  BY ScoredType
<1>5. finished \in 0..Cap
  BY DEF TypeOK
<1>6. SumOf(Scored(run[q])) <= finished => SumOf(Scored(run[q])) <= finished'
  BY <1>4, <1>5
<1>7. SumOf(Scored(run'[q])) = SumOf(Scored(run[q]))
  BY <1>2, Zenon
<1> QED
  BY <1>2, <1>3, <1>6, <1>7 DEF Counts, Enough

LEMMA LeftOutSteps ==
    ASSUME WorthFits, TypeInv, LeftOutInv, NEW r \in Runs, Step(r) \/ Abort(r)
    PROVE  LeftOutInv'
<1>t. TypeOK /\ finished \in 0..Cap /\ Cap \in Nat
  BY ConstantsAssumption DEF ConstantsAssumption, TypeInv, TypeOK
<1>c. Enough(total) /\ Counts(r)
  BY DEF LeftOutInv
<1>p. UNCHANGED report => ProfileScore' = ProfileScore
  BY DEF ProfileScore
<1>f. UNCHANGED finished => finished' >= finished /\ finished' \in 0..Cap
  BY <1>t
<1>1. CASE Begin(r)
  <2>1. Moves(r) /\ run'[r].pc \in {"open", "read"}
    BY <1>t, <1>1, BeginMoves
  <2>2. UNCHANGED <<report, finished, total>>
    BY <1>1 DEF Begin, rows, verdict
  <2>3. Enough(total)' /\ Counts(r)'
    BY <1>c, <1>p, <2>1, <2>2 DEF Enough, Counts
  <2> QED
    BY <1>t, <1>f, <2>1, <2>2, <2>3, OthersCount
<1>2. CASE Open(r)
  <2>1. Moves(r) /\ run'[r].pc \in {"idle", "read"}
    BY <1>t, <1>2, OpenMoves
  <2>2. UNCHANGED <<report, finished, total>>
    BY <1>2 DEF Open, rows, verdict
  <2>3. Enough(total)' /\ Counts(r)'
    BY <1>c, <1>p, <2>1, <2>2 DEF Enough, Counts
  <2> QED
    BY <1>t, <1>f, <2>1, <2>2, <2>3, OthersCount
<1>3. CASE ReadReport(r)
  <2>1. Moves(r) /\ run'[r].pc = "score" /\ run'[r].todo = Parameters /\ run'[r].measures = report
    BY <1>t, <1>3, ReadReportMoves
  <2>2. UNCHANGED <<report, finished, total>>
    BY <1>3 DEF ReadReport, rows, verdict
  <2>3. Scored(run'[r]) = {}
    BY <2>1, NothingScored
  <2>4. SumOf(Scored(run'[r])) = 0
    BY <2>3, SumOfNone, Zenon
  <2>5. Enough(total)' /\ Counts(r)'
    BY <1>c, <1>p, <1>t, <2>1, <2>2, <2>4 DEF Enough, Counts
  <2> QED
    BY <1>t, <1>f, <2>1, <2>2, <2>5, OthersCount
<1>4. ASSUME NEW p \in Parameters, InsertRow(r, p) PROVE LeftOutInv'
  <2>1. /\ Moves(r) /\ run[r].pc = "score" /\ p \in run[r].todo
        /\ run'[r].pc = "fill" /\ run'[r].inHand = p /\ run'[r].todo = run[r].todo \ {p}
        /\ run'[r].measures = run[r].measures
    BY <1>t, <1>4, InsertRowMoves
  <2>2. UNCHANGED <<report, finished, total>>
    BY <1>4 DEF InsertRow, verdict
  <2>3. Scored(run'[r]) = Scored(run[r])
    BY <2>1, InHandNotScored
  <2>4. SumOf(Scored(run'[r])) = SumOf(Scored(run[r]))
    BY <2>3, Zenon
  <2>5. Enough(total)' /\ Counts(r)'
    BY <1>c, <1>p, <2>1, <2>2, <2>4 DEF Enough, Counts
  <2> QED
    BY <1>t, <1>f, <2>1, <2>2, <2>5, OthersCount
<1>5. CASE FillRow(r)
  <2>1. /\ Moves(r) /\ run[r].pc = "fill"
        /\ run'[r].pc = "score" /\ run'[r].todo = run[r].todo
        /\ run'[r].measures = run[r].measures
    BY <1>t, <1>5, FillRowMoves
  <2>2. UNCHANGED <<report, total>>
    BY <1>5 DEF FillRow, verdict
  <2> DEFINE n == Earned(run[r].inHand, run[r].measures)
  <2>3. SumOf(Scored(run'[r])) <= SumOf(Scored(run[r])) + n
    BY <2>1, FilledIsScored
  <2>4. /\ finished' = AtMostCap(finished + n)
        /\ finished' \in 0..Cap /\ finished' >= finished
    BY <1>t, <1>5, FillAdds
  <2>5. n \in Nat
    BY EarnedType
  <2> HIDE DEF n
  <2>6. SumOf(Scored(run[r])) \in Nat /\ SumOf(Scored(run'[r])) \in Nat
    BY ScoredType
  <2>7. SumOf(Scored(run'[r])) <= Cap
    <3>1. SumOf(Scored(run'[r])) <= SumOf(SubParameters)
      BY ScoredType, SumGrows
    <3>2. SumOf(SubParameters) \in Nat
      BY SumType
    <3> QED
      BY <1>t, <2>6, <3>1, <3>2 DEF WorthFits
  <2>8. SumOf(Scored(run[r])) <= finished /\ run[r].measures = report
    BY <1>c, <2>1 DEF Counts
  <2>9. SumOf(Scored(run'[r])) <= finished'
    BY <1>t, <2>3, <2>4, <2>5, <2>6, <2>7, <2>8 DEF AtMostCap
  <2>10. Enough(total)' /\ Counts(r)'
    BY <1>c, <1>p, <2>1, <2>2, <2>8, <2>9 DEF Enough, Counts
  <2> QED
    BY <1>t, <2>1, <2>2, <2>4, <2>10, OthersCount
<1>6. CASE Sum(r)
  <2>1. /\ Moves(r) /\ run[r].pc = "score" /\ run[r].todo = {}
        /\ unfinished > 0 => run'[r] = Idle
        /\ ~(unfinished > 0) => run'[r].pc = "save" /\ run'[r].total = finished
    BY <1>t, <1>6, SumMoves
  <2>2. UNCHANGED <<report, finished, total>>
    BY <1>6 DEF Sum, rows, verdict
  <2>3. run[r].measures = report /\ SumOf(Scored(run[r])) <= finished
    BY <1>c, <2>1 DEF Counts
  <2>4. ProfileScore <= SumOf(Scored(run[r]))
    BY <2>1, <2>3, ThroughIsEnough
  <2>5. ProfileScore <= finished
    BY <1>t, <2>3, <2>4, ScoredType, ProfileType
  <2>6. finished >= ProfileScore
    BY <1>t, <2>5, ProfileType
  <2>7. Enough(total)'
    BY <1>c, <1>p, <2>2 DEF Enough
  <2>8. Counts(r)'
    <3>1. CASE unfinished > 0
      BY <2>1, <3>1 DEF Counts, Idle
    <3>2. CASE ~(unfinished > 0)
      BY <1>p, <2>1, <2>2, <2>6, <3>2 DEF Counts, Enough
    <3> QED
      BY <3>1, <3>2
  <2> QED
    BY <1>t, <1>f, <2>1, <2>2, <2>7, <2>8, OthersCount
<1>7. CASE SaveScore(r)
  <2>1. Moves(r) /\ run[r].pc = "save" /\ run'[r].pc = "reread"
    BY <1>t, <1>7, SaveScoreMoves
  <2>2. UNCHANGED <<report, finished>> /\ total' = run[r].total
    BY <1>7 DEF SaveScore, rows
  <2>3. Enough(total)' /\ Counts(r)'
    BY <1>c, <1>p, <2>1, <2>2 DEF Enough, Counts
  <2> QED
    BY <1>t, <1>f, <2>1, <2>2, <2>3, OthersCount
<1>8. CASE Reread(r)
  <2>1. /\ Moves(r)
        /\ category = NONE => run'[r] = Idle
        /\ category # NONE => run'[r].pc = "decide" /\ run'[r].total = total
    BY <1>t, <1>8, RereadMoves
  <2>2. UNCHANGED <<report, finished, total>>
    BY <1>8 DEF Reread, rows, verdict
  <2>3. Enough(total)' /\ Counts(r)'
    BY <1>c, <1>p, <2>1, <2>2 DEF Enough, Counts, Idle
  <2> QED
    BY <1>t, <1>f, <2>1, <2>2, <2>3, OthersCount
<1>9. CASE Decide(r)
  <2>1. Moves(r) /\ run[r].pc = "decide" /\ run'[r].pc = "idle"
    BY <1>t, <1>9, EndMoves DEF Idle
  <2>2. UNCHANGED <<report, finished>> /\ total' = run[r].total
    BY <1>9 DEF Decide, rows
  <2>3. Enough(total)' /\ Counts(r)'
    BY <1>c, <1>p, <2>1, <2>2 DEF Enough, Counts
  <2> QED
    BY <1>t, <1>f, <2>1, <2>2, <2>3, OthersCount
<1>10. CASE Abort(r)
  <2>1. Moves(r) /\ run'[r].pc = "idle"
    BY <1>t, <1>10, EndMoves DEF Idle
  <2>2. UNCHANGED <<report, finished, total>>
    BY <1>10 DEF Abort, rows, verdict
  <2>3. Enough(total)' /\ Counts(r)'
    BY <1>c, <1>p, <2>1, <2>2 DEF Enough, Counts
  <2> QED
    BY <1>t, <1>f, <2>1, <2>2, <2>3, OthersCount
<1> QED
  BY <1>1, <1>2, <1>3, <1>4, <1>5, <1>6, <1>7, <1>8, <1>9, <1>10 DEF Step

LEMMA LeftOutInit == Init => LeftOutInv
BY DEF Init, LeftOutInv, Enough, Counts, Idle

\* However runs overlap and wherever one dies, no total leaves out a parameter
\* of a profile whose worths fit under the cap (NothingLeftOut), as long as the
\* report was there when the application was submitted.
THEOREM LeavesNoneOut ==
    ASSUME ~MayComeLate, WorthFits
    PROVE  Spec => []NothingLeftOut
<1> DEFINE J == landed /\ TypeInv /\ LeftOutInv
<1>1. Init => J
  BY TypeInit, LeftOutInit DEF Init
<1>2. J /\ [Next]_vars => J'
  <2> SUFFICES ASSUME J, [Next]_vars PROVE J'
    OBVIOUS
  <2>1. CASE Land
    BY <2>1 DEF Land
  <2>2. ASSUME NEW r \in Runs, Step(r) \/ Abort(r) PROVE J'
    <3>1. landed'
      BY <2>2 DEF Step, Begin, Open, ReadReport, InsertRow, FillRow, Sum, SaveScore,
                  Reread, Decide, Abort
    <3> QED
      BY <2>2, <3>1, TypeSteps, LeftOutSteps
  <2>3. CASE UNCHANGED vars
    <3>1. LeftOutInv'
      BY <2>3 DEF vars, rows, verdict, LeftOutInv, Counts, Enough, ProfileScore
    <3> QED
      BY <2>3, <3>1, TypeLands DEF vars
  <2> QED
    BY <2>1, <2>2, <2>3 DEF Next
<1>3. J => NothingLeftOut
  BY DEF LeftOutInv, Enough, NothingLeftOut
<1> QED
  BY <1>1, <1>2, <1>3, PTL DEF Spec
\* The same in the modes of MCScoring (LeavesNothingOut): a run alone or beside
\* others, which may die halfway, of reports that are there.
THEOREM LeavesNothingOutInModes ==
    ASSUME r1 \in Runs, WorthFits
    PROVE  MCSpec => []LeavesNothingOut
<1> DEFINE J == TypeInv /\ (mode \in {"serial", "overlap"} => LeftOutInv)
<1>1. MCInit => J
  BY TypeInit, LeftOutInit DEF MCInit
<1>2. J /\ [MCNext]_<<vars, mode>> => J'
  <2> SUFFICES ASSUME J, [MCNext]_<<vars, mode>> PROVE J'
    OBVIOUS
  <2>1. CASE mode = "retries" /\ Land /\ mode' = mode
    BY <2>1, TypeLands
  <2>2. ASSUME NEW r \in Active, Step(r) \/ Abort(r), mode' = mode PROVE J'
    <3>1. r \in Runs
      BY DEF Active
    <3> QED
      BY <2>2, <3>1, TypeSteps, LeftOutSteps
  <2>3. CASE UNCHANGED <<vars, mode>>
    <3>1. mode' = mode /\ TypeInv'
      BY <2>3, TypeLands
    <3>2. LeftOutInv => LeftOutInv'
      BY <2>3 DEF vars, rows, verdict, LeftOutInv, Counts, Enough, ProfileScore
    <3> QED
      BY <3>1, <3>2
  <2> QED
    BY <2>1, <2>2, <2>3 DEF MCNext
<1>3. J => LeavesNothingOut
  BY DEF LeftOutInv, Enough, NothingLeftOut, LeavesNothingOut
<1> QED
  BY <1>1, <1>2, <1>3, PTL DEF MCSpec

-----------------------------------------------------------------------------
(* The verdict of a run that nothing overlaps.  Whatever failed before, the *)
(* total and category that it reads again and saves are one verdict.       *)

Called(n, c) == c # NONE => n \in 0..Cap /\ c = CategoryOf(n)

FitsInv(r) ==
    /\ Called(total, category)
    /\ run[r].pc = "save" => Called(run[r].total, run[r].category)
    /\ run[r].pc = "decide" => /\ Called(run[r].total, run[r].category)
                               /\ run[r].category # NONE
    /\ run[r].pc # "idle" => status = "SUBMITTED"
    /\ VerdictFitsScore

LEMMA CategoryTells ==
    ASSUME NEW n
    PROVE  /\ CategoryOf(n) = "LOW" => In(Low, n)
           /\ CategoryOf(n) = "MEDIUM" => In(Medium, n)
           /\ CategoryOf(n) = "HIGH" => In(High, n)
BY ConstantsAssumption DEF ConstantsAssumption, CategoryOf

LEMMA FitsSteps ==
    ASSUME TypeInv, NEW r \in Runs, FitsInv(r), Step(r) \/ Abort(r)
    PROVE  FitsInv(r)'
<1>t. TypeOK /\ finished \in 0..Cap /\ run[r] \in RunStates
  BY DEF TypeInv, TypeOK, RunStates
<1>1. CASE Begin(r)
  <2>1. run'[r].pc \in {"open", "read"}
    BY <1>t, <1>1, BeginMoves
  <2> QED
    BY <1>1, <2>1 DEF Begin, rows, verdict, FitsInv, Called, VerdictFitsScore
<1>2. CASE Open(r)
  <2>1. run[r].pc = "open" /\ run'[r].pc \in {"idle", "read"}
    BY <1>t, <1>2, OpenMoves
  <2> QED
    BY <1>2, <2>1 DEF Open, rows, verdict, FitsInv, Called, VerdictFitsScore
<1>3. CASE ReadReport(r)
  <2>1. run[r].pc = "read" /\ run'[r].pc = "score"
    BY <1>t, <1>3, ReadReportMoves
  <2> QED
    BY <1>3, <2>1 DEF ReadReport, rows, verdict, FitsInv, Called, VerdictFitsScore
<1>4. ASSUME NEW p \in Parameters, InsertRow(r, p) PROVE FitsInv(r)'
  <2>1. run[r].pc = "score" /\ run'[r].pc = "fill"
    BY <1>t, <1>4, InsertRowMoves
  <2> QED
    BY <1>4, <2>1 DEF InsertRow, verdict, FitsInv, Called, VerdictFitsScore
<1>5. CASE FillRow(r)
  <2>1. run[r].pc = "fill" /\ run'[r].pc = "score"
    BY <1>t, <1>5, FillRowMoves
  <2> QED
    BY <1>5, <2>1 DEF FillRow, verdict, FitsInv, Called, VerdictFitsScore
<1>6. CASE Sum(r)
  <2>1. /\ run[r].pc = "score"
        /\ \/ run'[r].pc = "idle"
           \/ /\ run'[r].pc = "save" /\ run'[r].total = finished
              /\ run'[r].category = CategoryOf(finished)
    BY <1>t, <1>6, SumMoves DEF Idle
  <2> QED
    BY <1>t, <1>6, <2>1 DEF Sum, rows, verdict, FitsInv, Called, VerdictFitsScore
<1>7. CASE SaveScore(r)
  <2>1. run[r].pc = "save" /\ run'[r].pc = "reread"
    BY <1>t, <1>7, SaveScoreMoves
  <2>2. status = "SUBMITTED" /\ Called(run[r].total, run[r].category)
    BY <2>1 DEF FitsInv
  <2> QED
    BY <1>7, <2>1, <2>2 DEF SaveScore, rows, FitsInv, Called, VerdictFitsScore
<1>8. CASE Reread(r)
  <2>1. /\ run[r].pc = "reread"
        /\ \/ run'[r].pc = "idle"
           \/ /\ category # NONE
              /\ run'[r].pc = "decide" /\ run'[r].total = total
              /\ run'[r].category = category
    BY <1>t, <1>8, RereadMoves DEF Idle
  <2> QED
    BY <1>8, <2>1 DEF Reread, rows, verdict, FitsInv, Called, VerdictFitsScore
<1>9. CASE Decide(r)
  <2>1. run[r].pc = "decide" /\ run'[r].pc = "idle"
    BY <1>t, <1>9, EndMoves DEF Idle
  <2>2. /\ total' = run[r].total /\ category' = run[r].category
        /\ status' = IF run[r].category # "HIGH" THEN "SCORED_PASS" ELSE "SCORED_FAIL"
    BY <1>9 DEF Decide
  <2>3. run[r].category # NONE /\ run[r].category = CategoryOf(run[r].total)
    BY <2>1 DEF FitsInv, Called
  <2>4. run[r].category \in {"LOW", "MEDIUM", "HIGH"}
    BY <1>t, <2>3 DEF RunStates, Categories
  <2>5. VerdictFitsScore'
    BY <2>2, <2>3, <2>4, CategoryTells DEF VerdictFitsScore
  <2>6. Called(total, category)'
    BY <2>1, <2>2 DEF FitsInv, Called
  <2> QED
    BY <2>1, <2>5, <2>6 DEF FitsInv
<1>10. CASE Abort(r)
  <2>1. run'[r].pc = "idle"
    BY <1>t, <1>10, EndMoves DEF Idle
  <2> QED
    BY <1>10, <2>1 DEF Abort, rows, verdict, FitsInv, Called, VerdictFitsScore
<1> QED
  BY <1>1, <1>2, <1>3, <1>4, <1>5, <1>6, <1>7, <1>8, <1>9, <1>10 DEF Step

LEMMA FitsInit == ASSUME NEW r \in Runs PROVE Init => FitsInv(r)
BY DEF Init, FitsInv, Called, Idle, VerdictFitsScore

LEMMA FitsLands ==
    ASSUME NEW r \in Runs, FitsInv(r), Land \/ UNCHANGED vars
    PROVE  FitsInv(r)'
BY DEF Land, vars, rows, verdict, FitsInv, Called, VerdictFitsScore

-----------------------------------------------------------------------------
(* The score of a run that nothing overlaps and that does not fail, of a   *)
(* report that lacks no measure which a zero would meet.  What is finished *)
(* is what the run has scored, and a score that a band takes is saved at   *)
(* once: no second run adds the rows of a first.                           *)

Clean == \A s \in MetByZero : report[s] # "missing"

IsProfile(n, c) == n = ProfileScore /\ c = CategoryOf(ProfileScore)

Exact(r) ==
    /\ run[r].pc \in {"idle", "open", "read"} => finished = 0 /\ unfinished = 0
    /\ run[r].pc \in {"score", "fill"} =>
         /\ run[r].measures = report
         /\ finished = SumOf(Scored(run[r]))
         /\ unfinished = IF run[r].pc = "fill" THEN 1 ELSE 0
    /\ run[r].pc = "fill" => run[r].inHand \notin run[r].todo
    /\ run[r].pc \in {"save", "decide"} => IsProfile(run[r].total, run[r].category)
    /\ run[r].pc = "reread" => IsProfile(total, category)

ExactInv(r) ==
    /\ Clean
    /\ Classified =>
         IF status = "SUBMITTED" THEN Exact(r)
         ELSE run[r].pc = "idle" /\ IsProfile(total, category)

\* A score that a band takes is below the cap.
LEMMA ClassifiedFits == Classified => ProfileScore < Cap
<1> DEFINE n == ProfileScore
<1>1. n \in Nat
  BY ProfileType
<1> HIDE DEF n
<1>2. CategoryOf(n) # NONE => In(Low, n) \/ In(Medium, n) \/ In(High, n)
  BY DEF CategoryOf
<1>3. \A band \in {Low, Medium, High} : In(band, n) => n < Cap
  BY <1>1, ConstantsAssumption DEF ConstantsAssumption, In
<1> QED
  BY <1>2, <1>3 DEF Classified, n

LEMMA ScoredIsPart ==
    ASSUME Clean, NEW x, x.measures = report
    PROVE  SumOf(Scored(x)) <= ProfileScore
<1>1. Scored(x) \in SUBSET {s \in SubParameters : report[s] = "meets"}
  BY DEF Clean, Scored, Meets
<1> QED
  BY <1>1, SumGrows DEF ProfileScore

LEMMA FilledIsExact ==
    ASSUME NEW x, NEW y, x.pc = "fill", y.pc = "score", x.inHand \notin x.todo,
           y.todo = x.todo, y.measures = x.measures
    PROVE  SumOf(Scored(y)) = SumOf(Scored(x)) + Earned(x.inHand, x.measures)
<1> DEFINE A == Scored(x)
           C == {s \in SubParameters : ParameterOf[s] = x.inHand /\ Meets(x.measures, s)}
<1>1. A \cup C = Scored(y) /\ A \cap C = {}
  BY DEF Scored, Waiting
<1>2. A \in SUBSET SubParameters /\ C \in SUBSET SubParameters
  BY DEF Scored
<1>3. Earned(x.inHand, x.measures) = SumOf(C)
  BY DEF Earned
<1> HIDE DEF A, C
<1>4. SumOf(A \cup C) = SumOf(A) + SumOf(C)
  BY <1>1, <1>2, SumAddsUp
<1>5. SumOf(A \cup C) = SumOf(Scored(y))
  BY <1>1, Zenon
<1> QED
  BY <1>3, <1>4, <1>5 DEF A

LEMMA ExactSteps ==
    ASSUME TypeInv, NEW r \in Runs, ExactInv(r), Step(r)
    PROVE  ExactInv(r)'
<1>t. TypeOK /\ finished \in 0..Cap /\ unfinished \in Nat
  BY DEF TypeInv, TypeOK
<1>r. report' = report
  BY DEF Step, Begin, Open, ReadReport, InsertRow, FillRow, Sum, SaveScore, Reread, Decide
<1>p. /\ ProfileScore' = ProfileScore /\ Classified' = Classified /\ Clean' = Clean
      /\ \A n, c : IsProfile(n, c)' = IsProfile(n, c)
  BY <1>r DEF ProfileScore, Classified, Clean, IsProfile
<1> SUFFICES ASSUME Classified
             PROVE  IF status' = "SUBMITTED" THEN Exact(r)'
                    ELSE run'[r].pc = "idle" /\ IsProfile(total, category)'
  BY <1>p DEF ExactInv
<1>c. status = "SUBMITTED" => Exact(r)
  BY DEF ExactInv
<1>s. status # "SUBMITTED" => run[r].pc = "idle"
  BY DEF ExactInv
<1>1. CASE Begin(r)
  <2>1. status = "SUBMITTED" /\ run[r].pc = "idle" /\ run'[r].pc \in {"open", "read"}
    <3>1. run[r] = Idle /\ run'[r].pc \in {"open", "read"}
      BY <1>t, <1>1, BeginMoves
    <3>2. Idle.pc = "idle"
      BY DEF Idle
    <3> QED
      BY <1>1, <3>1, <3>2 DEF Begin
  <2>2. UNCHANGED <<status, finished, unfinished>>
    BY <1>1 DEF Begin, rows
  <2>3. Exact(r)'
    BY <1>c, <2>1, <2>2 DEF Exact
  <2> QED
    BY <2>1, <2>2, <2>3
<1>2. CASE Open(r)
  <2>1. run[r].pc = "open" /\ run'[r].pc \in {"idle", "read"}
    BY <1>t, <1>2, OpenMoves
  <2>2. UNCHANGED <<status, finished, unfinished>>
    BY <1>2 DEF Open, rows
  <2>3. status = "SUBMITTED"
    BY <1>s, <2>1
  <2>4. Exact(r)'
    BY <1>c, <2>1, <2>2, <2>3 DEF Exact
  <2> QED
    BY <2>2, <2>3, <2>4
<1>3. CASE ReadReport(r)
  <2>1. /\ run[r].pc = "read" /\ run'[r].pc = "score" /\ run'[r].todo = Parameters
        /\ run'[r].measures = report
    BY <1>t, <1>3, ReadReportMoves
  <2>2. UNCHANGED <<status, finished, unfinished>>
    BY <1>3 DEF ReadReport, rows
  <2>3. status = "SUBMITTED"
    BY <1>s, <2>1
  <2>4. Scored(run'[r]) = {}
    BY <2>1, NothingScored
  <2>5. SumOf(Scored(run'[r])) = 0
    BY <2>4, SumOfNone, Zenon
  <2>6. Exact(r)'
    BY <1>c, <1>r, <2>1, <2>2, <2>3, <2>5 DEF Exact
  <2> QED
    BY <2>2, <2>3, <2>6
<1>4. ASSUME NEW p \in Parameters, InsertRow(r, p)
      PROVE  status' = "SUBMITTED" /\ Exact(r)'
  <2>1. /\ run[r].pc = "score" /\ p \in run[r].todo
        /\ run'[r].pc = "fill" /\ run'[r].inHand = p /\ run'[r].todo = run[r].todo \ {p}
        /\ run'[r].measures = run[r].measures
    BY <1>t, <1>4, InsertRowMoves
  <2>2. UNCHANGED <<status, finished>> /\ unfinished' = unfinished + 1
    BY <1>4 DEF InsertRow
  <2>3. status = "SUBMITTED"
    BY <1>s, <2>1
  <2>4. Scored(run'[r]) = Scored(run[r])
    BY <2>1, InHandNotScored
  <2>5. SumOf(Scored(run'[r])) = SumOf(Scored(run[r]))
    BY <2>4, Zenon
  <2>6. Exact(r)'
    BY <1>c, <1>r, <2>1, <2>2, <2>3, <2>5 DEF Exact
  <2> QED
    BY <2>2, <2>3, <2>6
<1>5. CASE FillRow(r)
  <2>1. /\ run[r].pc = "fill"
        /\ run'[r].pc = "score" /\ run'[r].todo = run[r].todo
        /\ run'[r].measures = run[r].measures
    BY <1>t, <1>5, FillRowMoves
  <2>2. UNCHANGED status /\ unfinished' = unfinished - 1
    BY <1>5 DEF FillRow
  <2>3. status = "SUBMITTED"
    BY <1>s, <2>1
  <2>4. /\ run[r].measures = report /\ unfinished = 1
        /\ finished = SumOf(Scored(run[r])) /\ run[r].inHand \notin run[r].todo
    BY <1>c, <2>1, <2>3 DEF Exact
  <2> DEFINE n == Earned(run[r].inHand, run[r].measures)
  <2>5. finished' = AtMostCap(finished + n)
    BY <1>t, <1>5, FillAdds
  <2>6. SumOf(Scored(run'[r])) = finished + n
    BY <2>1, <2>4, FilledIsExact
  <2> HIDE DEF n
  <2>7. SumOf(Scored(run'[r])) <= ProfileScore
    BY <2>1, <2>4, ScoredIsPart DEF ExactInv
  <2>8. SumOf(Scored(run'[r])) < Cap
    BY <2>7, ClassifiedFits, ScoredType, ProfileType, ConstantsAssumption DEF ConstantsAssumption
  <2>9. finished' = SumOf(Scored(run'[r]))
    BY <2>5, <2>6, <2>8 DEF AtMostCap
  <2>10. Exact(r)'
    BY <1>r, <2>1, <2>2, <2>4, <2>9 DEF Exact
  <2> QED
    BY <2>2, <2>3, <2>10
<1>6. CASE Sum(r)
  <2>1. /\ run[r].pc = "score" /\ run[r].todo = {}
        /\ ~(unfinished > 0) => /\ run'[r].pc = "save" /\ run'[r].total = finished
                                /\ run'[r].category = CategoryOf(finished)
    BY <1>t, <1>6, SumMoves
  <2>2. UNCHANGED status
    BY <1>6 DEF Sum
  <2>3. status = "SUBMITTED"
    BY <1>s, <2>1
  <2>4. /\ run[r].measures = report /\ unfinished = 0
        /\ finished = SumOf(Scored(run[r]))
    BY <1>c, <2>1, <2>3 DEF Exact
  <2>5. ProfileScore <= SumOf(Scored(run[r])) /\ SumOf(Scored(run[r])) <= ProfileScore
    BY <2>1, <2>4, ThroughIsEnough, ScoredIsPart DEF ExactInv
  <2>6. finished = ProfileScore
    BY <2>4, <2>5, ScoredType, ProfileType
  <2>7. run'[r].pc = "save" /\ IsProfile(run'[r].total, run'[r].category)
    BY <2>1, <2>4, <2>6 DEF IsProfile
  <2>8. Exact(r)'
    BY <1>p, <2>7 DEF Exact, IsProfile
  <2> QED
    BY <2>2, <2>3, <2>8
<1>7. CASE SaveScore(r)
  <2>1. run[r].pc = "save" /\ run'[r].pc = "reread"
    BY <1>t, <1>7, SaveScoreMoves
  <2>2. UNCHANGED status /\ total' = run[r].total /\ category' = run[r].category
    BY <1>7 DEF SaveScore
  <2>3. status = "SUBMITTED"
    BY <1>s, <2>1
  <2>4. Exact(r)'
    BY <1>c, <1>p, <2>1, <2>2, <2>3 DEF Exact, IsProfile
  <2> QED
    BY <2>2, <2>3, <2>4
<1>8. CASE Reread(r)
  <2>1. /\ run[r].pc = "reread"
        /\ category # NONE => /\ run'[r].pc = "decide" /\ run'[r].total = total
                              /\ run'[r].category = category
    BY <1>t, <1>8, RereadMoves
  <2>2. UNCHANGED status
    BY <1>8 DEF Reread
  <2>3. status = "SUBMITTED"
    BY <1>s, <2>1
  <2>4. total = ProfileScore /\ category = CategoryOf(ProfileScore)
    BY <1>c, <2>1, <2>3 DEF Exact, IsProfile
  <2>5. category # NONE
    BY <2>4 DEF Classified
  <2>6. Exact(r)'
    BY <1>p, <2>1, <2>4, <2>5 DEF Exact, IsProfile
  <2> QED
    BY <2>2, <2>3, <2>6
<1>9. CASE Decide(r)
  <2>1. run[r].pc = "decide" /\ run'[r].pc = "idle"
    BY <1>t, <1>9, EndMoves DEF Idle
  <2>2. /\ total' = run[r].total /\ category' = run[r].category
        /\ status' # "SUBMITTED"
    BY <1>9 DEF Decide
  <2>3. status = "SUBMITTED"
    BY <1>s, <2>1
  <2>4. IsProfile(total, category)'
    BY <1>c, <1>p, <2>1, <2>2, <2>3 DEF Exact, IsProfile
  <2> QED
    BY <2>1, <2>2, <2>4
<1> QED
  BY <1>1, <1>2, <1>3, <1>4, <1>5, <1>6, <1>7, <1>8, <1>9 DEF Step

\* Of runs that do not overlap, a verdict is the one that the score and the
\* category saved with it call for, and where none fails and the report lacks
\* nothing that a zero meets, the score is exact (VerdictIsRight).
THEOREM VerdictIsRightInModes ==
    ASSUME r1 \in Runs, \A m \in SerialReports, s \in MetByZero : m[s] # "missing"
    PROVE  MCSpec => []VerdictIsRight
<1> DEFINE J == /\ TypeInv
                /\ mode \in {"serial", "retries"} => FitsInv(r1)
                /\ mode = "serial" => ExactInv(r1)
<1>1. MCInit => J
  <2> SUFFICES ASSUME MCInit PROVE J
    OBVIOUS
  <2>1. Init
    BY DEF MCInit
  <2>2. run[r1].pc = "idle" /\ finished = 0 /\ unfinished = 0 /\ status = "SUBMITTED"
    BY <2>1 DEF Init, Idle
  <2>3. mode = "serial" => Clean
    BY DEF MCInit, Clean
  <2>4. Exact(r1)
    BY <2>2 DEF Exact
  <2> QED
    BY <2>1, <2>2, <2>3, <2>4, TypeInit, FitsInit DEF ExactInv
<1>2. J /\ [MCNext]_<<vars, mode>> => J'
  <2> SUFFICES ASSUME J, [MCNext]_<<vars, mode>> PROVE J'
    OBVIOUS
  <2>1. CASE mode = "retries" /\ Land /\ mode' = mode
    BY <2>1, TypeLands, FitsLands
  <2>2. ASSUME NEW r \in Active, Step(r) \/ (faults < FaultsOf[mode] /\ Abort(r)), mode' = mode
        PROVE  J'
    <3>1. r \in Runs /\ (mode \in {"serial", "retries"} => r = r1)
      BY DEF Active
    <3>2. mode = "serial" => Step(r)
      BY <2>2 DEF FaultsOf, TypeInv, TypeOK
    <3>3. TypeInv'
      BY <2>2, <3>1, TypeSteps
    <3>4. mode \in {"serial", "retries"} => FitsInv(r1)'
      BY <2>2, <3>1, FitsSteps
    <3>5. mode = "serial" => ExactInv(r1)'
      BY <2>2, <3>1, <3>2, ExactSteps
    <3> QED
      BY <2>2, <3>3, <3>4, <3>5
  <2>3. CASE UNCHANGED <<vars, mode>>
    <3>1. mode' = mode /\ TypeInv' /\ (FitsInv(r1) => FitsInv(r1)')
      BY <2>3, TypeLands, FitsLands
    <3>2. ExactInv(r1) => ExactInv(r1)'
      BY <2>3 DEF vars, rows, verdict, ExactInv, Exact, Clean, Classified, IsProfile, ProfileScore
    <3> QED
      BY <3>1, <3>2
  <2> QED
    BY <2>1, <2>2, <2>3 DEF MCNext
<1>3. J => VerdictIsRight
  BY DEF VerdictIsRight, FitsInv, ExactInv, ScoreIsExact, IsProfile
<1> QED
  BY <1>1, <1>2, <1>3, PTL DEF MCSpec
=============================================================================
