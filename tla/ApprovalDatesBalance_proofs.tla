--------------------- MODULE ApprovalDatesBalance_proofs ---------------------
(***************************************************************************)
(* Proofs about ApprovalDates: the end of the approval is what its rows    *)
(* make it, and prolongations begin after the default duration.            *)
(*                                                                         *)
(* The sum over the rows of a table is a choice among the functions that   *)
(* satisfy a recursive equation.  The first part shows that there is       *)
(* exactly one, by well-founded minimality, and what it does when a row is *)
(* written; the second part uses it for the steps of the approval.         *)
(***************************************************************************)
EXTENDS ApprovalDates_proofs, FiniteSetTheorems, WellFoundedInduction

(* The days of the rows S of a table, and the equation of a function that  *)
(* gives those of every set of rows.                                       *)
Days(table, S) == MapThenSumSet(LAMBDA k : Duration(table[k]), S)

Some(s) == CHOOSE x \in s : TRUE
SumOf(table, f, s) == IF s = {} THEN 0 ELSE Duration(table[Some(s)]) + f[s \ {Some(s)}]
IsSum(table, S, f) == f = [s \in SUBSET S |-> SumOf(table, f, s)]

(* The definition of the library, as one function over the subsets.        *)
LEMMA DaysIsASum ==
  ASSUME NEW table, NEW S
  PROVE  Days(table, S) = (CHOOSE f : IsSum(table, S, f))[S]
  BY Zenon DEF Days, MapThenSumSet, MapThenFoldSet, IsSum, Some, SumOf

(* Induction, in first order: a set of numbers has a least one, a set of   *)
(* finite sets one that loses its membership when an element is removed.   *)
LEMMA LeastNumber ==
  ASSUME NEW T \in SUBSET Nat, T # {}
  PROVE  \E n \in T : \A m \in T : ~(m < n)
<1> DEFINE R == {ss \in Nat \X Nat : ss[1] < ss[2]}
<1>0. IsWellFoundedOn(R, Nat)
  BY NatLessThanWellFounded DEF OpToRel
<1>1. \E n \in T : \A m \in T : ~ (<<m, n>> \in R)
  <2> HIDE DEF R
  <2> QED
  BY <1>0, WFMin
<1> QED
  BY <1>1 

LEMMA SmallestSet ==
  ASSUME NEW S, IsFiniteSet(S), NEW T \in SUBSET (SUBSET S), T # {}
  PROVE  \E s \in T : \A x \in s : s \ {x} \notin T
<1> DEFINE R == {ss \in (SUBSET S) \X (SUBSET S) : ss[1] \subseteq ss[2] /\ ss[1] # ss[2]}
<1>1. T \subseteq FiniteSubsetsOf(S)
  BY FS_Subset DEF FiniteSubsetsOf
<1>2. IsWellFoundedOn(R, FiniteSubsetsOf(S))
  BY FS_StrictSubsetOrderingWellFounded DEF StrictSubsetOrdering
<1>3. PICK s \in T : \A u \in T : ~(<<u, s>> \in R)
  <2> HIDE DEF R
  <2> QED
    BY <1>1, <1>2, WFMin
<1>4. \A x \in s : s \ {x} \subseteq s /\ s \ {x} # s
  OBVIOUS
<1> QED
  BY <1>3, <1>4

LEMMA SomeIsIn == ASSUME NEW s, s # {} PROVE Some(s) \in s
  BY DEF Some

(* Two functions that satisfy the equation of the sum are the same, and    *)
(* there is one.                                                           *)
LEMMA SumIsUnique ==
  ASSUME NEW table, NEW S, IsFiniteSet(S), NEW f, NEW g, IsSum(table, S, f), IsSum(table, S, g)
  PROVE  f = g
<1> DEFINE T == {s \in SUBSET S : f[s] # g[s]}
<1>1. \A s \in SUBSET S : f[s] = SumOf(table, f, s) /\ g[s] = SumOf(table, g, s)
  BY Zenon DEF IsSum
<1>2. T = {}
  <2> SUFFICES ASSUME T # {} PROVE FALSE
    OBVIOUS
  <2>1. PICK s \in T : \A x \in s : s \ {x} \notin T
    <3>1. T \in SUBSET (SUBSET S)
      OBVIOUS
    <3> HIDE DEF T
    <3> QED
      BY <3>1, SmallestSet
  <2>2. CASE s = {}
    BY <1>1, <2>2 DEF SumOf
  <2>3. CASE s # {}
    <3>1. Some(s) \in s
      BY <2>3, SomeIsIn
    <3>2. f[s \ {Some(s)}] = g[s \ {Some(s)}]
      BY <2>1, <3>1
    <3> QED
      BY <1>1, <2>1, <2>3, <3>2 DEF SumOf
  <2> QED
    BY <2>2, <2>3
<1>3. f = [s \in SUBSET S |-> f[s]] /\ g = [s \in SUBSET S |-> g[s]]
  BY <1>1 DEF IsSum
<1> QED
  BY <1>2, <1>3

HasDays(table, S) == \A k \in S : Duration(table[k]) \in Int

LEMMA SumExists ==
  ASSUME NEW table, NEW S, IsFiniteSet(S), HasDays(table, S)
  PROVE  \E f \in [SUBSET S -> Int] : IsSum(table, S, f)
<1> DEFINE Small(n) == {s \in SUBSET S : Cardinality(s) <= n}
           Good(n) == \E f \in [Small(n) -> Int] : \A s \in Small(n) : f[s] = SumOf(table, f, s)
           T == {n \in Nat : ~Good(n)}
<1>1. \A s \in SUBSET S : IsFiniteSet(s) /\ Cardinality(s) \in Nat /\ Cardinality(s) <= Cardinality(S)
  BY FS_Subset, FS_CardinalityType
<1>2. T = {}
  <2> SUFFICES ASSUME T # {} PROVE FALSE
    OBVIOUS
  <2>1. PICK n \in T : \A m \in T : ~(m < n)
    <3>1. T \in SUBSET Nat
      OBVIOUS
    <3> HIDE DEF T
    <3> QED
      BY <3>1, LeastNumber
  <2>2. n \in Nat /\ ~Good(n)
    BY <2>1
  <2>3. CASE n = 0
    <3> DEFINE f == [s \in Small(n) |-> 0]
    <3>1. \A s \in Small(n) : s = {}
      BY <1>1, <2>3, FS_EmptySet
    <3>2. f \in [Small(n) -> Int] /\ \A s \in Small(n) : f[s] = SumOf(table, f, s)
      BY <3>1 DEF SumOf
    <3> QED
      BY <2>2, <3>2
  <2>4. CASE n # 0
    <3>1. n - 1 \in Nat /\ Good(n - 1)
      <4>1. n - 1 \in Nat /\ n - 1 < n
        BY <2>2, <2>4
      <4>2. n - 1 \notin T
        <5> HIDE DEF T
        <5> QED
          BY <2>1, <4>1
      <4> HIDE DEF Good
      <4> QED
        BY <4>1, <4>2
    <3>2. PICK f \in [Small(n - 1) -> Int] : \A s \in Small(n - 1) : f[s] = SumOf(table, f, s)
      BY <3>1
    <3> DEFINE g == [s \in Small(n) |-> SumOf(table, f, s)]
    <3>3. ASSUME NEW s \in Small(n), s # {}
          PROVE  s \ {Some(s)} \in Small(n - 1) /\ Duration(table[Some(s)]) \in Int
      <4>1. Some(s) \in s /\ s \in SUBSET S
        BY <3>3, SomeIsIn
      <4>2. Cardinality(s \ {Some(s)}) = Cardinality(s) - 1
        BY <1>1, <4>1, FS_RemoveElement
      <4>3. Cardinality(s) \in Nat /\ Cardinality(s) <= n
        BY <1>1, <4>1
      <4> QED
        BY <2>2, <4>1, <4>2, <4>3 DEF HasDays
    <3>4. g \in [Small(n) -> Int]
      BY <3>2, <3>3 DEF SumOf
    <3>5. ASSUME NEW u \in Small(n - 1) PROVE g[u] = f[u]
      <4>1. u \in Small(n)
        BY <1>1, <2>2
      <4> QED
        BY <3>2, <4>1
    <3>6. ASSUME NEW s \in Small(n) PROVE g[s] = SumOf(table, g, s)
      <4>1. g[s] = SumOf(table, f, s)
        OBVIOUS
      <4> HIDE DEF g
      <4> QED
        BY <3>3, <3>5, <4>1 DEF SumOf
    <3> HIDE DEF g
    <3>7. Good(n)
      BY <3>4, <3>6
    <3> QED
      BY <2>2, <3>7
  <2> QED
    BY <2>3, <2>4
<1>3. Good(Cardinality(S)) /\ Small(Cardinality(S)) = SUBSET S
  <2>1. Cardinality(S) \in Nat
    BY FS_CardinalityType
  <2> QED
    BY <1>1, <1>2, <2>1
<1>4. PICK f \in [SUBSET S -> Int] : \A s \in SUBSET S : f[s] = SumOf(table, f, s)
  <2> HIDE DEF Small
  <2> QED
    BY <1>3
<1>5. f = [s \in SUBSET S |-> SumOf(table, f, s)]
  BY <1>4
<1> QED
  BY <1>5 DEF IsSum

(* It gives the sum over every subset.                                     *)
LEMMA DaysAre ==
  ASSUME NEW table, NEW S, IsFiniteSet(S), NEW f, IsSum(table, S, f)
  PROVE  \A s \in SUBSET S : Days(table, s) = f[s]
<1> SUFFICES ASSUME NEW s \in SUBSET S PROVE Days(table, s) = f[s]
  OBVIOUS
<1> DEFINE g == [u \in SUBSET s |-> f[u]]
<1>1. \A u \in SUBSET S : f[u] = SumOf(table, f, u)
  BY Zenon DEF IsSum
<1>2. IsFiniteSet(s)
  BY FS_Subset
<1>3. \A u \in SUBSET s : SumOf(table, f, u) = SumOf(table, g, u)
  <2>1. \A u \in SUBSET s : u \ {Some(u)} \in SUBSET s
    OBVIOUS
  <2> QED
    BY <2>1 DEF SumOf
<1>4. g = [u \in SUBSET s |-> SumOf(table, g, u)]
  <2>1. \A u \in SUBSET s : f[u] = SumOf(table, g, u)
    BY <1>1, <1>3
  <2> QED
    BY <2>1
<1> HIDE DEF g
<1>5. IsSum(table, s, g)
  BY <1>4 DEF IsSum
<1>6. IsSum(table, s, CHOOSE h : IsSum(table, s, h))
  BY <1>5, Zenon
<1>7. (CHOOSE h : IsSum(table, s, h)) = g
  BY <1>2, <1>5, <1>6, SumIsUnique
<1> QED
  BY <1>7, DaysIsASum DEF g

(* The sum over no row, over some rows, and over some rows but one.        *)
LEMMA DaysOfNone == \A table : Days(table, {}) = 0
<1> SUFFICES ASSUME NEW table PROVE Days(table, {}) = 0
  OBVIOUS
<1>1. IsFiniteSet({}) /\ HasDays(table, {})
  BY FS_EmptySet DEF HasDays
<1>2. PICK f \in [SUBSET {} -> Int] : IsSum(table, {}, f)
  BY <1>1, SumExists
<1>3. Days(table, {}) = f[{}]
  BY <1>1, <1>2, DaysAre
<1>4. f[{}] = SumOf(table, f, {})
  BY <1>2, Zenon DEF IsSum
<1> QED
  BY <1>3, <1>4 DEF SumOf

LEMMA DaysStep ==
  ASSUME NEW table, NEW S, IsFiniteSet(S), HasDays(table, S), NEW s \in SUBSET S
  PROVE  /\ Days(table, s) \in Int
         /\ s # {} => Days(table, s) = Duration(table[Some(s)]) + Days(table, s \ {Some(s)})
<1>1. PICK f \in [SUBSET S -> Int] : IsSum(table, S, f)
  BY SumExists
<1>2. \A u \in SUBSET S : Days(table, u) = f[u]
  BY <1>1, DaysAre
<1>3. f[s] = SumOf(table, f, s)
  BY <1>1, Zenon DEF IsSum
<1> QED
  BY <1>2, <1>3 DEF SumOf

LEMMA DaysWithout ==
  ASSUME NEW table, NEW S, IsFiniteSet(S), HasDays(table, S)
  PROVE  \A x \in S : Days(table, S) = Duration(table[x]) + Days(table, S \ {x})
<1> DEFINE T == {s \in SUBSET S : \E x \in s : Days(table, s) # Duration(table[x]) + Days(table, s \ {x})}
<1>1. T = {}
  <2> SUFFICES ASSUME T # {} PROVE FALSE
    OBVIOUS
  <2>1. PICK s \in T : \A x \in s : s \ {x} \notin T
    <3>1. T \in SUBSET (SUBSET S)
      OBVIOUS
    <3> HIDE DEF T
    <3> QED
      BY <3>1, SmallestSet
  <2>2. PICK x \in s : Days(table, s) # Duration(table[x]) + Days(table, s \ {x})
    BY <2>1
  <2>3. PICK p \in s : p = Some(s)
    BY <2>2, SomeIsIn
  <2>4. Days(table, s) = Duration(table[p]) + Days(table, s \ {p})
    BY <2>1, <2>2, <2>3, DaysStep
  <2>5. x # p
    BY <2>2, <2>4
  <2>6. Days(table, s \ {p}) = Duration(table[x]) + Days(table, (s \ {p}) \ {x})
    BY <2>1, <2>5
  <2>7. Days(table, s \ {x}) = Duration(table[p]) + Days(table, (s \ {x}) \ {p})
    BY <2>1, <2>5
  <2>8. (s \ {p}) \ {x} = (s \ {x}) \ {p}
    OBVIOUS
  <2>9. Duration(table[x]) \in Int /\ Duration(table[p]) \in Int /\ Days(table, (s \ {x}) \ {p}) \in Int
    <3>1. (s \ {x}) \ {p} \in SUBSET S /\ x \in S /\ p \in S
      BY <2>1
    <3> QED
      BY <3>1, DaysStep DEF HasDays
  <2>10. PICK a \in Int, b \in Int, d \in Int :
            a = Duration(table[x]) /\ b = Duration(table[p]) /\ d = Days(table, (s \ {x}) \ {p})
    BY <2>9
  <2>11. Days(table, s) = b + (a + d)
    BY <2>4, <2>6, <2>8, <2>10
  <2>12. Days(table, s) # a + (b + d)
    BY <2>2, <2>7, <2>10
  <2> QED
    BY <2>10, <2>11, <2>12
<1> QED
  BY <1>1

(* Two tables that agree on their rows have the same days; rows that do    *)
(* not end before they start give a number of days that is not negative.   *)
LEMMA DaysAgree ==
  ASSUME NEW t, NEW u, NEW S, IsFiniteSet(S), HasDays(t, S), \A k \in S : t[k] = u[k]
  PROVE  Days(t, S) = Days(u, S)
<1>1. PICK f \in [SUBSET S -> Int] : IsSum(t, S, f)
  BY SumExists
<1>2. \A s \in SUBSET S : SumOf(t, f, s) = SumOf(u, f, s)
  BY SomeIsIn DEF SumOf
<1>3. IsSum(u, S, f)
  BY <1>1, <1>2 DEF IsSum
<1>4. (\A s \in SUBSET S : Days(t, s) = f[s]) /\ (\A s \in SUBSET S : Days(u, s) = f[s])
  BY <1>1, <1>3, DaysAre
<1> QED
  BY <1>4

LEMMA DaysNat ==
  ASSUME NEW table, NEW S, IsFiniteSet(S), \A k \in S : Duration(table[k]) \in Nat
  PROVE  Days(table, S) \in Nat
<1> DEFINE T == {s \in SUBSET S : Days(table, s) \notin Nat}
<1>0. HasDays(table, S)
  BY DEF HasDays
<1>1. T = {}
  <2> SUFFICES ASSUME T # {} PROVE FALSE
    OBVIOUS
  <2>1. PICK s \in T : \A x \in s : s \ {x} \notin T
    <3>1. T \in SUBSET (SUBSET S)
      OBVIOUS
    <3> HIDE DEF T
    <3> QED
      BY <3>1, SmallestSet
  <2>2. CASE s = {}
    BY <2>1, <2>2, DaysOfNone
  <2>3. CASE s # {}
    <3>1. PICK p \in s : p = Some(s)
      BY <2>3, SomeIsIn
    <3>2. Days(table, s) = Duration(table[p]) + Days(table, s \ {p})
      BY <1>0, <2>1, <2>3, <3>1, DaysStep
    <3>3. Days(table, s \ {p}) \in Nat /\ Duration(table[p]) \in Nat
      BY <2>1
    <3> QED
      BY <2>1, <3>2, <3>3
  <2> QED
    BY <2>2, <2>3
<1> QED
  BY <1>1
-----------------------------------------------------------------------------
(* The rows of a table, and what writing one of them does to its total.    *)
Rows == Period \union Prolongation

LEMMA DaysOfType ==
  ASSUME NEW row \in Rows \union {Absent}
  PROVE  DaysOf(row) \in Int /\ (row # Absent => DaysOf(row) = Duration(row))
  BY AbsentIsNoRow DEF DaysOf, Duration, Rows, Period, Prolongation

LEMMA RowsHaveDays ==
  ASSUME NEW K, NEW table \in [K -> Rows \union {Absent}], NEW S \in SUBSET Exist(table)
  PROVE  HasDays(table, S)
  BY DEF HasDays, Exist, Rows, Duration, Period, Prolongation

LEMMA TotalIsDays ==
  ASSUME NEW table
  PROVE  Total(table) = Days(table, Exist(table))
  BY Zenon DEF Total, Days

LEMMA TotalWithout ==
  ASSUME NEW K, NEW table \in [K -> Rows \union {Absent}], IsFiniteSet(Exist(table)), NEW k \in K
  PROVE  /\ Days(table, Exist(table) \ {k}) \in Int
         /\ Total(table) = Days(table, Exist(table) \ {k}) + DaysOf(table[k])
<1>1. HasDays(table, Exist(table)) /\ table[k] \in Rows \union {Absent}
  BY RowsHaveDays
<1>2. Days(table, Exist(table) \ {k}) \in Int
  BY <1>1, DaysStep
<1>3. CASE table[k] = Absent
  <2>1. Exist(table) \ {k} = Exist(table) /\ DaysOf(table[k]) = 0
    BY <1>3 DEF Exist, DaysOf
  <2>2. Total(table) = Days(table, Exist(table) \ {k})
    BY Zenon, <2>1, TotalIsDays
  <2> QED
    BY <1>2, <2>1, <2>2
<1>4. CASE table[k] # Absent
  <2>1. k \in Exist(table)
    BY <1>4 DEF Exist
  <2>2. Days(table, Exist(table)) = Duration(table[k]) + Days(table, Exist(table) \ {k})
    BY <1>1, <2>1, DaysWithout
  <2>3. DaysOf(table[k]) \in Int /\ DaysOf(table[k]) = Duration(table[k])
    BY <1>1, <1>4, DaysOfType
  <2> QED
    BY <1>2, <2>2, <2>3, TotalIsDays
<1> QED
  BY <1>2, <1>3, <1>4

LEMMA TotalIsInt ==
  ASSUME NEW K, NEW table \in [K -> Rows \union {Absent}], IsFiniteSet(Exist(table))
  PROVE  Total(table) \in Int
<1>1. HasDays(table, Exist(table))
  BY RowsHaveDays
<1> QED
  BY <1>1, DaysStep, TotalIsDays

LEMMA DaysOfOthers ==
  ASSUME NEW K, NEW table \in [K -> Rows \union {Absent}], NEW after,
         NEW S \in SUBSET Exist(table), IsFiniteSet(S), \A x \in S : table[x] = after[x]
  PROVE  Days(table, S) = Days(after, S)
<1>1. HasDays(table, S)
  BY RowsHaveDays
<1> QED
  BY <1>1, DaysAgree

LEMMA TotalOfChange ==
  ASSUME NEW K, NEW table \in [K -> Rows \union {Absent}], IsFiniteSet(Exist(table)),
         NEW after \in [K -> Rows \union {Absent}],
         NEW k \in K, \A x \in K \ {k} : after[x] = table[x]
  PROVE  /\ IsFiniteSet(Exist(after))
         /\ Total(table) \in Int /\ Total(after) \in Int
         /\ Total(after) = Total(table) - DaysOf(table[k]) + DaysOf(after[k])
<1> DEFINE S == Exist(table) \ {k}
<1>1. Exist(after) \ {k} = S
  BY DEF Exist
<1>2. Exist(after) \subseteq Exist(table) \union {k}
  BY DEF Exist
<1>3. IsFiniteSet(Exist(after))
  BY <1>2, FS_AddElement, FS_Subset
<1>4. Days(table, S) = Days(after, S)
  <2>1. S \in SUBSET Exist(table) /\ IsFiniteSet(S)
    BY FS_Subset
  <2>2. \A x \in S : table[x] = after[x]
    BY DEF Exist
  <2> HIDE DEF S
  <2> QED
    BY <2>1, <2>2, DaysOfOthers
<1>5. /\ Days(table, S) \in Int
      /\ Total(table) = Days(table, S) + DaysOf(table[k])
  BY TotalWithout
<1>6. Total(after) = Days(table, S) + DaysOf(after[k])
  BY <1>1, <1>3, <1>4, TotalWithout
<1>7. DaysOf(table[k]) \in Int /\ DaysOf(after[k]) \in Int
  BY DaysOfType
<1> QED
  BY <1>3, <1>5, <1>6, <1>7
-----------------------------------------------------------------------------
(* What a statement does to the dates and to the rows behind them: a row   *)
(* of one of the two tables, with the trigger that moves the end, or an    *)
(* approval that has not begun, put back to its default dates.  A          *)
(* prolongation starts on a day that some request has proposed.            *)
Lasting(row) == row # Absent => row.start <= row.end

Proposing(w) == session[w].op \in {"prolong", "request"}

Proposed ==
    {requests[r].start : r \in Exist(requests)}
    \union {session[w].row.start : w \in {v \in Sessions : Proposing(v)}}

WritesSuspension ==
    /\ \E s \in Suspensions :
          /\ pass' = Written(pass, suspensions[s], suspensions'[s])
          /\ Lasting(suspensions'[s])
          /\ \A x \in Suspensions \ {s} : suspensions'[x] = suspensions[x]
    /\ UNCHANGED prolongations

WritesProlongation ==
    /\ \E p \in Prolongations :
          /\ pass' = Written(pass, prolongations[p], prolongations'[p])
          /\ Lasting(prolongations'[p]) /\ prolongations'[p].start \in Proposed
          /\ \A x \in Prolongations \ {p} : prolongations'[x] = prolongations[x]
    /\ UNCHANGED suspensions

Postpones ==
    /\ ~Begun
    /\ pass'.end = DefaultEnd(pass'.start)
    /\ UNCHANGED <<suspensions, prolongations>>

LEMMA AbsentHasNoDays ==
  ASSUME NEW dates, NEW old, old = Absent, NEW row
  PROVE  Written(dates, Absent, row) = Written(dates, old, row)
  OBVIOUS

LEMMA InsertWritesProlongation ==
  ASSUME TypeOK, NEW row \in Prolongation, InsertProlongation(row), row.start \in Proposed,
         UNCHANGED suspensions
  PROVE  WritesProlongation
<1>1. PICK p \in Prolongations \ Exist(prolongations) :
          prolongations' = [prolongations EXCEPT ![p] = row]
  BY DEF InsertProlongation
<1>2. prolongations \in [Prolongations -> Prolongation \union {Absent}]
  BY DEF TypeOK
<1>3. prolongations[p] = Absent /\ prolongations'[p] = row
  BY <1>1, <1>2 DEF Exist
<1>4. pass' = Written(pass, prolongations[p], prolongations'[p])
  BY <1>3 DEF InsertProlongation
<1>5. \A x \in Prolongations \ {p} : prolongations'[x] = prolongations[x]
  BY <1>1, <1>2
<1>6. Lasting(prolongations'[p]) /\ prolongations'[p].start \in Proposed
  BY <1>3 DEF InsertProlongation, FreeOfProlongation, Lasting
<1> QED
  BY <1>4, <1>5, <1>6 DEF WritesProlongation

LEMMA SaveWritesSuspension ==
  ASSUME TypeOK, NEW s \in Suspensions, NEW row,
         SaveSuspension(s, row, pass) \/ (DropSuspension(s, pass) /\ row = Absent),
         UNCHANGED prolongations
  PROVE  WritesSuspension
<1>1. suspensions \in [Suspensions -> Period \union {Absent}]
  BY DEF TypeOK
<1>2. suspensions' = [suspensions EXCEPT ![s] = row] /\ pass' = Written(pass, suspensions[s], row)
  BY DEF SaveSuspension, DropSuspension
<1>3. suspensions'[s] = row /\ \A x \in Suspensions \ {s} : suspensions'[x] = suspensions[x]
  BY <1>1, <1>2
<1>4. Lasting(row)
  BY DEF SaveSuspension, FreeOfSuspension, Lasting
<1> QED
  BY <1>2, <1>3, <1>4 DEF WritesSuspension

(* A hiring that lifts a suspension has seen an approval that had begun:   *)
(* it does not save the dates of the approval.                             *)
LEMMA LiftsOrPostpones ==
  ASSUME DatesInv, NEW w \in Sessions, CommitAccept(w), ~overwritten'
  PROVE  \/ UNCHANGED <<pass, suspensions, prolongations>>
         \/ WritesSuspension
         \/ Postpones
<1> DEFINE tx == session[w]
<1>1. TypeOK /\ Seen(tx) /\ tx \in Accepting /\ tx.op = "accept"
  BY AcceptType DEF DatesInv, TypeInv, CommitAccept
<1>2. ~overwritten /\ ~LostUpdate(tx) /\ UNCHANGED prolongations
  BY DEF CommitAccept
<1>3. pass.start \in Int /\ today \in Nat
  BY <1>1 DEF TypeOK, Period
<1>4. CASE tx.lifts = NoKey
  <2>1. pass' = SavedDates(tx) /\ UNCHANGED suspensions
    BY <1>1, <1>4, AcceptType
  <2>2. CASE tx.moves = Absent
    BY <1>2, <2>1, <2>2 DEF SavedDates
  <2>3. CASE tx.moves # Absent
    <3>1. tx.moves = pass
      BY <1>2, <2>3 DEF LostUpdate
    <3>2. ~Begun
      BY <1>1, <1>2, <1>3, <2>3, <3>1 DEF Seen, Begun
    <3>3. pass' = Dates(tx.hired)
      BY <2>1, <2>3 DEF SavedDates
    <3> QED
      BY <1>2, <2>1, <3>2, <3>3 DEF Postpones, Dates
  <2> QED
    BY <2>2, <2>3
<1>5. CASE tx.lifts # NoKey
  <2>1. Begun /\ tx.lifts \in Suspensions
    BY <1>1, <1>5 DEF Seen, Accepting
  <2>2. tx.moves = Absent
    BY <1>1, <1>2, <1>3, <2>1 DEF Seen, Begun, LostUpdate
  <2>3. SavedDates(tx) = pass
    BY <2>2 DEF SavedDates
  <2>4. CASE tx.until = Absent
    <3>1. DropSuspension(tx.lifts, pass)
      BY <1>5, <2>3, <2>4 DEF CommitAccept
    <3> QED
      BY <1>1, <1>2, <2>1, <3>1, SaveWritesSuspension
  <2>5. CASE tx.until # Absent
    <3>1. SaveSuspension(tx.lifts, tx.until, pass)
      BY <1>5, <2>3, <2>5 DEF CommitAccept
    <3> QED
      BY <1>1, <1>2, <2>1, <3>1, SaveWritesSuspension
  <2> QED
    BY <2>4, <2>5
<1> QED
  BY <1>4, <1>5

LEMMA EditPostpones ==
  ASSUME DatesInv, NEW w \in Sessions, CommitEdit(w), ~overwritten'
  PROVE  UNCHANGED <<pass, suspensions, prolongations>> \/ Postpones
<1> DEFINE tx == session[w]
<1>1. TypeOK /\ Seen(tx) /\ tx.op = "edit"
  BY DEF DatesInv, TypeInv, CommitEdit
<1>2. /\ ~overwritten /\ ~LostUpdate(tx) /\ pass' = SavedDates(tx)
      /\ UNCHANGED <<suspensions, prolongations>>
  BY DEF CommitEdit, rows
<1>3. pass.start \in Int /\ today \in Nat
  BY <1>1 DEF TypeOK, Period
<1>4. CASE tx.moves = Absent
  BY <1>2, <1>4 DEF SavedDates
<1>5. CASE tx.moves # Absent
  <2>1. tx.moves = pass
    BY <1>2, <1>5 DEF LostUpdate
  <2>2. ~Begun
    BY <1>1, <1>2, <1>3, <1>5, <2>1 DEF Seen, Begun
  <2>3. pass' = Dates(tx.hired)
    BY <1>2, <1>5 DEF SavedDates
  <2> QED
    BY <1>2, <2>2, <2>3 DEF Postpones, Dates
<1> QED
  BY <1>4, <1>5

LEMMA WhatIsWritten ==
  ASSUME DatesInv, [Next]_vars, ~overwritten'
  PROVE  \/ UNCHANGED <<pass, suspensions, prolongations>>
         \/ WritesSuspension
         \/ WritesProlongation
         \/ Postpones
<1>1. TypeOK /\ AnswersExist /\ session \in [Sessions -> Session]
  BY DEF DatesInv, TypeInv, TypeOK
<1>2. CASE UNCHANGED vars
  BY <1>2 DEF vars
<1>3. CASE Tick
  BY <1>3 DEF Tick, rows
<1>4. ASSUME NEW w \in Sessions, Begins(w)
      PROVE  UNCHANGED <<pass, suspensions, prolongations>>
  BY <1>4, BeginHolds
<1>5. ASSUME NEW w \in Sessions, Commits(w)
      PROVE  \/ UNCHANGED <<pass, suspensions, prolongations>>
             \/ WritesSuspension \/ WritesProlongation \/ Postpones
  <2>1. session[w] \in Session
    BY <1>1
  <2>2. CASE CommitSuspend(w)
    <3>1. PICK s \in Suspensions \ Exist(suspensions) :
              suspensions' = [suspensions EXCEPT ![s] = session[w].row]
      BY <2>2 DEF CommitSuspend
    <3>2. suspensions \in [Suspensions -> Period \union {Absent}]
      BY <1>1 DEF TypeOK
    <3>3. /\ suspensions[s] = Absent /\ suspensions'[s] = session[w].row
          /\ \A x \in Suspensions \ {s} : suspensions'[x] = suspensions[x]
      BY <3>1, <3>2 DEF Exist
    <3>4. pass' = Written(pass, suspensions[s], suspensions'[s])
      BY <2>2, <3>3 DEF CommitSuspend
    <3>5. UNCHANGED prolongations /\ Lasting(session[w].row)
      BY <2>2 DEF CommitSuspend, FreeOfSuspension, Lasting
    <3> QED
      BY <3>3, <3>4, <3>5 DEF WritesSuspension
  <2>3. CASE CommitUpdate(w)
    BY <1>1, <2>1, <2>3, SessionFields, SaveWritesSuspension DEF CommitUpdate
  <2>4. CASE CommitDelete(w)
    BY <1>1, <2>1, <2>4, SessionFields, SaveWritesSuspension DEF CommitDelete
  <2>5. CASE CommitAccept(w)
    BY <2>5, LiftsOrPostpones
  <2>6. CASE CommitEdit(w)
    BY <2>6, EditPostpones
  <2>7. CASE CommitProlong(w)
    <3>1. session[w].row.start \in Proposed
      BY <2>7 DEF CommitProlong, Proposed, Proposing
    <3> QED
      BY <1>1, <2>1, <2>7, <3>1, SessionFields, InsertWritesProlongation DEF CommitProlong
  <2>8. CASE CommitGrant(w)
    <3> DEFINE r == session[w].key
    <3>1. r \in Requests /\ requests[r] \in Request
      BY <1>1, <2>8 DEF CommitGrant, AnswersExist, Exist, TypeOK
    <3>2. FromRequest(r) \in Prolongation
      BY <1>1, <3>1, FromRequestType
    <3>3. FromRequest(r).start \in Proposed
      BY <1>1, <2>8 DEF CommitGrant, AnswersExist, FromRequest, Proposed
    <3> QED
      BY <1>1, <2>8, <3>2, <3>3, InsertWritesProlongation DEF CommitGrant
  <2>9. CASE CommitRequest(w) \/ CommitDeny(w) \/ Rollback(w)
    BY <2>9 DEF CommitRequest, CommitDeny, Rollback, rows
  <2> QED
    BY <1>5, <2>2, <2>3, <2>4, <2>5, <2>6, <2>7, <2>8, <2>9 DEF Commits
<1> QED
  BY <1>2, <1>3, <1>4, <1>5, Steps
-----------------------------------------------------------------------------
(* The end of the approval.  The tables have finitely many rows, whatever  *)
(* their keys.                                                             *)
Counted ==
    /\ IsFiniteSet(Exist(suspensions)) /\ IsFiniteSet(Exist(prolongations))
    /\ pass.end = DefaultEnd(pass.start) + Total(suspensions) + Total(prolongations)

BalanceInv == DatesInv /\ (~overwritten => Counted)

LEMMA BalanceInvImplies ==
  ASSUME BalanceInv PROVE Balance
  BY DEF BalanceInv, Balance, Counted

LEMMA TablesOfRows ==
  ASSUME TypeOK
  PROVE  /\ suspensions \in [Suspensions -> Rows \union {Absent}]
         /\ prolongations \in [Prolongations -> Rows \union {Absent}]
         /\ pass.start \in Int /\ pass.end \in Int
  BY DEF TypeOK, Rows, Period

LEMMA StaysOverwritten ==
  ASSUME DatesInv, [Next]_vars, ~overwritten'
  PROVE  ~overwritten
<1>1. ASSUME NEW w \in Sessions, Begins(w) \/ Commits(w) PROVE ~overwritten
  BY <1>1, BeginHolds, HiringMoves, OtherCommits
<1>2. CASE Tick
  BY <1>2 DEF Tick
<1> QED
  BY <1>1, <1>2, Steps DEF vars

(* The trigger moves the end of the approval, and nothing else.            *)
LEMMA WrittenEnd ==
  ASSUME NEW dates \in Period, NEW old \in Rows \union {Absent}, NEW new \in Rows \union {Absent}
  PROVE  /\ Written(dates, old, new).start = dates.start
         /\ Written(dates, old, new).end = dates.end + DaysOf(new) - DaysOf(old)
<1>1. DaysOf(old) \in Int /\ DaysOf(new) \in Int
  BY DaysOfType
<1>2. dates.end \in Int
  BY DEF Period
<1> QED
  BY <1>1, <1>2 DEF Written, Shifted, Period

LEMMA SuspensionCounts ==
  ASSUME TypeOK, TypeOK', Counted, WritesSuspension PROVE Counted'
<1>1. /\ suspensions \in [Suspensions -> Rows \union {Absent}]
      /\ suspensions' \in [Suspensions -> Rows \union {Absent}]
      /\ pass \in Period /\ pass.start \in Int /\ pass.end \in Int
  BY TablesOfRows DEF TypeOK, Rows
<1>2. PICK s \in Suspensions :
          /\ pass' = Written(pass, suspensions[s], suspensions'[s])
          /\ \A x \in Suspensions \ {s} : suspensions'[x] = suspensions[x]
  BY DEF WritesSuspension
<1>3. /\ IsFiniteSet(Exist(suspensions')) /\ Total(suspensions) \in Int
      /\ Total(suspensions') \in Int
      /\ Total(suspensions') = Total(suspensions) - DaysOf(suspensions[s]) + DaysOf(suspensions'[s])
  BY <1>1, <1>2, TotalOfChange DEF Counted
<1>4. /\ pass'.start = pass.start
      /\ pass'.end = pass.end + DaysOf(suspensions'[s]) - DaysOf(suspensions[s])
  BY <1>1, <1>2, WrittenEnd
<1>5. DaysOf(suspensions[s]) \in Int /\ DaysOf(suspensions'[s]) \in Int
  BY <1>1, DaysOfType
<1>6. UNCHANGED prolongations
  BY DEF WritesSuspension
<1>7. DefaultEnd(pass.start) \in Int /\ Total(prolongations) \in Int
  BY TablesOfRows, TotalIsInt, <1>1, DatesAssumption DEF DefaultEnd, Counted
<1> QED
  BY <1>1, <1>3, <1>4, <1>5, <1>6, <1>7 DEF Counted

LEMMA ProlongationCounts ==
  ASSUME TypeOK, TypeOK', Counted, WritesProlongation PROVE Counted'
<1>1. /\ prolongations \in [Prolongations -> Rows \union {Absent}]
      /\ prolongations' \in [Prolongations -> Rows \union {Absent}]
      /\ pass \in Period /\ pass.start \in Int /\ pass.end \in Int
  BY TablesOfRows DEF TypeOK, Rows
<1>2. PICK p \in Prolongations :
          /\ pass' = Written(pass, prolongations[p], prolongations'[p])
          /\ \A x \in Prolongations \ {p} : prolongations'[x] = prolongations[x]
  BY DEF WritesProlongation
<1>3. /\ IsFiniteSet(Exist(prolongations')) /\ Total(prolongations) \in Int
      /\ Total(prolongations') \in Int
      /\ Total(prolongations') =
            Total(prolongations) - DaysOf(prolongations[p]) + DaysOf(prolongations'[p])
  BY <1>1, <1>2, TotalOfChange DEF Counted
<1>4. /\ pass'.start = pass.start
      /\ pass'.end = pass.end + DaysOf(prolongations'[p]) - DaysOf(prolongations[p])
  BY <1>1, <1>2, WrittenEnd
<1>5. DaysOf(prolongations[p]) \in Int /\ DaysOf(prolongations'[p]) \in Int
  BY <1>1, DaysOfType
<1>6. UNCHANGED suspensions
  BY DEF WritesProlongation
<1>7. DefaultEnd(pass.start) \in Int /\ Total(suspensions) \in Int
  BY <1>1, TablesOfRows, TotalIsInt, DatesAssumption DEF DefaultEnd, Counted
<1> QED
  BY <1>1, <1>3, <1>4, <1>5, <1>6, <1>7 DEF Counted

(* What has not begun has no row: putting its end back loses nothing.      *)
LEMMA BareCounts ==
  ASSUME TypeOK, Exist(suspensions) = {}, Exist(prolongations) = {},
         pass.end = DefaultEnd(pass.start)
  PROVE  Counted
<1>1. Total(suspensions) = 0 /\ Total(prolongations) = 0
  BY TotalIsDays, DaysOfNone
<1>2. DefaultEnd(pass.start) \in Int
  BY TablesOfRows, DatesAssumption DEF DefaultEnd
<1> QED
  BY <1>1, <1>2, FS_EmptySet DEF Counted

LEMMA BalanceInvNext ==
  ASSUME BalanceInv, [Next]_vars PROVE BalanceInv'
<1>1. DatesInv /\ DatesInv' /\ TypeOK /\ TypeOK'
  BY DatesInvNext DEF BalanceInv, DatesInv, TypeInv
<1> SUFFICES ASSUME ~overwritten' PROVE Counted'
  BY <1>1 DEF BalanceInv
<1>2. Counted
  BY <1>1, StaysOverwritten DEF BalanceInv
<1>3. CASE UNCHANGED <<pass, suspensions, prolongations>>
  BY <1>2, <1>3 DEF Counted
<1>4. CASE Postpones
  <2>1. Bare /\ UNCHANGED <<suspensions, prolongations>> /\ pass'.end = DefaultEnd(pass'.start)
    BY <1>1, <1>4 DEF Postpones, DatesInv, UnstartedIsDefault
  <2>2. Exist(suspensions') = {} /\ Exist(prolongations') = {}
    BY <2>1 DEF Bare
  <2>3. (TypeOK /\ Exist(suspensions) = {} /\ Exist(prolongations) = {}
            /\ pass.end = DefaultEnd(pass.start) => Counted)'
    BY BareCounts, PTL
  <2>4. DefaultEnd(pass'.start) = DefaultEnd(pass.start)'
    BY DEF DefaultEnd
  <2> QED
    BY <1>1, <2>1, <2>2, <2>3, <2>4
<1> QED
  BY <1>1, <1>2, <1>3, <1>4, WhatIsWritten, SuspensionCounts, ProlongationCounts

LEMMA BalanceInvInit ==
  ASSUME Init PROVE BalanceInv
<1>1. DatesInv /\ TypeOK
  BY DatesInvInit DEF DatesInv, TypeInv
<1>2. Exist(suspensions) = {} /\ Exist(prolongations) = {} /\ pass.end = DefaultEnd(pass.start)
  BY DEF Init, Exist, Dates
<1> QED
  BY <1>1, <1>2, BareCounts DEF BalanceInv

(* For every number of rows and of requests that overlap: the end of the   *)
(* approval is the default one pushed back by what its suspensions and     *)
(* prolongations last, so the triggers count every row once and take back  *)
(* every day they had added (trigger update_approval_end_at).              *)
THEOREM EndIsBalanced == Spec => []Balance
  BY BalanceInvInit, BalanceInvNext, BalanceInvImplies, PTL DEF Spec
-----------------------------------------------------------------------------
(* The prolongations.  Rows last, so the end is never before the default   *)
(* one: whatever day a request proposes, then or later, is not before it.  *)
ProlongedInv ==
    /\ BalanceInv
    /\ ~overwritten =>
          /\ \A s \in Suspensions : Lasting(suspensions[s])
          /\ \A p \in Prolongations : Lasting(prolongations[p])
          /\ \A p \in Exist(prolongations) : prolongations[p].start >= DefaultEnd(pass.start)
          /\ \A day \in Proposed : day >= DefaultEnd(pass.start)

LEMMA ProlongedInvImplies ==
  ASSUME ProlongedInv PROVE ProlongedAfterDefault
  BY DEF ProlongedInv, ProlongedAfterDefault

LEMMA TotalIsNat ==
  ASSUME NEW K, NEW table \in [K -> Rows \union {Absent}], IsFiniteSet(Exist(table)),
         \A k \in K : Lasting(table[k])
  PROVE  Total(table) \in Nat
<1>1. \A k \in Exist(table) : Duration(table[k]) \in Nat
  BY DEF Exist, Rows, Duration, Period, Prolongation, Lasting
<1> QED
  BY <1>1, DaysNat, TotalIsDays

LEMMA EndsAfterDefault ==
  ASSUME ProlongedInv, ~overwritten
  PROVE  DefaultEnd(pass.start) \in Int /\ pass.end \in Int /\ pass.end >= DefaultEnd(pass.start)
<1>1. TypeOK /\ Counted
  BY DEF ProlongedInv, BalanceInv, DatesInv, TypeInv
<1>2. Total(suspensions) \in Nat /\ Total(prolongations) \in Nat
  BY <1>1, TablesOfRows, TotalIsNat DEF ProlongedInv, Counted
<1>3. DefaultEnd(pass.start) \in Int
  BY <1>1, TablesOfRows, DatesAssumption DEF DefaultEnd
<1> QED
  BY <1>1, <1>2, <1>3 DEF Counted

(* The days that are proposed: a request that begins proposes the end of   *)
(* the approval, and the statements only move proposals from a request     *)
(* that commits to the table it is kept in.                                *)
LEMMA KeptProposals ==
  ASSUME TypeInv, NEW w \in Sessions, Commits(w), NEW r \in Exist(requests')
  PROVE  requests'[r].start \in Proposed
<1>1. requests \in [Requests -> Request \union {Absent}] /\ AnswersExist
  BY DEF TypeInv, TypeOK
<1>2. CASE requests'[r] = requests[r] /\ r \in Exist(requests)
  BY <1>2 DEF Proposed
<1>3. CASE CommitRequest(w)
  <2>1. PICK q \in Requests \ Exist(requests) :
            requests' = [requests EXCEPT ![q] = session[w].row]
    BY <1>3 DEF CommitRequest
  <2>2. CASE r = q
    BY <1>1, <1>3, <2>1, <2>2 DEF CommitRequest, Proposed, Proposing
  <2>3. CASE r # q
    BY <1>1, <1>2, <2>1, <2>3 DEF Exist
  <2> QED
    BY <2>2, <2>3
<1>4. CASE CommitGrant(w)
  <2>1. PICK q \in Exist(requests) : q = session[w].key /\ q \in Requests /\ requests[q] \in Request
    BY <1>1, <1>4 DEF CommitGrant, AnswersExist, Exist
  <2>2. requests' = [requests EXCEPT ![q] = [requests[q] EXCEPT !.status = "GRANTED"]]
    BY <1>4, <2>1 DEF CommitGrant
  <2>3. CASE r = q
    <3>1. requests'[r].start = requests[q].start
      BY <1>1, <2>1, <2>2, <2>3 DEF Request
    <3> QED
      BY <2>1, <3>1 DEF Proposed
  <2>4. CASE r # q
    BY <1>1, <1>2, <2>2, <2>4 DEF Exist
  <2> QED
    BY <2>3, <2>4
<1>5. CASE CommitDeny(w)
  <2>1. PICK q \in Exist(requests) : q = session[w].key /\ q \in Requests /\ requests[q] \in Request
    BY <1>1, <1>5 DEF CommitDeny, AnswersExist, Exist
  <2>2. requests' = [requests EXCEPT ![q] =
                        [requests[q] EXCEPT !.status = "DENIED", !.information = TRUE]]
    BY <1>1, <1>5, <2>1 DEF CommitDeny, Denied
  <2>3. CASE r = q
    <3>1. requests'[r].start = requests[q].start
      BY <1>1, <2>1, <2>2, <2>3 DEF Request
    <3> QED
      BY <2>1, <3>1 DEF Proposed
  <2>4. CASE r # q
    BY <1>1, <1>2, <2>2, <2>4 DEF Exist
  <2> QED
    BY <2>3, <2>4
<1>6. CASE ~CommitRequest(w) /\ ~CommitGrant(w) /\ ~CommitDeny(w)
  BY <1>2, <1>6 DEF Commits, CommitSuspend, CommitUpdate, CommitDelete, CommitAccept, CommitEdit,
     CommitProlong, Rollback, rows
<1> QED
  BY <1>3, <1>4, <1>5, <1>6

LEMMA NewProposals ==
  ASSUME TypeInv, [Next]_vars
  PROVE  /\ Proposed' \subseteq Proposed \union {pass.end}
         /\ UNCHANGED pass \/ Proposed' \subseteq Proposed
<1>1. session \in [Sessions -> Session]
  BY DEF TypeInv, TypeOK
<1>2. CASE UNCHANGED vars
  BY <1>2 DEF vars, Proposed, Proposing
<1>3. CASE Tick
  BY <1>3 DEF Tick, rows, Proposed, Proposing
<1>4. ASSUME NEW w \in Sessions, Begins(w)
      PROVE  Proposed' \subseteq Proposed \union {pass.end} /\ UNCHANGED pass
  <2>1. UNCHANGED <<pass, requests>> /\ \A v \in Sessions \ {w} : session'[v] = session[v]
    BY <1>1, <1>4, BeginHolds
  <2>2. session'[w].op \in {"prolong", "request"} => session'[w].row.start = pass.end
    <3>1. CASE BeginProlong(w)
      BY <1>1, <3>1 DEF BeginProlong
    <3>2. CASE ~BeginProlong(w)
      BY <1>1, <1>4, <3>2 DEF Begins, BeginSuspend, BeginUpdate, BeginDelete, BeginAccept,
         BeginEdit, BeginAnswer
    <3> QED
      BY <3>1, <3>2
  <2> QED
    BY <2>1, <2>2 DEF Proposed, Proposing
<1>5. ASSUME NEW w \in Sessions, Commits(w)
      PROVE  Proposed' \subseteq Proposed
  <2>1. session'[w].op = "idle" /\ \A v \in Sessions \ {w} : session'[v] = session[v]
    BY <1>1, <1>5, CommitEnds DEF Idle
  <2>2. \A v \in Sessions : Proposing(v)' => v # w /\ Proposing(v) /\ session'[v] = session[v]
    BY <2>1 DEF Proposing
  <2>3. \A r \in Exist(requests') : requests'[r].start \in Proposed
    BY <1>5, KeptProposals
  <2>4. ASSUME NEW v \in Sessions, Proposing(v)' PROVE session'[v].row.start \in Proposed
    BY <2>2, <2>4 DEF Proposed
  <2> QED
    BY <2>3, <2>4 DEF Proposed
<1> QED
  BY <1>2, <1>3, <1>4, <1>5, Steps

(* The ways to write, and what they do to the rows and to the proposals.   *)
LEMMA StartKeepsProposals ==
  ASSUME ProlongedInv, [Next]_vars, ~overwritten, pass'.start = pass.start
  PROVE  \A day \in Proposed' : day >= DefaultEnd(pass'.start)
<1>1. Proposed' \subseteq Proposed \union {pass.end}
  BY NewProposals DEF ProlongedInv, BalanceInv, DatesInv
<1> QED
  BY <1>1, EndsAfterDefault DEF ProlongedInv

LEMMA SuspensionLasts ==
  ASSUME ProlongedInv, [Next]_vars, ~overwritten, ~overwritten', WritesSuspension
  PROVE  ProlongedInv'
<1>1. TypeOK /\ TypeOK' /\ BalanceInv'
  BY BalanceInvNext DEF ProlongedInv, BalanceInv, DatesInv, TypeInv
<1>2. PICK s \in Suspensions :
          /\ pass' = Written(pass, suspensions[s], suspensions'[s])
          /\ Lasting(suspensions'[s])
          /\ \A x \in Suspensions \ {s} : suspensions'[x] = suspensions[x]
  BY DEF WritesSuspension
<1>3. pass'.start = pass.start
  <2>1. /\ pass \in Period
        /\ suspensions[s] \in Rows \union {Absent}
        /\ suspensions'[s] \in Rows \union {Absent}
    BY <1>1 DEF TypeOK, Rows
  <2> QED
    BY <1>2, <2>1, WrittenEnd
<1>4. DefaultEnd(pass.start)' = DefaultEnd(pass.start)
  BY <1>3 DEF DefaultEnd
<1>5. UNCHANGED prolongations
  BY DEF WritesSuspension
<1>6. \A x \in Suspensions : Lasting(suspensions'[x])
  BY <1>2 DEF ProlongedInv
<1>7. \A day \in Proposed' : day >= DefaultEnd(pass.start)
  BY <1>3, StartKeepsProposals
<1> QED
  BY <1>1, <1>4, <1>5, <1>6, <1>7 DEF ProlongedInv, Lasting

LEMMA ProlongationLasts ==
  ASSUME ProlongedInv, [Next]_vars, ~overwritten, ~overwritten', WritesProlongation
  PROVE  ProlongedInv'
<1>1. TypeOK /\ TypeOK' /\ BalanceInv'
  BY BalanceInvNext DEF ProlongedInv, BalanceInv, DatesInv, TypeInv
<1>2. PICK p \in Prolongations :
          /\ pass' = Written(pass, prolongations[p], prolongations'[p])
          /\ Lasting(prolongations'[p]) /\ prolongations'[p].start \in Proposed
          /\ \A x \in Prolongations \ {p} : prolongations'[x] = prolongations[x]
  BY DEF WritesProlongation
<1>3. pass'.start = pass.start
  <2>1. /\ pass \in Period
        /\ prolongations[p] \in Rows \union {Absent}
        /\ prolongations'[p] \in Rows \union {Absent}
    BY <1>1 DEF TypeOK, Rows
  <2> QED
    BY <1>2, <2>1, WrittenEnd
<1>4. DefaultEnd(pass.start)' = DefaultEnd(pass.start)
  BY <1>3 DEF DefaultEnd
<1>5. UNCHANGED suspensions
  BY DEF WritesProlongation
<1>6. \A x \in Prolongations : Lasting(prolongations'[x])
  BY <1>2 DEF ProlongedInv
<1>7. \A x \in Exist(prolongations') : prolongations'[x].start >= DefaultEnd(pass.start)
  BY <1>1, <1>2 DEF ProlongedInv, TypeOK, Exist
<1>8. \A day \in Proposed' : day >= DefaultEnd(pass.start)
  BY <1>3, StartKeepsProposals
<1> QED
  BY <1>1, <1>4, <1>5, <1>6, <1>7, <1>8 DEF ProlongedInv, Lasting

LEMMA RowsUnchanged ==
  ASSUME ProlongedInv, [Next]_vars, ~overwritten, ~overwritten', pass'.start = pass.start,
         UNCHANGED <<suspensions, prolongations>>
  PROVE  ProlongedInv'
<1>1. BalanceInv'
  BY BalanceInvNext DEF ProlongedInv
<1>2. DefaultEnd(pass.start)' = DefaultEnd(pass.start)
  BY DEF DefaultEnd
<1>3. \A day \in Proposed' : day >= DefaultEnd(pass.start)
  BY <1>2, StartKeepsProposals
<1> QED
  BY <1>1, <1>2, <1>3 DEF ProlongedInv, Lasting

(* Nothing has been proposed for an approval that has not begun.           *)
LEMMA PostponingForgetsNothing ==
  ASSUME ProlongedInv, [Next]_vars, ~overwritten, ~overwritten', Postpones
  PROVE  ProlongedInv'
<1>1. DatesInv /\ TypeInv /\ ~Begun /\ Bare /\ UNCHANGED <<suspensions, prolongations>>
  BY DEF ProlongedInv, BalanceInv, DatesInv, UnstartedIsDefault, Postpones
<1>2. CASE UNCHANGED pass
  BY <1>1, <1>2, RowsUnchanged
<1>3. CASE pass' # pass
  <2>1. Proposed = {}
    BY <1>1 DEF Proposed, Proposing, Bare, DatesInv, Seen
  <2>2. Proposed' = {}
    BY <1>1, <1>3, <2>1, NewProposals
  <2>3. Exist(prolongations') = {} /\ BalanceInv'
    BY <1>1, BalanceInvNext DEF ProlongedInv, Bare
  <2> QED
    BY <1>1, <2>2, <2>3 DEF ProlongedInv, Lasting
<1> QED
  BY <1>2, <1>3

LEMMA ProlongedInvNext ==
  ASSUME ProlongedInv, [Next]_vars PROVE ProlongedInv'
<1>1. DatesInv /\ BalanceInv'
  BY BalanceInvNext DEF ProlongedInv, BalanceInv
<1>2. CASE overwritten'
  BY <1>1, <1>2 DEF ProlongedInv
<1>3. CASE ~overwritten'
  BY <1>1, <1>3, StaysOverwritten, WhatIsWritten, SuspensionLasts, ProlongationLasts,
     RowsUnchanged, PostponingForgetsNothing
<1> QED
  BY <1>2, <1>3

LEMMA ProlongedInvInit ==
  ASSUME Init PROVE ProlongedInv
<1>1. Exist(prolongations) = {} /\ Exist(requests) = {}
  BY DEF Init, Exist
<1>2. Proposed = {}
  BY <1>1 DEF Init, Proposed, Proposing, Idle
<1>3. /\ \A s \in Suspensions : Lasting(suspensions[s])
      /\ \A p \in Prolongations : Lasting(prolongations[p])
  BY DEF Init, Lasting
<1> QED
  BY <1>1, <1>2, <1>3, BalanceInvInit DEF ProlongedInv

(* However the suspensions that push the end of the approval change while  *)
(* a prolongation is proposed, granted and written, and whoever answers:   *)
(* no prolongation begins before the default end of the approval           *)
(* (CommonProlongation.clean compares with the end when it was proposed).  *)
THEOREM ProlongationsFollowTheDefault == Spec => []ProlongedAfterDefault
  BY ProlongedInvInit, ProlongedInvNext, ProlongedInvImplies, PTL DEF Spec
-----------------------------------------------------------------------------
(* Requests served one after the other save no stale copy: the dates a     *)
(* hiring has seen are those it replaces.                                  *)
InTurn == \A v, w \in Sessions : session[v] # Idle /\ session[w] # Idle => v = w

Fresh(tx) == tx.op \in {"accept", "edit"} /\ tx.moves # Absent => tx.moves = pass
TurnInv == TypeInv /\ ~overwritten /\ \A w \in Sessions : Fresh(session[w])

LEMMA BeginIsFresh ==
  ASSUME TypeInv, NEW w \in Sessions, Begins(w) PROVE Fresh(session'[w])
<1>1. session \in [Sessions -> Session]
  BY DEF TypeInv, TypeOK
<1>2. CASE BeginAccept(w)
  <2>1. PICK h, s : session' = [session EXCEPT ![w] =
                [op |-> "accept", hired |-> h,
                 moves |-> IF pass.start > h /\ CanPostponeStartDate THEN pass ELSE Absent,
                 lifts |-> s,
                 until |-> IF s = NoKey \/ suspensions[s].start = h THEN Absent
                           ELSE [suspensions[s] EXCEPT !.end = h - 1]]]
    BY <1>2 DEF BeginAccept
  <2>2. session'[w].moves \in {pass, Absent}
    BY <1>1, <2>1
  <2> QED
    BY <2>2 DEF Fresh
<1>3. CASE BeginEdit(w)
  <2>1. PICK h : session' = [session EXCEPT ![w] =
                [op |-> "edit", hired |-> h,
                 moves |-> IF CanPostponeStartDate THEN pass ELSE Absent]]
    BY <1>3 DEF BeginEdit
  <2>2. session'[w].moves \in {pass, Absent}
    BY <1>1, <2>1
  <2> QED
    BY <2>2 DEF Fresh
<1>4. CASE BeginSuspend(w) \/ BeginUpdate(w) \/ BeginDelete(w) \/ BeginAnswer(w)
  <2>1. session'[w].op \in {"suspend", "update", "delete", "grant", "deny"}
    BY <1>1, <1>4 DEF BeginSuspend, BeginUpdate, BeginDelete, BeginAnswer
  <2> QED
    BY <2>1 DEF Fresh
<1>5. CASE BeginProlong(w)
  <2>1. session'[w].op \in {"prolong", "request"}
    BY <1>1, <1>5 DEF BeginProlong
  <2> QED
    BY <2>1 DEF Fresh
<1> QED
  BY <1>2, <1>3, <1>4, <1>5 DEF Begins

LEMMA CommitSavesFresh ==
  ASSUME TurnInv, NEW w \in Sessions, Commits(w) PROVE ~overwritten'
<1>1. ~overwritten /\ Fresh(session[w])
  BY DEF TurnInv
<1>2. CASE CommitAccept(w) \/ CommitEdit(w)
  BY <1>1, <1>2 DEF CommitAccept, CommitEdit, LostUpdate, Fresh
<1>3. CASE ~CommitAccept(w) /\ ~CommitEdit(w)
  BY <1>1, <1>3 DEF Commits, CommitSuspend, CommitUpdate, CommitDelete, CommitProlong,
     CommitRequest, CommitGrant, CommitDeny, Rollback
<1> QED
  BY <1>2, <1>3

LEMMA TurnInvNext ==
  ASSUME TurnInv, InTurn, [Next]_vars PROVE TurnInv'
<1>1. TypeInv' /\ session \in [Sessions -> Session] /\ Fresh(Idle)
  BY TypeInvNext DEF TurnInv, TypeInv, TypeOK, Fresh, Idle
<1>2. CASE UNCHANGED <<pass, session, overwritten>>
  BY <1>1, <1>2 DEF TurnInv, Fresh
<1>3. ASSUME NEW w \in Sessions, Begins(w) PROVE TurnInv'
  <2>1. UNCHANGED <<pass, overwritten>> /\ \A v \in Sessions \ {w} : session'[v] = session[v]
    BY <1>1, <1>3, BeginHolds
  <2>2. Fresh(session'[w])
    BY <1>3, BeginIsFresh DEF TurnInv
  <2>3. \A v \in Sessions : Fresh(session'[v])
    BY <2>1, <2>2 DEF TurnInv
  <2> QED
    BY <1>1, <2>1, <2>3 DEF TurnInv, Fresh
<1>4. ASSUME NEW w \in Sessions, Commits(w), session[w] # Idle PROVE TurnInv'
  <2>1. session' = [session EXCEPT ![w] = Idle]
    BY <1>4, CommitEnds
  <2>2. \A v \in Sessions : session'[v] = Idle
    BY <1>1, <1>4, <2>1 DEF InTurn
  <2>3. \A v \in Sessions : Fresh(session[v])'
    BY <2>2 DEF Fresh, Idle
  <2> QED
    BY <1>1, <1>4, <2>3, CommitSavesFresh DEF TurnInv
<1>5. ASSUME NEW w \in Sessions, Commits(w) PROVE session[w] # Idle
  BY <1>5 DEF Idle, Commits, CommitSuspend, CommitUpdate, CommitDelete, CommitAccept,
     CommitEdit, CommitProlong, CommitRequest, CommitGrant, CommitDeny, Rollback
<1>6. CASE Tick \/ UNCHANGED vars
  BY <1>2, <1>6 DEF Tick, vars
<1> QED
  BY <1>3, <1>4, <1>5, <1>6, Steps

LEMMA TurnInvariant == Spec /\ []InTurn => []TurnInv
<1>1. ASSUME Init PROVE TurnInv
  <2>1. TypeInv
    BY <1>1, TypeInvInit
  <2>2. \A w \in Sessions : session[w] = Idle
    BY <1>1 DEF Init
  <2>3. ~overwritten
    BY <1>1 DEF Init
  <2> QED
    BY <2>1, <2>2, <2>3 DEF TurnInv, Fresh, Idle
<1> QED
  BY <1>1, TurnInvNext, PTL DEF Spec

(* The properties of the dates, without their proviso.                     *)
ExactDates ==
    /\ pass.end = DefaultEnd(pass.start) + Total(suspensions) + Total(prolongations)
    /\ pass.start > today => Bare
    /\ \A p \in Exist(prolongations) : prolongations[p].start >= DefaultEnd(pass.start)

(* While no two requests overlap, the dates are never saved from a stale   *)
(* copy (Approval.update_start_date saves the whole row it has loaded):    *)
(* the end is balanced, an approval that has not started is bare and       *)
(* prolongations follow the default, whatever the requests.                *)
THEOREM InTurnDatesAreExact == Spec /\ []InTurn => [](~overwritten /\ ExactDates)
<1>1. TurnInv => ~overwritten
  BY DEF TurnInv
<1>2. ~overwritten /\ Balance /\ UnstartedIsBare /\ ProlongedAfterDefault => ExactDates
  BY DEF Balance, UnstartedIsBare, ProlongedAfterDefault, ExactDates
<1> QED
  BY <1>1, <1>2, TurnInvariant, EndIsBalanced, UnstartedHasNothing,
     ProlongationsFollowTheDefault, PTL
=============================================================================
