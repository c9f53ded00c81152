------------------------- MODULE HistorySiteProofs -------------------------
(***************************************************************************)
(* Proofs about the history pages, their graphs, and the comparison, for   *)
(* any rows, any numbers of executions and scores, any order in which rows *)
(* are inserted and answers arrive, and any moves of the mouse.            *)
(*                                                                         *)
(* What a page lists comes from one query, which takes the latest rows up  *)
(* to its limit: with a row it has every later one.  So an execution that  *)
(* was not dropped was read whole, the executions of a graph are the       *)
(* latest ones in order, and only later insertions can make the graph's    *)
(* data differ from the page (PagesInv).                                   *)
(*                                                                         *)
(* The mouse is led to a point by a search in halves.  A list in ascending *)
(* order splits at one place for each time, and a smallest range in which  *)
(* the search would miss it is refuted by the half that it goes on with.   *)
(*                                                                         *)
(* The scores of an execution's parts add up to the execution's, because   *)
(* the parts have each row in one of them.  So parts whose scores reach no *)
(* further than the top three are really those with the highest ones.      *)
(*                                                                         *)
(* Of a comparison only the table grows between the queries.  As long as   *)
(* the limit on rows is not hit by what is in the table now, it was not    *)
(* hit when the queries were made, and each had at least the rows that     *)
(* were known before (ComparisonInv).                                      *)
(***************************************************************************)
EXTENDS HistorySite, NumberedSets

(* InOrder lists the elements once each, in the order of their numbers.    *)
LEMMA InOrderListing ==
    ASSUME NEW number, Numbering(number)
    PROVE  /\ Cardinality(DOMAIN number) \in Nat
           /\ InOrder(number) \in [1 .. Cardinality(DOMAIN number) -> DOMAIN number]
           /\ \A i, j \in 1 .. Cardinality(DOMAIN number) :
                 i < j <=> number[InOrder(number)[i]] < number[InOrder(number)[j]]
           /\ \A x \in DOMAIN number :
                 \E i \in 1 .. Cardinality(DOMAIN number) : InOrder(number)[i] = x
<1> DEFINE S == DOMAIN number
           size == Cardinality(S)
           rank(x) == Cardinality(Below(number, x))
           list == InOrder(number)
<1>1. size \in Nat
  BY FS_CardinalityType DEF Numbering
<1>2. list = [i \in 1 .. size |-> CHOOSE x \in S : rank(x) = i - 1]
  BY DEF InOrder, Below
<1>3. ASSUME NEW i \in 1 .. size PROVE list[i] \in S /\ rank(list[i]) = i - 1
  <2>1. i - 1 \in 0 .. size - 1
    BY <1>1
  <2>2. \E x \in S : rank(x) = i - 1
    BY <2>1, BelowOrder
  <2>3. list[i] = CHOOSE x \in S : rank(x) = i - 1
    BY <1>2
  <2> QED BY <2>2, <2>3
<1>4. list \in [1 .. size -> S]
  <2>1. DOMAIN list = 1 .. size /\ list = [i \in 1 .. size |-> list[i]]
    BY <1>2
  <2> HIDE DEF list
  <2> QED BY <1>3, <2>1
<1>5. ASSUME NEW i \in 1 .. size, NEW j \in 1 .. size
      PROVE  i < j <=> number[list[i]] < number[list[j]]
  <2>1. number[list[i]] < number[list[j]] <=> rank(list[i]) < rank(list[j])
    BY <1>3, BelowOrder
  <2> QED BY <1>1, <1>3, <2>1
<1>6. ASSUME NEW x \in S PROVE \E i \in 1 .. size : list[i] = x
  <2>1. rank(x) \in 0 .. size - 1
    BY BelowOrder
  <2>2. PICK i \in 1 .. size : rank(x) = i - 1
    <3>1. rank(x) + 1 \in 1 .. size /\ rank(x) = (rank(x) + 1) - 1
      BY <1>1, <2>1
    <3> QED BY <3>1
  <2>3. ~(number[x] < number[list[i]]) /\ ~(number[list[i]] < number[x])
    <3>1. rank(list[i]) = rank(x) /\ rank(x) \in Int /\ list[i] \in S
      BY <1>3, <2>1, <2>2
    <3> QED BY <3>1, BelowOrder
  <2>4. list[i] = x
    BY <1>3, <2>3 DEF Numbering
  <2> QED BY <2>4
<1> QED BY <1>1, <1>4, <1>5, <1>6

-----------------------------------------------------------------------------
(* Rows and their times.                                                   *)
LEMMA HistoryConstants ==
    /\ IsFiniteSet(Rows)
    /\ \A r \in Rows : FinishTime[r] \in Nat
    /\ \A r, s \in Rows : FinishTime[r] = FinishTime[s] => r = s
    /\ HistoryLimit \in Nat \ {0} /\ MaxHistory \in Nat /\ StageLimit \in Nat
    /\ PrunedExecutions \in Nat \ {0}
    /\ ManyExecutions \in Nat /\ ManyExecutions >= PrunedExecutions
BY HistoryAssumption

(* An execution ends with one of its rows, and with one of its own.        *)
LEMMA TimesOfExecution ==
    ASSUME NEW S \in SUBSET Rows, NEW e \in Executions(S)
    PROVE  /\ LastFinish(S, e) \in Nat /\ FirstFinish(S, e) \in Nat
           /\ \E r \in S : Execution[r] = e /\ FinishTime[r] = LastFinish(S, e)
           /\ \A r \in JobsOf(S, e) :
                 FirstFinish(S, e) <= FinishTime[r] /\ FinishTime[r] <= LastFinish(S, e)
<1> DEFINE jobs == JobsOf(S, e)
<1>1. jobs \subseteq Rows /\ jobs # {} /\ IsFiniteSet(jobs)
  BY HistoryConstants, FS_Subset DEF JobsOf, Executions
<1>2. Times(jobs) \in SUBSET Nat /\ Times(jobs) # {} /\ IsFiniteSet(Times(jobs))
  <2>1. IsFiniteSet({FinishTime[r] : r \in jobs})
    BY <1>1, ImageFinite
  <2> QED BY <1>1, <2>1, HistoryConstants DEF Times
<1>3. /\ LastFinish(S, e) \in Times(jobs) /\ \A y \in Times(jobs) : y <= LastFinish(S, e)
      /\ FirstFinish(S, e) \in Times(jobs) /\ \A y \in Times(jobs) : FirstFinish(S, e) <= y
  BY <1>2, Extremes DEF LastFinish, FirstFinish
<1> QED BY <1>2, <1>3 DEF Times, JobsOf

LEMMA LastNumbering ==
    ASSUME NEW S \in SUBSET Rows
    PROVE  Numbering([e \in Executions(S) |-> LastFinish(S, e)])
<1>1. IsFiniteSet(Executions(S))
  <2>1. IsFiniteSet(S)
    BY HistoryConstants, FS_Subset
  <2> QED BY <2>1, ImageFinite DEF Executions
<1>2. \A e \in Executions(S) : LastFinish(S, e) \in Nat
  BY TimesOfExecution
<1>3. ASSUME NEW e \in Executions(S), NEW f \in Executions(S), LastFinish(S, e) = LastFinish(S, f)
      PROVE  e = f
  <2>1. PICK r \in S : Execution[r] = e /\ FinishTime[r] = LastFinish(S, e)
    BY TimesOfExecution
  <2>2. PICK s \in S : Execution[s] = f /\ FinishTime[s] = LastFinish(S, f)
    BY TimesOfExecution
  <2> QED BY <1>3, <2>1, <2>2, HistoryConstants
<1> QED BY <1>1, <1>2, <1>3 DEF Numbering

(* The rows fetched are the latest; all of them, if they are fewer than    *)
(* the limit.                                                              *)
LEMMA FetchedRows ==
    ASSUME NEW S \in SUBSET Rows
    PROVE  /\ Fetched(S) \subseteq S
           /\ \A r \in Fetched(S), s \in S : FinishTime[r] <= FinishTime[s] => s \in Fetched(S)
           /\ Cardinality(S) < HistoryLimit => Fetched(S) = S
           /\ Cardinality(Fetched(S)) < HistoryLimit => Fetched(S) = S
<1> DEFINE later(r) == {s \in S : FinishTime[s] > FinishTime[r]}
           F == Fetched(S)
           size == Cardinality(S)
<1>1. IsFiniteSet(S) /\ size \in Nat
  BY HistoryConstants, FS_Subset, FS_CardinalityType
<1>2. F = {r \in S : Cardinality(later(r)) < HistoryLimit} /\ F \subseteq S
  BY DEF Fetched
<1>3. ASSUME NEW r \in S
      PROVE  /\ later(r) \subseteq S /\ IsFiniteSet(later(r)) /\ Cardinality(later(r)) \in Nat
             /\ Cardinality(later(r)) <= size
  <2>1. later(r) \subseteq S
    OBVIOUS
  <2> QED BY <1>1, <2>1, FS_Subset, FS_CardinalityType
<1>4. ASSUME NEW r \in F, NEW s \in S, FinishTime[r] <= FinishTime[s]
      PROVE  s \in F
  <2>1. FinishTime[r] \in Nat /\ FinishTime[s] \in Nat /\ r \in S
    BY <1>2, HistoryConstants
  <2>2. later(s) \subseteq later(r)
    BY <1>4, <2>1, HistoryConstants
  <2>3. Cardinality(later(s)) <= Cardinality(later(r))
    BY <1>3, <2>1, <2>2, FS_Subset
  <2>4. Cardinality(later(r)) < HistoryLimit
    BY <1>2
  <2>5. Cardinality(later(s)) \in Nat /\ Cardinality(later(r)) \in Nat
    BY <1>3, <2>1
  <2>6. Cardinality(later(s)) < HistoryLimit
    <3> HIDE DEF later, F
    <3> QED BY <2>3, <2>4, <2>5, HistoryConstants
  <2> QED BY <1>2, <2>6
<1>5. ASSUME size < HistoryLimit PROVE F = S
  <2>1. \A r \in S : Cardinality(later(r)) < HistoryLimit
    BY <1>1, <1>3, <1>5, HistoryConstants
  <2> QED BY <1>2, <2>1
<1>6. ASSUME F # S PROVE ~(Cardinality(F) < HistoryLimit)
  <2> DEFINE number == [r \in S |-> FinishTime[r]]
             rank(r) == Cardinality(Below(number, r))
             places == size - HistoryLimit .. size - 1
  <2>1. Numbering(number) /\ DOMAIN number = S
    BY <1>1, HistoryConstants DEF Numbering
  <2>2. \A r \in S : Below(number, r) = {s \in S : FinishTime[s] < FinishTime[r]}
    BY DEF Below
  <2> HIDE DEF number
  <2>3. ASSUME NEW r \in S
        PROVE  rank(r) \in 0 .. size - 1 /\ Cardinality(later(r)) = size - 1 - rank(r)
    <3>1. rank(r) \in 0 .. size - 1
      BY <2>1, BelowOrder
    <3>2. /\ Below(number, r) \cap later(r) = {}
          /\ Below(number, r) \cup later(r) = S \ {r}
          /\ Below(number, r) \subseteq S
      BY <2>2, HistoryConstants
    <3>3. IsFiniteSet(Below(number, r)) /\ IsFiniteSet(later(r))
      BY <1>1, <1>3, <3>2, FS_Subset
    <3>4. Cardinality(Below(number, r) \cup later(r)) = rank(r) + Cardinality(later(r))
      <4>1. Cardinality(Below(number, r) \cup later(r))
               = rank(r) + Cardinality(later(r)) - Cardinality(Below(number, r) \cap later(r))
        BY <3>3, FS_Union
      <4>2. Cardinality(Below(number, r) \cap later(r)) = 0
        BY <3>2, FS_EmptySet
      <4> HIDE DEF later
      <4> QED BY <1>3, <3>1, <4>1, <4>2
    <3>5. Cardinality(S \ {r}) = size - 1
      BY <1>1, FS_RemoveElement
    <3>6. Cardinality(later(r)) \in Nat
      BY <1>3
    <3>7. rank(r) + Cardinality(later(r)) = size - 1
      BY <3>2, <3>4, <3>5
    <3> HIDE DEF later, rank, size
    <3> QED BY <1>1, <3>1, <3>6, <3>7
  <2> HIDE DEF later
  <2>4. PICK r \in S : ~(Cardinality(later(r)) < HistoryLimit)
    BY <1>2, <1>6
  <2>5. size > HistoryLimit
    <3>1. Cardinality(later(r)) \in Nat /\ Cardinality(later(r)) = size - 1 - rank(r)
          /\ rank(r) \in Nat
      BY <1>1, <1>3, <2>3
    <3> QED BY <1>1, <2>4, <3>1, HistoryConstants
  <2>6. ASSUME NEW k \in places PROVE \E s \in F : rank(s) = k
    <3>1. k \in 0 .. size - 1
      BY <1>1, <2>5, HistoryConstants
    <3>2. PICK s \in S : rank(s) = k
      BY <2>1, <3>1, BelowOrder
    <3>3. Cardinality(later(s)) = size - 1 - k
      BY <2>3, <3>2
    <3>4. size - 1 - k < HistoryLimit
      BY <1>1, HistoryConstants
    <3> QED BY <1>2, <3>2, <3>3, <3>4
  <2>7. ASSUME NEW s \in F PROVE rank(s) \in places
    <3>1. s \in S /\ Cardinality(later(s)) < HistoryLimit
      BY <1>2
    <3>2. rank(s) \in 0 .. size - 1 /\ Cardinality(later(s)) = size - 1 - rank(s)
      BY <2>3, <3>1
    <3> QED BY <1>1, <3>1, <3>2, HistoryConstants
  <2> DEFINE g == [s \in F |-> rank(s)]
  <2>8. g \in Surjection(F, places)
    <3>1. g \in [F -> places] /\ \A k \in places : \E s \in F : g[s] = k
      BY <2>6, <2>7
    <3> QED BY <3>1 DEF Surjection
  <2>9. IsFiniteSet(F) /\ Cardinality(F) \in Nat
    BY <1>1, <1>2, FS_Subset, FS_CardinalityType
  <2>10. Cardinality(places) <= Cardinality(F)
    <3> HIDE DEF g, F, places
    <3> QED BY <2>8, <2>9, FS_Surjection
  <2>11. Cardinality(places) = HistoryLimit
    <3>1. size - HistoryLimit \in Int /\ size - 1 \in Int /\ size - HistoryLimit <= size - 1
      BY <1>1, HistoryConstants
    <3>2. Cardinality(places) = (size - 1) - (size - HistoryLimit) + 1
      BY <3>1, FS_Interval
    <3> QED BY <1>1, <3>2, HistoryConstants
  <2> QED BY <2>9, <2>10, <2>11, HistoryConstants
<1> QED BY <1>2, <1>4, <1>5, <1>6

(* The executions from the latest to the earliest, once each.              *)
LEMMA LatestFirstListing ==
    ASSUME NEW S \in SUBSET Rows
    PROVE  LET all == LatestFirst(S)
               size == Cardinality(Executions(S))
           IN  /\ size \in Nat
               /\ all \in [1 .. size -> Executions(S)] /\ Len(all) = size
               /\ \A i, j \in 1 .. size :
                     i < j <=> LastFinish(S, all[j]) < LastFinish(S, all[i])
               /\ \A e \in Executions(S) : \E i \in 1 .. size : all[i] = e
<1> DEFINE number == [e \in Executions(S) |-> LastFinish(S, e)]
           list == InOrder(number)
           all == LatestFirst(S)
           size == Cardinality(Executions(S))
<1>1. all = Reverse(list)
  BY DEF LatestFirst
<1>2. \A e \in Executions(S) : number[e] = LastFinish(S, e)
  OBVIOUS
<1>3. Numbering(number) /\ DOMAIN number = Executions(S)
  BY LastNumbering
<1> HIDE DEF number
<1>4. /\ size \in Nat /\ list \in [1 .. size -> Executions(S)]
      /\ \A i, j \in 1 .. size : i < j <=> number[list[i]] < number[list[j]]
      /\ \A e \in Executions(S) : \E i \in 1 .. size : list[i] = e
  BY <1>3, InOrderListing
<1> HIDE DEF list, size
<1>5. Len(list) = size /\ DOMAIN list = 1 .. size
  BY <1>4
<1>6. all = [i \in 1 .. size |-> list[size - i + 1]]
  BY <1>1, <1>5 DEF Reverse
<1>7. \A i \in 1 .. size : size - i + 1 \in 1 .. size
  BY <1>4
<1>8. all \in [1 .. size -> Executions(S)] /\ Len(all) = size
  BY <1>4, <1>6, <1>7
<1>9. ASSUME NEW i \in 1 .. size, NEW j \in 1 .. size
      PROVE  i < j <=> LastFinish(S, all[j]) < LastFinish(S, all[i])
  <2>1. all[i] = list[size - i + 1] /\ all[j] = list[size - j + 1]
    BY <1>6
  <2>2. /\ number[all[i]] = LastFinish(S, all[i]) /\ number[all[j]] = LastFinish(S, all[j])
        /\ size - i + 1 \in 1 .. size /\ size - j + 1 \in 1 .. size
    BY <1>2, <1>7, <1>8
  <2>3. (size - j + 1) < (size - i + 1) <=> i < j
    BY <1>4
  <2> QED BY <1>4, <2>1, <2>2, <2>3
<1>10. ASSUME NEW e \in Executions(S) PROVE \E i \in 1 .. size : all[i] = e
  <2>1. PICK i \in 1 .. size : list[i] = e
    BY <1>4
  <2>2. size - i + 1 \in 1 .. size /\ size - (size - i + 1) + 1 = i
    BY <1>4
  <2> QED BY <1>6, <2>1, <2>2
<1> QED BY <1>4, <1>8, <1>9, <1>10 DEF size

(* What a page shows is the beginning of that list; it leaves out the      *)
(* earliest execution if the limit on rows was hit.                        *)
LEMMA ShownListing ==
    ASSUME NEW F \in SUBSET Rows
    PROVE  LET all == LatestFirst(F)
               size == Cardinality(Executions(F))
           IN  \E shown \in 0 .. size :
                  /\ Shown(F) = [i \in 1 .. shown |-> all[i]]
                  /\ Shown(F) \in Seq(Executions(F)) /\ Len(Shown(F)) = shown
                  /\ Cardinality(F) >= HistoryLimit => shown < size
<1> DEFINE all == LatestFirst(F)
           size == Cardinality(Executions(F))
           rows == Cardinality(F)
           limit == Limit(rows, Len(all))
           shown == IF limit < Len(all) THEN limit ELSE Len(all)
<1>1. size \in Nat /\ all \in [1 .. size -> Executions(F)] /\ Len(all) = size
  BY LatestFirstListing
<1>2. rows \in Nat /\ (rows >= HistoryLimit => size # 0)
  <2>1. IsFiniteSet(F) /\ rows \in Nat
    BY HistoryConstants, FS_Subset, FS_CardinalityType
  <2>2. rows >= HistoryLimit => F # {}
    BY HistoryConstants, FS_EmptySet
  <2>3. IsFiniteSet(Executions(F))
    BY <2>1, ImageFinite DEF Executions
  <2>4. F # {} => Executions(F) # {}
    BY DEF Executions
  <2> QED BY <2>1, <2>2, <2>3, <2>4, FS_EmptySet
<1> HIDE DEF all, size, rows
<1>3. /\ limit \in Nat \/ limit >= Len(all)
      /\ rows >= HistoryLimit => limit < size
      /\ limit \in Nat
  BY <1>1, <1>2, HistoryConstants DEF Limit
<1>4. shown \in 0 .. size /\ (rows >= HistoryLimit => shown < size)
  BY <1>1, <1>3
<1>5. Shown(F) = SubSeq(all, 1, shown)
  BY DEF Shown, all, rows
<1> HIDE DEF shown, limit
<1>6. /\ SubSeq(all, 1, shown) = [i \in 1 .. shown |-> all[i]]
  <2>1. SubSeq(all, 1, shown) = [i \in 1 .. (1 + shown - 1) |-> all[i + 1 - 1]]
    BY <1>1, <1>4
  <2>2. 1 + shown - 1 = shown /\ \A i \in 1 .. shown : i + 1 - 1 = i
    BY <1>1, <1>4
  <2> QED BY <2>1, <2>2
<1>7. Shown(F) \in [1 .. shown -> Executions(F)]
  <2>1. \A i \in 1 .. shown : all[i] \in Executions(F)
    BY <1>1, <1>4
  <2> QED BY <1>5, <1>6, <2>1
<1>8. shown \in Nat
  BY <1>1, <1>4
<1>9. Shown(F) \in Seq(Executions(F)) /\ Len(Shown(F)) = shown
  BY <1>7, <1>8
<1> QED BY <1>4, <1>5, <1>6, <1>9 DEF all, size, rows

-----------------------------------------------------------------------------
(* An execution of which some row is fetched ends with a fetched row.      *)
LEMMA FetchedTimes ==
    ASSUME NEW S \in SUBSET Rows, NEW e \in Executions(Fetched(S))
    PROVE  e \in Executions(S) /\ LastFinish(Fetched(S), e) = LastFinish(S, e)
<1> DEFINE F == Fetched(S)
<1>1. F \subseteq S /\ F \in SUBSET Rows
  BY FetchedRows
<1>2. e \in Executions(S)
  BY <1>1 DEF Executions
<1>3. PICK q \in F : Execution[q] = e /\ FinishTime[q] = LastFinish(F, e)
  BY <1>1, TimesOfExecution
<1>4. PICK r \in S : Execution[r] = e /\ FinishTime[r] = LastFinish(S, e)
  BY <1>2, TimesOfExecution
<1>5. FinishTime[q] <= LastFinish(S, e)
  BY <1>1, <1>2, <1>3, TimesOfExecution DEF JobsOf
<1>6. r \in F
  BY <1>1, <1>3, <1>4, <1>5, FetchedRows
<1>7. FinishTime[r] <= LastFinish(F, e)
  BY <1>1, <1>4, <1>6, TimesOfExecution DEF JobsOf
<1>8. LastFinish(F, e) \in Nat /\ LastFinish(S, e) \in Nat
  BY <1>1, <1>2, TimesOfExecution
<1> HIDE DEF F
<1>9. LastFinish(F, e) = LastFinish(S, e)
  BY <1>3, <1>4, <1>5, <1>7, <1>8
<1> QED BY <1>2, <1>9 DEF F

(* What is shown of the rows fetched, in terms of all rows.                *)
LEMMA ShownTimes ==
    ASSUME NEW S \in SUBSET Rows
    PROVE  LET all == LatestFirst(Fetched(S))
               size == Cardinality(Executions(Fetched(S)))
           IN  /\ size \in Nat
               /\ \A i \in 1 .. size : all[i] \in Executions(S) \cap Executions(Fetched(S))
               /\ \A i, j \in 1 .. size :
                     i < j <=> LastFinish(S, all[j]) < LastFinish(S, all[i])
               /\ \A e \in Executions(Fetched(S)) : \E i \in 1 .. size : all[i] = e
<1> DEFINE F == Fetched(S)
           all == LatestFirst(F)
           size == Cardinality(Executions(F))
<1>1. F \in SUBSET Rows
  BY FetchedRows
<1>2. /\ size \in Nat /\ all \in [1 .. size -> Executions(F)]
      /\ \A i, j \in 1 .. size : i < j <=> LastFinish(F, all[j]) < LastFinish(F, all[i])
      /\ \A e \in Executions(F) : \E i \in 1 .. size : all[i] = e
  BY <1>1, LatestFirstListing
<1>3. \A e \in Executions(F) : e \in Executions(S) /\ LastFinish(F, e) = LastFinish(S, e)
  BY FetchedTimes
<1> HIDE DEF F, all, size
<1>4. \A i \in 1 .. size : all[i] \in Executions(F)
  BY <1>2
<1> QED BY <1>2, <1>3, <1>4 DEF F, all, size

(* An execution that does not end before a shown one is shown, before it.  *)
LEMMA NoneLeftOut ==
    ASSUME NEW S \in SUBSET Rows, NEW i \in DOMAIN Shown(Fetched(S)), NEW e \in Executions(S),
           ~(LastFinish(S, e) < LastFinish(S, Shown(Fetched(S))[i]))
    PROVE  \E j \in 1 .. i : Shown(Fetched(S))[j] = e
<1> DEFINE F == Fetched(S)
           all == LatestFirst(F)
           size == Cardinality(Executions(F))
<1>1. F \in SUBSET Rows
  BY FetchedRows
<1>2. /\ size \in Nat
      /\ \A k \in 1 .. size : all[k] \in Executions(S) \cap Executions(F)
      /\ \A k, j \in 1 .. size : k < j <=> LastFinish(S, all[j]) < LastFinish(S, all[k])
      /\ \A f \in Executions(F) : \E k \in 1 .. size : all[k] = f
  BY ShownTimes
<1>3. PICK shown \in 0 .. size : Shown(F) = [k \in 1 .. shown |-> all[k]]
  BY <1>1, ShownListing
<1>4. PICK r \in S : Execution[r] = e /\ FinishTime[r] = LastFinish(S, e)
  BY TimesOfExecution
<1> HIDE DEF all, size
<1>5. i \in 1 .. shown /\ i \in 1 .. size /\ Shown(F)[i] = all[i]
  BY <1>2, <1>3
<1>6. PICK q \in F : Execution[q] = all[i] /\ FinishTime[q] = LastFinish(S, all[i])
  <2>1. all[i] \in Executions(F)
    BY <1>2, <1>5
  <2> QED BY <1>1, <2>1, FetchedTimes, TimesOfExecution
<1>7. r \in F
  <2>1. FinishTime[q] \in Nat /\ FinishTime[r] \in Nat
    BY <1>1, <1>4, <1>6, HistoryConstants
  <2>2. FinishTime[q] <= FinishTime[r]
    BY <1>4, <1>5, <1>6, <2>1
  <2> QED BY <2>2, FetchedRows
<1>8. PICK j \in 1 .. size : all[j] = e
  BY <1>2, <1>4, <1>7 DEF Executions
<1>9. ~(i < j)
  BY <1>2, <1>5, <1>8
<1>10. j \in 1 .. i /\ j \in 1 .. shown
  BY <1>2, <1>5, <1>8, <1>9
<1> QED BY <1>3, <1>8, <1>10

(* If the limit was hit, the page leaves out the earliest execution it     *)
(* knows, and everything that ends after that one was fetched.             *)
LEMMA NoneCut ==
    ASSUME NEW S \in SUBSET Rows, OneAfterTheOther(S) \/ Cardinality(S) < HistoryLimit,
           NEW i \in DOMAIN Shown(Fetched(S))
    PROVE  JobsOf(S, Shown(Fetched(S))[i]) \subseteq Fetched(S)
<1> DEFINE F == Fetched(S)
           all == LatestFirst(F)
           size == Cardinality(Executions(F))
<1>1. CASE F = S
  BY <1>1 DEF JobsOf
<1>2. CASE F # S
  <2>1. F \in SUBSET Rows
    BY FetchedRows
  <2>2. Cardinality(F) >= HistoryLimit /\ OneAfterTheOther(S)
    <3>1. Cardinality(F) \in Nat
      BY <2>1, HistoryConstants, FS_Subset, FS_CardinalityType
    <3> QED BY <1>2, <3>1, FetchedRows, HistoryConstants
  <2>3. PICK shown \in 0 .. size :
           Shown(F) = [k \in 1 .. shown |-> all[k]] /\ shown < size
    BY <2>1, <2>2, ShownListing
  <2>4. /\ size \in Nat
        /\ \A k \in 1 .. size : all[k] \in Executions(S) \cap Executions(F)
        /\ \A k, j \in 1 .. size : k < j <=> LastFinish(S, all[j]) < LastFinish(S, all[k])
    BY ShownTimes
  <2> HIDE DEF all, size
  <2>5. i \in 1 .. size /\ size \in 1 .. size /\ i < size /\ Shown(F)[i] = all[i]
    BY <2>3, <2>4
  <2> DEFINE e == all[i]
             earliest == all[size]
  <2>6. e \in Executions(S) /\ earliest \in Executions(S) /\ earliest \in Executions(F)
    BY <2>4, <2>5
  <2>7. LastFinish(S, earliest) < LastFinish(S, e)
    BY <2>4, <2>5
  <2>8. PICK q \in F : FinishTime[q] = LastFinish(S, earliest)
    BY <2>1, <2>6, FetchedTimes, TimesOfExecution
  <2> HIDE DEF e, earliest
  <2>9. /\ LastFinish(S, e) \in Nat /\ FirstFinish(S, e) \in Nat
        /\ LastFinish(S, earliest) \in Nat /\ FirstFinish(S, earliest) \in Nat
        /\ FirstFinish(S, earliest) <= LastFinish(S, earliest)
    <3>1. PICK r \in S : Execution[r] = earliest /\ FinishTime[r] = LastFinish(S, earliest)
      BY <2>6, TimesOfExecution
    <3>2. FirstFinish(S, earliest) <= FinishTime[r]
      BY <2>6, <3>1, TimesOfExecution DEF JobsOf
    <3> QED BY <2>6, <3>1, <3>2, TimesOfExecution
  <2>10. LastFinish(S, earliest) < FirstFinish(S, e)
    <3>1. e # earliest
      BY <2>7, <2>9
    <3>2. \/ LastFinish(S, e) < FirstFinish(S, earliest)
          \/ LastFinish(S, earliest) < FirstFinish(S, e)
      BY <2>2, <2>6, <3>1 DEF OneAfterTheOther
    <3> QED BY <2>7, <2>9, <3>2
  <2>11. ASSUME NEW r \in JobsOf(S, e) PROVE r \in F
    <3>1. r \in S /\ FinishTime[r] \in Nat
      BY HistoryConstants DEF JobsOf
    <3>2. FirstFinish(S, e) <= FinishTime[r]
      BY <2>6, TimesOfExecution
    <3>3. FinishTime[q] <= FinishTime[r]
      BY <2>8, <2>9, <2>10, <3>1, <3>2
    <3> QED BY <3>1, <3>3, FetchedRows
  <2> QED BY <2>5, <2>11 DEF e
<1> QED BY <1>1, <1>2

(* The graph has the shown executions the other way round.                 *)
LEMMA GraphListing ==
    ASSUME NEW F \in SUBSET Rows, NEW d
    PROVE  LET size == Len(Shown(F))
           IN  /\ size \in Nat /\ DOMAIN Shown(F) = 1 .. size
               /\ Len(GraphData(d, F)) = size /\ DOMAIN GraphData(d, F) = 1 .. size
               /\ \A i \in 1 .. size :
                     /\ size + 1 - i \in 1 .. size
                     /\ GraphData(d, F)[i] = Dataset(d, F, Shown(F)[size + 1 - i])
               /\ GraphData(d, F) \in Seq({GraphData(d, F)[i] : i \in 1 .. size})
<1> DEFINE shown == Shown(F)
           size == Len(shown)
<1>1. shown \in Seq(Executions(F))
  BY ShownListing
<1>2. size \in Nat /\ DOMAIN shown = 1 .. size
  BY <1>1
<1>3. Reverse(shown) = [i \in 1 .. size |-> shown[(size - i) + 1]]
  BY DEF Reverse
<1>4. GraphData(d, F) = [i \in 1 .. size |-> Dataset(d, F, shown[(size - i) + 1])]
  BY <1>3 DEF GraphData
<1> HIDE DEF shown
<1>5. \A i \in 1 .. size : size + 1 - i \in 1 .. size /\ (size - i) + 1 = size + 1 - i
  BY <1>2
<1>6. \A i \in 1 .. size : GraphData(d, F)[i] = Dataset(d, F, shown[size + 1 - i])
  BY <1>4, <1>5
<1>7. Len(GraphData(d, F)) = size /\ DOMAIN GraphData(d, F) = 1 .. size
  BY <1>2, <1>4
<1>8. GraphData(d, F) \in Seq({GraphData(d, F)[i] : i \in 1 .. size})
  <2> DEFINE g == GraphData(d, F)
             T == {GraphData(d, F)[i] : i \in 1 .. size}
  <2>1. g \in [1 .. size -> T]
    BY <1>4
  <2> HIDE DEF g, T
  <2>2. g \in Seq(T)
    BY <1>2, <2>1
  <2> QED BY <2>2 DEF g, T
<1> QED BY <1>2, <1>5, <1>6, <1>7, <1>8 DEF shown

-----------------------------------------------------------------------------
(* What the pages were made from.                                          *)
PagesInv ==
    /\ table \subseteq Rows /\ asked \subseteq Rows /\ answered \subseteq Rows
    /\ listed = <<>> \/ listed = Shown(Fetched(asked))
    /\ loaded => graph = GraphData(subject, Fetched(answered))
    /\ ~loaded => graph = <<>>

LEMMA AboutRows ==
    ASSUME table \subseteq Rows, NEW d
    PROVE  About(d) \subseteq Rows
BY DEF About

LEMMA LoadKeepsPages ==
    ASSUME PagesInv, NEW d, Load(d)
    PROVE  PagesInv'
<1>1. /\ table' = table /\ asked' = About(d) /\ answered' = {}
      /\ listed' = Shown(Fetched(asked')) /\ loaded' = FALSE /\ graph' = <<>>
  BY DEF Load
<1>2. table \subseteq Rows /\ About(d) \subseteq Rows
  BY AboutRows DEF PagesInv
<1> QED BY <1>1, <1>2 DEF PagesInv

LEMMA PagesInvNext == PagesInv /\ [SiteNext]_allVars => PagesInv'
<1> SUFFICES ASSUME PagesInv, [SiteNext]_allVars PROVE PagesInv'
  OBVIOUS
<1>1. ASSUME NEW r \in Rows, InsertRow(r) PROVE PagesInv'
  BY <1>1 DEF InsertRow, Insert, pageVars, graphVars, PagesInv
<1>2. CASE OpenFlowHistory
  BY <1>2, LoadKeepsPages DEF OpenFlowHistory, FlowHistory
<1>3. ASSUME NEW d \in JobDefinitions, OpenJobHistory(d) PROVE PagesInv'
  BY <1>3, LoadKeepsPages DEF OpenJobHistory, JobHistory
<1>4. CASE GraphArrives
  <2>1. /\ loaded' = TRUE /\ answered' = About(subject) /\ subject' = subject
        /\ graph' = GraphData(subject', Fetched(answered'))
        /\ table' = table /\ asked' = asked /\ listed' = listed
    BY <1>4 DEF GraphArrives, GraphLoaded, pageVars
  <2>2. table \subseteq Rows /\ About(subject) \subseteq Rows
    BY AboutRows DEF PagesInv
  <2> QED BY <2>1, <2>2 DEF PagesInv
<1>5. ASSUME NEW x \in Positions, PointAt(x) PROVE PagesInv'
  BY <1>5 DEF PointAt, MouseMove, vars, pageVars, graphVars, PagesInv
<1>6. ASSUME NEW e, NEW f, Compare(e, f) PROVE PagesInv'
  BY <1>6 DEF Compare, Comparison!CompareFirst, Leave, PagesInv
<1>7. CASE Compared
  BY <1>7 DEF Compared, Comparison!CompareSecond, pageVars, graphVars, PagesInv
<1>8. CASE UNCHANGED allVars
  BY <1>8 DEF allVars, siteVars, vars, pageVars, graphVars, PagesInv
<1> QED BY <1>1, <1>2, <1>3, <1>4, <1>5, <1>6, <1>7, <1>8 DEF SiteNext

LEMMA PagesInvInit == SiteInit => PagesInv
BY DEF SiteInit, GraphInit, Init, PagesInv

(* The page of a flow or a job leaves out no execution that is later than  *)
(* one it lists, for all rows, limits and orders of insertion.             *)
THEOREM LatestAreListed == SiteSpec => []LatestListed
<1>1. PagesInv => LatestListed
  BY NoneLeftOut DEF PagesInv, LatestListed
<1> QED BY <1>1, PagesInvInit, PagesInvNext, PTL DEF SiteSpec

(* Executions of which none starts before the one before has ended are     *)
(* shown with all their rows, also when the limit cuts one that is not.    *)
THEOREM ShownAreComplete == SiteSpec => []ShownComplete
<1>1. PagesInv => ShownComplete
  BY NoneCut DEF PagesInv, ShownComplete
<1> QED BY <1>1, PagesInvInit, PagesInvNext, PTL DEF SiteSpec

(* The script writes every execution's own time into its row, if nothing   *)
(* was inserted between its request and that of the page.                  *)
THEOREM TimesAreWritten == SiteSpec => []TimesMatchWhenQuiet
<1>1. PagesInv => TimesMatchWhenQuiet
  <2> SUFFICES ASSUME PagesInv, loaded, answered = asked, NEW i \in DOMAIN listed
               PROVE  WrittenTime(i) = LastFinish(asked, listed[i])
    BY DEF TimesMatchWhenQuiet
  <2> DEFINE F == Fetched(asked)
  <2>1. /\ asked \in SUBSET Rows /\ listed = Shown(F)
        /\ graph = GraphData(subject, F)
    BY DEF PagesInv
  <2>2. F \in SUBSET Rows
    BY <2>1, FetchedRows
  <2> HIDE DEF F
  <2> DEFINE size == Len(listed)
             place == size + 1 - i
  <2>3. /\ size \in Nat /\ DOMAIN listed = 1 .. size /\ DOMAIN graph = 1 .. size
        /\ \A k \in 1 .. size : /\ size + 1 - k \in 1 .. size
                                /\ graph[k] = Dataset(subject, F, listed[size + 1 - k])
    BY <2>1, <2>2, GraphListing
  <2>4. place \in 1 .. size /\ size + 1 - place = i
    BY <2>3
  <2>5. WrittenTime(i) = graph[place].time
    BY <2>3, <2>4 DEF WrittenTime
  <2>6. graph[place] = Dataset(subject, F, listed[i])
    BY <2>3, <2>4
  <2>7. graph[place].time = LastFinish(F, listed[i])
    BY <2>6 DEF Dataset
  <2>8. listed[i] \in Executions(F)
    <3>1. listed \in Seq(Executions(F))
      BY <2>1, <2>2, ShownListing
    <3> QED BY <3>1
  <2>9. LastFinish(F, listed[i]) = LastFinish(asked, listed[i])
    BY <2>1, <2>8, FetchedTimes DEF F
  <2> QED BY <2>5, <2>7, <2>9
<1> QED BY <1>1, PagesInvInit, PagesInvNext, PTL DEF SiteSpec

-----------------------------------------------------------------------------
(* The place that a search between lo and hi looks for: the times before it*)
(* are less than x, those from there on are not.                           *)
Splits(data, x, lo, hi, k) ==
    /\ k \in lo .. hi
    /\ \A j \in lo .. k - 1 : data[j + 1].time < x
    /\ \A j \in k .. hi - 1 : ~(data[j + 1].time < x)

Sorted(data) ==
    /\ Len(data) \in Nat
    /\ \A i \in 1 .. Len(data) : data[i].time \in Nat
    /\ \A i, j \in 1 .. Len(data) : i < j => data[i].time < data[j].time

LEMMA SplitsOnce ==
    ASSUME NEW data, Sorted(data), NEW x \in Int,
           NEW lo \in 0 .. Len(data), NEW hi \in 0 .. Len(data), lo <= hi
    PROVE  /\ \E k : Splits(data, x, lo, hi, k)
           /\ \A k, l : Splits(data, x, lo, hi, k) /\ Splits(data, x, lo, hi, l) => k = l
<1> DEFINE n == Len(data)
           T == {k \in lo .. hi : k = hi \/ ~(data[k + 1].time < x)}
           least == Min(T)
<1>1. n \in Nat /\ lo \in Nat /\ hi \in Nat
  BY DEF Sorted
<1>2. T \in SUBSET Nat /\ T # {} /\ IsFiniteSet(T)
  <2>1. T \subseteq lo .. hi /\ hi \in T
    BY <1>1
  <2>2. IsFiniteSet(lo .. hi)
    BY <1>1, FS_Interval
  <2>3. IsFiniteSet(T)
    BY <2>1, <2>2, FS_Subset
  <2>4. lo .. hi \subseteq Nat
    BY <1>1
  <2> HIDE DEF T
  <2> QED BY <2>1, <2>3, <2>4
<1>3. least \in T /\ \A y \in T : least <= y
  BY <1>2, Extremes
<1> HIDE DEF least
<1>4. Splits(data, x, lo, hi, least)
  <2>1. least \in lo .. hi
    BY <1>3
  <2>2. ASSUME NEW j \in lo .. least - 1 PROVE data[j + 1].time < x
    <3>1. j \in lo .. hi /\ ~(least <= j)
      BY <1>1, <2>1
    <3> QED BY <1>3, <3>1
  <2>3. ASSUME NEW j \in least .. hi - 1 PROVE ~(data[j + 1].time < x)
    <3>1. least < hi /\ least \in Nat /\ j \in Nat /\ least <= j /\ j < hi
      BY <1>1, <2>1
    <3>2. ~(data[least + 1].time < x)
      BY <1>3, <3>1
    <3>3. least + 1 \in 1 .. n /\ j + 1 \in 1 .. n
      BY <1>1, <3>1
    <3>4. data[least + 1].time \in Nat /\ data[j + 1].time \in Nat
      BY <3>3 DEF Sorted
    <3>5. least = j \/ data[least + 1].time < data[j + 1].time
      BY <3>1, <3>3 DEF Sorted
    <3> QED BY <3>2, <3>4, <3>5
  <2> QED BY <2>1, <2>2, <2>3 DEF Splits
<1>5. ASSUME NEW k, NEW l, Splits(data, x, lo, hi, k), Splits(data, x, lo, hi, l), k # l
      PROVE  FALSE
  <2>1. k \in lo .. hi /\ l \in lo .. hi
    BY <1>5 DEF Splits
  <2>2. CASE k < l
    <3>1. k \in lo .. l - 1 /\ k \in k .. hi - 1
      BY <1>1, <2>1, <2>2
    <3> QED BY <1>5, <3>1 DEF Splits
  <2>3. CASE l < k
    <3>1. l \in lo .. k - 1 /\ l \in l .. hi - 1
      BY <1>1, <2>1, <2>3
    <3> QED BY <1>5, <3>1 DEF Splits
  <2> QED BY <1>1, <1>5, <2>1, <2>2, <2>3
<1> QED BY <1>4, <1>5

(* What the search does is to find that place.                             *)
Searched(data, x, f) ==
    f = [range \in (0 .. Len(data)) \X (0 .. Len(data)) |->
            LET lo == range[1]
                hi == range[2]
                mid == (lo + hi) \div 2
            IN  IF lo >= hi THEN lo
                ELSE f[IF data[mid + 1].time < x THEN <<mid + 1, hi>> ELSE <<lo, mid>>]]

(* Each half of a range that is searched has the place the range has.      *)
LEMMA HalfSplits ==
    ASSUME NEW data, Sorted(data), NEW x \in Int,
           NEW lo \in 0 .. Len(data), NEW hi \in 0 .. Len(data), lo < hi
    PROVE  LET mid == (lo + hi) \div 2
           IN  /\ mid \in lo .. hi - 1
               /\ data[mid + 1].time < x =>
                     \A k : Splits(data, x, mid + 1, hi, k) => Splits(data, x, lo, hi, k)
               /\ ~(data[mid + 1].time < x) =>
                     \A k : Splits(data, x, lo, mid, k) => Splits(data, x, lo, hi, k)
<1> DEFINE n == Len(data)
<1>1. n \in Nat /\ lo \in Nat /\ hi \in Nat /\ hi <= n
  BY DEF Sorted
<1>2. PICK mid : mid = (lo + hi) \div 2
  OBVIOUS
<1>3. mid \in lo .. hi - 1
  BY <1>1, <1>2
<1>4. ASSUME data[mid + 1].time < x, NEW k, Splits(data, x, mid + 1, hi, k)
      PROVE  Splits(data, x, lo, hi, k)
  <2>1. k \in mid + 1 .. hi /\ k \in lo .. hi
    BY <1>1, <1>3, <1>4 DEF Splits
  <2>2. ASSUME NEW j \in lo .. k - 1 PROVE data[j + 1].time < x
    <3>1. CASE j >= mid + 1
      <4>1. j \in mid + 1 .. k - 1
        BY <1>1, <1>3, <2>1, <3>1
      <4> QED BY <1>4, <4>1 DEF Splits
    <3>2. CASE j = mid
      BY <1>4, <3>2
    <3>3. CASE j < mid
      <4>1. j + 1 \in 1 .. n /\ mid + 1 \in 1 .. n /\ j + 1 < mid + 1
        BY <1>1, <1>3, <2>1, <3>3
      <4>2. data[j + 1].time < data[mid + 1].time
        BY <4>1 DEF Sorted
      <4>3. data[j + 1].time \in Nat /\ data[mid + 1].time \in Nat
        BY <4>1 DEF Sorted
      <4> QED BY <1>4, <4>2, <4>3
    <3> QED BY <1>1, <1>3, <2>1, <3>1, <3>2, <3>3
  <2> QED BY <1>4, <2>1, <2>2 DEF Splits
<1>5. ASSUME ~(data[mid + 1].time < x), NEW k, Splits(data, x, lo, mid, k)
      PROVE  Splits(data, x, lo, hi, k)
  <2>1. k \in lo .. mid /\ k \in lo .. hi
    BY <1>1, <1>3, <1>5 DEF Splits
  <2>2. ASSUME NEW j \in k .. hi - 1 PROVE ~(data[j + 1].time < x)
    <3>1. CASE j < mid
      <4>1. j \in k .. mid - 1
        BY <1>1, <1>3, <2>1, <3>1
      <4> QED BY <1>5, <4>1 DEF Splits
    <3>2. CASE j = mid
      BY <1>5, <3>2
    <3>3. CASE mid < j
      <4>1. j + 1 \in 1 .. n /\ mid + 1 \in 1 .. n /\ mid + 1 < j + 1
        BY <1>1, <1>3, <2>1, <3>3
      <4>2. data[mid + 1].time < data[j + 1].time
        BY <4>1 DEF Sorted
      <4>3. data[j + 1].time \in Nat /\ data[mid + 1].time \in Nat
        BY <4>1 DEF Sorted
      <4> QED BY <1>5, <4>2, <4>3
    <3> QED BY <1>1, <1>3, <2>1, <3>1, <3>2, <3>3
  <2> QED BY <1>5, <2>1, <2>2 DEF Splits
<1> QED BY <1>2, <1>3, <1>4, <1>5

(* There is a function that satisfies the equation of the search: the one  *)
(* that gives each range its place.                                        *)
LEMMA SearchExists ==
    ASSUME NEW data, Sorted(data), NEW x \in Int
    PROVE  \E f : Searched(data, x, f)
<1> DEFINE n == Len(data)
           ends == 0 .. n
           place(lo, hi) == IF lo >= hi THEN lo ELSE CHOOSE k : Splits(data, x, lo, hi, k)
           f == [range \in ends \X ends |-> place(range[1], range[2])]
<1>1. n \in Nat
  BY DEF Sorted
<1>2. ASSUME NEW lo \in ends, NEW hi \in ends, lo <= hi
      PROVE  Splits(data, x, lo, hi, place(lo, hi))
  <2>1. CASE lo = hi
    BY <1>1, <2>1 DEF Splits
  <2>2. CASE lo # hi
    <3>1. place(lo, hi) = CHOOSE k : Splits(data, x, lo, hi, k)
      BY <1>1, <1>2, <2>2
    <3>2. \E k : Splits(data, x, lo, hi, k)
      BY <1>2, SplitsOnce
    <3> QED BY <3>1, <3>2
  <2> QED BY <2>1, <2>2
<1>3. ASSUME NEW lo \in ends, NEW hi \in ends, lo >= hi PROVE place(lo, hi) = lo
  BY <1>3
<1> HIDE DEF place
<1>4. \A lo, hi \in ends : f[<<lo, hi>>] = place(lo, hi)
  OBVIOUS
<1>5. ASSUME NEW lo \in ends, NEW hi \in ends
      PROVE  f[<<lo, hi>>] =
                LET mid == (lo + hi) \div 2
                IN  IF lo >= hi THEN lo
                    ELSE f[IF data[mid + 1].time < x THEN <<mid + 1, hi>> ELSE <<lo, mid>>]
  <2>1. CASE lo >= hi
    BY <1>4, <1>3, <2>1
  <2>2. CASE lo < hi
    <3>1. PICK mid : mid = (lo + hi) \div 2
      OBVIOUS
    <3>2. /\ mid \in lo .. hi - 1
          /\ data[mid + 1].time < x =>
                 \A k : Splits(data, x, mid + 1, hi, k) => Splits(data, x, lo, hi, k)
          /\ ~(data[mid + 1].time < x) =>
                 \A k : Splits(data, x, lo, mid, k) => Splits(data, x, lo, hi, k)
      BY <2>2, <3>1, HalfSplits
    <3>3. mid \in ends /\ mid + 1 \in ends /\ lo <= mid /\ mid + 1 <= hi
      BY <1>1, <2>2, <3>2
    <3>4. CASE data[mid + 1].time < x
      <4>1. Splits(data, x, lo, hi, place(mid + 1, hi))
        BY <1>2, <3>2, <3>3, <3>4
      <4>2. Splits(data, x, lo, hi, place(lo, hi)) /\ lo <= hi
        BY <1>1, <1>2, <2>2
      <4>3. place(lo, hi) = place(mid + 1, hi)
        BY <4>1, <4>2, SplitsOnce
      <4>4. f[<<lo, hi>>] = f[<<mid + 1, hi>>]
        BY <1>4, <3>3, <4>3
      <4>5. ~(lo >= hi)
        BY <1>1, <2>2
      <4> HIDE DEF f
      <4> QED BY <3>1, <3>4, <4>4, <4>5
    <3>5. CASE ~(data[mid + 1].time < x)
      <4>1. Splits(data, x, lo, hi, place(lo, mid))
        BY <1>2, <3>2, <3>3, <3>5
      <4>2. Splits(data, x, lo, hi, place(lo, hi)) /\ lo <= hi
        BY <1>1, <1>2, <2>2
      <4>3. place(lo, hi) = place(lo, mid)
        BY <4>1, <4>2, SplitsOnce
      <4>4. f[<<lo, hi>>] = f[<<lo, mid>>]
        BY <1>4, <3>3, <4>3
      <4>5. ~(lo >= hi)
        BY <1>1, <2>2
      <4> HIDE DEF f
      <4> QED BY <3>1, <3>5, <4>4, <4>5
    <3> QED BY <3>4, <3>5
  <2> QED BY <1>1, <2>1, <2>2
<1>6. f = [range \in ends \X ends |-> f[range]]
  OBVIOUS
<1> HIDE DEF f
<1>7. Searched(data, x, f)
  <2>1. \A range \in ends \X ends :
           f[range] =
              LET lo == range[1]
                  hi == range[2]
                  mid == (lo + hi) \div 2
              IN  IF lo >= hi THEN lo
                  ELSE f[IF data[mid + 1].time < x THEN <<mid + 1, hi>> ELSE <<lo, mid>>]
    <3> SUFFICES ASSUME NEW range \in ends \X ends
                 PROVE  f[range] =
                           LET lo == range[1]
                               hi == range[2]
                               mid == (lo + hi) \div 2
                           IN  IF lo >= hi THEN lo
                               ELSE f[IF data[mid + 1].time < x THEN <<mid + 1, hi>>
                                      ELSE <<lo, mid>>]
      OBVIOUS
    <3>1. range = <<range[1], range[2]>> /\ range[1] \in ends /\ range[2] \in ends
      OBVIOUS
    <3> QED BY <1>5, <3>1
  <2> QED BY <1>6, <2>1 DEF Searched
<1> QED BY <1>7

(* Whatever satisfies it gives each range its place: a shortest range for  *)
(* which it did not would have a half for which it did not either.         *)
LEMMA SearchFinds ==
    ASSUME NEW data, Sorted(data), NEW x \in Int, NEW f, Searched(data, x, f),
           NEW from \in 0 .. Len(data)
    PROVE  Splits(data, x, from, Len(data), f[<<from, Len(data)>>])
<1> DEFINE n == Len(data)
           ends == 0 .. n
           Wrong(lo, hi) == lo <= hi /\ ~Splits(data, x, lo, hi, f[<<lo, hi>>])
           lengths == {l \in 0 .. n : \E lo \in ends : lo + l \in ends /\ Wrong(lo, lo + l)}
           least == Min(lengths)
<1>1. n \in Nat
  BY DEF Sorted
<1>2. ASSUME NEW lo \in ends, NEW hi \in ends
      PROVE  f[<<lo, hi>>] =
                LET mid == (lo + hi) \div 2
                IN  IF lo >= hi THEN lo
                    ELSE f[IF data[mid + 1].time < x THEN <<mid + 1, hi>> ELSE <<lo, mid>>]
  <2>1. <<lo, hi>> \in ends \X ends /\ <<lo, hi>>[1] = lo /\ <<lo, hi>>[2] = hi
    OBVIOUS
  <2> QED BY <2>1 DEF Searched
<1>3. ASSUME lengths # {} PROVE FALSE
  <2>1. lengths \in SUBSET Nat /\ IsFiniteSet(lengths)
    <3>1. lengths \subseteq 0 .. n /\ 0 .. n \subseteq Nat
      BY <1>1
    <3>2. IsFiniteSet(0 .. n)
      BY <1>1, FS_Interval
    <3> HIDE DEF lengths
    <3> QED BY <3>1, <3>2, FS_Subset
  <2>2. least \in lengths /\ \A l \in lengths : least <= l
    BY <1>3, <2>1, Extremes
  <2> HIDE DEF least
  <2>3. PICK lo \in ends : lo + least \in ends /\ Wrong(lo, lo + least)
    BY <2>2
  <2>4. PICK hi \in ends : hi = lo + least
    BY <2>3
  <2>5. lo <= hi /\ ~Splits(data, x, lo, hi, f[<<lo, hi>>]) /\ least \in Nat
    BY <1>1, <2>1, <2>2, <2>3, <2>4
  <2>6. ASSUME NEW a \in ends, NEW b \in ends, a <= b, b - a < hi - lo
        PROVE  Splits(data, x, a, b, f[<<a, b>>])
    <3>1. b - a \in 0 .. n /\ a + (b - a) = b
      BY <1>1, <2>6
    <3>2. ~(least <= b - a)
      BY <1>1, <2>4, <2>5, <2>6
    <3>3. b - a \notin lengths
      BY <2>2, <3>2
    <3>4. ~Wrong(a, b)
      BY <3>1, <3>3
    <3> QED BY <2>6, <3>4
  <2> HIDE DEF lengths, Wrong
  <2>7. CASE lo = hi
    <3>1. f[<<lo, hi>>] = lo
      <4>1. lo >= hi
        BY <1>1, <2>7
      <4> QED BY <1>2, <4>1
    <3>2. Splits(data, x, lo, hi, lo)
      BY <1>1, <2>7 DEF Splits
    <3> QED BY <2>5, <3>1, <3>2
  <2>8. CASE lo < hi
    <3>1. PICK mid : mid = (lo + hi) \div 2
      OBVIOUS
    <3>2. /\ mid \in lo .. hi - 1
          /\ data[mid + 1].time < x =>
                 \A k : Splits(data, x, mid + 1, hi, k) => Splits(data, x, lo, hi, k)
          /\ ~(data[mid + 1].time < x) =>
                 \A k : Splits(data, x, lo, mid, k) => Splits(data, x, lo, hi, k)
      BY <2>8, <3>1, HalfSplits
    <3>3. /\ mid \in ends /\ mid + 1 \in ends /\ lo <= mid /\ mid + 1 <= hi
          /\ hi - (mid + 1) < hi - lo /\ mid - lo < hi - lo
      BY <1>1, <2>8, <3>2
    <3>4. f[<<lo, hi>>] = f[IF data[mid + 1].time < x THEN <<mid + 1, hi>> ELSE <<lo, mid>>]
      <4>1. ~(lo >= hi)
        BY <1>1, <2>8
      <4> QED BY <1>2, <3>1, <4>1
    <3>5. CASE data[mid + 1].time < x
      BY <2>5, <2>6, <3>2, <3>3, <3>4, <3>5
    <3>6. CASE ~(data[mid + 1].time < x)
      BY <2>5, <2>6, <3>2, <3>3, <3>4, <3>6
    <3> QED BY <3>5, <3>6
  <2> QED BY <1>1, <2>5, <2>7, <2>8
<1>4. ~Wrong(from, n)
  <2>1. n - from \in 0 .. n /\ from + (n - from) = n /\ n \in ends
    BY <1>1
  <2>2. n - from \notin lengths
    BY <1>3
  <2> QED BY <2>1, <2>2
<1> QED BY <1>1, <1>4

LEMMA BisectLeftSplits ==
    ASSUME NEW data, Sorted(data), NEW x \in Int, NEW from \in 0 .. Len(data)
    PROVE  Splits(data, x, from, Len(data), BisectLeft(data, x, from))
<1> DEFINE search == CHOOSE f : Searched(data, x, f)
<1>1. BisectLeft(data, x, from) = search[<<from, Len(data)>>]
  BY DEF BisectLeft, Searched
<1>2. Searched(data, x, search)
  BY SearchExists
<1> QED BY <1>1, <1>2, SearchFinds

-----------------------------------------------------------------------------
(* The records of the graph are in the order of their times.               *)
LEMMA GraphSorted ==
    ASSUME NEW F \in SUBSET Rows, NEW d
    PROVE  Sorted(GraphData(d, F))
<1> DEFINE shown == Shown(F)
           size == Len(shown)
           g == GraphData(d, F)
           all == LatestFirst(F)
<1>1. /\ size \in Nat /\ Len(g) = size
      /\ \A i \in 1 .. size : /\ size + 1 - i \in 1 .. size
                              /\ g[i] = Dataset(d, F, shown[size + 1 - i])
  BY GraphListing
<1>2. ASSUME NEW i \in 1 .. size PROVE g[i].time = LastFinish(F, shown[size + 1 - i])
  <2>1. g[i] = Dataset(d, F, shown[size + 1 - i])
    BY <1>1
  <2> QED BY <2>1 DEF Dataset
<1>3. /\ \A i \in 1 .. size : shown[i] \in Executions(F)
      /\ \A i, j \in 1 .. size : i < j => LastFinish(F, shown[j]) < LastFinish(F, shown[i])
  <2>1. PICK m \in 0 .. Cardinality(Executions(F)) :
           shown = [i \in 1 .. m |-> all[i]] /\ size = m
    BY ShownListing
  <2>2. /\ Cardinality(Executions(F)) \in Nat
        /\ all \in [1 .. Cardinality(Executions(F)) -> Executions(F)]
        /\ \A i, j \in 1 .. Cardinality(Executions(F)) :
              i < j <=> LastFinish(F, all[j]) < LastFinish(F, all[i])
    BY LatestFirstListing
  <2>3. \A i \in 1 .. size : i \in 1 .. Cardinality(Executions(F)) /\ shown[i] = all[i]
    BY <2>1, <2>2
  <2> HIDE DEF all, shown, size
  <2> QED BY <2>2, <2>3
<1> HIDE DEF shown, size, g
<1>4. ASSUME NEW i \in 1 .. size PROVE g[i].time \in Nat
  BY <1>1, <1>2, <1>3, TimesOfExecution
<1>5. ASSUME NEW i \in 1 .. size, NEW j \in 1 .. size, i < j PROVE g[i].time < g[j].time
  <2>1. size + 1 - j < size + 1 - i
    BY <1>1, <1>5
  <2> QED BY <1>1, <1>2, <1>3, <2>1
<1> QED BY <1>1, <1>4, <1>5 DEF Sorted, g

(* Where the mouse points, if not behind all records.                      *)
LEMMA PointedNearest ==
    ASSUME Sorted(graph), DOMAIN graph = 1 .. Len(graph), Len(graph) # 0, graph # <<>>,
           NEW x \in Int
    PROVE  \/ Pointed(x) = 0 /\ x > graph[Len(graph)].time /\ Len(graph) > 1
           \/ /\ Pointed(x) \in DOMAIN graph
              /\ \A i \in DOMAIN graph :
                    Distance(graph[Pointed(x)].time, x) <= Distance(graph[i].time, x)
<1> DEFINE n == Len(graph)
           time(i) == graph[i].time
<1>1. /\ n \in Nat \ {0}
      /\ \A i \in 1 .. n : time(i) \in Nat
      /\ \A i, j \in 1 .. n : i < j => time(i) < time(j)
  BY DEF Sorted
<1>2. CASE n = 1
  <2>1. Pointed(x) = 1 /\ DOMAIN graph = {1} /\ time(1) \in Nat
    BY <1>1, <1>2 DEF Pointed
  <2>2. Distance(time(1), x) <= Distance(time(1), x)
    BY <2>1 DEF Distance
  <2> QED BY <2>1, <2>2
<1>3. CASE n # 1
  <2> DEFINE left == BisectLeft(graph, x, 1)
             right == 1 + left
  <2>1. Splits(graph, x, 1, n, left)
    <3>1. 1 \in 0 .. n
      BY <1>1
    <3> QED BY <3>1, BisectLeftSplits
  <2>2. Pointed(x) = IF {right - 1, right} \subseteq DOMAIN graph
                     THEN IF x - time(right - 1) > time(right) - x THEN right ELSE right - 1
                     ELSE 0
    BY <1>3 DEF Pointed, RightOfMouse
  <2> HIDE DEF left
  <2>3. left \in 1 .. n /\ right - 1 = left /\ n > 1
    BY <1>1, <1>3, <2>1 DEF Splits
  <2>4. CASE left = n
    <3>1. Pointed(x) = 0
      BY <1>1, <2>2, <2>3, <2>4
    <3>2. n - 1 \in 1 .. left - 1
      BY <1>1, <2>3, <2>4
    <3>3. graph[(n - 1) + 1].time < x
      BY <2>1, <3>2 DEF Splits
    <3>4. (n - 1) + 1 = n /\ n \in 1 .. n /\ time(n) \in Nat
      BY <1>1
    <3> QED BY <2>3, <3>1, <3>3, <3>4
  <2>5. CASE left # n
    <3> HIDE DEF n, time
    <3>1. left \in 1 .. n /\ right \in 1 .. n /\ left < right
      BY <1>1, <2>3, <2>5
    <3>2. Pointed(x) = IF x - time(left) > time(right) - x THEN right ELSE left
      <4>1. {right - 1, right} \subseteq DOMAIN graph
        BY <2>3, <3>1 DEF n
      <4> QED BY <2>2, <2>3, <4>1
    <3>3. ~(time(right) < x)
      <4>1. left \in left .. n - 1 /\ left + 1 = right
        BY <1>1, <2>3, <2>5
      <4> QED BY <2>1, <4>1 DEF Splits, time
    <3>4. left # 1 => time(left) < x
      <4>1. left # 1 => left - 1 \in 1 .. left - 1 /\ (left - 1) + 1 = left
        BY <2>3
      <4> QED BY <2>1, <4>1 DEF Splits, time
    <3>5. ASSUME NEW i \in 1 .. n PROVE Distance(time(Pointed(x)), x) <= Distance(time(i), x)
      <4>1. /\ time(i) \in Nat /\ time(left) \in Nat /\ time(right) \in Nat
            /\ time(left) < time(right)
        BY <1>1, <3>1
      <4>2. \/ i = left \/ i = right
            \/ left # 1 /\ time(i) < time(left)
            \/ time(right) < time(i)
        <5>1. i < left \/ i = left \/ i = right \/ right < i
          BY <2>3
        <5> QED BY <1>1, <3>1, <5>1
      <4> HIDE DEF left, right
      <4>3. CASE x - time(left) > time(right) - x
        BY <3>2, <3>3, <3>4, <4>1, <4>2, <4>3 DEF Distance
      <4>4. CASE ~(x - time(left) > time(right) - x)
        BY <3>2, <3>3, <3>4, <4>1, <4>2, <4>4 DEF Distance
      <4> QED BY <4>3, <4>4
    <3> QED BY <3>1, <3>2, <3>5 DEF n, time
  <2> QED BY <2>4, <2>5
<1> QED BY <1>2, <1>3

(* The tooltip stays as it is until the mouse is moved; then it is on the  *)
(* nearest record, or the mouse is behind all.                             *)
TooltipInv ==
    /\ ~loaded => mouse = <<>> /\ tooltip = <<>>
    /\ NearestShown

LEMMA MouseKeepsTooltip ==
    ASSUME PagesInv, TooltipInv, NEW x \in Positions, PointAt(x)
    PROVE  TooltipInv'
<1>1. /\ loaded /\ mouse' = <<x>> /\ graph' = graph /\ loaded' = loaded
      /\ IF Pointed(x) = 0 THEN tooltip' = tooltip
         ELSE tooltip' # <<>> /\ tooltip'[1].record = Pointed(x)
  BY DEF PointAt, MouseMove, Plotted, vars, graphVars
<1>2. x \in Int
  BY GraphAssumption
<1>3. Sorted(graph) /\ DOMAIN graph = 1 .. Len(graph) /\ (graph # <<>> => Len(graph) # 0)
  <2>1. graph = GraphData(subject, Fetched(answered)) /\ Fetched(answered) \in SUBSET Rows
    BY <1>1, FetchedRows DEF PagesInv
  <2>2. \E T : graph \in Seq(T)
    BY <2>1, GraphListing
  <2> QED BY <2>1, <2>2, GraphSorted
<1>4. ASSUME graph # <<>>
      PROVE  \/ x > Last(graph).time /\ Len(graph) > 1
             \/ /\ tooltip' # <<>>
                /\ \A i \in DOMAIN graph :
                      Distance(graph[tooltip'[1].record].time, x) <= Distance(graph[i].time, x)
  <2>1. \/ Pointed(x) = 0 /\ x > graph[Len(graph)].time /\ Len(graph) > 1
        \/ /\ Pointed(x) \in DOMAIN graph
           /\ \A i \in DOMAIN graph :
                 Distance(graph[Pointed(x)].time, x) <= Distance(graph[i].time, x)
    BY <1>2, <1>3, <1>4, PointedNearest
  <2>2. Pointed(x) \in DOMAIN graph => Pointed(x) # 0
    BY <1>3
  <2> QED BY <1>1, <2>1, <2>2 DEF Last
<1>5. mouse'[1] = x
  BY <1>1
<1> QED BY <1>1, <1>4, <1>5 DEF TooltipInv, NearestShown

LEMMA TooltipInvNext == PagesInv /\ TooltipInv /\ [SiteNext]_allVars => TooltipInv'
<1> SUFFICES ASSUME PagesInv, TooltipInv, [SiteNext]_allVars PROVE TooltipInv'
  OBVIOUS
<1>1. CASE UNCHANGED <<loaded, graph, mouse, tooltip>>
  BY <1>1 DEF TooltipInv, NearestShown, Last
<1>2. CASE LeaveGraph
  BY <1>2 DEF LeaveGraph, TooltipInv, NearestShown
<1>3. ASSUME NEW r \in Rows, InsertRow(r) PROVE TooltipInv'
  BY <1>1, <1>3 DEF InsertRow, Insert, graphVars, tooltipVars
<1>4. CASE OpenFlowHistory
  BY <1>2, <1>4 DEF OpenFlowHistory
<1>5. ASSUME NEW d \in JobDefinitions, OpenJobHistory(d) PROVE TooltipInv'
  BY <1>2, <1>5 DEF OpenJobHistory
<1>6. CASE GraphArrives
  <2>1. loaded' /\ mouse' = mouse /\ mouse = <<>>
    BY <1>6 DEF GraphArrives, GraphLoaded, tooltipVars, TooltipInv
  <2> QED BY <2>1 DEF TooltipInv, NearestShown
<1>7. ASSUME NEW e, NEW f, Compare(e, f) PROVE TooltipInv'
  BY <1>2, <1>7 DEF Compare, Leave
<1>8. CASE Compared
  BY <1>1, <1>8 DEF Compared, graphVars, tooltipVars
<1>9. CASE UNCHANGED allVars
  BY <1>1, <1>9 DEF allVars, siteVars, vars, graphVars, tooltipVars
<1> QED
  BY <1>3, <1>4, <1>5, <1>6, <1>7, <1>8, <1>9, MouseKeepsTooltip DEF SiteNext

(* The tooltip is on the execution nearest to the mouse, for all rows and  *)
(* all positions: the search in the script, from its second record on,     *)
(* loses none.                                                             *)
THEOREM NearestIsShown == SiteSpec => []NearestShown
<1>1. SiteInit => PagesInv /\ TooltipInv
  BY PagesInvInit DEF SiteInit, GraphInit, Init, TooltipInv, NearestShown
<1>2. PagesInv /\ TooltipInv /\ [SiteNext]_allVars => (PagesInv /\ TooltipInv)'
  BY PagesInvNext, TooltipInvNext
<1>3. TooltipInv => NearestShown
  BY DEF TooltipInv
<1> QED BY <1>1, <1>2, <1>3, PTL DEF SiteSpec

-----------------------------------------------------------------------------
(* Total counts the units of the scores.                                   *)
LEMMA TotalIsWeight ==
    ASSUME NEW score, NEW S, Weighted(score, S)
    PROVE  Total(score, S) = Weight(score, S)
<1> DEFINE f == CHOOSE f : Summed(score, S, f)
<1>1. Total(score, S) = f[S]
  BY Zenon DEF Total, Summed, MapThenSumSet, MapThenFoldSet
<1>2. Summed(score, S, f)
  BY SumExists
<1> HIDE DEF f
<1> QED BY <1>1, <1>2, SumUnique

(* InOrder has every element once.                                         *)
LEMMA InOrderOnce ==
    ASSUME NEW number, Numbering(number)
    PROVE  ListingOf(InOrder(number), DOMAIN number)
<1> DEFINE m == Cardinality(DOMAIN number)
           list == InOrder(number)
<1>1. /\ m \in Nat /\ list \in [1 .. m -> DOMAIN number]
      /\ \A i, j \in 1 .. m : i < j <=> number[list[i]] < number[list[j]]
      /\ \A x \in DOMAIN number : \E i \in 1 .. m : list[i] = x
  BY InOrderListing
<1> HIDE DEF m, list
<1>2. ASSUME NEW i \in 1 .. m, NEW j \in 1 .. m, list[i] = list[j] PROVE i = j
  <2>1. number[list[i]] \in Nat
    BY <1>1 DEF Numbering
  <2>2. ~(i < j) /\ ~(j < i)
    BY <1>1, <1>2, <2>1
  <2> QED BY <1>1, <2>2
<1> QED BY <1>1, <1>2 DEF ListingOf, m, list

(* The parts of a record, and the rows of a part.                          *)
PartsOf(d, jobs) == IF d = "flow" THEN {JobDefinition[r] : r \in jobs} ELSE jobs

RowsOfPart(d, jobs, part) ==
    IF d = "flow" THEN {r \in jobs : JobDefinition[r] = part} ELSE {part}

LEMMA PartsListed ==
    ASSUME NEW F \in SUBSET Rows, NEW e, NEW d
    PROVE  /\ ListingOf(Dataset(d, F, e).parts, PartsOf(d, JobsOf(F, e)))
           /\ ListingOf(JobOrder(JobsOf(F, e)), {JobDefinition[r] : r \in JobsOf(F, e)})
<1> DEFINE jobs == JobsOf(F, e)
           D == {JobDefinition[r] : r \in jobs}
           begun == [c \in D |-> Min(Times({r \in jobs : JobDefinition[r] = c}))]
           time == [r \in jobs |-> FinishTime[r]]
<1>1. jobs \subseteq Rows /\ IsFiniteSet(jobs) /\ IsFiniteSet(D)
  <2>1. jobs \subseteq Rows /\ IsFiniteSet(jobs)
    BY HistoryConstants, FS_Subset DEF JobsOf
  <2> HIDE DEF jobs
  <2> QED BY <2>1, ImageFinite
<1>2. ASSUME NEW c \in D
      PROVE  \E r \in jobs : JobDefinition[r] = c /\ FinishTime[r] = begun[c]
  <2> DEFINE rows == {r \in jobs : JobDefinition[r] = c}
  <2>1. rows \subseteq Rows /\ rows # {} /\ IsFiniteSet(rows)
    BY <1>1, FS_Subset
  <2>2. Times(rows) \in SUBSET Nat /\ Times(rows) # {} /\ IsFiniteSet(Times(rows))
    <3>1. IsFiniteSet({FinishTime[r] : r \in rows})
      BY <2>1, ImageFinite
    <3> QED BY <2>1, <3>1, HistoryConstants DEF Times
  <2>3. Min(Times(rows)) \in Times(rows)
    BY <2>2, Extremes
  <2>4. begun[c] = Min(Times(rows))
    OBVIOUS
  <2> QED BY <2>3, <2>4 DEF Times
<1>3. DOMAIN begun = D
  OBVIOUS
<1> HIDE DEF begun
<1>4. Numbering(begun)
  <2>1. \A c \in D : begun[c] \in Nat
    BY <1>1, <1>2, HistoryConstants
  <2>2. \A c, b \in D : begun[c] = begun[b] => c = b
    BY <1>1, <1>2, HistoryConstants
  <2>3. begun = [c \in D |-> begun[c]]
    BY <1>3 DEF begun
  <2> QED BY <1>1, <1>3, <2>1, <2>2, <2>3 DEF Numbering
<1>5. Numbering(time) /\ DOMAIN time = jobs
  BY <1>1, HistoryConstants DEF Numbering
<1>6. ListingOf(JobOrder(jobs), D)
  <2>1. JobOrder(jobs) = InOrder(begun)
    BY DEF JobOrder, begun
  <2> QED BY <1>3, <1>4, <2>1, InOrderOnce
<1>7. ListingOf(Reverse(Completed(jobs)), jobs)
  <2>1. Completed(jobs) = InOrder(time)
    BY DEF Completed
  <2> HIDE DEF time
  <2> QED BY <1>5, <2>1, InOrderOnce, ReverseListing
<1>8. Dataset(d, F, e).parts = IF d = "flow" THEN JobOrder(jobs) ELSE Reverse(Completed(jobs))
  BY DEF Dataset
<1> QED BY <1>6, <1>7, <1>8 DEF PartsOf

(* The score of a record is the sum of those of its parts.                 *)
ScoresAddUp(record) ==
    \E m \in Nat :
        /\ DOMAIN record.parts = 1 .. m
        /\ Weighted(record.scores, 1 .. m)
        /\ record.score = Weight(record.scores, 1 .. m)

LEMMA DatasetAddsUp ==
    ASSUME NEW F \in SUBSET Rows, NEW e, NEW d
    PROVE  ScoresAddUp(Dataset(d, F, e))
<1> DEFINE jobs == JobsOf(F, e)
           record == Dataset(d, F, e)
           D == PartsOf(d, jobs)
<1>1. PICK m \in Nat :
        /\ record.parts \in [1 .. m -> D]
        /\ \A i, j \in 1 .. m : record.parts[i] = record.parts[j] => i = j
        /\ \A x \in D : \E i \in 1 .. m : record.parts[i] = x
  <2>1. ListingOf(record.parts, D)
    BY PartsListed
  <2> HIDE DEF record, D
  <2> QED BY <2>1 DEF ListingOf
<1> DEFINE parts == record.parts
           part == [i \in 1 .. m |-> RowsOfPart(d, jobs, parts[i])]
<1>2. /\ record.score = Total(Score, jobs)
      /\ record.scores = [i \in DOMAIN parts |-> Total(Score, RowsOfPart(d, jobs, parts[i]))]
  BY DEF Dataset, RowsOfPart
<1> HIDE DEF record
<1>3. DOMAIN parts = 1 .. m
  BY <1>1
<1>4. Weighted(Score, jobs)
  <2>1. IsFiniteSet(jobs) /\ jobs \subseteq Rows
    BY HistoryConstants, FS_Subset DEF JobsOf
  <2> QED BY <2>1, HistoryAssumption DEF Weighted
<1>5. ASSUME NEW i \in 1 .. m PROVE part[i] \subseteq jobs /\ Weighted(Score, part[i])
  <2>1. parts[i] \in D
    BY <1>1
  <2>2. part[i] \subseteq jobs
    BY <2>1 DEF PartsOf, RowsOfPart
  <2> QED BY <1>4, <2>2, FS_Subset DEF Weighted
<1>6. \A i, j \in 1 .. m : i # j => part[i] \cap part[j] = {}
  <2> SUFFICES ASSUME NEW i \in 1 .. m, NEW j \in 1 .. m, i # j PROVE part[i] \cap part[j] = {}
    OBVIOUS
  <2>1. parts[i] # parts[j]
    BY <1>1
  <2> QED BY <2>1 DEF RowsOfPart
<1>7. Whole(part, 1 .. m) = jobs
  <2>1. ASSUME NEW r \in jobs PROVE \E i \in 1 .. m : r \in part[i]
    <3>1. \E x \in D : r \in RowsOfPart(d, jobs, x)
      BY DEF PartsOf, RowsOfPart
    <3> QED BY <1>1, <3>1
  <2> HIDE DEF part
  <2> QED BY <1>5, <2>1 DEF Whole
<1>8. \A i \in 1 .. m : record.scores[i] = Weight(Score, part[i])
  <2> SUFFICES ASSUME NEW i \in 1 .. m PROVE record.scores[i] = Weight(Score, part[i])
    OBVIOUS
  <2>1. record.scores[i] = Total(Score, part[i])
    BY <1>2, <1>3
  <2> QED BY <1>5, <2>1, TotalIsWeight
<1>9. record.score = Weight(Score, jobs)
  BY <1>2, <1>4, TotalIsWeight
<1> HIDE DEF part, jobs
<1>10. IsFiniteSet(1 .. m)
  BY FS_Interval
<1>11. /\ Weighted(record.scores, 1 .. m)
       /\ Weight(record.scores, 1 .. m) = Weight(Score, Whole(part, 1 .. m))
  <2>1. PICK sum : sum = record.scores
    OBVIOUS
  <2>2. \A i \in 1 .. m : Weighted(Score, part[i]) /\ sum[i] = Weight(Score, part[i])
    BY <1>5, <1>8, <2>1
  <2>3. /\ Weighted(sum, 1 .. m)
        /\ Weight(sum, 1 .. m) = Weight(Score, Whole(part, 1 .. m))
    <3>1. /\ \A i \in 1 .. m : Weighted(Score, part[i])
          /\ \A i \in 1 .. m : sum[i] = Weight(Score, part[i])
      BY <2>2
    <3> QED BY ONLY <1>6, <1>10, <3>1, SumOfParts
  <2> QED BY <2>1, <2>3
<1> QED BY <1>3, <1>7, <1>9, <1>11 DEF ScoresAddUp, record

-----------------------------------------------------------------------------
(* What is left of the parts, after they have been sorted and cut.         *)
Top(record, s) ==
    LET shown == {s[i] : i \in DOMAIN s}
        rest == DOMAIN record.parts \ shown
    IN  /\ shown \subseteq DOMAIN record.parts
        /\ \A i \in shown, j \in rest : record.scores[i] >= record.scores[j]
        /\ Cardinality(shown) = Len(s)
        /\ IF Len(s) < TopLimit THEN Weight(record.scores, shown) = record.score
           ELSE Weight(record.scores, shown) <= record.score

LEMMA BestOnTop ==
    ASSUME NEW record, ScoresAddUp(record), NEW s \in TopParts(record)
    PROVE  Top(record, s) /\ \E k \in Nat : DOMAIN s = 1 .. k /\ Len(s) = k
<1>1. PICK m \in Nat : /\ DOMAIN record.parts = 1 .. m
                       /\ Weighted(record.scores, 1 .. m)
                       /\ record.score = Weight(record.scores, 1 .. m)
  BY DEF ScoresAddUp
<1> DEFINE scores == record.scores
           shown == {s[i] : i \in DOMAIN s}
<1>2. CASE record.score = 0
  <2>1. s = <<>> /\ DOMAIN s = 1 .. 0 /\ Len(s) = 0
    BY <1>2 DEF TopParts
  <2>2. shown = {}
    BY <2>1
  <2>3. Weight(scores, {}) = 0 /\ Cardinality({}) = 0
    BY WeightEmpty, FS_EmptySet
  <2>4. Weight(scores, shown) = record.score /\ Weight(scores, shown) <= record.score
    BY <1>2, <2>2, <2>3
  <2>5. Cardinality(shown) = Len(s)
    BY <2>1, <2>2, <2>3
  <2> HIDE DEF scores
  <2>6. Top(record, s)
    BY <2>2, <2>4, <2>5 DEF Top, scores
  <2> QED BY <2>1, <2>6
<1>3. CASE record.score # 0
  <2> DEFINE ends(q) == {i \in DOMAIN q : i > TopLimit \/ scores[q[i]] = 0}
             cut(q) == IF ends(q) = {} THEN Len(q) ELSE Min(ends(q)) - 1
  <2>1. PICK sorted \in ByScore(record) : s = SubSeq(sorted, 1, cut(sorted))
    BY <1>3 DEF TopParts
  <2>2. Cardinality(1 .. m) = m /\ IsFiniteSet(1 .. m)
    <3>1. Cardinality(1 .. m) = IF 1 > m THEN 0 ELSE m - 1 + 1
      BY FS_Interval
    <3> QED BY <3>1, FS_Interval
  <2>3. /\ sorted \in [1 .. m -> 1 .. m]
        /\ \A i, j \in 1 .. m : i # j => sorted[i] # sorted[j]
        /\ \A i, j \in 1 .. m : i < j => scores[sorted[i]] >= scores[sorted[j]]
    BY <1>1, <2>1, <2>2 DEF ByScore, SetToSeqs
  <2>4. \A x \in 1 .. m : \E i \in 1 .. m : sorted[i] = x
    <3>1. sorted \in Injection(1 .. m, 1 .. m)
      BY <2>3, Fun_IsInj
    <3>2. sorted \in Surjection(1 .. m, 1 .. m)
      BY <2>2, <3>1, FS_Injection
    <3> QED BY <3>2 DEF Surjection
  <2>5. PICK k : k = cut(sorted)
    OBVIOUS
  <2>6. DOMAIN sorted = 1 .. m /\ Len(sorted) = m
    BY <2>3
  <2>7. ends(sorted) # {} => /\ Min(ends(sorted)) \in ends(sorted)
                             /\ Min(ends(sorted)) \in 1 .. m
    <3>1. ends(sorted) \subseteq 1 .. m /\ 1 .. m \subseteq Nat
      BY <2>6
    <3> DEFINE E == ends(sorted)
    <3> HIDE DEF E
    <3>2. E \in SUBSET Nat /\ IsFiniteSet(E)
      BY <2>2, <3>1, FS_Subset DEF E
    <3>3. E # {} => Min(E) \in E
      BY <3>2, Extremes
    <3> QED BY <3>1, <3>3 DEF E
  <2>8. /\ k \in 0 .. m
        /\ k = m \/ (k < m /\ (k + 1 > TopLimit \/ scores[sorted[k + 1]] = 0))
    <3>1. CASE ends(sorted) = {}
      <4>1. k = Len(sorted)
        BY <2>5, <3>1
      <4>2. k = m /\ m \in 0 .. m
        BY <2>6, <4>1
      <4> QED BY <4>2
    <3>2. CASE ends(sorted) # {}
      <4>1. /\ k = Min(ends(sorted)) - 1
            /\ Min(ends(sorted)) \in ends(sorted) /\ Min(ends(sorted)) \in 1 .. m
        BY <2>5, <2>7, <3>2
      <4>2. PICK least \in 1 .. m : least \in ends(sorted) /\ k = least - 1
        BY <4>1
      <4>3. k + 1 = least
        BY <4>2
      <4> QED BY <4>2, <4>3
    <3> QED BY <3>1, <3>2
  <2>9. s = [i \in 1 .. k |-> sorted[i]]
    <3>1. s = SubSeq(sorted, 1, k)
      BY <2>1, <2>5
    <3>2. SubSeq(sorted, 1, k) = [i \in 1 .. (1 + k - 1) |-> sorted[i + 1 - 1]]
      BY <2>3, <2>6, <2>8
    <3>3. 1 + k - 1 = k /\ \A i \in 1 .. k : i + 1 - 1 = i
      BY <2>8
    <3> QED BY <3>1, <3>2, <3>3
  <2> HIDE DEF cut, ends
  <2>10. DOMAIN s = 1 .. k /\ k \in Nat /\ Len(s) = k
    BY <2>8, <2>9
  <2>11. /\ shown \subseteq 1 .. m
         /\ \A x \in shown : \E i \in 1 .. k : x = sorted[i] /\ i \in 1 .. m
         /\ \A i \in 1 .. k : sorted[i] \in shown
    BY <2>3, <2>8, <2>9, <2>10
  <2>12. ASSUME NEW j \in (1 .. m) \ shown PROVE \E q \in 1 .. m : j = sorted[q] /\ k < q
    <3>1. PICK q \in 1 .. m : sorted[q] = j
      BY <2>4
    <3>2. q \notin 1 .. k
      BY <2>11, <2>12, <3>1
    <3> QED BY <2>8, <3>1, <3>2
  <2>13. \A i \in shown, j \in (1 .. m) \ shown : scores[i] >= scores[j]
    <3> SUFFICES ASSUME NEW i \in shown, NEW j \in (1 .. m) \ shown PROVE scores[i] >= scores[j]
      OBVIOUS
    <3>1. PICK p \in 1 .. k : i = sorted[p] /\ p \in 1 .. m
      BY <2>11
    <3>2. PICK q \in 1 .. m : j = sorted[q] /\ k < q
      BY <2>12
    <3>3. p < q
      BY <2>8, <3>1, <3>2
    <3> QED BY <2>3, <3>1, <3>2, <3>3
  <2>14. Cardinality(shown) = k
    <3>1. IsFiniteSet(1 .. k) /\ Cardinality(1 .. k) = k
      <4>1. Cardinality(1 .. k) = IF 1 > k THEN 0 ELSE k - 1 + 1
        BY <2>10, FS_Interval
      <4> QED BY <2>10, <4>1, FS_Interval
    <3>2. s \in [1 .. k -> shown] /\ \A x \in shown : \E i \in 1 .. k : s[i] = x
      BY <2>9, <2>10
    <3>3. \A i, j \in 1 .. k : s[i] = s[j] => i = j
      BY <2>3, <2>8, <2>9
    <3> HIDE DEF shown
    <3>4. s \in Surjection(1 .. k, shown) /\ s \in Injection(1 .. k, shown)
      BY <3>2, <3>3, Fun_IsInj DEF Surjection
    <3> QED BY <3>1, <3>4, FS_Surjection
  <2> HIDE DEF shown
  <2>15. Weight(scores, shown) <= record.score
    <3>1. shown \in SUBSET (1 .. m) /\ Weighted(scores, 1 .. m)
      BY <1>1, <2>11
    <3>2. Weight(scores, shown) <= Weight(scores, 1 .. m)
      BY ONLY <3>1, WeightPart
    <3> QED BY <1>1, <3>2
  <2>16. ASSUME k < TopLimit PROVE Weight(scores, shown) = record.score
    <3>1. ASSUME NEW j \in (1 .. m) \ shown PROVE scores[j] = 0
      <4>1. PICK q \in 1 .. m : j = sorted[q] /\ k < q
        BY <2>12
      <4>2. k + 1 \in 1 .. m /\ scores[sorted[k + 1]] = 0
        BY <2>8, <2>16, <4>1, GraphAssumption
      <4>3. scores[j] \in Nat
        BY <1>1 DEF Weighted
      <4>4. k + 1 = q \/ scores[sorted[k + 1]] >= scores[j]
        <5>1. k + 1 = q \/ k + 1 < q
          BY <2>8, <4>1
        <5> QED BY <2>3, <4>1, <4>2, <5>1
      <4> QED BY <4>1, <4>2, <4>3, <4>4
    <3> QED BY <1>1, <2>11, <3>1, WeightPart
  <2>17. Top(record, s)
    BY <1>1, <2>10, <2>11, <2>13, <2>14, <2>15, <2>16 DEF Top, shown
  <2> QED BY <2>10, <2>17
<1> QED BY <1>2, <1>3

-----------------------------------------------------------------------------
(* The tooltip was made from the best parts of its record.                 *)
BestShown ==
    tooltip # <<>> =>
        /\ tooltip[1].record \in DOMAIN graph
        /\ ScoresAddUp(graph[tooltip[1].record])
        /\ \E s \in TopParts(graph[tooltip[1].record]) :
              /\ DOMAIN tooltip[1].top = DOMAIN s
              /\ \A i \in DOMAIN s : tooltip[1].top[i].part = s[i]

LEMMA BestShownIsTop ==
    ASSUME BestShown
    PROVE  TopPartsShown
<1> SUFFICES ASSUME tooltip # <<>> PROVE TopPartsShown
  BY DEF TopPartsShown
<1> DEFINE record == graph[tooltip[1].record]
           top == tooltip[1].top
           shown == {top[i].part : i \in DOMAIN top}
<1>1. PICK s \in TopParts(record) : /\ DOMAIN top = DOMAIN s
                                    /\ \A i \in DOMAIN s : top[i].part = s[i]
  BY DEF BestShown
<1>2. ScoresAddUp(record)
  BY DEF BestShown
<1> SUFFICES
      LET rest == DOMAIN record.parts \ shown
      IN  /\ \A i \in shown, j \in rest : record.scores[i] >= record.scores[j]
          /\ Cardinality(shown) = Len(top)
          /\ IF Len(top) < TopLimit THEN Total(record.scores, shown) = record.score
             ELSE Total(record.scores, shown) <= record.score
  BY DEF TopPartsShown
<1> HIDE DEF record, top
<1>3. Top(record, s) /\ \E k \in Nat : DOMAIN s = 1 .. k /\ Len(s) = k
  BY <1>2, BestOnTop
<1>4. shown = {s[i] : i \in DOMAIN s}
  BY <1>1
<1>5. Len(top) = Len(s)
  BY <1>1, <1>3
<1>6. Total(record.scores, shown) = Weight(record.scores, shown)
  <2>1. PICK m \in Nat : DOMAIN record.parts = 1 .. m /\ Weighted(record.scores, 1 .. m)
    BY <1>2 DEF ScoresAddUp
  <2>2. shown \in SUBSET (1 .. m)
    BY <1>3, <1>4, <2>1 DEF Top
  <2> HIDE DEF shown
  <2>3. Weighted(record.scores, shown)
    BY <2>1, <2>2, FS_Subset DEF Weighted
  <2> QED BY <2>3, TotalIsWeight
<1> HIDE DEF shown
<1> QED BY <1>3, <1>4, <1>5, <1>6 DEF Top

(* Where the tooltip is moved to, there is a record.                       *)
LEMMA PointedInGraph ==
    ASSUME PagesInv, NEW x \in Positions, PointAt(x), Pointed(x) # 0
    PROVE  Pointed(x) \in DOMAIN graph
<1>1. graph = GraphData(subject, Fetched(answered)) /\ Fetched(answered) \in SUBSET Rows
  BY FetchedRows DEF PagesInv, PointAt, MouseMove, Plotted
<1>2. \E T : graph \in Seq(T)
  BY <1>1, GraphListing
<1>3. graph # <<>>
  <2>1. Len(<<>>) = 0
    OBVIOUS
  <2> QED BY <2>1 DEF Pointed
<1>4. Sorted(graph) /\ DOMAIN graph = 1 .. Len(graph) /\ Len(graph) # 0
  BY <1>1, <1>2, <1>3, GraphSorted
<1> QED BY <1>3, <1>4, PointedNearest, GraphAssumption

LEMMA BestShownNext == PagesInv /\ TooltipInv /\ BestShown /\ [SiteNext]_allVars => BestShown'
<1> SUFFICES ASSUME PagesInv, TooltipInv, BestShown, [SiteNext]_allVars PROVE BestShown'
  OBVIOUS
<1>1. CASE UNCHANGED <<graph, tooltip>>
  BY <1>1 DEF BestShown
<1>2. ASSUME NEW r \in Rows, InsertRow(r) PROVE BestShown'
  BY <1>1, <1>2 DEF InsertRow, Insert, graphVars, tooltipVars
<1>3. CASE OpenFlowHistory
  BY <1>3 DEF OpenFlowHistory, LeaveGraph, BestShown
<1>4. ASSUME NEW d \in JobDefinitions, OpenJobHistory(d) PROVE BestShown'
  BY <1>4 DEF OpenJobHistory, LeaveGraph, BestShown
<1>5. CASE GraphArrives
  BY <1>5 DEF GraphArrives, GraphLoaded, tooltipVars, TooltipInv, BestShown
<1>6. ASSUME NEW x \in Positions, PointAt(x) PROVE BestShown'
  <2>1. graph' = graph /\ loaded
    BY <1>6 DEF PointAt, MouseMove, Plotted, vars, graphVars
  <2>2. CASE Pointed(x) = 0
    <3>1. tooltip' = tooltip
      BY <1>6, <2>2 DEF PointAt, MouseMove
    <3> QED BY <1>1, <2>1, <3>1
  <2>3. CASE Pointed(x) # 0
    <3> DEFINE record == graph[Pointed(x)]
    <3>1. PICK s \in TopParts(record) : \E top :
             /\ tooltip' = <<[record |-> Pointed(x), top |-> top]>>
             /\ DOMAIN top = DOMAIN s
             /\ \A i \in DOMAIN s : top[i].part = s[i]
      <4>1. PICK top \in IF subject = "flow" THEN FlowTooltipContent(record)
                         ELSE JobTooltipContent(record) :
                tooltip' = <<[record |-> Pointed(x), top |-> top]>>
        BY <1>6, <2>3 DEF PointAt, MouseMove
      <4>2. \E s \in TopParts(record) : /\ DOMAIN top = DOMAIN s
                                        /\ \A i \in DOMAIN s : top[i].part = s[i]
        BY DEF FlowTooltipContent, JobTooltipContent
      <4> QED BY <4>1, <4>2
    <3>2. /\ graph = GraphData(subject, Fetched(answered))
          /\ Fetched(answered) \in SUBSET Rows
      BY <2>1, FetchedRows DEF PagesInv
    <3>3. Pointed(x) \in DOMAIN graph
      BY <1>6, <2>3, PointedInGraph
    <3>4. ScoresAddUp(record)
      <4> DEFINE F == Fetched(answered)
                 size == Len(Shown(F))
      <4> HIDE DEF F, record
      <4>1. PICK e : record = Dataset(subject, F, e)
        <5>1. graph = GraphData(subject, F) /\ F \in SUBSET Rows
          BY <3>2 DEF F
        <5>2. /\ DOMAIN graph = 1 .. size
              /\ \A i \in 1 .. size : graph[i] = Dataset(subject, F, Shown(F)[size + 1 - i])
          BY <5>1, GraphListing
        <5>3. record = Dataset(subject, F, Shown(F)[size + 1 - Pointed(x)])
          BY <3>3, <5>2 DEF record
        <5> QED BY <5>3
      <4> QED BY <3>2, <4>1, DatasetAddsUp DEF F
    <3>5. PICK top : /\ tooltip' = <<[record |-> Pointed(x), top |-> top]>>
                     /\ DOMAIN top = DOMAIN s
                     /\ \A i \in DOMAIN s : top[i].part = s[i]
      BY <3>1
    <3>6. tooltip'[1].record = Pointed(x) /\ tooltip'[1].top = top
      BY <3>5
    <3> QED BY <2>1, <3>1, <3>3, <3>4, <3>5, <3>6 DEF BestShown
  <2> QED BY <2>2, <2>3
<1>7. ASSUME NEW e, NEW f, Compare(e, f) PROVE BestShown'
  BY <1>7 DEF Compare, Leave, LeaveGraph, BestShown
<1>8. CASE Compared
  BY <1>1, <1>8 DEF Compared, graphVars, tooltipVars
<1>9. CASE UNCHANGED allVars
  BY <1>1, <1>9 DEF allVars, siteVars, vars, graphVars, tooltipVars
<1> QED BY <1>2, <1>3, <1>4, <1>5, <1>6, <1>7, <1>8, <1>9 DEF SiteNext

(* The tooltip has the parts with the largest scores, and as long as the   *)
(* limit cuts none off, these account for the whole score, for all rows    *)
(* and scores.                                                             *)
THEOREM BestPartsAreShown == SiteSpec => []TopPartsShown
<1>1. SiteInit => PagesInv /\ TooltipInv /\ BestShown
  BY PagesInvInit DEF SiteInit, GraphInit, Init, TooltipInv, NearestShown, BestShown
<1>2. PagesInv /\ TooltipInv /\ BestShown /\ [SiteNext]_allVars
         => (PagesInv /\ TooltipInv /\ BestShown)'
  BY PagesInvNext, TooltipInvNext, BestShownNext
<1> QED BY <1>1, <1>2, BestShownIsTop, PTL DEF SiteSpec

-----------------------------------------------------------------------------
(* The comparison: the rows of an execution, and that none are cut off.    *)
Of(S, n) == Comparison!RowsOf(S, compared[n])
Fits(n) == Cardinality(Of(table, n)) <= FetchLimit

ComparisonInv ==
    /\ table \subseteq Rows
    /\ compared = <<>> => comparison = <<>>
    /\ compared # <<>> =>
          /\ compared = <<compared[1], compared[2]>>
          /\ known \subseteq Of(table, 1) \cup Of(table, 2)
          /\ Fits(1) => Of(known, 1) \subseteq first /\ first \subseteq Of(table, 1)
          /\ comparison # <<>> /\ Fits(2) =>
                \E results2 \in SUBSET Of(table, 2) :
                    /\ Of(known, 2) \subseteq results2
                    /\ comparison[1] \in Comparison!Comparisons(compared[1], compared[2],
                                                                first, results2)

(* A query that does not hit the limit has all rows.                       *)
LEMMA AllFetched ==
    ASSUME NEW S, Cardinality(S) <= FetchLimit, NEW results \in Comparison!Fetchable(S)
    PROVE  results = S
BY DEF Comparison!Fetchable, Comparison!Cardinality, Cardinality

(* A TreeSet of definitions that differ in more than case has all of them. *)
LEMMA WholeTree ==
    ASSUME NEW D, NEW G \in Comparison!TreeSets(D),
           \A c, d \in D : WithoutCase[c] = WithoutCase[d] => c = d
    PROVE  G = D
<1>1. G \subseteq D
  BY DEF Comparison!TreeSets
<1>2. ASSUME NEW d \in D PROVE d \in G
  <2>1. PICK g \in G : {x \in G : WithoutCase[x] = WithoutCase[d]} = {g}
    BY DEF Comparison!TreeSets
  <2>2. WithoutCase[g] = WithoutCase[d]
    BY <2>1
  <2> QED BY <1>1, <2>2
<1> QED BY <1>1, <1>2

(* A row that is inserted only adds to the table.                          *)
LEMMA InsertKeepsComparison ==
    ASSUME ComparisonInv, NEW r \in Rows, InsertRow(r)
    PROVE  ComparisonInv'
<1>1. /\ table' = table \cup {r}
      /\ compared' = compared /\ known' = known /\ first' = first /\ comparison' = comparison
  BY DEF InsertRow, Insert, comparisonVars
<1>2. ASSUME NEW n PROVE /\ Of(table, n) \subseteq Of(table, n)'
                         /\ Of(known, n)' = Of(known, n)
                         /\ Fits(n)' => Fits(n)
  <2>1. Of(table, n) \subseteq Of(table, n)' /\ Of(known, n)' = Of(known, n)
    BY <1>1 DEF Of, Comparison!RowsOf
  <2>2. Of(table, n)' \subseteq Rows
    BY <1>1 DEF Of, Comparison!RowsOf, ComparisonInv
  <2>3. IsFiniteSet(Of(table, n)')
    BY <2>2, HistoryAssumption, FS_Subset
  <2>4. /\ Cardinality(Of(table, n)) <= Cardinality(Of(table, n)')
        /\ Cardinality(Of(table, n)) \in Nat /\ Cardinality(Of(table, n)') \in Nat
    BY <2>1, <2>3, FS_Subset, FS_CardinalityType
  <2>5. FetchLimit \in Nat
    BY SiteAssumption DEF Comparison!ComparisonAssumption
  <2> QED BY <2>1, <2>4, <2>5 DEF Fits
<1>3. table' \subseteq Rows
  BY <1>1 DEF ComparisonInv
<1>4. ASSUME compared # <<>>, comparison # <<>>, Fits(2)'
      PROVE  \E results2 \in SUBSET Of(table, 2)' :
                /\ Of(known, 2)' \subseteq results2
                /\ comparison[1] \in Comparison!Comparisons(compared[1], compared[2],
                                                            first, results2)
  <2>1. PICK results2 \in SUBSET Of(table, 2) :
                /\ Of(known, 2) \subseteq results2
                /\ comparison[1] \in Comparison!Comparisons(compared[1], compared[2],
                                                            first, results2)
    BY <1>2, <1>4 DEF ComparisonInv
  <2> QED BY <1>2, <2>1
<1>5. ASSUME compared # <<>>
      PROVE  /\ known \subseteq Of(table, 1)' \cup Of(table, 2)'
             /\ Fits(1)' => Of(known, 1)' \subseteq first /\ first \subseteq Of(table, 1)'
  BY <1>2, <1>5 DEF ComparisonInv
<1>6. /\ compared' = <<>> => comparison' = <<>>
      /\ compared' # <<>> => compared' = <<compared'[1], compared'[2]>>
  BY <1>1 DEF ComparisonInv
<1>7. ASSUME compared' # <<>>
      PROVE  /\ known' \subseteq Of(table, 1)' \cup Of(table, 2)'
             /\ Fits(1)' => Of(known, 1)' \subseteq first' /\ first' \subseteq Of(table, 1)'
  BY <1>1, <1>5, <1>7
<1>8. ASSUME compared' # <<>>, comparison' # <<>>, Fits(2)'
      PROVE  \E results2 \in SUBSET Of(table, 2)' :
                /\ Of(known, 2)' \subseteq results2
                /\ comparison'[1] \in Comparison!Comparisons(compared'[1], compared'[2],
                                                             first', results2)
  BY <1>1, <1>4, <1>8
<1> QED BY <1>3, <1>6, <1>7, <1>8 DEF ComparisonInv

(* The first query takes what there is.                                    *)
LEMMA FirstKeepsComparison ==
    ASSUME ComparisonInv, NEW e, NEW f, Compare(e, f)
    PROVE  ComparisonInv'
<1>1. /\ table' = table /\ compared' = <<e, f>> /\ comparison' = <<>>
      /\ known' = Comparison!RowsOf(table, e) \cup Comparison!RowsOf(table, f)
      /\ first' \in Comparison!Fetchable(Comparison!RowsOf(table, e))
  BY DEF Compare, Comparison!CompareFirst
<1>2. /\ Of(table, 1)' = Comparison!RowsOf(table, e)
      /\ Of(table, 2)' = Comparison!RowsOf(table, f)
  BY <1>1 DEF Of
<1>3. Of(known, 1)' \subseteq Comparison!RowsOf(table, e)
  BY <1>1 DEF Of, Comparison!RowsOf
<1>4. Fits(1)' => first' = Comparison!RowsOf(table, e)
  BY <1>1, <1>2, AllFetched DEF Fits
<1>5. table' \subseteq Rows
  BY <1>1 DEF ComparisonInv
<1> QED BY <1>1, <1>2, <1>3, <1>4, <1>5 DEF ComparisonInv

(* The second query takes what there is by then.                           *)
LEMMA SecondKeepsComparison ==
    ASSUME ComparisonInv, Compared
    PROVE  ComparisonInv'
<1>1. /\ compared # <<>>
      /\ table' = table /\ compared' = compared /\ known' = known /\ first' = first
  BY DEF Compared, Comparison!CompareSecond
<1>2. PICK results2 \in Comparison!Fetchable(Of(table, 2)) :
         \E answer \in Comparison!Comparisons(compared[1], compared[2], first, results2) :
             comparison' = <<answer>>
  BY DEF Compared, Comparison!CompareSecond, Of
<1>3. comparison'[1] \in Comparison!Comparisons(compared[1], compared[2], first, results2)
  BY <1>2
<1>4. \A n : /\ Of(table, n)' = Of(table, n) /\ Of(known, n)' = Of(known, n)
             /\ Fits(n)' = Fits(n)
  BY <1>1 DEF Of, Fits
<1>5. Fits(2) => results2 = Of(table, 2)
  BY <1>2, AllFetched DEF Fits
<1>6. Of(known, 2) \subseteq Of(table, 2)
  BY <1>1 DEF ComparisonInv, Of, Comparison!RowsOf
<1>7. Fits(2)' => /\ results2 \in SUBSET Of(table, 2)' /\ Of(known, 2)' \subseteq results2
                  /\ comparison'[1] \in
                        Comparison!Comparisons(compared'[1], compared'[2], first', results2)
  BY <1>1, <1>3, <1>4, <1>5, <1>6
<1>8. /\ table' \subseteq Rows
      /\ compared' = <<compared'[1], compared'[2]>>
      /\ known' \subseteq Of(table, 1)' \cup Of(table, 2)'
      /\ Fits(1)' => Of(known, 1)' \subseteq first' /\ first' \subseteq Of(table, 1)'
  BY <1>1, <1>4 DEF ComparisonInv
<1> QED BY <1>1, <1>7, <1>8 DEF ComparisonInv

LEMMA ComparisonInvNext == ComparisonInv /\ [SiteNext]_allVars => ComparisonInv'
<1> SUFFICES ASSUME ComparisonInv, [SiteNext]_allVars PROVE ComparisonInv'
  OBVIOUS
<1>1. CASE UNCHANGED <<table, comparisonVars>>
  BY <1>1 DEF ComparisonInv, comparisonVars, Of, Fits
<1>2. CASE table' = table /\ Comparison!LeaveComparison
  BY <1>2 DEF ComparisonInv, Comparison!LeaveComparison
<1>3. CASE OpenFlowHistory
  BY <1>2, <1>3 DEF OpenFlowHistory, FlowHistory, Load
<1>4. ASSUME NEW d \in JobDefinitions, OpenJobHistory(d) PROVE ComparisonInv'
  BY <1>2, <1>4 DEF OpenJobHistory, JobHistory, Load
<1>5. CASE GraphArrives
  BY <1>1, <1>5 DEF GraphArrives, GraphLoaded
<1>6. ASSUME NEW x \in Positions, PointAt(x) PROVE ComparisonInv'
  BY <1>1, <1>6 DEF PointAt, MouseMove, vars
<1>7. CASE UNCHANGED allVars
  BY <1>1, <1>7 DEF allVars, siteVars, vars
<1> QED
  BY <1>3, <1>4, <1>5, <1>6, <1>7, InsertKeepsComparison, FirstKeepsComparison,
     SecondKeepsComparison DEF SiteNext

LEMMA ComparisonInvInit == SiteInit => ComparisonInv
BY DEF SiteInit, GraphInit, Init, Comparison!Init, ComparisonInv

(* Jobs that their case tells apart, and jobs of one execution.            *)
Apart(S) ==
    \A r, s \in S : WithoutCase[JobDefinition[r]] = WithoutCase[JobDefinition[s]]
                       => JobDefinition[r] = JobDefinition[s]

AllOf(S, e) == \A r \in S : Execution[r] = e

(* The row is in the answer once, under its definition and its execution.  *)
Placed(r, answer, e, f) ==
    /\ JobDefinition[r] \in DOMAIN answer
    /\ \A d \in DOMAIN answer :
          /\ DOMAIN answer[d] = {e, f}
          /\ \A x \in {e, f} :
                r \in answer[d][x] <=> d = JobDefinition[r] /\ x = Execution[r]

(* Every job of the two queries is once in what compareFlows makes of them,*)
(* if its flow and its case tell it apart.                                 *)
LEMMA EveryJobPlaced ==
    ASSUME NEW e, NEW f, NEW results1, NEW results2, results1 # {}, results2 # {},
           AllOf(results1, e), AllOf(results2, f), Apart(results1 \cup results2),
           NEW answer \in Comparison!Comparisons(e, f, results1, results2),
           NEW r \in results1 \cup results2,
           Execution[r] = f => r \in results2
    PROVE  Placed(r, answer, e, f)
<1> DEFINE D(results) == {JobDefinition[s] : s \in results}
<1>1. PICK group1 \in Comparison!Groups(results1), group2 \in Comparison!Groups(results2) :
         answer = Comparison!ByDefinition(Comparison!UnionOfGroups(group1, group2),
                                          e, f, results1, results2)
  BY DEF Comparison!Comparisons
<1>2. \A c, d \in D(results1) : WithoutCase[c] = WithoutCase[d] => c = d
  BY DEF Apart
<1>3. \A c, d \in D(results2) : WithoutCase[c] = WithoutCase[d] => c = d
  BY DEF Apart
<1>4. group1 = D(results1) /\ group2 = D(results2)
  BY <1>2, <1>3, WholeTree DEF Comparison!Groups
<1>5. JobDefinition[r] \in Comparison!UnionOfGroups(group1, group2)
  BY <1>4 DEF Comparison!UnionOfGroups, Comparison!Without, Apart
<1>6. \A d \in DOMAIN answer : \A x \in {e, f} :
         r \in answer[d][x] <=> r \in (IF x = f THEN results2 ELSE results1) /\ d = JobDefinition[r]
  BY <1>1 DEF Comparison!ByDefinition, Comparison!Defined
<1>7. \A x \in {e, f} : r \in (IF x = f THEN results2 ELSE results1) <=> x = Execution[r]
  BY DEF AllOf
<1>8. /\ DOMAIN answer = Comparison!UnionOfGroups(group1, group2)
      /\ \A d \in DOMAIN answer : DOMAIN answer[d] = {e, f}
  BY <1>1 DEF Comparison!ByDefinition
<1> QED BY <1>5, <1>6, <1>7, <1>8 DEF Placed

LEMMA PlacedAsSaid ==
    ASSUME ComparisonInv
    PROVE  ComparisonComplete
<1> SUFFICES
      ASSUME comparison # <<>>,
             \A i \in {1, 2} : Comparison!RowsOf(known, compared[i]) # {},
             Comparison!Within(Comparison!RowsOf(table, compared[1])
                                  \cup Comparison!RowsOf(table, compared[2])),
             NEW r \in known
      PROVE  LET own == {<<JobDefinition[r], Execution[r]>>}
             IN  /\ Comparison!PlacesOf(r, comparison[1]) = own
                 /\ Execution[r] = compared[2] =>
                       Comparison!PlacesOf(r, Comparison!RestAnswer(comparison[1])) = own
  BY DEF ComparisonComplete, Comparison!ComparisonComplete
<1> DEFINE answer == comparison[1]
           S == Of(table, 1) \cup Of(table, 2)
<1>1. compared # <<>> /\ known \subseteq S
  BY DEF ComparisonInv
<1>2. Of(known, 1) # {} /\ Of(known, 2) # {}
  BY DEF Of
<1>3. known \subseteq table
  BY <1>1 DEF Of, Comparison!RowsOf
<1>4. ASSUME NEW n \in {1, 2} PROVE Fits(n)
  <2>1. compared[n] \in {Execution[s] : s \in S}
    BY <1>2, <1>3, <1>4 DEF Of, Comparison!RowsOf
  <2>2. Comparison!RowsOf(S, compared[n]) = Of(table, n)
    BY <1>4 DEF Of, Comparison!RowsOf
  <2>3. Cardinality(Comparison!RowsOf(S, compared[n])) <= FetchLimit
    BY <2>1 DEF Comparison!Within, Comparison!Cardinality, Cardinality, Of
  <2> QED BY <2>2, <2>3 DEF Fits
<1>5. Of(known, 1) \subseteq first /\ first \subseteq Of(table, 1)
  BY <1>1, <1>4 DEF ComparisonInv
<1>6. PICK results2 \in SUBSET Of(table, 2) :
         /\ Of(known, 2) \subseteq results2
         /\ answer \in Comparison!Comparisons(compared[1], compared[2], first, results2)
  BY <1>1, <1>4 DEF ComparisonInv
<1>7. Apart(S)
  BY DEF Comparison!Within, Of, Apart
<1>8. AllOf(first, compared[1]) /\ AllOf(results2, compared[2])
  BY <1>5, <1>6 DEF Of, Comparison!RowsOf, AllOf
<1>9. /\ Execution[r] \in {compared[1], compared[2]}
      /\ Execution[r] = compared[2] => r \in results2
      /\ r \in first \cup results2
  BY <1>1, <1>5, <1>6 DEF Of, Comparison!RowsOf
<1>10. Placed(r, answer, compared[1], compared[2])
  <2>1. first # {} /\ results2 # {}
    BY <1>2, <1>5, <1>6
  <2>2. Apart(first \cup results2)
    BY <1>5, <1>6, <1>7 DEF Apart
  <2> HIDE DEF answer, S
  <2> QED BY <1>6, <1>8, <1>9, <2>1, <2>2, EveryJobPlaced
<1> HIDE DEF answer, S
<1>11. Comparison!PlacesOf(r, answer) = {<<JobDefinition[r], Execution[r]>>}
  BY <1>9, <1>10 DEF Comparison!PlacesOf, Placed
<1>12. ASSUME Execution[r] = compared[2]
       PROVE  Comparison!PlacesOf(r, Comparison!RestAnswer(answer)) =
                 {<<JobDefinition[r], Execution[r]>>}
  <2> DEFINE rest == Comparison!RestAnswer(answer)
  <2>1. /\ DOMAIN rest = DOMAIN answer
        /\ \A d \in DOMAIN rest : /\ DOMAIN rest[d] = {compared[2]}
                                  /\ rest[d][compared[2]] = answer[d][compared[2]]
    BY DEF Comparison!RestAnswer, Comparison!Restrict
  <2> SUFFICES Comparison!PlacesOf(r, rest) = {<<JobDefinition[r], Execution[r]>>}
    OBVIOUS
  <2> HIDE DEF rest
  <2> QED BY <1>10, <1>12, <2>1 DEF Comparison!PlacesOf, Placed
<1> QED BY <1>11, <1>12 DEF answer

(* A comparison has every job that both queries could see in its place,    *)
(* for all rows, executions and limits.                                    *)
THEOREM ComparisonIsComplete == SiteSpec => []ComparisonComplete
BY ComparisonInvInit, ComparisonInvNext, PlacedAsSaid, PTL DEF SiteSpec

-----------------------------------------------------------------------------
(* No record has more parts than there are rows.                           *)
LEMMA FewParts ==
    ASSUME NEW F \in SUBSET Rows, NEW e, NEW d
    PROVE  /\ Cardinality(Rows) \in Nat
           /\ \E m \in 0 .. Cardinality(Rows) :
                 /\ DOMAIN Dataset(d, F, e).parts = 1 .. m
                 /\ d = "flow" => Dataset(d, F, e).parts \in [1 .. m -> JobDefinitions]
<1> DEFINE jobs == JobsOf(F, e)
           D == PartsOf(d, jobs)
           parts == Dataset(d, F, e).parts
<1>1. /\ jobs \subseteq Rows /\ IsFiniteSet(jobs) /\ Cardinality(jobs) <= Cardinality(Rows)
      /\ Cardinality(Rows) \in Nat /\ Cardinality(jobs) \in Nat
  <2>1. jobs \in SUBSET Rows
    BY DEF JobsOf
  <2> HIDE DEF jobs
  <2> QED BY <2>1, HistoryConstants, FS_Subset, FS_CardinalityType
<1>2. IsFiniteSet(D) /\ Cardinality(D) <= Cardinality(jobs) /\ Cardinality(D) \in Nat
  <2> HIDE DEF jobs
  <2>1. /\ IsFiniteSet({JobDefinition[r] : r \in jobs})
        /\ Cardinality({JobDefinition[r] : r \in jobs}) <= Cardinality(jobs)
    BY <1>1, ImageFinite
  <2>2. IsFiniteSet(D) /\ Cardinality(D) <= Cardinality(jobs)
    BY <1>1, <2>1 DEF PartsOf
  <2> HIDE DEF D
  <2> QED BY <2>2, FS_CardinalityType
<1>3. ListingOf(parts, D)
  BY PartsListed
<1>4. d = "flow" => D \subseteq JobDefinitions
  BY <1>1 DEF PartsOf, JobDefinitions
<1> HIDE DEF D, parts, jobs
<1>5. PICK m \in Nat : /\ parts \in [1 .. m -> D]
                       /\ \A i, j \in 1 .. m : parts[i] = parts[j] => i = j
  BY <1>3 DEF ListingOf
<1>6. m <= Cardinality(D)
  <2>1. parts \in Injection(1 .. m, D)
    BY <1>5, Fun_IsInj
  <2>2. Cardinality(1 .. m) <= Cardinality(D)
    BY <1>2, <2>1, FS_Injection
  <2>3. Cardinality(1 .. m) = IF 1 > m THEN 0 ELSE m - 1 + 1
    BY FS_Interval
  <2> QED BY <1>2, <2>2, <2>3
<1>7. m \in 0 .. Cardinality(Rows)
  BY <1>1, <1>2, <1>6
<1>8. DOMAIN parts = 1 .. m /\ (d = "flow" => parts \in [1 .. m -> JobDefinitions])
  BY <1>4, <1>5
<1> QED BY <1>1, <1>7, <1>8 DEF parts

(* Every part of the graph of a flow has a number.                         *)
LEMMA EveryPartNumbered ==
    ASSUME NEW F \in SUBSET Rows, graph = GraphData("flow", F),
           NEW i \in DOMAIN graph, NEW j \in DOMAIN graph[i].parts
    PROVE  \E n \in DOMAIN JobNumbers : n \in Nat \ {0} /\ JobNumbers[n] = graph[i].parts[j]
<1> DEFINE latest == Reverse(graph)
           size == Len(graph)
           K == Cardinality(Rows)
           D == UNION {{latest[h].parts[k] : k \in DOMAIN latest[h].parts} : h \in DOMAIN latest}
           pairs(d) == {q \in (1 .. Len(latest)) \X (1 .. K) :
                           /\ q[2] \in DOMAIN latest[q[1]].parts
                           /\ latest[q[1]].parts[q[2]] = d}
           places(d) == {p[1] * (K + 1) + p[2] : p \in pairs(d)}
           least == [d \in D |-> Min(places(d))]
<1>1. size \in Nat /\ DOMAIN graph = 1 .. size
  BY GraphListing
<1>2. \A h \in 1 .. size : \E m \in 0 .. K : /\ DOMAIN graph[h].parts = 1 .. m
                                             /\ graph[h].parts \in [1 .. m -> JobDefinitions]
  <2> SUFFICES ASSUME NEW h \in 1 .. size
               PROVE  \E m \in 0 .. K : /\ DOMAIN graph[h].parts = 1 .. m
                                        /\ graph[h].parts \in [1 .. m -> JobDefinitions]
    OBVIOUS
  <2> DEFINE e == Shown(F)[size + 1 - h]
  <2>1. graph[h] = Dataset("flow", F, e)
    <3>1. /\ Len(graph) = Len(Shown(F))
          /\ \A k \in 1 .. Len(Shown(F)) :
                graph[k] = Dataset("flow", F, Shown(F)[Len(Shown(F)) + 1 - k])
      BY GraphListing
    <3> QED BY <3>1
  <2> HIDE DEF e
  <2> QED BY <2>1, FewParts
<1>3. K \in Nat
  BY FewParts
<1>4. latest = [h \in 1 .. size |-> graph[(size - h) + 1]]
  BY <1>1 DEF Reverse
<1>5. Len(latest) = size /\ DOMAIN latest = 1 .. size
  BY <1>1, <1>4
<1>6. ASSUME NEW h \in 1 .. size
      PROVE  (size - h) + 1 \in 1 .. size /\ latest[h] = graph[(size - h) + 1]
  BY <1>1, <1>4
<1> HIDE DEF latest, size, K
<1>7. ASSUME NEW h \in 1 .. size
      PROVE  \E m \in 0 .. K : /\ DOMAIN latest[h].parts = 1 .. m
                               /\ latest[h].parts \in [1 .. m -> JobDefinitions]
  BY <1>2, <1>6
<1>8. D \subseteq JobDefinitions /\ IsFiniteSet(D)
  <2>1. D \subseteq JobDefinitions
    <3> SUFFICES ASSUME NEW h \in 1 .. size, NEW k \in DOMAIN latest[h].parts
                 PROVE  latest[h].parts[k] \in JobDefinitions
      BY <1>5
    <3> QED BY <1>7
  <2>2. IsFiniteSet(JobDefinitions)
    BY HistoryConstants, ImageFinite DEF JobDefinitions
  <2> HIDE DEF D
  <2> QED BY <2>1, <2>2, FS_Subset
<1>9. ASSUME NEW d \in D
      PROVE  /\ places(d) \in SUBSET Nat /\ IsFiniteSet(places(d)) /\ places(d) # {}
             /\ \A n \in places(d) :
                   \E p \in pairs(d) : n = p[1] * (K + 1) + p[2]
  <2>1. pairs(d) \subseteq (1 .. size) \X (1 .. K)
    BY <1>5
  <2>2. IsFiniteSet((1 .. size) \X (1 .. K))
    <3>1. IsFiniteSet(1 .. size)
      BY <1>1, FS_Interval
    <3>2. IsFiniteSet(1 .. K)
      BY <1>3, FS_Interval
    <3> QED BY <3>1, <3>2, FS_Product
  <2>3. IsFiniteSet(pairs(d))
    <3> HIDE DEF pairs
    <3> QED BY <2>1, <2>2, FS_Subset
  <2>4. \E p \in pairs(d) : TRUE
    <3>1. PICK h \in 1 .. size : \E k \in DOMAIN latest[h].parts : latest[h].parts[k] = d
      BY <1>5
    <3>2. PICK k \in DOMAIN latest[h].parts : latest[h].parts[k] = d
      BY <3>1
    <3>3. k \in 1 .. K
      BY <1>3, <1>7
    <3>4. <<h, k>> \in pairs(d)
      BY <1>5, <3>2, <3>3
    <3> QED BY <3>4
  <2>5. ASSUME NEW p \in pairs(d) PROVE p[1] * (K + 1) + p[2] \in Nat
    <3>1. p[1] \in Nat /\ p[2] \in Nat
      BY <1>1, <1>3, <2>1
    <3> HIDE DEF pairs
    <3> QED BY <1>3, <3>1
  <2>6. IsFiniteSet(places(d))
    <3> DEFINE code == [p \in pairs(d) |-> p[1] * (K + 1) + p[2]]
    <3> HIDE DEF pairs
    <3>1. {code[p] : p \in pairs(d)} = places(d)
      OBVIOUS
    <3> HIDE DEF code, places
    <3>2. IsFiniteSet({code[p] : p \in pairs(d)})
      BY <2>3, ImageFinite
    <3> QED BY <3>1, <3>2
  <2> HIDE DEF pairs
  <2> QED BY <2>4, <2>5, <2>6
<1>10. ASSUME NEW d \in D PROVE least[d] \in Nat /\ least[d] \in places(d)
  <2>1. Min(places(d)) \in places(d)
    <3> DEFINE P == places(d)
    <3>1. P \in SUBSET Nat /\ IsFiniteSet(P) /\ P # {}
      BY <1>9
    <3> HIDE DEF P
    <3>2. Min(P) \in P
      BY <3>1, Extremes
    <3> QED BY <3>2 DEF P
  <2>2. least[d] = Min(places(d))
    OBVIOUS
  <2> HIDE DEF places, least
  <2> QED BY <1>9, <2>1, <2>2
<1>11. ASSUME NEW c \in D, NEW d \in D, least[c] = least[d] PROVE c = d
  <2> HIDE DEF D, least
  <2>1. PICK p \in pairs(c) : least[c] = p[1] * (K + 1) + p[2]
    <3> HIDE DEF pairs, places
    <3> QED BY <1>9, <1>10
  <2>2. PICK q \in pairs(d) : least[d] = q[1] * (K + 1) + q[2]
    <3> HIDE DEF pairs, places
    <3> QED BY <1>9, <1>10
  <2>3. /\ p[1] \in Nat /\ q[1] \in Nat /\ p[2] \in 1 .. K /\ q[2] \in 1 .. K
        /\ p[2] \in Nat /\ q[2] \in Nat
    BY <1>1, <1>3, <1>5
  <2>4. p[1] = q[1] /\ p[2] = q[2]
    <3> HIDE DEF pairs, places
    <3>1. PICK a \in Nat, b \in Nat, k \in 1 .. K, l \in 1 .. K :
             a = p[1] /\ b = q[1] /\ k = p[2] /\ l = q[2]
      BY <2>3
    <3>2. k \in Nat /\ l \in Nat
      BY <2>3, <3>1
    <3>3. a * (K + 1) + k = b * (K + 1) + l
      BY <1>11, <2>1, <2>2, <3>1
    <3>4. a = b /\ k = l
      BY ONLY <1>3, <3>2, <3>3, a \in Nat, b \in Nat, k \in 1 .. K, l \in 1 .. K, PairOfPlaces
    <3> QED BY <3>1, <3>4
  <2> QED BY <2>4
<1>12. JobNumbers = InOrder(least)
  BY DEF JobNumbers, latest, K
<1>13. ListingOf(JobNumbers, D)
  <2>1. DOMAIN least = D /\ least = [d \in D |-> least[d]]
    OBVIOUS
  <2> HIDE DEF least, D
  <2>2. Numbering(least)
    BY <1>8, <1>10, <1>11, <2>1 DEF Numbering
  <2> QED BY <1>12, <2>1, <2>2, InOrderOnce
<1>14. graph[i].parts[j] \in D
  <2> DEFINE h == (size - i) + 1
  <2>1. h \in 1 .. size /\ (size - h) + 1 = i
    BY <1>1
  <2>2. latest[h] = graph[i]
    BY <1>6, <2>1
  <2> QED BY <1>5, <2>1, <2>2
<1> HIDE DEF D
<1>15. PICK m \in Nat : /\ JobNumbers \in [1 .. m -> D]
                        /\ \A x \in D : \E n \in 1 .. m : JobNumbers[n] = x
  BY <1>13 DEF ListingOf
<1>16. PICK n \in 1 .. m : JobNumbers[n] = graph[i].parts[j]
  BY <1>14, <1>15
<1> QED BY <1>15, <1>16

-----------------------------------------------------------------------------
(* The types of what the pages keep.                                       *)
LEMMA SubjectsApart ==
    /\ "flow" \notin JobDefinitions /\ "none" \notin JobDefinitions
BY HistoryAssumption

(* A page lists executions of the rows it was made from.                   *)
LEMMA LoadKeepsType ==
    ASSUME table \subseteq Rows, NEW d \in {"flow"} \cup JobDefinitions, Load(d),
           d = "flow" => columns' \in Seq(JobDefinitions),
           d # "flow" => columns' \in Seq(1 .. StageLimit)
    PROVE  TypeOK'
<1>1. /\ table' = table /\ subject' = d /\ asked' = About(d) /\ answered' = {}
      /\ listed' = Shown(Fetched(About(d))) /\ loaded' = FALSE /\ graph' = <<>>
  BY DEF Load
<1>2. About(d) \in SUBSET Rows
  BY AboutRows
<1>3. listed' \in Seq(Executions(About(d)))
  <2> DEFINE S == About(d)
             F == Fetched(S)
  <2>1. F \in SUBSET Rows
    BY <1>2, FetchedRows
  <2>2. Shown(F) \in Seq(Executions(F))
    BY <2>1, ShownListing
  <2>3. Executions(F) \subseteq Executions(S)
    BY <1>2, FetchedTimes
  <2> HIDE DEF F, S
  <2>4. Shown(F) \in Seq(Executions(S))
    BY <2>2, <2>3
  <2> QED BY <1>1, <2>4 DEF F, S
<1>4. Executions(asked)' = Executions(About(d))
  BY <1>1 DEF Executions
<1>5. \A i \in DOMAIN graph' : graph'[i].time \in Nat
  BY <1>1
<1> QED BY <1>1, <1>2, <1>3, <1>4, <1>5, SubjectsApart DEF TypeOK

LEMMA FlowHistoryType ==
    ASSUME table \subseteq Rows, FlowHistory
    PROVE  TypeOK'
<1> DEFINE D == {JobDefinition[r] : r \in ShownRows(Fetched(table))}
<1>1. Load("flow") /\ columns' \in [1 .. Cardinality(D) -> D]
  BY DEF FlowHistory
<1>2. D \subseteq JobDefinitions
  BY FetchedRows DEF ShownRows, JobDefinitions
<1>3. IsFiniteSet(JobDefinitions)
  BY HistoryConstants, ImageFinite DEF JobDefinitions
<1> HIDE DEF D
<1>4. Cardinality(D) \in Nat
  BY <1>2, <1>3, FS_Subset, FS_CardinalityType
<1>5. columns' \in Seq(JobDefinitions)
  <2>1. columns' \in [1 .. Cardinality(D) -> JobDefinitions]
    BY <1>1, <1>2
  <2> QED BY <1>4, <2>1
<1> QED BY <1>1, <1>5, LoadKeepsType

LEMMA JobHistoryType ==
    ASSUME table \subseteq Rows, NEW d \in JobDefinitions, JobHistory(d)
    PROVE  TypeOK'
<1> DEFINE F == Fetched(About(d))
           E == Executions(ShownRows(F))
           stages == {Cardinality(JobsOf(F, e)) : e \in E}
           most == Max(stages \cup {0})
<1>1. Load(d) /\ columns' = [n \in 1 .. StageColumns(most) |-> n]
  BY DEF JobHistory
<1>2. F \in SUBSET Rows
  <2>1. About(d) \in SUBSET Rows
    BY AboutRows
  <2> QED BY <2>1, FetchedRows
<1>3. IsFiniteSet(E)
  <2>1. ShownRows(F) \in SUBSET Rows
    BY <1>2 DEF ShownRows
  <2>2. IsFiniteSet(ShownRows(F))
    BY <2>1, HistoryConstants, FS_Subset
  <2> QED BY <2>2, ImageFinite DEF Executions
<1>4. \A e \in E : Cardinality(JobsOf(F, e)) \in Nat
  <2> HIDE DEF F, E
  <2> SUFFICES ASSUME NEW e \in E PROVE Cardinality(JobsOf(F, e)) \in Nat
    OBVIOUS
  <2>1. JobsOf(F, e) \in SUBSET Rows
    BY <1>2 DEF JobsOf
  <2> QED BY <2>1, HistoryConstants, FS_Subset, FS_CardinalityType
<1>5. most \in Nat
  <2> HIDE DEF F, E
  <2>1. IsFiniteSet(stages)
    <3> DEFINE size == [e \in E |-> Cardinality(JobsOf(F, e))]
    <3>1. {size[e] : e \in E} = stages
      OBVIOUS
    <3> HIDE DEF size, stages
    <3>2. IsFiniteSet({size[e] : e \in E})
      BY <1>3, ImageFinite
    <3> QED BY <3>1, <3>2
  <2>2. stages \cup {0} \in SUBSET Nat
    BY <1>4
  <2> HIDE DEF stages
  <2>3. IsFiniteSet(stages \cup {0})
    BY <2>1, FS_AddElement
  <2>4. Max(stages \cup {0}) \in stages \cup {0}
    BY <2>2, <2>3, Extremes
  <2> QED BY <2>2, <2>4
<1> HIDE DEF most
<1>6. StageColumns(most) \in 0 .. StageLimit
  BY <1>5, HistoryConstants DEF StageColumns
<1>7. columns' \in Seq(1 .. StageLimit)
  <2>1. PICK k \in 0 .. StageLimit : columns' = [n \in 1 .. k |-> n]
    BY <1>1, <1>6
  <2>2. k \in Nat /\ \A n \in 1 .. k : n \in 1 .. StageLimit
    BY HistoryConstants
  <2> DEFINE T == 1 .. StageLimit
  <2>3. columns' \in [1 .. k -> T] /\ k \in Nat
    BY <2>1, <2>2
  <2> HIDE DEF T
  <2>4. columns' \in Seq(T)
    BY <2>3
  <2> QED BY <2>4 DEF T
<1>8. d # "flow"
  BY SubjectsApart
<1> QED BY <1>1, <1>7, <1>8, LoadKeepsType

LEMMA GraphArrivesType ==
    ASSUME TypeOK, PagesInv, GraphArrives
    PROVE  TypeOK'
<1>1. /\ loaded' = TRUE /\ answered' = About(subject)
      /\ graph' = GraphData(subject, Fetched(About(subject)))
      /\ table' = table /\ asked' = asked /\ listed' = listed /\ subject' = subject
      /\ columns' = columns
  BY DEF GraphArrives, GraphLoaded, pageVars
<1>2. About(subject) \in SUBSET Rows
  BY AboutRows DEF TypeOK
<1>3. Fetched(About(subject)) \in SUBSET Rows
  BY <1>2, FetchedRows
<1>4. Sorted(graph') /\ DOMAIN graph' = 1 .. Len(graph')
  BY <1>1, <1>3, GraphSorted, GraphListing
<1>5. \A i \in DOMAIN graph' : graph'[i].time \in Nat
  BY <1>4 DEF Sorted
<1> QED BY <1>1, <1>2, <1>5 DEF TypeOK, Executions

(* What the tooltip shows is numbered from one on.                         *)
NumbersShown ==
    /\ mouse \in {<<>>} \cup {<<x>> : x \in Positions}
    /\ Len(tooltip) <= 1
    /\ tooltip # <<>> => \A i \in DOMAIN tooltip[1].top : tooltip[1].top[i].number \in Nat \ {0}

LEMMA NumberedTop ==
    ASSUME PagesInv, loaded, NEW i \in DOMAIN graph,
           NEW top \in IF subject = "flow" THEN FlowTooltipContent(graph[i])
                       ELSE JobTooltipContent(graph[i])
    PROVE  \A j \in DOMAIN top : top[j].number \in Nat \ {0}
<1> DEFINE record == graph[i]
           F == Fetched(answered)
<1>1. F \in SUBSET Rows /\ graph = GraphData(subject, F)
  BY FetchedRows DEF PagesInv
<1>2. ScoresAddUp(record)
  <2> DEFINE size == Len(Shown(F))
  <2>1. /\ DOMAIN graph = 1 .. size
        /\ \A k \in 1 .. size : graph[k] = Dataset(subject, F, Shown(F)[size + 1 - k])
    BY <1>1, GraphListing
  <2> HIDE DEF size, F
  <2>2. record = Dataset(subject, F, Shown(F)[size + 1 - i])
    BY <2>1
  <2> HIDE DEF record
  <2> QED BY <1>1, <2>2, DatasetAddsUp
<1>3. \A s \in TopParts(record) : \A j \in DOMAIN s : s[j] \in DOMAIN record.parts
  <2> SUFFICES ASSUME NEW s \in TopParts(record), NEW j \in DOMAIN s
               PROVE  s[j] \in DOMAIN record.parts
    OBVIOUS
  <2> HIDE DEF record
  <2>1. Top(record, s)
    BY <1>2, BestOnTop
  <2> QED BY <2>1 DEF Top
<1>4. CASE subject = "flow"
  <2> DEFINE jobDefList == JobNumbers
             place(d) == CHOOSE n \in DOMAIN jobDefList : jobDefList[n] = d
  <2>1. PICK s \in TopParts(record) :
           top = [j \in DOMAIN s |-> [part |-> s[j], number |-> place(record.parts[s[j]])]]
    BY <1>4 DEF FlowTooltipContent
  <2>2. ASSUME NEW j \in DOMAIN s PROVE place(record.parts[s[j]]) \in Nat \ {0}
    <3>1. s[j] \in DOMAIN record.parts
      BY <1>3
    <3>2. \E n \in DOMAIN jobDefList : n \in Nat \ {0} /\ jobDefList[n] = record.parts[s[j]]
      BY <1>1, <1>4, <3>1, EveryPartNumbered
    <3>3. DOMAIN jobDefList \subseteq Nat \ {0}
      <4>1. \A k \in DOMAIN JobNumbers : k \in Nat \ {0}
        BY DEF JobNumbers, InOrder
      <4> QED BY <4>1
    <3> HIDE DEF jobDefList
    <3> QED BY <3>2, <3>3
  <2> HIDE DEF place
  <2> QED BY <2>1, <2>2
<1>5. CASE subject # "flow"
  <2>1. PICK s \in TopParts(record) :
           top = [j \in DOMAIN s |-> [part |-> s[j], number |-> s[j]]]
    BY <1>5 DEF JobTooltipContent
  <2>2. \E m \in Nat : DOMAIN record.parts = 1 .. m
    BY <1>2 DEF ScoresAddUp
  <2> HIDE DEF record
  <2>3. \A j \in DOMAIN s : s[j] \in Nat \ {0}
    BY <1>3, <2>2
  <2> QED BY <2>1, <2>3
<1> QED BY <1>4, <1>5

LEMMA NumbersShownNext ==
    PagesInv /\ TooltipInv /\ NumbersShown /\ [SiteNext]_allVars => NumbersShown'
<1> SUFFICES ASSUME PagesInv, TooltipInv, NumbersShown, [SiteNext]_allVars PROVE NumbersShown'
  OBVIOUS
<1>1. CASE UNCHANGED tooltipVars
  BY <1>1 DEF NumbersShown, tooltipVars
<1>2. CASE LeaveGraph
  BY <1>2 DEF LeaveGraph, NumbersShown
<1>3. ASSUME NEW r \in Rows, InsertRow(r) PROVE NumbersShown'
  BY <1>1, <1>3 DEF InsertRow, tooltipVars
<1>4. CASE OpenFlowHistory
  BY <1>2, <1>4 DEF OpenFlowHistory
<1>5. ASSUME NEW d \in JobDefinitions, OpenJobHistory(d) PROVE NumbersShown'
  BY <1>2, <1>5 DEF OpenJobHistory
<1>6. CASE GraphArrives
  BY <1>1, <1>6 DEF GraphArrives, tooltipVars
<1>7. ASSUME NEW x \in Positions, PointAt(x) PROVE NumbersShown'
  <2>1. loaded /\ mouse' = <<x>> /\ OverGraph(x)
    BY <1>7 DEF PointAt, MouseMove, Plotted
  <2>2. CASE Pointed(x) = 0
    <3>1. tooltip' = tooltip
      BY <1>7, <2>2 DEF PointAt, MouseMove
    <3> QED BY <2>1, <3>1 DEF NumbersShown
  <2>3. CASE Pointed(x) # 0
    <3>1. PICK top \in IF subject = "flow" THEN FlowTooltipContent(graph[Pointed(x)])
                       ELSE JobTooltipContent(graph[Pointed(x)]) :
              tooltip' = <<[record |-> Pointed(x), top |-> top]>>
      BY <1>7, <2>3 DEF PointAt, MouseMove
    <3>2. Pointed(x) \in DOMAIN graph
      BY <1>7, <2>3, PointedInGraph
    <3>3. \A j \in DOMAIN top : top[j].number \in Nat \ {0}
      BY <2>1, <3>1, <3>2, NumberedTop
    <3> QED BY <2>1, <3>1, <3>3 DEF NumbersShown
  <2> QED BY <2>2, <2>3
<1>8. ASSUME NEW e, NEW f, Compare(e, f) PROVE NumbersShown'
  BY <1>2, <1>8 DEF Compare, Leave
<1>9. CASE Compared
  BY <1>1, <1>9 DEF Compared
<1>10. CASE UNCHANGED allVars
  BY <1>1, <1>10 DEF allVars, siteVars, tooltipVars
<1> QED BY <1>3, <1>4, <1>5, <1>6, <1>7, <1>8, <1>9, <1>10 DEF SiteNext

NoPageShown ==
    /\ table \subseteq Rows /\ subject = "none" /\ asked = {} /\ listed = <<>>
    /\ columns = <<>> /\ loaded = FALSE /\ answered = {} /\ graph = <<>>

LEMMA NoPage == NoPageShown => TypeOK
<1> SUFFICES ASSUME NoPageShown PROVE TypeOK
  OBVIOUS
<1>1. listed \in Seq(Executions(asked))
  BY DEF NoPageShown
<1>2. \A i \in DOMAIN graph : graph[i].time \in Nat
  BY DEF NoPageShown
<1> QED BY <1>1, <1>2, SubjectsApart DEF TypeOK, NoPageShown

LEMMA PageTypeNext == PagesInv /\ TypeOK /\ [SiteNext]_allVars => TypeOK'
<1> SUFFICES ASSUME PagesInv, TypeOK, [SiteNext]_allVars PROVE TypeOK'
  OBVIOUS
<1>1. CASE UNCHANGED vars
  BY <1>1 DEF TypeOK, vars, pageVars, graphVars, Executions
<1>2. ASSUME NEW r \in Rows, InsertRow(r) PROVE TypeOK'
  BY <1>2 DEF InsertRow, Insert, pageVars, graphVars, TypeOK, Executions
<1>3. CASE OpenFlowHistory
  BY <1>3, FlowHistoryType DEF OpenFlowHistory, TypeOK
<1>4. ASSUME NEW d \in JobDefinitions, OpenJobHistory(d) PROVE TypeOK'
  BY <1>4, JobHistoryType DEF OpenJobHistory, TypeOK
<1>5. CASE GraphArrives
  BY <1>5, GraphArrivesType
<1>6. ASSUME NEW x \in Positions, PointAt(x) PROVE TypeOK'
  BY <1>1, <1>6 DEF PointAt, MouseMove
<1>7. ASSUME NEW e, NEW f, Compare(e, f) PROVE TypeOK'
  <2>1. /\ table' = table /\ subject' = "none" /\ asked' = {} /\ listed' = <<>>
        /\ columns' = <<>> /\ loaded' = FALSE /\ answered' = {} /\ graph' = <<>>
    BY <1>7 DEF Compare, Comparison!CompareFirst, Leave
  <2>2. table \subseteq Rows
    BY DEF TypeOK
  <2>3. NoPageShown'
    BY <2>1, <2>2 DEF NoPageShown
  <2>4. NoPageShown' => TypeOK'
    BY NoPage, PTL
  <2> QED BY <2>3, <2>4
<1>8. CASE Compared
  BY <1>1, <1>8 DEF Compared, Comparison!CompareSecond, vars, pageVars, graphVars
<1>9. CASE UNCHANGED allVars
  BY <1>1, <1>9 DEF allVars, siteVars
<1> QED BY <1>2, <1>3, <1>4, <1>5, <1>6, <1>7, <1>8, <1>9 DEF SiteNext

(* What the queries of a comparison can find.                              *)
LEMMA FetchableRows ==
    ASSUME NEW S, NEW results \in Comparison!Fetchable(S)
    PROVE  results \subseteq S
BY DEF Comparison!Fetchable, Comparison!kSubset

LEMMA ComparedDefinitions ==
    ASSUME NEW e, NEW f, NEW results1, NEW results2,
           NEW answer \in Comparison!Comparisons(e, f, results1, results2)
    PROVE  DOMAIN answer \subseteq {JobDefinition[r] : r \in results1 \cup results2}
<1>1. CASE results1 = {} \/ results2 = {}
  BY <1>1 DEF Comparison!Comparisons
<1>2. CASE ~(results1 = {} \/ results2 = {})
  <2>1. PICK group1 \in Comparison!Groups(results1), group2 \in Comparison!Groups(results2) :
           answer = Comparison!ByDefinition(Comparison!UnionOfGroups(group1, group2),
                                            e, f, results1, results2)
    BY <1>2 DEF Comparison!Comparisons
  <2>2. /\ group1 \subseteq {JobDefinition[r] : r \in results1}
        /\ group2 \subseteq {JobDefinition[r] : r \in results2}
    BY DEF Comparison!Groups, Comparison!TreeSets
  <2>3. DOMAIN answer = Comparison!UnionOfGroups(group1, group2)
    BY <2>1 DEF Comparison!ByDefinition
  <2> QED BY <2>2, <2>3 DEF Comparison!UnionOfGroups, Comparison!Without
<1> QED BY <1>1, <1>2

LEMMA ComparisonTypeNext == Comparison!TypeOK /\ [SiteNext]_allVars => Comparison!TypeOK'
<1> SUFFICES ASSUME Comparison!TypeOK, [SiteNext]_allVars PROVE Comparison!TypeOK'
  OBVIOUS
<1>1. CASE UNCHANGED <<table, comparisonVars>>
  BY <1>1 DEF comparisonVars, Comparison!TypeOK
<1>2. CASE Comparison!LeaveComparison
  BY <1>2 DEF Comparison!LeaveComparison, Comparison!TypeOK
<1>3. ASSUME NEW r \in Rows, InsertRow(r) PROVE Comparison!TypeOK'
  BY <1>3 DEF InsertRow, Insert, comparisonVars, Comparison!TypeOK
<1>4. CASE OpenFlowHistory
  BY <1>2, <1>4 DEF OpenFlowHistory
<1>5. ASSUME NEW d \in JobDefinitions, OpenJobHistory(d) PROVE Comparison!TypeOK'
  BY <1>2, <1>5 DEF OpenJobHistory
<1>6. CASE GraphArrives
  BY <1>1, <1>6 DEF GraphArrives, GraphLoaded
<1>7. ASSUME NEW x \in Positions, PointAt(x) PROVE Comparison!TypeOK'
  BY <1>1, <1>7 DEF PointAt, MouseMove, vars
<1>8. ASSUME NEW e, NEW f, Compare(e, f) PROVE Comparison!TypeOK'
  <2>1. /\ table' = table /\ compared' = <<e, f>> /\ comparison' = <<>>
        /\ known' \subseteq table
        /\ first' \in Comparison!Fetchable(Comparison!RowsOf(table, e))
    BY <1>8 DEF Compare, Comparison!CompareFirst, Comparison!RowsOf
  <2>2. first' \subseteq table
    BY <2>1, FetchableRows DEF Comparison!RowsOf
  <2> QED BY <2>1, <2>2 DEF Comparison!TypeOK
<1>9. CASE Compared
  <2>1. /\ table' = table /\ compared' = compared /\ known' = known /\ first' = first
    BY <1>9 DEF Compared, Comparison!CompareSecond
  <2>2. PICK results2 \in Comparison!Fetchable(Comparison!RowsOf(table, compared[2])) :
           \E answer \in Comparison!Comparisons(compared[1], compared[2], first, results2) :
               comparison' = <<answer>>
    BY <1>9 DEF Compared, Comparison!CompareSecond
  <2>3. PICK answer \in Comparison!Comparisons(compared[1], compared[2], first, results2) :
               comparison' = <<answer>>
    BY <2>2
  <2>4. results2 \subseteq table /\ first \subseteq table
    BY FetchableRows DEF Comparison!RowsOf, Comparison!TypeOK
  <2>5. \A d \in DOMAIN answer : d \in {JobDefinition[r] : r \in table}
    BY <2>4, ComparedDefinitions
  <2>6. Len(comparison') <= 1 /\ comparison'[1] = answer
    BY <2>3
  <2> QED BY <2>1, <2>5, <2>6 DEF Comparison!TypeOK
<1>10. CASE UNCHANGED allVars
  BY <1>1, <1>10 DEF allVars, siteVars, vars
<1> QED BY <1>3, <1>4, <1>5, <1>6, <1>7, <1>8, <1>9, <1>10 DEF SiteNext

(* The variables of all three pages have their types; above all, every     *)
(* part in the tooltip has a number, as each of those the graph of a flow  *)
(* has is in the list the script makes of them.                            *)
THEOREM SiteTypeCorrect == SiteSpec => []SiteTypeOK
<1> DEFINE Inv == /\ PagesInv /\ TooltipInv /\ BestShown
                  /\ NumbersShown /\ TypeOK /\ Comparison!TypeOK
<1>1. SiteInit => Inv
  <2> SUFFICES ASSUME SiteInit PROVE Inv
    OBVIOUS
  <2>1. PagesInv /\ TooltipInv /\ BestShown
    BY PagesInvInit DEF SiteInit, GraphInit, Init, TooltipInv, NearestShown, BestShown
  <2>2. NumbersShown /\ TypeOK
    <3>1. NoPageShown /\ mouse = <<>> /\ tooltip = <<>>
      BY DEF SiteInit, GraphInit, Init, NoPageShown
    <3>2. Len(<<>>) <= 1
      OBVIOUS
    <3> QED BY <3>1, <3>2, NoPage DEF NumbersShown
  <2>3. Comparison!TypeOK
    BY DEF SiteInit, Comparison!Init, Comparison!TypeOK
  <2> QED BY <2>1, <2>2, <2>3
<1>2. Inv /\ [SiteNext]_allVars => Inv'
  BY PagesInvNext, TooltipInvNext, BestShownNext, NumbersShownNext, PageTypeNext,
     ComparisonTypeNext
<1>3. Inv => SiteTypeOK
  BY DEF SiteTypeOK, GraphTypeOK, NumbersShown, BestShown
<1> QED BY <1>1, <1>2, <1>3, PTL DEF SiteSpec
=============================================================================
