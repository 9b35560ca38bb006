------------------------- MODULE ItemListing_proofs -------------------------
(****************************************************************************)
(* Theorems about ItemListing for any rows, times of creation, filter and   *)
(* page size.                                                               *)
(****************************************************************************)
EXTENDS ItemListing, FiniteSetTheorems, SequenceTheorems, TLAPS

-----------------------------------------------------------------------------
(* Results and windows.                                                     *)

(* A result of the database lists each of its rows once, newest first.      *)
LEMMA ResultIsOrder ==
  ASSUME NEW S, IsFiniteSet(S), NEW order \in SetToSeqs(S)
  PROVE  /\ Cardinality(S) \in Nat
         /\ order \in [1 .. Cardinality(S) -> S]
         /\ order \in Seq(S) /\ Len(order) = Cardinality(S)
         /\ IsInjective(order)
         /\ ToSet(order) = S
<1> DEFINE n == Cardinality(S)
<1>1. n \in Nat
  BY FS_CardinalityType
<1>2. order \in [1 .. n -> S] /\ IsInjective(order)
  BY DEF SetToSeqs, IsInjective
<1>3. order \in Seq(S) /\ Len(order) = n
  BY <1>1, <1>2
<1>4. order \in Injection(1 .. n, S)
  BY <1>2 DEF Injection
<1>5. IsFiniteSet(1 .. n) /\ Cardinality(1 .. n) = n
  BY <1>1, FS_Interval
<1>6. order \in Surjection(1 .. n, S)
  BY <1>4, <1>5, FS_Injection
<1>7. ToSet(order) = S
  BY <1>2, <1>6 DEF ToSet, Surjection
<1> QED BY <1>1, <1>2, <1>3, <1>7

(* In an ordered result of rows of distinct times the place of a row says   *)
(* how many are newer.                                                      *)
LEMMA PlaceIsRank ==
  ASSUME NEW S, IsFiniteSet(S), NEW order \in Results(S), NEW m \in 1 .. Cardinality(S),
         \A i \in S : created_at[i] \in Nat,
         \A i, j \in S : created_at[i] = created_at[j] => i = j
  PROVE  Cardinality({j \in S : Newer(j, order[m])}) = m - 1
<1> DEFINE n == Cardinality(S)
           front == {j \in S : Newer(j, order[m])}
           f == [k \in 1 .. m - 1 |-> order[k]]
<1>1. /\ n \in Nat /\ order \in [1 .. n -> S] /\ IsInjective(order) /\ ToSet(order) = S
      /\ m - 1 \in Nat
  BY ResultIsOrder DEF Results
<1>2. \A k, l \in 1 .. n : Newer(order[k], order[l]) => k < l
  BY <1>1 DEF Results
<1>3. ASSUME NEW k \in 1 .. n PROVE Newer(order[k], order[m]) <=> k < m
  <2>1. ASSUME k < m PROVE Newer(order[k], order[m])
    <3>1. order[k] # order[m]
      BY <1>1, <2>1 DEF IsInjective
    <3>2. created_at[order[k]] # created_at[order[m]]
      BY <1>1, <3>1
    <3>3. ~Newer(order[m], order[k])
      BY <1>2, <2>1
    <3> QED BY <1>1, <3>2, <3>3 DEF Newer
  <2> QED BY <1>2, <2>1
<1>4. f \in Injection(1 .. m - 1, front)
  BY <1>1, <1>3 DEF Injection, IsInjective
<1>5. f \in Surjection(1 .. m - 1, front)
  <2> SUFFICES ASSUME NEW j \in front PROVE \E k \in 1 .. m - 1 : f[k] = j
    BY <1>4 DEF Surjection, Injection
  <2>1. PICK k \in 1 .. n : order[k] = j
    BY <1>1 DEF ToSet
  <2> QED BY <1>3, <2>1
<1>6. ExistsBijection(1 .. m - 1, front)
  BY <1>4, <1>5 DEF ExistsBijection, Bijection
<1> QED BY <1>1, <1>6, FS_CountingElements

(* The rows of a page are those of its stretch of the result.               *)
LEMMA WindowIsStretch ==
  ASSUME NEW S, NEW order \in Seq(S), skip \in Nat, Limit \in Nat
  PROVE  /\ Window(order) \in Seq(S)
         /\ Len(Window(order)) = PageSize(Len(order))
         /\ \A k \in 1 .. Len(Window(order)) :
              skip + k \in DOMAIN order /\ Window(order)[k] = order[skip + k]
         /\ \A m \in DOMAIN order :
              skip < m /\ m <= skip + Limit => order[m] \in ToSet(Window(order))
<1> DEFINE last == Lesser(skip + Limit, Len(order))
<1>1. /\ last \in Nat /\ Len(order) \in Nat
      /\ \A k \in skip + 1 .. last : order[k] \in S
  BY DEF Lesser
<1>2. /\ Window(order) \in Seq(S)
      /\ Len(Window(order)) = IF skip + 1 <= last THEN last - skip ELSE 0
      /\ \A k \in 1 .. last - skip : Window(order)[k] = order[skip + k]
  <2> HIDE DEF last
  <2>1. skip + 1 \in Int /\ last \in Int
    BY <1>1
  <2>2. Window(order) = SubSeq(order, skip + 1, last)
    BY DEF Window, last
  <2>3. /\ SubSeq(order, skip + 1, last) \in Seq(S)
        /\ Len(SubSeq(order, skip + 1, last)) = IF skip + 1 <= last THEN last - (skip + 1) + 1 ELSE 0
        /\ \A k \in 1 .. last - (skip + 1) + 1 : SubSeq(order, skip + 1, last)[k] = order[skip + 1 + k - 1]
    BY <1>1, <2>1, SubSeqProperties
  <2>4. last - (skip + 1) + 1 = last - skip /\ \A k \in 1 .. last - skip : skip + 1 + k - 1 = skip + k
    BY <1>1
  <2> QED BY <2>2, <2>3, <2>4
<1>3. Len(Window(order)) = PageSize(Len(order))
  BY <1>1, <1>2 DEF PageSize, Lesser
<1>4. \A k \in 1 .. Len(Window(order)) : skip + k \in DOMAIN order /\ Window(order)[k] = order[skip + k]
  BY <1>1, <1>2 DEF Lesser
<1>5. ASSUME NEW m \in DOMAIN order, skip < m, m <= skip + Limit
      PROVE  order[m] \in ToSet(Window(order))
  <2>1. m - skip \in 1 .. Len(Window(order)) /\ skip + (m - skip) = m
    BY <1>1, <1>2, <1>5 DEF Lesser
  <2>2. Window(order)[m - skip] = order[m]
    BY <1>4, <2>1
  <2>3. m - skip \in DOMAIN Window(order)
    BY <1>2, <2>1
  <2> QED BY <2>2, <2>3 DEF ToSet
<1> QED BY <1>2, <1>3, <1>4, <1>5

-----------------------------------------------------------------------------
(* Ranks.                                                                   *)

LEMMA PresentFinite ==
  /\ IsFiniteSet(Present) /\ Cardinality(Present) \in Nat
  /\ \A i \in Ids : /\ IsFiniteSet({j \in Present : Newer(j, i)})
                     /\ Rank(i) \in Nat
<1>1. IsFiniteSet(Present)
  BY ItemListingAssumption, FS_Subset DEF Present
<1>2. ASSUME NEW i \in Ids PROVE IsFiniteSet({j \in Present : Newer(j, i)})
  BY <1>1, FS_Subset
<1> QED BY <1>1, <1>2, FS_CardinalityType DEF Rank

(* A row never has a rank beyond the number of rows.                        *)
LEMMA RankBelowCount ==
  ASSUME TypeOK, NEW i \in Present
  PROVE  Rank(i) < Cardinality(Present)
<1> DEFINE front == {j \in Present : Newer(j, i)}
           others == Present \ {i}
<1>1. IsFiniteSet(others) /\ Cardinality(others) = Cardinality(Present) - 1
  BY PresentFinite, FS_RemoveElement
<1>2. i \in Ids /\ created_at[i] \in Nat
  BY ItemListingAssumption DEF TypeOK, Present
<1>3. ~Newer(i, i)
  BY <1>2 DEF Newer
<1>4. front \in SUBSET others
  BY <1>3
<1>5. Cardinality(front) <= Cardinality(others)
  BY <1>1, <1>4, FS_Subset
<1>6. Rank(i) = Cardinality(front) /\ Cardinality(Present) \in Nat /\ Rank(i) \in Nat
  BY <1>2, PresentFinite DEF Rank
<1> HIDE DEF front, others
<1> QED BY <1>1, <1>5, <1>6

(* Rows that go never push another one back, rows that come never bring one *)
(* forward.                                                                 *)
LEMMA RankFalls ==
  ASSUME NEW i \in Ids, UNCHANGED created_at, Present' \subseteq Present
  PROVE  Rank(i)' \in Nat /\ Rank(i)' <= Rank(i)
<1>1. {j \in Present' : Newer(j, i)'} \in SUBSET {j \in Present : Newer(j, i)}
  BY DEF Newer
<1>2. IsFiniteSet({j \in Present' : Newer(j, i)'})
  BY <1>1, PresentFinite, FS_Subset
<1> QED BY <1>1, <1>2, PresentFinite, FS_Subset, FS_CardinalityType DEF Rank

LEMMA RankRises ==
  ASSUME NEW i \in Ids, UNCHANGED created_at, Present \subseteq Present'
  PROVE  Rank(i)' \in Nat /\ Rank(i)' >= Rank(i)
<1>1. {j \in Present : Newer(j, i)} \in SUBSET {j \in Present' : Newer(j, i)'}
  BY DEF Newer
<1>2. Present' \in SUBSET Ids
  BY DEF Present
<1>3. {j \in Present' : Newer(j, i)'} \in SUBSET Ids
  BY <1>2
<1>4. IsFiniteSet({j \in Present' : Newer(j, i)'})
  BY <1>3, ItemListingAssumption, FS_Subset
<1> QED BY <1>1, <1>4, PresentFinite, FS_Subset, FS_CardinalityType DEF Rank

(* A page holds the rows whose ranks lie between its offset and the next.   *)
LEMMA PageByRank ==
  ASSUME TypeOK, Distinct, NEW order \in Results(Present), NEW i \in Present
  PROVE  i \in ToSet(Window(order)) <=> skip <= Rank(i) /\ Rank(i) < skip + Limit
<1>1. /\ order \in Seq(Present) /\ Len(order) = Cardinality(Present)
      /\ order \in [1 .. Cardinality(Present) -> Present]
      /\ ToSet(order) = Present /\ Cardinality(Present) \in Nat
      /\ IsInjective(order)
  BY PresentFinite, ResultIsOrder DEF Results
<1>2. skip \in Nat /\ Limit \in Nat
  BY ItemListingAssumption DEF TypeOK
<1>3. \A m \in 1 .. Cardinality(Present) : Rank(order[m]) = m - 1
  <2>1. \A j \in Present : created_at[j] \in Nat
    BY ItemListingAssumption DEF TypeOK, Present
  <2>2. \A j, k \in Present : created_at[j] = created_at[k] => j = k
    BY DEF Distinct, Present
  <2> QED BY <2>1, <2>2, PresentFinite, PlaceIsRank DEF Rank
<1>4. PICK m \in 1 .. Cardinality(Present) : i = order[m]
  BY <1>1 DEF ToSet
<1>5. Rank(i) = m - 1
  BY <1>3, <1>4
<1>6. ASSUME i \in ToSet(Window(order)) PROVE skip <= Rank(i) /\ Rank(i) < skip + Limit
  <2>1. PICK k \in DOMAIN Window(order) : Window(order)[k] = i
    BY <1>6 DEF ToSet
  <2>2. /\ k \in 1 .. Len(Window(order)) /\ Len(Window(order)) = PageSize(Len(order))
        /\ skip + k \in DOMAIN order /\ order[skip + k] = i
    BY <1>1, <1>2, <2>1, WindowIsStretch
  <2>3. k <= Limit
    BY <1>1, <1>2, <2>2 DEF PageSize, Lesser
  <2>4. skip + k = m
    BY <1>1, <1>4, <2>2 DEF IsInjective
  <2> QED BY <1>2, <1>5, <2>2, <2>3, <2>4
<1>7. ASSUME skip <= Rank(i), Rank(i) < skip + Limit PROVE i \in ToSet(Window(order))
  <2>1. m \in DOMAIN order /\ skip < m /\ m <= skip + Limit
    BY <1>1, <1>2, <1>5, <1>7
  <2> QED BY <1>1, <1>2, <1>4, <2>1, WindowIsStretch
<1> QED BY <1>6, <1>7

-----------------------------------------------------------------------------
(* Types.                                                                   *)

LEMMA InitTyped == Init => TypeOK
<1> SUFFICES ASSUME Init PROVE TypeOK
  OBVIOUS
<1>1. IsInjective(page) /\ page \in Seq(Ids) /\ Len(page) = 0
  BY DEF Init, IsInjective
<1>2. Limit \in Nat
  BY ItemListingAssumption
<1>3. [i \in Ids |-> 0] \in [Ids -> Nat]
  OBVIOUS
<1>4. state \in [Ids -> {"to_come", "present", "is_deleted", "removed"}]
  BY DEF Init
<1>5. named \in BOOLEAN /\ quiet \in BOOLEAN /\ done \in BOOLEAN
  BY DEF Init
<1>6. skip \in Nat /\ total \in Nat /\ turn \in 0 .. 2 /\ Len(page) <= Limit
  BY <1>1, <1>2 DEF Init
<1>7. created_at \in [Ids -> Times] /\ seen \in [Ids -> Nat] /\ came \in SUBSET Ids
  BY <1>3 DEF Init
<1> QED BY <1>1, <1>4, <1>5, <1>6, <1>7 DEF TypeOK

(* Either query of the page returns every row at most once.                 *)
LEMMA PageTyped ==
  ASSUME TypeOK, FetchPage
  PROVE  /\ page' \in Seq(Ids) /\ IsInjective(page')
         /\ named \/ Len(page') <= Limit
<1>1. skip \in Nat /\ Limit \in Nat
  BY ItemListingAssumption DEF TypeOK
<1>2. CASE named
  <2> DEFINE S == {i \in Matching : Listed(i)}
  <2>1. S \in SUBSET Ids /\ IsFiniteSet(S)
    BY ItemListingAssumption, FS_Subset
  <2>2. page' \in SetToSeqs(S)
    BY <1>2 DEF FetchPage, FindByName
  <2> HIDE DEF S
  <2>3. page' \in Seq(S) /\ IsInjective(page')
    BY <2>1, <2>2, ResultIsOrder
  <2>4. page' \in Seq(Ids)
    BY <2>1, <2>3
  <2> QED BY <1>2, <2>3, <2>4
<1>3. CASE ~named
  <2>1. PICK order \in Results(Present) : page' = Window(order)
    BY <1>3 DEF FetchPage, List, Present
  <2>2. order \in Seq(Present) /\ IsInjective(order)
    BY PresentFinite, ResultIsOrder DEF Results
  <2>3. /\ page' \in Seq(Present) /\ Len(page') = PageSize(Len(order))
        /\ \A k \in 1 .. Len(page') : skip + k \in DOMAIN order /\ page'[k] = order[skip + k]
    BY <1>1, <2>1, <2>2, WindowIsStretch
  <2>4. IsInjective(page')
    <3> SUFFICES ASSUME NEW k \in DOMAIN page', NEW l \in DOMAIN page', page'[k] = page'[l]
                 PROVE  k = l
      BY DEF IsInjective
    <3>1. k \in 1 .. Len(page') /\ l \in 1 .. Len(page')
      BY <2>3
    <3>2. skip + k = skip + l
      BY <2>2, <2>3, <3>1 DEF IsInjective
    <3> QED BY <1>1, <3>1, <3>2
  <2>5. Len(page') <= Limit
    BY <1>1, <2>2, <2>3 DEF PageSize, Lesser
  <2>6. page' \in Seq(Ids)
    BY <2>3 DEF Present
  <2> QED BY <2>4, <2>5, <2>6
<1> QED BY <1>2, <1>3

LEMMA StepTyped == TypeOK /\ [Next]_vars => TypeOK'
<1> SUFFICES ASSUME TypeOK, [Next]_vars PROVE TypeOK'
  OBVIOUS
<1> USE DEF rowVars, walkVars
<1>1. Limit \in Nat
  BY ItemListingAssumption
<1>2. IsInjective(<<>>) /\ <<>> \in Seq(Ids) /\ Len(<<>>) = 0
  BY DEF IsInjective
<1>3. CASE FetchPage
  <2>1. turn' \in 0 .. 2
    BY <1>3 DEF FetchPage, Runs, TypeOK
  <2> QED BY <1>3, <2>1, PageTyped DEF FetchPage, Runs, TypeOK
<1>4. CASE Count
  <2>1. {i \in Ids : Counted(i)} = Present
    BY DEF Counted, Present, Listed
  <2>2. total' \in Nat
    BY <1>4, <2>1, PresentFinite DEF Count
  <2>3. turn' \in 0 .. 2
    BY <1>4 DEF Count, Runs, TypeOK
  <2> QED BY <1>4, <2>2, <2>3 DEF Count, Runs, TypeOK
<1>5. CASE Answer
  BY <1>1, <1>2, <1>5 DEF Answer, TypeOK
<1>6. ASSUME NEW i \in Ids, Appear(i) PROVE TypeOK'
  BY <1>6 DEF Appear, TypeOK
<1>7. ASSUME NEW i \in Ids, Vanish(i) PROVE TypeOK'
  BY <1>7 DEF Vanish, TypeOK
<1>8. CASE Ended \/ UNCHANGED vars
  BY <1>8 DEF Ended, vars, TypeOK
<1> QED BY <1>3, <1>4, <1>5, <1>6, <1>7, <1>8 DEF Next

-----------------------------------------------------------------------------
(* The steps.                                                               *)

(* The page is the first statement, the count the second.                   *)
LEMMA StatementOrder ==
  ASSUME TypeOK
  PROVE  /\ Runs("page") => turn = 0 /\ turn' = 1
         /\ Runs("count") => turn = 1 /\ turn' = 2
<1>1. turn < 2 => turn = 0 \/ turn = 1
  BY DEF TypeOK
<1>2. Statements[1] = "page" /\ Statements[2] = "count"
  BY DEF Statements
<1> QED BY <1>1, <1>2 DEF Runs

LEMMA EmptyPage == ToSet(<<>>) = {}
  BY DEF ToSet

(* As long as no row comes or goes ranks stay as they are.                  *)
LEMMA RanksKept ==
  ASSUME UNCHANGED <<created_at, state>>
  PROVE  Present' = Present /\ \A i \in Ids : Rank(i)' = Rank(i)
  BY DEF Present, Listed, Rank, Newer

LEMMA StepStatement == TypeOK /\ StatementInv /\ [Next]_vars => StatementInv'
<1> SUFFICES ASSUME TypeOK, StatementInv, [Next]_vars PROVE StatementInv'
  OBVIOUS
<1> USE DEF StatementInv, rowVars, walkVars
<1>1. skip \in Nat /\ Limit \in Nat /\ Limit > 0
  BY ItemListingAssumption DEF TypeOK
<1>2. CASE FetchPage \/ Count
  BY <1>2, StatementOrder DEF FetchPage, Count, Runs
<1>3. CASE Answer
  BY <1>1, <1>3 DEF Answer
<1>4. ASSUME NEW i \in Ids, Appear(i) \/ Vanish(i) PROVE StatementInv'
  <2>1. UNCHANGED <<turn, page, skip, done>> /\ ~done
    BY <1>4 DEF Appear, Vanish
  <2>2. quiet' = (turn = 0)
    BY <1>4 DEF Appear, Vanish
  <2>3. turn' = 0 => quiet'
    BY <2>1, <2>2, Zenon
  <2> QED BY <2>1, <2>3
<1>5. CASE Ended \/ UNCHANGED vars
  BY <1>5 DEF Ended, vars
<1> QED BY <1>2, <1>3, <1>4, <1>5 DEF Next

LEMMA StepRepeat == TypeOK /\ StatementInv /\ RepeatInv /\ [Next]_vars => RepeatInv'
<1> DEFINE Once(i) ==
      /\ seen[i] <= 1
      /\ seen[i] = 1 /\ Listed(i) => Rank(i) < skip
      /\ i \in ToSet(page) => seen[i] = 0 /\ (Listed(i) => Rank(i) < skip + Limit)
<1> SUFFICES ASSUME TypeOK, StatementInv, RepeatInv, [Next]_vars,
                    ~named', Distinct', came' = {}, NEW i \in Ids
             PROVE  Once(i)'
  BY DEF RepeatInv
<1> USE DEF rowVars, walkVars
<1>1. /\ skip \in Nat /\ Limit \in Nat /\ Limit > 0 /\ seen[i] \in Nat /\ Rank(i) \in Nat
      /\ seen \in [Ids -> Nat]
  <2>1. Rank(i) \in Nat
    BY PresentFinite
  <2>2. seen \in [Ids -> Nat] /\ skip \in Nat
    BY DEF TypeOK
  <2> QED BY <2>1, <2>2, ItemListingAssumption
<1>2. ASSUME UNCHANGED <<named, created_at>>, came \subseteq came'
      PROVE  ~named /\ Distinct /\ came = {} /\ Once(i)
  <2>1. ~named /\ Distinct /\ came = {}
    BY <1>2 DEF Distinct
  <2> QED BY <2>1 DEF RepeatInv
<1>3. CASE FetchPage
  <2>1. UNCHANGED <<named, created_at, came, seen, skip, state>>
    BY <1>3 DEF FetchPage, Runs
  <2>2. PICK order \in Results(Present) : page' = Window(order)
    BY <1>3, <2>1 DEF FetchPage, List, Present
  <2>3. Rank(i)' = Rank(i) /\ Listed(i)' = Listed(i)
    BY <2>1, RanksKept DEF Listed
  <2>4. ASSUME i \in ToSet(page') PROVE seen[i] = 0 /\ Rank(i) < skip + Limit
    <3>1. order \in Seq(Present) /\ ToSet(order) = Present
      BY PresentFinite, ResultIsOrder DEF Results
    <3>2. \A k \in DOMAIN page' : page'[k] \in ToSet(order)
      BY <1>1, <2>2, <3>1, WindowIsStretch DEF ToSet
    <3>3. i \in Present
      BY <2>4, <3>1, <3>2 DEF ToSet
    <3>4. skip <= Rank(i) /\ Rank(i) < skip + Limit
      BY <1>2, <2>1, <2>2, <2>4, <3>3, PageByRank
    <3> QED BY <1>1, <1>2, <2>1, <3>3, <3>4 DEF Present
  <2> QED BY <1>2, <2>1, <2>3, <2>4
<1>4. CASE Count
  <2>1. UNCHANGED <<named, created_at, came, seen, skip, state, page>>
    BY <1>4 DEF Count, Runs
  <2>2. Rank(i)' = Rank(i) /\ Listed(i)' = Listed(i)
    BY <2>1, RanksKept DEF Listed
  <2> QED BY <1>2, <2>1, <2>2
<1>5. CASE Answer
  <2>1. /\ UNCHANGED <<named, created_at, came, state>> /\ skip' = skip + Limit
        /\ page' = <<>>
        /\ seen'[i] = seen[i] + (IF i \in ToSet(page) THEN 1 ELSE 0)
    BY <1>5 DEF Answer
  <2>2. Rank(i)' = Rank(i) /\ Listed(i)' = Listed(i)
    BY <2>1, RanksKept DEF Listed
  <2>3. i \notin ToSet(page')
    BY <2>1, EmptyPage
  <2> QED BY <1>1, <1>2, <2>1, <2>2, <2>3
<1>6. ASSUME NEW j \in Ids, Appear(j) PROVE FALSE
  BY <1>6 DEF Appear
<1>7. ASSUME NEW j \in Ids, Vanish(j) PROVE Once(i)'
  <2>1. UNCHANGED <<named, created_at, came, seen, skip, page>>
    BY <1>7 DEF Vanish
  <2>2. Present' \subseteq Present /\ (Listed(i)' => Listed(i))
    BY <1>7 DEF Vanish, Present, Listed, TypeOK
  <2>3. Rank(i)' \in Nat /\ Rank(i)' <= Rank(i)
    BY <2>1, <2>2, RankFalls
  <2> QED BY <1>1, <1>2, <2>1, <2>2, <2>3
<1>8. CASE Ended \/ UNCHANGED vars
  <2>1. UNCHANGED vars
    BY <1>8 DEF Ended
  <2>2. UNCHANGED <<named, created_at, came, seen, skip, state, page>>
    BY <2>1 DEF vars
  <2>3. Rank(i)' = Rank(i) /\ Listed(i)' = Listed(i)
    BY <2>2, RanksKept DEF Listed
  <2> QED BY <1>2, <2>2, <2>3
<1> QED BY <1>3, <1>4, <1>5, <1>6, <1>7, <1>8 DEF Next

LEMMA StepOmission == TypeOK /\ StatementInv /\ OmissionInv /\ [Next]_vars => OmissionInv'
<1> DEFINE Kept(i) ==
      /\ named =>
           /\ skip > 0 => seen[i] > 0
           /\ turn > 0 => i \in ToSet(page)
      /\ ~named /\ Distinct /\ seen[i] = 0 /\ i \notin ToSet(page) =>
           /\ ~done
           /\ Rank(i) >= (IF turn = 0 THEN skip ELSE skip + Limit)
           /\ turn = 2 => total > skip + Limit
<1> SUFFICES ASSUME TypeOK, StatementInv, OmissionInv, [Next]_vars,
                    Went' = {}, NEW i \in Due'
             PROVE  Kept(i)'
  BY DEF OmissionInv
<1> USE DEF rowVars, walkVars
<1>1. /\ skip \in Nat /\ Limit \in Nat /\ Limit > 0 /\ seen \in [Ids -> Nat]
      /\ total \in Nat /\ turn \in 0 .. 2
  BY ItemListingAssumption DEF TypeOK
<1>2. i \in Ids
  BY ItemListingAssumption DEF Due
<1>3. seen[i] \in Nat /\ Rank(i) \in Nat
  BY <1>1, <1>2, PresentFinite
<1>4. ASSUME Went = {}, i \in Due PROVE Kept(i) /\ i \in Present
  BY <1>2, <1>4 DEF OmissionInv, Due, Present
<1>5. ASSUME UNCHANGED <<state, named, came>> PROVE Went = {} /\ i \in Due
  BY <1>5 DEF Went, Due, Listed
<1>6. CASE FetchPage
  <2>1. /\ UNCHANGED <<named, created_at, came, seen, skip, state, done>>
        /\ turn = 0 /\ turn' = 1 /\ ~done
    BY <1>6, StatementOrder DEF FetchPage, Runs
  <2>2. Kept(i) /\ i \in Present
    BY <1>4, <1>5, <2>1
  <2>3. CASE named
    <3> DEFINE S == {j \in Matching : Listed(j)}
    <3>1. page' \in SetToSeqs(S)
      BY <1>6, <2>3 DEF FetchPage, FindByName
    <3>2. i \in S
      BY <1>5, <2>1, <2>3 DEF Due
    <3>3. IsFiniteSet(S)
      BY ItemListingAssumption, FS_Subset
    <3> HIDE DEF S
    <3>4. i \in ToSet(page')
      BY <3>1, <3>2, <3>3, ResultIsOrder
    <3> QED BY <2>1, <2>2, <2>3, <3>4
  <2>4. CASE ~named
    <3>1. PICK order \in Results(Present) : page' = Window(order)
      BY <1>6, <2>4 DEF FetchPage, List, Present
    <3>2. Rank(i)' = Rank(i)
      BY <1>2, <2>1, RanksKept
    <3>3. ASSUME Distinct, seen[i] = 0, i \notin ToSet(page') PROVE Rank(i) >= skip + Limit
      <4>1. i \notin ToSet(page)
        BY <2>1, EmptyPage DEF StatementInv
      <4>2. Rank(i) >= skip
        BY <2>1, <2>2, <2>4, <3>3, <4>1
      <4>3. ~(Rank(i) < skip + Limit)
        BY <2>2, <3>1, <3>3, <4>2, PageByRank
      <4> QED BY <1>1, <1>3, <4>3
    <3>4. Distinct' = Distinct
      BY <2>1 DEF Distinct
    <3> QED BY <2>1, <2>4, <3>2, <3>3, <3>4
  <2> QED BY <2>3, <2>4
<1>7. CASE Count
  <2>1. /\ UNCHANGED <<named, created_at, came, seen, skip, state, page, done>>
        /\ turn = 1 /\ turn' = 2
    BY <1>7, StatementOrder DEF Count, Runs
  <2>2. Kept(i) /\ i \in Present
    BY <1>4, <1>5, <2>1
  <2>3. total' = Cardinality(Present)
    BY <1>7 DEF Count, Counted, Present, Listed
  <2>4. Rank(i) < total'
    BY <2>2, <2>3, RankBelowCount
  <2>5. Rank(i)' = Rank(i) /\ Distinct' = Distinct
    BY <1>2, <2>1, RanksKept DEF Distinct
  <2> QED BY <1>1, <1>3, <2>1, <2>2, <2>3, <2>4, <2>5, PresentFinite
<1>8. CASE Answer
  <2>1. /\ UNCHANGED <<named, created_at, came, state>> /\ skip' = skip + Limit
        /\ page' = <<>> /\ turn = 2 /\ turn' = 0
        /\ done' = (skip' >= total)
        /\ seen'[i] = seen[i] + (IF i \in ToSet(page) THEN 1 ELSE 0)
    BY <1>2, <1>8 DEF Answer
  <2>2. Kept(i)
    BY <1>4, <1>5, <2>1
  <2>3. Rank(i)' = Rank(i) /\ Distinct' = Distinct
    BY <1>2, <2>1, RanksKept DEF Distinct
  <2>4. CASE named
    BY <1>1, <1>3, <2>1, <2>2, <2>4
  <2>5. CASE ~named
    <3>1. ASSUME Distinct, seen'[i] = 0 PROVE ~done' /\ Rank(i) >= skip'
      <4>1. seen[i] = 0 /\ i \notin ToSet(page)
        BY <1>3, <2>1, <3>1
      <4>2. Rank(i) >= skip + Limit /\ total > skip + Limit
        BY <2>1, <2>2, <2>5, <3>1, <4>1
      <4>3. ~(skip' >= total)
        BY <1>1, <2>1, <4>2
      <4>4. ~done'
        BY <2>1, <4>3, Zenon
      <4> QED BY <2>1, <4>2, <4>4
    <3> QED BY <2>1, <2>3, <2>5, <3>1
  <2> QED BY <2>4, <2>5
<1>9. ASSUME NEW j \in Ids, Appear(j) PROVE Kept(i)'
  <2>1. UNCHANGED <<named, created_at, seen, skip, page, turn, total, done>>
    BY <1>9 DEF Appear
  <2>2. Present \subseteq Present'
    BY <1>9 DEF Appear, Present, Listed, TypeOK
  <2>3. Went = {} /\ i \in Due
    <3>1. i # j /\ state'[i] = state[i] /\ i \notin came
      BY <1>2, <1>9 DEF Appear, Due, TypeOK
    <3>2. Went \subseteq Went'
      BY <1>9 DEF Appear, Went, TypeOK
    <3> QED BY <2>1, <3>1, <3>2 DEF Due, Listed
  <2>4. Kept(i)
    BY <1>4, <2>3
  <2>5. Rank(i)' \in Nat /\ Rank(i)' >= Rank(i)
    BY <1>2, <2>1, <2>2, RankRises
  <2>6. Distinct' = Distinct
    BY <2>1 DEF Distinct
  <2> QED BY <1>1, <1>3, <2>1, <2>4, <2>5, <2>6
<1>10. ASSUME NEW j \in Ids, Vanish(j) PROVE FALSE
  <2>1. j \in Went'
    BY <1>10 DEF Vanish, Went, TypeOK
  <2> QED BY <2>1
<1>11. CASE Ended \/ UNCHANGED vars
  <2>1. UNCHANGED vars
    BY <1>11 DEF Ended
  <2>2. UNCHANGED <<named, created_at, came, seen, skip, state, page, turn, total, done>>
    BY <2>1 DEF vars
  <2>3. Kept(i)
    BY <1>4, <1>5, <2>2
  <2>4. Rank(i)' = Rank(i) /\ Distinct' = Distinct
    BY <1>2, <2>2, RanksKept DEF Distinct
  <2> QED BY <2>2, <2>3, <2>4
<1> QED BY <1>6, <1>7, <1>8, <1>9, <1>10, <1>11 DEF Next

LEMMA StepFit == TypeOK /\ StatementInv /\ FitInv /\ [Next]_vars => FitInv'
<1> SUFFICES ASSUME TypeOK, StatementInv, FitInv, [Next]_vars,
                    turn' > 0, quiet', ~named'
             PROVE  /\ Len(page') = PageSize(Cardinality(Present))'
                    /\ turn' = 2 => total' = Cardinality(Present')
  BY DEF FitInv
<1> USE DEF rowVars, walkVars
<1>1. turn \in 0 .. 2 /\ skip \in Nat /\ Limit \in Nat
  BY ItemListingAssumption DEF TypeOK
<1>2. CASE FetchPage
  <2>1. UNCHANGED <<named, created_at, skip, state>> /\ turn' = 1
    BY <1>2, StatementOrder DEF FetchPage, Runs
  <2>2. PICK order \in Results(Present) : page' = Window(order)
    BY <1>2, <2>1 DEF FetchPage, List, Present
  <2>3. order \in Seq(Present) /\ Len(order) = Cardinality(Present)
    BY PresentFinite, ResultIsOrder DEF Results
  <2>4. Len(page') = PageSize(Cardinality(Present))
    BY <1>1, <2>2, <2>3, WindowIsStretch
  <2> QED BY <2>1, <2>4, RanksKept DEF PageSize
<1>3. CASE Count
  <2>1. UNCHANGED <<named, created_at, skip, state, page, quiet>> /\ turn = 1
    BY <1>3, StatementOrder DEF Count, Runs
  <2>2. total' = Cardinality(Present)
    BY <1>3 DEF Count, Counted, Present, Listed
  <2>3. Len(page) = PageSize(Cardinality(Present))
    BY <2>1 DEF FitInv
  <2> QED BY <2>1, <2>2, <2>3, RanksKept DEF PageSize
<1>4. CASE Answer
  BY <1>4 DEF Answer
<1>5. ASSUME NEW i \in Ids, Appear(i) \/ Vanish(i) PROVE FALSE
  <2>1. quiet' = (turn = 0) /\ turn' = turn
    BY <1>5 DEF Appear, Vanish
  <2>2. turn # 0
    BY <1>1, <2>1
  <2> QED BY <2>1, <2>2, Zenon
<1>6. CASE Ended \/ UNCHANGED vars
  <2>1. UNCHANGED <<named, created_at, skip, state, page, quiet, turn, total>>
    BY <1>6 DEF Ended, vars
  <2> QED BY <2>1, RanksKept DEF FitInv, PageSize
<1> QED BY <1>2, <1>3, <1>4, <1>5, <1>6 DEF Next

-----------------------------------------------------------------------------
LEMMA Inductive == Spec => [](TypeOK /\ IInv)
<1>1. Init => IInv
  <2> SUFFICES ASSUME Init PROVE IInv
    OBVIOUS
  <2>1. TypeOK
    BY InitTyped
  <2>2. StatementInv /\ FitInv
    BY DEF Init, StatementInv, FitInv
  <2>3. ToSet(page) = {}
    BY EmptyPage DEF Init
  <2>4. RepeatInv
    BY <2>3 DEF Init, RepeatInv
  <2>5. OmissionInv
    <3>1. \A i \in Due : i \in Ids
      BY ItemListingAssumption DEF Due
    <3>2. ASSUME NEW i \in Due PROVE Rank(i) >= 0 /\ i \in Ids
      <4>1. Rank(i) \in Nat
        BY <3>1, PresentFinite
      <4> QED BY <3>1, <4>1
    <3> QED BY <3>2 DEF Init, OmissionInv
  <2> QED BY <2>2, <2>4, <2>5 DEF IInv
<1>2. TypeOK /\ IInv /\ [Next]_vars => TypeOK' /\ IInv'
  BY StepTyped, StepStatement, StepRepeat, StepOmission, StepFit DEF IInv
<1> QED BY <1>1, <1>2, InitTyped, PTL DEF Spec

(* No page is longer than the limit or shows a row twice.                   *)
THEOREM TypeCorrect == Spec => []TypeOK
  BY Inductive, PTL

(* The inductive invariant: the ranks of the rows received and of the rows  *)
(* still due, relative to the offset, whatever comes and goes.              *)
THEOREM Invariance == Spec => []IInv
  BY Inductive, PTL

(* However many rows other requests delete during a walk, list() never      *)
(* returns one twice.                                                       *)
THEOREM Repeats == Spec => []NoRepeats
<1>1. TypeOK /\ IInv => NoRepeats
  BY DEF IInv, RepeatInv, NoRepeats
<1> QED BY <1>1, Inductive, PTL

(* However many rows other requests create during a walk, between two pages *)
(* or between a page and its count, the client ends up with every row that  *)
(* was there before.                                                        *)
THEOREM Omissions == Spec => []NoOmissions
<1>1. TypeOK /\ IInv => NoOmissions
  <2> SUFFICES ASSUME TypeOK, IInv, done, named \/ Distinct, Went = {},
                      NEW i \in Due
               PROVE  seen[i] > 0
    BY DEF NoOmissions, Due, Listed
  <2>1. seen[i] \in Nat
    BY ItemListingAssumption DEF Due, TypeOK
  <2>2. turn = 0 /\ skip > 0 /\ i \notin ToSet(page)
    BY EmptyPage DEF IInv, StatementInv
  <2> QED BY <2>1, <2>2 DEF IInv, OmissionInv
<1> QED BY <1>1, Inductive, PTL

(* The total of an answer fits its page unless a row came or went between   *)
(* the two statements.                                                      *)
THEOREM Totals == Spec => []TotalFitsPage
<1>1. TypeOK /\ IInv => TotalFitsPage
  BY DEF IInv, FitInv, TotalFitsPage
<1> QED BY <1>1, Inductive, PTL
=============================================================================
