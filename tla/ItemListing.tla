---------------------------- MODULE ItemListing ----------------------------
(****************************************************************************)
(* GET /items: a client walks through the list, page after page, until it   *)
(* has asked for as many rows as the last answer's total.  Each answer comes*)
(* from two statements, the page and the count, each of which sees what is  *)
(* committed at its time; other requests create and delete rows at any time.*)
(*                                                                          *)
(* created_at is taken by the clock of some worker when the row is flushed, *)
(* while it appears in the table only with the commit: rows appear in no    *)
(* particular order of created_at, and two may have the same.               *)
(****************************************************************************)
EXTENDS Naturals, Sequences, FiniteSets, SequencesExt

CONSTANTS
  Ids,      (* rows of the table, those still to be created too             *)
  Times,    (* values of created_at                                         *)
  Matching, (* the rows whose name contains the filter                      *)
  Limit     (* the page size                                                *)

ASSUME ItemListingAssumption ==
  /\ IsFiniteSet(Ids)
  /\ Times \subseteq Nat
  /\ Matching \subseteq Ids
  /\ Limit \in 1 .. 500

VARIABLES
  created_at,  (* of every row                                              *)
  state,       (* of every row: to come, in the table, soft-deleted, removed*)
  named,       (* whether the client gives a name                           *)
  skip,        (* the offset of the current request                         *)
  turn,        (* the statements the current request has run                *)
  page, total, (* their results                                             *)
  quiet,       (* no row has come or gone since the first of them           *)
  seen,        (* how often the client has received each row                *)
  done,        (* the walk has ended                                        *)
  came         (* the rows that appeared during the walk                    *)

vars == <<created_at, state, named, skip, turn, page, total, quiet, seen, done, came>>
rowVars  == <<created_at, state, came>>
walkVars == <<named, skip, seen, done>>

TypeOK ==
  /\ created_at \in [Ids -> Times]
  /\ state \in [Ids -> {"to_come", "present", "is_deleted", "removed"}]
  /\ named \in BOOLEAN /\ quiet \in BOOLEAN /\ done \in BOOLEAN
  /\ skip \in Nat /\ total \in Nat /\ turn \in 0 .. 2
  /\ page \in Seq(Ids) /\ IsInjective(page)
  /\ named \/ Len(page) <= Limit
  /\ seen \in [Ids -> Nat]
  /\ came \in SUBSET Ids

Init ==
  /\ created_at \in [Ids -> Times]
  /\ state \in [Ids -> {"to_come", "present"}]
  /\ named \in BOOLEAN
  /\ skip = 0 /\ turn = 0 /\ page = <<>> /\ total = 0
  /\ quiet = TRUE /\ done = FALSE
  /\ seen = [i \in Ids |-> 0]
  /\ came = {}

-----------------------------------------------------------------------------
(* The statements.                                                          *)

Listed(i) == state[i] = "present"

(* Variant: no ORDER BY.                                                    *)
NoOrder(i, j) == FALSE

(* ORDER BY created_at DESC.                                                *)
Newer(i, j) == created_at[i] > created_at[j]

(* The orders in which the database may return a set of rows.               *)
Results(S) ==
  {order \in SetToSeqs(S) :
     \A m, n \in DOMAIN order : Newer(order[m], order[n]) => m < n}

Lesser(m, n) == IF m < n THEN m ELSE n

(* Variant: one row more than the limit, to see whether there is a next page. *)
WindowAndNext(order) == SubSeq(order, skip + 1, Lesser(skip + Limit + 1, Len(order)))

Window(order) == SubSeq(order, skip + 1, Lesser(skip + Limit, Len(order)))

(* list(): OFFSET and LIMIT apply to the ordered rows.                      *)
List ==
  \E order \in Results({i \in Ids : Listed(i)}) : page' = Window(order)

(* find_by_name(): every match, in any order.                               *)
FindByName == page' \in SetToSeqs({i \in Matching : Listed(i)})

(* Variant: the rows are counted first.                                     *)
CountFirst == <<"count", "page">>

Statements == <<"page", "count">>

Runs(statement) ==
  /\ ~done /\ turn < 2 /\ Statements[turn + 1] = statement
  /\ turn' = turn + 1
  /\ UNCHANGED <<rowVars, walkVars, quiet>>

FetchPage ==
  /\ Runs("page")
  /\ IF named THEN FindByName ELSE List
  /\ UNCHANGED total

(* Variant: count() forgets the condition on is_deleted.                    *)
Stored(i) == state[i] \in {"present", "is_deleted"}

Counted(i) == state[i] = "present"

(* count() takes no filter.                                                 *)
Count ==
  /\ Runs("count")
  /\ total' = Cardinality({i \in Ids : Counted(i)})
  /\ UNCHANGED page

(* The client receives page and total and asks for the next page.           *)
Answer ==
  /\ turn = 2
  /\ seen' = [i \in Ids |-> seen[i] + (IF i \in ToSet(page) THEN 1 ELSE 0)]
  /\ skip' = skip + Limit
  /\ done' = (skip' >= total)
  /\ turn' = 0 /\ page' = <<>> /\ total' = 0 /\ quiet' = TRUE
  /\ UNCHANGED <<rowVars, named>>

-----------------------------------------------------------------------------
(* Other requests.                                                          *)

Appear(i) ==
  /\ state[i] = "to_come" /\ ~done
  /\ state' = [state EXCEPT ![i] = "present"]
  /\ came' = came \cup {i}
  /\ quiet' = (turn = 0)
  /\ UNCHANGED <<created_at, walkVars, turn, page, total>>

Vanish(i) == \E how \in {"is_deleted", "removed"} :
  /\ state[i] = "present" /\ ~done
  /\ state' = [state EXCEPT ![i] = how]
  /\ quiet' = (turn = 0)
  /\ UNCHANGED <<created_at, came, walkVars, turn, page, total>>

-----------------------------------------------------------------------------
Ended == done /\ UNCHANGED vars

Next ==
  \/ FetchPage \/ Count \/ Answer
  \/ \E i \in Ids : Appear(i) \/ Vanish(i)
  \/ Ended

Spec == Init /\ [][Next]_vars

-----------------------------------------------------------------------------
(* Properties.                                                              *)

Distinct == \A i, j \in Ids : created_at[i] = created_at[j] => i = j

(* Deletions during a walk never make a row come twice: as long as no row   *)
(* appears and no two rows are of the same time, each is received once.     *)
NoRepeats ==
  ~named /\ Distinct /\ came = {} => \A i \in Ids : seen[i] <= 1

(* The rows that vanished during the walk.                                  *)
Went == {i \in Ids : state[i] \in {"is_deleted", "removed"}}

(* Insertions during a walk never make it miss a row: as long as no row     *)
(* vanishes, whatever was there from the beginning has been received in the *)
(* end, although page and total are read at different times.                *)
NoOmissions ==
  done /\ (named \/ Distinct) /\ Went = {} =>
    \A i \in (IF named THEN Matching ELSE Ids) : state[i] = "present" /\ i \notin came => seen[i] > 0

PageSize(count) == IF count <= skip THEN 0 ELSE Lesser(count - skip, Limit)

(* Page and total of one answer fit together unless a row came or went      *)
(* between the two statements.                                              *)
TotalFitsPage ==
  turn = 2 /\ quiet /\ ~named =>
    Len(page) = PageSize(total)

-----------------------------------------------------------------------------
(* The inductive invariant.                                                 *)

Present == {i \in Ids : Listed(i)}

(* The rows in front of row i in the list.                                  *)
Rank(i) == Cardinality({j \in Present : Newer(j, i)})

(* The rows whose absence from the answers would be an omission.            *)
Due == {i \in (IF named THEN Matching ELSE Ids) : Listed(i) /\ i \notin came}

StatementInv ==
  /\ turn = 0 => page = <<>> /\ quiet
  /\ done => turn = 0 /\ skip > 0

(* What has been received lies in front of the offset, what is on the page  *)
(* in front of the next one.                                                *)
RepeatInv ==
  ~named /\ Distinct /\ came = {} =>
    \A i \in Ids :
      /\ seen[i] <= 1
      /\ seen[i] = 1 /\ Listed(i) => Rank(i) < skip
      /\ i \in ToSet(page) => seen[i] = 0 /\ (Listed(i) => Rank(i) < skip + Limit)

(* What has not been received lies behind the offset, and behind the page   *)
(* once that has been read; then the total keeps the client going.          *)
OmissionInv ==
  Went = {} =>
    \A i \in Due :
      /\ named =>
           /\ skip > 0 => seen[i] > 0
           /\ turn > 0 => i \in ToSet(page)
      /\ ~named /\ Distinct /\ seen[i] = 0 /\ i \notin ToSet(page) =>
           /\ ~done
           /\ Rank(i) >= (IF turn = 0 THEN skip ELSE skip + Limit)
           /\ turn = 2 => total > skip + Limit

FitInv ==
  turn > 0 /\ quiet /\ ~named =>
    /\ Len(page) = PageSize(Cardinality(Present))
    /\ turn = 2 => total = Cardinality(Present)

IInv == StatementInv /\ RepeatInv /\ OmissionInv /\ FitInv
=============================================================================
