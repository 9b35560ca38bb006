----------------------------- MODULE AtomicItems -----------------------------
(****************************************************************************)
(* What the items service promises its clients, without sessions,           *)
(* connections or transactions: a request takes effect on the table in one  *)
(* step or not at all, and its answer tells which.                          *)
(****************************************************************************)
EXTENDS ItemTable

CONSTANTS
  Requests,  (* the requests clients may send                               *)
  NoAnswer   (* the answer of a request that has none yet                   *)

VARIABLES
  op,       (* the operation each request carries                           *)
  rows,     (* the table                                                    *)
  applied,  (* the requests that have taken effect                          *)
  missed,   (* the requests that looked for their item and found no row     *)
  answer    (* the answer each client has received                          *)

avars == <<op, rows, applied, missed, answer>>

Answers == {"ok", "not_found", "unavailable", "error", "commit_error"}

Init ==
  /\ op = [r \in Requests |-> IdleOp]
  /\ rows \in {t \in Table : \A i \in Ids : t[i] = NoRow <=> i \notin Stored}
  /\ applied = {}
  /\ missed = {}
  /\ answer = [r \in Requests |-> NoAnswer]

Arrive(r, o) ==
  /\ op[r] = IdleOp
  /\ op' = [op EXCEPT ![r] = o]
  /\ UNCHANGED <<rows, applied, missed, answer>>

(* An INSERT needs an id without a row, every other write a row to change.  *)
Take(r) ==
  /\ op[r].kind \in WriteKinds
  /\ r \notin applied \cup missed
  /\ answer[r] = NoAnswer
  /\ rows[op[r].id] = NoRow <=> op[r].kind = "create"
  /\ rows' = [rows EXCEPT ![op[r].id] = Effect(op[r], @)]
  /\ applied' = applied \cup {r}
  /\ UNCHANGED <<op, missed, answer>>

Miss(r) ==
  /\ op[r] # IdleOp
  /\ op[r].kind \notin {"create", "list", "health"}
  /\ r \notin applied
  /\ answer[r] = NoAnswer
  /\ rows[op[r].id] = NoRow
  /\ missed' = missed \cup {r}
  /\ UNCHANGED <<op, rows, applied, answer>>

(* Success is answered for a write only once it is in the table, a hard     *)
(* delete may also have had nothing to delete; a failure is answered only   *)
(* if nothing was done, unless it was the commit that failed.               *)
Truthful(r, a) ==
  /\ a = "ok" /\ op[r].kind \in WriteKinds =>
       r \in applied \/ (op[r].kind = "hard_delete" /\ r \in missed)
  /\ a = "ok" /\ op[r].kind \in {"get", "publish"} => r \notin missed
  /\ a \in {"not_found", "unavailable", "error"} => r \notin applied

Answer(r, a) ==
  /\ op[r] # IdleOp
  /\ answer[r] = NoAnswer
  /\ Truthful(r, a)
  /\ answer' = [answer EXCEPT ![r] = a]
  /\ UNCHANGED <<op, rows, applied, missed>>

Next == \E r \in Requests :
  \/ \E o \in Op : Arrive(r, o)
  \/ Take(r)
  \/ Miss(r)
  \/ \E a \in Answers : Answer(r, a)

Spec == Init /\ [][Next]_avars
=============================================================================
