------------------------------ MODULE ItemTable ------------------------------
(****************************************************************************)
(* The `items` table and the statements ItemRepository issues against it.   *)
(* A row keeps the columns the routes treat differently: `name` stands for  *)
(* every ordinary NOT NULL column, `is_active` is written by PATCH and by   *)
(* the soft delete, `is_deleted` by the soft delete alone.                  *)
(****************************************************************************)

CONSTANTS
  Ids,     (* every UUID a client may name or uuid4() may return            *)
  Stored,  (* the ids of the rows in the table when the service starts      *)
  Names,   (* values of an ordinary column                                  *)
  Null,    (* an explicit null in a PATCH body                              *)
  Unset,   (* a field absent from a PATCH body                              *)
  NoRow    (* what a lookup of an id without a row returns                  *)

Row == [name : Names, is_active : BOOLEAN, is_deleted : BOOLEAN]

ASSUME ItemTableAssumption ==
  /\ Stored \subseteq Ids
  /\ {Null, Unset} \cap (Names \cup BOOLEAN) = {}
  /\ Null # Unset
  /\ NoRow \notin Row

Table == [Ids -> Row \cup {NoRow}]

----------------------------------------------------------------------------
(* The bodies of POST and PATCH that pass validation, and the requests.     *)

ItemCreate == [name : Names, is_active : BOOLEAN]
ItemUpdate == [name      : Names \cup {Null, Unset},
               is_active : BOOLEAN \cup {Null, Unset}]

IdleOp   == [kind |-> "none"]
TableOp  == [kind : {"list", "health"}]
RowOp    == [kind : {"get", "publish", "soft_delete", "hard_delete"}, id : Ids]
CreateOp == [kind : {"create"}, id : Ids, data : ItemCreate]
UpdateOp == [kind : {"update"}, id : Ids, data : ItemUpdate]
Op       == TableOp \cup RowOp \cup CreateOp \cup UpdateOp

DeleteKinds == {"soft_delete", "hard_delete"}
WriteKinds  == {"create", "update"} \cup DeleteKinds

(* `model_dump(exclude_unset=True)` is empty.                               *)
NoFields(data) == data.name = Unset /\ data.is_active = Unset

(* A column the table declares NOT NULL is set to null.                     *)
SetsNull(data) == Null \in {data.name, data.is_active}

----------------------------------------------------------------------------
(* The effect of the statements.                                            *)

InsertedRow(data) ==
  [name |-> data.name, is_active |-> data.is_active, is_deleted |-> FALSE]

(* Variant: the whole body is written, the absent fields too.               *)
OverwrittenRow(row, data) ==
  [row EXCEPT !.name = data.name, !.is_active = data.is_active]

(* Variant: activating a row restores it.                                   *)
RestoredRow(row, data) ==
  [row EXCEPT !.name       = IF data.name = Unset THEN @ ELSE data.name,
              !.is_active  = IF data.is_active = Unset THEN @ ELSE data.is_active,
              !.is_deleted = @ /\ data.is_active # TRUE]

(* Only the columns present in the body are set.                            *)
UpdatedRow(row, data) ==
  [row EXCEPT !.name      = IF data.name = Unset THEN @ ELSE data.name,
              !.is_active = IF data.is_active = Unset THEN @ ELSE data.is_active]

SoftDeletedRow(row) == [row EXCEPT !.is_deleted = TRUE, !.is_active = FALSE]

(* What the statement of operation o leaves in place of `row`.              *)
Effect(o, row) ==
  CASE o.kind = "create"      -> InsertedRow(o.data)
    [] o.kind = "update"      -> UpdatedRow(row, o.data)
    [] o.kind = "soft_delete" -> SoftDeletedRow(row)
    [] o.kind = "hard_delete" -> NoRow
    [] OTHER                  -> row
=============================================================================
