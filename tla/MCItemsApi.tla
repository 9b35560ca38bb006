----------------------------- MODULE MCItemsApi -----------------------------
(* Values for the constants of ItemsApi.                                    *)
EXTENDS ItemsApi, TLC

CONSTANTS r1, r2, i1, i2, a, c1, c2

OwnConn == r1 :> c1 @@ r2 :> c2
OneConn == [r \in Requests |-> c1]

Patch(name, active) == [name |-> name, is_active |-> active]

(* Every writer of a row that exists or comes into being.                   *)
Writers ==
  {[kind |-> "soft_delete", id |-> i1],
   [kind |-> "update", id |-> i1, data |-> Patch(Unset, TRUE)],
   [kind |-> "hard_delete", id |-> i1],
   [kind |-> "create", id |-> i2, data |-> [name |-> a, is_active |-> TRUE]]}

(* The writers, and a request whose session never commits.                  *)
SharingOps == Writers \cup {[kind |-> "health"]}

(* With every other operation and the other sorts of PATCH body.            *)
AllSorts ==
  SharingOps
  \cup {[kind |-> "list"], [kind |-> "get", id |-> i1], [kind |-> "publish", id |-> i1]}
  \cup [kind : {"update"}, id : {i1}, data : {Patch(Null, Unset), Patch(Unset, Unset)}]
=============================================================================
