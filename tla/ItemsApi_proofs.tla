--------------------------- MODULE ItemsApi_proofs ---------------------------
(****************************************************************************)
(* Theorems about ItemsApi for every value of its constants.                *)
(****************************************************************************)
EXTENDS ItemsApi, TLAPS

(* Every operation but the list and the health check names an id.           *)
LEMMA OpHasId ==
  ASSUME NEW o \in Op, o.kind \notin {"list", "health"}
  PROVE  o.id \in Ids /\ o # IdleOp
  BY DEF Op, TableOp, RowOp, CreateOp, UpdateOp, IdleOp

LEMMA OpKinds ==
  ASSUME NEW o \in Op
  PROVE  o.kind \in {"list", "health", "get", "publish"} \cup WriteKinds
  BY DEF Op, TableOp, RowOp, CreateOp, UpdateOp, WriteKinds, DeleteKinds

(* A statement leaves a row or no row, provided it has a row to change and  *)
(* sets no column to null.                                                  *)
LEMMA EffectType ==
  ASSUME NEW o \in Op, o.kind \in WriteKinds,
         NEW row \in Row \cup {NoRow},
         row = NoRow => o.kind = "create",
         o.kind = "update" => ~SetsNull(o.data)
  PROVE  /\ Effect(o, row) \in Row \cup {NoRow}
         /\ o.kind # "hard_delete" => Effect(o, row) \in Row
         /\ o.kind = "hard_delete" => Effect(o, row) = NoRow
<1>1. CASE o.kind = "create"
  <2>1. o.data \in ItemCreate
    BY <1>1 DEF Op, TableOp, RowOp, CreateOp, UpdateOp
  <2>2. Effect(o, row) = InsertedRow(o.data)
    BY <1>1 DEF Effect
  <2> QED BY <1>1, <2>1, <2>2 DEF InsertedRow, ItemCreate, Row
<1>2. CASE o.kind = "update"
  <2>1. o.data \in ItemUpdate /\ ~SetsNull(o.data) /\ row \in Row
    BY <1>2 DEF Op, TableOp, RowOp, CreateOp, UpdateOp
  <2>2. Effect(o, row) = UpdatedRow(row, o.data)
    BY <1>2 DEF Effect
  <2>3. /\ o.data.name \in Names \cup {Unset}
        /\ o.data.is_active \in BOOLEAN \cup {Unset}
    BY <2>1 DEF ItemUpdate, SetsNull
  <2>4. UpdatedRow(row, o.data) \in Row
    BY <2>1, <2>3 DEF UpdatedRow, Row
  <2> QED BY <1>2, <2>2, <2>4
<1>3. CASE o.kind = "soft_delete"
  <2>1. Effect(o, row) = SoftDeletedRow(row) /\ row \in Row
    BY <1>3 DEF Effect
  <2> QED BY <1>3, <2>1 DEF SoftDeletedRow, Row
<1>4. CASE o.kind = "hard_delete"
  BY <1>4 DEF Effect
<1> QED BY <1>1, <1>2, <1>3, <1>4 DEF WriteKinds, DeleteKinds

-----------------------------------------------------------------------------
(* Type correctness.                                                        *)

(* What a session sees is a table.                                          *)
LEMMA VisibleType ==
  ASSUME TypeOK, NEW c \in Conns
  PROVE  Visible(c) \in Table
  BY DEF TypeOK, Visible, Table

LEMMA FlushType ==
  ASSUME TypeOK, NEW r \in Requests, Flush(r)
  PROVE  /\ rows' \in Table
         /\ pending' \in [Conns -> [Ids -> Row \cup {NoRow, NoWrite}]]
         /\ writers' \in [Conns -> SUBSET Requests]
         /\ applied' \in SUBSET Requests
<1>1. ConnOf[r] \in Conns
  BY ItemsApiAssumption
<1>2. Clean \in [Ids -> Row \cup {NoRow, NoWrite}]
  BY DEF Clean
<1> QED BY <1>1, <1>2, VisibleType DEF Flush, TypeOK

LEMMA DiscardType ==
  ASSUME TypeOK, NEW r \in Requests, Discard(r)
  PROVE  /\ rows' \in Table
         /\ pending' \in [Conns -> [Ids -> Row \cup {NoRow, NoWrite}]]
         /\ writers' \in [Conns -> SUBSET Requests]
         /\ applied' \in SUBSET Requests
<1>1. Clean \in [Ids -> Row \cup {NoRow, NoWrite}]
  BY DEF Clean
<1> QED BY <1>1 DEF Discard, TypeOK

LEMMA WriteType ==
  ASSUME TypeOK, NEW r \in Requests, Write(r),
         op[r].kind \in WriteKinds,
         ~Found(r) => op[r].kind = "create",
         op[r].kind = "update" => ~SetsNull(op[r].data)
  PROVE  /\ rows' \in Table
         /\ pending' \in [Conns -> [Ids -> Row \cup {NoRow, NoWrite}]]
         /\ writers' \in [Conns -> SUBSET Requests]
         /\ applied' \in SUBSET Requests
<1>1. ConnOf[r] \in Conns
  BY ItemsApiAssumption
<1>2. op[r] \in Op
  BY DEF TypeOK, IdleOp, WriteKinds, DeleteKinds
<1>3. op[r].id \in Ids
  BY <1>2, OpHasId DEF WriteKinds, DeleteKinds
<1>4. RowOf(r) \in Row \cup {NoRow}
  BY <1>1, <1>3, VisibleType DEF RowOf, Table
<1>5. Effect(op[r], RowOf(r)) \in Row \cup {NoRow}
  BY <1>2, <1>4, EffectType DEF Found
<1> QED BY <1>1, <1>3, <1>5 DEF Write, TypeOK

LEMMA InitType == Init => TypeOK
  BY ItemsApiAssumption, ItemTableAssumption
  DEF Init, TypeOK, Table, Clean, Steps, Answers

LEMMA StepType == TypeOK /\ [Next]_vars => TypeOK'
<1> SUFFICES ASSUME TypeOK, [Next]_vars PROVE TypeOK'
  OBVIOUS
<1> USE DEF dbVars, replyVars, Goto, Finish, Raise, Looked, Announce, Steps, Answers
<1>1. ASSUME NEW r \in Requests, Arrive(r) PROVE TypeOK'
  BY <1>1, ItemsApiAssumption DEF Arrive, TypeOK
<1>2. ASSUME NEW r \in Requests, Statement(r) PROVE TypeOK'
  <2>1. CASE Insert(r)
    <3>1. op[r].kind \in WriteKinds
      BY <2>1 DEF Insert, WriteKinds
    <3> QED BY <2>1, <3>1, WriteType DEF Insert, TypeOK
  <2>2. CASE Refresh(r)
    BY <2>2 DEF Refresh, TypeOK
  <2>3. CASE RejectEmptyUpdate(r)
    BY <2>3 DEF RejectEmptyUpdate, TypeOK
  <2>4. CASE UpdateHit(r)
    <3>1. op[r].kind \in WriteKinds
      BY <2>4 DEF UpdateHit, IssuesUpdate, WriteKinds, DeleteKinds
    <3>2. Write(r) /\ Found(r) /\ (op[r].kind = "update" => ~SetsNull(op[r].data))
      BY <2>4 DEF UpdateHit
    <3>3. /\ rows' \in Table
          /\ pending' \in [Conns -> [Ids -> Row \cup {NoRow, NoWrite}]]
          /\ writers' \in [Conns -> SUBSET Requests]
          /\ applied' \in SUBSET Requests
      BY <3>1, <3>2, WriteType
    <3> QED BY <2>4, <3>3 DEF UpdateHit, TypeOK
  <2>5. CASE UpdateMiss(r)
    BY <2>5 DEF UpdateMiss, TypeOK
  <2>6. CASE UpdateNull(r)
    BY <2>6 DEF UpdateNull, TypeOK
  <2>7. CASE HardDelete(r)
    <3>1. CASE Found(r) /\ Write(r)
      <4>1. op[r].kind \in WriteKinds
        BY <2>7 DEF HardDelete, WriteKinds, DeleteKinds
      <4> QED BY <2>7, <3>1, <4>1, WriteType DEF HardDelete, TypeOK
    <3>2. CASE ~Found(r)
      BY <2>7, <3>2 DEF HardDelete, TypeOK
    <3> QED BY <2>7, <3>1, <3>2 DEF HardDelete
  <2>8. CASE GetItem(r)
    BY <2>8 DEF GetItem, TypeOK
  <2>9. CASE LookUpToPublish(r)
    BY <2>9 DEF LookUpToPublish, TypeOK
  <2>10. CASE ListItems(r)
    BY <2>10 DEF ListItems, TypeOK
  <2>11. CASE Ping(r)
    BY <2>11 DEF Ping, TypeOK
  <2> QED BY <1>2, <2>1, <2>2, <2>3, <2>4, <2>5, <2>6, <2>7, <2>8, <2>9, <2>10, <2>11
          DEF Statement
<1>3. ASSUME NEW r \in Requests, StatementFails(r) PROVE TypeOK'
  BY <1>3 DEF StatementFails, TypeOK
<1>4. ASSUME NEW r \in Requests, Event(r) PROVE TypeOK'
  <2>1. CASE PublishSkipped(r)
    BY <2>1 DEF PublishSkipped, TypeOK
  <2>2. CASE PublishAccepted(r)
    BY <2>2 DEF PublishAccepted, TypeOK
  <2>3. CASE PublishFails(r)
    BY <2>3 DEF PublishFails, TypeOK
  <2> QED BY <1>4, <2>1, <2>2, <2>3 DEF Event
<1>5. ASSUME NEW r \in Requests, Exit(r) PROVE TypeOK'
  <2>1. CASE Commit(r)
    BY <2>1, FlushType DEF Commit, TypeOK
  <2>2. CASE CommitFails(r)
    <3>1. CASE Flush(r)
      BY <2>2, <3>1, FlushType DEF CommitFails, TypeOK
    <3>2. CASE UNCHANGED dbVars
      BY <2>2, <3>2 DEF CommitFails, TypeOK
    <3> QED BY <2>2, <3>1, <3>2 DEF CommitFails
  <2>3. CASE Rollback(r)
    BY <2>3, DiscardType DEF Rollback, TypeOK
  <2>4. CASE Close(r)
    BY <2>4, DiscardType DEF Close, TypeOK
  <2>5. CASE Respond(r)
    BY <2>5 DEF Respond, TypeOK
  <2> QED BY <1>5, <2>1, <2>2, <2>3, <2>4, <2>5 DEF Exit
<1>6. CASE Crash
  BY <1>6 DEF Crash, TypeOK, Clean
<1>7. CASE UNCHANGED vars
  BY <1>7 DEF vars, TypeOK
<1> QED BY <1>1, <1>2, <1>3, <1>4, <1>5, <1>6, <1>7 DEF Next, AllSettled

(* In every build and with any pool, the variables keep to their types; in  *)
(* particular no PATCH or commit leaves half a row in the table.            *)
THEOREM TypeCorrect == Spec => []TypeOK
  BY InitType, StepType, PTL DEF Spec

-----------------------------------------------------------------------------
(* The inductive invariant of isolated sessions, in either build.           *)

LEMMA WriterHasId ==
  ASSUME TypeOK, NEW r \in Requests, Writes(r)
  PROVE  op[r] \in Op /\ op[r].id \in Ids
<1>1. op[r] \in Op
  BY DEF TypeOK, IdleOp, Writes, WriteKinds, DeleteKinds
<1> QED BY <1>1, OpHasId DEF Writes, WriteKinds, DeleteKinds

(* The connection of a session that has written nothing has nothing to      *)
(* commit, and shows the committed table.                                   *)
LEMMA IdleConnection ==
  ASSUME Isolated, TypeOK, TransactionInv, NEW r \in Requests, ~Writing(r)
  PROVE  /\ writers[ConnOf[r]] = {}
         /\ \A i \in Ids : pending[ConnOf[r]][i] = NoWrite
         /\ Visible(ConnOf[r]) = rows
<1>1. ConnOf[r] \in Conns
  BY ItemsApiAssumption
<1>2. writers[ConnOf[r]] = {}
  BY <1>1 DEF Isolated, TypeOK, TransactionInv, Writing
<1>3. \A i \in Ids : pending[ConnOf[r]][i] = NoWrite
  BY <1>1, <1>2 DEF TransactionInv
<1>4. rows = [i \in Ids |-> rows[i]]
  BY DEF TypeOK, Table
<1> QED BY <1>2, <1>3, <1>4 DEF Visible

(* The connection of a session that has written holds that write alone.     *)
LEMMA WritingConnection ==
  ASSUME Isolated, TypeOK, TransactionInv, NEW r \in Requests, Writing(r)
  PROVE  /\ writers[ConnOf[r]] = {r}
         /\ op[r] \in Op /\ op[r].id \in Ids
         /\ Visible(ConnOf[r]) =
              [rows EXCEPT ![op[r].id] = Effect(op[r], rows[op[r].id])]
<1>1. ConnOf[r] \in Conns
  BY ItemsApiAssumption
<1>2. writers[ConnOf[r]] = {r}
  BY <1>1 DEF Isolated, TypeOK, TransactionInv, Writing
<1>3. OpenWrite(r)
  BY DEF TransactionInv
<1>4. op[r] \in Op /\ op[r].id \in Ids
  BY <1>3, WriterHasId DEF OpenWrite
<1>5. \A i \in Ids : pending[ConnOf[r]][i] # NoWrite => i = op[r].id
  BY <1>1, <1>2 DEF TransactionInv
<1>6. rows = [i \in Ids |-> rows[i]]
  BY DEF TypeOK, Table
<1> QED BY <1>2, <1>3, <1>4, <1>5, <1>6 DEF Visible, OpenWrite

(* What a step leaves alone of a request it is not about.                   *)
Untouched(q) ==
  /\ op'[q] = op[q] /\ pc'[q] = pc[q] /\ hit'[q] = hit[q]
  /\ status'[q] = status[q] /\ answer'[q] = answer[q] /\ announced'[q] = announced[q]
  /\ q \in applied' <=> q \in applied
  /\ Writing(q)' <=> Writing(q)

LEMMA UntouchedProgress ==
  ASSUME NEW q \in Requests, Progress(q), Untouched(q)
  PROVE  Progress(q)'
  BY DEF Progress, Untouched, Writes, Announces, Uncommitted, Replied

DbInv == TransactionInv /\ LockInv /\ IdentityInv

(* What the database part of the invariant reads of a request.              *)
Unmoved(q) == pc'[q] = pc[q] /\ hit'[q] = hit[q] /\ status'[q] = status[q]

(* A step without effect on the database keeps the database part of the     *)
(* invariant if an open write stays open.                                   *)
LEMMA QuietStep ==
  ASSUME DbInv, NEW r \in Requests,
         UNCHANGED <<rows, pending, writers, applied, op>>,
         \A q \in Requests \ {r} : Unmoved(q),
         Writing(r) => /\ hit'[r] = hit[r]
                       /\ pc'[r] \in {"refresh", "publish", "rollback"} \/ Uncommitted(r)'
  PROVE  DbInv'
<1>1. \A q \in Requests : Writing(q)' <=> Writing(q)
  BY DEF Writing
<1>2. \A q \in Requests : Writing(q)' => OpenWrite(q)'
  BY <1>1 DEF DbInv, TransactionInv, OpenWrite, Writes, Unmoved, Uncommitted
<1> QED BY <1>1, <1>2 DEF DbInv, TransactionInv, LockInv, IdentityInv, FreshInv

(* A statement that writes opens one write, of a row no open write has.     *)
LEMMA WriteStep ==
  ASSUME Isolated, TypeOK, DbInv, NEW r \in Requests, Progress(r),
         pc[r] = "execute", Writes(r),
         Unlocked(r), Found(r) <=> op[r].kind # "create",
         op[r].kind = "update" => ~SetsNull(op[r].data),
         Write(r), op' = op,
         \A q \in Requests \ {r} : Unmoved(q),
         hit'[r] = "yes", pc'[r] \in {"refresh", "publish"} \/ Uncommitted(r)'
  PROVE  /\ DbInv'
         /\ Writing(r)'
         /\ \A q \in Requests \ {r} : Writing(q)' <=> Writing(q)
<1> DEFINE c == ConnOf[r]
           i == op[r].id
<1>1. c \in Conns /\ op[r] \in Op /\ i \in Ids
  BY ItemsApiAssumption, WriterHasId
<1>2. ~Writing(r)
  BY DEF DbInv, TransactionInv, OpenWrite, Uncommitted
<1>3. writers[c] = {} /\ Visible(c) = rows /\ \A j \in Ids : pending[c][j] = NoWrite
  BY <1>2, IdleConnection DEF DbInv
<1>4. RowOf(r) = rows[i] /\ (rows[i] = NoRow <=> op[r].kind = "create")
  BY <1>3 DEF RowOf, Found
<1>5. Effect(op[r], rows[i]) \in Row \cup {NoRow}
  <2>1. rows[i] \in Row \cup {NoRow}
    BY <1>1 DEF TypeOK, Table
  <2> QED BY <1>1, <1>4, <2>1, EffectType DEF Writes
<1>6. Effect(op[r], rows[i]) # NoWrite
  BY <1>5, ItemsApiAssumption
<1>7. /\ pending' = [pending EXCEPT ![c][i] = Effect(op[r], rows[i])]
      /\ writers' = [writers EXCEPT ![c] = {r}]
      /\ rows' = rows /\ applied' = applied
  BY <1>3, <1>4 DEF Write
<1>8. \A q \in Requests \ {r} : ConnOf[q] # c
  BY DEF Isolated
<1>9. /\ Writing(r)'
      /\ \A q \in Requests \ {r} : Writing(q)' <=> Writing(q)
  BY <1>1, <1>7, <1>8, ItemsApiAssumption DEF Writing, TypeOK
<1>10. r \notin applied
  BY DEF Progress
<1>11. TransactionInv'
  <2>1. \A d \in Conns : \A q \in writers'[d] : ConnOf[q] = d
    BY <1>1, <1>7 DEF DbInv, TransactionInv, TypeOK
  <2>2. ASSUME NEW d \in Conns, NEW j \in Ids, pending'[d][j] # NoWrite
        PROVE  \E q \in writers'[d] : op'[q].id = j
    <3>1. CASE d = c
      BY <1>1, <1>3, <1>7, <2>2, <3>1 DEF TypeOK
    <3>2. CASE d # c
      BY <1>1, <1>7, <2>2, <3>2 DEF TypeOK, DbInv, TransactionInv
    <3> QED BY <3>1, <3>2
  <2>3. OpenWrite(r)'
    BY <1>1, <1>4, <1>6, <1>7, <1>10 DEF OpenWrite, Writes, TypeOK
  <2>4. ASSUME NEW q \in Requests \ {r}, Writing(q)'
        PROVE  OpenWrite(q)'
    <3>1. OpenWrite(q) /\ ConnOf[q] \in Conns
      BY <1>9, <2>4, ItemsApiAssumption DEF DbInv, TransactionInv
    <3>2. pending'[ConnOf[q]] = pending[ConnOf[q]]
      BY <1>1, <1>7, <1>8, <3>1 DEF TypeOK
    <3> QED BY <1>7, <3>1, <3>2 DEF OpenWrite, Writes, Unmoved, Uncommitted
  <2> QED BY <2>1, <2>2, <2>3, <2>4 DEF TransactionInv
<1>12. LockInv'
  <2>1. ASSUME NEW q \in Requests \ {r}, Writing(q)
        PROVE  op[q].id # i
    <3>1. OpenWrite(q) /\ ConnOf[q] \in Conns \ {c}
      BY <1>8, <2>1, ItemsApiAssumption DEF DbInv, TransactionInv
    <3>2. CASE op[r].kind = "create"
      BY <1>4, <3>1, <3>2 DEF OpenWrite, DbInv, IdentityInv, FreshInv
    <3>3. CASE op[r].kind # "create"
      BY <1>4, <3>1, <3>3 DEF OpenWrite, Unlocked
    <3> QED BY <3>2, <3>3
  <2> QED BY <1>9, <2>1 DEF LockInv, DbInv
<1>13. IdentityInv'
  BY <1>7 DEF DbInv, IdentityInv, FreshInv
<1> QED BY <1>9, <1>11, <1>12, <1>13 DEF DbInv

(* A commit moves the open write of the request to the table and marks the  *)
(* request applied; the open writes of others keep their rows.              *)
LEMMA FlushStep ==
  ASSUME Isolated, TypeOK, DbInv, NEW r \in Requests,
         Flush(r), op' = op,
         \A q \in Requests \ {r} : Unmoved(q)
  PROVE  /\ DbInv'
         /\ ~Writing(r)'
         /\ applied' = IF Writing(r) THEN applied \cup {r} ELSE applied
         /\ \A q \in Requests \ {r} : Writing(q)' <=> Writing(q)
<1> DEFINE c == ConnOf[r]
           i == op[r].id
<1>1. c \in Conns
  BY ItemsApiAssumption
<1>2. CASE Writing(r)
  <2>1. /\ writers[c] = {r} /\ op[r] \in Op /\ i \in Ids
        /\ Visible(c) = [rows EXCEPT ![i] = Effect(op[r], rows[i])]
    BY <1>2, WritingConnection DEF DbInv
  <2>2. /\ rows' = [rows EXCEPT ![i] = Effect(op[r], rows[i])]
        /\ applied' = applied \cup {r}
        /\ pending' = [pending EXCEPT ![c] = Clean]
        /\ writers' = [writers EXCEPT ![c] = {}]
    BY <2>1 DEF Flush
  <2>3. \A q \in Requests \ {r} : ConnOf[q] # c
    BY DEF Isolated
  <2>4. ~Writing(r)' /\ \A q \in Requests \ {r} : Writing(q)' <=> Writing(q)
    BY <1>1, <2>2, <2>3, ItemsApiAssumption DEF Writing, TypeOK
  <2>5. OpenWrite(r)
    BY <1>2 DEF DbInv, TransactionInv
  <2>6. \A j \in Ids \ {i} : rows'[j] = rows[j]
    BY <2>1, <2>2 DEF TypeOK, Table
  <2>7. TransactionInv'
    <3>1. \A d \in Conns : \A q \in writers'[d] : ConnOf[q] = d
      BY <1>1, <2>2 DEF DbInv, TransactionInv, TypeOK
    <3>2. ASSUME NEW d \in Conns, NEW j \in Ids, pending'[d][j] # NoWrite
          PROVE  \E q \in writers'[d] : op'[q].id = j
      <4>1. d # c
        BY <1>1, <2>2, <3>2 DEF TypeOK, Clean
      <4> QED BY <1>1, <2>2, <3>2, <4>1 DEF TypeOK, DbInv, TransactionInv
    <3>3. ASSUME NEW q \in Requests, Writing(q)'
          PROVE  OpenWrite(q)'
      <4>1. q # r /\ Writing(q) /\ OpenWrite(q) /\ ConnOf[q] \in Conns
        BY <2>4, <3>3, ItemsApiAssumption DEF DbInv, TransactionInv
      <4>2. pending'[ConnOf[q]] = pending[ConnOf[q]]
        BY <1>1, <2>2, <2>3, <4>1 DEF TypeOK
      <4>3. op[q].id \in Ids /\ op[q].id # i
        BY <1>2, <4>1, WriterHasId DEF OpenWrite, DbInv, LockInv
      <4>4. rows'[op[q].id] = rows[op[q].id]
        BY <2>6, <4>3
      <4> QED BY <2>2, <4>1, <4>2, <4>4 DEF OpenWrite, Writes, Unmoved, Uncommitted
    <3> QED BY <3>1, <3>2, <3>3 DEF TransactionInv
  <2>8. LockInv'
    BY <2>4 DEF DbInv, LockInv
  <2>9. IdentityInv'
    <3>1. ASSUME NEW q \in Requests, op[q].kind = "create", q \notin applied'
          PROVE  rows'[op[q].id] = NoRow
      <4>1. q # r /\ rows[op[q].id] = NoRow
        BY <2>2, <3>1 DEF DbInv, IdentityInv, FreshInv
      <4>2. op[q].id # i
        BY <2>5, <3>1, <4>1 DEF OpenWrite, DbInv, IdentityInv, FreshInv
      <4>3. op[q].id \in Ids
        BY <3>1, WriterHasId DEF Writes, WriteKinds
      <4> QED BY <2>6, <4>1, <4>2, <4>3
    <3>2. ASSUME NEW j \in Ids, rows'[j] # NoRow
          PROVE  j \in Stored \/ \E q \in applied' : op[q].kind = "create" /\ op[q].id = j
      <4>1. CASE j # i
        BY <2>2, <2>6, <3>2, <4>1 DEF DbInv, IdentityInv, FreshInv
      <4>2. CASE j = i /\ op[r].kind = "create"
        BY <2>2, <4>2
      <4>3. CASE j = i /\ op[r].kind # "create"
        BY <2>2, <2>5, <4>3 DEF OpenWrite, DbInv, IdentityInv, FreshInv
      <4> QED BY <4>1, <4>2, <4>3
    <3> QED BY <3>1, <3>2 DEF DbInv, IdentityInv, FreshInv
  <2> QED BY <1>2, <2>2, <2>4, <2>7, <2>8, <2>9 DEF DbInv
<1>3. CASE ~Writing(r)
  <2>1. writers[c] = {} /\ Visible(c) = rows
    BY <1>3, IdleConnection DEF DbInv
  <2>2. /\ rows' = rows /\ applied' = applied
        /\ pending' = [pending EXCEPT ![c] = Clean]
        /\ writers' = [writers EXCEPT ![c] = {}]
    BY <2>1 DEF Flush
  <2>3. writers' = writers
    BY <1>1, <2>1, <2>2 DEF TypeOK
  <2>4. \A q \in Requests : Writing(q)' <=> Writing(q)
    BY <2>3 DEF Writing
  <2>5. TransactionInv'
    <3>1. ASSUME NEW d \in Conns, NEW j \in Ids, pending'[d][j] # NoWrite
          PROVE  pending[d][j] # NoWrite
      BY <1>1, <2>2, <3>1 DEF TypeOK, Clean
    <3>2. ASSUME NEW q \in Requests, Writing(q)
          PROVE  OpenWrite(q)'
      <4>1. q # r /\ OpenWrite(q) /\ ConnOf[q] \in Conns \ {c}
        BY <1>3, <3>2, ItemsApiAssumption DEF DbInv, TransactionInv, Isolated
      <4>2. pending'[ConnOf[q]] = pending[ConnOf[q]]
        BY <1>1, <2>2, <4>1 DEF TypeOK
      <4> QED BY <2>2, <4>1, <4>2 DEF OpenWrite, Writes, Unmoved, Uncommitted
    <3> QED BY <2>3, <2>4, <3>1, <3>2 DEF DbInv, TransactionInv
  <2>6. LockInv' /\ IdentityInv'
    BY <2>2, <2>4 DEF DbInv, LockInv, IdentityInv, FreshInv
  <2> QED BY <1>3, <2>2, <2>4, <2>5, <2>6 DEF DbInv
<1> QED BY <1>2, <1>3

(* A rollback drops the open write of the request and of nobody else.       *)
LEMMA DiscardStep ==
  ASSUME Isolated, TypeOK, DbInv, NEW r \in Requests,
         Discard(r), op' = op,
         \A q \in Requests \ {r} : Unmoved(q)
  PROVE  /\ DbInv'
         /\ ~Writing(r)'
         /\ applied' = applied
         /\ \A q \in Requests \ {r} : Writing(q)' <=> Writing(q)
<1> DEFINE c == ConnOf[r]
<1>1. /\ c \in Conns
      /\ \A q \in Requests \ {r} : ConnOf[q] \in Conns \ {c}
  BY ItemsApiAssumption DEF Isolated
<1>2. /\ rows' = rows /\ applied' = applied
      /\ pending' = [pending EXCEPT ![c] = Clean]
      /\ writers' = [writers EXCEPT ![c] = {}]
  BY DEF Discard
<1>3. ~Writing(r)' /\ \A q \in Requests \ {r} : Writing(q)' <=> Writing(q)
  BY <1>1, <1>2 DEF Writing, TypeOK
<1>4. TransactionInv'
  <2>1. \A d \in Conns : \A q \in writers'[d] : ConnOf[q] = d
    BY <1>1, <1>2 DEF DbInv, TransactionInv, TypeOK
  <2>2. ASSUME NEW d \in Conns, NEW j \in Ids, pending'[d][j] # NoWrite
        PROVE  \E q \in writers'[d] : op'[q].id = j
    <3>1. d # c
      BY <1>1, <1>2, <2>2 DEF TypeOK, Clean
    <3> QED BY <1>1, <1>2, <2>2, <3>1 DEF TypeOK, DbInv, TransactionInv
  <2>3. ASSUME NEW q \in Requests, Writing(q)'
        PROVE  OpenWrite(q)'
    <3>1. q # r /\ OpenWrite(q) /\ ConnOf[q] \in Conns \ {c}
      BY <1>1, <1>3, <2>3 DEF DbInv, TransactionInv
    <3>2. pending'[ConnOf[q]] = pending[ConnOf[q]]
      BY <1>1, <1>2, <3>1 DEF TypeOK
    <3> QED BY <1>2, <3>1, <3>2 DEF OpenWrite, Writes, Unmoved, Uncommitted
  <2> QED BY <2>1, <2>2, <2>3 DEF TransactionInv
<1>5. LockInv' /\ IdentityInv'
  BY <1>2, <1>3 DEF DbInv, LockInv, IdentityInv, FreshInv
<1> QED BY <1>2, <1>3, <1>4, <1>5 DEF DbInv

(* Enough to keep the invariant: the database part, the request a step is   *)
(* about, and that every other request is left alone.                       *)
LEMMA StepOfOne ==
  ASSUME SessionInv, NEW r \in Requests, DbInv', Progress(r)',
         \A q \in Requests \ {r} : Untouched(q)
  PROVE  SessionInv'
<1>1. \A q \in Requests \ {r} : Progress(q)'
  BY UntouchedProgress DEF SessionInv, ProgressInv
<1> QED BY <1>1 DEF SessionInv, DbInv, ProgressInv

LEMMA InitSession == Init => SessionInv
<1> SUFFICES ASSUME Init PROVE SessionInv
  OBVIOUS
<1>1. \A r \in Requests : ~Writing(r)
  BY ItemsApiAssumption DEF Init, Writing
<1>2. TransactionInv
  BY <1>1 DEF Init, TransactionInv, Clean
<1>3. LockInv /\ IdentityInv
  BY <1>1 DEF Init, LockInv, IdentityInv, FreshInv, IdleOp
<1>4. ProgressInv
  BY DEF Init, ProgressInv, Progress, Uncommitted, Replied, IdleOp, Writes, WriteKinds, DeleteKinds
<1> QED BY <1>2, <1>3, <1>4 DEF SessionInv

LEMMA StepSession ==
  ASSUME Isolated, TypeOK, SessionInv, [Next]_vars
  PROVE  SessionInv'
<1> USE DEF dbVars, replyVars, Goto, Raise, Looked, Announce
<1>0. DbInv /\ \A r \in Requests : Progress(r)
  BY DEF SessionInv, DbInv, ProgressInv
<1>n. NoAnswer \notin {"ok", "not_found", "unavailable", "error", "commit_error"}
  BY ItemsApiAssumption
<1> DEFINE last == IF CommitBeforeResponse THEN "commit" ELSE "respond"
<1>f. ASSUME NEW r \in Requests, Finish(r)
      PROVE  status' = [status EXCEPT ![r] = "ok"] /\ pc' = [pc EXCEPT ![r] = last]
  BY <1>f DEF Finish
<1>l. ASSUME NEW r \in Requests, status'[r] = "ok", pc'[r] = last
      PROVE  Uncommitted(r)'
  BY <1>l DEF Uncommitted
<1>w. ASSUME NEW r \in Requests
      PROVE  Writing(r) =>
               Writes(r) /\ (pc[r] \in {"refresh", "publish", "rollback"} \/ Uncommitted(r))
  BY <1>0 DEF DbInv, TransactionInv, OpenWrite
<1>u. ASSUME NEW r \in Requests, UNCHANGED dbVars
      PROVE  \A q \in Requests : /\ Writing(q)' <=> Writing(q)
                                 /\ q \in applied' <=> q \in applied
  BY <1>u DEF Writing
<1>1. ASSUME NEW r \in Requests, Arrive(r) PROVE SessionInv'
  <2>1. PICK o \in Offered :
          /\ pc[r] = "idle"
          /\ o.kind = "create" => Fresh(o.id)
          /\ op' = [op EXCEPT ![r] = o]
          /\ pc' = [pc EXCEPT ![r] = "execute"]
          /\ UNCHANGED <<dbVars, hit, status, answer, connected, announced>>
    BY <1>1 DEF Arrive
  <2>2. o \in Op /\ o # IdleOp
    BY ItemsApiAssumption, OpKinds DEF IdleOp, WriteKinds, DeleteKinds
  <2>3. op[r] = IdleOp /\ hit[r] = "unknown" /\ r \notin applied /\ ~Writing(r)
    BY <2>1, <1>0, <1>w DEF Progress, Uncommitted
  <2>4. Progress(r)'
    BY <2>1, <2>2, <2>3, <1>0 DEF Progress, Uncommitted, Replied, Announces, TypeOK
  <2>5. \A q \in Requests \ {r} : Untouched(q)
    BY <2>1, <1>u DEF Untouched, TypeOK
  <2>6. \A q \in Requests : Writing(q)' => OpenWrite(q) /\ op'[q] = op[q] /\ pc'[q] = pc[q] /\ status'[q] = status[q]
    BY <2>1, <2>3, <2>5, <1>0, <1>u DEF Untouched, DbInv, TransactionInv
  <2>7. TransactionInv'
    <3>1. \A d \in Conns : \A q \in writers[d] : q \in Requests /\ ConnOf[q] = d /\ Writing(q)
      BY <1>0 DEF DbInv, TransactionInv, TypeOK, Writing
    <3>2. ASSUME NEW d \in Conns, NEW j \in Ids, pending'[d][j] # NoWrite
          PROVE  \E q \in writers'[d] : op'[q].id = j
      <4>1. PICK q \in writers[d] : op[q].id = j
        BY <2>1, <3>2, <1>0 DEF DbInv, TransactionInv
      <4>2. q # r /\ q \in Requests
        BY <2>3, <3>1, <4>1
      <4> QED BY <2>1, <2>5, <4>1, <4>2 DEF Untouched
    <3> QED BY <2>1, <2>6, <3>1, <3>2 DEF TransactionInv, OpenWrite, Writes, Uncommitted
  <2>8. LockInv'
    BY <2>6, <1>0, <1>u, <2>1 DEF DbInv, LockInv
  <2>9. IdentityInv'
    <3>1. ASSUME o.kind = "create"
          PROVE  /\ o.id \notin Stored
                 /\ \A q \in Requests : op[q].kind = "create" => op[q].id # o.id
                 /\ rows[o.id] = NoRow
      <4>1. Fresh(o.id) /\ o.id \in Ids
        BY <2>1, <2>2, <3>1, OpHasId
      <4> QED BY <4>1, <1>0 DEF Fresh, DbInv, IdentityInv, FreshInv, TypeOK
    <3>2. op'[r] = o /\ \A q \in Requests \ {r} : op'[q] = op[q]
      BY <2>1 DEF TypeOK
    <3>3. \A i \in Ids : rows'[i] # NoRow =>
             i \in Stored \/ \E q \in applied' : op'[q].kind = "create" /\ op'[q].id = i
      BY <2>1, <2>3, <3>2, <1>0 DEF DbInv, IdentityInv, FreshInv, TypeOK
    <3> QED BY <2>1, <3>1, <3>2, <3>3, <1>0 DEF DbInv, IdentityInv, FreshInv
  <2> QED BY <2>4, <2>5, <2>7, <2>8, <2>9, StepOfOne DEF DbInv
<1>2. ASSUME NEW r \in Requests, Statement(r) PROVE SessionInv'
  <2>1. CASE Insert(r)
    <3>1. Writes(r) /\ pc[r] = "execute" /\ ~Writing(r)
      BY <2>1, <1>w DEF Insert, Writes, WriteKinds, Uncommitted
    <3>2. ~Found(r)
      <4>1. Visible(ConnOf[r]) = rows
        BY <3>1, <1>0, IdleConnection DEF DbInv
      <4>2. r \notin applied
        BY <3>1, <1>0 DEF Progress
      <4> QED BY <2>1, <4>1, <4>2, <1>0 DEF Insert, Found, RowOf, DbInv, IdentityInv, FreshInv
    <3>3. /\ DbInv' /\ Writing(r)'
          /\ \A q \in Requests \ {r} : Writing(q)' <=> Writing(q)
      BY <2>1, <3>1, <3>2, <1>0, WriteStep DEF Unmoved, Uncommitted, Insert, TypeOK
    <3>4. Progress(r)'
      BY <2>1, <3>3, <1>0 DEF Insert, Write, Progress, Uncommitted, Replied, Announces, TypeOK
    <3>5. \A q \in Requests \ {r} : Untouched(q)
      BY <2>1, <3>3 DEF Insert, Write, Untouched, TypeOK
    <3> QED BY <3>3, <3>4, <3>5, StepOfOne
  <2>2. CASE Refresh(r)
    <3>1. DbInv'
      BY <2>2, <1>0, QuietStep DEF Unmoved, Uncommitted, Refresh, TypeOK
    <3>2. Progress(r)'
      BY <2>2, <1>0, <1>u, <1>n
        DEF Refresh, Progress, Uncommitted, Replied, Announces, TypeOK, Writes
    <3>3. \A q \in Requests \ {r} : Untouched(q)
      BY <2>2, <1>u DEF Refresh, Untouched, TypeOK
    <3> QED BY <3>1, <3>2, <3>3, StepOfOne
  <2>3. CASE RejectEmptyUpdate(r)
    <3>1. DbInv'
      BY <2>3, <1>0, <1>w, QuietStep DEF Unmoved, Uncommitted, RejectEmptyUpdate, TypeOK
    <3>2. Progress(r)'
      BY <2>3, <1>0, <1>u, <1>n
        DEF RejectEmptyUpdate, Progress, Uncommitted, Replied, Announces, TypeOK, Writes
    <3>3. \A q \in Requests \ {r} : Untouched(q)
      BY <2>3, <1>u DEF RejectEmptyUpdate, Untouched, TypeOK
    <3> QED BY <3>1, <3>2, <3>3, StepOfOne
  <2>4. CASE UpdateHit(r)
    <3>1. /\ Writes(r) /\ op[r].kind \in {"update", "soft_delete"}
          /\ pc[r] = "execute" /\ Found(r) /\ Unlocked(r) /\ Write(r)
      BY <2>4 DEF UpdateHit, IssuesUpdate, Writes, WriteKinds, DeleteKinds
    <3>2. /\ op[r].kind = "update" =>
               status' = [status EXCEPT ![r] = "ok"] /\ pc' = [pc EXCEPT ![r] = last]
          /\ op[r].kind # "update" =>
               status' = status /\ pc' = [pc EXCEPT ![r] = "publish"]
      BY <2>4, <1>f DEF UpdateHit
    <3>3. /\ DbInv' /\ Writing(r)'
          /\ \A q \in Requests \ {r} : Writing(q)' <=> Writing(q)
      BY <2>4, <3>1, <3>2, <1>0, WriteStep DEF Unmoved, Uncommitted, UpdateHit, TypeOK
    <3>4. Progress(r)'
      BY <2>4, <3>1, <3>2, <3>3, <1>0, <1>n
      DEF UpdateHit, Write, Progress, Uncommitted, Replied, Announces, TypeOK, DeleteKinds
    <3>5. \A q \in Requests \ {r} : Untouched(q)
      BY <2>4, <3>2, <3>3 DEF UpdateHit, Write, Untouched, TypeOK
    <3> QED BY <3>3, <3>4, <3>5, StepOfOne
  <2>5. CASE UpdateMiss(r)
    <3>1. pc[r] = "execute" /\ op[r].kind \in {"update", "soft_delete"}
      BY <2>5 DEF UpdateMiss, IssuesUpdate
    <3>2. DbInv'
      BY <2>5, <3>1, <1>0, <1>w, QuietStep DEF Unmoved, Uncommitted, UpdateMiss, TypeOK
    <3>3. Progress(r)'
      BY <2>5, <3>1, <1>0, <1>u, <1>n
        DEF UpdateMiss, Progress, Uncommitted, Replied, Announces, TypeOK, Writes
    <3>4. \A q \in Requests \ {r} : Untouched(q)
      BY <2>5, <1>u DEF UpdateMiss, Untouched, TypeOK
    <3> QED BY <3>2, <3>3, <3>4, StepOfOne
  <2>6. CASE UpdateNull(r)
    <3>1. pc[r] = "execute"
      BY <2>6 DEF UpdateNull, IssuesUpdate
    <3>2. DbInv'
      BY <2>6, <3>1, <1>0, <1>w, QuietStep DEF Unmoved, Uncommitted, UpdateNull, TypeOK
    <3>3. Progress(r)'
      BY <2>6, <3>1, <1>0, <1>u, <1>n
        DEF UpdateNull, Progress, Uncommitted, Replied, Announces, TypeOK, Writes
    <3>4. \A q \in Requests \ {r} : Untouched(q)
      BY <2>6, <1>u DEF UpdateNull, Untouched, TypeOK
    <3> QED BY <3>2, <3>3, <3>4, StepOfOne
  <2>7. CASE HardDelete(r)
    <3>1. Writes(r) /\ pc[r] = "execute" /\ Unlocked(r)
      BY <2>7 DEF HardDelete, Writes, WriteKinds, DeleteKinds
    <3>2. CASE Found(r) /\ Write(r) /\ hit' = [hit EXCEPT ![r] = "yes"]
      <4>1. /\ DbInv' /\ Writing(r)'
            /\ \A q \in Requests \ {r} : Writing(q)' <=> Writing(q)
        BY <2>7, <3>1, <3>2, <1>0, WriteStep DEF Unmoved, Uncommitted, HardDelete, TypeOK
      <4>2. Progress(r)'
        BY <2>7, <3>1, <3>2, <4>1, <1>0
        DEF HardDelete, Write, Progress, Uncommitted, Replied, Announces, TypeOK, DeleteKinds
      <4>3. \A q \in Requests \ {r} : Untouched(q)
        BY <2>7, <3>2, <4>1 DEF HardDelete, Write, Untouched, TypeOK
      <4> QED BY <4>1, <4>2, <4>3, StepOfOne
    <3>3. CASE ~Found(r) /\ UNCHANGED dbVars /\ hit' = [hit EXCEPT ![r] = "no"]
      <4>1. DbInv'
        BY <2>7, <3>1, <3>3, <1>0, <1>w, QuietStep DEF Unmoved, Uncommitted, HardDelete, TypeOK
      <4>2. Progress(r)'
        BY <2>7, <3>1, <3>3, <1>0, <1>u
          DEF HardDelete, Progress, Uncommitted, Replied, Announces, TypeOK, DeleteKinds, Writes
      <4>3. \A q \in Requests \ {r} : Untouched(q)
        BY <2>7, <3>3, <1>u DEF HardDelete, Untouched, TypeOK
      <4> QED BY <4>1, <4>2, <4>3, StepOfOne
    <3> QED BY <2>7, <3>2, <3>3 DEF HardDelete
  <2>8. CASE GetItem(r)
    <3>1. DbInv'
      BY <2>8, <1>0, <1>w, QuietStep DEF Unmoved, Uncommitted, GetItem, Finish, TypeOK
    <3>2. Progress(r)'
      BY <2>8, <1>0, <1>u, <1>f, <1>n
      DEF GetItem, Progress, Uncommitted, Replied, Announces, TypeOK, Writes, WriteKinds,
          DeleteKinds
    <3>3. \A q \in Requests \ {r} : Untouched(q)
      BY <2>8, <1>u DEF GetItem, Finish, Untouched, TypeOK
    <3> QED BY <3>1, <3>2, <3>3, StepOfOne
  <2>9. CASE LookUpToPublish(r)
    <3>1. DbInv'
      BY <2>9, <1>0, <1>w, QuietStep DEF Unmoved, Uncommitted, LookUpToPublish, TypeOK
    <3>2. Progress(r)'
      BY <2>9, <1>0, <1>u, <1>n
      DEF LookUpToPublish, Progress, Uncommitted, Replied, Announces, TypeOK, Writes, WriteKinds,
          DeleteKinds
    <3>3. \A q \in Requests \ {r} : Untouched(q)
      BY <2>9, <1>u DEF LookUpToPublish, Untouched, TypeOK
    <3> QED BY <3>1, <3>2, <3>3, StepOfOne
  <2>10. CASE ListItems(r)
    <3>1. DbInv'
      BY <2>10, <1>0, <1>w, QuietStep DEF Unmoved, Uncommitted, ListItems, Finish, TypeOK
    <3>2. Progress(r)'
      BY <2>10, <1>0, <1>u, <1>f, <1>n
      DEF ListItems, Progress, Uncommitted, Replied, Announces, TypeOK, Writes, WriteKinds,
          DeleteKinds
    <3>3. \A q \in Requests \ {r} : Untouched(q)
      BY <2>10, <1>u DEF ListItems, Finish, Untouched, TypeOK
    <3> QED BY <3>1, <3>2, <3>3, StepOfOne
  <2>11. CASE Ping(r)
    <3>1. DbInv'
      BY <2>11, <1>0, <1>w, QuietStep DEF Unmoved, Uncommitted, Ping, TypeOK
    <3>2. Progress(r)'
      BY <2>11, <1>0, <1>u, <1>n
        DEF Ping, Progress, Uncommitted, Replied, Announces, TypeOK, Writes, WriteKinds, DeleteKinds
    <3>3. \A q \in Requests \ {r} : Untouched(q)
      BY <2>11, <1>u DEF Ping, Untouched, TypeOK
    <3> QED BY <3>1, <3>2, <3>3, StepOfOne
  <2> QED BY <1>2, <2>1, <2>2, <2>3, <2>4, <2>5, <2>6, <2>7, <2>8, <2>9, <2>10, <2>11
          DEF Statement
<1>3. ASSUME NEW r \in Requests, StatementFails(r) PROVE SessionInv'
  <2>1. /\ pc[r] \in {"execute", "refresh", "count"}
        /\ op[r].kind = "health" =>
             status' = [status EXCEPT ![r] = "unavailable"] /\ pc' = [pc EXCEPT ![r] = "close"]
        /\ op[r].kind # "health" =>
             status' = [status EXCEPT ![r] = "error"] /\ pc' = [pc EXCEPT ![r] = "rollback"]
    BY <1>3 DEF StatementFails
  <2>2. DbInv'
    <3>1. Writing(r) => op[r].kind # "health"
      BY <1>w DEF Writes, WriteKinds, DeleteKinds
    <3> QED BY <1>3, <2>1, <3>1, <1>0, QuietStep DEF Unmoved, Uncommitted, StatementFails, TypeOK
  <2>3. Progress(r)'
    BY <1>3, <2>1, <1>0, <1>u, <1>n
      DEF StatementFails, Progress, Uncommitted, Replied, Announces, TypeOK, Writes
  <2>4. \A q \in Requests \ {r} : Untouched(q)
    BY <1>3, <2>1, <1>u DEF StatementFails, Untouched, TypeOK
  <2> QED BY <2>2, <2>3, <2>4, StepOfOne
<1>4. ASSUME NEW r \in Requests, Event(r) PROVE SessionInv'
  <2>1. /\ pc[r] = "publish" /\ UNCHANGED <<dbVars, op, hit, answer>>
        /\ \/ status' = [status EXCEPT ![r] = "unavailable"] /\ pc' = [pc EXCEPT ![r] = "rollback"]
           \/ status' = [status EXCEPT ![r] = "error"] /\ pc' = [pc EXCEPT ![r] = "rollback"]
           \/ status' = [status EXCEPT ![r] = "ok"] /\ pc' = [pc EXCEPT ![r] = last]
              /\ announced'[r] # "no"
        /\ \A q \in Requests \ {r} : announced'[q] = announced[q]
    BY <1>4, <1>f DEF Event, PublishSkipped, PublishAccepted, PublishFails, TypeOK
  <2>2. DbInv'
    BY <2>1, <1>0, QuietStep DEF Unmoved, Uncommitted, TypeOK
  <2>3. Progress(r)'
    BY <2>1, <1>0, <1>u, <1>n DEF Progress, Uncommitted, Replied, Announces, TypeOK, Writes
  <2>4. \A q \in Requests \ {r} : Untouched(q)
    BY <2>1, <1>u DEF Untouched, TypeOK
  <2> QED BY <2>2, <2>3, <2>4, StepOfOne
<1>5. ASSUME NEW r \in Requests, Exit(r) PROVE SessionInv'
  <2>1. ASSUME Flush(r), UNCHANGED <<op, hit, answer, announced>>, pc[r] = "commit",
               \/ pc' = [pc EXCEPT ![r] = "close"] /\ status' = status
               \/ /\ pc' = [pc EXCEPT ![r] = "rollback"]
                  /\ status' = [status EXCEPT ![r] = "commit_error"]
        PROVE  SessionInv'
    <3>1. /\ DbInv' /\ ~Writing(r)'
          /\ applied' = IF Writing(r) THEN applied \cup {r} ELSE applied
          /\ \A q \in Requests \ {r} : Writing(q)' <=> Writing(q)
      BY <2>1, <1>0, FlushStep DEF Unmoved, TypeOK
    <3>2. Writing(r) => Writes(r) /\ hit[r] = "yes"
      BY <1>0 DEF DbInv, TransactionInv, OpenWrite
    <3>3. Progress(r)'
      BY <2>1, <3>1, <3>2, <1>0, <1>n DEF Progress, Uncommitted, Replied, Announces, TypeOK, Writes
    <3>4. \A q \in Requests \ {r} : Untouched(q)
      BY <2>1, <3>1 DEF Untouched, TypeOK
    <3> QED BY <3>1, <3>3, <3>4, StepOfOne
  <2>2. CASE Commit(r)
    BY <2>1, <2>2 DEF Commit
  <2>3. CASE CommitFails(r)
    <3>1. CASE Flush(r)
      BY <2>1, <2>3, <3>1 DEF CommitFails
    <3>2. CASE UNCHANGED dbVars
      <4>1. DbInv'
        BY <2>3, <3>2, <1>0, QuietStep DEF Unmoved, Uncommitted, CommitFails, TypeOK
      <4>2. Progress(r)'
        BY <2>3, <3>2, <1>0, <1>u, <1>n
          DEF CommitFails, Progress, Uncommitted, Replied, Announces, TypeOK, Writes
      <4>3. \A q \in Requests \ {r} : Untouched(q)
        BY <2>3, <3>2, <1>u DEF CommitFails, Untouched, TypeOK
      <4> QED BY <4>1, <4>2, <4>3, StepOfOne
    <3> QED BY <2>3, <3>1, <3>2 DEF CommitFails
  <2>4. ASSUME Discard(r), UNCHANGED <<op, hit, status, answer, announced>>,
               \/ pc[r] = "rollback" /\ pc' = [pc EXCEPT ![r] = "close"]
               \/ pc[r] = "close" /\ answer[r] = NoAnswer /\ pc' = [pc EXCEPT ![r] = "respond"]
               \/ pc[r] = "close" /\ answer[r] # NoAnswer /\ pc' = [pc EXCEPT ![r] = "done"],
               status[r] # NoAnswer,
               pc[r] = "rollback" /\ status[r] = "ok" => FALSE
        PROVE  SessionInv'
    <3>1. /\ DbInv' /\ ~Writing(r)' /\ applied' = applied
          /\ \A q \in Requests \ {r} : Writing(q)' <=> Writing(q)
      BY <2>4, <1>0, DiscardStep DEF Unmoved, TypeOK
    <3>2. Progress(r)'
      BY <2>4, <3>1, <1>0
      DEF Progress, Uncommitted, Replied, Announces, TypeOK, Writes, WriteKinds, DeleteKinds
    <3>3. \A q \in Requests \ {r} : Untouched(q)
      BY <2>4, <3>1 DEF Untouched, TypeOK
    <3> QED BY <3>1, <3>2, <3>3, StepOfOne
  <2>5. CASE Rollback(r)
    BY <2>4, <2>5, <1>0 DEF Rollback, Progress
  <2>6. CASE Close(r)
    BY <2>4, <2>6, <1>0 DEF Close, Progress
  <2>7. CASE Respond(r)
    <3>1. Uncommitted(r) => ExitsAfterResponse(r) \/ op[r].kind = "health"
      BY <2>7 DEF Respond, Uncommitted, ExitsAfterResponse
    <3>2. DbInv'
      BY <2>7, <3>1, <1>0, <1>w, QuietStep
      DEF Respond, Unmoved, Uncommitted, TypeOK, Writes, WriteKinds, DeleteKinds
    <3>3. Progress(r)'
      BY <2>7, <3>1, <1>0, <1>u, <1>n
      DEF Respond, Progress, Uncommitted, Replied, ExitsAfterResponse, Announces, TypeOK,
          Writes, WriteKinds, DeleteKinds
    <3>4. \A q \in Requests \ {r} : Untouched(q)
      BY <2>7, <1>u DEF Respond, Untouched, TypeOK
    <3> QED BY <3>2, <3>3, <3>4, StepOfOne
  <2> QED BY <1>5, <2>2, <2>3, <2>5, <2>6, <2>7 DEF Exit
<1>6. CASE Crash
  <2>1. \A q \in Requests : ~Writing(q)'
    BY <1>6, ItemsApiAssumption DEF Crash, Writing
  <2>2. DbInv'
    BY <1>6, <2>1, <1>0 DEF Crash, DbInv, TransactionInv, LockInv, IdentityInv, FreshInv, Clean
  <2>3. ASSUME NEW q \in Requests PROVE Progress(q)'
    <3>1. pc'[q] = IF InFlight(q) THEN "lost" ELSE pc[q]
      BY <1>6 DEF Crash
    <3> QED BY <1>6, <3>1, <1>0
      DEF Crash, Progress, Uncommitted, Replied, Announces, InFlight, Writes
  <2> QED BY <2>2, <2>3 DEF SessionInv, DbInv, ProgressInv
<1>7. CASE UNCHANGED vars
  <2>1. \A q \in Requests : Untouched(q)
    BY <1>7 DEF vars, Untouched, Writing
  <2>2. ProgressInv'
    BY <2>1, <1>0, UntouchedProgress DEF ProgressInv
  <2>3. DbInv'
    BY <1>7, <1>0
    DEF vars, DbInv, TransactionInv, LockInv, IdentityInv, FreshInv, OpenWrite, Writing, Writes,
        Uncommitted
  <2> QED BY <2>2, <2>3 DEF SessionInv, DbInv
<1> QED BY <1>1, <1>2, <1>3, <1>4, <1>5, <1>6, <1>7 DEF Next, AllSettled

-----------------------------------------------------------------------------
(* Deletion, for any connections and in either build.                       *)

LEMMA EffectKeepsDeleted ==
  ASSUME NEW o, o.kind \in WriteKinds \ {"create"}, NEW row \in Row, row.is_deleted
  PROVE  Effect(o, row) = NoRow \/ Effect(o, row).is_deleted
<1>1. UpdatedRow(row, o.data).is_deleted
  BY DEF UpdatedRow, Row
<1>2. SoftDeletedRow(row).is_deleted
  BY DEF SoftDeletedRow, Row
<1> QED BY <1>1, <1>2 DEF Effect, WriteKinds, DeleteKinds

(* A request that has executed its statement never executes it again.       *)
Executed(q) == pc[q] \notin {"idle", "execute"}

Onward == op' = op /\ \A q \in Requests : Executed(q) => Executed(q)'

(* A statement that writes, and what it has looked at before.               *)
WriteOf(r) ==
  /\ Write(r) /\ Unlocked(r) /\ Onward
  /\ pc[r] = "execute" /\ Executed(r)'
  /\ Writes(r) /\ (op[r].kind # "create" => Found(r))

Emptied == rows' = rows /\ \A c \in Conns : pending'[c] \in {pending[c], Clean}

(* All a step can do to the database.                                       *)
LEMMA Footprint ==
  ASSUME TypeOK, [Next]_vars
  PROVE  \/ \E r \in Requests : Arrive(r) \/ WriteOf(r) \/ (Flush(r) /\ Onward)
         \/ Emptied /\ Onward
<1> USE DEF dbVars, replyVars, Goto, Raise, Finish, Executed, Onward, Emptied
<1>1. ASSUME NEW r \in Requests, Statement(r)
      PROVE  WriteOf(r) \/ (Emptied /\ Onward)
  <2>1. CASE Insert(r)
    BY <2>1 DEF Insert, WriteOf, Writes, WriteKinds, TypeOK
  <2>2. CASE UpdateHit(r)
    BY <2>2 DEF UpdateHit, IssuesUpdate, WriteOf, Writes, WriteKinds, DeleteKinds, TypeOK
  <2>3. CASE HardDelete(r)
    BY <2>3 DEF HardDelete, WriteOf, Writes, WriteKinds, DeleteKinds, TypeOK
  <2>4. CASE Refresh(r) \/ RejectEmptyUpdate(r) \/ UpdateMiss(r) \/ UpdateNull(r)
    BY <2>4 DEF Refresh, RejectEmptyUpdate, UpdateMiss, UpdateNull, TypeOK
  <2>5. CASE GetItem(r) \/ LookUpToPublish(r) \/ ListItems(r) \/ Ping(r)
    BY <2>5 DEF GetItem, LookUpToPublish, ListItems, Ping, TypeOK
  <2> QED BY <1>1, <2>1, <2>2, <2>3, <2>4, <2>5 DEF Statement
<1>2. ASSUME NEW r \in Requests, StatementFails(r) \/ Event(r)
      PROVE  Emptied /\ Onward
  BY <1>2 DEF StatementFails, Event, PublishSkipped, PublishAccepted, PublishFails, TypeOK
<1>3. ASSUME NEW r \in Requests, Exit(r)
      PROVE  (Flush(r) /\ Onward) \/ (Emptied /\ Onward)
  <2>1. CASE Commit(r) \/ CommitFails(r)
    BY <2>1 DEF Commit, CommitFails, TypeOK
  <2>2. CASE Rollback(r) \/ Close(r)
    BY <2>2 DEF Rollback, Close, Discard, TypeOK
  <2>3. CASE Respond(r)
    BY <2>3 DEF Respond, TypeOK
  <2> QED BY <1>3, <2>1, <2>2, <2>3 DEF Exit
<1>4. CASE Crash
  BY <1>4 DEF Crash, InFlight
<1>5. CASE UNCHANGED vars
  BY <1>5 DEF vars
<1> QED BY <1>1, <1>2, <1>3, <1>4, <1>5 DEF Next, AllSettled

(* A row that exists, committed or not, belongs to an executed insert or to *)
(* the stored table.                                                        *)
Known(i) ==
  \/ i \in Stored
  \/ \E r \in Requests : op[r].kind = "create" /\ op[r].id = i /\ Executed(r)

Exists(i) == rows[i] # NoRow \/ \E c \in Conns : Dirty(c, i)

LEMMA OriginByKnown ==
  OriginInv <=>
    /\ \A r, q \in Requests :
         op[r].kind = "create" /\ op[q].kind = "create" /\ op[r].id = op[q].id => r = q
    /\ \A r \in Requests : op[r].kind = "create" => op[r].id \notin Stored
    /\ \A i \in Ids : Exists(i) => Known(i)
  BY DEF OriginInv, FreshInv, Known, Exists, Executed

(* A step without arrivals keeps the origins if it makes nothing of rows    *)
(* that were not there.                                                     *)
LEMMA OriginKept ==
  ASSUME OriginInv, Onward, \A i \in Ids : Exists(i)' => Exists(i) \/ Known(i)'
  PROVE  OriginInv'
<1>1. \A i \in Ids : Known(i) => Known(i)'
  BY DEF Known, Onward
<1>2. \A i \in Ids : Exists(i)' => Known(i)'
  BY <1>1, OriginByKnown
<1>3. /\ \A r, q \in Requests :
           op'[r].kind = "create" /\ op'[q].kind = "create" /\ op'[r].id = op'[q].id => r = q
      /\ \A r \in Requests : op'[r].kind = "create" => op'[r].id \notin Stored
  BY OriginByKnown DEF Onward
<1> QED BY <1>2, <1>3 DEF OriginInv, FreshInv, Known, Exists, Executed

(* The row a statement writes is written on no other connection: an insert  *)
(* has an id of its own, and every other statement waits for the lock.      *)
LEMMA WriteIsAlone ==
  ASSUME TypeOK, DeletionInv, NEW r \in Requests, WriteOf(r)
  PROVE  /\ ConnOf[r] \in Conns /\ op[r].id \in Ids
         /\ \A d \in Conns \ {ConnOf[r]} : ~Dirty(d, op[r].id)
         /\ op[r].kind = "create" => rows[op[r].id] = NoRow
<1> DEFINE c == ConnOf[r]
           i == op[r].id
<1>1. c \in Conns /\ i \in Ids
  BY ItemsApiAssumption, WriterHasId DEF WriteOf
<1>2. CASE op[r].kind = "create"
  <2>1. ~Known(i)
    BY <1>2 DEF WriteOf, DeletionInv, OriginInv, FreshInv, Known, Executed
  <2> QED BY <1>1, <2>1, OriginByKnown DEF DeletionInv, Exists
<1>3. CASE op[r].kind # "create"
  <2>1. RowOf(r) # NoRow
    BY <1>3 DEF WriteOf, Found
  <2>2. rows[i] # NoRow \/ Dirty(c, i)
    BY <1>1, <2>1 DEF RowOf, Visible, Dirty
  <2> QED BY <1>1, <1>3, <2>2 DEF WriteOf, Unlocked, DeletionInv, OverwriteInv, Dirty
<1> QED BY <1>2, <1>3

LEMMA WriteKeepsDeletion ==
  ASSUME TypeOK, DeletionInv, NEW r \in Requests, WriteOf(r)
  PROVE  DeletionInv'
<1> DEFINE c == ConnOf[r]
           i == op[r].id
<1>1. /\ c \in Conns /\ i \in Ids
      /\ \A d \in Conns \ {c} : ~Dirty(d, i)
      /\ op[r].kind = "create" => rows[i] = NoRow
  BY WriteIsAlone
<1>2. /\ rows' = rows
      /\ pending'[c][i] = Effect(op[r], RowOf(r))
      /\ \A d \in Conns, j \in Ids : d # c \/ j # i => pending'[d][j] = pending[d][j]
  BY <1>1 DEF WriteOf, Write, TypeOK
<1>3. \A d \in Conns, j \in Ids : Dirty(d, j)' => Dirty(d, j) \/ (d = c /\ j = i)
  BY <1>2 DEF Dirty
<1>4. OriginInv'
  <2> SUFFICES ASSUME NEW j \in Ids, Exists(j)', ~Exists(j)
               PROVE  Known(j)'
    BY OriginKept DEF WriteOf, DeletionInv
  <2>1. j = i
    BY <1>2, <1>3 DEF Exists
  <2>2. op[r].kind = "create"
    BY <1>1, <2>1 DEF WriteOf, Found, RowOf, Visible, Exists, Dirty
  <2> QED BY <2>1, <2>2 DEF WriteOf, Known, Onward
<1>5. \A d, e \in Conns, j \in Ids : Dirty(d, j)' /\ Dirty(e, j)' => d = e
  BY <1>1, <1>3 DEF DeletionInv, OverwriteInv
<1>6. ASSUME NEW d \in Conns, NEW j \in Ids, Dirty(d, j)', rows'[j] # NoRow, rows'[j].is_deleted
      PROVE  pending'[d][j] = NoRow \/ pending'[d][j].is_deleted
  <2>1. CASE d # c \/ j # i
    BY <1>2, <1>6, <2>1 DEF DeletionInv, OverwriteInv, Dirty
  <2>2. CASE d = c /\ j = i
    <3>1. op[r].kind \in WriteKinds \ {"create"} /\ RowOf(r) # NoRow
      BY <1>1, <1>2, <1>6, <2>2 DEF WriteOf, Writes, Found
    <3>2. RowOf(r) \in Row /\ RowOf(r).is_deleted
      <4>1. rows[i] \in Row /\ rows[i].is_deleted /\ pending[c][i] \in Row \cup {NoRow, NoWrite}
        BY <1>1, <1>2, <1>6, <2>2 DEF TypeOK, Table
      <4>2. RowOf(r) = IF Dirty(c, i) THEN pending[c][i] ELSE rows[i]
        BY <1>1 DEF RowOf, Visible, Dirty
      <4>3. Dirty(c, i) => pending[c][i] = NoRow \/ pending[c][i].is_deleted
        BY <1>1, <1>2, <1>6, <2>2 DEF DeletionInv, OverwriteInv
      <4> QED BY <3>1, <4>1, <4>2, <4>3 DEF Dirty
    <3> QED BY <1>2, <2>2, <3>1, <3>2, EffectKeepsDeleted
  <2> QED BY <2>1, <2>2
<1> QED BY <1>4, <1>5, <1>6 DEF DeletionInv, OverwriteInv

(* What a commit leaves: the rows of its connection, and nothing pending on *)
(* it.                                                                      *)
LEMMA FlushKeepsDeletion ==
  ASSUME TypeOK, DeletionInv, NEW r \in Requests, Flush(r), Onward
  PROVE  DeletionInv'
<1> DEFINE c == ConnOf[r]
<1>1. c \in Conns
  BY ItemsApiAssumption
<1>2. /\ \A j \in Ids : rows'[j] = IF Dirty(c, j) THEN pending[c][j] ELSE rows[j]
      /\ \A d \in Conns, j \in Ids :
           pending'[d][j] = IF d = c THEN NoWrite ELSE pending[d][j]
  BY <1>1 DEF Flush, Visible, Clean, Dirty, TypeOK
<1>3. \A d \in Conns, j \in Ids : Dirty(d, j)' => d # c /\ Dirty(d, j) /\ ~Dirty(c, j)
  BY <1>1, <1>2 DEF Dirty, DeletionInv, OverwriteInv
<1>4. OriginInv'
  <2>1. \A j \in Ids : Exists(j)' => Exists(j)
    BY <1>1, <1>2, <1>3 DEF Exists
  <2> QED BY <2>1, OriginKept DEF DeletionInv
<1>5. OverwriteInv'
  <2>1. \A d, e \in Conns, j \in Ids : Dirty(d, j)' /\ Dirty(e, j)' => d = e
    BY <1>3 DEF DeletionInv, OverwriteInv
  <2>2. \A d \in Conns, j \in Ids : Dirty(d, j)' /\ rows'[j] # NoRow /\ rows'[j].is_deleted =>
           pending'[d][j] = NoRow \/ pending'[d][j].is_deleted
    BY <1>2, <1>3 DEF DeletionInv, OverwriteInv
  <2> QED BY <2>1, <2>2 DEF OverwriteInv
<1> QED BY <1>4, <1>5 DEF DeletionInv

LEMMA EmptiedKeepsDeletion ==
  ASSUME TypeOK, DeletionInv, Emptied, Onward
  PROVE  DeletionInv'
<1>1. \A d \in Conns, j \in Ids : Dirty(d, j)' => Dirty(d, j) /\ pending'[d][j] = pending[d][j]
  BY DEF Emptied, Clean, Dirty
<1>2. OriginInv'
  <2>1. \A j \in Ids : Exists(j)' => Exists(j)
    BY <1>1 DEF Exists, Emptied
  <2> QED BY <2>1, OriginKept DEF DeletionInv
<1>3. OverwriteInv'
  BY <1>1 DEF DeletionInv, OverwriteInv, Emptied
<1> QED BY <1>2, <1>3 DEF DeletionInv

(* uuid4() keeps the ids of inserts apart.                                  *)
LEMMA ArrivalKeepsDeletion ==
  ASSUME TypeOK, DeletionInv, NEW r \in Requests, Arrive(r)
  PROVE  DeletionInv'
<1>1. PICK o \in Offered :
        /\ pc[r] = "idle" /\ (o.kind = "create" => Fresh(o.id))
        /\ op' = [op EXCEPT ![r] = o] /\ pc' = [pc EXCEPT ![r] = "execute"]
        /\ rows' = rows /\ pending' = pending
  BY DEF Arrive, Goto, dbVars
<1>2. op'[r] = o /\ \A q \in Requests \ {r} : op'[q] = op[q] /\ pc'[q] = pc[q]
  BY <1>1 DEF TypeOK
<1>3. \A i \in Ids : Known(i) => Known(i)'
  BY <1>1, <1>2 DEF Known, Executed
<1>4. \A i \in Ids : Exists(i)' => Known(i)'
  BY <1>1, <1>3, OriginByKnown DEF DeletionInv, Exists, Dirty
<1>5. /\ \A p, q \in Requests :
           op'[p].kind = "create" /\ op'[q].kind = "create" /\ op'[p].id = op'[q].id => p = q
      /\ \A q \in Requests : op'[q].kind = "create" => op'[q].id \notin Stored
  BY <1>1, <1>2 DEF Fresh, DeletionInv, OriginInv, FreshInv
<1>6. OriginInv'
  BY <1>4, <1>5 DEF OriginInv, FreshInv, Known, Exists, Executed
<1>7. OverwriteInv'
  BY <1>1 DEF DeletionInv, OverwriteInv, Dirty
<1> QED BY <1>6, <1>7 DEF DeletionInv

LEMMA InitDeletion == Init => DeletionInv
<1> SUFFICES ASSUME Init PROVE DeletionInv
  OBVIOUS
<1>1. \A c \in Conns, i \in Ids : ~Dirty(c, i)
  BY DEF Init, Clean, Dirty
<1>2. \A i \in Ids : rows[i] # NoRow => i \in Stored
  BY DEF Init
<1>3. \A r \in Requests : op[r].kind # "create"
  BY DEF Init, IdleOp
<1> QED BY <1>1, <1>2, <1>3 DEF DeletionInv, FreshInv, OriginInv, OverwriteInv

-----------------------------------------------------------------------------
(* The inductive invariant and what it is for.                              *)

(* However sessions share connections and whenever they commit, rows are    *)
(* stored or inserted, no two connections write one row at a time, and what *)
(* is written over a deleted row is deleted; sessions that share none hold  *)
(* at most one write each, which is the effect of their request on the      *)
(* committed row.                                                           *)
THEOREM Invariance == Spec => [](TypeOK /\ IInv)
<1>1. Init => TypeOK /\ IInv
  BY InitType, InitDeletion, InitSession DEF IInv
<1>2. TypeOK /\ IInv /\ [Next]_vars => (TypeOK /\ IInv)'
  <2> SUFFICES ASSUME TypeOK, IInv, [Next]_vars PROVE TypeOK' /\ IInv'
    OBVIOUS
  <2>1. DeletionInv'
    BY Footprint, ArrivalKeepsDeletion, WriteKeepsDeletion, FlushKeepsDeletion,
       EmptiedKeepsDeletion DEF IInv
  <2>2. Isolated => SessionInv'
    BY StepSession DEF IInv
  <2> QED BY <2>1, <2>2, StepType DEF IInv, Isolated
<1> QED BY <1>1, <1>2, PTL DEF Spec

(* The answer 200, 201 or 204 of a write that found its row is kept: the    *)
(* write is in the table, whatever the other requests, the broker and the   *)
(* crashes of the worker did in between.                                    *)
THEOREM Durability ==
  ASSUME Isolated, CommitBeforeResponse
  PROVE  Spec => []AckedIsDurable
<1>1. TypeOK /\ IInv => AckedIsDurable
  <2> SUFFICES ASSUME IInv, NEW r \in Requests, Writes(r), answer[r] = "ok", hit[r] = "yes"
               PROVE  r \in applied
    BY DEF AckedIsDurable
  <2>1. Progress(r) /\ NoAnswer # "ok"
    BY ItemsApiAssumption DEF IInv, SessionInv, ProgressInv
  <2> QED BY <2>1 DEF Progress, Uncommitted, Replied
<1> QED BY <1>1, Invariance, PTL

(* A request answered 404, 503 or 500 by its handler has changed nothing.   *)
THEOREM Atomicity ==
  ASSUME Isolated
  PROVE  Spec => []FailedLeavesNoTrace
<1>1. TypeOK /\ IInv => FailedLeavesNoTrace
  <2> SUFFICES ASSUME IInv, NEW r \in Requests,
                      answer[r] \in {"not_found", "unavailable", "error"}
               PROVE  r \notin applied
    BY DEF FailedLeavesNoTrace
  <2>1. Progress(r) /\ NoAnswer \notin {"not_found", "unavailable", "error"}
    BY ItemsApiAssumption DEF IInv, SessionInv, ProgressInv
  <2> QED BY <2>1 DEF Progress, Uncommitted, Replied
<1> QED BY <1>1, Invariance, PTL

(* No item is created or deleted without its event having been sent, unless *)
(* the broker was known to be away.                                         *)
THEOREM Announcement ==
  ASSUME Isolated
  PROVE  Spec => []CommittedIsAnnounced
<1>1. TypeOK /\ IInv => CommittedIsAnnounced
  BY DEF TypeOK, IInv, SessionInv, ProgressInv, Progress, CommittedIsAnnounced
<1> QED BY <1>1, Invariance, PTL

(* A soft-deleted item is never un-deleted by a PATCH that was under way,   *)
(* not even by one that has written through a connection it shares with     *)
(* the deleting request, or that commits after its response.                *)
THEOREM Deletion == Spec => DeletedStaysDeleted
<1> DEFINE Stays == \A i \in Ids : rows[i] # NoRow /\ rows[i].is_deleted =>
                      rows'[i] = NoRow \/ rows'[i].is_deleted
<1>1. TypeOK /\ IInv /\ [Next]_vars => [Stays]_vars
  <2> SUFFICES ASSUME TypeOK, IInv, [Next]_vars, NEW i \in Ids,
                      rows[i] # NoRow, rows[i].is_deleted, rows'[i] # rows[i]
               PROVE  rows'[i] = NoRow \/ rows'[i].is_deleted
    OBVIOUS
  <2>1. PICK r \in Requests : Flush(r)
    BY Footprint DEF Arrive, dbVars, WriteOf, Write, Emptied
  <2>2. rows'[i] = pending[ConnOf[r]][i] /\ Dirty(ConnOf[r], i)
    BY <2>1 DEF Flush, Visible, Dirty
  <2> QED BY <2>2, ItemsApiAssumption DEF IInv, DeletionInv, OverwriteInv
<1> QED BY <1>1, Invariance, PTL DEF Spec, DeletedStaysDeleted

-----------------------------------------------------------------------------
(* ItemsApi implements AtomicItems.                                         *)

(* The two modules read the same table module.                              *)
LEMMA SameTable ==
  /\ Abstract!IdleOp = IdleOp /\ Abstract!Op = Op /\ Abstract!Table = Table
  /\ Abstract!WriteKinds = WriteKinds
  /\ \A o, row : Abstract!Effect(o, row) = Effect(o, row)
<1>1. Abstract!Op = Op
  BY DEF Abstract!Op, Op, Abstract!TableOp, TableOp, Abstract!RowOp, RowOp,
         Abstract!CreateOp, CreateOp, Abstract!UpdateOp, UpdateOp,
         Abstract!ItemCreate, ItemCreate, Abstract!ItemUpdate, ItemUpdate
<1>2. \A o, row : Abstract!Effect(o, row) = Effect(o, row)
  BY DEF Abstract!Effect, Effect, Abstract!InsertedRow, InsertedRow,
         Abstract!UpdatedRow, UpdatedRow, Abstract!SoftDeletedRow, SoftDeletedRow
<1> QED BY <1>1, <1>2
        DEF Abstract!IdleOp, IdleOp, Abstract!Table, Table, Abstract!Row, Row,
            Abstract!WriteKinds, WriteKinds, Abstract!DeleteKinds, DeleteKinds

LEMMA InitImplements == Init => Abstract!Init
<1> SUFFICES ASSUME Init PROVE Abstract!Init
  OBVIOUS
<1>1. Missed = {}
  BY DEF Init, Missed
<1> QED BY <1>1, SameTable DEF Init, Abstract!Init

(* A lookup of an isolated session that finds no row is a miss of the table.*)
LEMMA MissImplements ==
  ASSUME Isolated, CommitBeforeResponse, TypeOK, SessionInv, NEW r \in Requests,
         pc[r] = "execute", ~Found(r),
         op[r].kind \in {"get", "publish", "update", "soft_delete", "hard_delete"},
         hit' = [hit EXCEPT ![r] = "no"],
         UNCHANGED <<op, rows, applied, answer>>
  PROVE  Abstract!Next
<1>1. Progress(r) /\ ~Writing(r)
  BY DEF SessionInv, ProgressInv, TransactionInv, OpenWrite, Uncommitted
<1>2. rows[op[r].id] = NoRow
  BY <1>1, IdleConnection DEF SessionInv, Found, RowOf
<1>3. Missed' = Missed \cup {r}
  BY DEF Missed, TypeOK
<1>4. op[r] # IdleOp
  BY DEF IdleOp
<1>5. Abstract!Miss(r)
  BY <1>1, <1>2, <1>3, <1>4, SameTable DEF Abstract!Miss, Progress, Replied
<1> QED BY <1>5 DEF Abstract!Next

(* A commit is the moment the write of the request takes effect.            *)
LEMMA FlushImplements ==
  ASSUME Isolated, CommitBeforeResponse, TypeOK, SessionInv, NEW r \in Requests, pc[r] = "commit",
         Flush(r), UNCHANGED <<op, hit, answer>>
  PROVE  [Abstract!Next]_(Abstract!avars)
<1>1. TransactionInv /\ Progress(r)
  BY DEF SessionInv, ProgressInv
<1>2. Missed' = Missed
  BY DEF Missed
<1>3. CASE Writing(r)
  <2>1. OpenWrite(r)
    BY <1>1, <1>3 DEF TransactionInv
  <2>2. /\ writers[ConnOf[r]] = {r}
        /\ Visible(ConnOf[r]) = [rows EXCEPT ![op[r].id] = Effect(op[r], rows[op[r].id])]
    BY <1>1, <1>3, WritingConnection
  <2>3. Abstract!Take(r)
    BY <1>1, <1>2, <2>1, <2>2, SameTable
    DEF Abstract!Take, Flush, OpenWrite, Writes, Progress, Replied, Missed
  <2> QED BY <2>3 DEF Abstract!Next
<1>4. CASE ~Writing(r)
  <2>1. rows' = rows /\ applied' = applied
    BY <1>1, <1>4, IdleConnection DEF Flush
  <2> QED BY <1>2, <2>1 DEF Abstract!avars
<1> QED BY <1>3, <1>4

LEMMA StepImplements ==
  ASSUME Isolated, CommitBeforeResponse, TypeOK, SessionInv, [Next]_vars
  PROVE  [Abstract!Next]_(Abstract!avars)
<1> USE DEF dbVars, replyVars, Goto, Raise, Looked, Finish
<1>s. ASSUME UNCHANGED <<op, rows, applied, answer>>,
             \A q \in Requests : hit'[q] = "no" <=> hit[q] = "no"
      PROVE  UNCHANGED Abstract!avars
  BY <1>s DEF Abstract!avars, Missed
<1>0. \A r \in Requests : Progress(r)
  BY DEF SessionInv, ProgressInv
<1>1. ASSUME NEW r \in Requests, Arrive(r) PROVE Abstract!Next
  <2>1. PICK o \in Op : op' = [op EXCEPT ![r] = o]
    BY <1>1, ItemsApiAssumption DEF Arrive
  <2>2. op[r] = IdleOp /\ UNCHANGED <<rows, applied, hit, answer>>
    BY <1>0, <1>1 DEF Arrive, Progress
  <2>3. Abstract!Arrive(r, o)
    BY <2>1, <2>2, SameTable DEF Abstract!Arrive, Missed
  <2> QED BY <2>3, SameTable DEF Abstract!Next
<1>2. ASSUME NEW r \in Requests, Statement(r) PROVE [Abstract!Next]_(Abstract!avars)
  <2>u. pc[r] = "execute" => hit[r] = "unknown"
    BY <1>0 DEF Progress
  <2>1. CASE Insert(r)
    BY <1>s, <2>1, <2>u DEF Insert, Write, TypeOK
  <2>2. CASE Refresh(r)
    BY <1>s, <2>2 DEF Refresh
  <2>3. CASE RejectEmptyUpdate(r)
    BY <1>s, <2>3 DEF RejectEmptyUpdate
  <2>4. CASE UpdateHit(r)
    BY <1>s, <2>4, <2>u DEF UpdateHit, IssuesUpdate, Write, TypeOK
  <2>5. CASE UpdateMiss(r)
    BY <2>5, MissImplements DEF UpdateMiss, IssuesUpdate
  <2>6. CASE UpdateNull(r)
    BY <1>s, <2>6 DEF UpdateNull
  <2>7. CASE HardDelete(r)
    <3>1. CASE Found(r)
      BY <1>s, <2>7, <3>1, <2>u DEF HardDelete, Write, TypeOK
    <3>2. CASE ~Found(r)
      BY <2>7, <3>2, MissImplements DEF HardDelete
    <3> QED BY <3>1, <3>2
  <2>8. CASE GetItem(r)
    <3>1. CASE Found(r)
      BY <1>s, <2>8, <3>1, <2>u DEF GetItem, TypeOK
    <3>2. CASE ~Found(r)
      BY <2>8, <3>2, MissImplements DEF GetItem
    <3> QED BY <3>1, <3>2
  <2>9. CASE LookUpToPublish(r)
    <3>1. CASE Found(r)
      BY <1>s, <2>9, <3>1, <2>u DEF LookUpToPublish, TypeOK
    <3>2. CASE ~Found(r)
      BY <2>9, <3>2, MissImplements DEF LookUpToPublish
    <3> QED BY <3>1, <3>2
  <2>10. CASE ListItems(r)
    BY <1>s, <2>10 DEF ListItems
  <2>11. CASE Ping(r)
    BY <1>s, <2>11 DEF Ping
  <2> QED BY <1>2, <2>1, <2>2, <2>3, <2>4, <2>5, <2>6, <2>7, <2>8, <2>9, <2>10, <2>11
          DEF Statement
<1>3. ASSUME NEW r \in Requests, StatementFails(r) PROVE UNCHANGED Abstract!avars
  BY <1>s, <1>3 DEF StatementFails
<1>4. ASSUME NEW r \in Requests, Event(r) PROVE UNCHANGED Abstract!avars
  BY <1>s, <1>4 DEF Event, PublishSkipped, PublishAccepted, PublishFails
<1>5. ASSUME NEW r \in Requests, Exit(r) PROVE [Abstract!Next]_(Abstract!avars)
  <2>1. CASE Commit(r)
    BY <2>1, FlushImplements DEF Commit
  <2>2. CASE CommitFails(r)
    <3>1. CASE Flush(r)
      BY <2>2, <3>1, FlushImplements DEF CommitFails
    <3>2. CASE UNCHANGED dbVars
      BY <1>s, <2>2, <3>2 DEF CommitFails
    <3> QED BY <2>2, <3>1, <3>2 DEF CommitFails
  <2>3. CASE Rollback(r)
    BY <1>s, <2>3 DEF Rollback, Discard
  <2>4. CASE Close(r)
    BY <1>s, <2>4 DEF Close, Discard
  <2>5. CASE Respond(r)
    <3>1. /\ answer' = [answer EXCEPT ![r] = status[r]] /\ Missed' = Missed
          /\ UNCHANGED <<op, rows, applied>>
      BY <2>5 DEF Respond, Missed
    <3>2. /\ op[r] # IdleOp /\ answer[r] = NoAnswer
          /\ status[r] \in Abstract!Answers
      BY <2>5, <1>0 DEF Respond, Progress, Replied, TypeOK, Answers, Abstract!Answers
    <3>3. Abstract!Truthful(r, status[r])
      <4>1. op[r].kind \in WriteKinds /\ status[r] = "ok" =>
              r \in applied \/ (op[r].kind = "hard_delete" /\ r \in Missed)
        BY <2>5, <1>0 DEF Respond, Progress, Uncommitted, Writes, Missed
      <4>2. op[r].kind \in {"get", "publish"} /\ status[r] = "ok" => r \notin Missed
        BY <1>0 DEF Progress, Missed
      <4>3. status[r] \in {"not_found", "unavailable", "error"} => r \notin applied
        BY <1>0 DEF Progress
      <4> QED BY <4>1, <4>2, <4>3, SameTable DEF Abstract!Truthful
    <3>4. Abstract!Answer(r, status[r])
      BY <3>1, <3>2, <3>3, SameTable DEF Abstract!Answer
    <3> QED BY <3>2, <3>4 DEF Abstract!Next
  <2> QED BY <1>5, <2>1, <2>2, <2>3, <2>4, <2>5 DEF Exit
<1>6. CASE Crash
  BY <1>s, <1>6 DEF Crash
<1>7. CASE UNCHANGED vars
  BY <1>s, <1>7 DEF vars
<1> QED BY <1>1, <1>2, <1>3, <1>4, <1>5, <1>6, <1>7 DEF Next, AllSettled

(* Sessions, row locks, events, failing statements and crashes are          *)
(* invisible: every request takes effect in one step or not at all, and its *)
(* answer says which.                                                       *)
THEOREM Refinement ==
  ASSUME Isolated, CommitBeforeResponse
  PROVE  Spec => ImplementsAtomicItems
<1>1. Init => Abstract!Init
  BY InitImplements
<1>2. TypeOK /\ IInv /\ [Next]_vars => [Abstract!Next]_(Abstract!avars)
  BY StepImplements DEF IInv
<1> QED BY <1>1, <1>2, Invariance, PTL DEF Spec, ImplementsAtomicItems, Abstract!Spec
=============================================================================
