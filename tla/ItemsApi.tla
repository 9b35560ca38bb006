------------------------------- MODULE ItemsApi -------------------------------
(****************************************************************************)
(* The items routes, their per-request database session and the events they *)
(* publish, one action per awaited call.  A request is one asyncio task: it *)
(* runs the handler of app/api/v1/items.py (or the database health check)   *)
(* inside the session of get_db(), and every await lets the others run.     *)
(*                                                                          *)
(* ConnOf says which driver connection the session of a request works on:   *)
(* an injective ConnOf is the queue pool of PostgreSQL and MySQL, a constant*)
(* one is the StaticPool that _build_engine chooses for SQLite.             *)
(****************************************************************************)
EXTENDS ItemTable

CONSTANTS
  Requests,  (* the requests clients may send                               *)
  Conns,     (* the driver connections of the engine's pool                 *)
  ConnOf,    (* the connection each request's session checks out            *)
  Offered,   (* the operations clients send                                 *)
  CommitBeforeResponse,
             (* the installed FastAPI runs the exit code of a dependency    *)
             (* before it sends the response (releases before 0.118) or     *)
             (* after it (later ones); requirements.txt admits both         *)
  NoWrite,   (* a row the transaction of a connection has not written       *)
  NoAnswer   (* no response has been sent                                   *)

ASSUME ItemsApiAssumption ==
  /\ ConnOf \in [Requests -> Conns]
  /\ Offered \subseteq Op
  /\ CommitBeforeResponse \in BOOLEAN
  /\ NoWrite \notin Row \cup {NoRow}
  /\ NoAnswer \notin {"ok", "not_found", "unavailable", "error", "commit_error"}

VARIABLES
  rows,       (* the committed table                                        *)
  pending,    (* per connection, the uncommitted writes of its transaction  *)
  writers,    (* per connection, the requests that made those writes        *)
  applied,    (* history: the requests whose write has been committed       *)
  op,         (* the operation of each request                              *)
  pc,         (* the call each request makes next                           *)
  hit,        (* whether its statement found the row                        *)
  status,     (* the outcome of the handler and of the session's exit       *)
  answer,     (* the response the client has received                       *)
  connected,  (* producer.is_connected                                      *)
  announced   (* whether the request's event reached the exchange           *)

vars == <<rows, pending, writers, applied, op, pc, hit, status, answer,
          connected, announced>>
dbVars    == <<rows, pending, writers, applied>>
replyVars == <<op, answer, connected>>

Steps == {"idle", "execute", "refresh", "count", "publish", "commit",
          "rollback", "close", "respond", "done", "lost"}

Answers == {"ok", "not_found", "unavailable", "error", "commit_error"}

TypeOK ==
  /\ rows \in Table
  /\ pending \in [Conns -> [Ids -> Row \cup {NoRow, NoWrite}]]
  /\ writers \in [Conns -> SUBSET Requests]
  /\ applied \in SUBSET Requests
  /\ op \in [Requests -> Op \cup {IdleOp}]
  /\ pc \in [Requests -> Steps]
  /\ hit \in [Requests -> {"unknown", "yes", "no"}]
  /\ status \in [Requests -> Answers \cup {NoAnswer}]
  /\ answer \in [Requests -> Answers \cup {NoAnswer}]
  /\ connected \in BOOLEAN
  /\ announced \in [Requests -> {"no", "skipped", "yes"}]

Clean == [i \in Ids |-> NoWrite]

Init ==
  /\ rows \in {t \in Table : \A i \in Ids : t[i] = NoRow <=> i \notin Stored}
  /\ pending = [c \in Conns |-> Clean]
  /\ writers = [c \in Conns |-> {}]
  /\ applied = {}
  /\ op = [r \in Requests |-> IdleOp]
  /\ pc = [r \in Requests |-> "idle"]
  /\ hit = [r \in Requests |-> "unknown"]
  /\ status = [r \in Requests |-> NoAnswer]
  /\ answer = [r \in Requests |-> NoAnswer]
  /\ connected \in BOOLEAN
  /\ announced = [r \in Requests |-> "no"]

-----------------------------------------------------------------------------
(* The database: READ COMMITTED with row locks between connections.         *)

(* The table as a statement on connection c sees it.                        *)
Visible(c) ==
  [i \in Ids |-> IF pending[c][i] = NoWrite THEN rows[i] ELSE pending[c][i]]

RowOf(r) == Visible(ConnOf[r])[op[r].id]
Found(r) == RowOf(r) # NoRow

(* Variant: the database takes no row locks.                                *)
UnlockedAlways(r) == TRUE

(* A statement waits for a row another connection has changed; an           *)
(* uncommitted INSERT of another connection is not seen at all.             *)
Unlocked(r) ==
  \A d \in Conns \ {ConnOf[r]} :
     pending[d][op[r].id] = NoWrite \/ rows[op[r].id] = NoRow

Write(r) ==
  /\ pending' = [pending EXCEPT ![ConnOf[r]][op[r].id] = Effect(op[r], RowOf(r))]
  /\ writers' = [writers EXCEPT ![ConnOf[r]] = @ \cup {r}]
  /\ UNCHANGED <<rows, applied>>

(* COMMIT on the connection of r: everything pending on that connection.    *)
Flush(r) ==
  /\ rows' = Visible(ConnOf[r])
  /\ applied' = applied \cup writers[ConnOf[r]]
  /\ pending' = [pending EXCEPT ![ConnOf[r]] = Clean]
  /\ writers' = [writers EXCEPT ![ConnOf[r]] = {}]

(* Variant: the rollback is forgotten.                                      *)
DiscardForgotten(r) == UNCHANGED dbVars

(* ROLLBACK on the connection of r.                                         *)
Discard(r) ==
  /\ pending' = [pending EXCEPT ![ConnOf[r]] = Clean]
  /\ writers' = [writers EXCEPT ![ConnOf[r]] = {}]
  /\ UNCHANGED <<rows, applied>>

-----------------------------------------------------------------------------
(* Control of a request.                                                    *)

Goto(r, step) == pc' = [pc EXCEPT ![r] = step]

(* The handler returns: where the session exits depends on the build.       *)
Finish(r) ==
  /\ status' = [status EXCEPT ![r] = "ok"]
  /\ Goto(r, IF CommitBeforeResponse THEN "commit" ELSE "respond")

(* Variant: the session commits in a `finally`.                             *)
RaiseCommits(r, s) ==
  /\ status' = [status EXCEPT ![r] = s]
  /\ Goto(r, "commit")

(* An exception leaves the handler: get_db() rolls back and re-raises.      *)
Raise(r, s) ==
  /\ status' = [status EXCEPT ![r] = s]
  /\ Goto(r, "rollback")

Looked(r, result) == hit' = [hit EXCEPT ![r] = result]

(* uuid4() never returns an id that is in use.                              *)
Fresh(i) ==
  /\ i \notin Stored
  /\ \A q \in Requests : op[q].kind = "create" => op[q].id # i

Arrive(r) == \E o \in Offered :
  /\ pc[r] = "idle"
  /\ o.kind = "create" => Fresh(o.id)
  /\ op' = [op EXCEPT ![r] = o]
  /\ Goto(r, "execute")
  /\ UNCHANGED <<dbVars, hit, status, answer, connected, announced>>

-----------------------------------------------------------------------------
(* Statements.                                                              *)

(* POST: flush() sends the INSERT.                                          *)
Insert(r) ==
  /\ pc[r] = "execute" /\ op[r].kind = "create"
  /\ Unlocked(r)
  /\ Write(r)
  /\ Looked(r, "yes")
  /\ Goto(r, "refresh")
  /\ UNCHANGED <<replyVars, status, announced>>

(* POST: refresh() reads the new row back and raises when it is gone.       *)
Refresh(r) ==
  /\ pc[r] = "refresh"
  /\ \/ Found(r) /\ Goto(r, "publish") /\ UNCHANGED status
     \/ ~Found(r) /\ Raise(r, "error")
  /\ UNCHANGED <<dbVars, replyVars, hit, announced>>

(* PATCH with an empty body: the service raises before any statement, so    *)
(* the session has no connection to roll back.                              *)
RejectEmptyUpdate(r) ==
  /\ pc[r] = "execute" /\ op[r].kind = "update" /\ NoFields(op[r].data)
  /\ status' = [status EXCEPT ![r] = "not_found"]
  /\ Goto(r, "respond")
  /\ UNCHANGED <<dbVars, replyVars, hit, announced>>

IssuesUpdate(r) ==
  /\ pc[r] = "execute"
  /\ \/ op[r].kind = "update" /\ ~NoFields(op[r].data)
     \/ op[r].kind = "soft_delete"
  /\ Unlocked(r)

(* PATCH and soft DELETE: UPDATE ... RETURNING changed a row.               *)
UpdateHit(r) ==
  /\ IssuesUpdate(r)
  /\ Found(r)
  /\ op[r].kind = "update" => ~SetsNull(op[r].data)
  /\ Write(r)
  /\ Looked(r, "yes")
  /\ IF op[r].kind = "update" THEN Finish(r) ELSE Goto(r, "publish") /\ UNCHANGED status
  /\ UNCHANGED <<replyVars, announced>>

(* UPDATE ... RETURNING returned no row: ValueError, answered 404.          *)
UpdateMiss(r) ==
  /\ IssuesUpdate(r)
  /\ ~Found(r)
  /\ Looked(r, "no")
  /\ Raise(r, "not_found")
  /\ UNCHANGED <<dbVars, replyVars, announced>>

(* PATCH with an explicit null: the NOT NULL constraint fails the UPDATE.   *)
UpdateNull(r) ==
  /\ IssuesUpdate(r)
  /\ Found(r) /\ op[r].kind = "update" /\ SetsNull(op[r].data)
  /\ Raise(r, "error")
  /\ UNCHANGED <<dbVars, replyVars, hit, announced>>

(* hard DELETE: the row count of the statement is never looked at.          *)
HardDelete(r) ==
  /\ pc[r] = "execute" /\ op[r].kind = "hard_delete"
  /\ Unlocked(r)
  /\ \/ Found(r) /\ Write(r) /\ Looked(r, "yes")
     \/ ~Found(r) /\ Looked(r, "no") /\ UNCHANGED dbVars
  /\ Goto(r, "publish")
  /\ UNCHANGED <<replyVars, status, announced>>

(* GET by id; a missing item is a ValueError answered 404.                  *)
GetItem(r) ==
  /\ pc[r] = "execute" /\ op[r].kind = "get"
  /\ \/ Found(r) /\ Looked(r, "yes") /\ Finish(r)
     \/ ~Found(r) /\ Looked(r, "no") /\ Raise(r, "not_found")
  /\ UNCHANGED <<dbVars, replyVars, announced>>

(* POST .../publish: the ValueError of a missing item is not caught.        *)
LookUpToPublish(r) ==
  /\ pc[r] = "execute" /\ op[r].kind = "publish"
  /\ \/ Found(r) /\ Looked(r, "yes") /\ Goto(r, "publish") /\ UNCHANGED status
     \/ ~Found(r) /\ Looked(r, "no") /\ Raise(r, "error")
  /\ UNCHANGED <<dbVars, replyVars, announced>>

(* GET list: the page and the count are two statements.                     *)
ListItems(r) ==
  /\ op[r].kind = "list"
  /\ \/ pc[r] = "execute" /\ Goto(r, "count") /\ UNCHANGED status
     \/ pc[r] = "count" /\ Finish(r)
  /\ UNCHANGED <<dbVars, replyVars, hit, announced>>

(* check_db_health(): SELECT 1 in a session of its own that is closed       *)
(* without a commit.                                                        *)
Ping(r) ==
  /\ pc[r] = "execute" /\ op[r].kind = "health"
  /\ status' = [status EXCEPT ![r] = "ok"]
  /\ Goto(r, "close")
  /\ UNCHANGED <<dbVars, replyVars, hit, announced>>

(* Any statement may fail: no connection in time, the server gone, ...      *)
StatementFails(r) ==
  /\ pc[r] \in {"execute", "refresh", "count"}
  /\ ~(op[r].kind = "update" /\ NoFields(op[r].data))
  /\ IF op[r].kind = "health"
     THEN status' = [status EXCEPT ![r] = "unavailable"] /\ Goto(r, "close")
     ELSE Raise(r, "error")
  /\ UNCHANGED <<dbVars, replyVars, hit, announced>>

-----------------------------------------------------------------------------
(* Events.                                                                  *)

Announce(r, result) == announced' = [announced EXCEPT ![r] = result]

(* No connection to the broker: POST and DELETE go on without the event,    *)
(* .../publish answers 503.                                                 *)
PublishSkipped(r) ==
  /\ pc[r] = "publish" /\ ~connected
  /\ Announce(r, "skipped")
  /\ IF op[r].kind = "publish" THEN Raise(r, "unavailable") ELSE Finish(r)
  /\ UNCHANGED <<dbVars, replyVars, hit>>

PublishAccepted(r) ==
  /\ pc[r] = "publish" /\ connected
  /\ Announce(r, "yes")
  /\ Finish(r)
  /\ UNCHANGED <<dbVars, replyVars, hit>>

(* Variant: the route swallows the exception of publish().                  *)
PublishFailureSwallowed(r) ==
  /\ pc[r] = "publish" /\ connected
  /\ Announce(r, "no")
  /\ Finish(r)
  /\ UNCHANGED <<dbVars, replyVars, hit>>

(* producer.publish() raises; the broker may have taken the message.        *)
PublishFails(r) ==
  /\ pc[r] = "publish" /\ connected
  /\ \E result \in {"no", "yes"} : Announce(r, result)
  /\ Raise(r, "error")
  /\ UNCHANGED <<dbVars, replyVars, hit>>

-----------------------------------------------------------------------------
(* The exit of get_db() and the response.                                   *)

(* Variant: the session is closed without a commit.                         *)
CommitForgotten(r) ==
  /\ pc[r] = "commit"
  /\ Goto(r, "close")
  /\ UNCHANGED <<dbVars, replyVars, hit, status, announced>>

Commit(r) ==
  /\ pc[r] = "commit"
  /\ Flush(r)
  /\ Goto(r, "close")
  /\ UNCHANGED <<replyVars, hit, status, announced>>

(* session.commit() raises, whether or not the server committed.            *)
CommitFails(r) ==
  /\ pc[r] = "commit"
  /\ Flush(r) \/ UNCHANGED dbVars
  /\ Raise(r, "commit_error")
  /\ UNCHANGED <<replyVars, hit, announced>>

Rollback(r) ==
  /\ pc[r] = "rollback"
  /\ Discard(r)
  /\ Goto(r, "close")
  /\ UNCHANGED <<replyVars, hit, status, announced>>

(* The connection goes back to the pool, which resets it with a ROLLBACK.   *)
Close(r) ==
  /\ pc[r] = "close"
  /\ Discard(r)
  /\ Goto(r, IF answer[r] = NoAnswer THEN "respond" ELSE "done")
  /\ UNCHANGED <<replyVars, hit, status, announced>>

(* A build that commits after the response still has the session to exit.   *)
ExitsAfterResponse(r) ==
  ~CommitBeforeResponse /\ status[r] = "ok" /\ op[r].kind # "health"

Respond(r) ==
  /\ pc[r] = "respond"
  /\ answer' = [answer EXCEPT ![r] = status[r]]
  /\ Goto(r, IF ExitsAfterResponse(r) THEN "commit" ELSE "done")
  /\ UNCHANGED <<dbVars, op, connected, hit, status, announced>>

InFlight(r) == pc[r] \notin {"idle", "done", "lost"}

(* The worker process dies: the server rolls its transactions back, the     *)
(* clients in flight get no answer, and the worker that replaces it may or  *)
(* may not reach the broker.                                                *)
Crash ==
  /\ \E r \in Requests : InFlight(r)
  /\ pc' = [r \in Requests |-> IF InFlight(r) THEN "lost" ELSE pc[r]]
  /\ pending' = [c \in Conns |-> Clean]
  /\ writers' = [c \in Conns |-> {}]
  /\ connected' \in BOOLEAN
  /\ UNCHANGED <<rows, applied, op, hit, status, answer, announced>>

-----------------------------------------------------------------------------
Statement(r) ==
  \/ Insert(r) \/ Refresh(r)
  \/ RejectEmptyUpdate(r) \/ UpdateHit(r) \/ UpdateMiss(r) \/ UpdateNull(r)
  \/ HardDelete(r) \/ GetItem(r) \/ LookUpToPublish(r) \/ ListItems(r) \/ Ping(r)

Event(r) == PublishSkipped(r) \/ PublishAccepted(r) \/ PublishFails(r)

Exit(r) == Commit(r) \/ CommitFails(r) \/ Rollback(r) \/ Close(r) \/ Respond(r)

(* Every request has been answered or lost: the clients are done.           *)
AllSettled == (\A r \in Requests : ~InFlight(r) /\ pc[r] # "idle") /\ UNCHANGED vars

Next ==
  \/ \E r \in Requests :
       Arrive(r) \/ Statement(r) \/ StatementFails(r) \/ Event(r) \/ Exit(r)
  \/ Crash
  \/ AllSettled

Spec == Init /\ [][Next]_vars

(* The event loop runs every ready task, and calls to the server and the    *)
(* broker return; none of them has to fail.                                 *)
Fairness == \A r \in Requests : WF_vars(Statement(r) \/ Event(r) \/ Exit(r))

FairSpec == Spec /\ Fairness

-----------------------------------------------------------------------------
(* Properties.                                                              *)

(* No two sessions share a driver connection: a queue pool with a           *)
(* connection for each, never the StaticPool.                               *)
Isolated == \A r, q \in Requests : ConnOf[r] = ConnOf[q] => r = q

Writes(r)    == op[r].kind \in WriteKinds
Announces(r) == op[r].kind \in {"create"} \cup DeleteKinds

(* A client that reads 201, 200 or 204 for a write that found its row can   *)
(* rely on it: the write is in the committed table.  get_db() commits       *)
(* before the response leaves, and nobody else ends its transaction.        *)
AckedIsDurable ==
  \A r \in Requests :
    answer[r] = "ok" /\ Writes(r) /\ hit[r] = "yes" => r \in applied

(* A client that reads 404, 503 or 500 from the handler can retry: get_db() *)
(* rolled its write back and no other request committed it.                 *)
FailedLeavesNoTrace ==
  \A r \in Requests :
    answer[r] \in {"not_found", "unavailable", "error"} => r \notin applied

(* A POST or DELETE whose effect is committed has either sent its event to  *)
(* the exchange or skipped it because the broker was known to be away: an   *)
(* exception of publish() takes the write down with it.                     *)
CommittedIsAnnounced ==
  \A r \in applied : Announces(r) => announced[r] # "no"

(* No request un-deletes: a committed soft-deleted row stays deleted or is  *)
(* removed, whatever PATCH was executing against the row at the time.       *)
DeletedStaysDeleted ==
  [][\A i \in Ids : rows[i] # NoRow /\ rows[i].is_deleted =>
       rows'[i] = NoRow \/ rows'[i].is_deleted]_vars

(* A request that has begun is answered, or lost in a crash: no row lock is *)
(* left behind for it to wait on for ever.                                  *)
EventuallySettled ==
  \A r \in Requests : InFlight(r) ~> ~InFlight(r)

(* The requests with an item to look for that found no row.                 *)
Missed == {r \in Requests : hit[r] = "no"}

Abstract == INSTANCE AtomicItems WITH missed <- Missed

(* With a connection for each session and the commit before the response,   *)
(* sessions, row locks, events, failures and crashes are invisible: every   *)
(* request takes effect in one step or not at all.                          *)
ImplementsAtomicItems == Abstract!Spec

-----------------------------------------------------------------------------
(* The inductive invariant: deletion, whatever connections sessions share.  *)

(* A transaction of this connection has written the row.                    *)
Dirty(c, i) == pending[c][i] # NoWrite

(* An insert has an id that no other one and no stored row has.             *)
FreshInv ==
  /\ \A r, q \in Requests :
       op[r].kind = "create" /\ op[q].kind = "create" /\ op[r].id = op[q].id => r = q
  /\ \A r \in Requests : op[r].kind = "create" => op[r].id \notin Stored

(* Rows are stored or inserted, the uncommitted ones too.                   *)
OriginInv ==
  /\ FreshInv
  /\ \A i \in Ids : rows[i] # NoRow \/ (\E c \in Conns : Dirty(c, i)) =>
       \/ i \in Stored
       \/ \E r \in Requests :
            op[r].kind = "create" /\ op[r].id = i /\ pc[r] \notin {"idle", "execute"}

(* No two connections have written one row, however many requests have      *)
(* through either, and what is written over a deleted row is deleted.       *)
OverwriteInv ==
  /\ \A c, d \in Conns, i \in Ids : Dirty(c, i) /\ Dirty(d, i) => c = d
  /\ \A c \in Conns, i \in Ids :
       Dirty(c, i) /\ rows[i] # NoRow /\ rows[i].is_deleted =>
         pending[c][i] = NoRow \/ pending[c][i].is_deleted

DeletionInv == OriginInv /\ OverwriteInv
-----------------------------------------------------------------------------
(* The inductive invariant: what isolated sessions may rely on besides.     *)

Writing(r) == r \in writers[ConnOf[r]]

(* The handler has succeeded and the session has not committed yet: a build *)
(* that commits after the response is here when it responds.                *)
Uncommitted(r) ==
  pc[r] = "commit" \/ (~CommitBeforeResponse /\ pc[r] = "respond" /\ status[r] = "ok")

(* What a transaction holds: the write of one request, computed from the    *)
(* committed row, which nobody else can have changed meanwhile.             *)
OpenWrite(r) ==
  /\ Writes(r) /\ hit[r] = "yes" /\ r \notin applied
  /\ pc[r] \in {"refresh", "publish", "rollback"} \/ Uncommitted(r)
  /\ pending[ConnOf[r]][op[r].id] = Effect(op[r], rows[op[r].id])
  /\ pending[ConnOf[r]][op[r].id] # NoWrite
  /\ rows[op[r].id] = NoRow <=> op[r].kind = "create"

TransactionInv ==
  /\ \A c \in Conns : \A r \in writers[c] : ConnOf[r] = c
  /\ \A c \in Conns, i \in Ids :
       pending[c][i] # NoWrite => \E r \in writers[c] : op[r].id = i
  /\ \A r \in Requests : Writing(r) => OpenWrite(r)

(* Two open transactions have written different rows.                       *)
LockInv ==
  \A r, q \in Requests :
    Writing(r) /\ Writing(q) /\ op[r].id = op[q].id => r = q

(* Every committed row was stored or inserted, and nobody else inserts it.  *)
IdentityInv ==
  /\ FreshInv
  /\ \A r \in Requests :
       op[r].kind = "create" /\ r \notin applied => rows[op[r].id] = NoRow
  /\ \A i \in Ids : rows[i] # NoRow =>
       i \in Stored \/ \E r \in applied : op[r].kind = "create" /\ op[r].id = i

(* The response is the outcome of the session, or, from a build that sends  *)
(* it first, the success of a handler whose commit may fail afterwards.     *)
Replied(r) ==
  IF CommitBeforeResponse
  THEN answer[r] = IF pc[r] = "done" THEN status[r] ELSE NoAnswer
  ELSE /\ \/ answer[r] \in {NoAnswer, status[r]}
          \/ answer[r] = "ok" /\ status[r] = "commit_error"
       /\ pc[r] = "commit" \/ (pc[r] = "close" /\ status[r] = "ok" /\ Writes(r)) =>
            answer[r] = "ok"

(* Where a request stands says what it has done.                            *)
Progress(r) ==
  /\ op[r] = IdleOp <=> pc[r] = "idle"
  /\ pc[r] \in {"idle", "execute", "count", "refresh", "publish"} =>
       status[r] = NoAnswer /\ r \notin applied
  /\ pc[r] \in {"idle", "execute", "count"} => hit[r] = "unknown"
  /\ pc[r] = "refresh" => op[r].kind = "create"
  /\ pc[r] = "count" => op[r].kind = "list"
  /\ pc[r] = "publish" => op[r].kind \in {"create", "publish"} \cup DeleteKinds
  /\ pc[r] = "publish" /\ op[r].kind = "publish" => hit[r] = "yes"
  /\ (pc[r] \in {"refresh", "publish"} \/ Uncommitted(r)) /\ Writes(r) =>
       Writing(r) \/ (op[r].kind = "hard_delete" /\ hit[r] = "no")
  /\ Uncommitted(r) => status[r] = "ok" /\ r \notin applied
  /\ pc[r] \in {"close", "respond", "done"} => status[r] # NoAnswer
  /\ pc[r] = "rollback" => status[r] \notin {"ok", NoAnswer}
  /\ pc[r] \in {"close", "respond", "done"} /\ ~Uncommitted(r)
       /\ status[r] = "ok" /\ Writes(r) =>
       r \in applied \/ (op[r].kind = "hard_delete" /\ hit[r] = "no")
  /\ r \in applied => Writes(r) /\ hit[r] = "yes"
  /\ Uncommitted(r) \/ r \in applied => (Announces(r) => announced[r] # "no")
  /\ status[r] \in {"not_found", "unavailable", "error"} => r \notin applied
  /\ hit[r] = "no" => op[r].kind \notin {"create", "list", "health", "none"}
  /\ hit[r] = "no" /\ op[r].kind \in {"get", "publish"} =>
       status[r] \notin {"ok", NoAnswer}
  /\ Replied(r)

ProgressInv == \A r \in Requests : Progress(r)

SessionInv == TransactionInv /\ LockInv /\ IdentityInv /\ ProgressInv

IInv == DeletionInv /\ (Isolated => SessionInv)
=============================================================================
