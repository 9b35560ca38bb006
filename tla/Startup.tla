------------------------------- MODULE Startup -------------------------------
(****************************************************************************)
(* The lifespan of every worker process of one deployment: the settings are *)
(* read, create_all_tables() checks and creates the schema of the database  *)
(* all workers share, the producer is connected or given up, the consumer   *)
(* task is started, and at shutdown everything is ended in order.  Each     *)
(* statement of create_all() and each await of the lifespan is an action.   *)
(****************************************************************************)
EXTENDS Settings, Naturals

CONSTANTS
  Workers,        (* the worker processes uvicorn starts                    *)
  Configured,     (* the settings operators deploy with                     *)
  Transactional,  (* the URLs of databases whose DDL can be rolled back     *)
  MaxFaults       (* bound: crashes, restarts and failing calls             *)

ASSUME StartupAssumption ==
  /\ Configured \subseteq Sources
  /\ Transactional \subseteq Urls
  /\ MaxFaults \in Nat

VARIABLES
  sources,   (* the environment and files of the deployment                 *)
  url,       (* settings.database.url of each worker                        *)
  table,     (* the committed schema: no table, without its indexes, or all *)
  pending,   (* the part each open transaction has created                  *)
  pc,        (* where the lifespan of each worker stands                    *)
  producer,  (* each producer's _connection: unset, set by an attempt that  *)
             (* declared no exchange, with its exchange, or closed          *)
  consumer,  (* the consumer task of each worker                            *)
  link,      (* each consumer's _connection is open                         *)
  left,      (* a connection of the worker was replaced while it was open   *)
  broken,    (* history: an attempt or a close() failed and left one open   *)
  faults     (* counts towards MaxFaults                                    *)

schemaVars   == <<table, pending>>
consumerVars == <<consumer, link>>
brokerVars   == <<producer, consumerVars, left, broken>>
vars == <<sources, url, schemaVars, pc, brokerVars, faults>>

Schema == {"none", "bare", "complete"}
Starting == {"import", "check", "create", "index", "commit", "connect"}
Ending   == {"cancel", "await", "stop", "close", "dispose"}
Ended    == {"stopped", "failed", "aborted", "dead"}
Steps    == Starting \cup {"serving"} \cup Ending \cup Ended

TypeOK ==
  /\ sources \in Configured
  /\ url \in [Workers -> Urls \cup {Absent}]
  /\ table \in Schema
  /\ pending \in [Workers -> Schema]
  /\ pc \in [Workers -> Steps]
  /\ producer \in [Workers -> {"none", "half", "connected", "closed"}]
  /\ consumer \in [Workers -> {"none", "connecting", "consuming", "ended"}]
  /\ link \in [Workers -> BOOLEAN]
  /\ left \in [Workers -> BOOLEAN]
  /\ broken \in [Workers -> BOOLEAN]
  /\ faults \in 0 .. MaxFaults

Init ==
  /\ sources \in Configured
  /\ url = [w \in Workers |-> Absent]
  /\ table = "none"
  /\ pending = [w \in Workers |-> "none"]
  /\ pc = [w \in Workers |-> "import"]
  /\ producer = [w \in Workers |-> "none"]
  /\ consumer = [w \in Workers |-> "none"]
  /\ link = [w \in Workers |-> FALSE]
  /\ left = [w \in Workers |-> FALSE]
  /\ broken = [w \in Workers |-> FALSE]
  /\ faults = 0

Goto(w, step) == pc' = [pc EXCEPT ![w] = step]
Fault == faults < MaxFaults /\ faults' = faults + 1

-----------------------------------------------------------------------------
(* Startup.                                                                 *)

(* app.config is imported; a ValidationError ends the process.              *)
Import(w) ==
  /\ pc[w] = "import"
  /\ IF Valid(sources)
     THEN url' = [url EXCEPT ![w] = DatabaseUrl(sources)] /\ Goto(w, "check")
     ELSE Goto(w, "failed") /\ UNCHANGED url
  /\ UNCHANGED <<sources, schemaVars, brokerVars, faults>>

(* Variant: the catalogue shows what other transactions have not committed. *)
DirtyRead == table # "none" \/ \E w \in Workers : pending[w] # "none"

HasTable == table # "none"

(* create_all() asks the catalogue, and skips a table it finds together with*)
(* its indexes.                                                             *)
Check(w) ==
  /\ pc[w] = "check"
  /\ Goto(w, IF HasTable THEN "connect" ELSE "create")
  /\ UNCHANGED <<sources, url, schemaVars, brokerVars, faults>>

(* Variant: the DDL runs outside of a transaction.                          *)
CreatesAtOnce(w, part) == table' = part /\ UNCHANGED pending

(* engine.begin(): one transaction, where the database has one for DDL.     *)
Creates(w, part) ==
  IF url[w] \in Transactional
  THEN pending' = [pending EXCEPT ![w] = part] /\ UNCHANGED table
  ELSE table' = part /\ UNCHANGED pending

(* CREATE TABLE waits for a transaction that creates the same table, and    *)
(* fails if there is one by then; the exception ends the worker.            *)
CreateTable(w) ==
  /\ pc[w] = "create"
  /\ \A v \in Workers \ {w} : pending[v] = "none"
  /\ IF HasTable THEN Goto(w, "failed") /\ UNCHANGED schemaVars
                  ELSE Goto(w, "index") /\ Creates(w, "bare")
  /\ UNCHANGED <<sources, url, brokerVars, faults>>

CreateIndexes(w) ==
  /\ pc[w] = "index"
  /\ Creates(w, "complete")
  /\ Goto(w, "commit")
  /\ UNCHANGED <<sources, url, brokerVars, faults>>

Commit(w) ==
  /\ pc[w] = "commit"
  /\ table' = IF pending[w] = "none" THEN table ELSE pending[w]
  /\ pending' = [pending EXCEPT ![w] = "none"]
  /\ Goto(w, "connect")
  /\ UNCHANGED <<sources, url, brokerVars, faults>>

(* Any statement of create_all() fails: no connection, the server gone.     *)
StatementFails(w) ==
  /\ pc[w] \in {"check", "create", "index"}
  /\ Fault
  /\ pending' = [pending EXCEPT ![w] = "none"]
  /\ Goto(w, "failed")
  /\ UNCHANGED <<sources, url, table, brokerVars>>

(* The commit fails, before or after the database has carried it out.       *)
CommitFails(w) == \E kept \in {"none", pending[w]} :
  /\ pc[w] = "commit"
  /\ Fault
  /\ table' = IF kept = "none" THEN table ELSE kept
  /\ pending' = [pending EXCEPT ![w] = "none"]
  /\ Goto(w, "failed")
  /\ UNCHANGED <<sources, url, brokerVars>>

(* Variant: the lifespan needs the broker.                                  *)
BrokerNeeded == "failed"

WithoutBroker == "serving"

(* The lifespan's connect() succeeds or gives up, and the service goes on   *)
(* with its consumer task started.  An attempt that fails once              *)
(* connect_robust() has returned leaves its connection in _connection, and  *)
(* the attempt after it replaces that connection without closing it.        *)
Connect(w) == \E outcome \in {"none", "half", "connected"}, retried \in BOOLEAN :
  /\ pc[w] = "connect"
  /\ retried => outcome # "none"
  /\ producer' = [producer EXCEPT ![w] = outcome]
  /\ left' = [left EXCEPT ![w] = retried]
  /\ broken' = [broken EXCEPT ![w] = retried \/ outcome = "half"]
  /\ consumer' = [consumer EXCEPT ![w] = "connecting"]
  /\ Goto(w, IF outcome = "connected" THEN "serving" ELSE WithoutBroker)
  /\ UNCHANGED <<sources, url, schemaVars, link, faults>>

(* A producer that is connected but has no exchange: the publish() of a     *)
(* request connects again.                                                  *)
RequestConnects(w) == \E outcome \in {"half", "connected"} :
  /\ pc[w] = "serving" /\ producer[w] = "half"
  /\ producer' = [producer EXCEPT ![w] = outcome]
  /\ left' = [left EXCEPT ![w] = TRUE]
  /\ UNCHANGED <<sources, url, schemaVars, pc, consumerVars, broken, faults>>

-----------------------------------------------------------------------------
(* The consumer task, by its connection only (see Consumer).                *)

ConsumerConnects(w) ==
  /\ consumer[w] = "connecting"
  /\ consumer' = [consumer EXCEPT ![w] = "consuming"]
  /\ link' = [link EXCEPT ![w] = TRUE]
  /\ left' = [left EXCEPT ![w] = @ \/ link[w]]
  /\ UNCHANGED <<sources, url, schemaVars, pc, producer, broken, faults>>

(* An attempt of start() ends.  If it has entered the context manager of a  *)
(* connection, which may have replaced one that is still open, then that is *)
(* closed, or stays open because close() raises.                            *)
AttemptEnds(w, state, entered, open) ==
  /\ consumer[w] = "consuming" => entered
  /\ ~entered => open = link[w]
  /\ consumer' = [consumer EXCEPT ![w] = state]
  /\ link' = [link EXCEPT ![w] = open]
  /\ left' = [left EXCEPT ![w] = @ \/ (entered /\ link[w] /\ consumer[w] # "consuming")]
  /\ broken' = [broken EXCEPT ![w] = @ \/ open]

(* start() tries again, or ends with an exception that _run_consumer() logs.*)
ConsumerFails(w) ==
  \E state \in {"connecting", "ended"}, entered, open \in BOOLEAN :
    /\ consumer[w] \in {"connecting", "consuming"}
    /\ AttemptEnds(w, state, entered, open)
    /\ Fault
    /\ UNCHANGED <<sources, url, schemaVars, pc, producer>>

-----------------------------------------------------------------------------
(* Shutdown.                                                                *)

Terminate(w) ==
  /\ pc[w] = "serving"
  /\ Goto(w, "cancel")
  /\ UNCHANGED <<sources, url, schemaVars, brokerVars, faults>>

(* The task takes the cancellation, leaves its context managers, which      *)
(* close the connection, and ends.                                          *)
Cancel(w) ==
  /\ pc[w] = "cancel"
  /\ Goto(w, "await")
  /\ IF consumer[w] = "ended"
     THEN UNCHANGED brokerVars
     ELSE /\ \E entered \in BOOLEAN :
               AttemptEnds(w, "ended", entered, link[w] /\ ~entered)
          /\ UNCHANGED producer
  /\ UNCHANGED <<sources, url, schemaVars, faults>>

(* A context manager raises on the way out.  Its exception takes the place  *)
(* of CancelledError, and the retries take it for a failed attempt.         *)
CancelSwallowed(w) == \E state \in {"connecting", "ended"}, open \in BOOLEAN :
  /\ pc[w] = "cancel" /\ consumer[w] \in {"connecting", "consuming"}
  /\ AttemptEnds(w, state, TRUE, open)
  /\ Goto(w, "await")
  /\ Fault
  /\ UNCHANGED <<sources, url, schemaVars, producer>>

(* Variant: the lifespan waits for the task for a while only.               *)
Abandoned(w) == TRUE

TaskEnded(w) == consumer[w] = "ended"

Awaited(w) ==
  /\ pc[w] = "await" /\ TaskEnded(w)
  /\ Goto(w, "stop")
  /\ UNCHANGED <<sources, url, schemaVars, brokerVars, faults>>

(* consumer.stop() closes the connection the task has left open, if any.    *)
StopConsumer(w) ==
  /\ pc[w] = "stop"
  /\ link' = [link EXCEPT ![w] = FALSE]
  /\ Goto(w, "close")
  /\ UNCHANGED <<sources, url, schemaVars, producer, consumer, left, broken, faults>>

(* producer.close() closes the connection of the last attempt only.         *)
HasConnection(w) == producer[w] \in {"half", "connected"}

CloseProducer(w) ==
  /\ pc[w] = "close"
  /\ producer' = [producer EXCEPT ![w] = IF HasConnection(w) THEN "closed" ELSE @]
  /\ Goto(w, "dispose")
  /\ UNCHANGED <<sources, url, schemaVars, consumerVars, left, broken, faults>>

(* stop() or close() raises: the lifespan ends there, and the engine is     *)
(* never disposed of.                                                       *)
CloseFails(w) ==
  /\ (pc[w] = "stop" /\ link[w]) \/ (pc[w] = "close" /\ HasConnection(w))
  /\ Goto(w, "aborted")
  /\ Fault
  /\ UNCHANGED <<sources, url, schemaVars, brokerVars>>

Dispose(w) ==
  /\ pc[w] = "dispose"
  /\ Goto(w, "stopped")
  /\ UNCHANGED <<sources, url, schemaVars, brokerVars, faults>>

-----------------------------------------------------------------------------
(* The processes (external).                                                *)

(* The end of a process closes its connections.                             *)
Disconnected(w) ==
  /\ producer' = [producer EXCEPT ![w] = "none"]
  /\ consumer' = [consumer EXCEPT ![w] = "none"]
  /\ link' = [link EXCEPT ![w] = FALSE]
  /\ left' = [left EXCEPT ![w] = FALSE]
  /\ broken' = [broken EXCEPT ![w] = FALSE]

(* The process dies; its transaction is rolled back.                        *)
Crash(w) ==
  /\ pc[w] \notin Ended
  /\ Fault
  /\ Goto(w, "dead")
  /\ pending' = [pending EXCEPT ![w] = "none"]
  /\ Disconnected(w)
  /\ UNCHANGED <<sources, url, table>>

(* The supervisor starts a process that has ended anew.                     *)
Respawn(w) ==
  /\ pc[w] \in Ended
  /\ Fault
  /\ Goto(w, "import")
  /\ url' = [url EXCEPT ![w] = Absent]
  /\ Disconnected(w)
  /\ UNCHANGED <<sources, schemaVars>>

-----------------------------------------------------------------------------
Begin(w) == Import(w) \/ Check(w) \/ CreateTable(w) \/ CreateIndexes(w) \/ Commit(w) \/ Connect(w)
End(w)   == Cancel(w) \/ Awaited(w) \/ StopConsumer(w) \/ CloseProducer(w) \/ Dispose(w)
Run(w)   == RequestConnects(w) \/ ConsumerConnects(w)

Disturb(w) ==
  \/ StatementFails(w) \/ CommitFails(w) \/ ConsumerFails(w)
  \/ Terminate(w) \/ CancelSwallowed(w) \/ CloseFails(w)
  \/ Crash(w) \/ Respawn(w)

(* The lifespan has nothing to do, or waits for a task that goes on.        *)
Idle == (\A w \in Workers : pc[w] \in {"serving", "await"} \cup Ended) /\ UNCHANGED vars

Next ==
  \/ \E w \in Workers : Begin(w) \/ End(w) \/ Run(w) \/ Disturb(w)
  \/ Idle

Spec == Init /\ [][Next]_vars

(* The lifespan runs, statements return and connect() ends after its last   *)
(* attempt.                                                                 *)
Fairness == \A w \in Workers : WF_vars(Begin(w) \/ End(w))

FairSpec == Spec /\ Fairness

-----------------------------------------------------------------------------
(* Properties.                                                              *)

Serving(w) == pc[w] \in {"connect", "serving"} \cup Ending

(* A worker serves only with its table in place, whichever worker created   *)
(* it and whatever became of that worker; with its indexes too where DDL    *)
(* is transactional.                                                        *)
SchemaBeforeService ==
  \A w \in Workers : Serving(w) =>
    /\ table # "none"
    /\ url[w] \in Transactional => table = "complete"

(* Without faults only invalid settings or a table that another worker has  *)
(* just created end a worker, so that one of them always gets to serve.     *)
SomeWorkerServes ==
  [](faults = 0) /\ Valid(sources) => <>(\E w \in Workers : pc[w] = "serving")

(* A shutdown that completes leaves neither the consumer task running nor a *)
(* connection open that producer or consumer still refers to; the only ones *)
(* it can leave open are those replaced after a failed attempt or close().  *)
StoppedIsClosed ==
  \A w \in Workers : pc[w] = "stopped" =>
    /\ consumer[w] = "ended" /\ ~link[w] /\ ~HasConnection(w)
    /\ left[w] => broken[w]

(* config.py: "Priority (highest -> lowest)".                               *)
SettingsFollowPriority ==
  \A w \in Workers : url[w] # Absent => url[w] = FirstOf(Given(sources))

(* session.py: "Create all tables defined in the ORM models (idempotent)".  *)
CreateAllIsIdempotent ==
  \A w \in Workers : pc[w] = "failed" /\ faults = 0 => ~Valid(sources)

-----------------------------------------------------------------------------
(* The inductive invariant: a transaction that has created the table is     *)
(* alone, and its creator stands where its part says.                       *)
CreatorInv ==
  /\ \A w \in Workers : url[w] = Absent => pc[w] \in {"import", "failed", "dead"}
  /\ \A w \in Workers : url[w] # Absent => url[w] = DatabaseUrl(sources)
  /\ \A w \in Workers : pending[w] # "none" =>
       /\ url[w] \in Transactional /\ table = "none"
       /\ pc[w] \in {"index", "commit"}
       /\ \A v \in Workers \ {w} : pending[v] = "none"
  /\ \A w \in Workers : pc[w] \in {"index", "commit"} =>
       IF url[w] \in Transactional
       THEN pending[w] = (IF pc[w] = "index" THEN "bare" ELSE "complete")
       ELSE table # "none"
  /\ DatabaseUrl(sources) \in Transactional => table # "bare"

(* A shutdown has ended what it has passed, and a connection is out of the  *)
(* hands of a task or an exchange only after a failure.                     *)
ShutdownInv == \A w \in Workers :
  /\ pc[w] \in Starting => consumer[w] = "none" /\ ~link[w]
  /\ pc[w] \in {"stop", "close", "dispose", "stopped"} => consumer[w] = "ended"
  /\ pc[w] \in {"close", "dispose", "stopped"} => ~link[w]
  /\ pc[w] \in {"dispose", "stopped"} => ~HasConnection(w)
  /\ left[w] \/ producer[w] = "half" \/ (link[w] /\ consumer[w] # "consuming") => broken[w]

IInv == CreatorInv /\ SchemaBeforeService /\ ShutdownInv
=============================================================================
