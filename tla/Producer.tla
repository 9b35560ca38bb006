------------------------------ MODULE Producer ------------------------------
(****************************************************************************)
(* The MessageProducer of one worker process over the life of the process:  *)
(* connected by the lifespan at startup, used by the routes while the       *)
(* service runs, closed at shutdown.  connect() may run in the startup and, *)
(* through publish(), in any number of requests at once; each request keeps *)
(* its pooled database connection while it waits for the broker, and the    *)
(* readiness probe needs one too.                                           *)
(****************************************************************************)
EXTENDS Naturals, FiniteSets

CONSTANTS
  Requests,     (* requests whose route publishes an event                  *)
  Probes,       (* requests for /health/ready                               *)
  Startup,      (* the lifespan, as a caller of connect()                   *)
  None,         (* no connection, no exchange                               *)
  PoolSize,     (* settings.database.pool_size + max_overflow               *)
  MaxAttempts,  (* settings.rabbitmq.max_reconnect_attempts                 *)
  MaxOutages    (* bound: how often the broker goes away                    *)

ASSUME ProducerAssumption ==
  /\ Requests \cap Probes = {}
  /\ Startup \notin Requests \cup Probes
  /\ PoolSize \in Nat \ {0}
  /\ MaxAttempts \in Nat \ {0}
  /\ MaxOutages \in Nat
  /\ None \notin Nat

Callers == Requests \cup {Startup}
Clients == Requests \cup Probes

VARIABLES
  phase,       (* of the lifespan                                           *)
  broker,      (* the broker can be reached                                 *)
  outages,     (* counts towards MaxOutages                                 *)
  opened,      (* the number of connections opened so far                   *)
  open,        (* the connections open now, by number                       *)
  connection,  (* self._connection                                          *)
  exchange,    (* self._exchange, by the connection it was declared on      *)
  sessions,    (* the clients whose session has checked out a connection    *)
  pc,          (* what each caller and each probe does next                 *)
  attempts,    (* failed attempts of each caller's connect()                *)
  mine,        (* the connection the attempt of a caller has opened         *)
  outcome      (* what became of each event, and of each probe              *)

vars == <<phase, broker, outages, opened, open, connection, exchange, sessions,
          pc, attempts, mine, outcome>>
brokerVars   == <<broker, outages>>
producerVars == <<opened, open, connection, exchange>>

callVars     == <<attempts, mine>>

Steps    == {"idle", "query", "route", "connect", "channel", "declare", "send",
             "ping", "exit", "done"}
Outcomes == {"none", "refused", "sent", "skipped", "skipped_while_up", "failed",
             "ready", "not_ready"}

TypeOK ==
  /\ phase \in {"starting", "serving", "stopped"}
  /\ broker \in BOOLEAN
  /\ outages \in 0 .. MaxOutages
  /\ opened \in Nat
  /\ open \in SUBSET (1 .. opened)
  /\ connection \in 1 .. opened \cup {None}
  /\ exchange \in 1 .. opened \cup {None}
  /\ sessions \in SUBSET Clients
  /\ pc \in [Clients \cup {Startup} -> Steps]
  /\ attempts \in [Callers -> 0 .. MaxAttempts]
  /\ mine \in [Callers -> 1 .. opened \cup {None}]
  /\ outcome \in [Clients -> Outcomes]

Init ==
  /\ phase = "starting"
  /\ broker \in BOOLEAN
  /\ outages = 0
  /\ opened = 0
  /\ open = {}
  /\ connection = None
  /\ exchange = None
  /\ sessions = {}
  /\ pc = [c \in Clients \cup {Startup} |-> IF c = Startup THEN "connect" ELSE "idle"]
  /\ attempts = [c \in Callers |-> 0]
  /\ mine = [c \in Callers |-> None]
  /\ outcome = [r \in Clients |-> "none"]

Goto(c, step) == pc' = [pc EXCEPT ![c] = step]

(* The broker (external).                                                   *)
GoesAway ==
  /\ broker /\ outages < MaxOutages
  /\ broker' = FALSE /\ outages' = outages + 1
  /\ UNCHANGED <<phase, producerVars, sessions, pc, callVars, outcome>>

ComesBack ==
  /\ ~broker
  /\ broker' = TRUE
  /\ UNCHANGED <<phase, outages, producerVars, sessions, pc, callVars, outcome>>

(* The lifespan goes on to serve, a request to the exit of its session.     *)
Finish(c, result) ==
  IF c = Startup
  THEN Goto(c, "done") /\ phase' = "serving" /\ UNCHANGED outcome
  ELSE Goto(c, "exit") /\ outcome' = [outcome EXCEPT ![c] = result] /\ UNCHANGED phase

-----------------------------------------------------------------------------
(* connect(), with its retries.                                             *)

(* Variant: the connection that is replaced is closed.                      *)
OpensClosingOld == (open \ {connection}) \cup {opened + 1}

Opens == open \cup {opened + 1}

(* connect_robust() returns: the connection replaces whatever _connection   *)
(* was before.                                                              *)
Connected(c) ==
  /\ pc[c] = "connect" /\ broker
  /\ opened' = opened + 1
  /\ open' = Opens
  /\ connection' = opened + 1
  /\ mine' = [mine EXCEPT ![c] = opened + 1]
  /\ Goto(c, "channel")
  /\ UNCHANGED <<phase, brokerVars, exchange, sessions, attempts, outcome>>

OpenChannel(c) ==
  /\ pc[c] = "channel" /\ broker
  /\ Goto(c, "declare")
  /\ UNCHANGED <<phase, brokerVars, producerVars, sessions, callVars, outcome>>

DeclareExchange(c) ==
  /\ pc[c] = "declare" /\ broker
  /\ exchange' = mine[c]
  /\ IF c = Startup THEN Finish(c, "none")
                    ELSE Goto(c, "send") /\ UNCHANGED <<phase, outcome>>
  /\ UNCHANGED <<brokerVars, opened, open, connection, sessions, callVars>>

(* Variant: an attempt may fail once more than the limit.                   *)
OneMoreAttempt(c) == attempts[c] = MaxAttempts

LastAttempt(c) == attempts[c] + 1 = MaxAttempts

(* Variant: the retries never give up.                                      *)
CountForgotten(c) == UNCHANGED attempts

Count(c) == attempts' = [attempts EXCEPT ![c] = @ + 1]

(* An attempt may fail at any of its calls, while the broker is reachable   *)
(* too (a login refused, an exchange of another type).  The connection it   *)
(* has opened, if it got that far, stays open: nothing closes it, and the   *)
(* next attempt forgets it.                                                 *)
AttemptFails(c) ==
  /\ pc[c] \in {"connect", "channel", "declare"}
  /\ Count(c)
  /\ mine' = [mine EXCEPT ![c] = None]
  /\ IF LastAttempt(c) THEN Finish(c, "failed")
                       ELSE Goto(c, "connect") /\ UNCHANGED <<phase, outcome>>
  /\ UNCHANGED <<brokerVars, producerVars, sessions>>

-----------------------------------------------------------------------------
(* The sessions.                                                            *)

Arrive(c) ==
  /\ phase = "serving" /\ pc[c] = "idle"
  /\ Goto(c, "query")
  /\ UNCHANGED <<phase, brokerVars, producerVars, sessions, callVars, outcome>>

(* The first statement checks a connection out of the pool.                 *)
Query(c) ==
  /\ pc[c] = "query" /\ Cardinality(sessions) < PoolSize
  /\ sessions' = sessions \cup {c}
  /\ Goto(c, IF c \in Probes THEN "ping" ELSE "route")
  /\ UNCHANGED <<phase, brokerVars, producerVars, callVars, outcome>>

(* Variant: the wait for a connection has no limit.                         *)
NeverTimesOut(c) == FALSE

(* pool_timeout has passed and every connection is taken.                   *)
TimesOut(c) == pc[c] = "query" /\ Cardinality(sessions) = PoolSize

PoolTimeout(c) ==
  /\ TimesOut(c)
  /\ Finish(c, IF c \in Probes THEN "not_ready" ELSE "refused")
  /\ UNCHANGED <<brokerVars, producerVars, sessions, callVars>>

(* Variant: a session whose request failed keeps its connection.            *)
ReleasedUnlessFailed(c) == IF outcome[c] = "failed" THEN sessions ELSE sessions \ {c}

Released(c) == sessions \ {c}

(* get_db() commits or rolls back, and closes the session in any case.      *)
Exit(c) ==
  /\ pc[c] = "exit"
  /\ sessions' = Released(c)
  /\ Goto(c, "done")
  /\ UNCHANGED <<phase, brokerVars, producerVars, callVars, outcome>>

-----------------------------------------------------------------------------
(* The routes.                                                              *)

(* A robust connection counts as open while it reconnects.                  *)
IsConnected == connection # None /\ connection \in open

(* Variant: every publish connects anew.                                    *)
ConnectAnew == "connect"

(* publish() connects only when it has no exchange.                         *)
PublishStep == IF exchange = None THEN "connect" ELSE "send"

(* POST and DELETE skip the event when the producer is not connected.       *)
Route(r) ==
  /\ pc[r] = "route"
  /\ IF IsConnected
     THEN Goto(r, PublishStep) /\ UNCHANGED <<phase, outcome>>
     ELSE Finish(r, IF broker THEN "skipped_while_up" ELSE "skipped")
  /\ UNCHANGED <<brokerVars, producerVars, sessions, callVars>>

(* The exchange waits for its connection to be restored.                    *)
Send(r) ==
  /\ pc[r] = "send" /\ broker /\ exchange \in open
  /\ Finish(r, "sent")
  /\ UNCHANGED <<brokerVars, producerVars, sessions, callVars>>

(* The connection breaks under a publish, which raises.                     *)
SendFails(r) ==
  /\ pc[r] = "send" /\ ~broker
  /\ Finish(r, "failed")
  /\ UNCHANGED <<brokerVars, producerVars, sessions, callVars>>

(* The readiness probe pings the database and looks at the producer.        *)
Ready(p) == \E healthy \in BOOLEAN :
  /\ pc[p] = "ping"
  /\ Finish(p, IF healthy /\ IsConnected THEN "ready" ELSE "not_ready")
  /\ UNCHANGED <<brokerVars, producerVars, sessions, callVars>>

(* The server has answered its requests; the lifespan closes _connection.   *)
Close ==
  /\ phase = "serving"
  /\ \A c \in Clients : pc[c] \in {"idle", "done"}
  /\ phase' = "stopped"
  /\ open' = IF IsConnected THEN open \ {connection} ELSE open
  /\ UNCHANGED <<brokerVars, opened, connection, exchange, sessions, pc, callVars, outcome>>

-----------------------------------------------------------------------------
Connect(c) == Connected(c) \/ OpenChannel(c) \/ DeclareExchange(c) \/ AttemptFails(c)

(* What a client does without the broker.                                   *)
Serve(c) ==
  \/ Query(c) \/ PoolTimeout(c) \/ Exit(c)
  \/ c \in Requests /\ Route(c)
  \/ c \in Probes /\ Ready(c)

Stopped == phase = "stopped" /\ UNCHANGED vars

Next ==
  \/ GoesAway \/ ComesBack
  \/ \E c \in Callers : Connect(c)
  \/ \E c \in Clients : Arrive(c) \/ Serve(c)
  \/ \E r \in Requests : Send(r) \/ SendFails(r)
  \/ Close \/ Stopped

Spec == Init /\ [][Next]_vars

(* Calls return or raise, and a wait for a pooled connection ends after     *)
(* pool_timeout.  Nothing is assumed of the broker.                         *)
Fairness ==
  /\ \A c \in Callers : WF_vars(Connect(c))
  /\ \A c \in Clients : WF_vars(Serve(c))
  /\ \A r \in Requests : WF_vars(Send(r))

FairSpec == Spec /\ Fairness

-----------------------------------------------------------------------------
(* Properties.                                                              *)

(* An event is only ever sent over a connection that is open, and the       *)
(* exchange in use was declared on a connection that no shutdown has closed.*)
ExchangeIsOpen == phase # "stopped" /\ exchange # None => exchange \in open

(* Only a failed attempt leaves a connection behind: as long as every call  *)
(* of connect() succeeded, _connection is the only open one and carries the *)
(* exchange.                                                                *)
LeakOnlyAfterFailure ==
  (\A c \in Callers : attempts[c] = 0) =>
    /\ open \subseteq {connection}
    /\ exchange \in {None, connection}

(* The service comes up whether or not the broker does.                     *)
StartupCompletes == <>(phase # "starting")

(* A request is answered once the broker stays reachable: no caller of      *)
(* connect() waits for another, and what others hold of the pool comes back.*)
InProgress(c) == pc[c] \notin {"idle", "done"}

RequestsComplete == <>[]broker => \A r \in Requests : InProgress(r) ~> ~InProgress(r)

(* The readiness probe is answered even when every pooled connection is     *)
(* held by requests that wait for a broker that never returns.              *)
ProbesAnswered == \A p \in Probes : InProgress(p) ~> ~InProgress(p)

(* producer.py: "if the broker is unavailable at startup the first publish  *)
(* call will attempt to connect".                                           *)
ConnectsLazily == \A r \in Requests : outcome[r] # "skipped_while_up"
-----------------------------------------------------------------------------
(* The inductive invariant.                                                 *)

(* A connection is checked out by a client that is being served, no more    *)
(* than the pool has, and whoever waits for the broker holds one.           *)
PoolInv ==
  /\ \A c \in sessions : InProgress(c) /\ pc[c] # "query"
  /\ \A r \in Requests : pc[r] \in {"route", "connect", "channel", "declare", "send"} =>
       r \in sessions
  /\ Cardinality(sessions) <= PoolSize

(* Connections are closed at shutdown only, and an attempt that goes on has *)
(* opened one.                                                              *)
ConnectionInv ==
  /\ phase # "stopped" => open = 1 .. opened
  /\ \A c \in Callers : pc[c] \in {"channel", "declare"} => mine[c] # None
  /\ phase = "starting" => \A c \in Clients : pc[c] = "idle"
  /\ phase = "starting" <=> pc[Startup] # "done"
  /\ phase = "stopped" => \A c \in Clients : ~InProgress(c)

(* Whoever still tries has an attempt left.                                 *)
AttemptsInv ==
  /\ \A r \in Requests : pc[r] \in {"idle", "query", "route"} => attempts[r] = 0
  /\ \A c \in Callers :
       pc[c] \in {"connect", "channel", "declare"} => attempts[c] < MaxAttempts

(* As long as no attempt has failed, startup alone connects.                *)
FirstConnectInv ==
  (\A c \in Callers : attempts[c] = 0) =>
    /\ phase = "starting" => IF pc[Startup] = "connect"
                             THEN opened = 0 /\ connection = None /\ exchange = None
                             ELSE opened = 1 /\ connection = 1 /\ exchange = None /\ mine[Startup] = 1
    /\ phase # "starting" =>
         /\ opened = 1 /\ connection = 1 /\ exchange = 1
         /\ \A c \in Callers : pc[c] \notin {"connect", "channel", "declare"}

IInv == PoolInv /\ ConnectionInv /\ AttemptsInv /\ FirstConnectInv
=============================================================================
