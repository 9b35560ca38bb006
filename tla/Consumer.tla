------------------------------ MODULE Consumer ------------------------------
(****************************************************************************)
(* The intake queue and the MessageConsumer of every worker process: start()*)
(* with its retries, the robust connection, the queue iterator, one task    *)
(* per message and the acknowledgement that message.process() sends.        *)
(*                                                                          *)
(* The broker side (routing, prefetch, requeue on a lost channel, dead      *)
(* letters) is external: it is modelled from how consumer.py uses it.       *)
(* `_running` is true whenever the loop looks at it, because the service    *)
(* calls stop() only after it has cancelled start(); it is left out.        *)
(****************************************************************************)
EXTENDS Naturals, Sequences, FiniteSets

CONSTANTS
  Msgs,         (* the messages producers send                              *)
  Workers,      (* the worker processes, each with one consumer             *)
  Nobody,       (* no worker holds the message                              *)
  BodyOf,       (* "json", "not_json", or "not_text" (bytes no codec takes) *)
  Handlers,     (* the functions registered for a routing key pattern       *)
  Own,          (* those of the consumer itself, in order of registration   *)
  Registry,     (* those of handlers.py, in order of registration           *)
  Claims,       (* the messages whose routing key each pattern matches      *)
  NoHandler,    (* no pattern matches                                       *)
  Prefetch,     (* settings.rabbitmq.prefetch_count                         *)
  MaxAttempts,  (* settings.rabbitmq.max_reconnect_attempts                 *)
  DlxDeclared,  (* somebody has declared "<exchange>.dlx" and bound a queue *)
  MaxFaults     (* bound: failed attempts, lost links, restarts, shutdowns  *)

ASSUME ConsumerAssumption ==
  /\ BodyOf \in [Msgs -> {"json", "not_json", "not_text"}]
  /\ Own \in Seq(Handlers) /\ Registry \in Seq(Handlers)
  /\ Claims \in [Handlers -> SUBSET Msgs]
  /\ NoHandler \notin Handlers
  /\ Prefetch \in Nat \ {0}
  /\ MaxAttempts \in Nat \ {0}
  /\ DlxDeclared \in BOOLEAN
  /\ MaxFaults \in Nat
  /\ Nobody \notin [worker : Workers, epoch : Nat]

VARIABLES
  declared,   (* the durable queue exists and is bound                      *)
  published,  (* the routed messages in the order of the queue              *)
  fate,       (* what has become of each message                            *)
  holder,     (* the channel that has the message unacknowledged            *)
  phase,      (* what the consumer of each worker is doing                  *)
  epoch,      (* counts the channels each worker has consumed on            *)
  attempts,   (* the failed attempts of each worker's start()               *)
  buffer,     (* the messages waiting in each worker's iterator             *)
  tasks,      (* the _handle_message tasks                                  *)
  runs,       (* history: how often each message was dispatched             *)
  handled,    (* history: which handler has returned for which message      *)
  failed,     (* history: the messages whose body or handler has failed     *)
  faults      (* counts towards MaxFaults                                   *)

vars == <<declared, published, fate, holder, phase, epoch, attempts, buffer,
          tasks, runs, handled, failed, faults>>
queueVars   == <<declared, published, fate>>
workerVars  == <<phase, epoch, attempts, buffer>>
historyVars == <<runs, handled, failed>>

Channel  == [worker : Workers, epoch : Nat]
Delivery == [msg : Msgs, worker : Workers, epoch : Nat]
Stages   == {"started", "handling", "acking", "rejecting"}
Task     == [msg : Msgs, worker : Workers, epoch : Nat, stage : Stages]

Fates  == {"new", "unroutable", "queued", "acked", "dead_lettered", "dropped", "lost"}
Phases == {"connecting", "consuming", "recovering", "failed", "stopped"}

TypeOK ==
  /\ declared \in BOOLEAN
  /\ published \in Seq(Msgs)
  /\ fate \in [Msgs -> Fates]
  /\ holder \in [Msgs -> Channel \cup {Nobody}]
  /\ phase \in [Workers -> Phases]
  /\ epoch \in [Workers -> Nat]
  /\ attempts \in [Workers -> 0 .. MaxAttempts]
  /\ buffer \in [Workers -> Seq(Delivery)]
  /\ tasks \in SUBSET Task
  /\ runs \in [Msgs -> Nat]
  /\ handled \in SUBSET ((Handlers \cup {NoHandler}) \X Msgs)
  /\ failed \in SUBSET Msgs
  /\ faults \in 0 .. MaxFaults

Init ==
  /\ declared \in BOOLEAN
  /\ published = <<>>
  /\ fate = [m \in Msgs |-> "new"]
  /\ holder = [m \in Msgs |-> Nobody]
  /\ phase = [w \in Workers |-> "connecting"]
  /\ epoch = [w \in Workers |-> 0]
  /\ attempts = [w \in Workers |-> 0]
  /\ buffer = [w \in Workers |-> <<>>]
  /\ tasks = {}
  /\ runs = [m \in Msgs |-> 0]
  /\ handled = {}
  /\ failed = {}
  /\ faults = 0

-----------------------------------------------------------------------------
(* The broker.                                                              *)

Ready(m) == fate[m] = "queued" /\ holder[m] = Nobody

(* The message at the head of the queue; a requeued one regains its place.  *)
AtHead(m) ==
  \E i \in DOMAIN published :
    /\ published[i] = m /\ Ready(m)
    /\ \A j \in 1 .. i - 1 : ~Ready(published[j])

HeldBy(w) == {m \in Msgs : holder[m] # Nobody /\ holder[m].worker = w}

(* A message sent before any consumer has declared the queue is routed      *)
(* nowhere.                                                                 *)
Publish(m) ==
  /\ fate[m] = "new"
  /\ IF declared
     THEN /\ fate' = [fate EXCEPT ![m] = "queued"]
          /\ published' = Append(published, m)
     ELSE fate' = [fate EXCEPT ![m] = "unroutable"] /\ UNCHANGED published
  /\ UNCHANGED <<declared, holder, workerVars, tasks, historyVars, faults>>

(* Variant: a delivery does not remember the channel it came on.            *)
WorkerOnly(w) == [worker |-> w]

ChannelOf(w) == [worker |-> w, epoch |-> epoch[w]]

(* The broker pushes the head of the queue to a channel with credit; the    *)
(* iterator buffers it.                                                     *)
Deliver(w, m) ==
  /\ phase[w] = "consuming"
  /\ Cardinality(HeldBy(w)) < Prefetch
  /\ AtHead(m)
  /\ holder' = [holder EXCEPT ![m] = ChannelOf(w)]
  /\ buffer' = [buffer EXCEPT ![w] =
                  Append(@, [msg |-> m, worker |-> w, epoch |-> epoch[w]])]
  /\ UNCHANGED <<queueVars, phase, epoch, attempts, tasks, historyVars, faults>>

(* The channel of w is gone: the broker requeues what it held.              *)
Requeue(w) == holder' = [m \in Msgs |-> IF m \in HeldBy(w) THEN Nobody ELSE holder[m]]

Fault == faults < MaxFaults /\ faults' = faults + 1

-----------------------------------------------------------------------------
(* start(): connect, declare the topology, consume.                         *)

OpenChannel(w) ==
  /\ phase' = [phase EXCEPT ![w] = "consuming"]
  /\ epoch' = [epoch EXCEPT ![w] = @ + 1]

Start(w) ==
  /\ phase[w] = "connecting"
  /\ OpenChannel(w)
  /\ declared' = TRUE
  /\ UNCHANGED <<published, fate, holder, attempts, buffer, tasks, historyVars, faults>>

(* Variant: one attempt more than the limit.                                *)
OneMoreAttempt(w) == attempts[w] = MaxAttempts

(* tenacity counts every failed attempt of this call of start(), however    *)
(* long the consumer ran in between, and gives up at the last.              *)
LastAttempt(w) == attempts[w] + 1 = MaxAttempts

Retry(w) ==
  /\ attempts' = [attempts EXCEPT ![w] = @ + 1]
  /\ phase' = [phase EXCEPT ![w] = IF LastAttempt(w) THEN "failed" ELSE "connecting"]

(* The attempt fails, before or after the queue was declared.               *)
StartFails(w) ==
  /\ phase[w] = "connecting"
  /\ Retry(w)
  /\ declared' \in {declared, TRUE}
  /\ Fault
  /\ UNCHANGED <<published, fate, holder, epoch, buffer, tasks, historyVars>>

(* An exception leaves the loop: the iterator returns what it has buffered  *)
(* and the connection closes; tasks already created run on.                 *)
ConsumeFails(w) ==
  /\ phase[w] = "consuming"
  /\ Retry(w)
  /\ Requeue(w)
  /\ buffer' = [buffer EXCEPT ![w] = <<>>]
  /\ Fault
  /\ UNCHANGED <<queueVars, epoch, tasks, historyVars>>

(* The robust connection loses the broker and reconnects by itself, for as  *)
(* long as it takes; buffer and tasks keep deliveries of the old channel.   *)
LinkDrops(w) ==
  /\ phase[w] = "consuming"
  /\ phase' = [phase EXCEPT ![w] = "recovering"]
  /\ Requeue(w)
  /\ Fault
  /\ UNCHANGED <<queueVars, epoch, attempts, buffer, tasks, historyVars>>

Reconnect(w) ==
  /\ phase[w] = "recovering"
  /\ OpenChannel(w)
  /\ UNCHANGED <<queueVars, holder, attempts, buffer, tasks, historyVars, faults>>

(* The queue is durable, but the producer's messages are not persistent.    *)
BrokerRestarts ==
  /\ phase' = [w \in Workers |-> IF phase[w] = "consuming" THEN "recovering" ELSE phase[w]]
  /\ holder' = [m \in Msgs |-> Nobody]
  /\ fate' = [m \in Msgs |-> IF fate[m] = "queued" THEN "lost" ELSE fate[m]]
  /\ Fault
  /\ UNCHANGED <<declared, published, epoch, attempts, buffer, tasks, historyVars>>

(* The loop takes the next message and makes a task of it.                  *)
Spawn(w) ==
  /\ phase[w] \in {"consuming", "recovering"}
  /\ buffer[w] # <<>>
  /\ LET d == buffer[w][1] IN
       tasks' = tasks \cup
         {[msg |-> d.msg, worker |-> w, epoch |-> d.epoch, stage |-> "started"]}
  /\ buffer' = [buffer EXCEPT ![w] = Tail(@)]
  /\ UNCHANGED <<queueVars, holder, phase, epoch, attempts, historyVars, faults>>

-----------------------------------------------------------------------------
(* _handle_message().                                                       *)

Advance(t, stage) == tasks' = (tasks \ {t}) \cup {[t EXCEPT !.stage = stage]}

(* The first of a sequence of handlers whose pattern matches.               *)
FirstMatch(m, handlers) ==
  LET hits == {i \in DOMAIN handlers : m \in Claims[handlers[i]]}
  IN  IF hits = {} THEN NoHandler
      ELSE handlers[CHOOSE i \in hits : \A j \in hits : i <= j]

(* Variant: the global registry comes first.                                *)
RegistryFirst(m) ==
  IF FirstMatch(m, Registry) # NoHandler THEN FirstMatch(m, Registry) ELSE FirstMatch(m, Own)

(* The consumer's own handlers come first, dispatch() is the fallback.      *)
HandlerOf(m) ==
  IF FirstMatch(m, Own) # NoHandler THEN FirstMatch(m, Own) ELSE FirstMatch(m, Registry)

(* Variant: dispatch() is no fallback but follows the consumer's handler.   *)
ParseForBoth(t) ==
  /\ t.stage = "started" /\ BodyOf[t.msg] = "json"
  /\ Advance(t, "handling")
  /\ runs' = [runs EXCEPT ![t.msg] = @ + IF FirstMatch(t.msg, Own) # NoHandler THEN 2 ELSE 1]
  /\ UNCHANGED <<queueVars, holder, workerVars, handled, failed, faults>>

(* json.loads() and the choice of the handler.                              *)
Parse(t) ==
  /\ t.stage = "started" /\ BodyOf[t.msg] = "json"
  /\ Advance(t, "handling")
  /\ runs' = [runs EXCEPT ![t.msg] = @ + 1]
  /\ UNCHANGED <<queueVars, holder, workerVars, handled, failed, faults>>

(* Variant: invalid JSON is logged and the task ends without a nack.        *)
ParseFailsSilently(t) ==
  /\ t.stage = "started" /\ BodyOf[t.msg] = "not_json"
  /\ tasks' = tasks \ {t}
  /\ UNCHANGED <<queueVars, holder, workerVars, historyVars, faults>>

ParseFails(t) ==
  /\ t.stage = "started" /\ BodyOf[t.msg] = "not_json"
  /\ Advance(t, "rejecting")
  /\ failed' = failed \cup {t.msg}
  /\ UNCHANGED <<queueVars, holder, workerVars, runs, handled, faults>>

(* json.loads() raises UnicodeDecodeError, which is no JSONDecodeError: the *)
(* task ends there.                                                         *)
DecodeFails(t) ==
  /\ t.stage = "started" /\ BodyOf[t.msg] = "not_text"
  /\ tasks' = tasks \ {t}
  /\ UNCHANGED <<queueVars, holder, workerVars, historyVars, faults>>

(* The handler returns; dispatch() also returns when no pattern matches.    *)
HandlerReturns(t) ==
  /\ t.stage = "handling"
  /\ Advance(t, "acking")
  /\ handled' = handled \cup {<<HandlerOf(t.msg), t.msg>>}
  /\ UNCHANGED <<queueVars, holder, workerVars, runs, failed, faults>>

(* process() rejects whatever the handler raises, a passing trouble too.    *)
HandlerRaises(t) ==
  /\ t.stage = "handling" /\ HandlerOf(t.msg) # NoHandler
  /\ Advance(t, "rejecting")
  /\ failed' = failed \cup {t.msg}
  /\ UNCHANGED <<queueVars, holder, workerVars, runs, handled, faults>>

(* Variant: the delivery tag is sent on whatever channel is open.           *)
AnyChannel(t) == phase[t.worker] = "consuming"

(* The channel the message came on is still open.                           *)
Current(t) == phase[t.worker] = "consuming" /\ epoch[t.worker] = t.epoch

(* Variant: with the flag `multiple`, all messages of the channel.          *)
SettleAll(m, end) ==
  /\ fate' = [n \in Msgs |-> IF holder[n] = holder[m] THEN end ELSE fate[n]]
  /\ holder' = [n \in Msgs |-> IF holder[n] = holder[m] THEN Nobody ELSE holder[n]]

Settle(m, end) ==
  /\ fate' = [fate EXCEPT ![m] = end]
  /\ holder' = [holder EXCEPT ![m] = Nobody]

(* ack() on a closed channel raises, which is logged.                       *)
Ack(t) ==
  /\ t.stage = "acking"
  /\ tasks' = tasks \ {t}
  /\ IF Current(t) THEN Settle(t.msg, "acked") ELSE UNCHANGED <<fate, holder>>
  /\ UNCHANGED <<declared, published, workerVars, historyVars, faults>>

DeadLetter(m) == Settle(m, IF DlxDeclared THEN "dead_lettered" ELSE "dropped")

(* reject(requeue=False), by process() for any exception of the handler and *)
(* by nack() for invalid JSON.                                              *)
Reject(t) ==
  /\ t.stage = "rejecting"
  /\ tasks' = tasks \ {t}
  /\ IF Current(t) THEN DeadLetter(t.msg) ELSE UNCHANGED <<fate, holder>>
  /\ UNCHANGED <<declared, published, workerVars, historyVars, faults>>

-----------------------------------------------------------------------------
(* The end of a worker.                                                     *)

TasksOf(w) == {t \in tasks : t.worker = w}

(* The lifespan cancels start(), whose context managers return the buffer   *)
(* and close the connection, and then calls stop(); nobody waits for tasks. *)
Shutdown(w) ==
  /\ phase[w] # "stopped"
  /\ phase' = [phase EXCEPT ![w] = "stopped"]
  /\ Requeue(w)
  /\ buffer' = [buffer EXCEPT ![w] = <<>>]
  /\ Fault
  /\ UNCHANGED <<queueVars, epoch, attempts, tasks, historyVars>>

LoopCloses(w) ==
  /\ phase[w] = "stopped" /\ TasksOf(w) # {}
  /\ tasks' = tasks \ TasksOf(w)
  /\ UNCHANGED <<queueVars, holder, workerVars, historyVars, faults>>

(* The process dies or has exited and is started again.                     *)
Restart(w) ==
  /\ phase' = [phase EXCEPT ![w] = "connecting"]
  /\ attempts' = [attempts EXCEPT ![w] = 0]
  /\ Requeue(w)
  /\ buffer' = [buffer EXCEPT ![w] = <<>>]
  /\ tasks' = tasks \ TasksOf(w)
  /\ Fault
  /\ UNCHANGED <<queueVars, epoch, historyVars>>

-----------------------------------------------------------------------------
Handle(t) ==
  \/ Parse(t) \/ ParseFails(t) \/ DecodeFails(t)
  \/ HandlerReturns(t) \/ HandlerRaises(t)
  \/ Ack(t) \/ Reject(t)

Consume(w) ==
  \/ Start(w) \/ Reconnect(w) \/ Spawn(w)
  \/ \E m \in Msgs : Deliver(w, m)
  \/ \E t \in TasksOf(w) : Handle(t)
  \/ LoopCloses(w)

Disturb(w) == StartFails(w) \/ ConsumeFails(w) \/ LinkDrops(w) \/ Shutdown(w) \/ Restart(w)

Next ==
  \/ \E m \in Msgs : Publish(m)
  \/ \E w \in Workers : Consume(w) \/ Disturb(w)
  \/ BrokerRestarts

Spec == Init /\ [][Next]_vars

(* Connections are established again, the loop runs, and handlers return or *)
(* raise.                                                                   *)
Fairness ==
  \A w \in Workers :
    /\ WF_vars(Start(w)) /\ WF_vars(Reconnect(w)) /\ WF_vars(Spawn(w))
    /\ WF_vars(\E m \in Msgs : Deliver(w, m))
    /\ WF_vars(\E t \in TasksOf(w) : Handle(t))

FairSpec == Spec /\ Fairness

-----------------------------------------------------------------------------
(* Properties.                                                              *)

(* The functions that may process m: those the consumer itself registered   *)
(* for its routing key, and only when there is none, the global ones.       *)
Claiming(m, handlers) == {handlers[i] : i \in {j \in DOMAIN handlers : m \in Claims[handlers[j]]}}

Entitled(m) == IF Claiming(m, Own) # {} THEN Claiming(m, Own) ELSE Claiming(m, Registry)

Processed(m) == Entitled(m) = {} \/ \E handler \in Entitled(m) : <<handler, m>> \in handled

(* An acknowledged message has been processed by a handler entitled to it,  *)
(* unless none is registered: whatever is not acknowledged comes again.     *)
AckedWasHandled == \A m \in Msgs : fate[m] = "acked" => Processed(m)

(* A message leaves the queue unacknowledged only after its body or its     *)
(* handler failed; a lost channel, a restart or a shutdown never rejects.   *)
RejectedHasFailed ==
  \A m \in Msgs : fate[m] \in {"dead_lettered", "dropped"} => m \in failed

(* A message whose handler has not failed is handled again only after a lost*)
(* channel, a restart or a shutdown, by all handlers and workers together.  *)
(* What becomes of a message whose handler has failed is left open here:    *)
(* consumer.py announces a requeue on transient errors, and rejects.        *)
RunsBounded == \A m \in Msgs : m \notin failed => runs[m] <= 1 + faults

(* The consumer has a delivery of m by channel c, in the buffer or in a     *)
(* task.                                                                    *)
BeingHandled(m, c) ==
  \/ \E i \in DOMAIN buffer[c.worker] :
       buffer[c.worker][i] = [msg |-> m, worker |-> c.worker, epoch |-> c.epoch]
  \/ \E t \in tasks : t.msg = m /\ t.worker = c.worker /\ t.epoch = c.epoch

(* Every unacknowledged message is on its way to an acknowledgement on the  *)
(* channel that holds it.  Otherwise it takes up prefetch credit until the  *)
(* channel is lost.                                                         *)
HeldIsBeingHandled ==
  \A m \in Msgs : holder[m] # Nobody => BeingHandled(m, holder[m])

(* As long as some consumer goes on consuming, every queued message that is *)
(* text is acknowledged, rejected, or lost with the broker, provided fewer  *)
(* than Prefetch others are not.                                            *)
EventuallyConsumed ==
  <>[](\E w \in Workers : phase[w] = "consuming")
    => \A m \in Msgs : BodyOf[m] # "not_text" =>
         (fate[m] = "queued" ~> fate[m] # "queued")

(* Workers, channels, buffers and tasks together deliver at least once.     *)
Promise == INSTANCE Delivery WITH
  status <- [m \in Msgs |->
               IF fate[m] \in {"dead_lettered", "dropped"} THEN "rejected" ELSE fate[m]],
  done   <- {m \in Msgs : \E handler \in Handlers \cup {NoHandler} : <<handler, m>> \in handled}

(* What Delivery promises holds of all its interleavings and faults.        *)
ImplementsDelivery == Promise!Spec

-----------------------------------------------------------------------------
(* The inductive invariant of attempts, channels and acknowledgements.      *)

(* A consumer that has not given up has an attempt left.                    *)
AttemptsInv ==
  \A w \in Workers :
    phase[w] \in {"connecting", "consuming", "recovering"} => attempts[w] < MaxAttempts

(* Why a task acknowledges or rejects.                                      *)
TasksInv ==
  \A t \in tasks :
    /\ t.stage = "acking" => Processed(t.msg) /\ <<HandlerOf(t.msg), t.msg>> \in handled
    /\ t.stage = "rejecting" => t.msg \in failed

(* What is true of a delivery, in the buffer or in a task.                  *)
Routed(d) ==
  /\ d.epoch <= epoch[d.worker] /\ fate[d.msg] # "new"
  /\ Current(d) => holder[d.msg] = ChannelOf(d.worker)

SameDelivery(d, e) == d.msg = e.msg /\ d.worker = e.worker /\ d.epoch = e.epoch

(* Only an open channel holds messages; a delivery is never from a channel  *)
(* still to come, and on an open one its message is held there.             *)
ChannelInv ==
  /\ \A m \in Msgs : holder[m] # Nobody => fate[m] = "queued" /\ Current(holder[m])
  /\ \A t \in tasks : Routed(t)
  /\ \A w \in Workers : \A i \in DOMAIN buffer[w] : buffer[w][i].worker = w /\ Routed(buffer[w][i])

(* A channel delivers each message at most once.                            *)
SingleInv ==
  /\ \A t, u \in tasks : SameDelivery(t, u) => t = u
  /\ \A w \in Workers : \A i, j \in DOMAIN buffer[w] :
       SameDelivery(buffer[w][i], buffer[w][j]) => i = j
  /\ \A w \in Workers : \A i \in DOMAIN buffer[w] : \A t \in tasks :
       ~SameDelivery(buffer[w][i], t)

IInv ==
  AttemptsInv /\ TasksInv /\ ChannelInv /\ SingleInv /\ AckedWasHandled /\ RejectedHasFailed
=============================================================================
