--------------------------- MODULE Consumer_proofs ---------------------------
(****************************************************************************)
(* Theorems about Consumer for any messages, workers, attempts and faults.  *)
(****************************************************************************)
EXTENDS Consumer, TLAPS, WellFoundedInduction, FiniteSetTheorems

(* A set of numbers that is not empty has a least one.                      *)
LEMMA Least ==
  ASSUME NEW T, T \subseteq Nat, T # {}
  PROVE  \E x \in T : \A y \in T : x <= y
<1> DEFINE R == {ss \in Nat \X Nat : ss[1] < ss[2]}
<1>1. IsWellFoundedOn(R, Nat)
  BY NatLessThanWellFounded, Zenon DEF OpToRel
<1>2. \E x \in T : \A y \in T : ~(<<y, x>> \in R)
  BY <1>1, WFMin, Zenon
<1>3. PICK x \in T : \A y \in T : ~(<<y, x>> \in R)
  BY <1>2
<1>4. \A y \in T : x <= y
  <2> SUFFICES ASSUME NEW y \in T PROVE x <= y
    OBVIOUS
  <2>1. x \in Nat /\ y \in Nat /\ ~(y < x)
    BY <1>3
  <2> QED BY <2>1
<1> QED BY <1>4

(* The first matching handler is one that matches, and there is one unless  *)
(* none matches.                                                            *)
LEMMA FirstMatches ==
  ASSUME NEW m \in Msgs, NEW handlers \in Seq(Handlers)
  PROVE  /\ Claiming(m, handlers) = {} => FirstMatch(m, handlers) = NoHandler
         /\ Claiming(m, handlers) # {} =>
              FirstMatch(m, handlers) \in Claiming(m, handlers) \ {NoHandler}
<1> DEFINE hits == {i \in DOMAIN handlers : m \in Claims[handlers[i]]}
           first == CHOOSE i \in hits : \A j \in hits : i <= j
<1>1. hits \subseteq Nat /\ Claiming(m, handlers) = {handlers[i] : i \in hits}
  BY DEF Claiming
<1>2. CASE hits = {}
  BY <1>1, <1>2 DEF FirstMatch
<1>3. CASE hits # {}
  <2>1. \E i \in hits : \A j \in hits : i <= j
    BY <1>1, <1>3, Least
  <2>2. first \in hits
    BY <2>1
  <2>3. FirstMatch(m, handlers) = handlers[first]
    BY <1>3 DEF FirstMatch
  <2>4. handlers[first] \in Handlers
    BY <2>2
  <2> QED BY <1>1, <2>2, <2>3, <2>4, ConsumerAssumption
<1> QED BY <1>2, <1>3

(* The search through both registries ends at a handler that is entitled to *)
(* the message, when there is one.                                          *)
LEMMA HandlerIsEntitled ==
  ASSUME NEW m \in Msgs
  PROVE  Entitled(m) = {} \/ HandlerOf(m) \in Entitled(m)
<1>1. Own \in Seq(Handlers) /\ Registry \in Seq(Handlers)
  BY ConsumerAssumption
<1> QED BY <1>1, FirstMatches DEF Entitled, HandlerOf

LEMMA HandlerType ==
  ASSUME NEW m \in Msgs
  PROVE  HandlerOf(m) \in Handlers \cup {NoHandler}
<1>1. Own \in Seq(Handlers) /\ Registry \in Seq(Handlers)
  BY ConsumerAssumption
<1>2. Claiming(m, Own) \subseteq Handlers /\ Claiming(m, Registry) \subseteq Handlers
  BY <1>1 DEF Claiming
<1> QED BY <1>1, <1>2, FirstMatches DEF HandlerOf

-----------------------------------------------------------------------------
(* Types and attempts.                                                      *)

Typed == TypeOK /\ AttemptsInv

(* A failed attempt of a consumer that had one left keeps the count.        *)
LEMMA RetryType ==
  ASSUME Typed, NEW w \in Workers, Retry(w), phase[w] \in {"connecting", "consuming"}
  PROVE  /\ attempts' \in [Workers -> 0 .. MaxAttempts]
         /\ phase' \in [Workers -> Phases]
         /\ AttemptsInv'
<1>1. attempts[w] \in 0 .. MaxAttempts /\ attempts[w] < MaxAttempts /\ MaxAttempts \in Nat
  BY ConsumerAssumption DEF Typed, TypeOK, AttemptsInv
<1>2. attempts[w] + 1 \in 0 .. MaxAttempts
  BY <1>1
<1>3. attempts' = [attempts EXCEPT ![w] = attempts[w] + 1]
  BY DEF Retry
<1>4. attempts' \in [Workers -> 0 .. MaxAttempts]
  BY <1>2, <1>3 DEF Typed, TypeOK
<1>5. phase' \in [Workers -> Phases]
  BY DEF Retry, Typed, TypeOK, Phases
<1>6. attempts[w] + 1 # MaxAttempts => attempts[w] + 1 < MaxAttempts
  BY <1>1, <1>2
<1>7. AttemptsInv'
  BY <1>3, <1>6 DEF AttemptsInv, Retry, LastAttempt, Typed, TypeOK
<1> QED BY <1>4, <1>5, <1>7

LEMMA RequeueType ==
  ASSUME TypeOK, NEW w \in Workers, Requeue(w)
  PROVE  holder' \in [Msgs -> Channel \cup {Nobody}]
  BY DEF TypeOK, Requeue

LEMMA AdvanceType ==
  ASSUME TypeOK, NEW t \in tasks, NEW stage \in Stages, Advance(t, stage)
  PROVE  tasks' \in SUBSET Task
  BY DEF TypeOK, Advance, Task

LEMMA SettleType ==
  ASSUME TypeOK, NEW m \in Msgs, NEW end \in Fates, Settle(m, end)
  PROVE  fate' \in [Msgs -> Fates] /\ holder' \in [Msgs -> Channel \cup {Nobody}]
  BY DEF TypeOK, Settle

LEMMA FaultType ==
  ASSUME TypeOK, Fault
  PROVE  faults' \in 0 .. MaxFaults
  BY ConsumerAssumption DEF TypeOK, Fault

LEMMA InitTyped == Init => Typed
  BY ConsumerAssumption
  DEF Init, Typed, TypeOK, AttemptsInv, Fates, Phases, Task

-----------------------------------------------------------------------------
LEMMA StepTyped == Typed /\ [Next]_vars => Typed'
<1> SUFFICES ASSUME Typed, [Next]_vars PROVE Typed'
  OBVIOUS
<1> USE DEF Typed, queueVars, workerVars, historyVars, Phases, Fates
<1>1. ASSUME NEW m \in Msgs, Publish(m) PROVE Typed'
  <2>a. Append(published, m) \in Seq(Msgs)
    BY DEF TypeOK
  <2>b. published' \in {published, Append(published, m)}
    BY <1>1 DEF Publish
  <2>1. published' \in Seq(Msgs)
    BY <2>a, <2>b DEF TypeOK
  <2>2. fate' \in [Msgs -> Fates]
    BY <1>1 DEF Publish, TypeOK
  <2>3. UNCHANGED <<declared, holder, workerVars, tasks, historyVars, faults>>
    BY <1>1 DEF Publish
  <2> QED BY <2>1, <2>2, <2>3 DEF TypeOK, AttemptsInv
<1>2. ASSUME NEW w \in Workers, Consume(w) PROVE Typed'
  <2>1. CASE Start(w)
    BY <2>1 DEF Start, OpenChannel, TypeOK, AttemptsInv
  <2>2. CASE Reconnect(w)
    BY <2>2 DEF Reconnect, OpenChannel, TypeOK, AttemptsInv
  <2>3. CASE Spawn(w)
    <3>1. buffer[w] \in Seq(Delivery) /\ buffer[w] # <<>>
      BY <2>3 DEF Spawn, TypeOK
    <3>2. buffer[w][1] \in Delivery /\ Tail(buffer[w]) \in Seq(Delivery)
      BY <3>1
    <3>3. [msg |-> buffer[w][1].msg, worker |-> w, epoch |-> buffer[w][1].epoch,
           stage |-> "started"] \in Task
      BY <3>2 DEF Delivery, Task, Stages
    <3> QED BY <2>3, <3>2, <3>3 DEF Spawn, TypeOK, AttemptsInv
  <2>4. ASSUME NEW m \in Msgs, Deliver(w, m) PROVE Typed'
    <3>1. [worker |-> w, epoch |-> epoch[w]] \in Channel
      BY DEF TypeOK, Channel
    <3>2. [msg |-> m, worker |-> w, epoch |-> epoch[w]] \in Delivery
      BY DEF TypeOK, Delivery
    <3>3. holder' \in [Msgs -> Channel \cup {Nobody}]
      BY <2>4, <3>1 DEF Deliver, ChannelOf, TypeOK
    <3>4. Append(buffer[w], [msg |-> m, worker |-> w, epoch |-> epoch[w]]) \in Seq(Delivery)
      BY <3>2 DEF TypeOK
    <3>5. buffer' \in [Workers -> Seq(Delivery)]
      BY <2>4, <3>4 DEF Deliver, ChannelOf, TypeOK
    <3> QED BY <2>4, <3>3, <3>5 DEF Deliver, TypeOK, AttemptsInv
  <2>5. ASSUME NEW t \in TasksOf(w), Handle(t) PROVE Typed'
    <3>1. t \in tasks /\ t \in Task /\ t.msg \in Msgs
      BY DEF TasksOf, TypeOK, Task
    <3>2. CASE Parse(t)
      BY <3>1, <3>2, AdvanceType DEF Parse, Stages, TypeOK, AttemptsInv
    <3>3. CASE ParseFails(t)
      BY <3>1, <3>3, AdvanceType DEF ParseFails, Stages, TypeOK, AttemptsInv
    <3>4. CASE DecodeFails(t)
      BY <3>4 DEF DecodeFails, TypeOK, AttemptsInv
    <3>5. CASE HandlerReturns(t)
      <4>1. HandlerOf(t.msg) \in Handlers \cup {NoHandler}
        BY <3>1, HandlerType
      <4> QED BY <3>1, <3>5, <4>1, AdvanceType DEF HandlerReturns, Stages, TypeOK, AttemptsInv
    <3>6. CASE HandlerRaises(t)
      BY <3>1, <3>6, AdvanceType DEF HandlerRaises, Stages, TypeOK, AttemptsInv
    <3>7. CASE Ack(t)
      BY <3>1, <3>7, SettleType DEF Ack, TypeOK, AttemptsInv
    <3>8. CASE Reject(t)
      BY <3>1, <3>8, SettleType DEF Reject, DeadLetter, TypeOK, AttemptsInv
    <3> QED BY <2>5, <3>2, <3>3, <3>4, <3>5, <3>6, <3>7, <3>8 DEF Handle
  <2>6. CASE LoopCloses(w)
    BY <2>6 DEF LoopCloses, TypeOK, AttemptsInv
  <2> QED BY <1>2, <2>1, <2>2, <2>3, <2>4, <2>5, <2>6 DEF Consume
<1>3. ASSUME NEW w \in Workers, Disturb(w) PROVE Typed'
  <2>e. <<>> \in Seq(Delivery)
    OBVIOUS
  <2>1. CASE StartFails(w)
    BY <2>1, RetryType, FaultType DEF StartFails, TypeOK
  <2>2. CASE ConsumeFails(w)
    BY <2>2, <2>e, RetryType, RequeueType, FaultType DEF ConsumeFails, TypeOK
  <2>3. CASE LinkDrops(w)
    BY <2>3, RequeueType, FaultType DEF LinkDrops, TypeOK, AttemptsInv
  <2>4. CASE Shutdown(w)
    BY <2>4, <2>e, RequeueType, FaultType DEF Shutdown, TypeOK, AttemptsInv
  <2>5. CASE Restart(w)
    <3>1. 0 < MaxAttempts /\ 0 \in 0 .. MaxAttempts
      BY ConsumerAssumption
    <3> QED BY <2>5, <2>e, <3>1, RequeueType, FaultType DEF Restart, TypeOK, AttemptsInv
  <2> QED BY <1>3, <2>1, <2>2, <2>3, <2>4, <2>5 DEF Disturb
<1>4. CASE BrokerRestarts
  BY <1>4, FaultType DEF BrokerRestarts, TypeOK, AttemptsInv
<1>5. CASE UNCHANGED vars
  BY <1>5 DEF vars, TypeOK, AttemptsInv
<1> QED BY <1>1, <1>2, <1>3, <1>4, <1>5 DEF Next

(* Every variable keeps to its type; in particular no consumer counts more  *)
(* failed attempts than max_reconnect_attempts, because it gives up at that *)
(* number whether it failed to connect or while it consumed.                *)
THEOREM TypeCorrect == Spec => []TypeOK
<1>1. Spec => []Typed
  BY InitTyped, StepTyped, PTL DEF Spec
<1>2. Typed => TypeOK
  BY DEF Typed
<1> QED BY <1>1, <1>2, PTL

-----------------------------------------------------------------------------
(* Channels.                                                                *)

Channels == ChannelInv /\ SingleInv

LEMMA DeliveryFields ==
  ASSUME TypeOK
  PROVE  /\ \A t \in tasks : t.msg \in Msgs /\ t.worker \in Workers /\ t.epoch \in Nat
         /\ \A w \in Workers : \A i \in DOMAIN buffer[w] :
              /\ buffer[w][i] \in Delivery
              /\ buffer[w][i].msg \in Msgs /\ buffer[w][i].epoch \in Nat
         /\ \A m \in Msgs : holder[m] # Nobody =>
              holder[m] \in Channel /\ holder[m].worker \in Workers /\ holder[m].epoch \in Nat
         /\ \A w \in Workers : epoch[w] \in Nat /\ ChannelOf(w) \in Channel /\ ChannelOf(w) # Nobody
<1>1. \A w \in Workers : \A i \in DOMAIN buffer[w] : buffer[w][i] \in Delivery
  BY DEF TypeOK
<1>2. \A w \in Workers : epoch[w] \in Nat
  BY DEF TypeOK
<1>3. \A w \in Workers : ChannelOf(w) \in Channel
  BY <1>2 DEF ChannelOf, Channel
<1>4. \A c \in Channel : c # Nobody
  BY ConsumerAssumption DEF Channel
<1>5. \A m \in Msgs : holder[m] # Nobody => holder[m] \in Channel
  BY DEF TypeOK
<1> QED BY <1>1, <1>2, <1>3, <1>4, <1>5 DEF TypeOK, Task, Delivery, Channel

(* A step that opens no channel and delivers nothing, and that lets go of   *)
(* messages only where it closes their channel.                             *)
LEMMA NothingDelivered ==
  ASSUME TypeOK, Channels,
         tasks' \subseteq tasks,
         \A w \in Workers : buffer'[w] = buffer[w] \/ buffer'[w] = <<>>,
         UNCHANGED epoch,
         \A w \in Workers : phase'[w] = "consuming" => phase[w] = "consuming",
         \A m \in Msgs : fate[m] # "new" => fate'[m] # "new",
         \A m \in Msgs : holder'[m] # Nobody =>
           holder'[m] = holder[m] /\ phase'[holder[m].worker] = "consuming" /\ fate'[m] = fate[m],
         \A m \in Msgs : holder[m] # Nobody /\ phase'[holder[m].worker] = "consuming" =>
           holder'[m] = holder[m]
  PROVE  Channels'
<1> USE DeliveryFields
<1>1. \A w \in Workers : \A i \in DOMAIN buffer'[w] :
        DOMAIN buffer'[w] = DOMAIN buffer[w] /\ i \in DOMAIN buffer[w] /\ buffer'[w][i] = buffer[w][i]
  OBVIOUS
<1>2. \A d : d.worker \in Workers /\ Current(d)' => Current(d)
  BY DEF Current
<1>3. ASSUME NEW d, d.msg \in Msgs, d.worker \in Workers, Routed(d) PROVE Routed(d)'
  <2>1. ASSUME Current(d)' PROVE (holder[d.msg] = ChannelOf(d.worker))'
    <3>1. holder[d.msg] = ChannelOf(d.worker) /\ phase'[d.worker] = "consuming"
      BY <1>2, <1>3, <2>1 DEF Routed, Current
    <3>2. holder[d.msg].worker = d.worker
      BY <3>1 DEF ChannelOf
    <3>3. holder'[d.msg] = holder[d.msg]
      BY <1>3, <3>1, <3>2
    <3> QED BY <3>1, <3>3 DEF ChannelOf
  <2> QED BY <1>3, <2>1 DEF Routed
<1>4. ASSUME NEW m \in Msgs, holder'[m] # Nobody
      PROVE  fate'[m] = "queued" /\ Current(holder[m])' /\ holder'[m] = holder[m]
  <2>1. holder'[m] = holder[m] /\ phase'[holder[m].worker] = "consuming" /\ fate'[m] = fate[m]
    BY <1>4
  <2>2. fate[m] = "queued" /\ Current(holder[m])
    BY <1>4, <2>1 DEF Channels, ChannelInv
  <2> QED BY <2>1, <2>2 DEF Current
<1>5. ASSUME NEW w \in Workers, NEW i \in DOMAIN buffer'[w]
      PROVE  buffer'[w][i].worker = w /\ Routed(buffer[w][i])'
  <2>1. PICK d : d = buffer'[w][i]
    OBVIOUS
  <2>2. i \in DOMAIN buffer[w] /\ d = buffer[w][i]
    BY <1>1, <2>1
  <2>3. d.msg \in Msgs /\ d.worker = w /\ Routed(d)
    BY <2>2 DEF Channels, ChannelInv
  <2>4. Routed(d)'
    BY <1>3, <2>3
  <2> QED BY <2>1, <2>3, <2>4 DEF Routed, Current
<1>6. ChannelInv'
  <2>1. \A t \in tasks' : Routed(t)'
    BY <1>3 DEF Channels, ChannelInv
  <2> QED BY <1>4, <1>5, <2>1 DEF ChannelInv
<1>7. SingleInv'
  BY <1>1, <1>2 DEF Channels, SingleInv, ChannelInv, SameDelivery
<1> QED BY <1>6, <1>7 DEF Channels

(* The task that advances takes its place and is not in the set twice.      *)
LEMMA AdvanceChannels ==
  ASSUME TypeOK, Channels, NEW t \in tasks, NEW stage \in Stages, Advance(t, stage),
         UNCHANGED <<queueVars, holder, workerVars>>
  PROVE  Channels'
<1> USE DeliveryFields DEF queueVars, workerVars
<1>1. PICK a : a = [t EXCEPT !.stage = stage]
  OBVIOUS
<1>2. t \in Task /\ tasks' = (tasks \ {t}) \cup {a}
  BY <1>1 DEF TypeOK, Advance
<1>3. SameDelivery(a, t) /\ a.msg = t.msg /\ a.worker = t.worker /\ a.epoch = t.epoch
  BY <1>1, <1>2 DEF Task, SameDelivery
<1>4. \A u : (Current(u)' <=> Current(u)) /\ (Routed(u)' <=> Routed(u))
  BY DEF Current, Routed, ChannelOf
<1>5. Routed(a)
  BY <1>3 DEF Channels, ChannelInv, Routed, Current
<1>6. ChannelInv'
  <2>1. \A u \in tasks' : Routed(u)'
    BY <1>2, <1>4, <1>5 DEF Channels, ChannelInv
  <2>2. \A w \in Workers : \A i \in DOMAIN buffer'[w] :
          (buffer[w][i].worker = w /\ Routed(buffer[w][i]))'
    BY DEF Channels, ChannelInv, Routed, Current, ChannelOf
  <2>3. \A m \in Msgs : (holder[m] # Nobody => fate[m] = "queued" /\ Current(holder[m]))'
    BY DEF Channels, ChannelInv, Current
  <2> QED BY <2>1, <2>2, <2>3 DEF ChannelInv
<1>7. \A u : (SameDelivery(u, a) <=> SameDelivery(u, t)) /\ (SameDelivery(a, u) <=> SameDelivery(t, u))
  BY <1>3 DEF SameDelivery
<1>8. SingleInv'
  <2>1. \A u, v \in tasks' : SameDelivery(u, v) => u = v
    BY <1>2, <1>7 DEF Channels, SingleInv, SameDelivery
  <2>2. \A w \in Workers : \A i \in DOMAIN buffer[w] : \A u \in tasks' :
          ~SameDelivery(buffer[w][i], u)
    BY <1>2, <1>7 DEF Channels, SingleInv
  <2> QED BY <2>1, <2>2 DEF Channels, SingleInv, SameDelivery
<1> QED BY <1>6, <1>8 DEF Channels

(* A channel that opens has an epoch no delivery has had.                   *)
LEMMA OpenChannels ==
  ASSUME TypeOK, Channels, NEW w \in Workers, phase[w] # "consuming", OpenChannel(w),
         UNCHANGED <<fate, holder, buffer, tasks>>
  PROVE  Channels'
<1> USE DeliveryFields
<1>1. /\ epoch' = [epoch EXCEPT ![w] = epoch[w] + 1]
      /\ phase' = [phase EXCEPT ![w] = "consuming"]
  BY DEF OpenChannel
<1>2. ASSUME NEW d, d.msg \in Msgs, d.worker \in Workers, d.epoch \in Nat, Routed(d)
      PROVE  Routed(d)' /\ (Current(d)' => Current(d) /\ d.worker # w)
  <2>1. d.epoch <= epoch'[d.worker]
    BY <1>1, <1>2 DEF Routed, TypeOK
  <2>2. d.worker = w => ~Current(d)'
    BY <1>1, <1>2 DEF Routed, Current, TypeOK
  <2>3. d.worker # w => (Current(d)' <=> Current(d)) /\ ChannelOf(d.worker)' = ChannelOf(d.worker)
    BY <1>1, <1>2 DEF Current, ChannelOf, TypeOK
  <2> QED BY <1>2, <2>1, <2>2, <2>3 DEF Routed
<1>3. \A t \in tasks : Routed(t)' /\ (Current(t)' => Current(t))
  BY <1>2 DEF Channels, ChannelInv
<1>4. ASSUME NEW v \in Workers, NEW i \in DOMAIN buffer[v]
      PROVE  Routed(buffer[v][i])' /\ (Current(buffer[v][i])' => Current(buffer[v][i]))
  <2>1. PICK d : d = buffer[v][i]
    OBVIOUS
  <2>2. d.msg \in Msgs /\ d.worker \in Workers /\ d.epoch \in Nat /\ Routed(d)
    BY <2>1 DEF Channels, ChannelInv
  <2>3. Routed(d)' /\ (Current(d)' => Current(d))
    BY <1>2, <2>2
  <2> QED BY <2>1, <2>3 DEF Routed, Current
<1>5. ASSUME NEW m \in Msgs, holder[m] # Nobody
      PROVE  fate'[m] = "queued" /\ Current(holder[m])'
  <2>1. fate[m] = "queued" /\ Current(holder[m]) /\ holder[m].worker # w
    BY <1>5 DEF Channels, ChannelInv, Current
  <2> QED BY <1>1, <1>5, <2>1 DEF Current, TypeOK
<1>6. ChannelInv'
  BY <1>3, <1>4, <1>5 DEF Channels, ChannelInv
<1>7. SingleInv'
  BY DEF Channels, SingleInv, SameDelivery
<1> QED BY <1>6, <1>7 DEF Channels

(* A message that no channel holds is in the buffer or task of none.        *)
LEMMA DeliverChannels ==
  ASSUME TypeOK, Channels, NEW w \in Workers, NEW m \in Msgs, Deliver(w, m)
  PROVE  Channels'
<1> USE DeliveryFields DEF queueVars
<1>1. PICK d : d = [msg |-> m, worker |-> w, epoch |-> epoch[w]]
  OBVIOUS
<1>2. /\ phase[w] = "consuming" /\ fate[m] = "queued" /\ holder[m] = Nobody
      /\ holder' = [holder EXCEPT ![m] = ChannelOf(w)]
      /\ buffer' = [buffer EXCEPT ![w] = Append(buffer[w], d)]
      /\ UNCHANGED <<fate, phase, epoch, tasks>>
  BY <1>1 DEF Deliver, AtHead, Ready
<1>3. \A e : (Current(e)' <=> Current(e)) /\ ChannelOf(e)' = ChannelOf(e)
  BY <1>2 DEF Current, ChannelOf
<1>4. ASSUME NEW e, e.msg \in Msgs, e.worker \in Workers, Routed(e)
      PROVE  Routed(e)' /\ (Current(e) => e.msg # m)
  <2>1. Current(e) => e.msg # m
    BY <1>2, <1>4 DEF Routed
  <2> QED BY <1>2, <1>3, <1>4, <2>1 DEF Routed, TypeOK
<1>5. Current(d) /\ Routed(d)' /\ d.msg = m /\ d.worker = w
  BY <1>1, <1>2 DEF Current, Routed, ChannelOf, TypeOK
<1>6. \A t \in tasks : Routed(t)' /\ (Current(t) => t.msg # m)
  BY <1>4 DEF Channels, ChannelInv
<1>7. ASSUME NEW v \in Workers, NEW i \in DOMAIN buffer[v]
      PROVE  /\ buffer[v][i].worker = v
             /\ \A e : e = buffer[v][i] => Routed(e)' /\ (Current(e) => e.msg # m)
  BY <1>4 DEF Channels, ChannelInv
<1>8. ASSUME NEW v \in Workers, NEW i \in DOMAIN buffer'[v]
      PROVE  \/ i \in DOMAIN buffer[v] /\ buffer'[v][i] = buffer[v][i]
             \/ v = w /\ i = Len(buffer[w]) + 1 /\ buffer'[v][i] = d
  <2>1. buffer[v] \in Seq(Delivery) /\ d \in Delivery
    BY <1>1 DEF TypeOK, Delivery
  <2>2. CASE v = w
    <3>1. buffer'[v] = Append(buffer[v], d)
      BY <1>2, <2>2 DEF TypeOK
    <3>2. i \in 1 .. Len(buffer[v]) + 1
      BY <2>1, <3>1
    <3> QED BY <2>1, <2>2, <3>1, <3>2
  <2>3. CASE v # w
    BY <1>2, <2>3 DEF TypeOK
  <2> QED BY <2>2, <2>3
<1>9. ChannelInv'
  <2>1. ASSUME NEW v \in Workers, NEW i \in DOMAIN buffer'[v]
        PROVE  buffer'[v][i].worker = v /\ Routed(buffer[v][i])'
    <3>1. PICK e : e = buffer'[v][i]
      OBVIOUS
    <3>2. e.worker = v /\ Routed(e)'
      BY <1>5, <1>7, <1>8, <3>1
    <3> QED BY <3>1, <3>2 DEF Routed, Current
  <2>2. \A n \in Msgs : (holder[n] # Nobody => fate[n] = "queued" /\ Current(holder[n]))'
    BY <1>2 DEF Channels, ChannelInv, Current, ChannelOf, TypeOK
  <2> QED BY <1>2, <1>6, <2>1, <2>2 DEF ChannelInv
<1>10. SingleInv'
  <2>1. ASSUME NEW v \in Workers, NEW i \in DOMAIN buffer'[v], NEW j \in DOMAIN buffer'[v],
               SameDelivery(buffer'[v][i], buffer'[v][j])
        PROVE  i = j
    <3>1. buffer'[v][i] = d \/ buffer'[v][j] = d => Current(buffer'[v][i]) /\ Current(buffer'[v][j])
      BY <1>5, <2>1 DEF SameDelivery, Current
    <3>2. CASE i \in DOMAIN buffer[v] /\ j \in DOMAIN buffer[v]
               /\ buffer'[v][i] = buffer[v][i] /\ buffer'[v][j] = buffer[v][j]
      BY <2>1, <3>2 DEF Channels, SingleInv
    <3> QED BY <1>5, <1>7, <1>8, <2>1, <3>1, <3>2 DEF SameDelivery
  <2>2. ASSUME NEW v \in Workers, NEW i \in DOMAIN buffer'[v], NEW t \in tasks,
               SameDelivery(buffer'[v][i], t)
        PROVE  FALSE
    <3>1. CASE i \in DOMAIN buffer[v] /\ buffer'[v][i] = buffer[v][i]
      BY <2>2, <3>1 DEF Channels, SingleInv
    <3>2. buffer'[v][i] = d => Current(t)
      BY <1>5, <2>2 DEF SameDelivery, Current
    <3> QED BY <1>5, <1>6, <1>8, <2>2, <3>1, <3>2 DEF SameDelivery
  <2> QED BY <1>2, <2>1, <2>2 DEF Channels, SingleInv, SameDelivery
<1> QED BY <1>9, <1>10 DEF Channels

(* The delivery at the head of the buffer becomes a task.                   *)
LEMMA SpawnChannels ==
  ASSUME TypeOK, Channels, NEW w \in Workers, Spawn(w)
  PROVE  Channels'
<1> USE DeliveryFields DEF queueVars
<1>1. PICK d : d = buffer[w][1]
  OBVIOUS
<1>2. PICK a : a = [msg |-> d.msg, worker |-> w, epoch |-> d.epoch, stage |-> "started"]
  OBVIOUS
<1>3. /\ buffer[w] # <<>>
      /\ tasks' = tasks \cup {a}
      /\ buffer' = [buffer EXCEPT ![w] = Tail(buffer[w])]
      /\ UNCHANGED <<fate, holder, phase, epoch>>
  BY <1>1, <1>2 DEF Spawn
<1>4. 1 \in DOMAIN buffer[w] /\ buffer[w] \in Seq(Delivery)
  BY <1>3 DEF TypeOK
<1>5. d.worker = w /\ Routed(d)
  BY <1>1, <1>4 DEF Channels, ChannelInv
<1>6. SameDelivery(a, d) /\ Routed(a)
  BY <1>2, <1>5 DEF SameDelivery, Routed, Current
<1>7. \A e : (Current(e)' <=> Current(e)) /\ (Routed(e)' <=> Routed(e))
  BY <1>3 DEF Current, Routed, ChannelOf
<1>8. ASSUME NEW v \in Workers, NEW i \in DOMAIN buffer'[v]
      PROVE  \E k \in DOMAIN buffer[v] :
               /\ buffer'[v][i] = buffer[v][k]
               /\ k = IF v = w THEN i + 1 ELSE i
  <2>1. CASE v = w
    <3>1. buffer'[v] = Tail(buffer[v]) /\ buffer[v] # <<>>
      BY <1>3, <2>1 DEF TypeOK
    <3>2. i \in 1 .. Len(buffer[v]) - 1 /\ i + 1 \in DOMAIN buffer[v]
      BY <1>4, <2>1, <3>1
    <3>3. buffer'[v][i] = buffer[v][i + 1]
      BY <1>4, <2>1, <3>1, <3>2
    <3> QED BY <2>1, <3>2, <3>3
  <2>2. CASE v # w
    BY <1>3, <2>2 DEF TypeOK
  <2> QED BY <2>1, <2>2
<1>9. \A v \in Workers : \A i \in DOMAIN buffer'[v] : i \in Nat /\ i >= 1
  <2>1. \A v \in Workers : buffer'[v] \in Seq(Delivery)
    BY <1>3, <1>4 DEF TypeOK
  <2> QED BY <2>1
<1>10. ChannelInv'
  <2>1. ASSUME NEW v \in Workers, NEW i \in DOMAIN buffer'[v]
        PROVE  buffer'[v][i].worker = v /\ Routed(buffer[v][i])'
    <3>1. PICK e : e = buffer'[v][i]
      OBVIOUS
    <3>2. e.worker = v /\ Routed(e)'
      BY <1>7, <1>8, <3>1 DEF Channels, ChannelInv
    <3> QED BY <3>1, <3>2 DEF Routed, Current
  <2>2. \A n \in Msgs : (holder[n] # Nobody => fate[n] = "queued" /\ Current(holder[n]))'
    BY <1>3 DEF Channels, ChannelInv, Current
  <2>3. \A t \in tasks' : Routed(t)'
    BY <1>3, <1>6, <1>7 DEF Channels, ChannelInv
  <2> QED BY <2>1, <2>2, <2>3 DEF ChannelInv
<1>11. SingleInv'
  <2>1. ASSUME NEW t \in tasks PROVE ~SameDelivery(t, a) /\ ~SameDelivery(a, t)
    <3>1. ~SameDelivery(buffer[w][1], t)
      BY <1>4 DEF Channels, SingleInv
    <3> QED BY <1>1, <1>6, <3>1 DEF SameDelivery
  <2>2. \A t, u \in tasks' : SameDelivery(t, u) => t = u
    BY <1>3, <2>1 DEF Channels, SingleInv
  <2>3. ASSUME NEW v \in Workers, NEW i \in DOMAIN buffer'[v], NEW j \in DOMAIN buffer'[v],
               SameDelivery(buffer'[v][i], buffer'[v][j])
        PROVE  i = j
    <3>1. PICK k \in DOMAIN buffer[v] :
            buffer'[v][i] = buffer[v][k] /\ k = IF v = w THEN i + 1 ELSE i
      BY <1>8
    <3>2. PICK l \in DOMAIN buffer[v] :
            buffer'[v][j] = buffer[v][l] /\ l = IF v = w THEN j + 1 ELSE j
      BY <1>8
    <3>3. k = l
      BY <2>3, <3>1, <3>2 DEF Channels, SingleInv
    <3> QED BY <1>9, <3>1, <3>2, <3>3
  <2>4. ASSUME NEW v \in Workers, NEW i \in DOMAIN buffer'[v], NEW t \in tasks',
               SameDelivery(buffer'[v][i], t)
        PROVE  FALSE
    <3>1. PICK k \in DOMAIN buffer[v] :
            buffer'[v][i] = buffer[v][k] /\ k = IF v = w THEN i + 1 ELSE i
      BY <1>8
    <3>2. CASE t \in tasks
      BY <2>4, <3>1, <3>2 DEF Channels, SingleInv
    <3>3. CASE t = a
      <4>1. v = w
        BY <2>4, <3>1, <3>3, <1>2 DEF SameDelivery, Channels, ChannelInv
      <4>2. SameDelivery(buffer[w][k], buffer[w][1])
        BY <1>1, <1>6, <2>4, <3>1, <3>3, <4>1 DEF SameDelivery
      <4>3. k = 1
        BY <1>4, <3>1, <4>1, <4>2 DEF Channels, SingleInv
      <4> QED BY <1>9, <3>1, <4>1, <4>3
    <3> QED BY <1>3, <3>2, <3>3
  <2> QED BY <2>2, <2>3, <2>4 DEF SingleInv, SameDelivery
<1> QED BY <1>10, <1>11 DEF Channels

(* The message leaves the channel together with its only task.              *)
LEMMA SettleChannels ==
  ASSUME TypeOK, Channels, NEW t \in tasks, NEW end \in Fates, end # "new",
         tasks' = tasks \ {t},
         IF Current(t) THEN Settle(t.msg, end) ELSE UNCHANGED <<fate, holder>>,
         UNCHANGED workerVars
  PROVE  Channels'
<1> USE DeliveryFields DEF workerVars
<1>1. CASE ~Current(t)
  BY <1>1, NothingDelivered DEF Channels, ChannelInv, Current
<1>2. CASE Current(t)
  <2>1. /\ fate' = [fate EXCEPT ![t.msg] = end]
        /\ holder' = [holder EXCEPT ![t.msg] = Nobody]
        /\ holder[t.msg] = ChannelOf(t.worker)
    BY <1>2 DEF Settle, Channels, ChannelInv, Routed
  <2>2. \A d : (Current(d)' <=> Current(d)) /\ ChannelOf(d)' = ChannelOf(d)
    BY DEF Current, ChannelOf
  <2>3. ASSUME NEW d, d.msg \in Msgs, d.worker \in Workers, Routed(d), ~SameDelivery(d, t)
        PROVE  Routed(d)'
    <3>1. Current(d) => d.msg # t.msg
      <4> SUFFICES ASSUME Current(d), d.msg = t.msg PROVE FALSE
        OBVIOUS
      <4>1. ChannelOf(d.worker) = ChannelOf(t.worker)
        BY <2>1, <2>3 DEF Routed
      <4>2. d.worker = t.worker /\ d.epoch = t.epoch
        BY <1>2, <4>1 DEF ChannelOf, Current
      <4> QED BY <1>2, <2>3, <4>2 DEF SameDelivery
    <3> QED BY <2>1, <2>2, <2>3, <3>1 DEF Routed, TypeOK
  <2>4. \A u \in tasks' : Routed(u)'
    <3> SUFFICES ASSUME NEW u \in tasks, u # t PROVE Routed(u)'
      OBVIOUS
    <3>1. ~SameDelivery(u, t)
      BY DEF Channels, SingleInv
    <3> QED BY <2>3, <3>1 DEF Channels, ChannelInv
  <2>5. ASSUME NEW w \in Workers, NEW i \in DOMAIN buffer'[w]
        PROVE  (buffer[w][i].worker = w /\ Routed(buffer[w][i]))'
    <3>1. PICK d : d = buffer[w][i]
      OBVIOUS
    <3>2. d.msg \in Msgs /\ d.worker = w /\ Routed(d) /\ ~SameDelivery(d, t)
      BY <3>1 DEF Channels, ChannelInv, SingleInv
    <3>3. Routed(d)'
      BY <2>3, <3>2
    <3> QED BY <3>1, <3>2, <3>3 DEF Routed, Current
  <2>6. \A m \in Msgs : (holder[m] # Nobody => fate[m] = "queued" /\ Current(holder[m]))'
    BY <2>1, <2>2 DEF Channels, ChannelInv, Current, TypeOK
  <2>7. ChannelInv'
    BY <2>4, <2>5, <2>6 DEF ChannelInv
  <2>8. SingleInv'
    BY DEF Channels, SingleInv, SameDelivery
  <2> QED BY <2>7, <2>8 DEF Channels
<1> QED BY <1>1, <1>2

(* What the loss of a channel does to the messages it holds.                *)
LEMMA RequeueHolders ==
  ASSUME TypeOK, NEW w \in Workers, Requeue(w)
  PROVE  \A m \in Msgs :
           /\ holder'[m] # Nobody => holder'[m] = holder[m] /\ holder[m].worker # w
           /\ holder[m] # Nobody /\ holder[m].worker # w => holder'[m] = holder[m]
  BY DEF Requeue, HeldBy, TypeOK

LEMMA InitChannels == Init => Channels
  BY DEF Init, Channels, ChannelInv, SingleInv

LEMMA StepChannels == TypeOK /\ Channels /\ [Next]_vars => Channels'
<1> SUFFICES ASSUME TypeOK, Channels, [Next]_vars PROVE Channels'
  OBVIOUS
<1> USE DEF queueVars, workerVars, historyVars
<1>h. \A m \in Msgs : holder[m] # Nobody =>
        /\ holder[m].worker \in Workers
        /\ fate[m] = "queued" /\ phase[holder[m].worker] = "consuming"
  BY DeliveryFields DEF Channels, ChannelInv, Current
<1>1. ASSUME NEW m \in Msgs, Publish(m) PROVE Channels'
  BY <1>h, <1>1, NothingDelivered DEF Publish, TypeOK
<1>2. ASSUME NEW w \in Workers, Consume(w) PROVE Channels'
  <2>1. CASE Start(w)
    BY <2>1, OpenChannels DEF Start
  <2>2. CASE Reconnect(w)
    BY <2>2, OpenChannels DEF Reconnect
  <2>3. CASE Spawn(w)
    BY <2>3, SpawnChannels
  <2>4. ASSUME NEW m \in Msgs, Deliver(w, m) PROVE Channels'
    BY <2>4, DeliverChannels
  <2>5. ASSUME NEW t \in TasksOf(w), Handle(t) PROVE Channels'
    <3>1. t \in tasks
      BY DEF TasksOf
    <3>2. CASE Parse(t) \/ ParseFails(t) \/ HandlerReturns(t) \/ HandlerRaises(t)
      BY <3>1, <3>2, AdvanceChannels DEF Parse, ParseFails, HandlerReturns, HandlerRaises, Stages
    <3>3. CASE DecodeFails(t)
      BY <1>h, <3>3, NothingDelivered DEF DecodeFails
    <3>4. CASE Ack(t)
      BY <3>1, <3>4, SettleChannels DEF Ack, Fates
    <3>5. CASE Reject(t)
      BY <3>1, <3>5, SettleChannels DEF Reject, DeadLetter, Fates
    <3> QED BY <2>5, <3>2, <3>3, <3>4, <3>5 DEF Handle
  <2>6. CASE LoopCloses(w)
    BY <1>h, <2>6, NothingDelivered DEF LoopCloses
  <2> QED BY <1>2, <2>1, <2>2, <2>3, <2>4, <2>5, <2>6 DEF Consume
<1>3. ASSUME NEW w \in Workers, Disturb(w) PROVE Channels'
  <2>1. CASE StartFails(w)
    <3>1. \A v \in Workers : phase'[v] = "consuming" => phase[v] = "consuming"
      BY <2>1 DEF StartFails, Retry, TypeOK
    <3>2. UNCHANGED <<fate, holder, epoch, buffer, tasks>>
      BY <2>1 DEF StartFails
    <3>3. \A m \in Msgs : holder[m] # Nobody => phase'[holder[m].worker] = "consuming"
      BY <1>h, <2>1 DEF StartFails, Retry, TypeOK
    <3> QED BY <3>1, <3>2, <3>3, NothingDelivered
  <2>2. CASE ConsumeFails(w) \/ LinkDrops(w) \/ Shutdown(w) \/ Restart(w)
    <3>1. /\ Requeue(w) /\ tasks' \subseteq tasks /\ UNCHANGED <<fate, epoch>>
          /\ \A v \in Workers : buffer'[v] = buffer[v] \/ buffer'[v] = <<>>
      BY <2>2 DEF ConsumeFails, LinkDrops, Shutdown, Restart, TypeOK
    <3>2. /\ phase'[w] # "consuming"
          /\ \A v \in Workers \ {w} : phase'[v] = phase[v]
      BY <2>2 DEF ConsumeFails, LinkDrops, Shutdown, Restart, Retry, TypeOK
    <3>3. \A m \in Msgs : holder'[m] # Nobody =>
            holder'[m] = holder[m] /\ phase'[holder[m].worker] = "consuming"
      BY <1>h, <3>1, <3>2, RequeueHolders
    <3>4. \A m \in Msgs : holder[m] # Nobody /\ phase'[holder[m].worker] = "consuming" =>
            holder'[m] = holder[m]
      BY <3>1, <3>2, RequeueHolders
    <3> QED BY <3>1, <3>2, <3>3, <3>4, NothingDelivered
  <2> QED BY <1>3, <2>1, <2>2 DEF Disturb
<1>4. CASE BrokerRestarts
  BY <1>h, <1>4, NothingDelivered DEF BrokerRestarts, TypeOK
<1>5. CASE UNCHANGED vars
  BY <1>h, <1>5, NothingDelivered DEF vars
<1> QED BY <1>1, <1>2, <1>3, <1>4, <1>5 DEF Next

-----------------------------------------------------------------------------
(* Acknowledgements and rejections.                                         *)

Answered == TasksInv /\ AckedWasHandled /\ RejectedHasFailed

(* A step that creates no task in the last stages and settles no message    *)
(* leaves the reasons for them as they are.                                 *)
LEMMA NothingSettled ==
  ASSUME Answered,
         \A t \in tasks' : t \in tasks \/ t.stage \notin {"acking", "rejecting"},
         \A m \in Msgs : fate'[m] = fate[m]
                           \/ fate'[m] \notin {"acked", "dead_lettered", "dropped"},
         UNCHANGED <<handled, failed>>
  PROVE  Answered'
  BY DEF Answered, TasksInv, AckedWasHandled, RejectedHasFailed, Processed

(* A task that advances keeps its message; the other tasks stay.            *)
LEMMA AdvanceTask ==
  ASSUME TypeOK, NEW t \in tasks, NEW stage \in Stages, Advance(t, stage)
  PROVE  \A u \in tasks' : u \in tasks \/ (u.msg = t.msg /\ u.stage = stage)
<1>1. t \in Task
  BY DEF TypeOK
<1>2. [t EXCEPT !.stage = stage].msg = t.msg /\ [t EXCEPT !.stage = stage].stage = stage
  BY <1>1 DEF Task
<1> QED BY <1>2 DEF Advance

LEMMA InitAnswered == Init => Answered
  BY DEF Init, Answered, TasksInv, AckedWasHandled, RejectedHasFailed

LEMMA StepAnswered == TypeOK /\ Answered /\ [Next]_vars => Answered'
<1> SUFFICES ASSUME TypeOK, Answered, [Next]_vars PROVE Answered'
  OBVIOUS
<1> USE DEF queueVars, workerVars, historyVars
<1>1. ASSUME NEW m \in Msgs, Publish(m) PROVE Answered'
  BY <1>1, NothingSettled DEF Publish, TypeOK
<1>2. ASSUME NEW w \in Workers, Consume(w) PROVE Answered'
  <2>1. CASE Start(w) \/ Reconnect(w)
    BY <2>1, NothingSettled DEF Start, Reconnect
  <2>2. CASE Spawn(w)
    BY <2>2, NothingSettled DEF Spawn
  <2>3. ASSUME NEW m \in Msgs, Deliver(w, m) PROVE Answered'
    BY <2>3, NothingSettled DEF Deliver
  <2>4. CASE LoopCloses(w)
    BY <2>4, NothingSettled DEF LoopCloses
  <2>5. ASSUME NEW t \in TasksOf(w), Handle(t) PROVE Answered'
    <3>1. t \in tasks /\ t \in Task /\ t.msg \in Msgs
      BY DEF TasksOf, TypeOK, Task
    <3>3. CASE Parse(t)
      <4>1. Advance(t, "handling")
        BY <3>3 DEF Parse
      <4>2. \A u \in tasks' : u \in tasks \/ u.stage = "handling"
        BY <3>1, <4>1, AdvanceTask DEF Stages
      <4> QED BY <3>3, <4>2, NothingSettled DEF Parse
    <3>4. CASE ParseFails(t)
      <4>1. Advance(t, "rejecting") /\ UNCHANGED <<fate, handled>> /\ failed' = failed \cup {t.msg}
        BY <3>4 DEF ParseFails
      <4>2. \A u \in tasks' : u \in tasks \/ (u.msg = t.msg /\ u.stage = "rejecting")
        BY <3>1, <4>1, AdvanceTask DEF Stages
      <4> QED BY <4>1, <4>2 DEF Answered, TasksInv, AckedWasHandled, RejectedHasFailed, Processed
    <3>5. CASE DecodeFails(t)
      BY <3>5, NothingSettled DEF DecodeFails
    <3>6. CASE HandlerReturns(t)
      <4>1. /\ Advance(t, "acking") /\ UNCHANGED <<fate, failed>>
            /\ handled' = handled \cup {<<HandlerOf(t.msg), t.msg>>}
        BY <3>6 DEF HandlerReturns
      <4>2. \A u \in tasks' : u \in tasks \/ (u.msg = t.msg /\ u.stage = "acking")
        BY <3>1, <4>1, AdvanceTask DEF Stages
      <4>3. Processed(t.msg)'
        BY <3>1, <4>1, HandlerIsEntitled DEF Processed
      <4>4. \A m : Processed(m) => Processed(m)'
        BY <4>1 DEF Processed
      <4>5. TasksInv'
        BY <4>1, <4>2, <4>3, <4>4 DEF Answered, TasksInv
      <4>6. AckedWasHandled' /\ RejectedHasFailed'
        BY <4>1, <4>4 DEF Answered, AckedWasHandled, RejectedHasFailed
      <4> QED BY <4>5, <4>6 DEF Answered
    <3>7. CASE HandlerRaises(t)
      <4>1. Advance(t, "rejecting") /\ UNCHANGED <<fate, handled>> /\ failed' = failed \cup {t.msg}
        BY <3>7 DEF HandlerRaises
      <4>2. \A u \in tasks' : u \in tasks \/ (u.msg = t.msg /\ u.stage = "rejecting")
        BY <3>1, <4>1, AdvanceTask DEF Stages
      <4> QED BY <4>1, <4>2 DEF Answered, TasksInv, AckedWasHandled, RejectedHasFailed, Processed
    <3>8. CASE Ack(t)
      BY <3>1, <3>8 DEF Ack, Settle, TypeOK, Answered, TasksInv, AckedWasHandled,
                        RejectedHasFailed, Processed
    <3>9. CASE Reject(t)
      BY <3>1, <3>9 DEF Reject, DeadLetter, Settle, TypeOK, Answered, TasksInv, AckedWasHandled,
                        RejectedHasFailed, Processed
    <3> QED BY <2>5, <3>3, <3>4, <3>5, <3>6, <3>7, <3>8, <3>9 DEF Handle
  <2> QED BY <1>2, <2>1, <2>2, <2>3, <2>4, <2>5 DEF Consume
<1>3. ASSUME NEW w \in Workers, Disturb(w) PROVE Answered'
  BY <1>3, NothingSettled
  DEF Disturb, StartFails, ConsumeFails, LinkDrops, Shutdown, Restart
<1>4. CASE BrokerRestarts
  BY <1>4, NothingSettled DEF BrokerRestarts, TypeOK
<1>5. CASE UNCHANGED vars
  BY <1>5, NothingSettled DEF vars
<1> QED BY <1>1, <1>2, <1>3, <1>4, <1>5 DEF Next

(* The inductive invariant of the consumer.                                 *)
THEOREM Invariance == Spec => []IInv
<1>1. Spec => [](Typed /\ Channels /\ Answered)
  <2>1. Init => Typed /\ Channels /\ Answered
    BY InitTyped, InitChannels, InitAnswered
  <2>2. Typed /\ Channels /\ Answered /\ [Next]_vars => Typed' /\ Channels' /\ Answered'
    BY StepTyped, StepChannels, StepAnswered DEF Typed
  <2> QED BY <2>1, <2>2, PTL DEF Spec
<1>2. Typed /\ Channels /\ Answered => IInv
  BY DEF Typed, Channels, Answered, IInv
<1> QED BY <1>1, <1>2, PTL

(* An acknowledged message was processed by a handler entitled to it:       *)
(* through lost links, restarts and shutdowns of any number of workers, and *)
(* for any registrations, only message.process() of a handler that returned *)
(* acknowledges.                                                            *)
THEOREM Acknowledgement == Spec => []AckedWasHandled
<1>1. IInv => AckedWasHandled
  BY DEF IInv
<1> QED BY <1>1, Invariance, PTL

(* A message that was dead-lettered or dropped was no JSON or made its      *)
(* handler raise; no fault of a worker, a link or the broker rejects one.   *)
THEOREM Rejection == Spec => []RejectedHasFailed
<1>1. IInv => RejectedHasFailed
  BY DEF IInv
<1> QED BY <1>1, Invariance, PTL

-----------------------------------------------------------------------------
(* Prefetch credit.                                                         *)

(* A step that gives no channel a message, and takes a delivery away only   *)
(* from messages that no channel holds any longer.                          *)
LEMMA StillHandled ==
  ASSUME HeldIsBeingHandled,
         \A m \in Msgs : holder'[m] # Nobody =>
           holder'[m] = holder[m] /\ buffer'[holder[m].worker] = buffer[holder[m].worker],
         \A t \in tasks :
           \/ \E u \in tasks' : SameDelivery(u, t)
           \/ \A m \in Msgs : holder'[m] # Nobody =>
                ~(t.msg = m /\ t.worker = holder[m].worker /\ t.epoch = holder[m].epoch)
  PROVE  HeldIsBeingHandled'
<1>1. ASSUME NEW m \in Msgs, holder'[m] # Nobody PROVE BeingHandled(m, holder[m])'
  <2>1. holder'[m] = holder[m] /\ buffer'[holder[m].worker] = buffer[holder[m].worker]
    BY <1>1
  <2>2. BeingHandled(m, holder[m])
    BY <1>1, <2>1 DEF HeldIsBeingHandled
  <2> QED BY <1>1, <2>1, <2>2 DEF BeingHandled, SameDelivery
<1> QED BY <1>1 DEF HeldIsBeingHandled

LEMMA StepHeld ==
  ASSUME \A m \in Msgs : BodyOf[m] # "not_text",
         TypeOK, Channels, HeldIsBeingHandled, [Next]_vars
  PROVE  HeldIsBeingHandled'
<1> USE DEF queueVars, workerVars, historyVars
<1>h. \A m \in Msgs : holder[m] # Nobody =>
        /\ holder[m].worker \in Workers /\ Current(holder[m])
        /\ phase[holder[m].worker] = "consuming"
  BY DeliveryFields DEF Channels, ChannelInv, Current
<1>s. ASSUME UNCHANGED <<holder, buffer>>, tasks \subseteq tasks' PROVE HeldIsBeingHandled'
  BY <1>s, StillHandled DEF SameDelivery
<1>1. ASSUME NEW m \in Msgs, Publish(m) PROVE HeldIsBeingHandled'
  BY <1>1, <1>s DEF Publish
<1>2. ASSUME NEW w \in Workers, Consume(w) PROVE HeldIsBeingHandled'
  <2>1. CASE Start(w) \/ Reconnect(w)
    BY <1>s, <2>1 DEF Start, Reconnect
  <2>2. CASE Spawn(w)
    <3>1. ASSUME NEW m \in Msgs, holder[m] # Nobody PROVE BeingHandled(m, holder[m])'
      <4>1. PICK c : c = holder[m]
        OBVIOUS
      <4>2. PICK d : d = buffer[w][1]
        OBVIOUS
      <4>3. BeingHandled(m, c)
        BY <3>1, <4>1 DEF HeldIsBeingHandled
      <4>4. \A t \in tasks : t \in tasks'
        BY <2>2 DEF Spawn
      <4>5. CASE \E t \in tasks : t.msg = m /\ t.worker = c.worker /\ t.epoch = c.epoch
        BY <2>2, <4>1, <4>4, <4>5 DEF BeingHandled, Spawn
      <4>6. ASSUME NEW i \in DOMAIN buffer[c.worker],
                   buffer[c.worker][i] = [msg |-> m, worker |-> c.worker, epoch |-> c.epoch]
            PROVE  BeingHandled(m, c)'
        <5>1. CASE c.worker # w
          BY <2>2, <4>6, <5>1 DEF BeingHandled, Spawn, TypeOK
        <5>2. CASE c.worker = w /\ i = 1
          <6>1. PICK a : a = [msg |-> d.msg, worker |-> w, epoch |-> d.epoch, stage |-> "started"]
            OBVIOUS
          <6>2. a \in tasks' /\ a.msg = m /\ a.worker = c.worker /\ a.epoch = c.epoch
            BY <2>2, <4>2, <4>6, <5>2, <6>1 DEF Spawn
          <6> QED BY <6>2 DEF BeingHandled
        <5>3. CASE c.worker = w /\ i # 1
          <6>1. buffer'[w] = Tail(buffer[w]) /\ buffer[w] \in Seq(Delivery) /\ buffer[w] # <<>>
            BY <2>2 DEF Spawn, TypeOK
          <6>2. i - 1 \in DOMAIN buffer'[w] /\ buffer'[w][i - 1] = buffer[w][i]
            BY <4>6, <5>3, <6>1
          <6> QED BY <4>6, <5>3, <6>2 DEF BeingHandled
        <5> QED BY <5>1, <5>2, <5>3
      <4>7. BeingHandled(m, c)' => BeingHandled(m, holder[m])'
        BY <2>2, <4>1 DEF BeingHandled, Spawn
      <4> QED BY <4>1, <4>3, <4>5, <4>6, <4>7 DEF BeingHandled
    <3>2. UNCHANGED holder
      BY <2>2 DEF Spawn
    <3> QED BY <3>1, <3>2 DEF HeldIsBeingHandled
  <2>3. ASSUME NEW m \in Msgs, Deliver(w, m) PROVE HeldIsBeingHandled'
    <3>1. PICK d : d = [msg |-> m, worker |-> w, epoch |-> epoch[w]]
      OBVIOUS
    <3>2. /\ holder' = [holder EXCEPT ![m] = ChannelOf(w)] /\ tasks' = tasks
          /\ buffer' = [buffer EXCEPT ![w] = Append(buffer[w], d)]
      BY <2>3, <3>1 DEF Deliver
    <3>3. buffer[w] \in Seq(Delivery) /\ d \in Delivery
      BY <3>1 DEF TypeOK, Delivery
    <3>4. /\ \A i \in DOMAIN buffer[w] : i \in DOMAIN buffer'[w] /\ buffer'[w][i] = buffer[w][i]
          /\ Len(buffer[w]) + 1 \in DOMAIN buffer'[w] /\ buffer'[w][Len(buffer[w]) + 1] = d
      <4>1. buffer'[w] = Append(buffer[w], d)
        BY <3>2 DEF TypeOK
      <4> QED BY <3>3, <4>1
    <3>5. ASSUME NEW n \in Msgs, holder'[n] # Nobody PROVE BeingHandled(n, holder[n])'
      <4>1. CASE n = m
        <5>1. holder'[n].worker = w /\ holder'[n].epoch = epoch[w]
          BY <3>2, <4>1 DEF ChannelOf, TypeOK
        <5> QED BY <3>1, <3>4, <4>1, <5>1 DEF BeingHandled
      <4>2. CASE n # m
        <5>1. holder'[n] = holder[n] /\ BeingHandled(n, holder[n])
          BY <3>2, <3>5, <4>2 DEF HeldIsBeingHandled, TypeOK
        <5>2. CASE holder[n].worker = w
          BY <3>2, <3>4, <5>1, <5>2 DEF BeingHandled
        <5>3. CASE holder[n].worker # w
          BY <3>2, <5>1, <5>3 DEF BeingHandled, TypeOK
        <5> QED BY <5>2, <5>3
      <4> QED BY <4>1, <4>2
    <3> QED BY <3>5 DEF HeldIsBeingHandled
  <2>4. ASSUME NEW t \in TasksOf(w), Handle(t) PROVE HeldIsBeingHandled'
    <3>1. t \in tasks /\ t \in Task /\ t.msg \in Msgs
      BY DEF TasksOf, TypeOK, Task
    <3>2. ASSUME NEW stage, Advance(t, stage), UNCHANGED <<holder, buffer>>
          PROVE HeldIsBeingHandled'
      <4>1. SameDelivery([t EXCEPT !.stage = stage], t)
        BY <3>1 DEF SameDelivery, Task
      <4>2. \A v \in tasks : \E u \in tasks' : SameDelivery(u, v)
        BY <3>2, <4>1 DEF Advance, SameDelivery
      <4> QED BY <3>2, <4>2, StillHandled
    <3>3. CASE Parse(t) \/ ParseFails(t) \/ HandlerReturns(t) \/ HandlerRaises(t)
      BY <3>2, <3>3 DEF Parse, ParseFails, HandlerReturns, HandlerRaises
    <3>4. CASE DecodeFails(t)
      BY <3>1, <3>4 DEF DecodeFails
    <3>5. ASSUME tasks' = tasks \ {t}, UNCHANGED buffer, NEW end,
                 IF Current(t) THEN Settle(t.msg, end) ELSE UNCHANGED <<fate, holder>>
          PROVE  HeldIsBeingHandled'
      <4>1. \A m \in Msgs : holder'[m] # Nobody =>
              holder'[m] = holder[m] /\ (Current(t) => m # t.msg)
        BY <3>5 DEF Settle, TypeOK
      <4>2. \A m \in Msgs : holder'[m] # Nobody =>
              ~(t.msg = m /\ t.worker = holder[m].worker /\ t.epoch = holder[m].epoch)
        BY <1>h, <4>1 DEF Current
      <4> QED BY <3>5, <4>1, <4>2, StillHandled DEF SameDelivery
    <3>6. CASE Ack(t)
      BY <3>5, <3>6 DEF Ack
    <3>7. CASE Reject(t)
      BY <3>5, <3>7 DEF Reject, DeadLetter
    <3> QED BY <2>4, <3>3, <3>4, <3>6, <3>7 DEF Handle
  <2>5. CASE LoopCloses(w)
    <3>1. \A t \in TasksOf(w) : \A m \in Msgs : holder[m] # Nobody => t.worker # holder[m].worker
      BY <1>h, <2>5 DEF LoopCloses, TasksOf
    <3> QED BY <2>5, <3>1, StillHandled DEF LoopCloses, SameDelivery
  <2> QED BY <1>2, <2>1, <2>2, <2>3, <2>4, <2>5 DEF Consume
<1>3. ASSUME NEW w \in Workers, Disturb(w) PROVE HeldIsBeingHandled'
  <2>1. CASE StartFails(w)
    BY <1>s, <2>1 DEF StartFails
  <2>2. CASE ConsumeFails(w) \/ LinkDrops(w) \/ Shutdown(w) \/ Restart(w)
    <3>1. /\ Requeue(w)
          /\ \A v \in Workers \ {w} : buffer'[v] = buffer[v]
          /\ \A t \in tasks : t.worker # w => t \in tasks'
      BY <2>2 DEF ConsumeFails, LinkDrops, Shutdown, Restart, TasksOf, TypeOK
    <3>2. \A m \in Msgs : holder'[m] # Nobody => holder'[m] = holder[m] /\ holder[m].worker # w
      BY <3>1, RequeueHolders
    <3>3. \A m \in Msgs : holder'[m] # Nobody => buffer'[holder[m].worker] = buffer[holder[m].worker]
      BY <1>h, <3>1, <3>2
    <3>4. ASSUME NEW t \in tasks
          PROVE  \/ \E u \in tasks' : SameDelivery(u, t)
                 \/ \A m \in Msgs : holder'[m] # Nobody => t.worker # holder[m].worker
      BY <3>1, <3>2 DEF SameDelivery
    <3> QED BY <3>2, <3>3, <3>4, StillHandled
  <2> QED BY <1>3, <2>1, <2>2 DEF Disturb
<1>4. CASE BrokerRestarts
  BY <1>4 DEF BrokerRestarts, HeldIsBeingHandled
<1>5. CASE UNCHANGED vars
  BY <1>s, <1>5 DEF vars
<1> QED BY <1>1, <1>2, <1>3, <1>4, <1>5 DEF Next

(* When every body is text, each message that takes up prefetch credit is   *)
(* in the buffer or in a task of the channel that holds it: tasks that      *)
(* outlive their channel, retries and shutdowns leak no credit.             *)
THEOREM NoLeakedCredit ==
  ASSUME \A m \in Msgs : BodyOf[m] # "not_text"
  PROVE  Spec => []HeldIsBeingHandled
<1>1. Init => HeldIsBeingHandled
  BY DEF Init, HeldIsBeingHandled
<1>2. TypeOK /\ IInv /\ HeldIsBeingHandled /\ [Next]_vars => HeldIsBeingHandled'
  BY StepHeld DEF IInv, Channels
<1> QED BY <1>1, <1>2, TypeCorrect, Invariance, PTL DEF Spec

-----------------------------------------------------------------------------
(* Consumer implements Delivery.                                            *)

Status(m) == IF fate[m] \in {"dead_lettered", "dropped"} THEN "rejected" ELSE fate[m]
Done      == {m \in Msgs : \E handler \in Handlers \cup {NoHandler} : <<handler, m>> \in handled}

(* What is settled was queued, and its handler or its failure is on record. *)
LEMMA SettleImplements ==
  ASSUME TypeOK, IInv, NEW t \in tasks, Current(t), NEW end,
         Settle(t.msg, end), UNCHANGED <<handled, failed>>,
         \/ t.stage = "acking" /\ end = "acked"
         \/ t.stage = "rejecting" /\ end \in {"dead_lettered", "dropped"}
  PROVE  Promise!Next
<1>1. t.msg \in Msgs /\ holder[t.msg] # Nobody
  BY DeliveryFields DEF IInv, ChannelInv, Routed
<1>2. fate[t.msg] = "queued" /\ fate' = [fate EXCEPT ![t.msg] = end]
  BY <1>1 DEF IInv, ChannelInv, Settle
<1>3. [m \in Msgs |-> Status(m)]' =
        [[m \in Msgs |-> Status(m)] EXCEPT ![t.msg] = IF end = "acked" THEN "acked" ELSE "rejected"]
  BY <1>1, <1>2 DEF Status, TypeOK
<1>4. Done' = Done
  BY DEF Done
<1>5. CASE t.stage = "acking" /\ end = "acked"
  <2>1. t.msg \in Done
    BY <1>1, <1>5, HandlerType DEF Done, IInv, TasksInv
  <2>2. Promise!Acknowledge(t.msg)
    BY <1>1, <1>2, <1>3, <1>4, <1>5, <2>1 DEF Promise!Acknowledge, Promise!Move, Status, Done
  <2> QED BY <1>1, <2>2 DEF Promise!Next
<1>6. CASE t.stage = "rejecting" /\ end \in {"dead_lettered", "dropped"}
  <2>1. t.msg \in failed
    BY <1>6 DEF IInv, TasksInv
  <2>2. Promise!Reject(t.msg)
    BY <1>1, <1>2, <1>3, <1>4, <1>6, <2>1 DEF Promise!Reject, Promise!Move, Status, Done
  <2> QED BY <1>1, <2>2 DEF Promise!Next
<1> QED BY <1>5, <1>6

LEMMA StepImplements ==
  ASSUME TypeOK, IInv, [Next]_vars
  PROVE  [Promise!Next]_(Promise!vars)
<1> USE DEF queueVars, workerVars, historyVars
<1>s. ASSUME UNCHANGED <<fate, handled, failed>> PROVE UNCHANGED Promise!vars
  BY <1>s DEF Promise!vars
<1>1. ASSUME NEW m \in Msgs, Publish(m) PROVE Promise!Next
  <2>1. /\ fate[m] = "new" /\ UNCHANGED <<handled, failed>>
        /\ \E to \in {"queued", "unroutable"} : fate' = [fate EXCEPT ![m] = to]
    BY <1>1 DEF Publish
  <2>2. Promise!Accept(m)
    BY <2>1 DEF Promise!Accept, Promise!Move, TypeOK
  <2> QED BY <2>2 DEF Promise!Next
<1>2. ASSUME NEW w \in Workers, Consume(w) PROVE [Promise!Next]_(Promise!vars)
  <2>1. CASE Start(w) \/ Reconnect(w) \/ Spawn(w) \/ LoopCloses(w)
    BY <1>s, <2>1 DEF Start, Reconnect, Spawn, LoopCloses
  <2>2. ASSUME NEW m \in Msgs, Deliver(w, m) PROVE UNCHANGED Promise!vars
    BY <1>s, <2>2 DEF Deliver
  <2>3. ASSUME NEW t \in TasksOf(w), Handle(t) PROVE [Promise!Next]_(Promise!vars)
    <3>1. t \in tasks /\ t.msg \in Msgs
      BY DeliveryFields DEF TasksOf
    <3>2. fate[t.msg] # "new"
      BY <3>1 DEF IInv, ChannelInv, Routed
    <3>3. CASE Parse(t) \/ DecodeFails(t)
      BY <1>s, <3>3 DEF Parse, DecodeFails
    <3>4. CASE ParseFails(t) \/ HandlerRaises(t)
      <4>1. failed' = failed \cup {t.msg} /\ UNCHANGED <<fate, handled>>
        BY <3>4 DEF ParseFails, HandlerRaises
      <4>2. Promise!Fail(t.msg)
        BY <3>1, <3>2, <4>1 DEF Promise!Fail
      <4> QED BY <3>1, <4>2 DEF Promise!Next
    <3>5. CASE HandlerReturns(t)
      <4>1. handled' = handled \cup {<<HandlerOf(t.msg), t.msg>>} /\ UNCHANGED <<fate, failed>>
        BY <3>5 DEF HandlerReturns
      <4>2. Done' = Done \cup {t.msg}
        BY <3>1, <4>1, HandlerType DEF Done
      <4>3. Promise!Succeed(t.msg)
        BY <3>1, <3>2, <4>1, <4>2 DEF Promise!Succeed, Done
      <4> QED BY <3>1, <4>3 DEF Promise!Next
    <3>6. CASE Ack(t)
      <4>1. CASE Current(t)
        BY <3>1, <3>6, <4>1, SettleImplements DEF Ack
      <4>2. CASE ~Current(t)
        BY <1>s, <3>6, <4>2 DEF Ack
      <4> QED BY <4>1, <4>2
    <3>7. CASE Reject(t)
      <4>1. CASE Current(t)
        BY <3>1, <3>7, <4>1, SettleImplements DEF Reject, DeadLetter
      <4>2. CASE ~Current(t)
        BY <1>s, <3>7, <4>2 DEF Reject
      <4> QED BY <4>1, <4>2
    <3> QED BY <2>3, <3>3, <3>4, <3>5, <3>6, <3>7 DEF Handle
  <2> QED BY <1>2, <2>1, <2>2, <2>3 DEF Consume
<1>3. ASSUME NEW w \in Workers, Disturb(w) PROVE UNCHANGED Promise!vars
  BY <1>s, <1>3 DEF Disturb, StartFails, ConsumeFails, LinkDrops, Shutdown, Restart
<1>4. CASE BrokerRestarts
  <2>1. /\ fate' = [m \in Msgs |-> IF fate[m] = "queued" THEN "lost" ELSE fate[m]]
        /\ UNCHANGED <<handled, failed>>
    BY <1>4 DEF BrokerRestarts
  <2>2. Promise!Lose
    BY <2>1 DEF Promise!Lose
  <2> QED BY <2>2 DEF Promise!Next
<1>5. CASE UNCHANGED vars
  BY <1>s, <1>5 DEF vars
<1> QED BY <1>1, <1>2, <1>3, <1>4, <1>5 DEF Next

(* At-least-once delivery: whatever happens to channels, tasks and workers, *)
(* a queued message leaves the queue only acknowledged after its handler    *)
(* returned, rejected after a failure, or lost with the broker.             *)
THEOREM Refinement == Spec => ImplementsDelivery
<1>1. Init => Promise!Init
  BY DEF Init, Promise!Init
<1>2. TypeOK /\ IInv /\ [Next]_vars => [Promise!Next]_(Promise!vars)
  BY StepImplements
<1> QED BY <1>1, <1>2, TypeCorrect, Invariance, PTL DEF Spec, ImplementsDelivery, Promise!Spec

-----------------------------------------------------------------------------
(* How often a handler may run.                                             *)

(* The channels whose delivery of m has not reached a handler.              *)
Waiting(m) ==
  {c \in Channel :
     \/ \E t \in tasks :
          t.stage = "started" /\ t.msg = m /\ t.worker = c.worker /\ t.epoch = c.epoch
     \/ \E i \in DOMAIN buffer[c.worker] :
          buffer[c.worker][i] = [msg |-> m, worker |-> c.worker, epoch |-> c.epoch]}

(* Whether m may be delivered once more before the next fault.              *)
Chance(m) == IF fate[m] = "new" \/ Ready(m) THEN 1 ELSE 0

(* A fault allows one run more; each delivery that waits, or is to be made, *)
(* uses one up.                                                             *)
Budget(m) ==
  IsFiniteSet(Waiting(m)) /\ runs[m] + Cardinality(Waiting(m)) + Chance(m) <= 1 + faults

LEMMA BudgetTypes ==
  ASSUME TypeOK, NEW m \in Msgs
  PROVE  runs[m] \in Nat /\ faults \in Nat /\ Chance(m) \in {0, 1}
  BY ConsumerAssumption DEF TypeOK, Chance

(* A step that delivers nothing and runs no handler.                        *)
LEMMA BudgetKept ==
  ASSUME TypeOK, NEW m \in Msgs, Budget(m), Waiting(m)' \subseteq Waiting(m),
         runs'[m] = runs[m],
         \/ faults' = faults /\ (Chance(m)' = Chance(m) \/ Chance(m)' = 0 \/ Chance(m) = 1)
         \/ faults' = faults + 1
  PROVE  Budget(m)'
<1>1. IsFiniteSet(Waiting(m)') /\ Cardinality(Waiting(m)') <= Cardinality(Waiting(m))
  BY FS_Subset DEF Budget
<1>2. Cardinality(Waiting(m)) \in Nat /\ Cardinality(Waiting(m)') \in Nat
  BY <1>1, FS_CardinalityType DEF Budget
<1>3. runs[m] \in Nat /\ faults \in Nat /\ Chance(m) \in {0, 1} /\ Chance(m)' \in {0, 1}
  BY BudgetTypes DEF Chance
<1> QED BY <1>1, <1>2, <1>3 DEF Budget

LEMMA DeliverBudget ==
  ASSUME TypeOK, Channels, NEW w \in Workers, NEW n \in Msgs, Deliver(w, n),
         NEW m \in Msgs, Budget(m)
  PROVE  Budget(m)'
<1>1. PICK d : d = [msg |-> n, worker |-> w, epoch |-> epoch[w]]
  OBVIOUS
<1>2. /\ fate[n] = "queued" /\ holder[n] = Nobody
      /\ holder' = [holder EXCEPT ![n] = ChannelOf(w)]
      /\ buffer' = [buffer EXCEPT ![w] = Append(buffer[w], d)]
      /\ UNCHANGED <<fate, tasks, runs, faults>>
  BY <1>1 DEF Deliver, AtHead, Ready, queueVars, historyVars
<1>3. buffer[w] \in Seq(Delivery) /\ d \in Delivery /\ ChannelOf(w) \in Channel /\ ChannelOf(w) # Nobody
  BY <1>1, DeliveryFields DEF TypeOK, Delivery
<1>4. ASSUME NEW c \in Channel, NEW i \in DOMAIN buffer'[c.worker]
      PROVE  \/ i \in DOMAIN buffer[c.worker] /\ buffer'[c.worker][i] = buffer[c.worker][i]
             \/ c.worker = w /\ buffer'[c.worker][i] = d
  <2>1. c.worker \in Workers
    BY DEF Channel
  <2>2. CASE c.worker = w
    <3>1. buffer'[w] = Append(buffer[w], d)
      BY <1>2 DEF TypeOK
    <3> QED BY <1>3, <2>2, <3>1
  <2>3. CASE c.worker # w
    BY <1>2, <2>1, <2>3 DEF TypeOK
  <2> QED BY <2>2, <2>3
<1>5. CASE m # n
  <2>1. Waiting(m)' \subseteq Waiting(m)
    BY <1>1, <1>2, <1>4, <1>5 DEF Waiting
  <2>2. Chance(m)' = Chance(m)
    BY <1>2, <1>5 DEF Chance, Ready, TypeOK
  <2> QED BY <1>2, <2>1, <2>2, BudgetKept
<1>6. CASE m = n
  <2>1. Waiting(m)' \subseteq Waiting(m) \cup {ChannelOf(w)}
    <3> SUFFICES ASSUME NEW c \in Waiting(m)' PROVE c \in Waiting(m) \/ c = ChannelOf(w)
      OBVIOUS
    <3>1. c \in Channel
      BY DEF Waiting
    <3>2. ASSUME NEW i \in DOMAIN buffer'[c.worker], buffer'[c.worker][i] = d,
                 d = [msg |-> m, worker |-> c.worker, epoch |-> c.epoch]
          PROVE  c = ChannelOf(w)
      BY <1>1, <3>1, <3>2 DEF Channel, ChannelOf
    <3>3. \/ \E t \in tasks :
               t.stage = "started" /\ t.msg = m /\ t.worker = c.worker /\ t.epoch = c.epoch
          \/ \E i \in DOMAIN buffer'[c.worker] :
               buffer'[c.worker][i] = [msg |-> m, worker |-> c.worker, epoch |-> c.epoch]
      BY <1>2 DEF Waiting
    <3>4. ASSUME NEW i \in DOMAIN buffer'[c.worker],
                 buffer'[c.worker][i] = [msg |-> m, worker |-> c.worker, epoch |-> c.epoch]
          PROVE  c \in Waiting(m) \/ c = ChannelOf(w)
      <4>1. CASE buffer'[c.worker][i] = d
        BY <3>2, <3>4, <4>1
      <4>2. CASE i \in DOMAIN buffer[c.worker] /\ buffer'[c.worker][i] = buffer[c.worker][i]
        BY <3>1, <3>4, <4>2 DEF Waiting
      <4> QED BY <1>4, <3>1, <4>1, <4>2
    <3>5. CASE \E t \in tasks :
                 t.stage = "started" /\ t.msg = m /\ t.worker = c.worker /\ t.epoch = c.epoch
      BY <3>1, <3>5 DEF Waiting
    <3> QED BY <3>3, <3>4, <3>5
  <2>2. /\ IsFiniteSet(Waiting(m) \cup {ChannelOf(w)})
        /\ Cardinality(Waiting(m) \cup {ChannelOf(w)}) <= Cardinality(Waiting(m)) + 1
        /\ Cardinality(Waiting(m)) \in Nat
    <3>1. IsFiniteSet(Waiting(m)) /\ Cardinality(Waiting(m)) \in Nat
      BY FS_CardinalityType DEF Budget
    <3>2. /\ IsFiniteSet(Waiting(m) \cup {ChannelOf(w)})
          /\ Cardinality(Waiting(m) \cup {ChannelOf(w)}) =
               IF ChannelOf(w) \in Waiting(m) THEN Cardinality(Waiting(m))
                                              ELSE Cardinality(Waiting(m)) + 1
      BY <3>1, FS_AddElement
    <3> QED BY <3>1, <3>2
  <2>3. /\ IsFiniteSet(Waiting(m)')
        /\ Cardinality(Waiting(m)') <= Cardinality(Waiting(m) \cup {ChannelOf(w)})
    BY <2>1, <2>2, FS_Subset
  <2>4. Cardinality(Waiting(m)') \in Nat /\ Cardinality(Waiting(m) \cup {ChannelOf(w)}) \in Nat
    BY <2>2, <2>3, FS_CardinalityType
  <2>5. Chance(m) = 1 /\ Chance(m)' = 0
    BY <1>2, <1>3, <1>6 DEF Chance, Ready, TypeOK
  <2>6. runs[m] \in Nat /\ faults \in Nat
    BY BudgetTypes
  <2> QED BY <1>2, <2>2, <2>3, <2>4, <2>5, <2>6 DEF Budget
<1> QED BY <1>5, <1>6

(* A task that reaches a handler no longer waits.                           *)
LEMMA ParseBudget ==
  ASSUME TypeOK, Channels, NEW t \in tasks, Parse(t), NEW m \in Msgs, Budget(m)
  PROVE  Budget(m)'
<1>1. /\ t \in Task /\ t.stage = "started" /\ Advance(t, "handling")
      /\ runs' = [runs EXCEPT ![t.msg] = @ + 1]
      /\ UNCHANGED <<fate, holder, buffer, faults>>
  BY DEF Parse, TypeOK, queueVars, workerVars
<1>2. \A u \in tasks' : u \in tasks \ {t} \/ u.stage = "handling"
  BY <1>1, AdvanceTask DEF Advance, Task
<1>3. Waiting(m)' \subseteq Waiting(m)
  BY <1>1, <1>2 DEF Waiting
<1>4. Chance(m)' = Chance(m)
  BY <1>1 DEF Chance, Ready
<1>5. CASE m # t.msg
  <2>1. runs'[m] = runs[m]
    BY <1>1, <1>5 DEF TypeOK
  <2> QED BY <1>1, <1>3, <1>4, <2>1, BudgetKept
<1>6. CASE m = t.msg
  <2>1. PICK c : c = [worker |-> t.worker, epoch |-> t.epoch]
    OBVIOUS
  <2>2. c \in Channel /\ c.worker = t.worker /\ c.epoch = t.epoch
    BY <1>1, <2>1 DEF Task, Channel
  <2>3. c \in Waiting(m)
    BY <1>1, <1>6, <2>2 DEF Waiting
  <2>4. c \notin Waiting(m)'
    <3>1. \A u \in tasks' : ~(u.stage = "started" /\ u.msg = m /\ u.worker = c.worker /\ u.epoch = c.epoch)
      BY <1>2, <1>6, <2>2 DEF Channels, SingleInv, SameDelivery
    <3>2. \A i \in DOMAIN buffer[c.worker] :
            buffer[c.worker][i] # [msg |-> m, worker |-> c.worker, epoch |-> c.epoch]
      BY <1>1, <1>6, <2>2 DEF Channels, SingleInv, SameDelivery, Task
    <3> QED BY <1>1, <3>1, <3>2 DEF Waiting
  <2>5. Waiting(m)' \subseteq Waiting(m) \ {c}
    BY <1>3, <2>4
  <2>6. /\ IsFiniteSet(Waiting(m) \ {c})
        /\ Cardinality(Waiting(m) \ {c}) = Cardinality(Waiting(m)) - 1
    BY <2>3, FS_RemoveElement DEF Budget
  <2>7. IsFiniteSet(Waiting(m)') /\ Cardinality(Waiting(m)') <= Cardinality(Waiting(m) \ {c})
    BY <2>5, <2>6, FS_Subset
  <2>8. Cardinality(Waiting(m)) \in Nat /\ Cardinality(Waiting(m)') \in Nat
    BY <2>7, FS_CardinalityType DEF Budget
  <2>9. runs[m] \in Nat /\ faults \in Nat /\ Chance(m) \in {0, 1} /\ runs'[m] = runs[m] + 1
    BY <1>1, <1>6, BudgetTypes DEF TypeOK
  <2> QED BY <1>1, <1>4, <2>6, <2>7, <2>8, <2>9 DEF Budget
<1> QED BY <1>5, <1>6

LEMMA StepBudget ==
  ASSUME TypeOK, Channels, [Next]_vars, NEW m \in Msgs, Budget(m)
  PROVE  Budget(m)'
<1> USE DEF queueVars, workerVars, historyVars
<1>1. ASSUME NEW n \in Msgs, Publish(n) PROVE Budget(m)'
  <2>1. Waiting(m)' = Waiting(m) /\ runs' = runs /\ faults' = faults
    BY <1>1 DEF Publish, Waiting
  <2>2. Chance(m)' = Chance(m) \/ Chance(m) = 1
    BY <1>1 DEF Publish, Chance, Ready, TypeOK
  <2> QED BY <2>1, <2>2, BudgetKept
<1>2. ASSUME NEW w \in Workers, Consume(w) PROVE Budget(m)'
  <2>1. CASE Start(w) \/ Reconnect(w)
    <3>1. UNCHANGED <<fate, holder, buffer, tasks, runs, faults>>
      BY <2>1 DEF Start, Reconnect
    <3>2. Waiting(m)' = Waiting(m) /\ Chance(m)' = Chance(m)
      BY <3>1 DEF Waiting, Chance, Ready
    <3> QED BY <3>1, <3>2, BudgetKept
  <2>2. CASE Spawn(w)
    <3>1. PICK d : d = buffer[w][1]
      OBVIOUS
    <3>2. PICK a : a = [msg |-> d.msg, worker |-> w, epoch |-> d.epoch, stage |-> "started"]
      OBVIOUS
    <3>3. /\ buffer[w] # <<>> /\ tasks' = tasks \cup {a}
          /\ buffer' = [buffer EXCEPT ![w] = Tail(buffer[w])]
          /\ UNCHANGED <<fate, holder, runs, faults>>
      BY <2>2, <3>1, <3>2 DEF Spawn
    <3>4. buffer[w] \in Seq(Delivery) /\ 1 \in DOMAIN buffer[w] /\ d \in Delivery /\ d.worker = w
      BY <3>1, <3>3 DEF TypeOK, Channels, ChannelInv
    <3>5. ASSUME NEW v \in Workers, NEW i \in DOMAIN buffer'[v]
          PROVE  \E k \in DOMAIN buffer[v] : buffer'[v][i] = buffer[v][k]
      <4>1. CASE v = w
        <5>1. buffer'[v] = Tail(buffer[v]) /\ buffer[v] # <<>>
          BY <3>3, <4>1 DEF TypeOK
        <5>2. i \in 1 .. Len(buffer[v]) - 1 /\ i + 1 \in DOMAIN buffer[v]
          BY <3>4, <4>1, <5>1
        <5>3. buffer'[v][i] = buffer[v][i + 1]
          BY <3>4, <4>1, <5>1, <5>2
        <5> QED BY <5>2, <5>3
      <4>2. CASE v # w
        BY <3>3, <4>2 DEF TypeOK
      <4> QED BY <4>1, <4>2
    <3>6. ASSUME NEW c \in Waiting(m)' PROVE c \in Waiting(m)
      <4>1. c \in Channel /\ c.worker \in Workers
        BY DEF Waiting, Channel
      <4>2. CASE a.msg = m /\ a.worker = c.worker /\ a.epoch = c.epoch
        <5>1. buffer[c.worker][1] = [msg |-> m, worker |-> c.worker, epoch |-> c.epoch]
          BY <3>1, <3>2, <3>4, <4>2 DEF Delivery
        <5> QED BY <3>2, <3>4, <4>1, <4>2, <5>1 DEF Waiting
      <4>3. CASE \E t \in tasks :
                   t.stage = "started" /\ t.msg = m /\ t.worker = c.worker /\ t.epoch = c.epoch
        BY <4>1, <4>3 DEF Waiting
      <4>4. ASSUME NEW i \in DOMAIN buffer'[c.worker],
                   buffer'[c.worker][i] = [msg |-> m, worker |-> c.worker, epoch |-> c.epoch]
            PROVE  c \in Waiting(m)
        BY <3>5, <4>1, <4>4 DEF Waiting
      <4>5. \/ \E t \in tasks' :
                 t.stage = "started" /\ t.msg = m /\ t.worker = c.worker /\ t.epoch = c.epoch
            \/ \E i \in DOMAIN buffer'[c.worker] :
                 buffer'[c.worker][i] = [msg |-> m, worker |-> c.worker, epoch |-> c.epoch]
        BY DEF Waiting
      <4> QED BY <3>3, <4>2, <4>3, <4>4, <4>5
    <3>7. Chance(m)' = Chance(m)
      BY <3>3 DEF Chance, Ready
    <3> QED BY <3>3, <3>6, <3>7, BudgetKept
  <2>3. ASSUME NEW n \in Msgs, Deliver(w, n) PROVE Budget(m)'
    BY <2>3, DeliverBudget
  <2>4. ASSUME NEW t \in TasksOf(w), Handle(t) PROVE Budget(m)'
    <3>1. t \in tasks /\ t \in Task /\ t.msg \in Msgs
      BY DEF TasksOf, TypeOK, Task
    <3>2. CASE Parse(t)
      BY <3>1, <3>2, ParseBudget
    <3>3. CASE ParseFails(t) \/ DecodeFails(t) \/ HandlerReturns(t) \/ HandlerRaises(t)
      <4>1. /\ UNCHANGED <<fate, holder, buffer, runs, faults>>
            /\ \/ tasks' = tasks \ {t}
               \/ \E stage \in Stages \ {"started"} : Advance(t, stage)
        BY <3>3 DEF ParseFails, DecodeFails, HandlerReturns, HandlerRaises, Stages
      <4>2. \A u \in tasks' : u \in tasks \/ u.stage # "started"
        BY <3>1, <4>1, AdvanceTask
      <4>3. Waiting(m)' \subseteq Waiting(m) /\ Chance(m)' = Chance(m)
        BY <4>1, <4>2 DEF Waiting, Chance, Ready
      <4> QED BY <4>1, <4>3, BudgetKept
    <3>4. CASE Ack(t) \/ Reject(t)
      <4>1. /\ tasks' = tasks \ {t} /\ UNCHANGED <<buffer, runs, faults>>
            /\ \/ UNCHANGED <<fate, holder>>
               \/ \E end \in {"acked", "dead_lettered", "dropped"} : Settle(t.msg, end)
        BY <3>4 DEF Ack, Reject, DeadLetter
      <4>2. Waiting(m)' \subseteq Waiting(m)
        BY <4>1 DEF Waiting
      <4>3. Chance(m)' = Chance(m) \/ Chance(m)' = 0
        BY <3>1, <4>1 DEF Settle, Chance, Ready, TypeOK
      <4> QED BY <4>1, <4>2, <4>3, BudgetKept
    <3> QED BY <2>4, <3>2, <3>3, <3>4 DEF Handle
  <2>5. CASE LoopCloses(w)
    <3>1. tasks' \subseteq tasks /\ UNCHANGED <<fate, holder, buffer, runs, faults>>
      BY <2>5 DEF LoopCloses
    <3>2. Waiting(m)' \subseteq Waiting(m) /\ Chance(m)' = Chance(m)
      BY <3>1 DEF Waiting, Chance, Ready
    <3> QED BY <3>1, <3>2, BudgetKept
  <2> QED BY <1>2, <2>1, <2>2, <2>3, <2>4, <2>5 DEF Consume
<1>f. ASSUME tasks' \subseteq tasks, runs' = runs, faults' = faults + 1,
             \A v \in Workers : buffer'[v] = buffer[v] \/ buffer'[v] = <<>>
      PROVE  Budget(m)'
  <2>1. \A c \in Channel : c.worker \in Workers
    BY DEF Channel
  <2>2. \A c \in Channel : \A i \in DOMAIN buffer'[c.worker] :
          i \in DOMAIN buffer[c.worker] /\ buffer'[c.worker][i] = buffer[c.worker][i]
    BY <1>f, <2>1
  <2>3. Waiting(m)' \subseteq Waiting(m)
    BY <1>f, <2>2 DEF Waiting
  <2> QED BY <1>f, <2>3, BudgetKept
<1>3. ASSUME NEW w \in Workers, Disturb(w) PROVE Budget(m)'
  <2>1. tasks' \subseteq tasks /\ runs' = runs /\ faults' = faults + 1
    BY <1>3 DEF Disturb, StartFails, ConsumeFails, LinkDrops, Shutdown, Restart, Fault
  <2>2. \A v \in Workers : buffer'[v] = buffer[v] \/ buffer'[v] = <<>>
    BY <1>3 DEF Disturb, StartFails, ConsumeFails, LinkDrops, Shutdown, Restart, TypeOK
  <2> QED BY <1>f, <2>1, <2>2
<1>4. CASE BrokerRestarts
  BY <1>f, <1>4 DEF BrokerRestarts, Fault
<1>5. CASE UNCHANGED vars
  <2>1. Waiting(m)' = Waiting(m) /\ Chance(m)' = Chance(m) /\ runs' = runs /\ faults' = faults
    BY <1>5 DEF vars, Waiting, Chance, Ready
  <2> QED BY <2>1, BudgetKept
<1> QED BY <1>1, <1>2, <1>3, <1>4, <1>5 DEF Next

(* Between two runs of a handler for one message something went wrong:      *)
(* without faults every message is handled at most once, by all workers     *)
(* together.  The count holds of failed messages too, since the code never  *)
(* requeues one.                                                            *)
THEOREM Repetition == Spec => []RunsBounded
<1> DEFINE Budgets == \A m \in Msgs : Budget(m)
<1>1. Init => Budgets
  <2> SUFFICES ASSUME Init, NEW m \in Msgs PROVE Budget(m)
    OBVIOUS
  <2>1. Waiting(m) = {}
    BY DEF Init, Waiting, Channel
  <2>2. IsFiniteSet(Waiting(m)) /\ Cardinality(Waiting(m)) = 0
    BY <2>1, FS_EmptySet
  <2> QED BY <2>2 DEF Init, Budget, Chance
<1>2. TypeOK /\ IInv /\ Budgets /\ [Next]_vars => Budgets'
  BY StepBudget DEF IInv, Channels
<1>3. TypeOK /\ Budgets => RunsBounded
  <2> SUFFICES ASSUME TypeOK, Budgets, NEW m \in Msgs PROVE runs[m] <= 1 + faults
    BY DEF RunsBounded
  <2>1. Cardinality(Waiting(m)) \in Nat
    BY FS_CardinalityType DEF Budget
  <2>2. runs[m] \in Nat /\ faults \in Nat /\ Chance(m) \in {0, 1}
    BY BudgetTypes
  <2> QED BY <2>1, <2>2 DEF Budget
<1> QED BY <1>1, <1>2, <1>3, TypeCorrect, Invariance, PTL DEF Spec
=============================================================================
