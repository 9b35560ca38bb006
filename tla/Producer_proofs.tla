--------------------------- MODULE Producer_proofs ---------------------------
(****************************************************************************)
(* Theorems about Producer for any requests, probes, pool, attempts and     *)
(* outages.                                                                 *)
(****************************************************************************)
EXTENDS Producer, FiniteSetTheorems, TLAPS

Inductive == TypeOK /\ IInv /\ IsFiniteSet(sessions)

LEMMA PoolUnchanged ==
  ASSUME PoolInv, IsFiniteSet(sessions), UNCHANGED <<sessions, pc>>
  PROVE  PoolInv' /\ IsFiniteSet(sessions)'
<1>1. sessions' = sessions /\ pc' = pc
  OBVIOUS
<1> QED BY <1>1 DEF PoolInv, InProgress

(* A step that leaves the pool alone and takes no client past the broker    *)
(* keeps its accounts.                                                      *)
LEMMA PoolKept ==
  ASSUME TypeOK, PoolInv, IsFiniteSet(sessions), UNCHANGED sessions,
         NEW c \in Clients \cup {Startup}, NEW step \in Steps, Goto(c, step),
         c \in sessions => step \notin {"idle", "query", "done"},
         c \in Requests /\ step \in {"route", "connect", "channel", "declare", "send"} =>
           c \in sessions
  PROVE  PoolInv' /\ IsFiniteSet(sessions)' /\ pc' \in [Clients \cup {Startup} -> Steps]
  BY DEF PoolInv, TypeOK, Goto, InProgress, Clients

LEMMA InitInductive == Init => Inductive
<1> SUFFICES ASSUME Init PROVE Inductive
  OBVIOUS
<1>1. IsFiniteSet({}) /\ Cardinality({}) = 0
  BY FS_EmptySet
<1>2. TypeOK
  BY ProducerAssumption DEF Init, TypeOK, Steps, Outcomes, Clients, Callers
<1>3. PoolInv
  BY <1>1, ProducerAssumption DEF Init, PoolInv, Clients
<1>4. ConnectionInv
  BY ProducerAssumption DEF Init, ConnectionInv, Clients, Callers
<1>5. FirstConnectInv
  BY ProducerAssumption DEF Init, FirstConnectInv
<1>6. AttemptsInv
  BY ProducerAssumption DEF Init, AttemptsInv, Callers
<1> QED BY <1>1, <1>2, <1>3, <1>4, <1>5, <1>6 DEF Inductive, IInv, Init

(* Finish takes the lifespan to "done" and a client to "exit".              *)
LEMMA FinishKept ==
  ASSUME TypeOK, PoolInv, IsFiniteSet(sessions), UNCHANGED sessions,
         NEW c \in Clients \cup {Startup}, NEW result \in Outcomes, Finish(c, result)
  PROVE  /\ PoolInv' /\ IsFiniteSet(sessions)'
         /\ pc' = [pc EXCEPT ![c] = IF c = Startup THEN "done" ELSE "exit"]
         /\ pc' \in [Clients \cup {Startup} -> Steps]
         /\ outcome' \in [Clients -> Outcomes]
         /\ phase' = IF c = Startup THEN "serving" ELSE phase
<1>1. Startup \notin Clients
  BY ProducerAssumption DEF Clients
<1>2. CASE c = Startup
  <2>1. Goto(c, "done") /\ phase' = "serving" /\ UNCHANGED outcome
    BY <1>2 DEF Finish
  <2>2. c \notin sessions
    BY <1>1, <1>2 DEF TypeOK
  <2>3. PoolInv' /\ IsFiniteSet(sessions)' /\ pc' \in [Clients \cup {Startup} -> Steps]
    BY <1>1, <1>2, <2>1, <2>2, PoolKept DEF Steps
  <2> QED BY <1>2, <2>1, <2>3 DEF TypeOK, Goto
<1>3. CASE c # Startup
  <2>1. Goto(c, "exit") /\ outcome' = [outcome EXCEPT ![c] = result] /\ UNCHANGED phase
    BY <1>3 DEF Finish
  <2>2. PoolInv' /\ IsFiniteSet(sessions)' /\ pc' \in [Clients \cup {Startup} -> Steps]
    BY <2>1, PoolKept DEF Steps
  <2> QED BY <1>3, <2>1, <2>2 DEF TypeOK, Goto
<1> QED BY <1>2, <1>3


(* A client that has finished without the producer having changed.          *)
LEMMA FinishInductive ==
  ASSUME Inductive, phase = "serving", NEW c \in Clients,
         \E result \in Outcomes : Finish(c, result),
         UNCHANGED <<brokerVars, producerVars, sessions, callVars>>
  PROVE  Inductive'
<1> USE DEF Inductive, IInv, brokerVars, producerVars, callVars
<1>1. Startup \notin Clients /\ c \in Clients \cup {Startup} /\ Startup \in Callers
  BY ProducerAssumption DEF Clients, Callers
<1>2. /\ PoolInv' /\ IsFiniteSet(sessions)' /\ pc' = [pc EXCEPT ![c] = "exit"]
      /\ pc' \in [Clients \cup {Startup} -> Steps] /\ outcome' \in [Clients -> Outcomes]
      /\ phase' = "serving"
  BY <1>1, FinishKept
<1>3. TypeOK'
  BY <1>2 DEF TypeOK
<1>4. ConnectionInv' /\ AttemptsInv'
  BY <1>1, <1>2 DEF ConnectionInv, AttemptsInv, TypeOK, InProgress
<1>5. FirstConnectInv'
  BY <1>2 DEF FirstConnectInv, TypeOK
<1> QED BY <1>2, <1>3, <1>4, <1>5

LEMMA StepInductive == Inductive /\ [Next]_vars => Inductive'
<1> SUFFICES ASSUME Inductive, [Next]_vars PROVE Inductive'
  OBVIOUS
<1> USE DEF Inductive, IInv, brokerVars, producerVars, callVars
<1>a. /\ Startup \notin Clients /\ None \notin Nat /\ MaxAttempts \in Nat \ {0}
      /\ PoolSize \in Nat \ {0} /\ Requests \cap Probes = {} /\ MaxOutages \in Nat
      /\ Callers \subseteq Clients \cup {Startup} /\ Requests \subseteq Clients
      /\ Startup \in Callers /\ Requests \subseteq Callers /\ Probes \subseteq Clients
  BY ProducerAssumption DEF Clients, Callers
<1>1. CASE GoesAway \/ ComesBack
  <2>1. UNCHANGED <<phase, opened, open, connection, exchange, sessions, pc, attempts, mine, outcome>>
    BY <1>1 DEF GoesAway, ComesBack
  <2>2. PoolInv' /\ IsFiniteSet(sessions)'
    BY <2>1, PoolUnchanged
  <2>3. ConnectionInv' /\ FirstConnectInv' /\ AttemptsInv'
    BY <2>1 DEF ConnectionInv, FirstConnectInv, AttemptsInv, InProgress
  <2>4. broker' \in BOOLEAN /\ outages' \in 0 .. MaxOutages
    <3>1. outages \in Nat /\ outages <= MaxOutages
      BY <1>a DEF TypeOK
    <3>2. CASE GoesAway
      <4>1. broker' = FALSE /\ outages < MaxOutages /\ outages' = outages + 1
        BY <3>2 DEF GoesAway
      <4>2. outages' \in 0 .. MaxOutages
        BY <1>a, <3>1, <4>1
      <4> QED BY <4>1, <4>2
    <3>3. CASE ComesBack
      BY <1>a, <3>1, <3>3 DEF ComesBack
    <3> QED BY <1>1, <3>2, <3>3
  <2>5. TypeOK'
    BY <2>1, <2>4 DEF TypeOK
  <2> QED BY <2>2, <2>3, <2>5
<1>2. ASSUME NEW c \in Callers, Connect(c) PROVE Inductive'
  <2>0. /\ phase = "starting" => c = Startup
        /\ phase # "stopped"
    BY <1>2, <1>a DEF ConnectionInv, Connect, Connected, OpenChannel, DeclareExchange,
                     AttemptFails, Callers, Clients, InProgress
  <2>1. CASE Connected(c)
    <3>1. PoolInv' /\ IsFiniteSet(sessions)' /\ pc' \in [Clients \cup {Startup} -> Steps]
      BY <2>1, <1>a, PoolKept DEF Connected, Steps, PoolInv
    <3>2. TypeOK'
      BY <2>1, <1>a, <3>1 DEF Connected, TypeOK, Opens
    <3>3. ConnectionInv'
      BY <2>1, <1>a, <2>0 DEF Connected, ConnectionInv, TypeOK, Opens, Goto, InProgress
    <3>4. ASSUME \A d \in Callers : attempts'[d] = 0 PROVE FirstConnectInv'
      <4>1. \A d \in Callers : attempts[d] = 0
        BY <2>1, <3>4 DEF Connected
      <4>2. phase = "starting" /\ c = Startup
        BY <2>0, <2>1, <4>1 DEF FirstConnectInv, Connected
      <4>3. opened = 0 /\ exchange = None
        BY <2>1, <4>1, <4>2 DEF FirstConnectInv, Connected
      <4>4. /\ opened' = 1 /\ connection' = 1 /\ exchange' = None /\ mine'[Startup] = 1
            /\ pc'[Startup] = "channel" /\ phase' = "starting"
        BY <1>a, <2>1, <4>2, <4>3 DEF Connected, Goto, TypeOK
      <4> QED BY <4>4 DEF FirstConnectInv
    <3>5. FirstConnectInv'
      BY <3>4 DEF FirstConnectInv
    <3>6. AttemptsInv'
      BY <2>1, <1>a DEF Connected, AttemptsInv, Goto, TypeOK
    <3> QED BY <3>1, <3>2, <3>3, <3>5, <3>6
  <2>2. CASE OpenChannel(c)
    <3>1. PoolInv' /\ IsFiniteSet(sessions)' /\ pc' \in [Clients \cup {Startup} -> Steps]
      BY <2>2, <1>a, PoolKept DEF OpenChannel, Steps, PoolInv
    <3>2. TypeOK'
      BY <2>2, <3>1 DEF OpenChannel, TypeOK
    <3>3. ConnectionInv'
      BY <2>2, <1>a, <2>0 DEF OpenChannel, ConnectionInv, TypeOK, Goto, InProgress
    <3>4. FirstConnectInv'
      BY <2>2, <1>a, <2>0 DEF OpenChannel, FirstConnectInv, TypeOK, Goto
    <3>5. AttemptsInv'
      BY <2>2, <1>a DEF OpenChannel, AttemptsInv, Goto, TypeOK
    <3> QED BY <3>1, <3>2, <3>3, <3>4, <3>5
  <2>3. CASE DeclareExchange(c)
    <3>0. mine[c] \in 1 .. opened
      BY <2>3 DEF DeclareExchange, ConnectionInv, TypeOK
    <3>1. CASE c = Startup
      <4>1. Finish(c, "none")
        BY <2>3, <3>1 DEF DeclareExchange
      <4>2. /\ PoolInv' /\ IsFiniteSet(sessions)' /\ pc' = [pc EXCEPT ![Startup] = "done"]
            /\ pc' \in [Clients \cup {Startup} -> Steps] /\ outcome' \in [Clients -> Outcomes]
            /\ phase' = "serving"
        BY <2>3, <3>1, <4>1, <1>a, FinishKept DEF DeclareExchange, Outcomes
      <4>3. TypeOK'
        BY <2>3, <3>0, <4>2 DEF DeclareExchange, TypeOK
      <4>4. ConnectionInv'
        BY <2>0, <2>3, <1>a, <4>2 DEF DeclareExchange, ConnectionInv, TypeOK, InProgress
      <4>5. phase = "starting"
        BY <2>3, <3>1 DEF ConnectionInv, DeclareExchange
      <4>6. FirstConnectInv'
        BY <1>a, <2>3, <3>1, <4>2, <4>5 DEF DeclareExchange, FirstConnectInv, TypeOK,
                                      ConnectionInv, Callers, Clients
      <4>7. AttemptsInv'
        BY <2>3, <1>a, <4>2 DEF DeclareExchange, AttemptsInv, TypeOK
      <4> QED BY <4>2, <4>3, <4>4, <4>6, <4>7
    <3>2. CASE c # Startup
      <4>1. Goto(c, "send") /\ UNCHANGED <<phase, outcome, sessions>>
        BY <2>3, <3>2 DEF DeclareExchange
      <4>2. c \in Requests
        BY <3>2 DEF Callers
      <4>3. PoolInv' /\ IsFiniteSet(sessions)' /\ pc' \in [Clients \cup {Startup} -> Steps]
        BY <2>3, <4>1, <4>2, <1>a, PoolKept DEF DeclareExchange, Steps, PoolInv
      <4>4. TypeOK'
        BY <2>3, <3>0, <4>1, <4>3 DEF DeclareExchange, TypeOK
      <4>5. ConnectionInv'
        BY <2>0, <2>3, <3>2, <1>a, <4>1 DEF DeclareExchange, ConnectionInv, TypeOK, Goto, InProgress
      <4>6. FirstConnectInv'
        BY <2>0, <2>3, <3>2, <4>1 DEF DeclareExchange, FirstConnectInv
      <4>7. AttemptsInv'
        BY <2>3, <1>a, <4>1 DEF DeclareExchange, AttemptsInv, Goto, TypeOK
      <4> QED BY <4>3, <4>4, <4>5, <4>6, <4>7
    <3> QED BY <3>1, <3>2
  <2>4. CASE AttemptFails(c)
    <3>1. attempts[c] \in 0 .. MaxAttempts /\ attempts' = [attempts EXCEPT ![c] = attempts[c] + 1]
      BY <2>4 DEF AttemptFails, Count, TypeOK
    <3>2. attempts'[c] # 0
      BY <3>1 DEF TypeOK
    <3>3. FirstConnectInv'
      BY <3>2 DEF FirstConnectInv
    <3>4. /\ PoolInv' /\ IsFiniteSet(sessions)' /\ pc' \in [Clients \cup {Startup} -> Steps]
          /\ outcome' \in [Clients -> Outcomes]
          /\ \E step \in {"connect", "done", "exit"} :
               /\ pc' = [pc EXCEPT ![c] = step]
               /\ step = "done" <=> c = Startup /\ LastAttempt(c)
          /\ phase' = IF c = Startup /\ LastAttempt(c) THEN "serving" ELSE phase
      <4>1. CASE LastAttempt(c)
        <5>1. Finish(c, "failed") /\ UNCHANGED sessions
          BY <2>4, <4>1 DEF AttemptFails
        <5> QED BY <4>1, <5>1, <1>a, FinishKept DEF Outcomes
      <4>2. CASE ~LastAttempt(c)
        <5>1. Goto(c, "connect") /\ UNCHANGED <<phase, outcome, sessions>>
          BY <2>4, <4>2 DEF AttemptFails
        <5>2. PoolInv' /\ IsFiniteSet(sessions)' /\ pc' \in [Clients \cup {Startup} -> Steps]
          BY <2>4, <5>1, <1>a, PoolKept DEF AttemptFails, Steps, PoolInv
        <5> QED BY <4>2, <5>1, <5>2 DEF Goto, TypeOK
      <4> QED BY <4>1, <4>2
    <3>5. attempts[c] < MaxAttempts
      BY <2>4 DEF AttemptFails, AttemptsInv
    <3>6. TypeOK'
      BY <2>4, <3>1, <3>4, <3>5, <1>a DEF AttemptFails, TypeOK
    <3>7. ConnectionInv'
      BY <2>0, <2>4, <3>4, <1>a DEF AttemptFails, ConnectionInv, TypeOK, InProgress
    <3>8. AttemptsInv'
      <4>1. pc'[c] = "connect" => attempts[c] + 1 < MaxAttempts
        BY <1>a, <2>4, <3>1, <3>4, <3>5 DEF AttemptFails, LastAttempt, Finish, Goto, TypeOK
      <4>2. pc[c] \notin {"idle", "query", "route"} /\ pc'[c] \notin {"idle", "query", "route"}
        BY <1>a, <2>4, <3>4 DEF AttemptFails, TypeOK
      <4> QED BY <1>a, <3>1, <3>4, <4>1, <4>2 DEF AttemptsInv, TypeOK
    <3> QED BY <3>3, <3>4, <3>6, <3>7, <3>8
  <2> QED BY <1>2, <2>1, <2>2, <2>3, <2>4 DEF Connect
<1>3. ASSUME NEW c \in Clients, Arrive(c) PROVE Inductive'
  <2>1. Goto(c, "query") /\ pc[c] = "idle" /\ phase = "serving" /\ UNCHANGED <<phase, brokerVars, producerVars, sessions, callVars, outcome>>
    BY <1>3 DEF Arrive
  <2>2. PoolInv' /\ IsFiniteSet(sessions)' /\ pc' \in [Clients \cup {Startup} -> Steps]
    BY <2>1, PoolKept DEF Steps, PoolInv, InProgress
  <2>3. TypeOK'
    BY <2>1, <2>2 DEF TypeOK
  <2>4. ConnectionInv' /\ AttemptsInv'
    BY <2>1, <1>a DEF ConnectionInv, AttemptsInv, Goto, TypeOK, InProgress
  <2>5. FirstConnectInv'
    BY <2>1, <1>a DEF FirstConnectInv, Goto, TypeOK
  <2> QED BY <2>2, <2>3, <2>4, <2>5
<1>4. ASSUME NEW c \in Clients, Serve(c) PROVE Inductive'
  <2>0. phase = "serving"
    BY <1>4, <1>a DEF Serve, Query, PoolTimeout, TimesOut, Exit, Route, Ready, ConnectionInv,
                     TypeOK, InProgress
  <2>1. CASE Query(c)
    <3>1. /\ sessions' = sessions \cup {c} /\ pc[c] = "query" /\ Cardinality(sessions) < PoolSize
          /\ pc' = [pc EXCEPT ![c] = IF c \in Probes THEN "ping" ELSE "route"]
          /\ UNCHANGED <<phase, brokerVars, producerVars, callVars, outcome>>
      BY <2>1 DEF Query, Goto
    <3>2. IsFiniteSet(sessions') /\ Cardinality(sessions') <= PoolSize
      <4>1. Cardinality(sessions) \in Nat
        BY FS_CardinalityType
      <4>2. /\ IsFiniteSet(sessions \cup {c})
            /\ Cardinality(sessions \cup {c}) \in {Cardinality(sessions), Cardinality(sessions) + 1}
        BY FS_AddElement
      <4> QED BY <1>a, <3>1, <4>1, <4>2
    <3>3. PoolInv'
      BY <1>a, <3>1, <3>2 DEF PoolInv, TypeOK, InProgress
    <3>4. TypeOK'
      BY <3>1 DEF TypeOK, Steps
    <3>5. ConnectionInv' /\ AttemptsInv'
      BY <1>a, <2>0, <3>1 DEF ConnectionInv, AttemptsInv, TypeOK, InProgress
    <3>6. FirstConnectInv'
      BY <1>a, <2>0, <3>1 DEF FirstConnectInv, TypeOK
    <3> QED BY <3>2, <3>3, <3>4, <3>5, <3>6
  <2>2. CASE Exit(c)
    <3>1. /\ sessions' = sessions \ {c} /\ pc[c] = "exit"
          /\ pc' = [pc EXCEPT ![c] = "done"]
          /\ UNCHANGED <<phase, brokerVars, producerVars, callVars, outcome>>
      BY <2>2 DEF Exit, Released, Goto
    <3>2. IsFiniteSet(sessions') /\ Cardinality(sessions') <= PoolSize
      <4>1. Cardinality(sessions) \in Nat /\ Cardinality(sessions) <= PoolSize
        BY FS_CardinalityType DEF PoolInv
      <4>2. /\ IsFiniteSet(sessions \ {c})
            /\ Cardinality(sessions \ {c}) \in {Cardinality(sessions), Cardinality(sessions) - 1}
        BY FS_RemoveElement
      <4> QED BY <1>a, <3>1, <4>1, <4>2
    <3>3. PoolInv'
      BY <1>a, <3>1, <3>2 DEF PoolInv, TypeOK, InProgress
    <3>4. TypeOK'
      BY <3>1 DEF TypeOK, Steps
    <3>5. ConnectionInv' /\ AttemptsInv'
      BY <1>a, <2>0, <3>1 DEF ConnectionInv, AttemptsInv, TypeOK, InProgress
    <3>6. FirstConnectInv'
      BY <1>a, <2>0, <3>1 DEF FirstConnectInv, TypeOK
    <3> QED BY <3>2, <3>3, <3>4, <3>5, <3>6
  <2>3. ASSUME c \in Requests, Route(c), IsConnected PROVE Inductive'
    <3>1. /\ Goto(c, PublishStep) /\ pc[c] = "route"
          /\ UNCHANGED <<phase, brokerVars, producerVars, sessions, callVars, outcome>>
      BY <2>3 DEF Route
    <3>2. PublishStep \in {"connect", "send"} /\ (exchange # None => PublishStep = "send")
      BY DEF PublishStep
    <3>3. PoolInv' /\ IsFiniteSet(sessions)' /\ pc' \in [Clients \cup {Startup} -> Steps]
      BY <2>3, <3>1, <3>2, PoolKept DEF Steps, PoolInv
    <3>4. TypeOK'
      BY <3>1, <3>3 DEF TypeOK
    <3>5. ConnectionInv'
      BY <1>a, <2>0, <3>1, <3>2 DEF ConnectionInv, Goto, TypeOK, InProgress
    <3>6. AttemptsInv'
      BY <1>a, <2>3, <3>1, <3>2 DEF AttemptsInv, Goto, TypeOK
    <3>7. FirstConnectInv'
      BY <1>a, <2>0, <3>1, <3>2 DEF FirstConnectInv, Goto, TypeOK
    <3> QED BY <3>3, <3>4, <3>5, <3>6, <3>7
  <2>4. ASSUME PoolTimeout(c) \/ (c \in Requests /\ Route(c) /\ ~IsConnected) \/ Ready(c)
        PROVE  Inductive'
    <3>1. \E result \in Outcomes : Finish(c, result)
      BY <2>4 DEF PoolTimeout, Route, Ready, Outcomes
    <3>2. UNCHANGED <<brokerVars, producerVars, sessions, callVars>>
      BY <2>4 DEF PoolTimeout, Route, Ready
    <3> QED BY <1>a, <2>0, <3>1, <3>2, FinishInductive
  <2> QED BY <1>4, <2>1, <2>2, <2>3, <2>4 DEF Serve
<1>5. ASSUME NEW r \in Requests, Send(r) \/ SendFails(r) PROVE Inductive'
  <2>0. phase = "serving"
    BY <1>5, <1>a DEF Send, SendFails, ConnectionInv, TypeOK, InProgress
  <2>1. \E result \in Outcomes : Finish(r, result)
    BY <1>5 DEF Send, SendFails, Outcomes
  <2>2. UNCHANGED <<brokerVars, producerVars, sessions, callVars>>
    BY <1>5 DEF Send, SendFails
  <2> QED BY <1>a, <2>0, <2>1, <2>2, FinishInductive
<1>6. CASE Close
  <2>1. /\ phase = "serving" /\ phase' = "stopped"
        /\ \A c \in Clients : ~InProgress(c)
        /\ open' \subseteq open
        /\ UNCHANGED <<brokerVars, opened, connection, exchange, sessions, pc, callVars, outcome>>
    BY <1>6 DEF Close, InProgress
  <2>2. PoolInv' /\ IsFiniteSet(sessions)'
    BY <2>1, PoolUnchanged
  <2>3. TypeOK'
    BY <2>1 DEF TypeOK
  <2>4. ConnectionInv' /\ AttemptsInv' /\ FirstConnectInv'
    BY <2>1 DEF ConnectionInv, AttemptsInv, FirstConnectInv, InProgress
  <2> QED BY <2>2, <2>3, <2>4
<1>7. CASE UNCHANGED vars
  <2>1. PoolInv' /\ IsFiniteSet(sessions)'
    BY <1>7, PoolUnchanged DEF vars
  <2>2. TypeOK'
    BY <1>7 DEF TypeOK, vars
  <2>3. ConnectionInv' /\ AttemptsInv' /\ FirstConnectInv'
    BY <1>7 DEF ConnectionInv, AttemptsInv, FirstConnectInv, InProgress, vars
  <2> QED BY <2>1, <2>2, <2>3
<1> QED BY <1>1, <1>2, <1>3, <1>4, <1>5, <1>6, <1>7 DEF Next, Stopped

(* Connections of the pool, connections to the broker and attempts are      *)
(* accounted for: in particular no path through a request, failed or        *)
(* refused, keeps its pooled connection.                                    *)
THEOREM Invariance == Spec => []IInv
<1>1. Spec => []Inductive
  BY InitInductive, StepInductive, PTL DEF Spec
<1>2. Inductive => IInv
  BY DEF Inductive
<1> QED BY <1>1, <1>2, PTL

THEOREM TypeCorrect == Spec => []TypeOK
<1>1. Spec => []Inductive
  BY InitInductive, StepInductive, PTL DEF Spec
<1>2. Inductive => TypeOK
  BY DEF Inductive
<1> QED BY <1>1, <1>2, PTL

(* However many callers connect at once and however often attempts fail,    *)
(* the exchange in use was declared on a connection that is still open.     *)
THEOREM Exchange == Spec => []ExchangeIsOpen
<1>1. TypeOK /\ IInv => ExchangeIsOpen
  BY ProducerAssumption DEF TypeOK, IInv, ConnectionInv, ExchangeIsOpen
<1> QED BY <1>1, TypeCorrect, Invariance, PTL

(* A connection to the broker can be left behind by a failed attempt only.  *)
THEOREM Leaks == Spec => []LeakOnlyAfterFailure
<1>1. TypeOK /\ IInv => LeakOnlyAfterFailure
  <2> SUFFICES ASSUME TypeOK, IInv, \A c \in Callers : attempts[c] = 0
               PROVE  open \subseteq {connection} /\ exchange \in {None, connection}
    BY DEF LeakOnlyAfterFailure
  <2>1. opened \in 0 .. 1 /\ (opened = 1 => connection = 1) /\ exchange \in {None, connection}
    BY DEF IInv, FirstConnectInv, TypeOK
  <2>2. open \subseteq 1 .. opened
    BY DEF TypeOK
  <2> QED BY <2>1, <2>2
<1> QED BY <1>1, TypeCorrect, Invariance, PTL
=============================================================================
