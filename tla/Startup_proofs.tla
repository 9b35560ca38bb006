--------------------------- MODULE Startup_proofs ---------------------------
(****************************************************************************)
(* Theorems about Startup for any workers, configurations, databases and    *)
(* faults.                                                                  *)
(****************************************************************************)
EXTENDS Startup, TLAPS

(* What pydantic and _y() find is a URL or a null, and a null is not valid. *)
LEMMA LeafFound ==
  ASSUME NEW yaml \in Document
  PROVE  Y(yaml) \in Leaves
<1> USE SettingsAssumption
<1> DEFINE section == Child(yaml, "database", DefaultUrl)
<1>1. DefaultUrl \in Leaves
  BY DEF Leaves
<1>2. section \in Sections \cup Leaves
  <2>1. CASE yaml \notin Leaves /\ "database" \in DOMAIN yaml
    <3>1. yaml \in [{"database"} -> Sections \cup {Null}]
      BY <2>1 DEF Document
    <3>2. yaml["database"] \in Sections \cup {Null}
      BY <3>1
    <3> QED BY <2>1, <3>2 DEF Child, Leaves
  <2>2. CASE ~(yaml \notin Leaves /\ "database" \in DOMAIN yaml)
    BY <1>1, <2>2 DEF Child
  <2> QED BY <2>1, <2>2
<1> HIDE DEF section
<1>3. Child(section, "url", DefaultUrl) \in Leaves
  <2>1. CASE section \notin Leaves /\ "url" \in DOMAIN section
    <3>1. section \in [{"url"} -> Leaves]
      BY <1>2, <2>1 DEF Sections
    <3>2. section["url"] \in Leaves
      BY <3>1
    <3> QED BY <2>1, <3>2 DEF Child
  <2>2. CASE ~(section \notin Leaves /\ "url" \in DOMAIN section)
    BY <1>1, <2>2 DEF Child
  <2> QED BY <2>1, <2>2
<1> QED BY <1>3 DEF Y, section

LEMMA UrlFound ==
  ASSUME NEW s \in Sources, Valid(s)
  PROVE  DatabaseUrl(s) \in Urls
<1>1. s.env \in Urls \cup {Absent} /\ s.dotenv \in Urls \cup {Absent} /\ s.yaml \in Document
  BY DEF Sources
<1>2. Y(s.yaml) \in Urls \cup {Null}
  BY <1>1, LeafFound DEF Leaves
<1> QED BY <1>1, <1>2 DEF Valid, DatabaseUrl, Field

(* _y() finds what config.yaml says, and the default if it says nothing.    *)
LEMMA YamlRead ==
  ASSUME NEW yaml \in Document
  PROVE  /\ \A u \in Leaves : yaml = [database |-> [url |-> u]] => Y(yaml) = u
         /\ (\A u \in Leaves : yaml # [database |-> [url |-> u]]) => Y(yaml) = DefaultUrl
<1> USE SettingsAssumption, LeavesAssumption
<1>1. DefaultUrl \in Leaves /\ Null \in Leaves
  BY DEF Leaves
<1>2. \A node, key : node \in Leaves => Child(node, key, DefaultUrl) = DefaultUrl
  BY DEF Child
<1>3. ASSUME NEW u \in Leaves, yaml = [database |-> [url |-> u]]
      PROVE  Y(yaml) = u
  <2> DEFINE section == [url |-> u]
  <2>1. section \in Sections
    BY DEF Sections
  <2>2. yaml \notin Leaves /\ section \notin Leaves
    BY <2>1
  <2>3. Child(yaml, "database", DefaultUrl) = section
    BY <1>3, <2>2 DEF Child
  <2>4. Child(section, "url", DefaultUrl) = u
    BY <2>2 DEF Child
  <2> QED BY <2>3, <2>4 DEF Y
<1>4. ASSUME \A u \in Leaves : yaml # [database |-> [url |-> u]]
      PROVE  Y(yaml) = DefaultUrl
  <2>1. CASE yaml \in [{} -> Leaves]
    <3>1. "database" \notin DOMAIN yaml
      BY <2>1
    <3>2. Child(yaml, "database", DefaultUrl) = DefaultUrl
      BY <3>1 DEF Child
    <3> QED BY <1>1, <1>2, <3>2 DEF Y
  <2>2. CASE yaml \in [{"database"} -> Sections \cup {Null}]
    <3> DEFINE section == yaml["database"]
    <3>1. section \in Sections \cup {Null} /\ yaml = [database |-> section]
      BY <2>2
    <3>2. Child(yaml, "database", DefaultUrl) = section
      BY <2>2 DEF Child
    <3> HIDE DEF section
    <3>3. CASE section = Null
      BY <1>1, <1>2, <3>2, <3>3 DEF Y
    <3>4. CASE section \in [{} -> Leaves]
      <4>1. "url" \notin DOMAIN section
        BY <3>4
      <4> QED BY <3>2, <4>1 DEF Child, Y
    <3>5. CASE section \in [{"url"} -> Leaves]
      <4>1. section["url"] \in Leaves /\ section = [url |-> section["url"]]
        BY <3>5
      <4> QED BY <1>4, <3>1, <4>1
    <3> QED BY <3>1, <3>3, <3>4, <3>5 DEF Sections
  <2> QED BY <2>1, <2>2 DEF Document
<1> QED BY <1>3, <1>4

(* The URL of the settings is the first one given, in the order of priority.*)
LEMMA UrlByPriority ==
  ASSUME NEW s \in Sources
  PROVE  DatabaseUrl(s) = FirstOf(Given(s))
<1> USE SettingsAssumption
<1> DEFINE written == {u \in Leaves : s.yaml = [database |-> [url |-> u]]}
           inYaml == IF written = {} THEN Absent ELSE CHOOSE u \in written : TRUE
<1>1. s.env \in Urls \cup {Absent} /\ s.dotenv \in Urls \cup {Absent} /\ s.yaml \in Document
  BY DEF Sources
<1>2. IF inYaml # Absent THEN Y(s.yaml) = inYaml ELSE Y(s.yaml) = DefaultUrl
  <2>1. CASE written = {}
    BY <1>1, <2>1, YamlRead
  <2>2. CASE written # {}
    <3>1. inYaml \in written
      BY <2>2
    <3>2. inYaml # Absent
      BY <3>1 DEF Leaves
    <3> QED BY <1>1, <3>1, <3>2, YamlRead
  <2> QED BY <2>1, <2>2
<1>3. Given(s) = <<s.env, s.dotenv, inYaml, DefaultUrl>>
  BY DEF Given
<1> HIDE DEF inYaml, written
<1> DEFINE given == Given(s)
           first(n) == given[n] # Absent /\ \A m \in 1 .. n - 1 : given[m] = Absent
<1>4. /\ DOMAIN given = 1 .. 4 /\ given[1] = s.env /\ given[2] = s.dotenv
      /\ given[3] = inYaml /\ given[4] = DefaultUrl
  BY <1>3
<1> HIDE DEF given
<1>5. \A m, n \in 1 .. 4 : first(m) /\ first(n) => m = n
  OBVIOUS
<1>6. FirstOf(given) = given[CHOOSE n \in DOMAIN given : first(n)]
  BY DEF FirstOf
<1>7. ASSUME NEW n \in 1 .. 4, first(n) PROVE FirstOf(given) = given[n]
  <2> HIDE DEF first
  <2>1. (CHOOSE k \in DOMAIN given : first(k)) = n
    BY <1>4, <1>5, <1>7
  <2> QED BY <1>6, <2>1
<1>8. CASE s.env # Absent
  <2>1. first(1)
    BY <1>4, <1>8
  <2> QED BY <1>4, <1>7, <1>8, <2>1 DEF DatabaseUrl, given
<1>9. CASE s.env = Absent /\ s.dotenv # Absent
  <2>1. first(2)
    BY <1>4, <1>9
  <2> QED BY <1>4, <1>7, <1>9, <2>1 DEF DatabaseUrl, Field, given
<1>10. CASE s.env = Absent /\ s.dotenv = Absent /\ inYaml # Absent
  <2>1. first(3)
    BY <1>4, <1>10
  <2> QED BY <1>2, <1>4, <1>7, <1>10, <2>1 DEF DatabaseUrl, Field, given
<1>11. CASE s.env = Absent /\ s.dotenv = Absent /\ inYaml = Absent
  <2>1. first(4)
    BY <1>4, <1>11
  <2> QED BY <1>2, <1>4, <1>7, <1>11, <2>1 DEF DatabaseUrl, Field, given
<1> QED BY <1>8, <1>9, <1>10, <1>11

-----------------------------------------------------------------------------
(* Types.                                                                   *)

LEMMA InitTyped == Init => TypeOK
  BY StartupAssumption DEF Init, TypeOK, Schema, Steps, Starting

LEMMA FaultType ==
  ASSUME TypeOK, Fault
  PROVE  faults' \in 0 .. MaxFaults
  BY StartupAssumption DEF TypeOK, Fault

LEMMA StepTyped == TypeOK /\ [Next]_vars => TypeOK'
<1> SUFFICES ASSUME TypeOK, [Next]_vars PROVE TypeOK'
  OBVIOUS
<1> USE DEF TypeOK, Goto, schemaVars, brokerVars, consumerVars, Schema, Steps, Starting, Ending,
            Ended
<1>1. ASSUME NEW w \in Workers, Begin(w) PROVE TypeOK'
  <2>1. CASE Import(w)
    <3>1. Valid(sources) => DatabaseUrl(sources) \in Urls
      BY StartupAssumption, UrlFound
    <3> QED BY <2>1, <3>1 DEF Import
  <2>2. CASE Check(w)
    BY <2>2 DEF Check
  <2>3. CASE CreateTable(w)
    BY <2>3 DEF CreateTable, Creates
  <2>4. CASE CreateIndexes(w)
    BY <2>4 DEF CreateIndexes, Creates
  <2>5. CASE Commit(w)
    BY <2>5 DEF Commit
  <2>6. CASE Connect(w)
    BY <2>6 DEF Connect, WithoutBroker
  <2> QED BY <1>1, <2>1, <2>2, <2>3, <2>4, <2>5, <2>6 DEF Begin
<1>2. ASSUME NEW w \in Workers, End(w) PROVE TypeOK'
  <2>1. CASE Cancel(w)
    BY <2>1 DEF Cancel, AttemptEnds
  <2>2. CASE Awaited(w) \/ StopConsumer(w) \/ CloseProducer(w) \/ Dispose(w)
    BY <2>2 DEF Awaited, StopConsumer, CloseProducer, Dispose
  <2> QED BY <1>2, <2>1, <2>2 DEF End
<1>3. ASSUME NEW w \in Workers, Run(w) PROVE TypeOK'
  <2>1. CASE RequestConnects(w)
    BY <2>1 DEF RequestConnects
  <2>2. CASE ConsumerConnects(w)
    BY <2>2 DEF ConsumerConnects
  <2> QED BY <1>3, <2>1, <2>2 DEF Run
<1>4. ASSUME NEW w \in Workers, Disturb(w) PROVE TypeOK'
  <2>1. faults' \in 0 .. MaxFaults
    BY <1>4, FaultType
    DEF Disturb, StatementFails, CommitFails, ConsumerFails, Terminate, CancelSwallowed,
        CloseFails, Crash, Respawn
  <2>2. CASE StatementFails(w)
    BY <2>1, <2>2 DEF StatementFails
  <2>3. CASE CommitFails(w)
    BY <2>1, <2>3 DEF CommitFails
  <2>4. CASE ConsumerFails(w)
    BY <2>1, <2>4 DEF ConsumerFails, AttemptEnds
  <2>5. CASE CancelSwallowed(w)
    BY <2>1, <2>5 DEF CancelSwallowed, AttemptEnds
  <2>6. CASE Terminate(w) \/ CloseFails(w)
    BY <2>1, <2>6 DEF Terminate, CloseFails
  <2>7. CASE Crash(w)
    BY <2>1, <2>7 DEF Crash, Disconnected
  <2>8. CASE Respawn(w)
    BY <2>1, <2>8 DEF Respawn, Disconnected
  <2> QED BY <1>4, <2>2, <2>3, <2>4, <2>5, <2>6, <2>7, <2>8 DEF Disturb
<1>5. CASE Idle \/ UNCHANGED vars
  BY <1>5 DEF Idle, vars
<1> QED BY <1>1, <1>2, <1>3, <1>4, <1>5 DEF Next

-----------------------------------------------------------------------------
(* The schema.                                                              *)

SchemaInv == CreatorInv /\ SchemaBeforeService

(* The steps of a worker from the commit of the schema to its end leave the *)
(* schema as it is, and so do those of its consumer.                        *)
LEMMA SchemaKept ==
  ASSUME TypeOK, SchemaInv, NEW w \in Workers,
         UNCHANGED <<sources, url, table>>,
         pending' = pending \/ pending' = [pending EXCEPT ![w] = "none"],
         \A v \in Workers \ {w} : pc'[v] = pc[v],
         \/ pc'[w] = pc[w] /\ pending' = pending
         \/ /\ pc'[w] \in Ended /\ pending'[w] = "none"
            /\ url[w] = Absent => pc'[w] \in {"failed", "dead"}
         \/ Serving(w) /\ Serving(w)' /\ url[w] # Absent
  PROVE  SchemaInv'
  BY DEF SchemaInv, CreatorInv, SchemaBeforeService, Serving, Ending, TypeOK, Ended

LEMMA StepSchema == TypeOK /\ SchemaInv /\ [Next]_vars => SchemaInv'
<1> SUFFICES ASSUME TypeOK, SchemaInv, [Next]_vars PROVE SchemaInv'
  OBVIOUS
<1> USE DEF Goto, schemaVars, brokerVars, consumerVars, Starting, Ending, Ended
<1>1. ASSUME NEW w \in Workers, Import(w) PROVE SchemaInv'
  <2>1. Valid(sources) => DatabaseUrl(sources) \in Urls /\ DatabaseUrl(sources) # Absent
    BY StartupAssumption, SettingsAssumption, UrlFound DEF TypeOK
  <2>2. pending[w] = "none"
    BY <1>1 DEF Import, SchemaInv, CreatorInv
  <2>3. /\ UNCHANGED <<sources, table, pending>>
        /\ \A v \in Workers \ {w} : pc'[v] = pc[v] /\ url'[v] = url[v]
    BY <1>1 DEF Import, TypeOK
  <2>4. CASE Valid(sources)
    BY <1>1, <2>1, <2>2, <2>3, <2>4
    DEF Import, TypeOK, SchemaInv, CreatorInv, SchemaBeforeService, Serving
  <2>5. CASE ~Valid(sources)
    BY <1>1, <2>1, <2>2, <2>3, <2>5
    DEF Import, TypeOK, SchemaInv, CreatorInv, SchemaBeforeService, Serving
  <2> QED BY <2>4, <2>5
<1>2. ASSUME NEW w \in Workers, Check(w) PROVE SchemaInv'
  <2>1. UNCHANGED <<sources, url, table, pending>> /\ \A v \in Workers \ {w} : pc'[v] = pc[v]
    BY <1>2 DEF Check, TypeOK
  <2>2. url[w] # Absent /\ pending[w] = "none" /\ table \in {"none", "bare", "complete"}
    BY <1>2 DEF Check, SchemaInv, CreatorInv, TypeOK, Schema
  <2>3. pc'[w] = (IF table # "none" THEN "connect" ELSE "create")
    BY <1>2 DEF Check, HasTable, TypeOK
  <2> QED BY <2>1, <2>2, <2>3 DEF SchemaInv, CreatorInv, SchemaBeforeService, Serving
<1>3. ASSUME NEW w \in Workers, CreateTable(w) PROVE SchemaInv'
  <2>1. UNCHANGED <<sources, url>> /\ \A v \in Workers \ {w} : pc'[v] = pc[v] /\ pending[v] = "none"
    BY <1>3 DEF CreateTable, TypeOK
  <2>2. url[w] # Absent /\ pending[w] = "none" /\ pc[w] = "create"
    BY <1>3 DEF CreateTable, SchemaInv, CreatorInv
  <2>3. CASE table # "none"
    <3>1. pc'[w] = "failed" /\ UNCHANGED <<table, pending>>
      BY <1>3, <2>3 DEF CreateTable, HasTable, TypeOK
    <3> QED BY <2>1, <2>2, <3>1, SchemaKept
  <2>4. CASE table = "none" /\ url[w] \in Transactional
    <3>1. /\ pc'[w] = "index" /\ UNCHANGED table
          /\ pending' = [pending EXCEPT ![w] = "bare"]
      BY <1>3, <2>4 DEF CreateTable, HasTable, Creates, TypeOK
    <3> QED BY <2>1, <2>2, <2>4, <3>1
            DEF TypeOK, SchemaInv, CreatorInv, SchemaBeforeService, Serving
  <2>5. CASE table = "none" /\ url[w] \notin Transactional
    <3>1. pc'[w] = "index" /\ table' = "bare" /\ UNCHANGED pending
      BY <1>3, <2>5 DEF CreateTable, HasTable, Creates, TypeOK
    <3>2. \A v \in Workers : pending'[v] = "none"
      BY <2>1, <2>2, <3>1
    <3>3. \A v \in Workers : url'[v] \notin Transactional
      <4> SUFFICES ASSUME NEW v \in Workers PROVE url[v] \notin Transactional
        BY <2>1
      <4>1. url[v] # Absent => url[v] = url[w]
        BY <2>2 DEF SchemaInv, CreatorInv
      <4>2. Absent \notin Transactional
        BY StartupAssumption, SettingsAssumption
      <4> QED BY <2>5, <4>1, <4>2
    <3> QED BY <2>1, <2>2, <3>1, <3>2, <3>3
            DEF SchemaInv, CreatorInv, SchemaBeforeService, Serving
  <2> QED BY <2>3, <2>4, <2>5
<1>4. ASSUME NEW w \in Workers, CreateIndexes(w) PROVE SchemaInv'
  <2>1. /\ UNCHANGED <<sources, url>> /\ \A v \in Workers \ {w} : pc'[v] = pc[v]
        /\ pc[w] = "index" /\ pc'[w] = "commit" /\ url[w] # Absent
    BY <1>4 DEF CreateIndexes, TypeOK, SchemaInv, CreatorInv
  <2>2. CASE url[w] \in Transactional
    <3>1. UNCHANGED table /\ pending' = [pending EXCEPT ![w] = "complete"] /\ pending[w] = "bare"
      BY <1>4, <2>1, <2>2 DEF CreateIndexes, Creates, SchemaInv, CreatorInv
    <3> QED BY <2>1, <2>2, <3>1
            DEF TypeOK, SchemaInv, CreatorInv, SchemaBeforeService, Serving
  <2>3. CASE url[w] \notin Transactional
    <3>1. table' = "complete" /\ UNCHANGED pending /\ table # "none"
      BY <1>4, <2>1, <2>3 DEF CreateIndexes, Creates, SchemaInv, CreatorInv
    <3>2. \A v \in Workers : pending[v] = "none"
      BY <3>1 DEF SchemaInv, CreatorInv
    <3> QED BY <2>1, <2>3, <3>1, <3>2
            DEF TypeOK, SchemaInv, CreatorInv, SchemaBeforeService, Serving
  <2> QED BY <2>2, <2>3
<1>5. ASSUME NEW w \in Workers, Commit(w) PROVE SchemaInv'
  <2>1. /\ UNCHANGED <<sources, url>> /\ \A v \in Workers \ {w} : pc'[v] = pc[v]
        /\ pc[w] = "commit" /\ pc'[w] = "connect" /\ url[w] # Absent
        /\ pending' = [pending EXCEPT ![w] = "none"]
    BY <1>5 DEF Commit, TypeOK, SchemaInv, CreatorInv
  <2>2. CASE url[w] \in Transactional
    <3>1. pending[w] = "complete" /\ \A v \in Workers \ {w} : pending[v] = "none"
      BY <2>1, <2>2 DEF SchemaInv, CreatorInv
    <3>2. table' = "complete" /\ \A v \in Workers : pending'[v] = "none"
      BY <1>5, <2>1, <3>1 DEF Commit, TypeOK
    <3> QED BY <2>1, <2>2, <3>2
            DEF SchemaInv, CreatorInv, SchemaBeforeService, Serving
  <2>3. CASE url[w] \notin Transactional
    <3>1. pending[w] = "none" /\ table # "none"
      BY <2>1, <2>3 DEF SchemaInv, CreatorInv
    <3>2. UNCHANGED <<table, pending>>
      BY <1>5, <2>1, <3>1 DEF Commit, TypeOK
    <3> QED BY <2>1, <2>3, <3>1, <3>2
            DEF SchemaInv, CreatorInv, SchemaBeforeService, Serving
  <2> QED BY <2>2, <2>3
<1>6. ASSUME NEW w \in Workers,
             \/ Connect(w) \/ Terminate(w) \/ Cancel(w) \/ CancelSwallowed(w)
             \/ Awaited(w) \/ StopConsumer(w) \/ CloseProducer(w)
      PROVE SchemaInv'
  <2>1. UNCHANGED <<sources, url, table, pending>> /\ \A v \in Workers \ {w} : pc'[v] = pc[v]
    BY <1>6
    DEF Connect, Terminate, Cancel, CancelSwallowed, Awaited, StopConsumer, CloseProducer, TypeOK
  <2>2. Serving(w) /\ Serving(w)'
    BY <1>6
    DEF Connect, WithoutBroker, Terminate, Cancel, CancelSwallowed, Awaited, StopConsumer,
        CloseProducer, Serving, TypeOK
  <2>3. url[w] # Absent
    BY <2>2 DEF Serving, SchemaInv, CreatorInv
  <2> QED BY <2>1, <2>2, <2>3, SchemaKept
<1>7. ASSUME NEW w \in Workers,
             Dispose(w) \/ CloseFails(w) \/ StatementFails(w) \/ Crash(w)
      PROVE SchemaInv'
  <2>1. UNCHANGED <<sources, url, table>> /\ \A v \in Workers \ {w} : pc'[v] = pc[v]
    BY <1>7 DEF Dispose, CloseFails, StatementFails, Crash, TypeOK
  <2>2. pc'[w] \in {"stopped", "aborted", "failed", "dead"}
    BY <1>7 DEF Dispose, CloseFails, StatementFails, Crash, TypeOK
  <2>3. pending' = pending \/ pending' = [pending EXCEPT ![w] = "none"]
    BY <1>7 DEF Dispose, CloseFails, StatementFails, Crash
  <2>4. pending'[w] = "none"
    BY <1>7 DEF Dispose, CloseFails, StatementFails, Crash, TypeOK, SchemaInv, CreatorInv
  <2>5. url[w] = Absent => pc'[w] \in {"failed", "dead"}
    BY <1>7 DEF Dispose, CloseFails, StatementFails, Crash, TypeOK, SchemaInv, CreatorInv
  <2> QED BY <2>1, <2>2, <2>3, <2>4, <2>5, SchemaKept
<1>8. ASSUME NEW w \in Workers, Respawn(w) PROVE SchemaInv'
  <2>1. /\ UNCHANGED <<sources, table, pending>> /\ pc'[w] = "import" /\ url'[w] = Absent
        /\ \A v \in Workers \ {w} : pc'[v] = pc[v] /\ url'[v] = url[v]
    BY <1>8 DEF Respawn, TypeOK
  <2>2. pending[w] = "none" /\ Absent \notin Transactional
    BY <1>8, StartupAssumption, SettingsAssumption DEF Respawn, SchemaInv, CreatorInv
  <2> QED BY <2>1, <2>2 DEF SchemaInv, CreatorInv, SchemaBeforeService, Serving
<1>9. ASSUME NEW w \in Workers, Run(w) \/ ConsumerFails(w) PROVE SchemaInv'
  <2>1. UNCHANGED <<sources, url, table, pending, pc>>
    BY <1>9 DEF Run, RequestConnects, ConsumerConnects, ConsumerFails
  <2> QED BY <2>1, SchemaKept
<1>10. ASSUME NEW w \in Workers, CommitFails(w) PROVE SchemaInv'
  <2>1. /\ UNCHANGED <<sources, url>> /\ \A v \in Workers \ {w} : pc'[v] = pc[v]
        /\ pc[w] = "commit" /\ pc'[w] = "failed" /\ url[w] # Absent
        /\ pending' = [pending EXCEPT ![w] = "none"]
    BY <1>10 DEF CommitFails, TypeOK, SchemaInv, CreatorInv
  <2>2. CASE UNCHANGED table
    BY <2>1, <2>2, SchemaKept DEF TypeOK
  <2>3. CASE table' = pending[w] /\ pending[w] # "none"
    <3>1. pending[w] = "complete" /\ \A v \in Workers \ {w} : pending[v] = "none"
      BY <2>1, <2>3 DEF SchemaInv, CreatorInv
    <3>2. table' = "complete" /\ \A v \in Workers : pending'[v] = "none"
      BY <2>1, <2>3, <3>1 DEF TypeOK
    <3> QED BY <2>1, <3>2 DEF SchemaInv, CreatorInv, SchemaBeforeService, Serving
  <2> QED BY <1>10, <2>2, <2>3 DEF CommitFails
<1>11. CASE Idle \/ UNCHANGED vars
  BY <1>11 DEF Idle, vars, SchemaInv, CreatorInv, SchemaBeforeService, Serving
<1> QED
  BY <1>1, <1>2, <1>3, <1>4, <1>5, <1>6, <1>7, <1>8, <1>9, <1>10, <1>11
  DEF Next, Begin, End, Disturb

-----------------------------------------------------------------------------
(* The shutdown.                                                            *)

LEMMA StepShutdown == TypeOK /\ ShutdownInv /\ [Next]_vars => ShutdownInv'
<1> SUFFICES ASSUME TypeOK, ShutdownInv, [Next]_vars PROVE ShutdownInv'
  OBVIOUS
<1> USE DEF TypeOK, ShutdownInv, HasConnection, Goto, schemaVars, brokerVars, consumerVars,
            Starting, Ending, Ended
<1>1. ASSUME NEW w \in Workers, Begin(w) PROVE ShutdownInv'
  <2>1. CASE Connect(w)
    <3>1. PICK outcome \in {"none", "half", "connected"}, retried \in BOOLEAN :
            /\ pc[w] = "connect"
            /\ pc' = [pc EXCEPT ![w] = "serving"]
            /\ producer' = [producer EXCEPT ![w] = outcome]
            /\ left' = [left EXCEPT ![w] = retried]
            /\ broken' = [broken EXCEPT ![w] = retried \/ outcome = "half"]
            /\ consumer' = [consumer EXCEPT ![w] = "connecting"]
            /\ UNCHANGED link
      BY <2>1 DEF Connect, WithoutBroker
    <3>2. SUFFICES ASSUME NEW v \in Workers
                   PROVE  \/ left'[v] \/ producer'[v] = "half"
                          \/ link'[v] /\ consumer'[v] # "consuming"
                          => broken'[v]
      BY <3>1
    <3>3. CASE v # w
      BY <3>1, <3>3
    <3>4. CASE v = w
      <4>1. producer'[w] = outcome /\ ~link'[w]
        BY <3>1 DEF Starting
      <4>2. left'[w] = retried /\ broken'[w] = (retried \/ outcome = "half")
        BY <3>1, Zenon
      <4> QED BY <3>4, <4>1, <4>2
    <3> QED BY <3>3, <3>4
  <2>2. CASE Import(w) \/ Check(w) \/ CreateTable(w) \/ CreateIndexes(w) \/ Commit(w)
    BY <2>2 DEF Import, Check, CreateTable, CreateIndexes, Commit
  <2> QED BY <1>1, <2>1, <2>2 DEF Begin
<1>2. ASSUME NEW w \in Workers, End(w) PROVE ShutdownInv'
  <2>1. CASE Cancel(w)
    BY <2>1 DEF Cancel, AttemptEnds
  <2>2. CASE Awaited(w)
    BY <2>2 DEF Awaited, TaskEnded
  <2>3. CASE StopConsumer(w) \/ CloseProducer(w) \/ Dispose(w)
    BY <2>3 DEF StopConsumer, CloseProducer, Dispose
  <2> QED BY <1>2, <2>1, <2>2, <2>3 DEF End
<1>3. ASSUME NEW w \in Workers, Run(w) PROVE ShutdownInv'
  BY <1>3 DEF Run, RequestConnects, ConsumerConnects
<1>4. ASSUME NEW w \in Workers, Disturb(w) PROVE ShutdownInv'
  <2>1. CASE StatementFails(w) \/ CommitFails(w) \/ Terminate(w) \/ CloseFails(w)
    BY <2>1 DEF StatementFails, CommitFails, Terminate, CloseFails
  <2>2. CASE ConsumerFails(w)
    BY <2>2 DEF ConsumerFails, AttemptEnds
  <2>3. CASE CancelSwallowed(w)
    BY <2>3 DEF CancelSwallowed, AttemptEnds
  <2>4. CASE Crash(w) \/ Respawn(w)
    BY <2>4 DEF Crash, Respawn, Disconnected
  <2> QED BY <1>4, <2>1, <2>2, <2>3, <2>4 DEF Disturb
<1>5. CASE Idle \/ UNCHANGED vars
  BY <1>5 DEF Idle, vars
<1> QED BY <1>1, <1>2, <1>3, <1>4, <1>5 DEF Next

-----------------------------------------------------------------------------
LEMMA Inductive == Spec => [](TypeOK /\ IInv)
<1>1. Init => TypeOK /\ IInv
  <2>1. Init => SchemaInv
    BY StartupAssumption, SettingsAssumption
    DEF Init, SchemaInv, CreatorInv, SchemaBeforeService, Serving, Ending
  <2>2. Init => ShutdownInv
    BY DEF Init, ShutdownInv, HasConnection, Starting
  <2> QED BY <2>1, <2>2, InitTyped DEF SchemaInv, IInv
<1>2. TypeOK /\ IInv /\ [Next]_vars => TypeOK' /\ IInv'
  BY StepTyped, StepSchema, StepShutdown DEF SchemaInv, IInv
<1> QED BY <1>1, <1>2, PTL DEF Spec

(* Every worker runs with a well-formed URL or has not started.             *)
THEOREM TypeCorrect == Spec => []TypeOK
  BY Inductive, PTL

(* The inductive invariant: one creator of the table at a time, every       *)
(* connection a shutdown has passed is closed, and none is lost before an   *)
(* attempt or a close() has failed.                                         *)
THEOREM Invariance == Spec => []IInv
  BY Inductive, PTL

(* However many workers race through create_all(), fail in it or die in it, *)
(* a worker that has come past it has its table.                            *)
THEOREM SchemaReady == Spec => []SchemaBeforeService
<1>1. IInv => SchemaBeforeService
  BY DEF IInv
<1> QED BY <1>1, Invariance, PTL

(* A shutdown that completes has ended the consumer task and closed every   *)
(* connection that producer or consumer refers to, whatever failed before;  *)
(* connections lost on the way exist only where an attempt or a close()     *)
(* failed.                                                                  *)
THEOREM CleanShutdown == Spec => []StoppedIsClosed
<1>1. IInv => StoppedIsClosed
  BY DEF IInv, ShutdownInv, StoppedIsClosed
<1> QED BY <1>1, Invariance, PTL

(* Every worker uses the URL of the source with the highest priority among  *)
(* those that give one, whatever the documents say.                         *)
THEOREM Priority == Spec => []SettingsFollowPriority
<1>1. TypeOK /\ IInv => SettingsFollowPriority
  BY StartupAssumption, UrlByPriority DEF TypeOK, IInv, CreatorInv, SettingsFollowPriority
<1> QED BY <1>1, Inductive, PTL
=============================================================================
