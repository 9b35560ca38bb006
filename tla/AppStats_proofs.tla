--------------------------- MODULE AppStats_proofs ---------------------------
(****************************************************************************)
(* Theorems about AppStats for any requests, readers and paths: mutual      *)
(* exclusion, and what follows from it for counters and snapshots.          *)
(****************************************************************************)
EXTENDS AppStats, FiniteSetTheorems, TLAPS

(* The increments of a request are four different counters.                 *)
LEMMA IncrementsAre ==
  ASSUME NEW r \in Requests
  PROVE  /\ Increments(r)[1] = <<Service, "total">>
         /\ Increments(r)[2] = <<Service, Outcome(r)>>
         /\ Increments(r)[3] = <<PathOf[r], "total">>
         /\ Increments(r)[4] = <<PathOf[r], Outcome(r)>>
         /\ Outcome(r) \in {"success", "errors"}
         /\ PathOf[r] \in Paths /\ PathOf[r] # Service
  BY AppStatsAssumption DEF Increments, Outcome

LEMMA IncrementsDiffer ==
  ASSUME NEW r \in Requests, NEW i \in 1 .. 4, NEW j \in 1 .. 4, Increments(r)[i] = Increments(r)[j]
  PROVE  i = j
<1>1. i \in {1, 2, 3, 4} /\ j \in {1, 2, 3, 4}
  OBVIOUS
<1> QED BY <1>1, IncrementsAre

LEMMA IncrementType ==
  ASSUME NEW r \in Requests, NEW i \in 1 .. 4
  PROVE  \E s \in Scopes : \E k \in Counters : Increments(r)[i] = <<s, k>>
<1>1. i \in {1, 2, 3, 4}
  OBVIOUS
<1> QED BY <1>1, IncrementsAre DEF Scopes, Counters

LEMMA StoredFinite ==
  ASSUME NEW c
  PROVE  IsFiniteSet(Stored(c)) /\ Cardinality(Stored(c)) \in Nat
<1>1. Stored(c) \subseteq Requests
  BY DEF Stored
<1> QED BY <1>1, AppStatsAssumption, FS_Subset, FS_CardinalityType

LEMMA ReadsOne ==
  ASSUME TypeOK, NEW r \in Requests, Read(r)
  PROVE  \E s \in Scopes, k \in Counters :
           /\ seen' = [seen EXCEPT ![r][s][k] = count[s][k]]
           /\ unread' = [unread EXCEPT ![r] = @ \ {<<s, k>>}]
<1>1. PICK c \in unread[r] :
        /\ seen' = [seen EXCEPT ![r][c[1]][c[2]] = count[c[1]][c[2]]]
        /\ unread' = [unread EXCEPT ![r] = @ \ {c}]
  BY DEF Read
<1>2. c \in Scopes \X Counters
  BY DEF TypeOK
<1>3. c[1] \in Scopes /\ c[2] \in Counters /\ c = <<c[1], c[2]>>
  BY <1>2
<1>4. unread' = [unread EXCEPT ![r] = @ \ {<<c[1], c[2]>>}]
  BY <1>1, <1>3
<1> QED BY <1>1, <1>3, <1>4

-----------------------------------------------------------------------------
(* Types.                                                                   *)

LEMMA InitTyped == Init => TypeOK
  BY DEF Init, TypeOK, Zero, Steps

LEMMA StepTyped == TypeOK /\ ProgressInv /\ [Next]_vars => TypeOK'
<1> SUFFICES ASSUME TypeOK, ProgressInv, [Next]_vars PROVE TypeOK'
  OBVIOUS
<1> USE DEF TypeOK, Goto, recordVars, snapshotVars, Steps
<1>1. ASSUME NEW r \in Requests, CallNext(r) \/ Cancelled(r) PROVE TypeOK'
  BY <1>1 DEF CallNext, Cancelled
<1>2. ASSUME NEW r \in Requests, BeginRecord(r) PROVE TypeOK'
  BY <1>2 DEF BeginRecord, Acquire
<1>3. ASSUME NEW r \in Requests, Load(r) PROVE TypeOK'
  <2>0. step[r] \in 0 .. 4 /\ step[r] < 4
    BY <1>3 DEF Load
  <2>1. step[r] + 1 \in 1 .. 4
    BY <2>0
  <2>2. PICK s \in Scopes, k \in Counters : Increments(r)[step[r] + 1] = <<s, k>>
    BY <2>1, IncrementType
  <2>3. loaded' = [loaded EXCEPT ![r] = count[s][k]]
    BY <1>3, <2>2 DEF Load
  <2> QED BY <1>3, <2>3 DEF Load
<1>4. ASSUME NEW r \in Requests, Store(r) PROVE TypeOK'
  <2>1. step[r] \in Nat /\ step[r] < 4 /\ step[r] + 1 \in 1 .. 4
    BY <1>4 DEF Store, ProgressInv
  <2>2. PICK s \in Scopes, k \in Counters : Increments(r)[step[r] + 1] = <<s, k>>
    BY <2>1, IncrementType
  <2>3. count' = [count EXCEPT ![s][k] = loaded[r] + 1]
    BY <1>4, <2>2 DEF Store
  <2>4. count' \in [Scopes -> [Counters -> Nat]]
    BY <2>3
  <2>5. step' \in [Requests -> 0 .. 4]
    BY <1>4, <2>1 DEF Store
  <2> QED BY <1>4, <2>4, <2>5 DEF Store
<1>5. ASSUME NEW r \in Requests, EndRecord(r) PROVE TypeOK'
  BY <1>5 DEF EndRecord, Release
<1>6. ASSUME NEW r \in Requests, AskForSnapshot(r) PROVE TypeOK'
  BY <1>6 DEF AskForSnapshot
<1>7. ASSUME NEW r \in Requests, BeginSnapshot(r) PROVE TypeOK'
  BY <1>7 DEF BeginSnapshot, Acquire
<1>8. ASSUME NEW r \in Requests, Read(r) PROVE TypeOK'
  <2>1. PICK s \in Scopes, k \in Counters :
          /\ seen' = [seen EXCEPT ![r][s][k] = count[s][k]]
          /\ unread' = [unread EXCEPT ![r] = @ \ {<<s, k>>}]
    BY <1>8, ReadsOne
  <2>2. seen' \in [Requests -> [Scopes -> [Counters -> Nat]]]
    BY <2>1
  <2>3. unread' \in [Requests -> SUBSET (Scopes \X Counters)]
    BY <2>1
  <2> QED BY <1>8, <2>2, <2>3 DEF Read
<1>9. ASSUME NEW r \in Requests, EndSnapshot(r) PROVE TypeOK'
  BY <1>9 DEF EndSnapshot, Release
<1>10. CASE AllDone \/ UNCHANGED vars
  BY <1>10 DEF AllDone, vars
<1> QED
  BY <1>1, <1>2, <1>3, <1>4, <1>5, <1>6, <1>7, <1>8, <1>9, <1>10 DEF Next, Record, Snapshot

-----------------------------------------------------------------------------
(* Mutual exclusion.                                                        *)

LEMMA StepLock == TypeOK /\ LockInv /\ [Next]_vars => LockInv'
<1> SUFFICES ASSUME TypeOK, LockInv, [Next]_vars PROVE LockInv'
  OBVIOUS
<1> USE AppStatsAssumption DEF TypeOK, Goto, LockInv
<1>1. ASSUME NEW r \in Requests, CallNext(r) \/ Cancelled(r) \/ AskForSnapshot(r) PROVE LockInv'
  BY <1>1 DEF CallNext, Cancelled, AskForSnapshot
<1>2. ASSUME NEW r \in Requests, BeginRecord(r) \/ BeginSnapshot(r) PROVE LockInv'
  BY <1>2 DEF BeginRecord, BeginSnapshot, Acquire
<1>3. ASSUME NEW r \in Requests, Load(r) \/ Store(r) \/ Read(r) PROVE LockInv'
  BY <1>3 DEF Load, Store, Read
<1>4. ASSUME NEW r \in Requests, EndRecord(r) \/ EndSnapshot(r) PROVE LockInv'
  BY <1>4 DEF EndRecord, EndSnapshot, Release
<1>5. CASE AllDone \/ UNCHANGED vars
  BY <1>5 DEF AllDone, vars
<1> QED BY <1>1, <1>2, <1>3, <1>4, <1>5 DEF Next, Record, Snapshot

(* What another request has loaded is still the counter's value, because    *)
(* that request would hold the lock.                                        *)
LEMMA StepProgress == TypeOK /\ LockInv /\ ProgressInv /\ [Next]_vars => ProgressInv'
<1> SUFFICES ASSUME TypeOK, LockInv, ProgressInv, [Next]_vars PROVE ProgressInv'
  OBVIOUS
<1> USE AppStatsAssumption DEF TypeOK, Goto, recordVars, snapshotVars, ProgressInv
<1>1. ASSUME NEW r \in Requests, CallNext(r) \/ Cancelled(r) PROVE ProgressInv'
  <2>1. \A q \in Requests : pc[q] = "store" => ok'[q] = ok[q] /\ q # r
    BY <1>1 DEF CallNext, Cancelled
  <2>2. \A q \in Requests : pc'[q] = "store" => pc[q] = "store" /\ Increments(q)' = Increments(q)
    BY <1>1, <2>1 DEF CallNext, Cancelled, Increments, Outcome
  <2> QED BY <1>1, <2>2 DEF CallNext, Cancelled
<1>2. ASSUME NEW r \in Requests,
             \/ BeginRecord(r) \/ AskForSnapshot(r) \/ BeginSnapshot(r) \/ Read(r) \/ EndSnapshot(r)
      PROVE ProgressInv'
  <2>1. UNCHANGED <<count, ok, step, loaded, recorded>>
    BY <1>2 DEF BeginRecord, AskForSnapshot, BeginSnapshot, Read, EndSnapshot
  <2>2. \A q \in Requests : Increments(q)' = Increments(q)
    BY <2>1 DEF Increments, Outcome
  <2> QED BY <1>2, <2>1, <2>2 DEF BeginRecord, AskForSnapshot, BeginSnapshot, Read, EndSnapshot
<1>3. ASSUME NEW r \in Requests, Load(r) PROVE ProgressInv'
  <2>1. \A q \in Requests : Increments(q)' = Increments(q)
    BY <1>3 DEF Load, Increments, Outcome
  <2> QED BY <1>3, <2>1 DEF Load
<1>4. ASSUME NEW r \in Requests, Store(r) PROVE ProgressInv'
  <2>1. \A q \in Requests : pc'[q] # "store"
    BY <1>4 DEF Store, LockInv
  <2>2. UNCHANGED recorded /\ pc'[r] = "load" /\ r \notin recorded
    BY <1>4 DEF Store
  <2> QED BY <1>4, <2>1, <2>2 DEF Store
<1>5. ASSUME NEW r \in Requests, EndRecord(r) PROVE ProgressInv'
  <2>1. \A q \in Requests : Increments(q)' = Increments(q)
    BY <1>5 DEF EndRecord, Increments, Outcome
  <2> QED BY <1>5, <2>1 DEF EndRecord
<1>6. CASE AllDone \/ UNCHANGED vars
  <2>1. \A q \in Requests : Increments(q)' = Increments(q)
    BY <1>6 DEF AllDone, vars, Increments, Outcome
  <2> QED BY <1>6, <2>1 DEF AllDone, vars
<1> QED BY <1>1, <1>2, <1>3, <1>4, <1>5, <1>6 DEF Next, Record, Snapshot

-----------------------------------------------------------------------------
(* The counters.                                                            *)

(* A step that stores nothing leaves the counters right.                    *)
LEMMA NothingStored ==
  ASSUME TypeOK, CountInv, UNCHANGED <<count, step>>,
         \A r \in Requests : ok'[r] = ok[r] \/ step[r] = 0
  PROVE  CountInv'
<1>1. ASSUME NEW c PROVE Stored(c)' = Stored(c)
  <2>1. ASSUME NEW r \in Requests, step[r] # 0 PROVE Increments(r)' = Increments(r)
    BY <2>1 DEF Increments, Outcome
  <2>2. \A r \in Requests : step[r] = 0 => 1 .. step[r] = {}
    OBVIOUS
  <2> QED BY <2>1, <2>2 DEF Stored
<1> QED BY <1>1 DEF CountInv

LEMMA StepCount == TypeOK /\ ProgressInv /\ CountInv /\ [Next]_vars => CountInv'
<1> SUFFICES ASSUME TypeOK, ProgressInv, CountInv, [Next]_vars PROVE CountInv'
  OBVIOUS
<1> USE DEF recordVars, snapshotVars
<1>1. ASSUME NEW r \in Requests, CallNext(r) PROVE CountInv'
  <2>1. step[r] = 0
    BY <1>1 DEF CallNext, ProgressInv
  <2>2. \A q \in Requests : ok'[q] = ok[q] \/ step[q] = 0
    BY <1>1, <2>1 DEF CallNext, TypeOK
  <2> QED BY <1>1, <2>2, NothingStored DEF CallNext
<1>2. ASSUME NEW r \in Requests, Store(r) PROVE CountInv'
  <2> DEFINE c == Increments(r)[step[r] + 1]
  <2>1. step[r] \in Nat /\ step[r] < 4 /\ step[r] + 1 \in 1 .. 4 /\ loaded[r] = count[c[1]][c[2]]
    BY <1>2 DEF Store, ProgressInv, TypeOK
  <2>2. PICK s \in Scopes, k \in Counters : c = <<s, k>>
    BY <2>1, IncrementType
  <2>3. count' = [count EXCEPT ![s][k] = count[s][k] + 1]
    BY <1>2, <2>1, <2>2 DEF Store
  <2>4. \A q \in Requests : Increments(q)' = Increments(q)
    BY <1>2 DEF Store, Increments, Outcome
  <2>5. step' = [step EXCEPT ![r] = step[r] + 1]
    BY <1>2 DEF Store
  <2>6. 1 .. step'[r] = (1 .. step[r]) \cup {step[r] + 1}
    BY <2>1, <2>5 DEF TypeOK
  <2>7. Stored(<<s, k>>)' = Stored(<<s, k>>) \cup {r}
    <3>1. r \in Stored(<<s, k>>)'
      BY <2>2, <2>4, <2>6 DEF Stored
    <3>2. ASSUME NEW q \in Requests, q # r
          PROVE  q \in Stored(<<s, k>>)' <=> q \in Stored(<<s, k>>)
      BY <2>4, <2>5, <3>2 DEF Stored, TypeOK
    <3>3. Stored(<<s, k>>)' \subseteq Requests /\ Stored(<<s, k>>) \subseteq Requests
      BY DEF Stored
    <3> QED BY <3>1, <3>2, <3>3
  <2>8. r \notin Stored(<<s, k>>)
    <3> SUFFICES ASSUME NEW i \in 1 .. step[r], Increments(r)[i] = <<s, k>> PROVE FALSE
      BY DEF Stored
    <3>1. i \in 1 .. 4 /\ i # step[r] + 1
      BY <2>1
    <3> QED BY <2>1, <2>2, <3>1, IncrementsDiffer
  <2>9. Cardinality(Stored(<<s, k>>)') = Cardinality(Stored(<<s, k>>)) + 1
    BY <2>7, <2>8, StoredFinite, FS_AddElement
  <2>10. ASSUME NEW d, d # <<s, k>> PROVE Stored(d)' = Stored(d)
    <3>1. ASSUME NEW q \in Requests, q # r PROVE q \in Stored(d)' <=> q \in Stored(d)
      BY <2>4, <2>5, <3>1 DEF Stored, TypeOK
    <3>2. r \in Stored(d)' <=> r \in Stored(d)
      BY <2>2, <2>4, <2>6, <2>10 DEF Stored
    <3>3. Stored(d)' \subseteq Requests /\ Stored(d) \subseteq Requests
      BY DEF Stored
    <3> QED BY <3>1, <3>2, <3>3
  <2>11. ASSUME NEW t \in Scopes, NEW l \in Counters
         PROVE  count'[t][l] = Cardinality(Stored(<<t, l>>)')
    <3>1. CASE t = s /\ l = k
      BY <2>3, <2>9, <3>1 DEF CountInv, TypeOK
    <3>2. CASE ~(t = s /\ l = k)
      <4>1. <<t, l>> # <<s, k>>
        BY <3>2
      <4>2. count'[t][l] = count[t][l]
        BY <2>3, <3>2 DEF TypeOK
      <4> QED BY <2>10, <4>1, <4>2 DEF CountInv
    <3> QED BY <3>1, <3>2
  <2> QED BY <2>11 DEF CountInv
<1>3. ASSUME NEW r \in Requests,
             \/ Cancelled(r) \/ BeginRecord(r) \/ Load(r) \/ EndRecord(r)
             \/ AskForSnapshot(r) \/ BeginSnapshot(r) \/ Read(r) \/ EndSnapshot(r)
      PROVE CountInv'
  BY <1>3, NothingStored
  DEF Cancelled, BeginRecord, Load, EndRecord, AskForSnapshot, BeginSnapshot, Read, EndSnapshot
<1>4. CASE AllDone \/ UNCHANGED vars
  BY <1>4, NothingStored DEF AllDone, vars
<1> QED BY <1>1, <1>2, <1>3, <1>4 DEF Next, Record, Snapshot

-----------------------------------------------------------------------------
(* The recorded requests that count towards counter k of scope s.           *)
Counted(s, k) == {r \in recorded : s \in {Service, PathOf[r]} /\ k \in {"total", Outcome(r)}}

LEMMA RecordedHasStored ==
  ASSUME TypeOK, ProgressInv, NEW s \in Scopes, NEW k \in Counters
  PROVE  Stored(<<s, k>>) \cap recorded = Counted(s, k)
<1> SUFFICES ASSUME NEW r \in recorded
             PROVE  r \in Stored(<<s, k>>) <=>
                      s \in {Service, PathOf[r]} /\ k \in {"total", Outcome(r)}
  BY DEF Counted
<1>1. r \in Requests /\ step[r] = 4
  BY DEF TypeOK, ProgressInv
<1>2. 1 .. step[r] = {1, 2, 3, 4}
  BY <1>1
<1>3. r \in Stored(<<s, k>>) <=>
        <<s, k>> \in {<<Service, "total">>, <<Service, Outcome(r)>>,
                      <<PathOf[r], "total">>, <<PathOf[r], Outcome(r)>>}
  BY <1>1, <1>2, IncrementsAre DEF Stored
<1> QED BY <1>3

(* While nobody is recording, only recorded requests have stored anything.  *)
LEMMA StoredByRecorded ==
  ASSUME TypeOK, ProgressInv, \A r \in Requests : pc[r] \notin {"load", "store"},
         NEW s \in Scopes, NEW k \in Counters
  PROVE  Stored(<<s, k>>) = Counted(s, k)
<1>1. ASSUME NEW r \in Requests, r \notin recorded PROVE r \notin Stored(<<s, k>>)
  <2>1. step[r] = 0
    BY <1>1 DEF ProgressInv
  <2>2. 1 .. step[r] = {}
    BY <2>1
  <2> QED BY <2>2 DEF Stored
<1>2. Stored(<<s, k>>) \subseteq recorded
  BY <1>1 DEF Stored
<1> QED BY <1>2, RecordedHasStored

(* The counters add up while nobody is recording.                           *)
LEMMA CountersAddUp ==
  ASSUME TypeOK, ProgressInv, CountInv, \A r \in Requests : pc[r] \notin {"load", "store"}
  PROVE  /\ \A s \in Scopes : count[s]["total"] = count[s]["success"] + count[s]["errors"]
         /\ count[Service]["total"] = Cardinality(recorded)
<1> USE DEF Scopes, Counters
<1>1. ASSUME NEW s \in Scopes
      PROVE  count[s]["total"] = count[s]["success"] + count[s]["errors"]
  <2> DEFINE T == Stored(<<s, "total">>)
             S == Stored(<<s, "success">>)
             E == Stored(<<s, "errors">>)
  <2>1. \A r \in recorded : Outcome(r) \in {"success", "errors"}
    BY DEF Outcome
  <2>2. T = S \cup E /\ S \cap E = {}
    BY <2>1, StoredByRecorded DEF Counted
  <2>0. count[s]["total"] = Cardinality(T) /\ count[s]["success"] = Cardinality(S)
          /\ count[s]["errors"] = Cardinality(E)
    BY DEF CountInv
  <2>3. IsFiniteSet(S) /\ IsFiniteSet(E) /\ Cardinality(S) \in Nat /\ Cardinality(E) \in Nat
    BY StoredFinite
  <2> HIDE DEF T, S, E
  <2>4. Cardinality(T) = Cardinality(S) + Cardinality(E)
    <3>1. Cardinality(S \cup E) = Cardinality(S) + Cardinality(E) - Cardinality(S \cap E)
      BY <2>3, FS_Union
    <3>2. Cardinality(S \cap E) = 0
      BY <2>2, FS_EmptySet
    <3>3. Cardinality(T) = Cardinality(S \cup E)
      BY <2>2
    <3> QED BY <2>3, <3>1, <3>2, <3>3
  <2> QED BY <2>0, <2>4
<1>2. Stored(<<Service, "total">>) = recorded
  BY StoredByRecorded DEF Counted
<1> QED BY <1>1, <1>2 DEF CountInv

-----------------------------------------------------------------------------
(* Snapshots.                                                               *)

(* Whoever reads holds the lock, so that nothing it has read changes.       *)
LEMMA StepSnapshot == TypeOK /\ LockInv /\ SnapshotInv /\ [Next]_vars => SnapshotInv'
<1> SUFFICES ASSUME TypeOK, LockInv, SnapshotInv, [Next]_vars PROVE SnapshotInv'
  OBVIOUS
<1> USE AppStatsAssumption DEF TypeOK, Goto, recordVars, snapshotVars
<1>1. ASSUME NEW r \in Requests,
             CallNext(r) \/ Cancelled(r) \/ BeginRecord(r) \/ Load(r) \/ AskForSnapshot(r)
      PROVE SnapshotInv'
  <2>1. UNCHANGED <<count, recorded, snapshotVars>>
    BY <1>1 DEF CallNext, Cancelled, BeginRecord, Load, AskForSnapshot
  <2>2. ASSUME NEW q \in Readers
        PROVE  /\ pc'[q] = "reading" => pc[q] = "reading"
               /\ pc'[q] \in {"serving", "wait_snapshot"} => pc[q] \in {"serving", "wait_snapshot"}
               /\ pc'[q] \in {"served", "wait_record", "load", "store"} =>
                    pc[q] \in {"served", "wait_record", "load", "store"}
    BY <1>1 DEF CallNext, Cancelled, BeginRecord, Load, AskForSnapshot
  <2> QED BY <2>1, <2>2 DEF SnapshotInv
<1>2. ASSUME NEW r \in Requests, Store(r) \/ EndRecord(r) PROVE SnapshotInv'
  <2>1. \A q \in Requests :
          /\ pc'[q] # "reading"
          /\ pc'[q] \in {"serving", "wait_snapshot"} => pc[q] \in {"serving", "wait_snapshot"}
          /\ pc'[q] \in {"served", "wait_record", "load", "store"} =>
               pc[q] \in {"served", "wait_record", "load", "store"}
    BY <1>2 DEF Store, EndRecord, LockInv
  <2>2. UNCHANGED snapshotVars
    BY <1>2 DEF Store, EndRecord
  <2> QED BY <2>1, <2>2 DEF SnapshotInv
<1>3. ASSUME NEW r \in Requests, BeginSnapshot(r) PROVE SnapshotInv'
  <2>1. \A q \in Requests \ {r} : pc'[q] = pc[q] /\ before'[q] = before[q]
    BY <1>3 DEF BeginSnapshot
  <2>2. pc[r] = "wait_snapshot" /\ pc'[r] = "reading" /\ before'[r] = recorded
    BY <1>3 DEF BeginSnapshot
  <2>3. UNCHANGED <<count, recorded, seen, unread>>
    BY <1>3 DEF BeginSnapshot
  <2> QED BY <2>1, <2>2, <2>3 DEF SnapshotInv
<1>4. ASSUME NEW r \in Requests, Read(r) PROVE SnapshotInv'
  <2>1. PICK s \in Scopes, k \in Counters :
          /\ seen' = [seen EXCEPT ![r][s][k] = count[s][k]]
          /\ unread' = [unread EXCEPT ![r] = @ \ {<<s, k>>}]
    BY <1>4, ReadsOne
  <2>2. UNCHANGED <<count, pc, recorded, before>> /\ pc[r] = "reading"
    BY <1>4 DEF Read
  <2>3. \A q \in Readers : pc[q] # "reading" => unread'[q] = unread[q]
    BY <2>1, <2>2
  <2>4. ASSUME NEW q \in Readers, pc[q] = "reading",
               NEW t \in Scopes, NEW l \in Counters, <<t, l>> \notin unread'[q]
        PROVE  seen'[q][t][l] = count[t][l]
    <3>1. CASE q = r /\ t = s /\ l = k
      BY <2>1, <3>1
    <3>2. CASE ~(q = r /\ t = s /\ l = k)
      <4>1. seen'[q][t][l] = seen[q][t][l]
        BY <2>1, <3>2
      <4>2. <<t, l>> \notin unread[q]
        BY <2>1, <2>4, <3>2
      <4> QED BY <2>4, <4>1, <4>2 DEF SnapshotInv
    <3> QED BY <3>1, <3>2
  <2> QED BY <2>2, <2>3, <2>4 DEF SnapshotInv
<1>5. ASSUME NEW r \in Requests, EndSnapshot(r) PROVE SnapshotInv'
  BY <1>5 DEF EndSnapshot, SnapshotInv
<1>6. CASE AllDone \/ UNCHANGED vars
  BY <1>6 DEF AllDone, vars, SnapshotInv
<1> QED BY <1>1, <1>2, <1>3, <1>4, <1>5, <1>6 DEF Next, Record, Snapshot

LEMMA StepReaders == TypeOK /\ OnlyReadersRead /\ [Next]_vars => OnlyReadersRead'
<1> SUFFICES ASSUME TypeOK, OnlyReadersRead, [Next]_vars PROVE OnlyReadersRead'
  OBVIOUS
<1> USE DEF TypeOK, Goto, OnlyReadersRead
<1>1. ASSUME NEW r \in Requests, CallNext(r) \/ Cancelled(r) \/ Record(r) PROVE OnlyReadersRead'
  BY <1>1 DEF CallNext, Cancelled, Record, BeginRecord, Load, Store, EndRecord
<1>2. ASSUME NEW r \in Requests, Snapshot(r) PROVE OnlyReadersRead'
  BY <1>2 DEF Snapshot, AskForSnapshot, BeginSnapshot, Read, EndSnapshot
<1>3. CASE AllDone \/ UNCHANGED vars
  BY <1>3 DEF AllDone, vars
<1> QED BY <1>1, <1>2, <1>3 DEF Next

(* The last read completes the snapshot, and nobody is recording then.      *)
LEMMA StepConsistent == TypeOK /\ IInv /\ [Next]_vars => SnapshotIsConsistent'
<1> SUFFICES ASSUME TypeOK, IInv, [Next]_vars PROVE SnapshotIsConsistent'
  OBVIOUS
<1> USE AppStatsAssumption DEF recordVars, snapshotVars
<1>0. SnapshotIsConsistent
  BY DEF IInv
<1>1. ASSUME UNCHANGED snapshotVars PROVE SnapshotIsConsistent'
  BY <1>0, <1>1 DEF SnapshotIsConsistent
<1>2. ASSUME NEW r \in Requests, CallNext(r) \/ Cancelled(r) \/ Record(r)
      PROVE SnapshotIsConsistent'
  BY <1>1, <1>2 DEF CallNext, Cancelled, Record, BeginRecord, Load, Store, EndRecord
<1>3. ASSUME NEW r \in Requests, AskForSnapshot(r) \/ EndSnapshot(r) PROVE SnapshotIsConsistent'
  BY <1>1, <1>3 DEF AskForSnapshot, EndSnapshot
<1>4. ASSUME NEW r \in Requests, BeginSnapshot(r) PROVE SnapshotIsConsistent'
  <2>1. UNCHANGED <<seen, unread>> /\ \A q \in Requests \ {r} : before'[q] = before[q]
    BY <1>4 DEF BeginSnapshot, TypeOK
  <2>2. r \in Readers => unread[r] # {}
    <3>1. r \in Readers => unread[r] = Scopes \X Counters
      BY <1>4 DEF BeginSnapshot, IInv, SnapshotInv
    <3>2. <<Service, "total">> \in Scopes \X Counters
      BY DEF Scopes, Counters
    <3> QED BY <3>1, <3>2
  <2> QED BY <1>0, <2>1, <2>2 DEF SnapshotIsConsistent
<1>5. ASSUME NEW r \in Requests, Read(r) PROVE SnapshotIsConsistent'
  <2>1. UNCHANGED <<count, recorded, before>> /\ pc[r] = "reading" /\ pc'[r] = "reading"
    BY <1>5 DEF Read
  <2>2. \A q \in Requests \ {r} : seen'[q] = seen[q] /\ unread'[q] = unread[q]
    BY <1>5 DEF Read, TypeOK
  <2>3. \A q \in Requests : pc[q] \notin {"load", "store"}
    BY <2>1 DEF IInv, LockInv
  <2>4. /\ \A s \in Scopes : count[s]["total"] = count[s]["success"] + count[s]["errors"]
        /\ count[Service]["total"] = Cardinality(recorded)
    BY <2>3, CountersAddUp DEF IInv
  <2>5. SnapshotInv'
    BY StepSnapshot DEF IInv
  <2>6. ASSUME r \in Readers, unread'[r] = {}
        PROVE  /\ before'[r] = recorded
               /\ \A s \in Scopes : \A k \in Counters : seen'[r][s][k] = count[s][k]
    BY <2>1, <2>5, <2>6 DEF SnapshotInv
  <2>7. ASSUME r \in Readers, unread'[r] = {}
        PROVE  /\ \A s \in Scopes :
                    seen'[r][s]["total"] = seen'[r][s]["success"] + seen'[r][s]["errors"]
               /\ seen'[r][Service]["total"] = Cardinality(before'[r])
    BY <2>4, <2>6, <2>7 DEF Counters, Scopes
  <2> QED BY <1>0, <2>1, <2>2, <2>7 DEF SnapshotIsConsistent
<1>6. CASE AllDone \/ UNCHANGED vars
  BY <1>1, <1>6 DEF AllDone, vars
<1> QED BY <1>2, <1>3, <1>4, <1>5, <1>6 DEF Next, Snapshot

-----------------------------------------------------------------------------
LEMMA InitIInv == Init => IInv
<1> SUFFICES ASSUME Init PROVE IInv
  OBVIOUS
<1> USE AppStatsAssumption DEF Init
<1>0. <<Service, "total">> \in Scopes \X Counters
  BY DEF Scopes, Counters
<1>1. LockInv /\ ProgressInv /\ SnapshotInv /\ SnapshotIsConsistent /\ OnlyReadersRead
  BY <1>0 DEF LockInv, ProgressInv, SnapshotInv, SnapshotIsConsistent, OnlyReadersRead
<1>2. ASSUME NEW c PROVE Stored(c) = {}
  <2>1. \A r \in Requests : 1 .. step[r] = {}
    OBVIOUS
  <2> QED BY <2>1 DEF Stored
<1>3. CountInv
  BY <1>2, FS_EmptySet DEF CountInv, Zero
<1> QED BY <1>1, <1>3 DEF IInv

LEMMA Inductive == Spec => [](TypeOK /\ IInv)
<1>1. Init => TypeOK /\ IInv
  BY InitTyped, InitIInv
<1>2. TypeOK /\ IInv /\ [Next]_vars => TypeOK' /\ IInv'
  BY StepTyped, StepLock, StepProgress, StepCount, StepSnapshot, StepConsistent, StepReaders
  DEF IInv
<1> QED BY <1>1, <1>2, PTL DEF Spec

(* Every counter stays a natural number and every request at one step.      *)
THEOREM TypeCorrect == Spec => []TypeOK
  BY Inductive, PTL

(* The inductive invariant: one holder of the lock at a time, and each      *)
(* counter is the number of requests that have stored their increment of it.*)
THEOREM Invariance == Spec => []IInv
  BY Inductive, PTL

(* No increment of record() is lost, however threads are interleaved at the *)
(* loads and stores of its counters.                                        *)
THEOREM Counting == Spec => []NoLostUpdate
<1>1. TypeOK /\ IInv => NoLostUpdate
  <2> SUFFICES ASSUME TypeOK, IInv, lock = Free PROVE NoLostUpdate
    BY DEF NoLostUpdate
  <2>1. \A r \in Requests : pc[r] \notin {"load", "store"}
    BY AppStatsAssumption DEF IInv, LockInv
  <2>2. ASSUME NEW s \in Scopes, NEW k \in Counters
        PROVE  count[s][k] = Cardinality(Counted(s, k))
    BY <2>1, StoredByRecorded DEF IInv, CountInv
  <2>3. count[Service]["total"] = Cardinality(recorded)
    BY <2>1, CountersAddUp DEF IInv
  <2>4. count[Service]["errors"] = Cardinality({r \in recorded : ~ok[r]})
    <3>1. Counted(Service, "errors") = {r \in recorded : ~ok[r]}
      BY DEF Counted, Outcome
    <3>2. Service \in Scopes /\ "errors" \in Counters
      BY DEF Scopes, Counters
    <3> QED BY <2>2, <3>1, <3>2
  <2>5. ASSUME NEW path \in Paths
        PROVE  count[path]["total"] = Cardinality({r \in recorded : PathOf[r] = path})
    <3>1. Counted(path, "total") = {r \in recorded : PathOf[r] = path}
      BY AppStatsAssumption DEF Counted
    <3>2. path \in Scopes /\ "total" \in Counters
      BY DEF Scopes, Counters
    <3> QED BY <2>2, <3>1, <3>2
  <2> QED BY <2>3, <2>4, <2>5 DEF NoLostUpdate
<1> QED BY <1>1, Inductive, PTL

(* A finished snapshot adds up and shows exactly what was recorded when it  *)
(* began, whatever was recorded or read at the same time.                   *)
THEOREM Snapshots == Spec => []SnapshotIsConsistent
<1>1. IInv => SnapshotIsConsistent
  BY DEF IInv
<1> QED BY <1>1, Invariance, PTL

-----------------------------------------------------------------------------
(* Refinement.                                                              *)

(* Without the increments of the record() in progress a counter is the      *)
(* number of recorded requests that count towards it.                       *)
Tally == [s \in Scopes |-> [k \in Counters |-> Cardinality(Counted(s, k))]]

LEMMA SettledIsTally == TypeOK /\ ProgressInv /\ CountInv => Settled = Tally
<1> SUFFICES ASSUME TypeOK, ProgressInv, CountInv, NEW s \in Scopes, NEW k \in Counters
             PROVE  count[s][k] - Cardinality(Stored(<<s, k>>) \ recorded) = Cardinality(Counted(s, k))
  BY DEF Settled, Tally
<1> DEFINE S == Stored(<<s, k>>)
           A == S \cap recorded
           B == S \ recorded
<1>1. IsFiniteSet(S)
  BY StoredFinite
<1>2. S = A \cup B /\ A \cap B = {} /\ A \subseteq S /\ B \subseteq S
  OBVIOUS
<1>3. A = Counted(s, k) /\ count[s][k] = Cardinality(S)
  BY RecordedHasStored DEF CountInv
<1> HIDE DEF S, A, B
<1>4. IsFiniteSet(A) /\ IsFiniteSet(B)
  BY <1>1, <1>2, FS_Subset
<1>5. Cardinality(A) \in Nat /\ Cardinality(B) \in Nat
  BY <1>4, FS_CardinalityType
<1>6. Cardinality(S) = Cardinality(A) + Cardinality(B)
  <2>1. Cardinality(A \cup B) = Cardinality(A) + Cardinality(B) - Cardinality(A \cap B)
    BY <1>4, FS_Union
  <2>2. Cardinality(A \cap B) = 0
    BY <1>2, FS_EmptySet
  <2> QED BY <1>2, <1>5, <2>1, <2>2
<1>7. count[s][k] - Cardinality(B) = Cardinality(Counted(s, k))
  BY <1>3, <1>5, <1>6
<1> QED BY <1>7 DEF B, S

(* What nobody has recorded since counts as before.                         *)
LEMMA SameTally ==
  ASSUME UNCHANGED recorded, \A r \in recorded : ok'[r] = ok[r]
  PROVE  Tally' = Tally
<1>1. ASSUME NEW s, NEW k PROVE Counted(s, k)' = Counted(s, k)
  BY DEF Counted, Outcome
<1> QED BY <1>1 DEF Tally

(* A request that returns from record() is one more in four counters.       *)
LEMMA OneMoreInTally ==
  ASSUME TypeOK, ProgressInv, NEW r \in Requests, EndRecord(r)
  PROVE  Tally' = [s \in Scopes |-> [k \in Counters |->
                     IF s \in {Service, PathOf[r]} /\ k \in {"total", Outcome(r)}
                     THEN Tally[s][k] + 1 ELSE Tally[s][k]]]
<1>1. r \notin recorded /\ recorded' = recorded \cup {r} /\ UNCHANGED ok
  BY DEF EndRecord, ProgressInv
<1> SUFFICES ASSUME NEW s \in Scopes, NEW k \in Counters
             PROVE  Cardinality(Counted(s, k)') =
                      IF s \in {Service, PathOf[r]} /\ k \in {"total", Outcome(r)}
                      THEN Cardinality(Counted(s, k)) + 1 ELSE Cardinality(Counted(s, k))
  BY DEF Tally
<1>2. IsFiniteSet(Counted(s, k)) /\ r \notin Counted(s, k)
  <2>1. Counted(s, k) \subseteq Requests
    BY DEF Counted, TypeOK
  <2> QED BY <1>1, <2>1, AppStatsAssumption, FS_Subset DEF Counted
<1>3. CASE s \in {Service, PathOf[r]} /\ k \in {"total", Outcome(r)}
  <2>1. Counted(s, k)' = Counted(s, k) \cup {r}
    BY <1>1, <1>3 DEF Counted, Outcome
  <2> QED BY <1>2, <1>3, <2>1, FS_AddElement
<1>4. CASE ~(s \in {Service, PathOf[r]} /\ k \in {"total", Outcome(r)})
  <2>1. Counted(s, k)' = Counted(s, k)
    BY <1>1, <1>4 DEF Counted, Outcome
  <2> QED BY <1>4, <2>1
<1> QED BY <1>3, <1>4

LEMMA InitAbstract == Init => Abstract!Init
<1> SUFFICES ASSUME Init PROVE Abstract!Init
  OBVIOUS
<1>1. TypeOK /\ ProgressInv /\ CountInv
  BY InitTyped, InitIInv DEF IInv
<1>2. Settled = Tally
  BY <1>1, SettledIsTally
<1>3. \A s \in Scopes : \A k \in Counters : Cardinality(Counted(s, k)) = 0
  BY FS_EmptySet DEF Counted, Init
<1>4. Tally = [s \in Scopes |-> [k \in Counters |-> 0]]
  BY <1>3 DEF Tally
<1>5. <<Service, "total">> \in Scopes \X Counters
  BY DEF Scopes, Counters
<1>6. Shown = [r \in Readers |-> NotShown]
  BY <1>5, AppStatsAssumption DEF Shown, Init
<1> QED BY <1>2, <1>4, <1>6
  DEF Abstract!Init, Abstract!Scopes, Abstract!Counters, Scopes, Counters, Init

(* The return from record() is the step that counts, the last read of a     *)
(* snapshot the one that shows, and nothing else is seen.                   *)
LEMMA StepAbstract ==
  ASSUME TypeOK, IInv, TypeOK', Settled = Tally, Settled' = Tally', SnapshotInv', [Next]_vars
  PROVE  [Abstract!Next]_(Abstract!avars)
<1> USE DEF recordVars, snapshotVars
<1>1. ASSUME UNCHANGED <<recorded, seen, unread>>, \A q \in recorded : ok'[q] = ok[q]
      PROVE  UNCHANGED Abstract!avars
  <2>1. Settled' = Settled
    BY <1>1, SameTally
  <2>2. Shown' = Shown
    BY <1>1 DEF Shown
  <2> QED BY <1>1, <2>1, <2>2 DEF Abstract!avars
<1>2. ASSUME NEW r \in Requests, CallNext(r) PROVE UNCHANGED Abstract!avars
  <2>1. r \notin recorded
    BY <1>2 DEF CallNext, IInv, ProgressInv
  <2> QED BY <1>1, <1>2, <2>1 DEF CallNext, TypeOK
<1>3. ASSUME NEW r \in Requests,
             \/ Cancelled(r) \/ BeginRecord(r) \/ Load(r) \/ Store(r)
             \/ AskForSnapshot(r) \/ BeginSnapshot(r) \/ EndSnapshot(r)
      PROVE  UNCHANGED Abstract!avars
  BY <1>1, <1>3
  DEF Cancelled, BeginRecord, Load, Store, AskForSnapshot, BeginSnapshot, EndSnapshot
<1>4. ASSUME NEW r \in Requests, EndRecord(r) PROVE Abstract!Next
  <2>1. r \notin recorded /\ recorded' = recorded \cup {r} /\ UNCHANGED <<seen, unread>>
    BY <1>4 DEF EndRecord, IInv, ProgressInv
  <2>2. r \in Readers => Shown[r] # NotShown
    <3>1. r \in Readers => unread[r] = {}
      BY <1>4 DEF EndRecord, IInv, SnapshotInv
    <3>2. seen[r] # NotShown
      BY NotShownAssumption DEF TypeOK
    <3> QED BY <3>1, <3>2 DEF Shown
  <2>3. Shown' = Shown
    BY <2>1 DEF Shown
  <2>4. Settled' = [s \in Scopes |-> [k \in Counters |->
                      IF s \in {Service, PathOf[r]} /\ k \in {"total", Outcome(r)}
                      THEN Settled[s][k] + 1 ELSE Settled[s][k]]]
    BY <1>4, OneMoreInTally DEF IInv
  <2>5. Abstract!Record(r, Outcome(r))
    BY <2>1, <2>2, <2>3, <2>4
      DEF Abstract!Record, Abstract!Scopes, Abstract!Counters, Scopes, Counters
  <2>6. Outcome(r) \in {"success", "errors"}
    BY DEF Outcome
  <2> QED BY <2>5, <2>6 DEF Abstract!Next
<1>5. ASSUME NEW r \in Requests, Read(r) PROVE Abstract!Next \/ UNCHANGED Abstract!avars
  <2>1. /\ pc[r] = "reading" /\ pc'[r] = "reading" /\ unread[r] # {}
        /\ UNCHANGED <<count, recorded, ok>>
    BY <1>5 DEF Read
  <2>2. \A q \in Requests \ {r} : seen'[q] = seen[q] /\ unread'[q] = unread[q]
    BY <1>5 DEF Read, TypeOK
  <2>3. Settled' = Settled
    BY <2>1, SameTally
  <2>4. r \in Readers /\ r \notin recorded
    BY <2>1 DEF IInv, OnlyReadersRead, ProgressInv
  <2>5. CASE unread'[r] # {}
    <3>1. Shown' = Shown
      BY <2>1, <2>2, <2>5, AppStatsAssumption DEF Shown
    <3> QED BY <2>1, <2>3, <3>1 DEF Abstract!avars
  <2>6. CASE unread'[r] = {}
    <3>1. \A q \in Requests : pc[q] \notin {"load", "store"}
      BY <2>1 DEF IInv, LockInv
    <3>2. ASSUME NEW s \in Scopes, NEW k \in Counters PROVE seen'[r][s][k] = Settled[s][k]
      <4>1. seen'[r][s][k] = count[s][k]
        BY <2>1, <2>4, <2>6 DEF SnapshotInv
      <4>2. count[s][k] = Cardinality(Counted(s, k))
        BY <3>1, StoredByRecorded DEF IInv, CountInv
      <4> QED BY <4>1, <4>2 DEF Tally
    <3>3. seen'[r] \in [Scopes -> [Counters -> Nat]]
      BY DEF TypeOK
    <3>4. seen'[r] = Settled
      <4>1. \A s \in Scopes : seen'[r][s] = Settled[s]
        BY <3>2, <3>3 DEF Tally
      <4> QED BY <3>3, <4>1 DEF Tally
    <3>5. Shown[r] = NotShown /\ Shown' = [Shown EXCEPT ![r] = Settled]
      BY <2>1, <2>2, <2>4, <2>6, <3>4, AppStatsAssumption DEF Shown
    <3>6. Abstract!Show(r)
      BY <2>1, <2>3, <2>4, <3>5 DEF Abstract!Show
    <3> QED BY <2>4, <3>6 DEF Abstract!Next
  <2> QED BY <2>5, <2>6
<1>6. CASE AllDone \/ UNCHANGED vars
  BY <1>1, <1>6 DEF AllDone, vars
<1> QED BY <1>2, <1>3, <1>4, <1>5, <1>6 DEF Next, Record, Snapshot

(* The class is thread-safe: whatever the interleaving, its counters are    *)
(* incremented, and shown, as if each request did so in one step.           *)
THEOREM Refinement == Spec => ImplementsAtomicStats
<1>1. TypeOK /\ IInv => Settled = Tally
  BY SettledIsTally DEF IInv
<1>2. (TypeOK /\ IInv => Settled = Tally)'
  BY <1>1, PTL
<1>3. TypeOK /\ IInv /\ TypeOK' /\ IInv' /\ [Next]_vars => [Abstract!Next]_(Abstract!avars)
  <2>1. IInv' => SnapshotInv'
    BY DEF IInv
  <2> QED BY <1>1, <1>2, <2>1, StepAbstract
<1> QED BY <1>3, InitAbstract, Inductive, PTL DEF Spec, ImplementsAtomicStats, Abstract!Spec
=============================================================================
