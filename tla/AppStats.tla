------------------------------ MODULE AppStats ------------------------------
(****************************************************************************)
(* The AppStats of one worker process and the middleware that feeds it; the *)
(* other processes have their own.  AppStats promises to be                 *)
(* thread-safe, so requests may run on any number of threads, where         *)
(* `counter += 1` is a load and a store and only the lock keeps another     *)
(* thread from running in between; one event loop is the special case in    *)
(* which record() and snapshot() are never interrupted.  Durations are left *)
(* out.                                                                     *)
(****************************************************************************)
EXTENDS Naturals, Sequences, FiniteSets

CONSTANTS
  Requests,   (* the HTTP requests                                          *)
  Readers,    (* those that ask for /api/stats                              *)
  Paths,      (* URL paths                                                  *)
  PathOf,     (* the path of each request                                   *)
  Service,    (* the counters of the process, not of one path               *)
  Free,       (* the lock is not held                                       *)
  NotShown    (* what a reader has been shown before its answer             *)

ASSUME AppStatsAssumption ==
  /\ IsFiniteSet(Requests)
  /\ Readers \subseteq Requests
  /\ PathOf \in [Requests -> Paths]
  /\ Service \notin Paths
  /\ Free \notin Requests

Scopes   == Paths \cup {Service}
Counters == {"total", "success", "errors"}

(* A value that is no snapshot.                                             *)
ASSUME NotShownAssumption == NotShown \notin [Scopes -> [Counters -> Nat]]

VARIABLES
  count,     (* the counters                                                *)
  lock,      (* the holder of the lock                                      *)
  pc,        (* what each request does next                                 *)
  ok,        (* the response of each request is below 400                   *)
  step,      (* how many counters the request has incremented               *)
  loaded,    (* the value a request has loaded and not yet stored           *)
  unread,    (* the counters a snapshot has still to read                   *)
  seen,      (* the snapshot each reader has built                          *)
  recorded,  (* history: the requests record() has returned for             *)
  before     (* history: `recorded` when the reader's snapshot began        *)

vars == <<count, lock, pc, ok, step, loaded, unread, seen, recorded, before>>
recordVars   == <<step, loaded, recorded>>
snapshotVars == <<unread, seen, before>>

Zero  == [s \in Scopes |-> [k \in Counters |-> 0]]
Steps == {"serving", "wait_snapshot", "reading", "served",
          "wait_record", "load", "store", "done"}

TypeOK ==
  /\ count \in [Scopes -> [Counters -> Nat]]
  /\ lock \in Requests \cup {Free}
  /\ pc \in [Requests -> Steps]
  /\ ok \in [Requests -> BOOLEAN]
  /\ step \in [Requests -> 0 .. 4]
  /\ loaded \in [Requests -> Nat]
  /\ unread \in [Requests -> SUBSET (Scopes \X Counters)]
  /\ seen \in [Requests -> [Scopes -> [Counters -> Nat]]]
  /\ recorded \in SUBSET Requests
  /\ before \in [Requests -> SUBSET Requests]

Init ==
  /\ count = Zero
  /\ lock = Free
  /\ pc = [r \in Requests |-> "serving"]
  /\ ok = [r \in Requests |-> FALSE]
  /\ step = [r \in Requests |-> 0]
  /\ loaded = [r \in Requests |-> 0]
  /\ unread = [r \in Requests |-> Scopes \X Counters]
  /\ seen = [r \in Requests |-> Zero]
  /\ recorded = {}
  /\ before = [r \in Requests |-> {}]

Goto(r, s) == pc' = [pc EXCEPT ![r] = s]

(* Variant: the lock is taken in the name of the process.                   *)
AcquireForProcess(r) ==
  /\ lock = Free
  /\ lock' = Service

(* Variant: nobody waits for the lock.                                      *)
AcquireAtOnce(r) == lock' = r

Acquire(r) ==
  /\ lock = Free
  /\ lock' = r

Release == lock' = Free

-----------------------------------------------------------------------------
(* The middleware.                                                          *)

(* call_next() returns a response or raises, which counts as a 500.         *)
CallNext(r) ==
  /\ \/ pc[r] = "serving" /\ r \notin Readers
     \/ pc[r] = "served"
  /\ Goto(r, "wait_record")
  /\ \E success \in BOOLEAN : ok' = [ok EXCEPT ![r] = success]
  /\ UNCHANGED <<count, lock, recordVars, snapshotVars>>

(* The client goes away: CancelledError is no Exception, nothing is         *)
(* recorded.                                                                *)
Cancelled(r) ==
  /\ pc[r] \in {"serving", "served"}
  /\ Goto(r, "done")
  /\ UNCHANGED <<count, lock, ok, recordVars, snapshotVars>>

-----------------------------------------------------------------------------
(* record().                                                                *)

Outcome(r) == IF ok[r] THEN "success" ELSE "errors"

(* Variant: the endpoint's errors are not told from its successes.          *)
IncrementsOfSuccess(r) == << <<Service, "total">>, <<Service, Outcome(r)>>,
                             <<PathOf[r], "total">>, <<PathOf[r], "success">> >>

(* The counters record() increments, in its order.                          *)
Increments(r) == << <<Service, "total">>, <<Service, Outcome(r)>>,
                    <<PathOf[r], "total">>, <<PathOf[r], Outcome(r)>> >>

BeginRecord(r) ==
  /\ pc[r] = "wait_record"
  /\ Acquire(r)
  /\ Goto(r, "load")
  /\ UNCHANGED <<count, ok, recordVars, snapshotVars>>

Load(r) ==
  /\ pc[r] = "load" /\ step[r] < 4
  /\ LET c == Increments(r)[step[r] + 1] IN
       loaded' = [loaded EXCEPT ![r] = count[c[1]][c[2]]]
  /\ Goto(r, "store")
  /\ UNCHANGED <<count, lock, ok, step, recorded, snapshotVars>>

Store(r) ==
  /\ pc[r] = "store"
  /\ LET c == Increments(r)[step[r] + 1] IN
       count' = [count EXCEPT ![c[1]][c[2]] = loaded[r] + 1]
  /\ step' = [step EXCEPT ![r] = @ + 1]
  /\ Goto(r, "load")
  /\ UNCHANGED <<lock, ok, loaded, recorded, snapshotVars>>

EndRecord(r) ==
  /\ pc[r] = "load" /\ step[r] = 4
  /\ Release
  /\ Goto(r, "done")
  /\ recorded' = recorded \cup {r}
  /\ UNCHANGED <<count, ok, step, loaded, snapshotVars>>

-----------------------------------------------------------------------------
(* snapshot(), which GET /api/stats returns.                                *)

AskForSnapshot(r) ==
  /\ pc[r] = "serving" /\ r \in Readers
  /\ Goto(r, "wait_snapshot")
  /\ UNCHANGED <<count, lock, ok, recordVars, snapshotVars>>

(* Variant: the snapshot does without the lock.                             *)
BeginSnapshotUnlocked(r) ==
  /\ pc[r] = "wait_snapshot"
  /\ Goto(r, "reading")
  /\ before' = [before EXCEPT ![r] = recorded]
  /\ UNCHANGED <<count, lock, ok, recordVars, seen, unread>>

BeginSnapshot(r) ==
  /\ pc[r] = "wait_snapshot"
  /\ Acquire(r)
  /\ Goto(r, "reading")
  /\ before' = [before EXCEPT ![r] = recorded]
  /\ UNCHANGED <<count, ok, recordVars, seen, unread>>

(* One counter is read; the order of the fields does not matter.            *)
Read(r) ==
  /\ pc[r] = "reading"
  /\ \E c \in unread[r] :
       /\ seen' = [seen EXCEPT ![r][c[1]][c[2]] = count[c[1]][c[2]]]
       /\ unread' = [unread EXCEPT ![r] = @ \ {c}]
  /\ UNCHANGED <<count, lock, pc, ok, recordVars, before>>

(* Variant: the lock is not released.                                       *)
EndSnapshotLocked(r) ==
  /\ pc[r] = "reading" /\ unread[r] = {}
  /\ Goto(r, "served")
  /\ UNCHANGED <<count, lock, ok, recordVars, snapshotVars>>

EndSnapshot(r) ==
  /\ pc[r] = "reading" /\ unread[r] = {}
  /\ Release
  /\ Goto(r, "served")
  /\ UNCHANGED <<count, ok, recordVars, snapshotVars>>

-----------------------------------------------------------------------------
Record(r)   == BeginRecord(r) \/ Load(r) \/ Store(r) \/ EndRecord(r)
Snapshot(r) == AskForSnapshot(r) \/ BeginSnapshot(r) \/ Read(r) \/ EndSnapshot(r)

AllDone == (\A r \in Requests : pc[r] = "done") /\ UNCHANGED vars

Next ==
  \/ \E r \in Requests : CallNext(r) \/ Cancelled(r) \/ Record(r) \/ Snapshot(r)
  \/ AllDone

Spec == Init /\ [][Next]_vars

(* Threads are scheduled; a request takes the lock at most twice, so that   *)
(* those that wait for it get it in the end however it is handed over.      *)
Fairness == \A r \in Requests : WF_vars(CallNext(r) \/ Record(r) \/ Snapshot(r))

FairSpec == Spec /\ Fairness

-----------------------------------------------------------------------------
(* Properties.                                                              *)

(* No increment is lost: while nobody holds the lock, each recorded request *)
(* has been counted once, as a success or as an error, under its path.      *)
NoLostUpdate ==
  lock = Free =>
    /\ count[Service]["total"] = Cardinality(recorded)
    /\ count[Service]["errors"] = Cardinality({r \in recorded : ~ok[r]})
    /\ \A path \in Paths :
         count[path]["total"] = Cardinality({r \in recorded : PathOf[r] = path})

(* A snapshot that has been read shows one moment: the requests recorded    *)
(* before it began, with totals that add up, for the process as for every   *)
(* path.                                                                    *)
SnapshotIsConsistent ==
  \A r \in Readers : unread[r] = {} =>
    /\ \A s \in Scopes : seen[r][s]["total"] = seen[r][s]["success"] + seen[r][s]["errors"]
    /\ seen[r][Service]["total"] = Cardinality(before[r])

(* A request that is not cancelled is recorded: nobody keeps the lock.      *)
EventuallyRecorded ==
  \A r \in Requests : pc[r] = "wait_record" ~> r \in recorded
-----------------------------------------------------------------------------
(* The inductive invariant.                                                 *)

(* Whoever reads or writes counters holds the lock.                         *)
LockInv == \A r \in Requests : lock = r <=> pc[r] \in {"load", "store", "reading"}

(* A request outside record() has incremented nothing or everything, and a  *)
(* loaded value is still the value of its counter.                          *)
ProgressInv ==
  \A r \in Requests :
    /\ step[r] = 0 \/ pc[r] \in {"load", "store"} \/ r \in recorded
    /\ r \in recorded => pc[r] = "done" /\ step[r] = 4
    /\ pc[r] = "store" =>
         LET c == Increments(r)[step[r] + 1] IN step[r] < 4 /\ loaded[r] = count[c[1]][c[2]]

(* The requests that have stored their increment of counter c.              *)
Stored(c) == {r \in Requests : \E i \in 1 .. step[r] : Increments(r)[i] = c}

CountInv == \A s \in Scopes : \A k \in Counters : count[s][k] = Cardinality(Stored(<<s, k>>))

(* What a snapshot has read is what the counters are until it ends.         *)
SnapshotInv ==
  \A r \in Readers :
    /\ pc[r] \in {"serving", "wait_snapshot"} => unread[r] = Scopes \X Counters
    /\ pc[r] \in {"served", "wait_record", "load", "store"} => unread[r] = {}
    /\ pc[r] = "reading" =>
         /\ before[r] = recorded
         /\ \A s \in Scopes : \A k \in Counters :
              <<s, k>> \notin unread[r] => seen[r][s][k] = count[s][k]

OnlyReadersRead ==
  \A r \in Requests : pc[r] \in {"wait_snapshot", "reading", "served"} => r \in Readers

IInv == /\ LockInv /\ ProgressInv /\ CountInv
        /\ SnapshotInv /\ SnapshotIsConsistent /\ OnlyReadersRead

-----------------------------------------------------------------------------
(* Refinement.                                                              *)

(* The counters without the increments of the record() in progress, and the *)
(* snapshots that are complete.                                             *)
Settled == [s \in Scopes |-> [k \in Counters |->
              count[s][k] - Cardinality(Stored(<<s, k>>) \ recorded)]]
Shown   == [r \in Readers |-> IF unread[r] = {} THEN seen[r] ELSE NotShown]

Abstract == INSTANCE AtomicStats WITH count <- Settled, shown <- Shown

(* With its loads, stores and reads the class implements statistics that    *)
(* are counted, and shown, in one step.                                     *)
ImplementsAtomicStats == Abstract!Spec
=============================================================================
