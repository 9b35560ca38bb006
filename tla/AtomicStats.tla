----------------------------- MODULE AtomicStats -----------------------------
(****************************************************************************)
(* What "thread-safe statistics" promises: a request is counted in all its  *)
(* counters at once and only once, and a reader is shown all counters as    *)
(* they are at one moment, before it is counted itself.                     *)
(****************************************************************************)
EXTENDS Naturals

CONSTANTS
  Requests,  (* the HTTP requests                                           *)
  Readers,   (* those that ask for the statistics                           *)
  Paths,     (* URL paths                                                   *)
  PathOf,    (* the path of each request                                    *)
  Service,   (* the counters of the process                                 *)
  NotShown   (* what a reader has been shown before its answer              *)

VARIABLES
  count,     (* the counters                                                *)
  recorded,  (* the requests that have been counted                         *)
  shown      (* the statistics each reader has been shown                   *)

avars == <<count, recorded, shown>>

Scopes   == Paths \cup {Service}
Counters == {"total", "success", "errors"}

Init ==
  /\ count = [s \in Scopes |-> [k \in Counters |-> 0]]
  /\ recorded = {}
  /\ shown = [r \in Readers |-> NotShown]

Record(r, outcome) ==
  /\ r \notin recorded
  /\ r \in Readers => shown[r] # NotShown
  /\ recorded' = recorded \cup {r}
  /\ count' = [s \in Scopes |-> [k \in Counters |->
       IF s \in {Service, PathOf[r]} /\ k \in {"total", outcome}
       THEN count[s][k] + 1 ELSE count[s][k]]]
  /\ UNCHANGED shown

Show(r) ==
  /\ r \notin recorded
  /\ shown[r] = NotShown
  /\ shown' = [shown EXCEPT ![r] = count]
  /\ UNCHANGED <<count, recorded>>

Next ==
  \/ \E r \in Requests : \E outcome \in {"success", "errors"} : Record(r, outcome)
  \/ \E r \in Readers : Show(r)

Spec == Init /\ [][Next]_avars
=============================================================================
