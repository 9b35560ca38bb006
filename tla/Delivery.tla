------------------------------ MODULE Delivery ------------------------------
(* What the service's side of the intake queue promises: a queued message   *)
(* is acknowledged once a handler has processed it, rejected once its body  *)
(* or its handler has failed, and otherwise stays, whatever happens to the  *)
(* consumers.  Only the broker can lose it.                                 *)
CONSTANTS Msgs
VARIABLES
  status,  (* "new", "unroutable", "queued", "acked", "rejected", "lost"    *)
  done,    (* the messages a handler has returned for                       *)
  failed   (* the messages whose body or handler has failed                 *)

vars == <<status, done, failed>>

Init == status = [m \in Msgs |-> "new"] /\ done = {} /\ failed = {}

Move(m, from, to) ==
  /\ status[m] = from
  /\ status' = [status EXCEPT ![m] = to]
  /\ UNCHANGED <<done, failed>>

Accept(m) == Move(m, "new", "queued") \/ Move(m, "new", "unroutable")

(* Handling may be repeated, even after the message has left the queue: the *)
(* task of a lost channel runs on.                                          *)
Succeed(m) == status[m] # "new" /\ done' = done \cup {m} /\ UNCHANGED <<status, failed>>
Fail(m)    == status[m] # "new" /\ failed' = failed \cup {m} /\ UNCHANGED <<status, done>>

Acknowledge(m) == m \in done /\ Move(m, "queued", "acked")
Reject(m)      == m \in failed /\ Move(m, "queued", "rejected")

(* The broker restarts.                                                     *)
Lose ==
  /\ status' = [m \in Msgs |-> IF status[m] = "queued" THEN "lost" ELSE status[m]]
  /\ UNCHANGED <<done, failed>>

Next ==
  \/ \E m \in Msgs : Accept(m) \/ Succeed(m) \/ Fail(m) \/ Acknowledge(m) \/ Reject(m)
  \/ Lose

Spec == Init /\ [][Next]_vars
=============================================================================
