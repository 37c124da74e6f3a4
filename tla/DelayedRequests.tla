-------------------------- MODULE DelayedRequests ---------------------------
(***************************************************************************)
(* What a caller of CommBuffer.enqueue_command(command, delay) and         *)
(* cancel_delayed_requests relies on, without threads, locks or caches:    *)
(* every submitted request is settled at most once, by delivery or by      *)
(* withdrawal; it is never delivered before its deadline; and requests are *)
(* delivered in the order of their deadlines, those with one deadline in   *)
(* the order they were submitted.  DelayHandler implements this module.    *)
(***************************************************************************)
EXTENDS Integers, Sequences

CONSTANTS Requests, Delays, MaxTime

VARIABLES
  clock,
  deadline,   \* when a submitted request is to be delivered
  turn,       \* 0, or a number that grows with each submission
  delivered,  \* the requests delivered, in order
  withdrawn   \* the requests withdrawn

vars == <<clock, deadline, turn, delivered, withdrawn>>

Submitted == {r \in Requests : turn[r] > 0}
Settled == withdrawn \cup {delivered[i] : i \in DOMAIN delivered}
Pending == Submitted \ Settled

Before(r, s) ==
  \/ deadline[r] < deadline[s]
  \/ deadline[r] = deadline[s] /\ turn[r] < turn[s]

Init ==
  /\ clock = 0
  /\ deadline = [r \in Requests |-> 0]
  /\ turn = [r \in Requests |-> 0]
  /\ delivered = <<>>
  /\ withdrawn = {}

Advance ==
  /\ clock' = clock + 1
  /\ UNCHANGED <<deadline, turn, delivered, withdrawn>>

Submit(r, d) ==
  /\ r \notin Submitted
  /\ deadline' = [deadline EXCEPT ![r] = clock + d]
  /\ turn' = [turn EXCEPT ![r] = turn'[r]]
  /\ \A s \in Requests : turn[s] < turn'[r]
  /\ UNCHANGED <<clock, delivered, withdrawn>>

Deliver(r) ==
  /\ r \in Pending
  /\ deadline[r] <= clock
  /\ \A s \in Pending \ {r} : Before(r, s)
  /\ delivered' = Append(delivered, r)
  /\ UNCHANGED <<clock, deadline, turn, withdrawn>>

Withdraw(r) ==
  /\ r \in Pending
  /\ withdrawn' = withdrawn \cup {r}
  /\ UNCHANGED <<clock, deadline, turn, delivered>>

Next ==
  \/ Advance
  \/ \E r \in Requests :
       \/ \E d \in Delays : Submit(r, d)
       \/ Deliver(r)
       \/ Withdraw(r)

Spec == Init /\ [][Next]_vars
=============================================================================
