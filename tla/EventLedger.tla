---------------------------- MODULE EventLedger ----------------------------
(***************************************************************************)
(* What the event daemon promises to those who write events, without its   *)
(* processes, queues and notifications: an event is pending until somebody *)
(* claims it, a claim ends in the event being retired or given back, and   *)
(* an event is delivered once, plus once for each time a claim on it was   *)
(* revoked from outside.  It is dropped undelivered only by somebody       *)
(* outside, who is seen to do it.                                          *)
(***************************************************************************)
EXTENDS Naturals

CONSTANT Events

VARIABLES
    status,     \* where each event is
    delivered,  \* how often it was handled to the end
    revoked,    \* how often a claim on it was revoked
    discarded   \* the events that were dropped from outside

vars == <<status, delivered, revoked, discarded>>

Statuses == {"absent", "pending", "claimed", "done"}

Init ==
    /\ status = [e \in Events |-> "absent"]
    /\ delivered = [e \in Events |-> 0]
    /\ revoked = [e \in Events |-> 0]
    /\ discarded = {}

Post(e) ==
    /\ status[e] = "absent"
    /\ status' = [status EXCEPT ![e] = "pending"]
    /\ UNCHANGED <<delivered, revoked, discarded>>

Claim(e) ==
    /\ status[e] = "pending"
    /\ status' = [status EXCEPT ![e] = "claimed"]
    /\ UNCHANGED <<delivered, revoked, discarded>>

\* Only whoever has, or had and lost, a claim may deliver.
Deliver(e) ==
    /\ delivered[e] <= revoked[e]
    /\ status[e] \in {"claimed", "done"} \/ revoked[e] > 0
    /\ delivered' = [delivered EXCEPT ![e] = @ + 1]
    /\ UNCHANGED <<status, revoked, discarded>>

\* A claim that has delivered is not given back.
GiveBack(e) ==
    /\ status[e] = "claimed"
    /\ delivered[e] <= revoked[e]
    /\ status' = [status EXCEPT ![e] = "pending"]
    /\ UNCHANGED <<delivered, revoked, discarded>>

Retire(e) ==
    /\ status[e] \in {"pending", "claimed"}
    /\ delivered[e] > 0
    /\ status' = [status EXCEPT ![e] = "done"]
    /\ UNCHANGED <<delivered, revoked, discarded>>

\* Somebody from outside breaks the claims on the events of S.
Revoke(S) ==
    /\ \A e \in S : status[e] = "claimed"
    /\ status' = [e \in Events |-> IF e \in S THEN "pending" ELSE status[e]]
    /\ revoked' = [e \in Events |->
                      IF e \in S THEN revoked[e] + 1 ELSE revoked[e]]
    /\ UNCHANGED <<delivered, discarded>>

\* Somebody from outside drops the event, delivered or not, and it shows.
Discard(e) ==
    /\ status[e] \in {"pending", "claimed"}
    /\ status' = [status EXCEPT ![e] = "done"]
    /\ discarded' = discarded \cup {e}
    /\ UNCHANGED <<delivered, revoked>>

Next ==
    \/ \E S \in SUBSET Events : Revoke(S)
    \/ \E e \in Events :
          \/ Post(e) \/ Claim(e) \/ Deliver(e) \/ GiveBack(e) \/ Retire(e)
          \/ Discard(e)

Spec == Init /\ [][Next]_vars
=============================================================================
