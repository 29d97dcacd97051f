--------------------------- MODULE RequestLedger ---------------------------
(* What bofhd_request promises to those who leave a request in it, without   *)
(* the processors, their lists and their lock files: a request has a number  *)
(* of its own, is pending until it is carried out or withdrawn, and is then  *)
(* over for good.  What is not promised is that it is carried out only once, *)
(* or not at all once withdrawn: whoever had it in hand may do so still.     *)
EXTENDS Naturals

CONSTANTS
    Ids,        \* request ids
    Limit       \* how often a request may be carried out

VARIABLES
    status,     \* where each request is
    completed   \* how often it was carried out

vars == <<status, completed>>

Statuses == {"absent", "pending", "done", "withdrawn"}

Init ==
    /\ status = [r \in Ids |-> "absent"]
    /\ completed = [r \in Ids |-> 0]

\* Numbers are used once, one after the other.
Unused(r) ==
    /\ status[r] = "absent"
    /\ \A x \in Ids : x < r => status[x] # "absent"

Post(r) ==
    /\ Unused(r)
    /\ status' = [status EXCEPT ![r] = "pending"]
    /\ UNCHANGED completed

Withdraw(r) ==
    /\ status[r] = "pending"
    /\ status' = [status EXCEPT ![r] = "withdrawn"]
    /\ UNCHANGED completed

\* One request takes the place of another, at once.
Replace(old, r) ==
    /\ status[old] = "pending"
    /\ Unused(r)
    /\ status' = [status EXCEPT ![old] = "withdrawn", ![r] = "pending"]
    /\ UNCHANGED completed

\* The first time that a request is carried out it is over.
Complete(r) ==
    /\ status[r] = "pending"
    /\ completed[r] = 0
    /\ status' = [status EXCEPT ![r] = "done"]
    /\ completed' = [completed EXCEPT ![r] = 1]

\* One that is over is carried out, again or in spite of that.
Repeat(r) ==
    /\ status[r] \in {"done", "withdrawn"}
    /\ completed[r] < Limit
    /\ completed' = [completed EXCEPT ![r] = @ + 1]
    /\ UNCHANGED status

Next ==
    \E r \in Ids :
        \/ Post(r) \/ Withdraw(r) \/ Complete(r) \/ Repeat(r)
        \/ \E old \in Ids : Replace(old, r)

Spec == Init /\ [][Next]_vars
=============================================================================
