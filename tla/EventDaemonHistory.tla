------------------------- MODULE EventDaemonHistory -------------------------
(* EventDaemon with a history variable, for what its configuration says of   *)
(* retries.                                                                  *)
EXTENDS EventDaemon

VARIABLE tried  \* events that a worker with a callback for them has locked

historyAll == <<vars, tried>>

JustTried ==
    {e \in Events : \E c \in Workers :
        wpc[c] = "lock" /\ wpc'[c] = "handle" /\ wcur[c] = e /\ Implements(c, e)}

HistoryInit == Init /\ tried = {}

HistoryNext == Next /\ tried' = tried \cup JustTried

HistorySpec == HistoryInit /\ [][HistoryNext]_historyAll

\* failed_limit: "How many times we retry an event".  An event is given up (its
\* limit is reached and no copy of it is left in the daemon) only after a worker
\* whose handler implements it has had it.
TriedBeforeGivenUp == \A e \in table : Exhausted(e) => e \in tried
=============================================================================
