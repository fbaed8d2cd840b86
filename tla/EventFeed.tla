----------------------------- MODULE EventFeed -----------------------------
(***************************************************************************)
(* What a subscription to the orchestration events promises: from the      *)
(* sequence it was opened at, its consumer is handed every event of the    *)
(* log, once and in order.  The one exception are events the engine never  *)
(* announced (its reconciliation was lost): a live subscription may pass   *)
(* over those, and over nothing else.                                      *)
(***************************************************************************)
EXTENDS Naturals, Sequences

CONSTANTS Subscribers

VARIABLES
    head,       \* the last sequence in orchestration_events
    withheld,   \* events the engine will never announce
    start,      \* subscriber -> the sequence its subscription was opened at
    received    \* subscriber -> the events its consumer was handed, in order

feedVars == <<head, withheld, start, received>>

\* The last sequence the consumer of s has, or the one it started after.
Position(s) ==
    IF received[s] = <<>> THEN start[s] ELSE received[s][Len(received[s])]

Init ==
    /\ head = 0
    /\ withheld = {}
    /\ start = [s \in Subscribers |-> 0]
    /\ received = [s \in Subscribers |-> <<>>]

Commit ==
    /\ head' = head + 1
    /\ UNCHANGED <<withheld, start, received>>

Withhold(first, last) ==
    /\ first \in 1..head /\ last \in 1..head
    /\ withheld' = withheld \cup first..last
    /\ UNCHANGED <<head, start, received>>

\* A consumer subscribes with the sequence of the snapshot it holds.
Open(s, n) ==
    /\ n \in 0..head
    /\ start' = [start EXCEPT ![s] = n]
    /\ received' = [received EXCEPT ![s] = <<>>]
    /\ UNCHANGED <<head, withheld>>

Deliver(s, n) ==
    /\ n \in (Position(s) + 1)..head
    /\ ((Position(s) + 1)..(n - 1)) \subseteq withheld
    /\ received' = [received EXCEPT ![s] = Append(@, n)]
    /\ UNCHANGED <<head, withheld, start>>

Next ==
    \/ Commit
    \/ \E first, last \in 1..head : Withhold(first, last)
    \/ \E s \in Subscribers, n \in 0..head : Open(s, n)
    \/ \E s \in Subscribers, n \in 0..head : Deliver(s, n)

Spec == Init /\ [][Next]_feedVars
=============================================================================
