----------------------------- MODULE CommandLog -----------------------------
(***************************************************************************)
(* What the orchestration engine promises its callers, with every queue,   *)
(* fiber, read model and failure left out: one append-only history, and    *)
(* one verdict per command id that, once given, is given for good.  A      *)
(* command enters the history in the same step that accepts it; provider   *)
(* batches enter it with no verdict.  OrchestrationEngine implements this  *)
(* module (history <- log, verdict <- receipts).                           *)
(***************************************************************************)
EXTENDS Naturals, Sequences

CONSTANTS
    Commands,     \* command ids; a retry carries the id of the first try
    Batches,      \* batches a provider session hands to appendEvents
    EventsOf(_)   \* the events a command or a batch appends, in order

VARIABLES
    history,      \* Seq([work, event])
    verdict       \* command -> [status, seq]

abstractVars == <<history, verdict>>

Undecided == [status |-> "none", seq |-> 0]
Rejected == [status |-> "rejected", seq |-> 0]
AcceptedAt(n) == [status |-> "accepted", seq |-> n]

\* The entries of one unit of work: each event tagged with what produced it.
Entries(w) ==
    [i \in 1..Len(EventsOf(w)) |-> [work |-> w, event |-> EventsOf(w)[i]]]

Init ==
    /\ history = <<>>
    /\ verdict = [c \in Commands |-> Undecided]

Accept(c) ==
    /\ verdict[c] = Undecided
    /\ EventsOf(c) # <<>>
    /\ history' = history \o Entries(c)
    /\ verdict' = [verdict EXCEPT ![c] = AcceptedAt(Len(history'))]

Reject(c) ==
    /\ verdict[c] = Undecided
    /\ verdict' = [verdict EXCEPT ![c] = Rejected]
    /\ UNCHANGED history

Provide(b) ==
    /\ history' = history \o Entries(b)
    /\ UNCHANGED verdict

Next ==
    \/ \E c \in Commands : Accept(c) \/ Reject(c)
    \/ \E b \in Batches : Provide(b)

Spec == Init /\ [][Next]_abstractVars
=============================================================================
