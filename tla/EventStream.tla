---------------------------- MODULE EventStream ----------------------------
(***************************************************************************)
(* The event stream of the RPC server and the client that resumes it.  For *)
(* every subscription rpc/handlers.ts (eventsFromSequence) first follows   *)
(* the engine, then reads the log page by page, then hands over what it    *)
(* read and after it the live events above the last one read.  The client  *)
(* (contracts/src/rpc.ts, makeResumingRpcClient) keeps a cursor and opens  *)
(* the stream again from there whenever the transport fails.               *)
(*                                                                         *)
(* Events are their sequences.  The transport is in order; what is in      *)
(* flight when it fails is lost, so an event counts as taken when the      *)
(* client considers it.                                                    *)
(***************************************************************************)
EXTENDS Naturals, Sequences, FiniteSets

CONSTANTS
    Subscribers,    \* subscriptions of clients
    PageSize,       \* EVENT_PAGE_SIZE
    MaxEvents,      \* bound: events in the store
    MaxLost,        \* bound: events the engine commits and never announces
    MaxFaults       \* bound: transport failures, failed reads and restarts

ASSUME StreamAssumption ==
    /\ PageSize \in Nat \ {0}
    /\ MaxEvents \in Nat /\ MaxLost \in Nat /\ MaxFaults \in Nat

VARIABLES
    head,        \* the last sequence in orchestration_events
    announced,   \* the engine has published, or passed over, 1..announced
    withheld,    \* the events it passed over
    client,      \* subscriber -> where its stream is
    start,       \* subscriber -> the sequence it was opened at
    cursor,      \* subscriber -> the Ref of the resuming client
    received,    \* subscriber -> the events handed to its consumer, in order
    feed,        \* subscriber -> [last, replay, queue] of eventsFromSequence
    faults       \* faults so far

engine == <<head, announced, withheld>>
vars == <<head, announced, withheld, client, start, cursor, received, feed, faults>>

-----------------------------------------------------------------------------

\* What the server holds for a stream whose last event so far is n.
FeedFrom(n) == [last |-> n, replay |-> <<>>, queue |-> <<>>]

Elements(seq) == {seq[i] : i \in DOMAIN seq}

\* The sequences from..to, in order.
Span(from, to) == [i \in 1..((to + 1) - from) |-> (from + i) - 1]

\* Mutant: the last page is taken to be full.
PageEndPastLog(after) == after + PageSize

\* The last sequence of the page store.readFrom(after, PageSize).
PageEnd(after) == IF after + PageSize <= head THEN after + PageSize ELSE head

\* Mutant: the server subscribes when the replay is there.
SubscribedLate(s) == client[s] = "serving"

\* The server is subscribed to the engine for s.
Subscribed(s) == client[s] \in {"reading", "read", "serving"}

Fault ==
    /\ faults < MaxFaults
    /\ faults' = faults + 1

Init ==
    /\ head = 0
    /\ announced = 0
    /\ withheld = {}
    /\ client = [s \in Subscribers |-> "closed"]
    /\ start = [s \in Subscribers |-> 0]
    /\ cursor = [s \in Subscribers |-> 0]
    /\ received = [s \in Subscribers |-> <<>>]
    /\ feed = [s \in Subscribers |-> FeedFrom(0)]
    /\ faults = 0

-----------------------------------------------------------------------------
(* The engine, as OrchestrationEngine has it *)

Commit ==
    /\ head < MaxEvents
    /\ head' = head + 1
    /\ UNCHANGED <<announced, withheld, client, start, cursor, received, feed, faults>>

\* The engine publishes in commit order, into the queue of every subscription.
Publish ==
    /\ announced < head
    /\ announced' = announced + 1
    /\ feed' = [s \in Subscribers |->
                   IF Subscribed(s)
                   THEN [feed[s] EXCEPT !.queue = Append(@, announced + 1)]
                   ELSE feed[s]]
    /\ UNCHANGED <<head, withheld, client, start, cursor, received, faults>>

\* A commit whose acknowledgement and reconciliation are both lost.
LosePublish ==
    /\ announced < head
    /\ Cardinality(withheld) < MaxLost
    /\ announced' = announced + 1
    /\ withheld' = withheld \cup {announced + 1}
    /\ UNCHANGED <<head, client, start, cursor, received, feed, faults>>

\* The process goes down and comes back: every stream fails, no event in a
\* queue survives, and the engine starts from the whole log.
Restart ==
    /\ Fault
    /\ announced' = head
    /\ client' = [s \in Subscribers |->
                     IF Subscribed(s) THEN "waiting" ELSE client[s]]
    /\ feed' = [s \in Subscribers |-> FeedFrom(0)]
    /\ UNCHANGED <<head, withheld, start, cursor, received>>

-----------------------------------------------------------------------------
(* The client *)

\* client.events(n), with the sequence n of a snapshot: the minimum of the
\* checkpoints, so anything up to the end of the log.
Open(s) ==
    /\ client[s] = "closed"
    /\ \E n \in 0..head :
          /\ start' = [start EXCEPT ![s] = n]
          /\ cursor' = [cursor EXCEPT ![s] = n]
    /\ client' = [client EXCEPT ![s] = "waiting"]
    /\ received' = [received EXCEPT ![s] = <<>>]
    /\ UNCHANGED <<engine, feed, faults>>

Close(s) ==
    /\ client[s] \notin {"closed"}
    /\ client' = [client EXCEPT ![s] = "closed"]
    /\ feed' = [feed EXCEPT ![s] = FeedFrom(0)]
    /\ UNCHANGED <<engine, start, cursor, received, faults>>

\* The transport fails, or the stream ends: the client sleeps, then resumes.
Disconnect(s) ==
    /\ Fault
    /\ Subscribed(s)
    /\ client' = [client EXCEPT ![s] = "waiting"]
    /\ feed' = [feed EXCEPT ![s] = FeedFrom(0)]
    /\ UNCHANGED <<engine, start, cursor, received>>

\* considerEvent: an event at or below the cursor is dropped.
Consider(s, n) ==
    IF n <= cursor[s]
    THEN UNCHANGED <<cursor, received>>
    ELSE /\ cursor' = [cursor EXCEPT ![s] = n]
         /\ received' = [received EXCEPT ![s] = Append(@, n)]

-----------------------------------------------------------------------------
(* The server, for one stream *)

\* The request arrives with the cursor; the live queue is filled from here on.
Subscribe(s) ==
    /\ client[s] = "waiting"
    /\ client' = [client EXCEPT ![s] = "reading"]
    /\ feed' = [feed EXCEPT ![s] = FeedFrom(cursor[s])]
    /\ UNCHANGED <<engine, start, cursor, received, faults>>

\* One page; readAllFrom returns on the first that is not full.
ReadPage(s) ==
    LET last == feed[s].last
        end == PageEnd(last)
    IN  /\ client[s] = "reading"
        /\ feed' = [feed EXCEPT ![s].last = end,
                                ![s].replay = @ \o Span(last + 1, end)]
        /\ client' = [client EXCEPT ![s] = IF end < last + PageSize THEN "read" ELSE @]
        /\ UNCHANGED <<engine, start, cursor, received, faults>>

\* The read fails: an RpcServerError, which the client does not resume from.
ReadFails(s) ==
    /\ Fault
    /\ client[s] = "reading"
    /\ client' = [client EXCEPT ![s] = "failed"]
    /\ feed' = [feed EXCEPT ![s] = FeedFrom(0)]
    /\ UNCHANGED <<engine, start, cursor, received>>

\* Mutant: an empty replay has no last sequence to go on from.
ServeIfReplayed(s) ==
    /\ client[s] = "read"
    /\ feed[s].replay # <<>>
    /\ client' = [client EXCEPT ![s] = "serving"]
    /\ UNCHANGED <<engine, start, cursor, received, feed, faults>>

\* The replay is known to end at last: the stream is put together.
Serve(s) ==
    /\ client[s] = "read"
    /\ client' = [client EXCEPT ![s] = "serving"]
    /\ UNCHANGED <<engine, start, cursor, received, feed, faults>>

TakeReplayed(s) ==
    /\ client[s] = "serving"
    /\ feed[s].replay # <<>>
    /\ feed' = [feed EXCEPT ![s].replay = Tail(@)]
    /\ Consider(s, Head(feed[s].replay))
    /\ UNCHANGED <<engine, client, start, faults>>

\* A live event at or below the end of the replay is filtered out.
TakeLive(s) ==
    /\ client[s] = "serving"
    /\ feed[s].replay = <<>>
    /\ feed[s].queue # <<>>
    /\ feed' = [feed EXCEPT ![s].queue = Tail(@)]
    /\ IF Head(feed[s].queue) > feed[s].last
       THEN Consider(s, Head(feed[s].queue))
       ELSE UNCHANGED <<cursor, received>>
    /\ UNCHANGED <<engine, client, start, faults>>

-----------------------------------------------------------------------------

Server(s) ==
    Subscribe(s) \/ ReadPage(s) \/ Serve(s) \/ TakeReplayed(s) \/ TakeLive(s)

Next ==
    \/ Commit \/ Publish \/ LosePublish \/ Restart
    \/ \E s \in Subscribers :
          Open(s) \/ Close(s) \/ Disconnect(s) \/ ReadFails(s) \/ Server(s)

Spec == Init /\ [][Next]_vars

\* The worker of the engine and the fibers of a stream run; nothing makes the
\* transport fail, a consumer leave, or a command arrive.
FairSpec ==
    /\ Spec
    /\ WF_vars(Publish)
    /\ \A s \in Subscribers : WF_vars(Server(s))

-----------------------------------------------------------------------------

\* Every variable has its shape; no cursor is past the end of the log.
TypeOK ==
    /\ head \in 0..MaxEvents
    /\ announced \in 0..head
    /\ withheld \subseteq 1..announced
    /\ client \in [Subscribers -> {"closed", "waiting", "reading", "read", "serving", "failed"}]
    /\ start \in [Subscribers -> 0..head]
    /\ cursor \in [Subscribers -> 0..head]
    /\ received \in [Subscribers -> Seq(1..head)]
    /\ feed \in [Subscribers -> [last : 0..head, replay : Seq(1..head), queue : Seq(1..head)]]
    /\ faults \in 0..MaxFaults

Feed == INSTANCE EventFeed

\* "Resumes events from the last seen sequence with no gap and no duplicate"
\* (rpc.test.ts:659), across the seam of replay and live, page boundaries,
\* transport failures and restarts: every step of every stream is one of
\* EventFeed, which hands over the next event of the log.
ImplementsEventFeed == Feed!Spec

\* A stream that stays open hands over every event the engine announced, also
\* one that was announced while the client was away.
StreamDelivers ==
    \A s \in Subscribers : \A n \in 1..MaxEvents :
        client[s] \notin {"closed", "failed"} /\ n \in (start[s] + 1)..announced
            /\ n \notin withheld
        ~> n \in Elements(received[s]) \/ client[s] \in {"closed", "failed"}
=============================================================================
