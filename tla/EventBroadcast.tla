--------------------------- MODULE EventBroadcast ---------------------------
(***************************************************************************)
(* The event channel of the desktop application.  The shell process pushes *)
(* every live event once (rpc/encodedBoundary.ts, pushLiveEvents) and, for *)
(* every events request, the history after a sequence (pushEventsReplay);  *)
(* all pushes go into one channel, and every push reaches every listener   *)
(* of the window (desktop/src/lib/rpc/client.ts, listenForEvents).  Each   *)
(* listener feeds the cursor of a resuming client (contracts/src/rpc.ts),  *)
(* which drops what is not above it.                                       *)
(*                                                                         *)
(* The engine announces what it commits here; EventStream has the commits  *)
(* it fails to announce.                                                   *)
(*                                                                         *)
(* Events are their sequences.  The channel is in order, so a push is one  *)
(* step that reaches all listeners.                                        *)
(***************************************************************************)
EXTENDS Naturals, Sequences

CONSTANTS
    Subscribers,    \* the tail stores and the ACP bridge of a window
    Requests,       \* bound: identities of the replays that are ever forked
    PageSize,       \* EVENT_PAGE_SIZE
    MaxEvents,      \* bound: events in the store
    MaxFaults       \* bound: failing requests and reads

ASSUME BroadcastAssumption ==
    /\ PageSize \in Nat \ {0}
    /\ MaxEvents \in Nat /\ MaxFaults \in Nat

VARIABLES
    head,        \* the last sequence in orchestration_events
    announced,   \* the last sequence the engine published
    pusher,      \* liveEventsPusherStarted
    live,        \* published events the live pusher has not pushed yet
    replays,     \* request -> [at, last, rest] of its replay fiber
    listener,    \* subscriber -> "closed", "asking", "listening" or "waiting"
    start,       \* subscriber -> the sequence its subscription was opened at
    from,        \* subscriber -> the sequence its last request asks for
    cursor,      \* subscriber -> the Ref of the resuming client
    received,    \* subscriber -> the events handed to its consumer, in order
    request,     \* history: subscriber -> the replay its listener asked for
    pushed,      \* history: subscriber -> what was pushed since its listener stands
    faults       \* faults so far

engine == <<head, announced>>
shell == <<pusher, live, replays>>
window == <<listener, request, start, from, cursor, pushed, received>>
vars == <<engine, shell, window, faults>>

-----------------------------------------------------------------------------

Elements(seq) == {seq[i] : i \in DOMAIN seq}

\* The sequences from..to, in order.
Span(first, to) == [i \in 1..((to + 1) - first) |-> (first + i) - 1]

\* Mutant: the last page is taken to be full.
PageEndPastLog(after) == after + PageSize

\* The last sequence of the page store.readFrom(after, PageSize).
PageEnd(after) == IF after + PageSize <= head THEN after + PageSize ELSE head

Unused == [at |-> "unused", last |-> 0, rest |-> <<>>]

\* Its listener is registered with the window.
Registered(s) == listener[s] \in {"asking", "listening"}

Fault ==
    /\ faults < MaxFaults
    /\ faults' = faults + 1

Init ==
    /\ head = 0
    /\ announced = 0
    /\ pusher = FALSE
    /\ live = <<>>
    /\ replays = [r \in Requests |-> Unused]
    /\ listener = [s \in Subscribers |-> "closed"]
    /\ request = [s \in Subscribers |-> {}]
    /\ start = [s \in Subscribers |-> 0]
    /\ from = [s \in Subscribers |-> 0]
    /\ cursor = [s \in Subscribers |-> 0]
    /\ pushed = [s \in Subscribers |-> {}]
    /\ received = [s \in Subscribers |-> <<>>]
    /\ faults = 0

-----------------------------------------------------------------------------
(* The engine *)

Commit ==
    /\ head < MaxEvents
    /\ head' = head + 1
    /\ UNCHANGED <<announced, shell, window, faults>>

\* The pusher has subscribed to the engine if it was started at all.
Publish ==
    /\ announced < head
    /\ announced' = announced + 1
    /\ live' = IF pusher THEN Append(live, announced + 1) ELSE live
    /\ UNCHANGED <<head, pusher, replays, window, faults>>

-----------------------------------------------------------------------------
(* The window *)

\* The listener of s is registered, before its request is sent.
Register(s, n) ==
    /\ listener' = [listener EXCEPT ![s] = "asking"]
    /\ from' = [from EXCEPT ![s] = n]
    /\ pushed' = [pushed EXCEPT ![s] = {}]

\* client.events(n), with the sequence n of a snapshot: the minimum of the
\* checkpoints, so anything up to the end of the log.
Open(s) ==
    /\ listener[s] = "closed"
    /\ \E n \in 0..head :
          /\ Register(s, n)
          /\ start' = [start EXCEPT ![s] = n]
          /\ cursor' = [cursor EXCEPT ![s] = n]
    /\ UNCHANGED <<engine, shell, request, received, faults>>

\* The consumer leaves, or the page is reloaded: the listener is removed.
Close(s) ==
    /\ listener[s] # "closed"
    /\ listener' = [listener EXCEPT ![s] = "closed"]
    /\ request' = [request EXCEPT ![s] = {}]
    /\ start' = [start EXCEPT ![s] = 0]
    /\ from' = [from EXCEPT ![s] = 0]
    /\ cursor' = [cursor EXCEPT ![s] = 0]
    /\ pushed' = [pushed EXCEPT ![s] = {}]
    /\ received' = [received EXCEPT ![s] = <<>>]
    /\ UNCHANGED <<engine, shell, faults>>

\* After a failed request the client listens again, from its cursor.
Resume(s) ==
    /\ listener[s] = "waiting"
    /\ Register(s, cursor[s])
    /\ UNCHANGED <<engine, shell, request, start, cursor, received, faults>>

\* The shell answers an events request: it starts the live pusher, once, and
\* forks the replay.
Fork(s, r) ==
    /\ replays[r].at = "unused"
    /\ pusher' = TRUE
    /\ replays' = [replays EXCEPT ![r] = [@ EXCEPT !.at = "reading", !.last = from[s]]]
    /\ UNCHANGED live

Request(s) ==
    /\ listener[s] = "asking"
    /\ \E r \in Requests :
          /\ Fork(s, r)
          /\ request' = [request EXCEPT ![s] = {r}]
    /\ listener' = [listener EXCEPT ![s] = "listening"]
    /\ UNCHANGED <<engine, start, from, cursor, pushed, received, faults>>

\* The request fails, or its answer is late: its replay may run all the same.
RequestFails(s) ==
    /\ Fault
    /\ listener[s] = "asking"
    /\ UNCHANGED shell \/ \E r \in Requests : Fork(s, r)
    /\ listener' = [listener EXCEPT ![s] = "waiting"]
    /\ UNCHANGED <<engine, request, start, from, cursor, pushed, received>>

\* Mutant: an event at the cursor passes again.
IsNotOlder(s, n) == n >= cursor[s]

\* considerEvent of the client of s: is the event above its cursor?
IsNew(s, n) == n > cursor[s]

\* One push: every listener of the window is called.
Push(n) ==
    /\ pushed' = [s \in Subscribers |->
                     IF Registered(s) THEN pushed[s] \cup {n} ELSE pushed[s]]
    /\ cursor' = [s \in Subscribers |->
                     IF Registered(s) /\ IsNew(s, n) THEN n ELSE cursor[s]]
    /\ received' = [s \in Subscribers |->
                       IF Registered(s) /\ IsNew(s, n)
                       THEN Append(received[s], n)
                       ELSE received[s]]

-----------------------------------------------------------------------------
(* The fibers of the shell *)

PushLive ==
    /\ live # <<>>
    /\ Push(Head(live))
    /\ live' = Tail(live)
    /\ UNCHANGED <<engine, pusher, replays, listener, request, start, from, faults>>

\* Mutant: the first page is taken to be all there is.
ReadOnePage(r) ==
    LET last == replays[r].last
        end == PageEnd(last)
    IN  /\ replays[r].at = "reading"
        /\ replays' = [replays EXCEPT
              ![r] = [at |-> "pushing", last |-> end, rest |-> Span(last + 1, end)]]
        /\ UNCHANGED <<engine, pusher, live, window, faults>>

\* One page; readAllFrom returns on the first that is not full.
ReadPage(r) ==
    LET last == replays[r].last
        end == PageEnd(last)
    IN  /\ replays[r].at = "reading"
        /\ replays' = [replays EXCEPT
              ![r] = [at |-> IF end < last + PageSize THEN "pushing" ELSE "reading",
                      last |-> end,
                      rest |-> @.rest \o Span(last + 1, end)]]
        /\ UNCHANGED <<engine, pusher, live, window, faults>>

\* Nobody observes the fiber of a replay: it ends, and its window is not told.
ReplayFails(r) ==
    /\ Fault
    /\ replays[r].at = "reading"
    /\ replays' = [replays EXCEPT ![r] = [@ EXCEPT !.at = "failed", !.rest = <<>>]]
    /\ UNCHANGED <<engine, pusher, live, window>>

PushReplayed(r) ==
    /\ replays[r].at = "pushing"
    /\ replays[r].rest # <<>>
    /\ Push(Head(replays[r].rest))
    /\ replays' = [replays EXCEPT ![r].rest = Tail(@)]
    /\ UNCHANGED <<engine, pusher, live, listener, request, start, from, faults>>

-----------------------------------------------------------------------------

Next ==
    \/ Commit \/ Publish \/ PushLive
    \/ \E s \in Subscribers :
          Open(s) \/ Close(s) \/ Resume(s) \/ Request(s) \/ RequestFails(s)
    \/ \E r \in Requests : ReadPage(r) \/ ReplayFails(r) \/ PushReplayed(r)

Spec == Init /\ [][Next]_vars

-----------------------------------------------------------------------------

\* Every variable has its shape; no cursor is past the end of the log.
TypeOK ==
    /\ head \in 0..MaxEvents
    /\ announced \in 0..head
    /\ pusher \in BOOLEAN
    /\ live \in Seq(1..announced)
    /\ replays \in [Requests -> [at : {"unused", "reading", "pushing", "failed"},
                                 last : 0..head, rest : Seq(1..head)]]
    /\ listener \in [Subscribers -> {"closed", "asking", "listening", "waiting"}]
    /\ request \in [Subscribers -> SUBSET Requests]
    /\ start \in [Subscribers -> 0..head]
    /\ from \in [Subscribers -> 0..head]
    /\ cursor \in [Subscribers -> 0..head]
    /\ pushed \in [Subscribers -> SUBSET (1..head)]
    /\ received \in [Subscribers -> Seq(1..head)]
    /\ faults \in 0..MaxFaults

\* "The client's cursor drops the overlap as duplicates" (encodedBoundary.ts:305):
\* a consumer is handed no event twice, and none after a later one, however
\* many replays run into the channel beside the live events.
HandedOverOnceInOrder ==
    \A s \in Subscribers : \A i, j \in DOMAIN received[s] :
        i < j => received[s][i] < received[s][j]

\* "The replay covers everything committed up to its read, and the live pusher
\* covers everything after" (encodedBoundary.ts:303-305): once the replay a
\* listener asked for has ended, every announced event above the sequence it
\* asked for has been pushed while it stood, or is about to be.
RequestIsCovered ==
    \A s \in Subscribers : \A r \in request[s] :
        listener[s] = "listening" /\ replays[r].at = "pushing" =>
            (from[s] + 1)..announced
                \subseteq pushed[s] \cup Elements(replays[r].rest) \cup Elements(live)

\* "A subscriber misses nothing" (encodedBoundary.ts:302): nothing below the
\* cursor of a standing subscription was kept from its consumer.
SubscriberMissesNothing ==
    \A s \in Subscribers :
        listener[s] = "listening" =>
            (start[s] + 1)..cursor[s] \subseteq Elements(received[s])
=============================================================================
