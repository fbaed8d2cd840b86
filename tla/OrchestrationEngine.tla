------------------------ MODULE OrchestrationEngine ------------------------
(***************************************************************************)
(* The single writer of the event store: orchestration/Layers/             *)
(* OrchestrationEngine.ts over the event store and the command receipts of *)
(* persistence/.  Callers put envelopes on one queue; one worker fiber     *)
(* takes them in order, commits, updates the in-memory read model,         *)
(* publishes, and answers.  Storage may fail at every await, a commit may  *)
(* succeed and still report an error, callers may give up and retry, and   *)
(* the process may crash or shut down at any point.                        *)
(*                                                                         *)
(* decide() and projectEvent() are parameters (Accepts, EventsOf, Project) *)
(* so that what is said here holds for every command vocabulary; ReadModel *)
(* gives the ones of the source.                                           *)
(***************************************************************************)
EXTENDS Naturals, Sequences

CONSTANTS
    Commands,       \* command ids; a retry carries the id of the first try
    Batches,        \* batches of events a provider session appends
    EventsOf(_),    \* the events a command decides to, or a batch carries
    Uuid,           \* the id of an event decided here: a fresh UUID each time
    Accepts(_, _),  \* decide(): do the command's invariants hold in a state?
    Project(_, _),  \* projectEvent(): the state after one more event
    EmptyState,     \* createEmptyReadModel()
    Faults,         \* the points at which storage or crypto may fail
    PageSize,       \* EVENT_PAGE_SIZE of reconcileAfterFailure
    MaxCalls,       \* bound: dispatch and appendEvents calls
    MaxFaults,      \* bound: injected failures
    MaxCrashes      \* bound: crashes of the process

\* Where the environment may fail: the receipt lookup, the UUID, the commit
\* (rolled back, or durable but reported as an error), the reconcile read and
\* the insert of a rejection receipt.
FaultPoints == {"lookup", "identity", "commit", "commitAck", "reconcile", "record"}

Work == Commands \cup Batches

\* Commands and batches are different things, the event vocabulary is one of
\* sequences, and one unit of work fits in one page: a command decides to one
\* event and ProviderBridge appends one event per call.
ASSUME WorkAssumption ==
    /\ Commands \cap Batches = {}
    /\ \A w \in Work : EventsOf(w) \in Seq({EventsOf(w)[i] : i \in DOMAIN EventsOf(w)})
    /\ \A b \in Batches : EventsOf(b) # <<>>
    /\ \A w \in Work : Len(EventsOf(w)) <= PageSize

ASSUME BoundsAssumption ==
    /\ Faults \subseteq FaultPoints
    /\ PageSize \in Nat \ {0}
    /\ MaxCalls \in Nat /\ MaxFaults \in Nat /\ MaxCrashes \in Nat

VARIABLES
    log,               \* orchestration_events, by sequence: [work, event]
    receipts,          \* orchestration_command_receipts: command -> receipt
    phase,             \* "down", "running", or "closing" (the scope's finalizer runs)
    commandReadModel,  \* [seq, state]: snapshotSequence and the folded state
    hydrated,          \* the sequence hydrateReadModel reached at boot
    commandQueue,      \* tickets of the envelopes waiting, first in first out
    published,         \* what eventPubSub has published since boot: [seq, entry]
    worker,            \* the worker fiber: [at, ticket, start, outcome, seq]
    calls,             \* every call ever made, by ticket: [work, outcome, seq]
    faults,            \* failures injected so far
    crashes            \* crashes so far

durable == <<log, receipts>>
environment == <<faults, crashes>>
vars == <<log, receipts, phase, commandReadModel, hydrated, commandQueue,
          published, worker, calls, faults, crashes>>

-----------------------------------------------------------------------------
(* Event store and receipts *)

Undecided == [status |-> "none", seq |-> 0]
Rejected == [status |-> "rejected", seq |-> 0]
AcceptedAt(n) == [status |-> "accepted", seq |-> n]

Entries(w) ==
    [i \in 1..Len(EventsOf(w)) |-> [work |-> w, event |-> EventsOf(w)[i]]]

\* The rows readFrom(from, PageSize) returns.
ReadFrom(from) ==
    SubSeq(log, from + 1, IF from + PageSize < Len(log) THEN from + PageSize ELSE Len(log))

\* UNIQUE (event_id): a provider's ids may repeat an id already in the table
\* or in the same batch; the UUID of a decided event never does.
IdsTaken(w) ==
    \E i \in 1..Len(EventsOf(w)) :
        /\ EventsOf(w)[i].id # Uuid
        /\ \/ \E n \in 1..Len(log) : log[n].event.id = EventsOf(w)[i].id
           \/ \E j \in 1..Len(EventsOf(w)) :
                j # i /\ EventsOf(w)[j].id = EventsOf(w)[i].id

\* Mutant: the first event of a unit keeps the sequence before its own.
AssignOneTooLow(entries, last) ==
    [i \in 1..Len(entries) |->
        [seq |-> (last - Len(entries)) + i - 1, entry |-> entries[i]]]

\* The committed form of the entries that end at sequence last.
AssignCommittedSequences(entries, last) ==
    [i \in 1..Len(entries) |->
        [seq |-> (last - Len(entries)) + i, entry |-> entries[i]]]

\* projectEvent over events, one after the other.
FoldEvents(state, events) ==
    LET fold[n \in 0..Len(events)] ==
            IF n = 0 THEN state ELSE Project(fold[n - 1], events[n])
    IN  fold[Len(events)]

\* The state after folding a whole log, from the empty one.
Replay(entries) == FoldEvents(EmptyState, [i \in 1..Len(entries) |-> entries[i].event])

\* projectEvents: fold committed events onto a model; the cursor goes to the last.
ProjectEvents(model, committed) ==
    [seq |-> IF committed = <<>> THEN model.seq ELSE committed[Len(committed)].seq,
     state |-> FoldEvents(model.state,
                          [i \in 1..Len(committed) |-> committed[i].entry.event])]

-----------------------------------------------------------------------------
(* The worker fiber *)

IdleWorker == [at |-> "idle", ticket |-> 0, start |-> 0, outcome |-> "none", seq |-> 0]
EmptyModel == [seq |-> 0, state |-> EmptyState]
CurrentWork == calls[worker.ticket].work

\* Move the worker on, with the result it will answer when it gets there.
Goto(at) == worker' = [worker EXCEPT !.at = at]
Finish(at, outcome, seq) ==
    worker' = [worker EXCEPT !.at = at, !.outcome = outcome, !.seq = seq]

Fault(point) ==
    /\ point \in Faults
    /\ faults < MaxFaults
    /\ faults' = faults + 1
    /\ UNCHANGED crashes

Init ==
    /\ log = <<>>
    /\ receipts = [c \in Commands |-> Undecided]
    /\ phase = "down"
    /\ commandReadModel = EmptyModel
    /\ hydrated = 0
    /\ commandQueue = <<>>
    /\ published = <<>>
    /\ worker = IdleWorker
    /\ calls = <<>>
    /\ faults = 0
    /\ crashes = 0

\* hydrateReadModel folds the whole log before anything can be dispatched.
Boot ==
    /\ phase = "down"
    /\ phase' = "running"
    /\ commandReadModel' = [seq |-> Len(log), state |-> Replay(log)]
    /\ hydrated' = Len(log)
    /\ published' = <<>>
    /\ UNCHANGED <<durable, commandQueue, worker, calls, environment>>

\* dispatch and appendEvents: offer an envelope and await its Deferred.  Once
\* the queue has ended the offer fails and the call with it.
Dispatch(w) ==
    /\ phase \in {"running", "closing"}
    /\ Len(calls) < MaxCalls
    /\ IF phase = "running"
       THEN /\ calls' = Append(calls, [work |-> w, outcome |-> "waiting", seq |-> 0])
            /\ commandQueue' = Append(commandQueue, Len(calls) + 1)
       ELSE /\ calls' = Append(calls, [work |-> w, outcome |-> "shutdown", seq |-> 0])
            /\ UNCHANGED commandQueue
    /\ UNCHANGED <<durable, phase, commandReadModel, hydrated, published, worker, environment>>

\* The caller's fiber is interrupted (its connection went away).  Its envelope
\* stays on the queue, and nothing stops the caller from dispatching again.
Abandon(t) ==
    /\ calls[t].outcome = "waiting"
    /\ calls' = [calls EXCEPT ![t].outcome = "lost"]
    /\ UNCHANGED <<durable, phase, commandReadModel, hydrated, commandQueue, published,
                   worker, environment>>

\* Mutant: the worker stops at Queue.end instead of draining the queue.
TakeOnlyWhileOpen ==
    /\ phase = "running"
    /\ worker.at = "idle"
    /\ commandQueue # <<>>
    /\ commandQueue' = Tail(commandQueue)
    /\ worker' = [IdleWorker EXCEPT !.at = IF calls[Head(commandQueue)].work \in Commands
                                           THEN "lookup" ELSE "commit",
                                    !.ticket = Head(commandQueue),
                                    !.start = commandReadModel.seq]
    /\ UNCHANGED <<durable, phase, commandReadModel, hydrated, published, calls, environment>>

\* processEnvelope starts: remember the cursor the read model stands at.
Take ==
    /\ phase \in {"running", "closing"}
    /\ worker.at = "idle"
    /\ commandQueue # <<>>
    /\ commandQueue' = Tail(commandQueue)
    /\ worker' = [at |-> IF calls[Head(commandQueue)].work \in Commands
                         THEN "lookup" ELSE "commit",
                  ticket |-> Head(commandQueue),
                  start |-> commandReadModel.seq,
                  outcome |-> "none",
                  seq |-> 0]
    /\ UNCHANGED <<durable, phase, commandReadModel, hydrated, published, calls, environment>>

\* Mutant: a replayed id answers with the newest sequence, not the stored one.
LookupAnswersNewest ==
    /\ worker.at = "lookup"
    /\ LET receipt == receipts[CurrentWork]
       IN  CASE receipt.status = "accepted" -> Finish("answer", "accepted", Len(log))
             [] receipt.status = "rejected" -> Finish("failed", "refused", 0)
             [] OTHER -> Goto("decide")
    /\ UNCHANGED <<durable, phase, commandReadModel, hydrated, commandQueue, published,
                   calls, environment>>

\* receipts.replay: an accepted id answers with its stored sequence, a rejected
\* one fails again, an unknown one goes on to be decided.
Lookup ==
    /\ worker.at = "lookup"
    /\ LET receipt == receipts[CurrentWork]
       IN  CASE receipt.status = "accepted" -> Finish("answer", "accepted", receipt.seq)
             [] receipt.status = "rejected" -> Finish("failed", "refused", 0)
             [] OTHER -> Goto("decide")
    /\ UNCHANGED <<durable, phase, commandReadModel, hydrated, commandQueue, published,
                   calls, environment>>

LookupFails ==
    /\ worker.at = "lookup"
    /\ Fault("lookup")
    /\ Finish("failed", "failed", 0)
    /\ UNCHANGED <<durable, phase, commandReadModel, hydrated, commandQueue, published, calls>>

\* decide() over the in-memory read model; no events is an invariant error too.
DecideCommand ==
    /\ worker.at = "decide"
    /\ IF Accepts(commandReadModel.state, CurrentWork) /\ EventsOf(CurrentWork) # <<>>
       THEN Goto("commit")
       ELSE Finish("failed", "rejected", 0)
    /\ UNCHANGED <<durable, phase, commandReadModel, hydrated, commandQueue, published,
                   calls, environment>>

\* nextIdentity reports a failing UUID as an invariant error.
IdentityFails ==
    /\ worker.at = "decide"
    /\ Fault("identity")
    /\ Finish("failed", "rejected", 0)
    /\ UNCHANGED <<durable, phase, commandReadModel, hydrated, commandQueue, published, calls>>

\* Can the inserts of the transaction go through?
CommitConflict(w) ==
    \/ IdsTaken(w)
    \/ w \in Commands /\ receipts[w] # Undecided

\* Mutants: no receipt, or one that stores a sequence too high.
CommitWithoutReceipt(w) ==
    /\ log' = log \o Entries(w)
    /\ UNCHANGED receipts
CommitReceiptTooHigh(w) ==
    /\ log' = log \o Entries(w)
    /\ receipts' = IF w \in Commands
                   THEN [receipts EXCEPT ![w] = AcceptedAt(Len(log') + 1)]
                   ELSE receipts

\* The durable effect of the transaction: events, and the command's receipt.
CommitRows(w) ==
    /\ log' = log \o Entries(w)
    /\ receipts' = IF w \in Commands
                   THEN [receipts EXCEPT ![w] = AcceptedAt(Len(log'))]
                   ELSE receipts

\* Mutant: the result is the sequence before the append.
CommitReportsOldSequence ==
    /\ worker.at = "commit"
    /\ ~CommitConflict(CurrentWork)
    /\ CommitRows(CurrentWork)
    /\ Finish("adopt", "accepted", Len(log))
    /\ UNCHANGED <<phase, commandReadModel, hydrated, commandQueue, published, calls,
                   environment>>

\* commitAccepted and commitProviderEvents.
Commit ==
    /\ worker.at = "commit"
    /\ ~CommitConflict(CurrentWork)
    /\ CommitRows(CurrentWork)
    /\ Finish("adopt", "accepted", Len(log'))
    /\ UNCHANGED <<phase, commandReadModel, hydrated, commandQueue, published, calls,
                   environment>>

\* The transaction is rolled back: a constraint, or a failure of storage.
CommitRollsBack ==
    /\ worker.at = "commit"
    /\ \/ CommitConflict(CurrentWork) /\ UNCHANGED environment
       \/ Fault("commit")
    /\ Finish("failed", "failed", 0)
    /\ UNCHANGED <<durable, phase, commandReadModel, hydrated, commandQueue, published, calls>>

\* Mutant: the receipt is outside the transaction of the events.
CommitAckLostBeforeReceipt ==
    /\ worker.at = "commit"
    /\ ~CommitConflict(CurrentWork)
    /\ Fault("commitAck")
    /\ CommitWithoutReceipt(CurrentWork)
    /\ Finish("failed", "failed", 0)
    /\ UNCHANGED <<phase, commandReadModel, hydrated, commandQueue, published, calls>>

\* COMMIT reached the disk and reported an error all the same.
CommitAckLost ==
    /\ worker.at = "commit"
    /\ ~CommitConflict(CurrentWork)
    /\ Fault("commitAck")
    /\ CommitRows(CurrentWork)
    /\ Finish("failed", "failed", 0)
    /\ UNCHANGED <<phase, commandReadModel, hydrated, commandQueue, published, calls>>

\* The read model becomes the one projected in the transaction, and the events
\* go out in order.  PubSub.publish on an unbounded PubSub never suspends.
Adopt ==
    /\ worker.at = "adopt"
    /\ LET committed == AssignCommittedSequences(Entries(CurrentWork), worker.seq)
       IN  /\ commandReadModel' = ProjectEvents(commandReadModel, committed)
           /\ published' = published \o committed
    /\ Goto("answer")
    /\ UNCHANGED <<durable, phase, hydrated, commandQueue, calls, environment>>

\* Where handleFailureEffects goes after reconciling: an invariant error is
\* recorded, anything else is answered.
AfterReconcile == IF worker.outcome = "rejected" THEN "record" ELSE "answer"

\* Mutants: publish without adopting, or start over from the boot sequence.
ReconcileWithoutAdopting ==
    /\ worker.at = "failed"
    /\ LET page == ReadFrom(worker.start)
       IN  published' = published \o AssignCommittedSequences(page, worker.start + Len(page))
    /\ Goto(AfterReconcile)
    /\ UNCHANGED <<durable, phase, commandReadModel, hydrated, commandQueue, calls, environment>>
ReconcileFromBoot ==
    /\ worker.at = "failed"
    /\ LET page == ReadFrom(hydrated)
           persisted == AssignCommittedSequences(page, hydrated + Len(page))
       IN  /\ commandReadModel' = ProjectEvents(commandReadModel, persisted)
           /\ published' = published \o persisted
    /\ Goto(AfterReconcile)
    /\ UNCHANGED <<durable, phase, hydrated, commandQueue, calls, environment>>

\* reconcileAfterFailure: adopt and publish what is durable past the cursor the
\* envelope started from.  A refusal of a known id skips it.
Reconcile ==
    /\ worker.at = "failed"
    /\ IF worker.outcome = "refused"
       THEN UNCHANGED <<commandReadModel, published>>
       ELSE LET page == ReadFrom(worker.start)
                persisted == AssignCommittedSequences(page, worker.start + Len(page))
            IN  /\ commandReadModel' = ProjectEvents(commandReadModel, persisted)
                /\ published' = published \o persisted
    /\ Goto(AfterReconcile)
    /\ UNCHANGED <<durable, phase, hydrated, commandQueue, calls, environment>>

\* Effect.ignore: the failure of the reconcile itself is dropped.
ReconcileFails ==
    /\ worker.at = "failed"
    /\ worker.outcome # "refused"
    /\ Fault("reconcile")
    /\ Goto(AfterReconcile)
    /\ UNCHANGED <<durable, phase, commandReadModel, hydrated, commandQueue, published, calls>>

\* recordRejection: the command id is rejected for good.
RecordRejection ==
    /\ worker.at = "record"
    /\ IF receipts[CurrentWork] = Undecided
       THEN receipts' = [receipts EXCEPT ![CurrentWork] = Rejected]
       ELSE UNCHANGED receipts
    /\ Goto("answer")
    /\ UNCHANGED <<log, phase, commandReadModel, hydrated, commandQueue, published, calls,
                   environment>>

\* Effect.ignore again: no receipt, so the next try is decided afresh.
RecordFails ==
    /\ worker.at = "record"
    /\ Fault("record")
    /\ Goto("answer")
    /\ UNCHANGED <<durable, phase, commandReadModel, hydrated, commandQueue, published, calls>>

\* Mutant: only a success completes the Deferred.
AnswerOnlySuccess ==
    /\ worker.at = "answer"
    /\ calls' = IF calls[worker.ticket].outcome = "waiting" /\ worker.outcome = "accepted"
                THEN [calls EXCEPT ![worker.ticket] =
                         [@ EXCEPT !.outcome = worker.outcome, !.seq = worker.seq]]
                ELSE calls
    /\ worker' = IdleWorker
    /\ UNCHANGED <<durable, phase, commandReadModel, hydrated, commandQueue, published,
                   environment>>

\* Deferred.done: settles the call if anyone still waits for it.
Answer ==
    /\ worker.at = "answer"
    /\ calls' = IF calls[worker.ticket].outcome = "waiting"
                THEN [calls EXCEPT ![worker.ticket] =
                         [@ EXCEPT !.outcome = worker.outcome, !.seq = worker.seq]]
                ELSE calls
    /\ worker' = IdleWorker
    /\ UNCHANGED <<durable, phase, commandReadModel, hydrated, commandQueue, published,
                   environment>>

\* The layer's scope closes: Queue.end refuses new envelopes.
BeginShutdown ==
    /\ phase = "running"
    /\ phase' = "closing"
    /\ UNCHANGED <<durable, commandReadModel, hydrated, commandQueue, published, worker,
                   calls, environment>>

\* The worker has drained the queue and is joined; the PubSub shuts down.
FinishShutdown ==
    /\ phase = "closing"
    /\ worker.at = "idle"
    /\ commandQueue = <<>>
    /\ phase' = "down"
    /\ UNCHANGED <<durable, commandReadModel, hydrated, commandQueue, published, worker,
                   calls, environment>>

\* The process dies.  Only the database survives.
Crash ==
    /\ phase # "down"
    /\ crashes < MaxCrashes
    /\ crashes' = crashes + 1
    /\ phase' = "down"
    /\ commandReadModel' = EmptyModel
    /\ commandQueue' = <<>>
    /\ published' = <<>>
    /\ worker' = IdleWorker
    /\ calls' = [t \in DOMAIN calls |->
                    IF calls[t].outcome = "waiting"
                    THEN [calls[t] EXCEPT !.outcome = "lost"] ELSE calls[t]]
    /\ hydrated' = 0
    /\ UNCHANGED <<durable, faults>>

WorkerStep ==
    \/ Take
    \/ Lookup \/ LookupFails
    \/ DecideCommand \/ IdentityFails
    \/ Commit \/ CommitRollsBack \/ CommitAckLost
    \/ Adopt
    \/ Reconcile \/ ReconcileFails
    \/ RecordRejection \/ RecordFails
    \/ Answer

Next ==
    \/ Boot
    \/ \E w \in Work : Dispatch(w)
    \/ \E t \in DOMAIN calls : Abandon(t)
    \/ WorkerStep
    \/ BeginShutdown \/ FinishShutdown
    \/ Crash

Spec == Init /\ [][Next]_vars

\* The worker fiber is runnable whenever it is not waiting for the queue, and a
\* scope that closes runs its finalizer to the end.
FairSpec == Spec /\ WF_vars(WorkerStep) /\ WF_vars(FinishShutdown)

-----------------------------------------------------------------------------
(* Properties *)

CallOutcomes ==
    {"waiting", "accepted", "refused", "rejected", "failed", "lost", "shutdown"}
WorkerPoints ==
    {"idle", "lookup", "decide", "commit", "adopt", "failed", "record", "answer"}
Call == [work : Work, outcome : CallOutcomes, seq : Nat]
Receipt(last) == {Undecided, Rejected} \cup {AcceptedAt(n) : n \in 1..last}
WorkerState == [at : WorkerPoints, ticket : 0..Len(calls), start : 0..Len(log),
                outcome : CallOutcomes \cup {"none"}, seq : 0..Len(log)]
Entry == UNION {{Entries(w)[i] : i \in 1..Len(EventsOf(w))} : w \in Work}

\* Every variable stays in its domain: receipts name sequences that exist, the
\* read model never runs ahead of the log, and the queue and the worker only
\* hold calls that were made.
TypeOK ==
    /\ log \in Seq(Entry)
    /\ receipts \in [Commands -> Receipt(Len(log))]
    /\ phase \in {"down", "running", "closing"}
    /\ commandReadModel.seq \in 0..Len(log)
    /\ hydrated \in 0..Len(log)
    /\ calls \in Seq(Call)
    /\ commandQueue \in Seq(1..Len(calls))
    /\ worker \in WorkerState
    /\ worker.at # "idle" => worker.ticket # 0
    /\ published \in Seq([seq : 1..Len(log), entry : Entry])
    /\ faults \in 0..MaxFaults
    /\ crashes \in 0..MaxCrashes

\* A command enters the log once, however often it is retried and whatever
\* failed or crashed in between: it has an accepted receipt exactly when its
\* events are in the log, they are all there, contiguous, and end at the
\* sequence the receipt stores.
ExactlyOnce ==
    \A c \in Commands :
        LET receipt == receipts[c]
            size == Len(EventsOf(c))
        IN  /\ receipt.status = "accepted" =>
                 /\ size <= receipt.seq /\ receipt.seq <= Len(log)
                 /\ SubSeq(log, (receipt.seq - size) + 1, receipt.seq) = Entries(c)
            /\ \A n \in 1..Len(log) :
                 log[n].work = c =>
                    /\ receipt.status = "accepted"
                    /\ receipt.seq - size < n /\ n <= receipt.seq

\* What a caller was told is what the database says, now and after any crash:
\* an accepted call names the sequence where its last event lies, a refused
\* one was rejected before.
AnswersMatchStore ==
    \A t \in DOMAIN calls :
        LET call == calls[t]
        IN  /\ call.outcome = "accepted" =>
                 /\ call.seq \in 1..Len(log)
                 /\ log[call.seq].work = call.work
            /\ call.outcome = "refused" => receipts[call.work] = Rejected

\* The states in which the read model has caught up with its own commits.
Settled == phase # "down" /\ worker.at \notin {"adopt", "failed"}

\* Unless a reconcile read was lost, every decision is taken on the whole log:
\* whenever the worker is not between a commit and its adoption, the read
\* model is the fold of everything durable, crash recovery included.
ReadModelIsReplay ==
    "reconcile" \notin Faults /\ Settled =>
        commandReadModel = [seq |-> Len(log), state |-> Replay(log)]

\* Subscribers see the log since boot in order, without a gap, a repeat or an
\* event that is not durable; and they have all of it once the worker settles.
PublishedIsLog ==
    phase # "down" /\ "reconcile" \notin Faults =>
        /\ hydrated + Len(published) <= Len(log)
        /\ \A i \in 1..Len(published) :
              published[i] = [seq |-> hydrated + i, entry |-> log[hydrated + i]]
        /\ Settled => hydrated + Len(published) = Len(log)

\* Even after a lost reconcile nothing is published that is not durable, under
\* another sequence than its own, twice, or out of order.
PublishedIsDurable ==
    phase # "down" =>
        \A i \in 1..Len(published) :
            /\ published[i].seq \in (hydrated + 1)..Len(log)
            /\ published[i].entry = log[published[i].seq]
            /\ i > 1 => published[i - 1].seq < published[i].seq

\* The same command, asked again later, never gets a different definite answer:
\* two accepted calls of a command report the same sequence, and a command that
\* was once accepted is never refused.
AnswersAgree ==
    \A t, u \in DOMAIN calls :
        calls[t].work = calls[u].work /\ calls[t].work \in Commands
        /\ calls[t].outcome = "accepted" =>
            /\ calls[u].outcome = "accepted" => calls[u].seq = calls[t].seq
            /\ calls[u].outcome # "refused"

\* The envelopes held: the one in the worker's hand, then those on the queue.
Pending ==
    IF worker.at = "idle" THEN commandQueue ELSE <<worker.ticket>> \o commandQueue

\* Every call its caller still waits for has its envelope in the hands of a
\* process that is up, and envelopes are held once each, in the order they were
\* offered: no failure path, retry, shutdown or crash drops one unanswered,
\* handles one twice or lets one overtake another (processEnvelope always ends
\* in Deferred.done, and the queue ends only when it is drained).
NoCallForgotten ==
    /\ \A i, j \in DOMAIN Pending : i < j => Pending[i] < Pending[j]
    /\ \A t \in DOMAIN calls : calls[t].outcome = "waiting" =>
          phase # "down" /\ \E i \in DOMAIN Pending : Pending[i] = t

\* The engine implements the log of exactly-once commands it promises.
Abstract == INSTANCE CommandLog WITH history <- log, verdict <- receipts
ImplementsCommandLog == Abstract!Spec

\* No call waits for ever: it is answered, or its caller or the process is gone.
CallsSettle ==
    \A t \in 1..MaxCalls :
        t \in DOMAIN calls /\ calls[t].outcome = "waiting"
            ~> t \in DOMAIN calls /\ calls[t].outcome # "waiting"

\* A shutdown drains the queue and ends; no queued envelope holds it up.
ShutdownEnds == phase = "closing" ~> phase = "down"
=============================================================================
