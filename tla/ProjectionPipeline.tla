------------------------- MODULE ProjectionPipeline -------------------------
(***************************************************************************)
(* The read tables: orchestration/Layers/ProjectionPipeline.ts runs one    *)
(* supervised fiber per projector, each with a durable checkpoint          *)
(* (persistence/Layers/ProjectionState.ts), which catches up from the      *)
(* event store and then follows the engine's event stream.  Beside them    *)
(* history/importer.ts writes the session and message tables itself and    *)
(* moves their checkpoints.                                                *)
(*                                                                         *)
(* Events are their sequences, 1..head.  What an event does to a table is  *)
(* left out; which events were applied, and in what order, is kept.        *)
(***************************************************************************)
EXTENDS Naturals, Sequences

CONSTANTS
    Projectors,     \* the projectors of bootstrap.ts, by name
    Imported,       \* those whose tables the history importer writes
    PageSize,       \* EVENT_PAGE_SIZE
    MaxEvents,      \* bound: events in the store
    MaxFailures,    \* bound: failing reads and transactions
    MaxRebuilds,    \* bound: calls of rebuild
    MaxImports      \* bound: history imports

ASSUME PipelineAssumption ==
    /\ Imported \subseteq Projectors
    /\ PageSize \in Nat \ {0}
    /\ MaxEvents \in Nat /\ MaxFailures \in Nat
    /\ MaxRebuilds \in Nat /\ MaxImports \in Nat

VARIABLES
    head,        \* the last sequence in orchestration_events
    announced,   \* the last sequence the engine adopted and published
    abandoned,   \* the end of the log when a reconciliation was last lost
    withheld,    \* the events the engine passed over and never announces
    process,     \* "down", "up", or "closing": up, but the stream has ended
    checkpoint,  \* projection_state: projector -> last_applied_sequence
    applied,     \* projector -> the events applied to its tables, in order
    fiber,       \* projector -> [at, cursor, page, more, queue]
    health,      \* projector -> what health() answers
    rebuilding,  \* projector -> how far a rebuild has come
    importer,    \* [at, before, after, last] of importSessionFile
    imported,    \* the sequences imports that returned have promised
    spent        \* failures, rebuilds and imports so far

durable == <<head, checkpoint, applied>>
lost == <<abandoned, withheld>>
importing == <<importer, imported>>
vars == <<head, announced, abandoned, withheld, process, checkpoint, applied, fiber, health,
          rebuilding, importer, imported, spent>>

-----------------------------------------------------------------------------

\* The sequences from..to, in order.
Span(from, to) == [i \in 1..((to + 1) - from) |-> (from + i) - 1]
Elements(seq) == {seq[i] : i \in DOMAIN seq}

Stopped == [at |-> "off", cursor |-> 0, page |-> <<>>, more |-> "no", queue |-> <<>>]
Starting == [Stopped EXCEPT !.at = "start"]
NoImport == [at |-> "idle", before |-> 0, after |-> 0, last |-> 0]

Spend(what, bound) ==
    /\ spent[what] < bound
    /\ spent' = [spent EXCEPT ![what] = @ + 1]

Init ==
    /\ head = 0
    /\ announced = 0
    /\ abandoned = 0
    /\ withheld = {}
    /\ process = "down"
    /\ checkpoint = [p \in Projectors |-> 0]
    /\ applied = [p \in Projectors |-> <<>>]
    /\ fiber = [p \in Projectors |-> Stopped]
    /\ health = [p \in Projectors |-> "unknown"]
    /\ rebuilding = [p \in Projectors |-> "no"]
    /\ importer = NoImport
    /\ imported = {}
    /\ spent = [what \in {"failures", "rebuilds", "imports"} |-> 0]

-----------------------------------------------------------------------------
(* The process and the engine, as OrchestrationEngine has them *)

\* The engine hydrates from the whole log, then every projector is started.
Boot ==
    /\ process = "down"
    /\ process' = "up"
    /\ announced' = head
    /\ fiber' = [p \in Projectors |-> Starting]
    /\ health' = [p \in Projectors |-> "healthy"]
    /\ UNCHANGED <<durable, lost, rebuilding, importing, spent>>

\* The transaction of the engine: the event is durable, not yet published.
Commit ==
    /\ process = "up"
    /\ head < MaxEvents
    /\ head' = head + 1
    /\ UNCHANGED <<announced, lost, process, checkpoint, applied, fiber, health, rebuilding,
                   importing, spent>>

\* A fiber holds a subscription from "start" to the end of runProjector.
Subscribed(p) == fiber[p].at \in {"resume", "catchUp1", "catchUp2", "live"}

\* The engine adopts the log up to e and publishes e: every subscription gets it
\* into its own queue.  Other events of the same commit or page follow.
Announce(e) ==
    /\ announced' = e
    /\ fiber' = [p \in Projectors |->
                    IF Subscribed(p) THEN [fiber[p] EXCEPT !.queue = Append(@, e)]
                                     ELSE fiber[p]]
    /\ UNCHANGED <<durable, abandoned, process, health, rebuilding, importing, spent>>

\* publishCommitted, or reconcileAfterFailure: the next event of the log
\* (OrchestrationEngine!PublishedIsLog).
Publish ==
    /\ process = "up"
    /\ announced < head
    /\ Announce(announced + 1)
    /\ UNCHANGED withheld

\* The answer of a commit and the reconciliation after it are both lost, or a
\* page ends before the log does: what is not announced stays so until a later
\* command reconciles or commits.
LoseReconcile ==
    /\ process = "up"
    /\ announced < head /\ abandoned < head
    /\ Spend("failures", MaxFailures)
    /\ abandoned' = head
    /\ UNCHANGED <<durable, announced, withheld, process, fiber, health, rebuilding, importing>>

\* A later commit succeeds: it replaces the read model and announces its own
\* events only, past those that were left.
PassOver ==
    /\ process = "up"
    /\ announced < abandoned /\ abandoned < head
    /\ Announce(abandoned + 1)
    /\ withheld' = withheld \cup (announced + 1)..abandoned

\* The engine's PubSub shuts down while the projectors still run.
EndStream ==
    /\ process = "up"
    /\ process' = "closing"
    /\ UNCHANGED <<durable, announced, lost, fiber, health, rebuilding, importing, spent>>

\* The process ends, by a crash at any time or after its stream: only the
\* database survives.
Exit ==
    /\ process # "down"
    /\ process' = "down"
    /\ announced' = 0
    /\ fiber' = [p \in Projectors |-> Stopped]
    /\ health' = [p \in Projectors |-> "unknown"]
    /\ rebuilding' = [p \in Projectors |-> "no"]
    /\ importer' = NoImport
    /\ UNCHANGED <<durable, lost, imported, spent>>

-----------------------------------------------------------------------------
(* runProjector under superviseProjector *)

\* The subscription is made before anything is read.
Subscribe(p) ==
    /\ fiber[p].at = "start"
    /\ fiber' = [fiber EXCEPT ![p].at = "resume", ![p].queue = <<>>]
    /\ UNCHANGED <<durable, announced, lost, process, health, rebuilding, importing, spent>>

\* projectionState.lastApplied, and on to the first catchUp.
ReadCheckpoint(p) ==
    /\ fiber[p].at = "resume"
    /\ fiber' = [fiber EXCEPT ![p].at = "catchUp1",
                              ![p].cursor = checkpoint[p],
                              ![p].page = <<>>,
                              ![p].more = "yes"]
    /\ UNCHANGED <<durable, announced, lost, process, health, rebuilding, importing, spent>>

CatchingUp(p) == fiber[p].at \in {"catchUp1", "catchUp2"}

\* The page readFrom(from, PageSize) returns.
Page(from) == Span(from + 1, IF from + PageSize < head THEN from + PageSize ELSE head)

\* Mutant: catchUp stops after its first page.
ReadOnePage(p) ==
    /\ CatchingUp(p) /\ fiber[p].page = <<>> /\ fiber[p].more = "yes"
    /\ fiber' = [fiber EXCEPT ![p].page = Page(fiber[p].cursor), ![p].more = "no"]
    /\ UNCHANGED <<durable, announced, lost, process, health, rebuilding, importing, spent>>

\* catchUp reads the next page; a short one is the last.
ReadPage(p) ==
    /\ CatchingUp(p) /\ fiber[p].page = <<>> /\ fiber[p].more = "yes"
    /\ LET page == Page(fiber[p].cursor)
       IN  fiber' = [fiber EXCEPT ![p].page = page,
                                 ![p].more = IF Len(page) = PageSize THEN "yes" ELSE "no"]
    /\ UNCHANGED <<durable, announced, lost, process, health, rebuilding, importing, spent>>

\* Mutants: no cursor guard, or a checkpoint one too high.
ApplyAlways(p, e) ==
    /\ applied' = [applied EXCEPT ![p] = Append(@, e)]
    /\ checkpoint' = [checkpoint EXCEPT ![p] = e]
CheckpointTooHigh(p, e) ==
    IF e <= fiber[p].cursor THEN UNCHANGED <<checkpoint, applied>>
    ELSE /\ applied' = [applied EXCEPT ![p] = Append(@, e)]
         /\ checkpoint' = [checkpoint EXCEPT ![p] = e + 1]

\* applyIfNewer: the table and its checkpoint move in one transaction.
ApplyIfNewer(p, e) ==
    IF e <= fiber[p].cursor THEN UNCHANGED <<checkpoint, applied>>
    ELSE /\ applied' = [applied EXCEPT ![p] = Append(@, e)]
         /\ checkpoint' = [checkpoint EXCEPT ![p] = e]

\* Where the in-memory cursor stands after event e.
Advanced(p, e) == IF e <= fiber[p].cursor THEN fiber[p].cursor ELSE e

ApplyPage(p) ==
    /\ CatchingUp(p) /\ fiber[p].page # <<>>
    /\ ApplyIfNewer(p, Head(fiber[p].page))
    /\ fiber' = [fiber EXCEPT ![p].cursor = Advanced(p, Head(fiber[p].page)),
                              ![p].page = Tail(@)]
    /\ UNCHANGED <<head, announced, lost, process, health, rebuilding, importing, spent>>

\* Mutants: subscribing only now, or leaving the health as it was.
CaughtUpThenSubscribe(p) ==
    /\ CatchingUp(p) /\ fiber[p].page = <<>> /\ fiber[p].more = "no"
    /\ IF fiber[p].at = "catchUp1"
       THEN /\ fiber' = [fiber EXCEPT ![p].at = "catchUp2", ![p].more = "yes"]
            /\ UNCHANGED health
       ELSE /\ fiber' = [fiber EXCEPT ![p].at = "live", ![p].queue = <<>>]
            /\ health' = [health EXCEPT ![p] = "healthy"]
    /\ UNCHANGED <<durable, announced, lost, process, rebuilding, importing, spent>>
CaughtUpQuietly(p) ==
    /\ CatchingUp(p) /\ fiber[p].page = <<>> /\ fiber[p].more = "no"
    /\ fiber' = [fiber EXCEPT ![p].at = IF @ = "catchUp1" THEN "catchUp2" ELSE "live",
                              ![p].more = IF fiber[p].at = "catchUp1" THEN "yes" ELSE "no"]
    /\ UNCHANGED <<durable, announced, lost, process, health, rebuilding, importing, spent>>

\* catchUp returns: the first time it runs again, then the fiber goes live.
CaughtUp(p) ==
    /\ CatchingUp(p) /\ fiber[p].page = <<>> /\ fiber[p].more = "no"
    /\ IF fiber[p].at = "catchUp1"
       THEN /\ fiber' = [fiber EXCEPT ![p].at = "catchUp2", ![p].more = "yes"]
            /\ UNCHANGED health
       ELSE /\ fiber' = [fiber EXCEPT ![p].at = "live"]
            /\ health' = [health EXCEPT ![p] = "healthy"]
    /\ UNCHANGED <<durable, announced, lost, process, rebuilding, importing, spent>>

\* processLive takes the next event.
ApplyLive(p) ==
    /\ fiber[p].at = "live" /\ fiber[p].queue # <<>>
    /\ ApplyIfNewer(p, Head(fiber[p].queue))
    /\ fiber' = [fiber EXCEPT ![p].cursor = Advanced(p, Head(fiber[p].queue)),
                              ![p].queue = Tail(@)]
    /\ UNCHANGED <<head, announced, lost, process, health, rebuilding, importing, spent>>

\* A read or an apply fails: the scope closes, the subscription and what it
\* held go, and the fiber sleeps before it runs again.
Fail(p) ==
    /\ \/ fiber[p].at = "resume"
       \/ CatchingUp(p) /\ (fiber[p].more = "yes" \/ fiber[p].page # <<>>)
       \/ /\ fiber[p].at = "live" /\ fiber[p].queue # <<>>
          /\ Head(fiber[p].queue) > fiber[p].cursor
    /\ Spend("failures", MaxFailures)
    /\ fiber' = [fiber EXCEPT ![p] = [Stopped EXCEPT !.at = "backoff", !.cursor = fiber[p].cursor]]
    /\ health' = [health EXCEPT ![p] = "degraded"]
    /\ UNCHANGED <<durable, announced, lost, process, rebuilding, importing>>

Restart(p) ==
    /\ fiber[p].at = "backoff"
    /\ fiber' = [fiber EXCEPT ![p].at = "start"]
    /\ UNCHANGED <<durable, announced, lost, process, health, rebuilding, importing, spent>>

\* Mutant: a fiber that returns says nothing.
StreamEndsQuietly(p) ==
    /\ process = "closing"
    /\ fiber[p].at = "live" /\ fiber[p].queue = <<>>
    /\ fiber' = [fiber EXCEPT ![p].at = "ended"]
    /\ UNCHANGED <<durable, announced, lost, process, health, rebuilding, importing, spent>>

\* The live queue has ended and is drained: superviseProjector returns.
StreamEnds(p) ==
    /\ process = "closing"
    /\ fiber[p].at = "live" /\ fiber[p].queue = <<>>
    /\ fiber' = [fiber EXCEPT ![p].at = "ended"]
    /\ health' = [health EXCEPT ![p] = "degraded"]
    /\ UNCHANGED <<durable, announced, lost, process, rebuilding, importing, spent>>

FiberStep(p) ==
    \/ Subscribe(p) \/ ReadCheckpoint(p)
    \/ ReadPage(p) \/ ApplyPage(p) \/ CaughtUp(p)
    \/ ApplyLive(p) \/ Restart(p) \/ StreamEnds(p)

-----------------------------------------------------------------------------
(* rebuild, one call at a time for a projector *)

\* stopProjector interrupts the fiber; an open transaction rolls back.
StopProjector(p) ==
    /\ process # "down"
    /\ rebuilding[p] \in {"no", "failed"}
    /\ Spend("rebuilds", MaxRebuilds)
    /\ fiber' = [fiber EXCEPT ![p] = Stopped]
    /\ rebuilding' = [rebuilding EXCEPT ![p] = "stopped"]
    /\ UNCHANGED <<durable, announced, lost, process, health, importing>>

ResetProjector(p) ==
    /\ rebuilding[p] = "stopped"
    /\ applied' = [applied EXCEPT ![p] = <<>>]
    /\ checkpoint' = [checkpoint EXCEPT ![p] = 0]
    /\ rebuilding' = [rebuilding EXCEPT ![p] = "reset"]
    /\ UNCHANGED <<head, announced, lost, process, fiber, health, importing, spent>>

\* rebuild fails with the transaction; nothing starts the projector again.
ResetFails(p) ==
    /\ rebuilding[p] = "stopped"
    /\ rebuilding' = [rebuilding EXCEPT ![p] = "failed"]
    /\ UNCHANGED <<durable, announced, lost, process, fiber, health, importing, spent>>

StartProjector(p) ==
    /\ rebuilding[p] = "reset"
    /\ fiber' = [fiber EXCEPT ![p] = Starting]
    /\ health' = [health EXCEPT ![p] = "healthy"]
    /\ rebuilding' = [rebuilding EXCEPT ![p] = "no"]
    /\ UNCHANGED <<durable, announced, lost, process, importing, spent>>

RebuildStep(p) == ResetProjector(p) \/ StartProjector(p)

-----------------------------------------------------------------------------
(* importSessionFile *)

pipeline == <<announced, lost, process, fiber, health, rebuilding>>

\* before = engine.latestSequence; the commands of the file follow.
ImportBegin ==
    /\ process = "up"
    /\ importer.at = "idle"
    /\ Spend("imports", MaxImports)
    /\ importer' = [NoImport EXCEPT !.at = "dispatch", !.before = announced]
    /\ UNCHANGED <<durable, pipeline, imported>>

\* after = engine.latestSequence.  Nothing to do when the log did not move.
ImportMeasure ==
    /\ importer.at = "dispatch"
    /\ importer' = IF announced <= importer.before THEN NoImport
                   ELSE [importer EXCEPT !.at = "read", !.after = announced,
                                         !.last = importer.before]
    /\ UNCHANGED <<durable, pipeline, imported, spent>>

\* Mutant: one page is taken for the whole range.
ImportReadOnePage ==
    /\ importer.at = "read"
    /\ LET page == Page(importer.last)
       IN  importer' = [importer EXCEPT !.last = @ + Len(page), !.at = "apply"]
    /\ UNCHANGED <<durable, pipeline, imported, spent>>

\* readAllFrom: every page from before to the end of the log, which may have
\* moved past after by now.
ImportRead ==
    /\ importer.at = "read"
    /\ LET page == Page(importer.last)
       IN  importer' = [importer EXCEPT !.last = @ + Len(page),
                                        !.at = IF Len(page) < PageSize THEN "apply" ELSE @]
    /\ UNCHANGED <<durable, pipeline, imported, spent>>

\* One transaction: all events read go into both tables, and both checkpoints
\* are set to after, wherever the projectors themselves are.
ImportApply ==
    /\ importer.at = "apply"
    /\ applied' = [p \in Projectors |->
                      IF p \in Imported
                      THEN applied[p] \o Span(importer.before + 1, importer.last)
                      ELSE applied[p]]
    /\ checkpoint' = [p \in Projectors |->
                         IF p \in Imported THEN importer.after ELSE checkpoint[p]]
    /\ imported' = imported \cup (importer.before + 1)..importer.after
    /\ importer' = NoImport
    /\ UNCHANGED <<head, pipeline, spent>>

ImportFails ==
    /\ importer.at # "idle"
    /\ Spend("failures", MaxFailures)
    /\ importer' = NoImport
    /\ UNCHANGED <<durable, pipeline, imported>>

Import == ImportBegin \/ ImportMeasure \/ ImportRead \/ ImportApply \/ ImportFails

Next ==
    \/ Boot \/ Commit \/ Publish \/ LoseReconcile \/ PassOver \/ EndStream \/ Exit
    \/ \E p \in Projectors :
          \/ FiberStep(p) \/ Fail(p)
          \/ StopProjector(p) \/ RebuildStep(p) \/ ResetFails(p)
    \/ Import

Spec == Init /\ [][Next]_vars

\* The worker of the engine settles the commit in hand; every fiber is runnable
\* when it has something to do, and sleeps end.  Nothing makes the engine come
\* back to events whose reconciliation was lost.
FairSpec ==
    /\ Spec
    /\ WF_vars(abandoned < head /\ (Publish \/ PassOver))
    /\ \A p \in Projectors : WF_vars(FiberStep(p)) /\ WF_vars(RebuildStep(p))

-----------------------------------------------------------------------------
(* Properties *)

\* Every variable stays in its domain; nothing runs ahead of the event store.
TypeOK ==
    /\ head \in 0..MaxEvents
    /\ announced \in 0..head /\ abandoned \in 0..head /\ withheld \subseteq 1..head
    /\ process \in {"down", "up", "closing"}
    /\ checkpoint \in [Projectors -> 0..head]
    /\ \A p \in Projectors :
          /\ applied[p] \in Seq(1..head)
          /\ fiber[p].at \in {"off", "start", "resume", "catchUp1", "catchUp2", "live",
                              "backoff", "ended"}
          /\ fiber[p].cursor \in 0..head
          /\ fiber[p].page \in Seq(1..head) /\ fiber[p].queue \in Seq(1..announced)
          /\ fiber[p].more \in {"yes", "no"}
    /\ health \in [Projectors -> {"unknown", "healthy", "degraded"}]
    /\ rebuilding \in [Projectors -> {"no", "stopped", "reset", "failed"}]
    /\ importer.at \in {"idle", "dispatch", "read", "apply"}
    /\ importer.before \in Nat /\ importer.after \in Nat /\ importer.last \in Nat
    /\ imported \subseteq 1..head

\* No import has written the tables of p.
Undisturbed(p) == p \notin Imported \/ imported = {}

\* A table with the events of the log up to c, each applied once and in order,
\* but for events the engine passed over.
HoldsLog(table, c) ==
    /\ \A i, j \in DOMAIN table : i < j => table[i] < table[j]
    /\ Elements(table) \subseteq 1..c
    /\ 1..c \ Elements(table) \subseteq withheld
    /\ IF table = <<>> THEN c = 0 ELSE table[Len(table)] = c

\* As long as only its projector writes it, a table has the log up to its
\* checkpoint, each event applied once and in order: whatever was read twice (two
\* catch-ups and the live queue overlap), and whenever a fiber failed, was
\* rebuilt, or the process ended.  The only events it may lack are those the
\* engine never announced (OrchestrationEngine.ts:312-315): a live projector
\* checkpoints past them.
TablesHoldLog ==
    \A p \in Projectors : Undisturbed(p) => HoldsLog(applied[p], checkpoint[p])

\* A live fiber has every published event it has not applied waiting in its
\* own queue, and no other newer than its cursor: no event slips between the
\* catch-ups and the stream.
NothingMissedLive ==
    \A p \in Projectors :
        fiber[p].at = "live" =>
            {e \in Elements(fiber[p].queue) : e > fiber[p].cursor}
                = ((fiber[p].cursor + 1)..announced) \ withheld

\* A projector that is not running says "degraded", unless it is being rebuilt or
\* its rebuild failed, which stops it for good and changes no health (whatever the
\* comment in ProjectionPipeline.ts:169-171 says).
NeverQuiet ==
    process # "down" =>
        \A p \in Projectors :
            fiber[p].at \in {"off", "backoff", "ended"} /\ rebuilding[p] = "no"
                => health[p] = "degraded"

\* A projector "restarts to the same tables as an uninterrupted run"
\* (ProjectionPipeline.test.ts:385): once it has caught up and is live, every
\* event up to its cursor has been applied to its tables.
RestartSameTables ==
    \A p \in Projectors :
        fiber[p].at = "live" => 1..fiber[p].cursor \subseteq Elements(applied[p])

\* What an import returned for is in the tables it wrote from then on, whatever
\* the projectors of these tables did meanwhile.  A rebuild empties a table, and
\* the projector then fills it again, up to its checkpoint; but another import
\* may move that checkpoint past what the projector has not filled in again.
ImportIsComplete ==
    \A p \in Imported : \A e \in imported :
        \/ e \in Elements(applied[p])
        \/ spent["rebuilds"] > 0 /\ (e > checkpoint[p] \/ spent["imports"] > 1)

\* Every event the engine announces reaches every table, past failures and
\* rebuilds, as long as the process and its stream stay up, no rebuild fails, and
\* no import moves a checkpoint.  An event whose reconciliation was lost waits
\* for the engine to announce it, or was passed over.
CatchesUp ==
    \A p \in Projectors : \A n \in 1..MaxEvents :
        head >= n ~> \/ n \in Elements(applied[p]) \/ process # "up"
                     \/ n \in (announced + 1)..abandoned \/ n \in withheld
                     \/ rebuilding[p] = "failed" \/ ~Undisturbed(p)

\* A degraded projector is healthy again some time later, unless the stream ends or a
\* rebuild fails.
Recovers ==
    \A p \in Projectors :
        health[p] = "degraded" ~> health[p] = "healthy" \/ process # "up" \/ rebuilding[p] = "failed"
=============================================================================
