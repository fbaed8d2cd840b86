--------------------------- MODULE ClaudeSession ---------------------------
(***************************************************************************)
(* One session of the Claude adapter (provider/Layers/Claude: Adapter.ts,  *)
(* Session.ts, Permissions.ts, Watchdog.ts, Process.ts).                   *)
(*                                                                         *)
(* A session owns a sequence of SDK queries, of which queryRef names one.  *)
(* The dispatcher fiber of the bridge sends prompts, cancels turns, sets   *)
(* the mode and answers permissions, one call at a time; a watchdog fiber  *)
(* replaces the query of a turn that has gone silent; each query has a     *)
(* listener fiber, which ends the session when its query dies unless a     *)
(* newer generation has taken over.  They interleave wherever one of them  *)
(* awaits: the SDK's interrupt, its control requests, and createQuery.     *)
(*                                                                         *)
(* Time is `silence`: how long no message has come, as recent, stalled     *)
(* (turnInactivityTimeout has passed) or abandoned (permissionWaitTimeout  *)
(* has); it is 0 while no turn is open, when nobody looks at it.  The mode  *)
(* stands for the model as well, which is kept alike.                      *)
(***************************************************************************)
EXTENDS Naturals, Sequences, FiniteSets

CONSTANTS
    Requests,     \* permission requests the SDK may raise
    Modes,        \* permission modes of the SDK
    DefaultMode,  \* DEFAULT_CLAUDE_MODE
    MaxPrompts,   \* bound: calls of sendPrompt, one per message (ProviderBridge's claim)
    MaxDisturbances \* bound: cancels, mode switches, deaths of a query, streams whose
                  \* consumer fails, failing calls of createQuery, archiving and quitting,
                  \* together

ASSUME SessionAssumption ==
    /\ DefaultMode \in Modes
    /\ MaxPrompts \in Nat /\ MaxDisturbances \in Nat

VARIABLES
    registered,     \* is the session in the adapter's `sessions`?
    scope,          \* sessionScope, "open" for as long as the stream has a consumer
    ended,          \* has outbound been ended?
    query,          \* the queries of this runtime: [generation, open, died, listening, mode, inbox],
                    \* inbox being the number of prompts it has still to work on
    current,        \* the one in queryRef and promptQueueRef
    generation,     \* the Ref of that name
    modeId,         \* the Ref of that name
    modeRaced,      \* history: was modeId set while the watchdog was building a query?
    refusing,       \* history: the queries that refused the last switch they were asked for
    needsReattach,  \* the Ref of that name
    turnOpen,       \* turnOpenedAtMs is not None
    silence,        \* 0 recent, 1 stalled, 2 abandoned: now - lastActivityAtMs
    waited,         \* history: did the silence last grow while a person was asked?
    pending,        \* pendingPermissions
    decision,       \* request -> what its Deferred holds, or "unasked"
    asker,          \* request -> the query whose canUseTool is blocked on it
    shown,          \* approvals published and not answered, as the operator sees them
    replies,        \* replies of the operator the dispatcher has not handled yet
    sent,           \* how many prompts were given to sendPrompt
    dispatcher,     \* [at, query, generation, mode]: the call it is in
    watchdog,       \* [at, query, generation, mode]
    shut,           \* "no"; "archived" by the bridge; "closing", "done": shutdown
    disturbances    \* how many so far

session == <<registered, scope, ended>>
settings == <<modeId, modeRaced, refusing>>
turn == <<turnOpen, silence, waited>>
permissions == <<pending, decision, shown>>
asked == <<asker, replies>>
vars == <<session, query, current, generation, settings, needsReattach, turn,
          permissions, asked, sent, dispatcher, watchdog, shut, disturbances>>

-----------------------------------------------------------------------------

Idle == [at |-> "idle", query |-> 0, generation |-> 0, mode |-> DefaultMode]
Polling == [at |-> "polling", query |-> 0, generation |-> 0, mode |-> DefaultMode]

NewQuery(g, m) == [generation |-> g, open |-> TRUE, died |-> FALSE, listening |-> TRUE,
                   mode |-> m, inbox |-> 0]

Disturb ==
    /\ disturbances < MaxDisturbances
    /\ disturbances' = disturbances + 1

\* A runtime openSession has just registered: its first query is attached.
Init ==
    /\ registered = TRUE
    /\ scope = "open"
    /\ ended = FALSE
    /\ query = <<NewQuery(0, DefaultMode)>>
    /\ current = 1
    /\ generation = 0
    /\ modeId = DefaultMode
    /\ modeRaced = FALSE
    /\ refusing = {}
    /\ needsReattach = FALSE
    /\ turnOpen = FALSE
    /\ silence = 0
    /\ waited = FALSE
    /\ pending = {}
    /\ decision = [r \in Requests |-> "unasked"]
    /\ asker = [r \in Requests |-> 0]
    /\ shown = {}
    /\ replies = {}
    /\ sent = 0
    /\ dispatcher = Idle
    /\ watchdog = Polling
    /\ shut = "no"
    /\ disturbances = 0

\* Is what the session publishes still read by the bridge?
Heard == scope = "open" /\ ~ended

\* Mutant: the approvals that are drained are not answered in public.
DrainSilently ==
    /\ decision' = [r \in Requests |-> IF r \in pending THEN "deny" ELSE decision[r]]
    /\ pending' = {}
    /\ shown' = shown

\* drainPendingPermissions: deny all that wait, and publish the answers.
DrainPendingPermissions ==
    /\ decision' = [r \in Requests |-> IF r \in pending THEN "deny" ELSE decision[r]]
    /\ pending' = {}
    /\ shown' = IF Heard THEN shown \ pending ELSE shown

\* What attachQuery does once createQuery has returned; the inbox holds the
\* prompt that waited for it, if one did.
Attach(g, m, inbox) ==
    /\ query' = Append(query, [NewQuery(g, m) EXCEPT !.inbox = inbox])
    /\ current' = Len(query) + 1

\* The handle's close: the prompts the query still had are lost with it.
Close(q) == query' = [query EXCEPT ![q].open = FALSE, ![q].inbox = 0]

Quiet == silence' = 0 /\ waited' = FALSE

-----------------------------------------------------------------------------
(* The SDK, as src/ uses it: a query works on the first prompt of its inbox *)
(* until its session is closed.                                             *)

Blocked(q) == \E r \in Requests : asker[r] = q /\ decision[r] = "waiting"
Working(q) == scope = "open" /\ query[q].open /\ query[q].inbox > 0 /\ ~Blocked(q)

\* A message of the turn reaches the listener.
Message(q) ==
    /\ Working(q) /\ query[q].listening
    /\ silence # 0
    /\ Quiet
    /\ UNCHANGED <<session, query, current, generation, settings, needsReattach, turnOpen,
                   permissions, asked, sent, dispatcher, watchdog, shut, disturbances>>

\* The result of the turn: publishFact closes it, whichever query it is of.
Result(q) ==
    /\ Working(q) /\ query[q].listening
    /\ query' = [query EXCEPT ![q].inbox = @ - 1]
    /\ turnOpen' = FALSE
    /\ Quiet
    /\ UNCHANGED <<session, current, generation, settings, needsReattach, permissions, asked,
                   sent, dispatcher, watchdog, shut, disturbances>>

\* The query answers signed-out: the next prompt must build a fresh one.
AuthRequired(q) ==
    /\ Working(q) /\ query[q].listening
    /\ ~needsReattach
    /\ needsReattach' = TRUE
    /\ Quiet
    /\ UNCHANGED <<session, query, current, generation, settings, turnOpen, permissions, asked,
                   sent, dispatcher, watchdog, shut, disturbances>>

\* canUseTool: decidePermission registers the request and publishes it.
Ask(q, r) ==
    /\ Working(q)
    /\ decision[r] = "unasked"
    /\ decision' = [decision EXCEPT ![r] = "waiting"]
    /\ asker' = [asker EXCEPT ![r] = q]
    /\ pending' = pending \cup {r}
    /\ shown' = IF Heard THEN shown \cup {r} ELSE shown
    /\ UNCHANGED <<session, query, current, generation, settings, needsReattach, turn,
                   replies, sent, dispatcher, watchdog, shut, disturbances>>

\* The subprocess ends, or its stream fails.
Die(q) ==
    /\ query[q].open /\ scope = "open"
    /\ Disturb
    /\ query' = [query EXCEPT ![q].open = FALSE, ![q].inbox = 0, ![q].died = TRUE]
    /\ UNCHANGED <<session, current, generation, settings, needsReattach, turn, permissions,
                   asked, sent, dispatcher, watchdog, shut>>

\* Time passes while a turn is open.
Tick ==
    /\ turnOpen /\ scope = "open"
    /\ silence < 2
    /\ silence' = silence + 1
    /\ waited' = (pending # {})
    /\ UNCHANGED <<session, query, current, generation, settings, needsReattach, turnOpen,
                   permissions, asked, sent, dispatcher, watchdog, shut, disturbances>>

-----------------------------------------------------------------------------
(* The listener of a query, and the stream the bridge reads *)

\* Mutant: the listener does not ask whether it is still current.
ListenerEndsSession(q) ==
    /\ query[q].listening
    /\ ~query[q].open \/ scope = "closed"
    /\ query' = [query EXCEPT ![q].listening = FALSE, ![q].open = FALSE, ![q].inbox = 0]
    /\ DrainPendingPermissions
    /\ ended' = TRUE
    /\ registered' = FALSE
    /\ UNCHANGED <<scope, current, generation, settings, needsReattach, turn, asked, sent,
                   dispatcher, watchdog, shut, disturbances>>

\* The messages end, or the scope interrupts the fiber.  Only the listener of
\* the newest generation ends the session.
ListenerEnds(q) ==
    /\ query[q].listening
    /\ ~query[q].open \/ scope = "closed"
    /\ query' = [query EXCEPT ![q].listening = FALSE, ![q].open = FALSE, ![q].inbox = 0]
    /\ \/ /\ query[q].generation = generation
          /\ DrainPendingPermissions
          /\ ended' = TRUE
          /\ registered' = FALSE
       \/ /\ query[q].generation # generation
          /\ UNCHANGED <<permissions, ended, registered>>
    /\ UNCHANGED <<scope, current, generation, settings, needsReattach, turn, asked, sent,
                   dispatcher, watchdog, shut, disturbances>>

\* The consumer of startSession's stream is done: the scope closes, which
\* interrupts the watchdog and every listener.
CloseScope ==
    /\ scope = "open"
    /\ scope' = "closed"
    /\ watchdog' = [Polling EXCEPT !.at = "off"]

\* The stream ended with outbound.
StreamEnds ==
    /\ ended
    /\ CloseScope
    /\ UNCHANGED <<registered, ended, query, current, generation, settings, needsReattach, turn,
                   permissions, asked, sent, dispatcher, shut, disturbances>>

\* An event could not be appended: the forwarding fiber stops reading.
ConsumerFails ==
    /\ Disturb
    /\ CloseScope
    /\ UNCHANGED <<registered, ended, query, current, generation, settings, needsReattach, turn,
                   permissions, asked, sent, dispatcher, shut>>

-----------------------------------------------------------------------------
(* The dispatcher fiber of the bridge *)

Free == dispatcher.at = "idle" /\ shut = "no"

\* Mutant: the runtime is registered before its first query is attached.
ReopenBeforeAttach ==
    /\ Free /\ scope = "closed" /\ ~registered
    /\ \A q \in DOMAIN query : ~query[q].listening
    /\ Disturb
    /\ registered' = TRUE
    /\ scope' = "open"
    /\ ended' = FALSE
    /\ query' = <<>>
    /\ current' = 0
    /\ generation' = 0
    /\ modeId' = DefaultMode
    /\ modeRaced' = FALSE
    /\ refusing' = {}
    /\ needsReattach' = FALSE
    /\ turnOpen' = FALSE
    /\ Quiet
    /\ pending' = {}
    /\ asker' = [r \in Requests |-> 0]
    /\ watchdog' = Polling
    /\ UNCHANGED <<decision, shown, replies, sent, dispatcher, shut>>

\* startSession for a session whose stream has ended; one that is still
\* registered is refused ("already open"), which changes nothing.
Reopen ==
    /\ Free /\ scope = "closed" /\ ~registered
    /\ \A q \in DOMAIN query : ~query[q].listening
    /\ Disturb
    /\ registered' = TRUE
    /\ scope' = "open"
    /\ ended' = FALSE
    /\ query' = <<NewQuery(0, DefaultMode)>>
    /\ current' = 1
    /\ generation' = 0
    /\ modeId' = DefaultMode
    /\ modeRaced' = FALSE
    /\ refusing' = {}
    /\ needsReattach' = FALSE
    /\ turnOpen' = FALSE
    /\ Quiet
    /\ pending' = {}
    /\ asker' = [r \in Requests |-> 0]
    /\ watchdog' = Polling
    /\ UNCHANGED <<decision, shown, replies, sent, dispatcher, shut>>

\* What sendPrompt does in one go once it has a query.
Offered ==
    /\ sent' = sent + 1
    /\ turnOpen' = TRUE
    /\ Quiet

SendPrompt ==
    /\ Free /\ registered /\ sent < MaxPrompts
    /\ ~needsReattach
    /\ query' = [query EXCEPT ![current].inbox = IF query[current].open THEN @ + 1 ELSE @]
    /\ Offered
    /\ UNCHANGED <<session, current, generation, settings, needsReattach, permissions, asked,
                   dispatcher, watchdog, shut, disturbances>>

\* After a cancel, or a signed-out answer: a fresh query first.
Reattach ==
    /\ Free /\ registered /\ sent < MaxPrompts
    /\ needsReattach
    /\ generation' = generation + 1
    /\ dispatcher' = [Idle EXCEPT !.at = "reattach", !.generation = generation + 1, !.mode = modeId]
    /\ UNCHANGED <<session, query, current, settings, needsReattach, turn, permissions, asked,
                   sent, watchdog, shut, disturbances>>

Reattached ==
    /\ dispatcher.at = "reattach"
    /\ Attach(dispatcher.generation, dispatcher.mode, 1)
    /\ Offered
    /\ needsReattach' = FALSE
    /\ dispatcher' = Idle
    /\ UNCHANGED <<session, generation, settings, permissions, asked, watchdog, shut, disturbances>>

\* createQuery fails: the bridge records it; the prompt may be tried again.
ReattachFails ==
    /\ dispatcher.at = "reattach"
    /\ Disturb
    /\ dispatcher' = Idle
    /\ UNCHANGED <<session, query, current, generation, settings, needsReattach, turn, permissions,
                   asked, sent, watchdog, shut>>

\* Mutant: the generation is left to the next attach.
CancelTurnSameGeneration ==
    /\ Free /\ registered
    /\ Disturb
    /\ turnOpen' = FALSE
    /\ Quiet
    /\ DrainPendingPermissions
    /\ dispatcher' = [Idle EXCEPT !.at = "cancel", !.query = current]
    /\ UNCHANGED <<session, query, current, generation, settings, needsReattach, asked,
                   sent, watchdog, shut>>

\* cancelTurn up to the interrupt of the SDK, which may take its time.
CancelTurn ==
    /\ Free /\ registered
    /\ Disturb
    /\ turnOpen' = FALSE
    /\ Quiet
    /\ DrainPendingPermissions
    /\ generation' = generation + 1
    /\ dispatcher' = [Idle EXCEPT !.at = "cancel", !.query = current]
    /\ UNCHANGED <<session, query, current, settings, needsReattach, asked, sent,
                   watchdog, shut>>

\* Mutant: nothing is drained after the teardown.
CancelledWithoutDrain ==
    /\ dispatcher.at = "cancel"
    /\ Close(dispatcher.query)
    /\ needsReattach' = TRUE
    /\ dispatcher' = Idle
    /\ UNCHANGED <<session, current, generation, settings, turn, permissions, asked, sent,
                   watchdog, shut, disturbances>>

\* The interrupt returned or timed out: close the query, drain what was asked
\* meanwhile, and leave the replacement to the next prompt.
Cancelled ==
    /\ dispatcher.at = "cancel"
    /\ Close(dispatcher.query)
    /\ DrainPendingPermissions
    /\ needsReattach' = TRUE
    /\ dispatcher' = Idle
    /\ UNCHANGED <<session, current, generation, settings, turn, asked, sent, watchdog, shut,
                   disturbances>>

\* setMode records the mode and asks the query of the moment to switch.
SetMode(m) ==
    /\ Free /\ registered
    /\ Disturb
    /\ modeId' = m
    /\ modeRaced' = (watchdog.at = "attaching")
    /\ dispatcher' = [Idle EXCEPT !.at = "mode", !.query = current, !.mode = m]
    /\ UNCHANGED <<session, query, current, generation, refusing, needsReattach, turn,
                   permissions, asked, sent, watchdog, shut>>

\* The control request is answered; a query that is gone fails it instead,
\* which the bridge records.
ModeSet ==
    /\ dispatcher.at = "mode"
    /\ query' = [query EXCEPT ![dispatcher.query].mode = IF query[dispatcher.query].open
                                                       THEN dispatcher.mode ELSE @]
    /\ refusing' = refusing \ {dispatcher.query}
    /\ dispatcher' = Idle
    /\ UNCHANGED <<session, current, generation, modeId, modeRaced, needsReattach, turn,
                   permissions, asked, sent, watchdog, shut, disturbances>>

\* A query that runs rejects the request (a model id it does not know): it stays
\* as it is and the bridge records the failure, but modeId has moved already.
ModeRefused ==
    /\ dispatcher.at = "mode"
    /\ query[dispatcher.query].open
    /\ refusing' = refusing \cup {dispatcher.query}
    /\ dispatcher' = Idle
    /\ UNCHANGED <<session, query, current, generation, modeId, modeRaced, needsReattach, turn,
                   permissions, asked, sent, watchdog, shut, disturbances>>

\* The operator answers an approval on the screen; the reply is committed.
Reply(r) ==
    /\ r \in shown
    /\ shown' = shown \ {r}
    /\ replies' = replies \cup {r}
    /\ UNCHANGED <<session, query, current, generation, settings, needsReattach, turn, pending,
                   decision, asker, sent, dispatcher, watchdog, shut, disturbances>>

\* respondToPermission: an unknown request is an error and changes nothing.
RespondToPermission(r) ==
    /\ Free
    /\ r \in replies
    /\ replies' = replies \ {r}
    /\ \/ /\ registered /\ r \in pending
          /\ decision' = [decision EXCEPT ![r] = "allow"]
          /\ pending' = pending \ {r}
       \/ /\ ~registered \/ r \notin pending
          /\ UNCHANGED <<decision, pending>>
    /\ UNCHANGED <<session, query, current, generation, settings, needsReattach, turn, asker,
                   shown, sent, dispatcher, watchdog, shut, disturbances>>

\* considerSessionRemoved of the bridge interrupts the forwarding fiber.
Archive ==
    /\ Free
    /\ Disturb
    /\ shut' = "archived"
    /\ \/ CloseScope
       \/ scope = "closed" /\ UNCHANGED <<scope, watchdog>>
    /\ UNCHANGED <<registered, ended, query, current, generation, settings, needsReattach, turn,
                   permissions, asked, sent, dispatcher>>

-----------------------------------------------------------------------------
(* The watchdog fiber *)

\* Mutant: a turn that waits on a permission is never recovered.
WatchdogFiresUnblocked ==
    /\ watchdog.at = "polling"
    /\ turnOpen
    /\ silence >= 1 /\ pending = {}
    /\ turnOpen' = FALSE
    /\ Quiet
    /\ generation' = generation + 1
    /\ DrainPendingPermissions
    /\ watchdog' = [Polling EXCEPT !.at = "tearing", !.query = current,
                                   !.generation = generation + 1]
    /\ UNCHANGED <<session, query, current, settings, needsReattach, asked, sent,
                   dispatcher, shut, disturbances>>

\* A poll that finds the turn silent for too long, a turn that waits on a
\* permission for longer.  It closes the turn and interrupts the query.
WatchdogFires ==
    /\ watchdog.at = "polling"
    /\ turnOpen
    /\ silence >= IF pending # {} THEN 2 ELSE 1
    /\ turnOpen' = FALSE
    /\ Quiet
    /\ generation' = generation + 1
    /\ DrainPendingPermissions
    /\ watchdog' = [Polling EXCEPT !.at = "tearing", !.query = current,
                                   !.generation = generation + 1]
    /\ UNCHANGED <<session, query, current, settings, needsReattach, asked, sent,
                   dispatcher, shut, disturbances>>

\* The query is closed and drained again; attachQuery reads the mode and
\* waits for createQuery.
WatchdogClosed ==
    /\ watchdog.at = "tearing"
    /\ Close(watchdog.query)
    /\ DrainPendingPermissions
    /\ watchdog' = [watchdog EXCEPT !.at = "attaching", !.mode = modeId]
    /\ UNCHANGED <<session, current, generation, settings, needsReattach, turn, asked, sent,
                   dispatcher, shut, disturbances>>

\* Mutant: the replacement starts in the default mode.
WatchdogAttachedAnew ==
    /\ watchdog.at = "attaching"
    /\ Attach(watchdog.generation, DefaultMode, 0)
    /\ Quiet
    /\ watchdog' = Polling
    /\ UNCHANGED <<session, generation, settings, needsReattach, turnOpen, permissions, asked,
                   sent, dispatcher, shut, disturbances>>

WatchdogAttached ==
    /\ watchdog.at = "attaching"
    /\ Attach(watchdog.generation, watchdog.mode, 0)
    /\ Quiet
    /\ watchdog' = Polling
    /\ UNCHANGED <<session, generation, settings, needsReattach, turnOpen, permissions, asked,
                   sent, dispatcher, shut, disturbances>>

\* createQuery fails: nothing catches it, and the session has no watchdog.
WatchdogDies ==
    /\ watchdog.at = "attaching"
    /\ Disturb
    /\ watchdog' = [Polling EXCEPT !.at = "off"]
    /\ UNCHANGED <<session, query, current, generation, settings, needsReattach, turn, permissions,
                   asked, sent, dispatcher, shut>>

WatchdogStep == WatchdogFires \/ WatchdogClosed \/ WatchdogAttached

-----------------------------------------------------------------------------
(* The application quits: the finalizer of the bridge runs shutdown *)

ShutDown ==
    /\ shut = "no" /\ registered
    /\ Disturb
    /\ DrainPendingPermissions
    /\ dispatcher' = [Idle EXCEPT !.query = current]
    /\ shut' = "closing"
    /\ UNCHANGED <<session, query, current, generation, settings, needsReattach, turn, asked, sent,
                   watchdog>>

\* Interrupted, closed, drained again, and the scope closed.
ShutDownDone ==
    /\ shut = "closing"
    /\ Close(dispatcher.query)
    /\ DrainPendingPermissions
    /\ \/ CloseScope
       \/ scope = "closed" /\ UNCHANGED <<scope, watchdog>>
    /\ shut' = "done"
    /\ UNCHANGED <<registered, ended, current, generation, settings, needsReattach, turn, asked,
                   sent, dispatcher, disturbances>>

-----------------------------------------------------------------------------

DispatcherStep == Reattached \/ Cancelled \/ ModeSet \/ ModeRefused

Next ==
    \/ \E q \in DOMAIN query :
          \/ Message(q) \/ Result(q) \/ AuthRequired(q) \/ Die(q)
          \/ \E r \in Requests : Ask(q, r)
          \/ ListenerEnds(q)
    \/ Tick \/ StreamEnds \/ ConsumerFails
    \/ Reopen \/ SendPrompt \/ Reattach \/ CancelTurn \/ ReattachFails \/ DispatcherStep \/ Archive
    \/ \E m \in Modes : SetMode(m)
    \/ \E r \in Requests : Reply(r) \/ RespondToPermission(r)
    \/ WatchdogStep \/ WatchdogDies \/ ShutDown \/ ShutDownDone

Spec == Init /\ [][Next]_vars

\* Time passes and the watchdog fiber runs: its interrupt has a timeout, and
\* createQuery returns.  Nothing is assumed of the SDK or of the operator.
FairSpec == Spec /\ WF_vars(Tick) /\ WF_vars(WatchdogStep)

-----------------------------------------------------------------------------
(* Properties *)

\* Every variable stays in its domain.
TypeOK ==
    /\ registered \in BOOLEAN /\ ended \in BOOLEAN /\ shut \in {"no", "archived", "closing", "done"}
    /\ scope \in {"open", "closed"}
    /\ query \in Seq([generation : Nat, open : BOOLEAN, died : BOOLEAN, listening : BOOLEAN,
                      mode : Modes, inbox : Nat])
    /\ current \in DOMAIN query
    /\ generation \in Nat
    /\ modeId \in Modes /\ modeRaced \in BOOLEAN /\ refusing \subseteq Nat
    /\ needsReattach \in BOOLEAN
    /\ turnOpen \in BOOLEAN /\ silence \in 0..2 /\ waited \in BOOLEAN
    /\ pending \subseteq Requests /\ shown \subseteq Requests /\ replies \subseteq Requests
    /\ decision \in [Requests -> {"unasked", "waiting", "allow", "deny"}]
    /\ asker \in [Requests -> Nat]
    /\ sent \in Nat
    /\ dispatcher.at \in {"idle", "reattach", "cancel", "mode"}
    /\ watchdog.at \in {"polling", "tearing", "attaching", "off"}

\* A cancel, a signed-out answer or a recovery never ends the session: it ends
\* only after a query has died, however late the listener of the query that
\* was torn down runs (the generation of Adapter.ts).
SessionSurvivesRestart ==
    ~registered /\ scope = "open" => \E q \in DOMAIN query : query[q].died

Waiting(r) == decision[r] = "waiting" /\ asker[r] # 0

\* drainPendingPermissions: no path that throws a query away leaves its
\* canUseTool blocked, not even for what was asked during the interrupt.
NoAbandonedPermission ==
    scope = "open" =>
        \A r \in Requests : Waiting(r) => query[asker[r]].open \/ query[asker[r]].died

\* The operator sees no approval that nothing can answer: what is shown of this
\* runtime is still in pendingPermissions.
NoStaleApproval ==
    scope = "open" => \A r \in shown : asker[r] # 0 => r \in pending

\* Between two calls the open query runs in the mode the operator chose, also
\* when the choice came while a query was torn down, found none, or was refused
\* by an earlier query: every replacement starts in it.  A query that refused the
\* switch itself stays as it was, which the bridge reported; and a choice made
\* while the watchdog waits for createQuery may be lost on the query it builds.
ModeIsKept ==
    shut = "no" /\ dispatcher.at = "idle" /\ query[current].open
    => query[current].mode = modeId \/ modeRaced \/ current \in refusing

\* A turn that falls silent is recovered, be it on a permission nobody answers,
\* for as long as the watchdog lives.
StalledTurnsEnd ==
    turnOpen /\ silence > 0 ~> ~turnOpen \/ silence = 0 \/ watchdog.at = "off"

\* What Adapter.test.ts says of the watchdog: the wait for a person is not
\* inactivity.  So no turn is recovered for a silence that a person's answer
\* has just ended.
NeverKillsAnsweredTurn ==
    [][watchdog.at = "polling" /\ watchdog'.at = "tearing" /\ pending = {} => ~waited]_vars
=============================================================================
