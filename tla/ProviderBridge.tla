--------------------------- MODULE ProviderBridge ---------------------------
(***************************************************************************)
(* provider/Layers/ProviderBridge.ts: one dispatcher fiber considers the   *)
(* committed events in order and calls the adapter of the session each one *)
(* is about; a session is opened when it is first needed, by forking a     *)
(* fiber that forwards the adapter's stream; a boot replays the log without*)
(* calling any adapter.  The dispatcher waits for the file system, for a   *)
(* session just forked to be registered, and for the answer of an adapter, *)
(* which may never come; meanwhile fibers register, end and fail, and the  *)
(* log grows.  The server takes no command before the layer of the bridge  *)
(* is built, replay included.                                              *)
(*                                                                         *)
(* A "command" event stands for MessageSent (its key is the message id,    *)
(* which a client may send again), TurnCancelled and InteractionReplied    *)
(* (its key is the event id); "set" for SessionModeSet and SessionModelSet;*)
(* "removed" for SessionArchived and SessionDeleted.                       *)
(***************************************************************************)
EXTENDS Naturals, Sequences, FiniteSets

CONSTANTS
    Sessions,
    Keys,        \* keys of commands
    Replies,     \* those of interaction replies
    Settings,    \* "mode", "model"
    Settable,    \* <<session, setting>>: its adapter has setMode, or setModel
    Answerable,  \* sessions whose adapter has respondToPermission
    Values,      \* what a setting can be set to
    Default,     \* what a fresh adapter session starts with
    Retries,     \* LAZY_OPEN_RETRY_SCHEDULE
    MaxLog,      \* bound: events committed by clients
    MaxCrashes,  \* bound: restarts
    MaxFaults    \* bound: fibers that end or fail, calls an adapter refuses or never
                 \* answers, missing roots, events that are never announced

ASSUME BridgeAssumption ==
    /\ Default \notin Values /\ IsFiniteSet(Settings)
    /\ Replies \subseteq Keys
    /\ Settable \subseteq Sessions \X Settings /\ Answerable \subseteq Sessions
    /\ Retries \in Nat /\ MaxLog \in Nat /\ MaxCrashes \in Nat /\ MaxFaults \in Nat

VARIABLES
    log,         \* the durable events the bridge reacts to
    position,    \* how many of them are behind the dispatcher
    lost,        \* those behind it that the engine never announced in this boot
    bridge,      \* sessionAdapters, the recorded settings and the claims
    fiber,       \* session -> its forwarding fiber: "none", "running", "done"
    dispatcher,  \* [at, session, key, todo, tries]: what it waits for ("hung" when the
                 \* answer does not come), or "replaying"
    registered,  \* sessions the adapters know
    agent,       \* session -> setting -> what the agent runs with
    failureSeq,  \* the Ref of that name
    recorded,    \* ProviderSessionFailed events in the log, as [id, boot]
    raised,      \* history: the failures appendFailure was called with
    dispatched,  \* history: key -> the calls that gave it to an agent, [during, answer]
    failed,      \* history: keys whose call failed for good
    cut,         \* history: keys never announced, or not dealt with when a process ended
    dropped,     \* history: keys passed over as their session could not be opened
    refused,     \* history: <<session, setting>> whose last application failed
    unopened,    \* history: sessions this boot did not record when they were created
    boot, faults

adapterState == <<registered, agent>>
failures == <<failureSeq, recorded, raised>>
outcomes == <<dispatched, failed, cut, dropped>>
history == <<outcomes, refused, unopened>>
vars == <<log, position, lost, bridge, fiber, dispatcher, adapterState, failures, history, boot, faults>>

-----------------------------------------------------------------------------

Created(s, origin) == [type |-> "created", session |-> s, origin |-> origin]
Command(s, m, origin) == [type |-> "command", session |-> s, key |-> m, origin |-> origin]
Set(s, k, v) == [type |-> "set", session |-> s, setting |-> k, value |-> v]
Removed(s) == [type |-> "removed", session |-> s]

Origins == {"live", "imported"}
Events == {Created(s, o) : s \in Sessions, o \in Origins}
            \cup {Command(s, m, o) : s \in Sessions, m \in Keys, o \in Origins}
            \cup {Set(s, k, v) : s \in Sessions, k \in Settings, v \in Values}
            \cup {Removed(s) : s \in Sessions}

Nothing == [k \in Settings |-> Default]
EmptyBridge == [adapters |-> {}, chosen |-> [s \in Sessions |-> Nothing], claimed |-> {}]
Idle == [at |-> "idle", session |-> {}, key |-> {}, todo |-> {}, tries |-> 0]

\* Mutants: events do not say which sessions there are, or a removal leaves the
\* adapter in place.
AdaptersUnknown(b, e) == IF e.type = "removed" THEN b.adapters \ {e.session} ELSE b.adapters
AdaptersKept(b, e) == IF e.type = "created" THEN b.adapters \cup {e.session} ELSE b.adapters

\* sessionAdapters and sessionProjects, which are set and removed together.
AdaptersAfter(b, e) ==
    CASE e.type = "created" -> b.adapters \cup {e.session}
      [] e.type = "removed" -> b.adapters \ {e.session}
      [] OTHER -> b.adapters

\* Mutant: a claim is made and not kept.
ClaimsForgotten(b, e) == b.claimed

\* claim, of the claimed* sets.
ClaimsAfter(b, e) == IF e.type = "command" THEN b.claimed \cup {e.key} ELSE b.claimed

\* sessionModes and sessionModels.
ChosenAfter(b, e) ==
    CASE e.type = "set" -> [b.chosen EXCEPT ![e.session][e.setting] = e.value]
      [] e.type = "removed" -> [b.chosen EXCEPT ![e.session] = Nothing]
      [] OTHER -> b.chosen

\* What considering an event records, and all that replay does with it.
Recorded(b, e) ==
    [adapters |-> AdaptersAfter(b, e), chosen |-> ChosenAfter(b, e), claimed |-> ClaimsAfter(b, e)]

Init ==
    /\ log = <<>> /\ position = 0 /\ lost = {}
    /\ bridge = EmptyBridge
    /\ fiber = [s \in Sessions |-> "none"]
    /\ dispatcher = Idle
    /\ registered = {} /\ agent = [s \in Sessions |-> Nothing]
    /\ failureSeq = 0 /\ recorded = {} /\ raised = {}
    /\ dispatched = [m \in Keys |-> <<>>]
    /\ failed = {} /\ cut = {} /\ dropped = {} /\ refused = {} /\ unopened = {}
    /\ boot = 0 /\ faults = 0

Fault ==
    /\ faults < MaxFaults
    /\ faults' = faults + 1

\* The store refuses an event whose id it holds, which is only logged.
RaiseAs(id) ==
    LET failure == [id |-> id, boot |-> boot, count |-> Cardinality(raised)] IN
    /\ raised' = raised \cup {failure}
    /\ recorded' = IF \E f \in recorded : f.id = id THEN recorded ELSE recorded \cup {failure}

\* Mutant: the counter stays where it is.
RaiseSameId(s) ==
    /\ failureSeq' = failureSeq
    /\ RaiseAs(<<s, failureSeq>>)

\* appendFailure: the id of the event is the session and a counter that starts
\* over at every boot.
Raise(s) ==
    /\ failureSeq' = failureSeq + 1
    /\ RaiseAs(<<s, failureSeq + 1>>)

-----------------------------------------------------------------------------
(* Clients, through the engine: only what its deciders accept *)

IsCreated(s) == \E i \in DOMAIN log : log[i].type = "created" /\ log[i].session = s
Commands(m) == {i \in DOMAIN log : log[i].type = "command" /\ log[i].key = m}

\* A reply is never imported, and its key, the id of the event, is new.
ReplyIsNew(e) == e.type = "command" /\ e.key \in Replies => e.origin = "live" /\ Commands(e.key) = {}

Commit(e) ==
    /\ Len(log) < MaxLog
    /\ dispatcher.at # "replaying"
    /\ e.type = "created" <=> ~IsCreated(e.session)
    /\ ReplyIsNew(e)
    /\ log' = Append(log, e)
    /\ UNCHANGED <<position, lost, bridge, fiber, dispatcher, adapterState, failures, history, boot, faults>>

-----------------------------------------------------------------------------
(* The dispatcher fiber *)

Event == log[position + 1]

\* The keys among these events that no event before them has claimed.
Unclaimed(indices) ==
    {m \in Keys \ bridge.claimed : \E i \in indices : log[i].type = "command" /\ log[i].key = m}

\* The stream has the events of the log in order, except that the engine may have
\* lost a reconciliation and gone on with later events (or none): the dispatcher
\* never gets this one.
PassOver ==
    /\ dispatcher.at = "idle"
    /\ position < Len(log)
    /\ Fault
    /\ position' = position + 1
    /\ lost' = lost \cup {position + 1}
    /\ cut' = cut \cup Unclaimed({position + 1})
    /\ unopened' = IF Event.type = "created" THEN unopened \cup {Event.session} ELSE unopened
    /\ UNCHANGED <<log, bridge, fiber, dispatcher, adapterState, failures, dispatched, failed,
                   dropped, refused, boot>>

\* The stream hands the dispatcher its next event.
Considers(type) ==
    /\ dispatcher.at = "idle"
    /\ position < Len(log)
    /\ Event.type = type
    /\ position' = position + 1
    /\ UNCHANGED lost

\* ensureSessionOpen for a session whose fiber does not run; with it goes the
\* command that is to be dispatched afterwards, if any.
Opening(s, key) == [at |-> "opening", session |-> {s}, key |-> key, todo |-> {}, tries |-> 0]

\* Adapter calls that wait for the session to be registered: settings first.
Calling(s, key, todo) ==
    IF key = {} /\ todo = {} THEN Idle
    ELSE [at |-> "calling", session |-> {s}, key |-> key, todo |-> todo, tries |-> Retries]

\* A live session is opened at once, an imported one is only recorded.
ConsiderSessionCreated ==
    /\ Considers("created")
    /\ \/ /\ Event.origin = "imported"
          /\ bridge' = Recorded(bridge, Event)
          /\ UNCHANGED dispatcher
       \/ /\ Event.origin = "live"
          /\ dispatcher' = Opening(Event.session, {})
          /\ UNCHANGED bridge
    /\ UNCHANGED <<log, fiber, adapterState, failures, history, boot, faults>>

\* considerMessageSent, considerTurnCancelled, considerInteractionReplied.  A reply
\* to an adapter that takes none opens the session and goes no further.
ConsiderCommand ==
    /\ Considers("command")
    /\ bridge' = Recorded(bridge, Event)
    /\ LET s == Event.session
           skipped == Event.key \in bridge.claimed \/ Event.origin = "imported"
           key == IF Event.key \in Replies /\ s \notin Answerable THEN {} ELSE {Event.key}
       IN \/ /\ skipped
             /\ UNCHANGED <<dispatcher, dropped>>
          \/ /\ ~skipped /\ fiber[s] = "running"
             /\ dispatcher' = Calling(s, key, {})
             /\ UNCHANGED dropped
          \/ /\ ~skipped /\ fiber[s] # "running" /\ s \in bridge.adapters
             /\ dispatcher' = Opening(s, key)
             /\ UNCHANGED dropped
          \/ /\ ~skipped /\ fiber[s] # "running" /\ s \notin bridge.adapters
             /\ dropped' = IF s \in unopened THEN dropped \cup {Event.key} ELSE dropped
             /\ UNCHANGED dispatcher
    /\ UNCHANGED <<log, fiber, adapterState, failures, dispatched, failed, cut, refused, unopened,
                   boot, faults>>

\* considerSessionModeSet, considerSessionModelSet: a running session is told, if
\* its adapter can be (supportsSetMode, supportsSetModel).
ConsiderSetting ==
    /\ Considers("set")
    /\ bridge' = Recorded(bridge, Event)
    /\ LET s == Event.session
       IN \/ /\ fiber[s] = "running"
             /\ dispatcher' = Calling(s, {}, IF <<s, Event.setting>> \in Settable
                                             THEN {Event.setting} ELSE {})
          \/ /\ fiber[s] # "running" /\ s \in bridge.adapters
             /\ dispatcher' = Opening(s, {})
          \/ /\ fiber[s] # "running" /\ s \notin bridge.adapters
             /\ UNCHANGED dispatcher
    /\ UNCHANGED <<log, fiber, adapterState, failures, history, boot, faults>>

\* considerSessionRemoved: what is recorded goes, and the fiber is interrupted.
ConsiderSessionRemoved ==
    /\ Considers("removed")
    /\ bridge' = Recorded(bridge, Event)
    /\ fiber' = [fiber EXCEPT ![Event.session] = "none"]
    /\ registered' = registered \ {Event.session}
    /\ UNCHANGED <<log, dispatcher, agent, failures, history, boot, faults>>

\* Mutant: a session that opens keeps the adapter's own settings.
OpenSessionUnset ==
    /\ dispatcher.at = "opening"
    /\ \E s \in dispatcher.session :
          /\ bridge' = [bridge EXCEPT !.adapters = @ \cup {s}]
          /\ fiber' = [fiber EXCEPT ![s] = "running"]
          /\ dispatcher' = Calling(s, dispatcher.key, {})
    /\ UNCHANGED <<log, position, lost, adapterState, failures, history, boot, faults>>

\* The settings on record that the adapter of s can be given.
ToApply(s) == {k \in Settings : bridge.chosen[s][k] # Default /\ <<s, k>> \in Settable}

\* openSession once the root is known to exist: fork the fiber, then apply
\* every such setting.
OpenSession ==
    /\ dispatcher.at = "opening"
    /\ \E s \in dispatcher.session :
          /\ bridge' = [bridge EXCEPT !.adapters = @ \cup {s}]
          /\ fiber' = [fiber EXCEPT ![s] = "running"]
          /\ dispatcher' = Calling(s, dispatcher.key, ToApply(s))
    /\ UNCHANGED <<log, position, lost, adapterState, failures, history, boot, faults>>

\* The root is missing: openSession records a failure and returns; the command
\* is dispatched all the same.
RootMissing ==
    /\ dispatcher.at = "opening"
    /\ Fault
    /\ \E s \in dispatcher.session :
          /\ Raise(s)
          /\ dispatcher' = Calling(s, dispatcher.key, {})
          /\ unopened' = IF s \in bridge.adapters THEN unopened ELSE unopened \cup {s}
    /\ UNCHANGED <<log, position, lost, bridge, fiber, adapterState, outcomes, refused, boot>>

\* setMode or setModel; then the next setting, or the command.
ApplySetting(s, k) ==
    /\ dispatcher.at = "calling" /\ s \in dispatcher.session /\ k \in dispatcher.todo
    /\ s \in registered
    /\ agent' = [agent EXCEPT ![s][k] = bridge.chosen[s][k]]
    /\ refused' = refused \ {<<s, k>>}
    /\ dispatcher' = Calling(s, dispatcher.key, dispatcher.todo \ {k})
    /\ UNCHANGED <<log, position, lost, bridge, fiber, registered, failures, outcomes,
                   unopened, boot, faults>>

\* The command in hand reaches the agent; how the adapter answers is another matter.
Deliver(m, answer) ==
    dispatched' = [dispatched EXCEPT
                      ![m] = Append(@, [during |-> <<boot, position>>, answer |-> answer])]

\* sendPrompt, cancelTurn or respondToPermission, when no setting is left.
DispatchCommand(s, m) ==
    /\ dispatcher.at = "calling" /\ s \in dispatcher.session
    /\ dispatcher.todo = {} /\ m \in dispatcher.key
    /\ s \in registered
    /\ Deliver(m, "taken")
    /\ dispatcher' = Idle
    /\ UNCHANGED <<log, position, lost, bridge, fiber, adapterState, failures, failed, cut,
                   dropped, refused, unopened, boot, faults>>

\* A call fails in a way that is tried again: the session is not registered yet, or
\* the adapter refuses a command, whatever the reason, which it may do after the
\* agent got it (a request that timed out, Codex/Adapter.ts:218-233).
AttemptFails ==
    /\ dispatcher.at = "calling"
    /\ \/ /\ dispatcher.session \cap registered = {}
          /\ UNCHANGED <<dispatched, faults>>
       \/ /\ dispatcher.session \subseteq registered /\ dispatcher.todo = {}
          /\ Fault
          /\ \/ UNCHANGED dispatched
             \/ \E m \in dispatcher.key : Deliver(m, "failed")

\* Mutants: the schedule is off by one, or has no bound.
RetryCallOnceMore ==
    /\ AttemptFails
    /\ dispatcher.tries >= 0
    /\ dispatcher' = [dispatcher EXCEPT !.tries = @ - 1]
    /\ UNCHANGED <<log, position, lost, bridge, fiber, adapterState, failures, failed, cut, dropped,
                   refused, unopened, boot>>
RetryCallForever ==
    /\ AttemptFails
    /\ dispatcher' = [dispatcher EXCEPT !.tries = (@ + 1) % (Retries + 1)]
    /\ UNCHANGED <<log, position, lost, bridge, fiber, adapterState, failures, failed, cut, dropped,
                   refused, unopened, boot>>

\* LAZY_OPEN_RETRY_SCHEDULE: wait and try again.
RetryCall ==
    /\ AttemptFails
    /\ dispatcher.tries > 0
    /\ dispatcher' = [dispatcher EXCEPT !.tries = @ - 1]
    /\ UNCHANGED <<log, position, lost, bridge, fiber, adapterState, failures, failed, cut, dropped,
                   refused, unopened, boot>>

\* The adapter refuses a setting, which is not tried again; the agent may have it
\* all the same.
SettingRefused(s, k) ==
    /\ s \in registered
    /\ Fault
    /\ agent' \in {agent, [agent EXCEPT ![s][k] = bridge.chosen[s][k]]}
    /\ UNCHANGED dispatched

\* The retries are used up, or a setting is refused: the call has failed, which
\* is recorded, and the dispatcher goes on.
CallFails ==
    /\ dispatcher.at = "calling"
    /\ \E s \in dispatcher.session :
          /\ Raise(s)
          /\ \/ \E k \in dispatcher.todo :
                   /\ \/ dispatcher.tries = 0 /\ AttemptFails /\ UNCHANGED agent
                      \/ SettingRefused(s, k)
                   /\ dispatcher' = Calling(s, dispatcher.key, dispatcher.todo \ {k})
                   /\ refused' = refused \cup {<<s, k>>}
                   /\ UNCHANGED failed
             \/ /\ dispatcher.todo = {} /\ dispatcher.tries = 0 /\ AttemptFails
                /\ dispatcher' = Idle
                /\ failed' = failed \cup dispatcher.key
                /\ UNCHANGED <<agent, refused>>
    /\ UNCHANGED <<log, position, lost, bridge, fiber, registered, cut, dropped, unopened, boot>>

\* An adapter call has no timeout of its own (Claude/Adapter.ts:515): the answer may
\* take for ever, and the one fiber that considers events waits for it.
CallHangs ==
    /\ dispatcher.at = "calling" /\ dispatcher.session \subseteq registered
    /\ Fault
    /\ dispatcher' = [dispatcher EXCEPT !.at = "hung"]
    /\ UNCHANGED <<log, position, lost, bridge, fiber, adapterState, failures, history, boot>>

\* Or it comes after all.
CallResumes ==
    /\ dispatcher.at = "hung"
    /\ dispatcher' = [dispatcher EXCEPT !.at = "calling"]
    /\ UNCHANGED <<log, position, lost, bridge, fiber, adapterState, failures, history, boot, faults>>

\* readAllFrom(store, 0), each event considered in phase "replay".
ReplayEvent ==
    /\ dispatcher.at = "replaying"
    /\ position < Len(log)
    /\ bridge' = Recorded(bridge, Event)
    /\ position' = position + 1
    /\ UNCHANGED <<log, lost, fiber, dispatcher, adapterState, failures, history, boot, faults>>

\* The layer of the bridge is built.
ReplayEnds ==
    /\ dispatcher.at = "replaying"
    /\ position = Len(log)
    /\ dispatcher' = Idle
    /\ UNCHANGED <<log, position, lost, bridge, fiber, adapterState, failures, history, boot, faults>>

DispatcherStep ==
    \/ ReplayEvent \/ ReplayEnds
    \/ ConsiderSessionCreated \/ ConsiderCommand \/ ConsiderSetting \/ ConsiderSessionRemoved
    \/ OpenSession \/ RetryCall \/ CallFails
    \/ \E s \in Sessions : \/ \E k \in Settings : ApplySetting(s, k)
                           \/ \E m \in Keys : DispatchCommand(s, m)

-----------------------------------------------------------------------------
(* Forwarding fibers and adapters *)

\* startSession registers the session, which starts with the adapter's defaults.
Register(s) ==
    /\ fiber[s] = "running" /\ s \notin registered
    /\ registered' = registered \cup {s}
    /\ agent' = [agent EXCEPT ![s] = Nothing]
    /\ UNCHANGED <<log, position, lost, bridge, fiber, dispatcher, failures, history, boot, faults>>

\* The stream ends without an error: the fiber is done, and says nothing.
StreamEnds(s) ==
    /\ fiber[s] = "running" /\ s \in registered
    /\ Fault
    /\ fiber' = [fiber EXCEPT ![s] = "done"]
    /\ registered' = registered \ {s}
    /\ UNCHANGED <<log, position, lost, bridge, dispatcher, agent, failures, history, boot>>

\* startSession, the stream or an append fails: forwardAdapterEvents says so.
StreamFails(s) ==
    /\ fiber[s] = "running"
    /\ Fault
    /\ fiber' = [fiber EXCEPT ![s] = "done"]
    /\ registered' = registered \ {s}
    /\ Raise(s)
    /\ UNCHANGED <<log, position, lost, bridge, dispatcher, agent, history, boot>>

\* The process ends and starts again: only the log is left, to be replayed.  The
\* command in hand and those not considered yet are cut off: replay only claims them.
Restart ==
    /\ boot < MaxCrashes
    /\ boot' = boot + 1
    /\ bridge' = EmptyBridge
    /\ position' = 0
    /\ fiber' = [s \in Sessions |-> "none"]
    /\ dispatcher' = [Idle EXCEPT !.at = "replaying"]
    /\ registered' = {} /\ agent' = [s \in Sessions |-> Nothing]
    /\ failureSeq' = 0
    /\ refused' = {} /\ unopened' = {} /\ lost' = {}
    /\ cut' = IF dispatcher.at = "replaying" THEN cut
              ELSE cut \cup dispatcher.key \cup Unclaimed((position + 1)..Len(log))
    /\ UNCHANGED <<log, recorded, raised, dispatched, failed, dropped, faults>>

Next ==
    \/ \E e \in Events : Commit(e)
    \/ DispatcherStep \/ PassOver \/ RootMissing \/ CallHangs \/ CallResumes
    \/ \E s \in Sessions : Register(s) \/ StreamEnds(s) \/ StreamFails(s)
    \/ Restart

Spec == Init /\ [][Next]_vars

\* The dispatcher runs: the file system answers its calls, and so do the adapters,
\* but for a call that hangs.
FairSpec == Spec /\ WF_vars(DispatcherStep)

-----------------------------------------------------------------------------
(* Properties *)

\* Every variable stays in its domain.
TypeOK ==
    /\ log \in Seq(Events) /\ position \in 0..Len(log) /\ lost \subseteq 1..position
    /\ bridge.adapters \subseteq Sessions /\ bridge.claimed \subseteq Keys
    /\ bridge.chosen \in [Sessions -> [Settings -> Values \cup {Default}]]
    /\ fiber \in [Sessions -> {"none", "running", "done"}]
    /\ dispatcher.at \in {"idle", "opening", "calling", "hung", "replaying"}
    /\ dispatcher.session \subseteq Sessions /\ dispatcher.key \subseteq Keys
    /\ dispatcher.todo \subseteq Settings /\ dispatcher.tries \in 0..Retries
    /\ registered \subseteq Sessions
    /\ agent \in [Sessions -> [Settings -> Values \cup {Default}]]
    /\ failureSeq \in Nat
    /\ dispatched \in [Keys -> Seq([during : Nat \X Nat, answer : {"taken", "failed"}])]
    /\ failed \subseteq Keys /\ cut \subseteq Keys /\ dropped \subseteq Keys
    /\ refused \subseteq Sessions \X Settings /\ unopened \subseteq Sessions
    /\ boot \in Nat /\ faults \in Nat

\* The events the dispatcher has considered in this boot, live or in replay.
Considered == (1..position) \ lost
WasRemoved(s) == \E i \in Considered : log[i] = Removed(s)

\* Is v what the log last set k of session s to, since it was last removed?
LastSet(s, k, v) ==
    LET relevant == {i \in Considered : /\ log[i].session = s
                                        /\ \/ log[i].type = "removed"
                                           \/ log[i].type = "set" /\ log[i].setting = k}
    IN \/ relevant = {} /\ v = Default
       \/ \E i \in relevant : /\ \A j \in relevant : j <= i
                               /\ v = IF log[i].type = "set" THEN log[i].value ELSE Default

\* A prompt, cancel or reply is given to an agent a second time only because the
\* call that gave it failed: a message that is sent again, the replay of a boot and a
\* reopened session give it nothing it was ever given, nothing follows a call that
\* was taken, the retries are bounded, and what was imported is given to no one.
\* (The schedule is meant for a session not registered yet, ProviderBridge.ts:536-538,
\* but only the settings ask whether that is what failed.)
NoWorkTwice ==
    \A m \in Keys :
        LET calls == dispatched[m]
        IN  /\ \A i \in DOMAIN calls : calls[i].during = calls[1].during
            /\ \A i \in DOMAIN calls : i < Len(calls) => calls[i].answer = "failed"
            /\ Len(calls) <= Retries + 1
            /\ calls # <<>> => \E i \in Commands(m) : log[i].origin = "live"

\* Whenever the dispatcher rests, a running agent works with the mode and model
\* the log last chose for it, through restarts, deaths and late registration, if its
\* adapter can be given them at all, and unless the adapter's refusal was reported.
\* A choice the engine never announced counts from the next boot.
AgentRunsWithChosenSettings ==
    dispatcher.at = "idle" =>
        \A s \in registered, k \in Settings :
            <<s, k>> \in Settable => LastSet(s, k, agent[s][k]) \/ <<s, k>> \in refused

\* A session that was archived or deleted keeps no running fiber, and nothing
\* that is committed for it later starts one, in this boot or in another.
RemovedStaysStopped == \A s \in Sessions : WasRemoved(s) => fiber[s] # "running"

\* Event i is a client's command, the first with its key.
FirstCommand(i, m) ==
    /\ i \in Commands(m) /\ log[i].origin = "live"
    /\ \A j \in Commands(m) : i <= j

\* Every command the dispatcher is past, in this boot or by replay, was taken by the
\* adapter, is in hand, or a failure was raised for it.  It is silently gone only if
\* the process ended before it was dealt with or the engine never announced it; if
\* its session was removed before (unarchiving does not bring it back) or was not
\* recorded when it was created in that boot; or if it is a reply the adapter cannot
\* be given.  (ProviderBridge.ts:658-659 takes it that some boot called the adapter
\* for every event that is replayed.)
CommandsAccountedFor ==
    \A m \in Keys : \A i \in 1..position :
        FirstCommand(i, m) =>
            \/ \E c \in DOMAIN dispatched[m] : dispatched[m][c].answer = "taken"
            \/ m \in failed \/ m \in dispatcher.key \/ m \in cut \/ m \in dropped
            \/ \E j \in 1..(i - 1) : log[j] = Removed(log[i].session)
            \/ m \in Replies /\ log[i].session \notin Answerable

\* The store refuses a failure only for an id that an earlier boot used up: the
\* ids of one boot are distinct, whichever fibers raise them.
FailuresRecordedOnceAnId ==
    \A f \in raised : f \in recorded \/ \E g \in recorded : g.id = f.id /\ g.boot < f.boot

\* Every event committed is considered or passed over and the dispatcher comes to
\* rest, although a session never registers, dies or refuses what it is told: only an
\* adapter call that is never answered holds it up, and with it all other sessions.
EveryEventConsidered ==
    position < Len(log) ~> \/ position = Len(log) /\ dispatcher.at = "idle"
                           \/ dispatcher.at = "hung"
=============================================================================
