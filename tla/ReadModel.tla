------------------------------ MODULE ReadModel ------------------------------
(***************************************************************************)
(* The pure core of orchestration: the command invariants (decider.ts,     *)
(* commandInvariants.ts and the acp, git, mcp, terminal and voice          *)
(* deciders) and the fold of events into the command read model            *)
(* (projector.ts).  A command or event is a record with a "type" and the   *)
(* identifiers that type carries; titles, times and other payload that no  *)
(* guard reads are left out.                                               *)
(***************************************************************************)
EXTENDS Naturals, Sequences, SequencesExt

CONSTANTS
    Projects, Sessions, Roots,  \* project ids, session ids, workspace roots
    NoRoot,                     \* the root of a project that does not exist
    MaxMessages,                \* MAX_SESSION_MESSAGES
    MaxCheckpoints              \* MAX_SESSION_CHECKPOINTS

ASSUME RetentionAssumption ==
    /\ MaxMessages \in Nat \ {0}
    /\ MaxCheckpoints \in Nat \ {0}
    /\ NoRoot \notin Roots

NoProject == [status |-> "absent", root |-> NoRoot]
NoSession == [status |-> "absent", archived |-> FALSE, messages |-> <<>>, checkpoints |-> <<>>]

\* createEmptyReadModel: ids are keys, so a row is found by its id.
EmptyReadModel ==
    [projects |-> [p \in Projects |-> NoProject],
     sessions |-> [s \in Sessions |-> NoSession]]

-----------------------------------------------------------------------------
(* The invariants a command must meet, by the guard its decider calls *)

\* decideGit and decideMcp.
GitCommands ==
    {"git.status.refresh", "git.diff.load", "git.blame.load", "git.hunk.accept",
     "git.hunk.reject"}
McpCommands == {"mcp.catalog.resolve", "preconnection.options.load"}

\* requireProject; it is met by a deleted project too.
ProjectCommands ==
    {"project.meta.update", "project.delete", "session.create"}
        \cup GitCommands \cup McpCommands

\* requireSession and nothing else; it is met by an archived or deleted session.
SessionCommands ==
    {"session.delete", "session.resume", "session.fork", "session.close",
     "session.set-model", "session.set-mode", "session.set-autonomous",
     "session.set-config-option", "interaction.reply", "inbound.respond",
     "session.connection.refresh", "session.state.refresh", "transcript.page.read",
     "transcript.viewport.request", "tool.call.observe", "approval.request"}

\* requireSessionNotArchived.
OpenSessionCommands ==
    {"session.meta.update", "session.archive", "message.send", "token.append",
     "turn.cancel", "review.file.markReviewed", "review.session.clear", "terminal.open"}

\* requireCheckpoint.
CheckpointCommands ==
    {"checkpoint.report-readiness", "checkpoint.revert", "checkpoint.revert-file"}

\* requireUnique...Ids over the list the command carries; decideVoice guards
\* nothing else.
VoiceListCommands == {"voice.models.list", "voice.languages.list"}
UniqueIdCommands == {"skills.discover"} \cup VoiceListCommands \cup McpCommands

\* requireFilled: the terminal service has put in what the command lacked.
TerminalCommands == {"terminal.open", "terminal.input", "terminal.resize", "terminal.close"}

ProjectExists(state, p) == state.projects[p].status # "absent"
SessionExists(state, s) == state.sessions[s].status # "absent"
SessionOpen(state, s) == SessionExists(state, s) /\ ~state.sessions[s].archived
HasCheckpoint(state, s, k) == \E i \in DOMAIN state.sessions[s].checkpoints :
                                  state.sessions[s].checkpoints[i] = k

\* Mutants: a deleted project keeps its root, or no root is ever claimed.
RootClaimedByDeleted(state, root) == \E p \in Projects : state.projects[p].root = root
RootNeverClaimed(state, root) == FALSE

\* requireWorkspaceRootAbsent looks at live projects only.
RootClaimed(state, root) ==
    \E p \in Projects : state.projects[p] = [status |-> "live", root |-> root]

\* decide(): a command of any other type (agents, settings, recordings) is
\* accepted in every state.
DecideAccepts(state, c) ==
    /\ c.type \in ProjectCommands => ProjectExists(state, c.project)
    /\ c.type \in SessionCommands => SessionExists(state, c.session)
    /\ c.type \in OpenSessionCommands \cup CheckpointCommands \cup {"checkpoint.create"}
         => SessionOpen(state, c.session)
    /\ c.type \in CheckpointCommands => HasCheckpoint(state, c.session, c.checkpoint)
    /\ c.type = "checkpoint.create" => ~HasCheckpoint(state, c.session, c.checkpoint)
    /\ c.type = "project.create" => /\ ~ProjectExists(state, c.project)
                                    /\ ~RootClaimed(state, c.root)
    /\ c.type = "session.create" => ~SessionExists(state, c.session)
    /\ c.type = "session.unarchive" => /\ SessionExists(state, c.session)
                                       /\ state.sessions[c.session].archived
    /\ c.type \in UniqueIdCommands => IsInjective(c.ids)
    /\ c.type \in TerminalCommands => c.filled

-----------------------------------------------------------------------------
(* projectEvent *)

\* Mutant: the cap keeps the oldest.
RetainOldest(items, n) == IF Len(items) <= n THEN items ELSE SubSeq(items, 1, n)

\* retainNewest keeps the last n items.
RetainNewest(items, n) ==
    IF Len(items) <= n THEN items ELSE SubSeq(items, (Len(items) - n) + 1, Len(items))

CapSessionRetention(session) ==
    [status |-> session.status, archived |-> session.archived,
     messages |-> RetainNewest(session.messages, MaxMessages),
     checkpoints |-> RetainNewest(session.checkpoints, MaxCheckpoints)]

\* Every event caps every session, whatever else it does.
AdvanceReadModelCursor(readModel) ==
    [readModel EXCEPT !.sessions =
        [s \in Sessions |-> CapSessionRetention(readModel.sessions[s])]]

\* upsertMessage: replace the message in its place, or add it as the newest.
UpsertMessage(messages, message) ==
    RetainNewest(
        IF \E i \in DOMAIN messages : messages[i].id = message.id
        THEN [i \in DOMAIN messages |->
                 IF messages[i].id = message.id THEN message ELSE messages[i]]
        ELSE Append(messages, message),
        MaxMessages)

\* Mutant: a token replaces the text of its message.
TextForgotten(messages, id) == <<>>

\* The text a message has so far; a message the cap dropped starts over.
TextSoFar(messages, id) ==
    IF \E i \in DOMAIN messages : messages[i].id = id
    THEN (CHOOSE m \in ToSet(messages) : m.id = id).text
    ELSE <<>>

UpsertCheckpoint(checkpoints, k) ==
    IF Contains(checkpoints, k) THEN checkpoints
    ELSE RetainNewest(Append(checkpoints, k), MaxCheckpoints)

\* updateSession and updateProject touch a row that exists, and no other.
UpdateSession(state, s, next) ==
    IF SessionExists(state, s) THEN [state EXCEPT !.sessions[s] = next] ELSE state
UpdateProject(state, p, next) ==
    IF ProjectExists(state, p) THEN [state EXCEPT !.projects[p] = next] ELSE state

\* Event types without a case here only move the cursor.
ProjectEvent(readModel, e) ==
    LET state == AdvanceReadModelCursor(readModel)
        session == state.sessions[e.session]
        project == state.projects[e.project]
    IN  CASE e.type = "ProjectCreated" ->
               [state EXCEPT !.projects[e.project] = [status |-> "live", root |-> e.root]]
          [] e.type = "ProjectMetaUpdated" ->
               UpdateProject(state, e.project,
                   [project EXCEPT !.root = IF e.root = NoRoot THEN @ ELSE e.root])
          [] e.type = "ProjectDeleted" ->
               UpdateProject(state, e.project, [project EXCEPT !.status = "deleted"])
          [] e.type = "SessionCreated" ->
               [state EXCEPT !.sessions[e.session] = [NoSession EXCEPT !.status = "live"]]
          [] e.type = "SessionArchived" ->
               UpdateSession(state, e.session, [session EXCEPT !.archived = TRUE])
          [] e.type = "SessionUnarchived" ->
               UpdateSession(state, e.session, [session EXCEPT !.archived = FALSE])
          [] e.type = "SessionDeleted" ->
               UpdateSession(state, e.session, [session EXCEPT !.status = "deleted"])
          [] e.type = "MessageSent" ->
               UpdateSession(state, e.session, [session EXCEPT !.messages =
                   UpsertMessage(@, [id |-> e.message, text |-> <<e.token>>])])
          [] e.type = "TokenAppended" ->
               UpdateSession(state, e.session, [session EXCEPT !.messages =
                   UpsertMessage(@, [id |-> e.message,
                                     text |-> Append(TextSoFar(@, e.message), e.token)])])
          [] e.type = "CheckpointCreated" ->
               UpdateSession(state, e.session, [session EXCEPT !.checkpoints =
                   UpsertCheckpoint(@, e.checkpoint)])
          [] OTHER -> state

\* The event type each command decides to, for the types ProjectEvent folds.
EventTypeOf(type) ==
    CASE type = "project.create" -> "ProjectCreated"
      [] type = "project.meta.update" -> "ProjectMetaUpdated"
      [] type = "project.delete" -> "ProjectDeleted"
      [] type = "session.create" -> "SessionCreated"
      [] type = "session.archive" -> "SessionArchived"
      [] type = "session.unarchive" -> "SessionUnarchived"
      [] type = "session.delete" -> "SessionDeleted"
      [] type = "message.send" -> "MessageSent"
      [] type = "token.append" -> "TokenAppended"
      [] type = "checkpoint.create" -> "CheckpointCreated"
      [] OTHER -> "Other"

\* Every decider returns exactly one event, built from the command alone.
DecidedEvent(c) == [c EXCEPT !.type = EventTypeOf(c.type)]
=============================================================================
