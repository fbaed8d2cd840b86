--------------------------- MODULE CommandHistory ---------------------------
(***************************************************************************)
(* The deciders and the projector of ReadModel run against each other: a   *)
(* command is decided on the folded read model and its event is folded in; *)
(* events of a provider session are folded in undecided (appendEvents).    *)
(* The history of every event is kept beside the read model, and what the  *)
(* read model lets through is compared with what the history says.         *)
(***************************************************************************)
EXTENDS ReadModel, FiniteSets

CONSTANTS
    Commands,        \* the commands tried, as records
    ProviderEvents,  \* the events a provider session may append
    MaxHistory       \* bound: events

\* Commands carry the identifiers of their type; a provider session appends
\* messages and tokens, and nothing else that ProjectEvent folds.
ASSUME VocabularyAssumption ==
    /\ \A c \in Commands :
          /\ "type" \in DOMAIN c
          /\ c.type \in ProjectCommands \cup {"project.create"}
               => "project" \in DOMAIN c /\ c.project \in Projects
          /\ c.type = "project.create" => "root" \in DOMAIN c /\ c.root \in Roots
          /\ c.type = "project.meta.update" => "root" \in DOMAIN c /\ c.root \in Roots \cup {NoRoot}
          /\ c.type \in SessionCommands \cup OpenSessionCommands \cup CheckpointCommands
                          \cup {"session.create", "session.unarchive", "checkpoint.create"}
               => "session" \in DOMAIN c /\ c.session \in Sessions
          /\ c.type = "checkpoint.create" => "checkpoint" \in DOMAIN c
    /\ \A e \in ProviderEvents :
          /\ e.type \in {"MessageSent", "TokenAppended", "Other"}
          /\ e.type # "Other" => e.session \in Sessions

VARIABLES
    readModel,  \* the folded state
    history     \* every event committed, in order

vars == <<readModel, history>>

Init ==
    /\ readModel = EmptyReadModel
    /\ history = <<>>

Commit(e) ==
    /\ Len(history) < MaxHistory
    /\ readModel' = ProjectEvent(readModel, e)
    /\ history' = Append(history, e)

Decide(c) == DecideAccepts(readModel, c) /\ Commit(DecidedEvent(c))

\* An invariant that does not hold fails the command; the engine records the
\* rejection, and the read model stays as it is.
Refuse(c) == ~DecideAccepts(readModel, c) /\ UNCHANGED vars

Provide(e) == Commit(e)

Next ==
    \/ \E c \in Commands : Decide(c) \/ Refuse(c)
    \/ \E e \in ProviderEvents : Provide(e)

Spec == Init /\ [][Next]_vars

-----------------------------------------------------------------------------
(* The same questions asked of the history alone *)

Types(S) == {i \in DOMAIN history : history[i].type \in S}
OfProject(S, p) == {i \in Types(S) : history[i].project = p}
OfSession(S, s) == {i \in Types(S) : history[i].session = s}

\* Is the latest event of session s among the types S of the kinds T?
LatestIs(S, T, s) ==
    \E i \in OfSession(T, s) :
        /\ history[i].type \in S
        /\ \A j \in OfSession(T, s) : j <= i

HistoryHasProject(p) == OfProject({"ProjectCreated"}, p) # {}
HistoryHasSession(s) == OfSession({"SessionCreated"}, s) # {}
HistoryArchived(s) == LatestIs({"SessionArchived"}, {"SessionArchived", "SessionUnarchived"}, s)

\* The root the latest event that gave one gave project p.
HistoryRoot(p) ==
    LET given == {i \in OfProject({"ProjectCreated", "ProjectMetaUpdated"}, p) :
                     history[i].root # NoRoot}
    IN  history[CHOOSE i \in given : \A j \in given : j <= i].root

HistoryLive(p) == HistoryHasProject(p) /\ OfProject({"ProjectDeleted"}, p) = {}

\* Only the newest MaxCheckpoints checkpoints of a session can be named.
HistoryHasCheckpoint(s, k) ==
    \E i \in OfSession({"CheckpointCreated"}, s) :
        /\ history[i].checkpoint = k
        /\ Cardinality({j \in OfSession({"CheckpointCreated"}, s) : j > i}) < MaxCheckpoints

HistoryAccepts(c) ==
    /\ c.type \in ProjectCommands => HistoryHasProject(c.project)
    /\ c.type \in SessionCommands => HistoryHasSession(c.session)
    /\ c.type \in OpenSessionCommands \cup CheckpointCommands \cup {"checkpoint.create"}
         => HistoryHasSession(c.session) /\ ~HistoryArchived(c.session)
    /\ c.type \in CheckpointCommands => HistoryHasCheckpoint(c.session, c.checkpoint)
    /\ c.type = "checkpoint.create" => ~HistoryHasCheckpoint(c.session, c.checkpoint)
    /\ c.type = "project.create" =>
         /\ ~HistoryHasProject(c.project)
         /\ \A p \in Projects : HistoryLive(p) => HistoryRoot(p) # c.root
    /\ c.type = "session.create" => ~HistoryHasSession(c.session)
    /\ c.type = "session.unarchive" => HistoryHasSession(c.session) /\ HistoryArchived(c.session)
    /\ c.type \in UniqueIdCommands =>
         \A i, j \in DOMAIN c.ids : i # j => c.ids[i] # c.ids[j]
    /\ c.type \in TerminalCommands => c.filled

-----------------------------------------------------------------------------
(* Properties *)

\* A command is let through on the folded read model exactly when the event
\* history allows it: the projector loses, keeps and forgets what the deciders
\* need, across archive and unarchive, deletion, root moves and the retention
\* caps (projector.ts against commandInvariants.ts).
DecisionsMatchHistory ==
    \A c \in Commands : DecideAccepts(readModel, c) <=> HistoryAccepts(c)

\* The text of a message is the tokens committed for it, in commit order, from
\* its last MessageSent on, as long as the session never held more messages
\* than the cap keeps (projectMessageSent, projectTokenAppended).
TextIsCommittedTokens ==
    \A s \in Sessions :
        LET transcript == OfSession({"MessageSent", "TokenAppended"}, s)
            Pieces(m) ==
                {i \in transcript :
                    /\ history[i].message = m
                    /\ \A j \in transcript :
                         j > i => ~(history[j].message = m /\ history[j].type = "MessageSent")
                    /\ \E n \in OfSession({"SessionCreated"}, s) : n < i}
            ids == {history[i].message : i \in transcript}
            messages == readModel.sessions[s].messages
        IN  Cardinality(ids) <= MaxMessages =>
              /\ {messages[i].id : i \in DOMAIN messages} = {m \in ids : Pieces(m) # {}}
              /\ \A i \in DOMAIN messages :
                    LET pieces == Pieces(messages[i].id)
                    IN  /\ Len(messages[i].text) = Cardinality(pieces)
                        /\ \A n \in pieces :
                              messages[i].text[Cardinality({j \in pieces : j <= n})]
                                  = history[n].token

\* No two live projects share a workspace root, the key the client lists by.
LiveRootsUnique ==
    \A p, q \in Projects :
        /\ readModel.projects[p].status = "live"
        /\ readModel.projects[q].status = "live"
        /\ readModel.projects[p].root = readModel.projects[q].root
        => p = q
=============================================================================
