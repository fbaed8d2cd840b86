------------------------ MODULE CommandHistory_proofs ------------------------
(***************************************************************************)
(* What the deciders let through, for any commands and any number of       *)
(* projects, sessions, roots and events: it is what the event history      *)
(* allows, and live projects keep different roots.                         *)
(***************************************************************************)
EXTENDS CommandHistory, FiniteSetTheorems, TLAPS

-----------------------------------------------------------------------------
(* Types *)

Committed == {DecidedEvent(c) : c \in Commands} \cup ProviderEvents
Ids == {c.checkpoint : c \in Commands}

IsRow(r) ==
    /\ r = [status |-> r.status, archived |-> r.archived, messages |-> r.messages,
            checkpoints |-> r.checkpoints]
    /\ r.archived \in {TRUE, FALSE}
    /\ r.checkpoints \in Seq(Ids)
    /\ Len(r.checkpoints) <= MaxCheckpoints

\* A state and its rows have their fields.
Shape ==
    /\ readModel = [projects |-> readModel.projects, sessions |-> readModel.sessions]
    /\ readModel.sessions = [s \in Sessions |-> readModel.sessions[s]]
    /\ \A s \in Sessions :
          \E status, archived, messages, checkpoints :
              readModel.sessions[s] = [status |-> status, archived |-> archived,
                                       messages |-> messages, checkpoints |-> checkpoints]

TypeInv ==
    /\ history \in Seq(Committed)
    /\ readModel = [projects |-> readModel.projects, sessions |-> readModel.sessions]
    /\ readModel.projects \in
          [Projects -> [status : {"absent", "live", "deleted"}, root : Roots \cup {NoRoot}]]
    /\ readModel.sessions = [s \in Sessions |-> readModel.sessions[s]]
    /\ \A s \in Sessions : IsRow(readModel.sessions[s])

-----------------------------------------------------------------------------
(* What one event does to the rows of projects and of sessions *)

Project(p) == readModel.projects[p]
Session(s) == readModel.sessions[s]

ProjectStep(e) ==
    \/ /\ e.type = "ProjectCreated" /\ e.project \in Projects /\ e.root \in Roots
       /\ ~ProjectExists(readModel, e.project) /\ ~RootClaimed(readModel, e.root)
       /\ readModel'.projects = [readModel.projects EXCEPT ![e.project] =
                                    [status |-> "live", root |-> e.root]]
    \/ /\ e.type = "ProjectMetaUpdated" /\ e.project \in Projects /\ e.root \in Roots \cup {NoRoot}
       /\ ProjectExists(readModel, e.project)
       /\ readModel'.projects = [readModel.projects EXCEPT ![e.project] =
                                    [status |-> Project(e.project).status,
                                     root |-> IF e.root = NoRoot THEN Project(e.project).root
                                              ELSE e.root]]
    \/ /\ e.type = "ProjectDeleted" /\ e.project \in Projects
       /\ ProjectExists(readModel, e.project)
       /\ readModel'.projects = [readModel.projects EXCEPT ![e.project] =
                                    [status |-> "deleted", root |-> Project(e.project).root]]
    \/ /\ e.type \notin {"ProjectCreated", "ProjectMetaUpdated", "ProjectDeleted"}
       /\ readModel'.projects = readModel.projects

\* Row s becomes one with this status, flag and these checkpoints.
RowBecomes(s, status, archived, checkpoints) ==
    /\ Session(s)'.status = status
    /\ Session(s)'.archived = archived
    /\ Session(s)'.checkpoints = checkpoints

RowKept(s) == RowBecomes(s, Session(s).status, Session(s).archived, Session(s).checkpoints)

SessionTypes ==
    {"SessionCreated", "SessionArchived", "SessionUnarchived", "SessionDeleted", "CheckpointCreated"}

RowStep(e, s) ==
    \/ /\ e.type = "SessionCreated"
       /\ ~SessionExists(readModel, s)
       /\ RowBecomes(s, "live", FALSE, <<>>)
    \/ /\ e.type = "SessionArchived"
       /\ SessionExists(readModel, s)
       /\ RowBecomes(s, Session(s).status, TRUE, Session(s).checkpoints)
    \/ /\ e.type = "SessionUnarchived"
       /\ SessionExists(readModel, s)
       /\ RowBecomes(s, Session(s).status, FALSE, Session(s).checkpoints)
    \/ /\ e.type = "SessionDeleted"
       /\ SessionExists(readModel, s)
       /\ RowBecomes(s, "deleted", Session(s).archived, Session(s).checkpoints)
    \/ /\ e.type = "CheckpointCreated" /\ e.checkpoint \in Ids
       /\ SessionExists(readModel, s) /\ ~HasCheckpoint(readModel, s, e.checkpoint)
       /\ RowBecomes(s, Session(s).status, Session(s).archived,
                     RetainNewest(Append(Session(s).checkpoints, e.checkpoint), MaxCheckpoints))

SessionStep(e) ==
    \/ /\ e.type \in SessionTypes /\ e.session \in Sessions
       /\ RowStep(e, e.session)
       /\ \A s \in Sessions \ {e.session} : RowKept(s)
    \/ /\ e.type \notin SessionTypes
       /\ \A s \in Sessions : RowKept(s)

Steps(e) ==
    /\ e \in Committed
    /\ history' = Append(history, e)
    /\ ProjectStep(e) /\ SessionStep(e) /\ Shape'

\* The cap changes no checkpoints of a row that keeps to it.
Capped == AdvanceReadModelCursor(readModel)

LEMMA CapKeepsRows ==
    ASSUME TypeInv
    PROVE  /\ Capped = [projects |-> readModel.projects, sessions |-> Capped.sessions]
           /\ Capped.sessions = [s \in Sessions |-> Capped.sessions[s]]
           /\ \A s \in Sessions :
                 /\ IsRow(Capped.sessions[s])
                 /\ Capped.sessions[s].status = Session(s).status
                 /\ Capped.sessions[s].archived = Session(s).archived
                 /\ Capped.sessions[s].checkpoints = Session(s).checkpoints
  <1> DEFINE rows == [s \in Sessions |-> CapSessionRetention(readModel.sessions[s])]
  <1>1. [readModel EXCEPT !.sessions = rows] = [projects |-> readModel.projects, sessions |-> rows]
    <2> HIDE DEF rows
    <2> QED
      BY DEF TypeInv
  <1>2. Capped = [projects |-> readModel.projects, sessions |-> rows]
    BY <1>1 DEF Capped, AdvanceReadModelCursor
  <1>3. ASSUME NEW s \in Sessions
        PROVE  /\ IsRow(rows[s])
               /\ rows[s].status = Session(s).status
               /\ rows[s].archived = Session(s).archived
               /\ rows[s].checkpoints = Session(s).checkpoints
    <2>1. RetainNewest(Session(s).checkpoints, MaxCheckpoints) = Session(s).checkpoints
      BY DEF TypeInv, IsRow, RetainNewest, Session
    <2>2. rows[s] = [status |-> Session(s).status, archived |-> Session(s).archived,
                     messages |-> RetainNewest(Session(s).messages, MaxMessages),
                     checkpoints |-> Session(s).checkpoints]
      BY <2>1 DEF CapSessionRetention, Session
    <2> HIDE DEF rows
    <2>3. /\ Session(s).archived \in {TRUE, FALSE} /\ Session(s).checkpoints \in Seq(Ids)
          /\ Len(Session(s).checkpoints) <= MaxCheckpoints
      BY DEF TypeInv, IsRow, Session
    <2>4. /\ rows[s].status = Session(s).status
          /\ rows[s].archived = Session(s).archived
          /\ rows[s].messages = RetainNewest(Session(s).messages, MaxMessages)
          /\ rows[s].checkpoints = Session(s).checkpoints
      BY <2>2
    <2> QED
      BY <2>2, <2>3, <2>4 DEF IsRow
  <1>4. Capped.sessions = rows
    BY <1>2
  <1> HIDE DEF rows
  <1>5. rows = [s \in Sessions |-> rows[s]]
    BY DEF rows
  <1> QED
    BY <1>2, <1>3, <1>4, <1>5

\* A record of rows with one row replaced.
LEMMA SetSession ==
    ASSUME NEW state, state = [projects |-> state.projects, sessions |-> state.sessions],
           NEW s \in Sessions, NEW row
    PROVE  [state EXCEPT !.sessions[s] = row] =
              [projects |-> state.projects, sessions |-> [state.sessions EXCEPT ![s] = row]]
  <1> DEFINE rows == [state.sessions EXCEPT ![s] = row]
  <1>1. [state EXCEPT !.sessions[s] = row] = [state EXCEPT !.sessions = rows]
    OBVIOUS
  <1>2. [state EXCEPT !.sessions = rows] = [projects |-> state.projects, sessions |-> rows]
    <2> HIDE DEF rows
    <2> QED
      OBVIOUS
  <1> QED
    BY <1>1, <1>2

LEMMA SetProject ==
    ASSUME NEW state, state = [projects |-> state.projects, sessions |-> state.sessions],
           NEW p \in Projects, NEW row
    PROVE  [state EXCEPT !.projects[p] = row] =
              [projects |-> [state.projects EXCEPT ![p] = row], sessions |-> state.sessions]
  <1> DEFINE rows == [state.projects EXCEPT ![p] = row]
  <1>1. [state EXCEPT !.projects[p] = row] = [state EXCEPT !.projects = rows]
    OBVIOUS
  <1>2. [state EXCEPT !.projects = rows] = [projects |-> rows, sessions |-> state.sessions]
    <2> HIDE DEF rows
    <2> QED
      OBVIOUS
  <1> QED
    BY <1>1, <1>2

\* The state an event is folded to.
FoldsTo(e, projects, sessions) ==
    ProjectEvent(readModel, e) = [projects |-> projects, sessions |-> sessions]

LEMMA ExistsKept ==
    ASSUME TypeInv
    PROVE  /\ \A p : ProjectExists(Capped, p) <=> ProjectExists(readModel, p)
           /\ \A s \in Sessions : SessionExists(Capped, s) <=> SessionExists(readModel, s)
           /\ Capped.projects = readModel.projects
  <1>1. Capped.projects = readModel.projects
    BY CapKeepsRows
  <1> QED
    BY <1>1, CapKeepsRows DEF ProjectExists, SessionExists, Session

LEMMA FoldProject ==
    ASSUME TypeInv, NEW e, e.project \in Projects,
           ProjectExists(readModel, e.project) \/ e.type = "ProjectCreated"
    PROVE  /\ e.type = "ProjectCreated" =>
                FoldsTo(e, [readModel.projects EXCEPT ![e.project] =
                               [status |-> "live", root |-> e.root]], Capped.sessions)
           /\ e.type = "ProjectMetaUpdated" =>
                FoldsTo(e, [readModel.projects EXCEPT ![e.project] =
                               [status |-> Project(e.project).status,
                                root |-> IF e.root = NoRoot THEN Project(e.project).root
                                         ELSE e.root]], Capped.sessions)
           /\ e.type = "ProjectDeleted" =>
                FoldsTo(e, [readModel.projects EXCEPT ![e.project] =
                               [status |-> "deleted", root |-> Project(e.project).root]],
                        Capped.sessions)
  <1> DEFINE p == e.project
  <1>1. ASSUME NEW row
        PROVE  [Capped EXCEPT !.projects[p] = row] =
                  [projects |-> [readModel.projects EXCEPT ![p] = row], sessions |-> Capped.sessions]
    BY CapKeepsRows, ExistsKept, SetProject
  <1>2. Capped.projects[p] = Project(p) /\ Project(p) = [status |-> Project(p).status, root |-> Project(p).root]
    BY ExistsKept DEF TypeInv, Project
  <1>3. CASE e.type = "ProjectCreated"
    <2>1. ProjectEvent(readModel, e) =
             [Capped EXCEPT !.projects[p] = [status |-> "live", root |-> e.root]]
      BY <1>3 DEF ProjectEvent, Capped
    <2> QED
      BY <1>1, <1>3, <2>1 DEF FoldsTo
  <1>4. CASE e.type = "ProjectMetaUpdated"
    <2> DEFINE root == IF e.root = NoRoot THEN Project(p).root ELSE e.root
    <2>1. [Project(p) EXCEPT !.root = root] = [status |-> Project(p).status, root |-> root]
      <3> HIDE DEF root
      <3> QED
        BY <1>2
    <2>2. ProjectEvent(readModel, e) = UpdateProject(Capped, p, [Project(p) EXCEPT !.root = root])
      BY <1>2, <1>4 DEF ProjectEvent, Capped
    <2>3. UpdateProject(Capped, p, [status |-> Project(p).status, root |-> root]) =
             [Capped EXCEPT !.projects[p] = [status |-> Project(p).status, root |-> root]]
      BY <1>4, ExistsKept DEF UpdateProject
    <2> QED
      BY <1>1, <1>4, <2>1, <2>2, <2>3 DEF FoldsTo
  <1>5. CASE e.type = "ProjectDeleted"
    <2>1. [Project(p) EXCEPT !.status = "deleted"] = [status |-> "deleted", root |-> Project(p).root]
      BY <1>2
    <2>2. ProjectEvent(readModel, e) = UpdateProject(Capped, p, [Project(p) EXCEPT !.status = "deleted"])
      BY <1>2, <1>5 DEF ProjectEvent, Capped
    <2>3. UpdateProject(Capped, p, [status |-> "deleted", root |-> Project(p).root]) =
             [Capped EXCEPT !.projects[p] = [status |-> "deleted", root |-> Project(p).root]]
      BY <1>5, ExistsKept DEF UpdateProject
    <2> QED
      BY <1>1, <1>5, <2>1, <2>2, <2>3 DEF FoldsTo
  <1> QED
    BY <1>3, <1>4, <1>5

\* What a row becomes, if it is there or is created.
NewRow(e, row) ==
    LET old == Session(e.session)
        Is(status, archived, checkpoints) ==
            \E messages : row = [status |-> status, archived |-> archived,
                                 messages |-> messages, checkpoints |-> checkpoints]
    IN  /\ e.type = "SessionCreated" => Is("live", FALSE, <<>>)
        /\ e.type = "SessionArchived" => Is(old.status, TRUE, old.checkpoints)
        /\ e.type = "SessionUnarchived" => Is(old.status, FALSE, old.checkpoints)
        /\ e.type = "SessionDeleted" => Is("deleted", old.archived, old.checkpoints)
        /\ e.type = "CheckpointCreated" =>
              Is(old.status, old.archived,
                 IF HasCheckpoint(readModel, e.session, e.checkpoint) THEN old.checkpoints
                 ELSE RetainNewest(Append(old.checkpoints, e.checkpoint), MaxCheckpoints))
        /\ e.type \in {"MessageSent", "TokenAppended"} =>
              Is(old.status, old.archived, old.checkpoints)

RowTypes == SessionTypes \cup {"MessageSent", "TokenAppended"}

LEMMA FoldSession ==
    ASSUME TypeInv, NEW e, e.session \in Sessions, e.type \in RowTypes,
           SessionExists(readModel, e.session) \/ e.type = "SessionCreated"
    PROVE  \E row : /\ FoldsTo(e, readModel.projects, [Capped.sessions EXCEPT ![e.session] = row])
                    /\ NewRow(e, row)
  <1> DEFINE s == e.session
             r == Capped.sessions[s]
  <1>1. ASSUME NEW row
        PROVE  [Capped EXCEPT !.sessions[s] = row] =
                  [projects |-> readModel.projects, sessions |-> [Capped.sessions EXCEPT ![s] = row]]
    BY CapKeepsRows, ExistsKept, SetSession
  <1>2. /\ r = [status |-> r.status, archived |-> r.archived, messages |-> r.messages,
                checkpoints |-> r.checkpoints]
        /\ r.status = Session(s).status /\ r.archived = Session(s).archived
        /\ r.checkpoints = Session(s).checkpoints
    BY CapKeepsRows DEF IsRow
  <1>3. ASSUME NEW row, ProjectEvent(readModel, e) = [Capped EXCEPT !.sessions[s] = row]
        PROVE  FoldsTo(e, readModel.projects, [Capped.sessions EXCEPT ![s] = row])
    BY <1>1, <1>3 DEF FoldsTo
  <1>4. ASSUME NEW row, SessionExists(readModel, s),
               ProjectEvent(readModel, e) = UpdateSession(Capped, s, row)
        PROVE  FoldsTo(e, readModel.projects, [Capped.sessions EXCEPT ![s] = row])
    BY <1>3, <1>4, ExistsKept DEF UpdateSession
  <1> HIDE DEF r
  <1>5. CASE e.type = "SessionCreated"
    <2> DEFINE row == [NoSession EXCEPT !.status = "live"]
    <2>1. ProjectEvent(readModel, e) = [Capped EXCEPT !.sessions[s] = row]
      BY <1>5 DEF ProjectEvent, Capped
    <2>2. row = [status |-> "live", archived |-> FALSE, messages |-> <<>>, checkpoints |-> <<>>]
      <3>1. ASSUME NEW x
            PROVE  [[status |-> "absent", archived |-> x, messages |-> <<>>, checkpoints |-> <<>>]
                       EXCEPT !.status = "live"] =
                      [status |-> "live", archived |-> x, messages |-> <<>>, checkpoints |-> <<>>]
        OBVIOUS
      <3> QED
        BY <3>1, Zenon DEF NoSession
    <2> HIDE DEF row
    <2>3. NewRow(e, row)
      BY <1>5, <2>2 DEF NewRow
    <2> QED
      BY <1>3, <2>1, <2>3
  <1>6. CASE e.type = "SessionArchived"
    <2> DEFINE row == [r EXCEPT !.archived = TRUE]
    <2>1. ProjectEvent(readModel, e) = UpdateSession(Capped, s, row)
      BY <1>6 DEF ProjectEvent, Capped, r
    <2>2. row = [status |-> r.status, archived |-> TRUE, messages |-> r.messages,
                 checkpoints |-> r.checkpoints]
      <3>1. ASSUME NEW x
            PROVE  [r EXCEPT !.archived = x] =
                      [status |-> r.status, archived |-> x, messages |-> r.messages,
                       checkpoints |-> r.checkpoints]
        BY <1>2
      <3> QED
        BY <3>1, Zenon
    <2> HIDE DEF row
    <2>3. NewRow(e, row)
      BY <1>2, <1>6, <2>2 DEF NewRow
    <2> QED
      BY <1>4, <1>6, <2>1, <2>3
  <1>7. CASE e.type = "SessionUnarchived"
    <2> DEFINE row == [r EXCEPT !.archived = FALSE]
    <2>1. ProjectEvent(readModel, e) = UpdateSession(Capped, s, row)
      BY <1>7 DEF ProjectEvent, Capped, r
    <2>2. row = [status |-> r.status, archived |-> FALSE, messages |-> r.messages,
                 checkpoints |-> r.checkpoints]
      <3>1. ASSUME NEW x
            PROVE  [r EXCEPT !.archived = x] =
                      [status |-> r.status, archived |-> x, messages |-> r.messages,
                       checkpoints |-> r.checkpoints]
        BY <1>2
      <3> QED
        BY <3>1, Zenon
    <2> HIDE DEF row
    <2>3. NewRow(e, row)
      BY <1>2, <1>7, <2>2 DEF NewRow
    <2> QED
      BY <1>4, <1>7, <2>1, <2>3
  <1>8. CASE e.type = "SessionDeleted"
    <2> DEFINE row == [r EXCEPT !.status = "deleted"]
    <2>1. ProjectEvent(readModel, e) = UpdateSession(Capped, s, row)
      BY <1>8 DEF ProjectEvent, Capped, r
    <2>2. row = [status |-> "deleted", archived |-> r.archived, messages |-> r.messages,
                 checkpoints |-> r.checkpoints]
      BY <1>2
    <2> HIDE DEF row
    <2>3. NewRow(e, row)
      BY <1>2, <1>8, <2>2 DEF NewRow
    <2> QED
      BY <1>4, <1>8, <2>1, <2>3
  <1>9. CASE e.type = "CheckpointCreated"
    <2> DEFINE k == UpsertCheckpoint(r.checkpoints, e.checkpoint)
               row == [r EXCEPT !.checkpoints = k]
    <2>1. ProjectEvent(readModel, e) = UpdateSession(Capped, s, row)
      BY <1>9 DEF ProjectEvent, Capped, r
    <2>2. row = [status |-> r.status, archived |-> r.archived, messages |-> r.messages,
                 checkpoints |-> k]
      <3> HIDE DEF k
      <3> QED
        BY <1>2
    <2>3. Contains(r.checkpoints, e.checkpoint) <=> HasCheckpoint(readModel, s, e.checkpoint)
      <3>1. r.checkpoints \in Seq(Ids)
        BY <1>2 DEF TypeInv, IsRow, Session
      <3> QED
        BY <1>2, <3>1 DEF Contains, HasCheckpoint, Session
    <2>4. k = IF HasCheckpoint(readModel, s, e.checkpoint) THEN Session(s).checkpoints
              ELSE RetainNewest(Append(Session(s).checkpoints, e.checkpoint), MaxCheckpoints)
      BY <1>2, <2>3 DEF UpsertCheckpoint
    <2> HIDE DEF row, k
    <2>5. NewRow(e, row)
      BY <1>2, <1>9, <2>2, <2>4 DEF NewRow
    <2> QED
      BY <1>4, <1>9, <2>1, <2>5
  <1>10. CASE e.type = "MessageSent"
    <2> DEFINE m == UpsertMessage(r.messages, [id |-> e.message, text |-> <<e.token>>])
               row == [r EXCEPT !.messages = m]
    <2>1. ProjectEvent(readModel, e) = UpdateSession(Capped, s, row)
      BY <1>10 DEF ProjectEvent, Capped, r
    <2>2. row = [status |-> r.status, archived |-> r.archived, messages |-> m,
                 checkpoints |-> r.checkpoints]
      <3> HIDE DEF m
      <3> QED
        BY <1>2
    <2> HIDE DEF row, m
    <2>3. NewRow(e, row)
      BY <1>2, <1>10, <2>2 DEF NewRow
    <2> QED
      BY <1>4, <1>10, <2>1, <2>3
  <1>11. CASE e.type = "TokenAppended"
    <2> DEFINE m == UpsertMessage(r.messages,
                        [id |-> e.message,
                         text |-> Append(TextSoFar(r.messages, e.message), e.token)])
               row == [r EXCEPT !.messages = m]
    <2>1. ProjectEvent(readModel, e) = UpdateSession(Capped, s, row)
      BY <1>11 DEF ProjectEvent, Capped, r
    <2>2. row = [status |-> r.status, archived |-> r.archived, messages |-> m,
                 checkpoints |-> r.checkpoints]
      <3> HIDE DEF m
      <3> QED
        BY <1>2
    <2> HIDE DEF row, m
    <2>3. NewRow(e, row)
      BY <1>2, <1>11, <2>2 DEF NewRow
    <2> QED
      BY <1>4, <1>11, <2>1, <2>3
  <1> QED
    BY <1>5, <1>6, <1>7, <1>8, <1>9, <1>10, <1>11 DEF RowTypes, SessionTypes

\* Other events, and messages of a session that is not there, cap and no more.
LEMMA FoldOther ==
    ASSUME TypeInv, NEW e,
           \/ e.type \notin RowTypes \cup {"ProjectCreated", "ProjectMetaUpdated", "ProjectDeleted"}
           \/ /\ e.type \in {"MessageSent", "TokenAppended"}
              /\ e.session \in Sessions /\ ~SessionExists(readModel, e.session)
    PROVE  ProjectEvent(readModel, e) = Capped
  <1>1. CASE e.type \notin RowTypes \cup {"ProjectCreated", "ProjectMetaUpdated", "ProjectDeleted"}
    BY <1>1 DEF ProjectEvent, Capped, RowTypes, SessionTypes
  <1>2. ASSUME e.session \in Sessions, ~SessionExists(readModel, e.session), NEW row
        PROVE  UpdateSession(Capped, e.session, row) = Capped
    BY <1>2, ExistsKept DEF UpdateSession
  <1>3. ASSUME e.type = "MessageSent"
        PROVE  \E row : ProjectEvent(readModel, e) = UpdateSession(Capped, e.session, row)
    BY <1>3 DEF ProjectEvent, Capped
  <1>4. ASSUME e.type = "TokenAppended"
        PROVE  \E row : ProjectEvent(readModel, e) = UpdateSession(Capped, e.session, row)
    BY <1>4 DEF ProjectEvent, Capped
  <1> QED
    BY <1>1, <1>2, <1>3, <1>4

\* An event is built from its command alone.
LEMMA DecidedFields ==
    ASSUME NEW c \in Commands
    PROVE  /\ DecidedEvent(c) \in Committed
           /\ DecidedEvent(c).type = EventTypeOf(c.type)
           /\ "project" \in DOMAIN c => DecidedEvent(c).project = c.project
           /\ "root" \in DOMAIN c => DecidedEvent(c).root = c.root
           /\ "session" \in DOMAIN c => DecidedEvent(c).session = c.session
           /\ "checkpoint" \in DOMAIN c => DecidedEvent(c).checkpoint = c.checkpoint
  <1>1. "type" \in DOMAIN c
    BY VocabularyAssumption
  <1> QED
    BY <1>1 DEF DecidedEvent, Committed

-----------------------------------------------------------------------------
(* Every step commits one such event, or nothing *)

LEMMA RowFields ==
    ASSUME NEW r, IsRow(r)
    PROVE  \E status, archived, messages, checkpoints :
              r = [status |-> status, archived |-> archived, messages |-> messages,
                   checkpoints |-> checkpoints]
  BY Zenon DEF IsRow

\* A fold that leaves the sessions capped keeps every row.
LEMMA RowsCapped ==
    ASSUME TypeInv, NEW projects,
           readModel' = [projects |-> projects, sessions |-> Capped.sessions]
    PROVE  /\ readModel'.projects = projects
           /\ Shape'
           /\ \A s \in Sessions : RowKept(s)
  <1>1. readModel'.projects = projects /\ readModel'.sessions = Capped.sessions
    OBVIOUS
  <1>2. \A s \in Sessions : RowKept(s)
    BY <1>1, CapKeepsRows DEF RowKept, RowBecomes, Session
  <1>3. Shape'
    <2>1. ASSUME NEW s \in Sessions
          PROVE  \E a, b, m, k : readModel'.sessions[s] =
                    [status |-> a, archived |-> b, messages |-> m, checkpoints |-> k]
      <3>1. IsRow(Capped.sessions[s])
        BY CapKeepsRows
      <3> QED
        BY <1>1, <3>1, RowFields, Zenon
    <2>2. /\ readModel' = [projects |-> readModel'.projects, sessions |-> readModel'.sessions]
          /\ readModel'.sessions = [s \in Sessions |-> readModel'.sessions[s]]
      BY <1>1, CapKeepsRows
    <2> QED
      BY <2>1, <2>2, Zenon DEF Shape
  <1> QED
    BY <1>1, <1>2, <1>3

\* And one that sets a row beside keeps the others.
LEMMA RowSet ==
    ASSUME TypeInv, NEW s \in Sessions, NEW row,
           NEW status, NEW archived, NEW messages, NEW checkpoints,
           row = [status |-> status, archived |-> archived, messages |-> messages,
                  checkpoints |-> checkpoints],
           readModel' = [projects |-> readModel.projects,
                         sessions |-> [Capped.sessions EXCEPT ![s] = row]]
    PROVE  /\ readModel'.projects = readModel.projects
           /\ Shape'
           /\ RowBecomes(s, status, archived, checkpoints)
           /\ \A t \in Sessions \ {s} : RowKept(t)
  <1>1. /\ readModel'.projects = readModel.projects
        /\ readModel'.sessions = [Capped.sessions EXCEPT ![s] = row]
    OBVIOUS
  <1>2. /\ readModel'.sessions = [t \in Sessions |-> readModel'.sessions[t]]
        /\ readModel'.sessions[s] = row
        /\ \A t \in Sessions \ {s} : readModel'.sessions[t] = Capped.sessions[t]
    BY <1>1, CapKeepsRows
  <1>3. RowBecomes(s, status, archived, checkpoints)
    BY <1>2 DEF RowBecomes, Session
  <1>4. \A t \in Sessions \ {s} : RowKept(t)
    BY <1>2, CapKeepsRows DEF RowKept, RowBecomes, Session
  <1>5. ASSUME NEW t \in Sessions
        PROVE  \E a, b, m, k : readModel'.sessions[t] =
                  [status |-> a, archived |-> b, messages |-> m, checkpoints |-> k]
    <2>1. CASE t = s
      BY <1>2, <2>1
    <2>2. CASE t # s
      <3>1. IsRow(Capped.sessions[t]) /\ readModel'.sessions[t] = Capped.sessions[t]
        BY <1>2, <2>2, CapKeepsRows
      <3> QED
        BY <3>1, RowFields, Zenon
    <2> QED
      BY <2>1, <2>2
  <1> QED
    BY <1>1, <1>2, <1>3, <1>4, <1>5 DEF Shape

LEMMA ProjectDecided ==
    ASSUME TypeInv, NEW c \in Commands, Decide(c),
           c.type \in {"project.create", "project.meta.update", "project.delete"}
    PROVE  Steps(DecidedEvent(c))
  <1> DEFINE e == DecidedEvent(c)
  <1>1. /\ e \in Committed /\ e.type = EventTypeOf(c.type)
        /\ e.project = c.project /\ c.project \in Projects
        /\ c.type \in {"project.create", "project.meta.update"} => e.root = c.root
    BY DecidedFields, VocabularyAssumption DEF ProjectCommands
  <1>2. history' = Append(history, e) /\ readModel' = ProjectEvent(readModel, e)
    BY DEF Decide, Commit
  <1>3. DecideAccepts(readModel, c)
    BY DEF Decide
  <1> HIDE DEF e
  <1>4. CASE c.type = "project.create"
    <2>1. e.type = "ProjectCreated" /\ e.root \in Roots
      BY <1>1, <1>4, VocabularyAssumption DEF EventTypeOf
    <2>2. ~ProjectExists(readModel, e.project) /\ ~RootClaimed(readModel, e.root)
      BY <1>1, <1>3, <1>4 DEF DecideAccepts
    <2> DEFINE projects == [readModel.projects EXCEPT ![e.project] = [status |-> "live", root |-> e.root]]
    <2>3. readModel' = [projects |-> projects, sessions |-> Capped.sessions]
      BY <1>1, <1>2, <2>1, FoldProject DEF FoldsTo
    <2> HIDE DEF projects
    <2>4. readModel'.projects = projects /\ Shape' /\ \A s \in Sessions : RowKept(s)
      BY <2>3, RowsCapped
    <2>5. ProjectStep(e)
      BY <1>1, <2>1, <2>2, <2>4 DEF ProjectStep, projects
    <2>6. SessionStep(e)
      BY <2>1, <2>4 DEF SessionStep, SessionTypes
    <2> QED
      BY <1>1, <1>2, <2>4, <2>5, <2>6 DEF Steps, e
  <1>5. CASE c.type = "project.meta.update"
    <2>1. e.type = "ProjectMetaUpdated" /\ e.root \in Roots \cup {NoRoot}
      BY <1>1, <1>5, VocabularyAssumption DEF EventTypeOf
    <2>2. ProjectExists(readModel, e.project)
      BY <1>1, <1>3, <1>5 DEF DecideAccepts, ProjectCommands
    <2> DEFINE projects == [readModel.projects EXCEPT ![e.project] =
                               [status |-> Project(e.project).status,
                                root |-> IF e.root = NoRoot THEN Project(e.project).root
                                         ELSE e.root]]
    <2>3. readModel' = [projects |-> projects, sessions |-> Capped.sessions]
      BY <1>1, <1>2, <2>1, <2>2, FoldProject DEF FoldsTo
    <2> HIDE DEF projects
    <2>4. readModel'.projects = projects /\ Shape' /\ \A s \in Sessions : RowKept(s)
      BY <2>3, RowsCapped
    <2>5. ProjectStep(e)
      BY <1>1, <2>1, <2>2, <2>4 DEF ProjectStep, projects
    <2>6. SessionStep(e)
      BY <2>1, <2>4 DEF SessionStep, SessionTypes
    <2> QED
      BY <1>1, <1>2, <2>4, <2>5, <2>6 DEF Steps, e
  <1>6. CASE c.type = "project.delete"
    <2>1. e.type = "ProjectDeleted"
      BY <1>1, <1>6 DEF EventTypeOf
    <2>2. ProjectExists(readModel, e.project)
      BY <1>1, <1>3, <1>6 DEF DecideAccepts, ProjectCommands
    <2> DEFINE projects == [readModel.projects EXCEPT ![e.project] =
                               [status |-> "deleted", root |-> Project(e.project).root]]
    <2>3. readModel' = [projects |-> projects, sessions |-> Capped.sessions]
      BY <1>1, <1>2, <2>1, <2>2, FoldProject DEF FoldsTo
    <2> HIDE DEF projects
    <2>4. readModel'.projects = projects /\ Shape' /\ \A s \in Sessions : RowKept(s)
      BY <2>3, RowsCapped
    <2>5. ProjectStep(e)
      BY <1>1, <2>1, <2>2, <2>4 DEF ProjectStep, projects
    <2>6. SessionStep(e)
      BY <2>1, <2>4 DEF SessionStep, SessionTypes
    <2> QED
      BY <1>1, <1>2, <2>4, <2>5, <2>6 DEF Steps, e
  <1> QED
    BY <1>4, <1>5, <1>6

\* What an event that is about a row of a session commits.
LEMMA RowCommitted ==
    ASSUME TypeInv, NEW e \in Committed, Commit(e),
           e.type \in RowTypes, e.session \in Sessions,
           SessionExists(readModel, e.session) \/ e.type = "SessionCreated",
           e.type = "SessionCreated" => ~SessionExists(readModel, e.session),
           e.type = "CheckpointCreated" =>
               e.checkpoint \in Ids /\ ~HasCheckpoint(readModel, e.session, e.checkpoint)
    PROVE  Steps(e)
  <1>1. history' = Append(history, e) /\ readModel' = ProjectEvent(readModel, e)
    BY DEF Commit
  <1>2. PICK row : /\ readModel' = [projects |-> readModel.projects,
                                    sessions |-> [Capped.sessions EXCEPT ![e.session] = row]]
                   /\ NewRow(e, row)
    BY <1>1, FoldSession DEF FoldsTo
  <1>3. PICK status, archived, messages, checkpoints :
            /\ row = [status |-> status, archived |-> archived, messages |-> messages,
                      checkpoints |-> checkpoints]
            /\ e.type \in SessionTypes =>
                  (RowBecomes(e.session, status, archived, checkpoints) => RowStep(e, e.session))
            /\ e.type \notin SessionTypes =>
                  (RowBecomes(e.session, status, archived, checkpoints) => RowKept(e.session))
    <2>1. CASE e.type = "SessionCreated"
      BY <1>2, <2>1 DEF NewRow, RowStep, SessionTypes
    <2>2. CASE e.type = "SessionArchived"
      <3>1. PICK m : row = [status |-> Session(e.session).status, archived |-> TRUE, messages |-> m,
                            checkpoints |-> Session(e.session).checkpoints]
        BY <1>2, <2>2 DEF NewRow
      <3>2. /\ e.type \in SessionTypes
            /\ RowBecomes(e.session, Session(e.session).status, TRUE, Session(e.session).checkpoints)
                 => RowStep(e, e.session)
        BY <2>2 DEF RowStep, SessionTypes
      <3> QED
        BY <3>1, <3>2, Zenon
    <2>3. CASE e.type = "SessionUnarchived"
      <3>1. PICK m : row = [status |-> Session(e.session).status, archived |-> FALSE, messages |-> m,
                            checkpoints |-> Session(e.session).checkpoints]
        BY <1>2, <2>3 DEF NewRow
      <3>2. /\ e.type \in SessionTypes
            /\ RowBecomes(e.session, Session(e.session).status, FALSE, Session(e.session).checkpoints)
                 => RowStep(e, e.session)
        BY <2>3 DEF RowStep, SessionTypes
      <3> QED
        BY <3>1, <3>2, Zenon
    <2>4. CASE e.type = "SessionDeleted"
      BY <1>2, <2>4 DEF NewRow, RowStep, SessionTypes
    <2>5. CASE e.type = "CheckpointCreated"
      BY <1>2, <2>5 DEF NewRow, RowStep, SessionTypes
    <2>6. CASE e.type \in {"MessageSent", "TokenAppended"}
      BY <1>2, <2>6 DEF NewRow, RowKept, SessionTypes
    <2> QED
      BY <2>1, <2>2, <2>3, <2>4, <2>5, <2>6 DEF RowTypes, SessionTypes
  <1>4. /\ readModel'.projects = readModel.projects
        /\ Shape'
        /\ RowBecomes(e.session, status, archived, checkpoints)
        /\ \A t \in Sessions \ {e.session} : RowKept(t)
    BY <1>2, <1>3, RowSet
  <1>5. ProjectStep(e)
    BY <1>4 DEF ProjectStep, RowTypes, SessionTypes
  <1>6. SessionStep(e)
    BY <1>3, <1>4 DEF SessionStep
  <1> QED
    BY <1>1, <1>4, <1>5, <1>6 DEF Steps

\* What any other event commits.
LEMMA OtherCommitted ==
    ASSUME TypeInv, NEW e \in Committed, Commit(e),
           e.type \notin SessionTypes \cup {"ProjectCreated", "ProjectMetaUpdated", "ProjectDeleted"},
           e.type \in {"MessageSent", "TokenAppended"} =>
               e.session \in Sessions /\ ~SessionExists(readModel, e.session)
    PROVE  Steps(e)
  <1>1. history' = Append(history, e) /\ readModel' = ProjectEvent(readModel, e)
    BY DEF Commit
  <1>2. readModel' = Capped
    BY <1>1, FoldOther DEF RowTypes
  <1>3. readModel' = [projects |-> readModel.projects, sessions |-> Capped.sessions]
    BY <1>2, CapKeepsRows
  <1>4. readModel'.projects = readModel.projects /\ Shape' /\ \A s \in Sessions : RowKept(s)
    BY <1>3, RowsCapped
  <1> QED
    BY <1>1, <1>4 DEF Steps, ProjectStep, SessionStep

LEMMA SessionDecided ==
    ASSUME TypeInv, NEW c \in Commands, Decide(c),
           c.type \notin {"project.create", "project.meta.update", "project.delete"}
    PROVE  Steps(DecidedEvent(c))
  <1> DEFINE e == DecidedEvent(c)
  <1>1. e \in Committed /\ e.type = EventTypeOf(c.type)
    BY DecidedFields
  <1>2. Commit(e) /\ DecideAccepts(readModel, c)
    BY DEF Decide
  <1>3. e.type \in RowTypes \/ e.type = "Other"
    BY <1>1 DEF EventTypeOf, RowTypes, SessionTypes
  <1>4. CASE e.type = "Other"
    BY <1>1, <1>2, <1>4, OtherCommitted DEF SessionTypes
  <1>5. CASE e.type \in RowTypes
    <2>1. c.type \in {"session.create", "session.archive", "session.unarchive", "session.delete",
                      "message.send", "token.append", "checkpoint.create"}
      BY <1>1, <1>5 DEF EventTypeOf, RowTypes, SessionTypes
    <2>2. e.session = c.session /\ c.session \in Sessions
      BY <2>1, DecidedFields, VocabularyAssumption DEF SessionCommands, OpenSessionCommands
    <2>3. e.type = "SessionCreated" <=> c.type = "session.create"
      BY <1>1, <2>1 DEF EventTypeOf
    <2>4. e.type = "CheckpointCreated" <=> c.type = "checkpoint.create"
      BY <1>1, <2>1 DEF EventTypeOf
    <2>5. c.type # "session.create" => SessionExists(readModel, c.session)
      BY <1>2, <2>1 DEF DecideAccepts, SessionCommands, OpenSessionCommands, SessionOpen
    <2>6. c.type = "session.create" => ~SessionExists(readModel, c.session)
      BY <1>2 DEF DecideAccepts
    <2>7. c.type = "checkpoint.create" =>
             e.checkpoint \in Ids /\ ~HasCheckpoint(readModel, c.session, e.checkpoint)
      BY <1>2, DecidedFields, VocabularyAssumption DEF DecideAccepts, Ids
    <2> QED
      BY <1>1, <1>2, <1>5, <2>2, <2>3, <2>4, <2>5, <2>6, <2>7, RowCommitted
  <1> QED
    BY <1>3, <1>4, <1>5

LEMMA EveryStep ==
    ASSUME TypeInv, [Next]_vars
    PROVE  UNCHANGED vars \/ \E e : Steps(e)
  <1>1. ASSUME NEW c \in Commands, Decide(c)
        PROVE  \E e : Steps(e)
    BY <1>1, ProjectDecided, SessionDecided
  <1>2. ASSUME NEW e \in ProviderEvents, Provide(e)
        PROVE  Steps(e)
    <2>1. e \in Committed /\ Commit(e) /\ e.type \in {"MessageSent", "TokenAppended", "Other"}
          /\ (e.type # "Other" => e.session \in Sessions)
      BY <1>2, VocabularyAssumption DEF Committed, Provide
    <2>2. CASE e.type # "Other" /\ SessionExists(readModel, e.session)
      BY <2>1, <2>2, RowCommitted DEF RowTypes
    <2>3. CASE e.type = "Other" \/ ~SessionExists(readModel, e.session)
      BY <2>1, <2>3, OtherCommitted DEF SessionTypes
    <2> QED
      BY <2>2, <2>3
  <1> QED
    BY <1>1, <1>2 DEF Next, Refuse

-----------------------------------------------------------------------------
(* Types *)

LEMMA RetainedType ==
    ASSUME NEW S, NEW items \in Seq(S), NEW n \in Nat
    PROVE  RetainNewest(items, n) \in Seq(S) /\ Len(RetainNewest(items, n)) <= n
  <1>1. CASE Len(items) <= n
    BY <1>1 DEF RetainNewest
  <1>2. CASE Len(items) > n
    <2> DEFINE from == (Len(items) - n) + 1
    <2>1. from \in 1..(Len(items) + 1) /\ Len(items) \in Nat
      BY <1>2
    <2>2. SubSeq(items, from, Len(items)) \in Seq(S)
      BY <2>1
    <2>3. Len(SubSeq(items, from, Len(items))) = n
      BY <1>2, <2>1
    <2> QED
      BY <1>2, <2>2, <2>3 DEF RetainNewest
  <1> QED
    BY <1>1, <1>2

LEMMA TypeInvInit == Init => TypeInv
  <1> SUFFICES ASSUME Init PROVE TypeInv
    OBVIOUS
  <1>1. /\ history = <<>>
        /\ readModel = [projects |-> [p \in Projects |-> NoProject],
                        sessions |-> [s \in Sessions |-> NoSession]]
    BY DEF Init, EmptyReadModel
  <1>2. /\ readModel.projects = [p \in Projects |-> NoProject]
        /\ readModel.sessions = [s \in Sessions |-> NoSession]
        /\ readModel = [projects |-> readModel.projects, sessions |-> readModel.sessions]
    BY <1>1
  <1>3. IsRow(NoSession)
    <2>1. ASSUME NEW x
          PROVE  LET r == [status |-> "absent", archived |-> x, messages |-> <<>>, checkpoints |-> <<>>]
                 IN  /\ r = [status |-> r.status, archived |-> r.archived, messages |-> r.messages,
                             checkpoints |-> r.checkpoints]
                     /\ r.archived = x /\ r.checkpoints = <<>>
      OBVIOUS
    <2>2. /\ NoSession = [status |-> NoSession.status, archived |-> NoSession.archived,
                          messages |-> NoSession.messages, checkpoints |-> NoSession.checkpoints]
          /\ NoSession.archived = FALSE /\ NoSession.checkpoints = <<>>
      BY <2>1, Zenon DEF NoSession
    <2>3. <<>> \in Seq(Ids) /\ Len(<<>>) <= MaxCheckpoints
      BY RetentionAssumption
    <2> QED
      BY <2>2, <2>3, Zenon DEF IsRow
  <1>4. NoProject \in [status : {"absent", "live", "deleted"}, root : Roots \cup {NoRoot}]
    BY DEF NoProject
  <1>5. readModel.projects \in
           [Projects -> [status : {"absent", "live", "deleted"}, root : Roots \cup {NoRoot}]]
    BY <1>2, <1>4
  <1>6. /\ readModel.sessions = [s \in Sessions |-> readModel.sessions[s]]
        /\ \A s \in Sessions : readModel.sessions[s] = NoSession
    BY <1>2
  <1>7. history \in Seq(Committed)
    BY <1>1
  <1> QED
    BY <1>2, <1>3, <1>5, <1>6, <1>7, Zenon DEF TypeInv

\* The checkpoints and the flag of a row stay what they may be.
LEMMA RowStaysTyped ==
    ASSUME TypeInv, NEW e, Steps(e), NEW s \in Sessions
    PROVE  /\ Session(s)'.archived \in {TRUE, FALSE}
           /\ Session(s)'.checkpoints \in Seq(Ids)
           /\ Len(Session(s)'.checkpoints) <= MaxCheckpoints
  <1>1. /\ Session(s).archived \in {TRUE, FALSE} /\ Session(s).checkpoints \in Seq(Ids)
        /\ Len(Session(s).checkpoints) <= MaxCheckpoints
    BY DEF TypeInv, IsRow, Session
  <1>2. CASE RowKept(s)
    BY <1>1, <1>2 DEF RowKept, RowBecomes
  <1>3. CASE RowStep(e, s)
    <2>1. ASSUME NEW k \in Ids
          PROVE  /\ RetainNewest(Append(Session(s).checkpoints, k), MaxCheckpoints) \in Seq(Ids)
                 /\ Len(RetainNewest(Append(Session(s).checkpoints, k), MaxCheckpoints)) <= MaxCheckpoints
      <3>1. Append(Session(s).checkpoints, k) \in Seq(Ids)
        BY <1>1
      <3> QED
        BY <3>1, RetainedType, RetentionAssumption
    <2>2. <<>> \in Seq(Ids) /\ Len(<<>>) <= MaxCheckpoints
      BY RetentionAssumption
    <2> QED
      BY <1>1, <1>3, <2>1, <2>2, Zenon DEF RowStep, RowBecomes
  <1> QED
    BY <1>2, <1>3 DEF Steps, SessionStep

LEMMA TypeInvStep == TypeInv /\ [Next]_vars => TypeInv'
  <1> SUFFICES ASSUME TypeInv, [Next]_vars PROVE TypeInv'
    OBVIOUS
  <1>1. CASE UNCHANGED vars
    BY <1>1 DEF vars, TypeInv
  <1>2. ASSUME NEW e, Steps(e) PROVE TypeInv'
    <2>1. history' \in Seq(Committed)
      BY <1>2 DEF Steps, TypeInv
    <2>2. readModel'.projects \in
             [Projects -> [status : {"absent", "live", "deleted"}, root : Roots \cup {NoRoot}]]
      <3> DEFINE Row == [status : {"absent", "live", "deleted"}, root : Roots \cup {NoRoot}]
      <3>1. readModel.projects \in [Projects -> Row]
        BY DEF TypeInv
      <3>2. \A p \in Projects : /\ Project(p).status \in {"absent", "live", "deleted"}
                                /\ Project(p).root \in Roots \cup {NoRoot}
        BY <3>1 DEF Project
      <3>3. \/ readModel'.projects = readModel.projects
            \/ \E p \in Projects, row \in Row :
                  readModel'.projects = [readModel.projects EXCEPT ![p] = row]
        <4>1. \A status \in {"absent", "live", "deleted"}, root \in Roots \cup {NoRoot} :
                 [status |-> status, root |-> root] \in Row
          OBVIOUS
        <4> HIDE DEF Row
        <4> QED
          BY <1>2, <3>2, <4>1 DEF Steps, ProjectStep
      <3> HIDE DEF Row
      <3>4. readModel'.projects \in [Projects -> Row]
        BY <3>1, <3>3
      <3> QED
        BY <3>4 DEF Row
    <2>3. ASSUME NEW s \in Sessions PROVE IsRow(readModel.sessions[s])'
      <3>1. PICK status, archived, messages, checkpoints :
               readModel'.sessions[s] = [status |-> status, archived |-> archived,
                                         messages |-> messages, checkpoints |-> checkpoints]
        BY <1>2 DEF Steps, Shape
      <3>2. readModel'.sessions[s] =
               [status |-> readModel'.sessions[s].status, archived |-> readModel'.sessions[s].archived,
                messages |-> readModel'.sessions[s].messages,
                checkpoints |-> readModel'.sessions[s].checkpoints]
        BY <3>1
      <3>3. /\ readModel'.sessions[s].archived \in {TRUE, FALSE}
            /\ readModel'.sessions[s].checkpoints \in Seq(Ids)
            /\ Len(readModel'.sessions[s].checkpoints) <= MaxCheckpoints
        BY <1>2, RowStaysTyped DEF Session
      <3> QED
        BY <3>2, <3>3, Zenon DEF IsRow
    <2>4. /\ readModel' = [projects |-> readModel'.projects, sessions |-> readModel'.sessions]
          /\ readModel'.sessions = [s \in Sessions |-> readModel'.sessions[s]]
      BY <1>2 DEF Steps, Shape
    <2> QED
      BY <2>1, <2>2, <2>3, <2>4, Zenon DEF TypeInv
  <1> QED
    BY <1>1, <1>2, EveryStep

-----------------------------------------------------------------------------
(* Roots *)

\* No command moves a project to a root that a command gives another one.
MovesUncontested ==
    \A c, d \in Commands :
        /\ c.type = "project.meta.update" /\ c.root # NoRoot
        /\ d.type \in {"project.create", "project.meta.update"} /\ d.root = c.root
        => d.project = c.project

\* A command gave project p this root.
Gave(p, root) ==
    \E c \in Commands : /\ c.type \in {"project.create", "project.meta.update"}
                        /\ c.project = p /\ c.root = root

RootInv ==
    /\ \A p \in Projects : ProjectExists(readModel, p) =>
          Project(p).root \in Roots /\ Gave(p, Project(p).root)
    /\ LiveRootsUnique

LEMMA GivenByCommand ==
    ASSUME NEW e \in Committed, e.type \in {"ProjectCreated", "ProjectMetaUpdated"}
    PROVE  \E c \in Commands :
              /\ e.type = "ProjectCreated" => c.type = "project.create"
              /\ e.type = "ProjectMetaUpdated" => c.type = "project.meta.update"
              /\ c.project = e.project /\ c.root = e.root
  <1>1. e \notin ProviderEvents
    BY VocabularyAssumption
  <1>2. PICK c \in Commands : e = DecidedEvent(c)
    BY <1>1 DEF Committed
  <1>3. e.type = EventTypeOf(c.type)
    BY <1>2, DecidedFields
  <1>4. /\ e.type = "ProjectCreated" => c.type = "project.create"
        /\ e.type = "ProjectMetaUpdated" => c.type = "project.meta.update"
    BY <1>3 DEF EventTypeOf
  <1>5. e.project = c.project /\ e.root = c.root
    BY <1>2, <1>4, DecidedFields, VocabularyAssumption DEF ProjectCommands
  <1> QED
    BY <1>4, <1>5

LEMMA RootInvStep ==
    ASSUME MovesUncontested, TypeInv, RootInv, NEW e, Steps(e)
    PROVE  RootInv'
  <1>1. e \in Committed /\ ProjectStep(e)
    BY DEF Steps
  <1>2. readModel.projects \in
           [Projects -> [status : {"absent", "live", "deleted"}, root : Roots \cup {NoRoot}]]
    BY DEF TypeInv
  <1>3. CASE e.type = "ProjectCreated"
    <2>1. /\ e.project \in Projects /\ e.root \in Roots /\ ~RootClaimed(readModel, e.root)
          /\ readModel'.projects = [readModel.projects EXCEPT ![e.project] =
                                       [status |-> "live", root |-> e.root]]
      BY <1>1, <1>3 DEF ProjectStep
    <2>2. Gave(e.project, e.root)
      BY <1>1, <1>3, GivenByCommand DEF Gave
    <2>3. \A p \in Projects : Project(p).status = "live" => Project(p).root # e.root
      BY <1>2, <2>1 DEF RootClaimed, Project
    <2> QED
      BY <1>2, <2>1, <2>2, <2>3 DEF RootInv, LiveRootsUnique, ProjectExists, Project, Gave
  <1>4. CASE e.type = "ProjectMetaUpdated"
    <2> DEFINE p == e.project
               root == IF e.root = NoRoot THEN Project(p).root ELSE e.root
    <2>1. /\ p \in Projects /\ e.root \in Roots \cup {NoRoot} /\ ProjectExists(readModel, p)
          /\ readModel'.projects = [readModel.projects EXCEPT ![p] =
                                       [status |-> Project(p).status, root |-> root]]
      BY <1>1, <1>4 DEF ProjectStep
    <2>2. PICK c \in Commands : c.type = "project.meta.update" /\ c.project = p /\ c.root = e.root
      BY <1>1, <1>4, GivenByCommand
    <2>3. root \in Roots /\ Gave(p, root)
      BY <2>1, <2>2 DEF RootInv, Gave
    <2>4. ASSUME NEW q \in Projects, q # p, Project(q).status = "live", Project(p).status = "live"
          PROVE  Project(q).root # root
      <3>1. CASE e.root = NoRoot
        BY <2>1, <2>4, <3>1 DEF RootInv, LiveRootsUnique, Project
      <3>2. CASE e.root # NoRoot
        <4>1. Gave(q, Project(q).root)
          BY <2>4 DEF RootInv, ProjectExists, Project
        <4> QED
          BY <2>2, <2>4, <3>2, <4>1 DEF MovesUncontested, Gave
      <3> QED
        BY <3>1, <3>2
    <2> HIDE DEF root, p
    <2> QED
      BY <1>2, <2>1, <2>3, <2>4 DEF RootInv, LiveRootsUnique, ProjectExists, Project, Gave
  <1>5. CASE e.type = "ProjectDeleted"
    BY <1>1, <1>2, <1>5 DEF ProjectStep, RootInv, LiveRootsUnique, ProjectExists, Project, Gave
  <1>6. CASE e.type \notin {"ProjectCreated", "ProjectMetaUpdated", "ProjectDeleted"}
    BY <1>1, <1>6 DEF ProjectStep, RootInv, LiveRootsUnique, ProjectExists, Project, Gave
  <1> QED
    BY <1>3, <1>4, <1>5, <1>6

\* Live projects keep different roots as long as no project is moved to a root
\* another one is given.
THEOREM LiveRootsStayUnique == MovesUncontested => (Spec => []LiveRootsUnique)
  <1> SUFFICES ASSUME MovesUncontested PROVE Spec => []LiveRootsUnique
    OBVIOUS
  <1>1. Init => RootInv
    BY DEF Init, EmptyReadModel, NoProject, RootInv, LiveRootsUnique, ProjectExists
  <1>2. TypeInv /\ RootInv /\ [Next]_vars => RootInv'
    <2>1. RootInv /\ UNCHANGED vars => RootInv'
      BY DEF vars, RootInv, LiveRootsUnique, ProjectExists, Project, Gave
    <2> QED
      BY <2>1, EveryStep, RootInvStep
  <1>3. RootInv => LiveRootsUnique
    BY DEF RootInv
  <1> QED
    BY <1>1, <1>2, <1>3, TypeInvInit, TypeInvStep, PTL DEF Spec

-----------------------------------------------------------------------------
(* The history grows by one event *)

Newest == Len(history) + 1

LEMMA HistoryGrows ==
    ASSUME TypeInv, NEW e, Steps(e)
    PROVE  /\ Len(history) \in Nat /\ DOMAIN history = 1..Len(history)
           /\ Newest \notin DOMAIN history
           /\ DOMAIN history' = DOMAIN history \cup {Newest}
           /\ \A i \in DOMAIN history : i \in Nat /\ i < Newest /\ history'[i] = history[i]
           /\ history'[Newest] = e
  BY DEF TypeInv, Steps, Newest

LEMMA ProjectEventsGrow ==
    ASSUME TypeInv, NEW e, Steps(e), NEW S, NEW p
    PROVE  /\ OfProject(S, p) \subseteq DOMAIN history
           /\ OfProject(S, p)' = IF e.type \in S /\ e.project = p THEN OfProject(S, p) \cup {Newest}
                                 ELSE OfProject(S, p)
  BY HistoryGrows DEF OfProject, Types

LEMMA SessionEventsGrow ==
    ASSUME TypeInv, NEW e, Steps(e), NEW S, NEW s
    PROVE  /\ OfSession(S, s) \subseteq DOMAIN history
           /\ OfSession(S, s)' = IF e.type \in S /\ e.session = s THEN OfSession(S, s) \cup {Newest}
                                 ELSE OfSession(S, s)
  BY HistoryGrows DEF OfSession, Types

-----------------------------------------------------------------------------
(* Projects *)

Rooted(p) == {i \in OfProject({"ProjectCreated", "ProjectMetaUpdated"}, p) : history[i].root # NoRoot}

\* The row of a project says whether and how the history has it, and holds the
\* root it was last given.
ProjectMatches(p) ==
    /\ ProjectExists(readModel, p) <=> HistoryHasProject(p)
    /\ ~HistoryHasProject(p) => OfProject({"ProjectMetaUpdated", "ProjectDeleted"}, p) = {}
    /\ Project(p).status = "live" <=> HistoryLive(p)
    /\ ProjectExists(readModel, p) =>
          \E i \in Rooted(p) : /\ \A j \in Rooted(p) : j <= i
                               /\ history[i].root = Project(p).root

LEMMA ProjectMatchesInit == Init => \A p \in Projects : ProjectMatches(p)
  <1> SUFFICES ASSUME Init, NEW p \in Projects PROVE ProjectMatches(p)
    OBVIOUS
  <1>1. history = <<>> /\ Project(p) = NoProject
    BY DEF Init, EmptyReadModel, Project
  <1>2. \A S : OfProject(S, p) = {}
    BY <1>1 DEF OfProject, Types
  <1> QED
    BY <1>1, <1>2 DEF ProjectMatches, ProjectExists, HistoryHasProject, HistoryLive, NoProject, Project

LEMMA RootedGrows ==
    ASSUME TypeInv, NEW e, Steps(e), NEW p
    PROVE  /\ Rooted(p) \subseteq DOMAIN history
           /\ Rooted(p)' = IF /\ e.type \in {"ProjectCreated", "ProjectMetaUpdated"}
                              /\ e.project = p /\ e.root # NoRoot
                           THEN Rooted(p) \cup {Newest} ELSE Rooted(p)
  BY HistoryGrows, ProjectEventsGrow DEF Rooted

LEMMA ProjectMatchesStep ==
    ASSUME TypeInv, NEW e, Steps(e), NEW p \in Projects, ProjectMatches(p), NoRoot \notin Roots
    PROVE  ProjectMatches(p)'
  <1> DEFINE Created == OfProject({"ProjectCreated"}, p)
             Changed == OfProject({"ProjectMetaUpdated", "ProjectDeleted"}, p)
             Deleted == OfProject({"ProjectDeleted"}, p)
  <1>1. /\ Created' = IF e.type = "ProjectCreated" /\ e.project = p THEN Created \cup {Newest} ELSE Created
        /\ Changed' = IF e.type \in {"ProjectMetaUpdated", "ProjectDeleted"} /\ e.project = p
                      THEN Changed \cup {Newest} ELSE Changed
        /\ Deleted' = IF e.type = "ProjectDeleted" /\ e.project = p THEN Deleted \cup {Newest} ELSE Deleted
    BY ProjectEventsGrow
  <1>2. /\ ProjectExists(readModel, p) <=> Created # {}
        /\ Created = {} => Changed = {}
        /\ Deleted \subseteq Changed
        /\ Project(p).status = "live" <=> Created # {} /\ Deleted = {}
        /\ ProjectExists(readModel, p) =>
              \E i \in Rooted(p) : (\A j \in Rooted(p) : j <= i) /\ history[i].root = Project(p).root
    BY DEF ProjectMatches, HistoryHasProject, HistoryLive, OfProject, Types
  <1>3. /\ ProjectStep(e)
        /\ readModel.projects \in
              [Projects -> [status : {"absent", "live", "deleted"}, root : Roots \cup {NoRoot}]]
    BY DEF Steps, TypeInv
  <1> HIDE DEF Created, Changed, Deleted
  <1>4. CASE e.type \in {"ProjectCreated", "ProjectMetaUpdated", "ProjectDeleted"} /\ e.project = p
    <2>1. \/ /\ e.type = "ProjectCreated" /\ e.root # NoRoot /\ ~ProjectExists(readModel, p)
             /\ Project(p)'.status = "live" /\ Project(p)'.root = e.root
          \/ /\ e.type = "ProjectMetaUpdated" /\ ProjectExists(readModel, p)
             /\ Project(p)'.status = Project(p).status
             /\ Project(p)'.root = IF e.root = NoRoot THEN Project(p).root ELSE e.root
          \/ /\ e.type = "ProjectDeleted" /\ ProjectExists(readModel, p)
             /\ Project(p)'.status = "deleted" /\ Project(p)'.root = Project(p).root
      BY <1>3, <1>4 DEF ProjectStep, Project
    <2>2. ProjectExists(readModel, p) <=> Project(p).status # "absent"
      BY DEF ProjectExists, Project
    <2>3. (ProjectExists(readModel, p) <=> Created # {})'
      BY <1>1, <1>2, <1>4, <2>1, <2>2 DEF ProjectExists, Project
    <2>4. (Created = {} => Changed = {})' /\ (Project(p).status = "live" <=> Created # {} /\ Deleted = {})'
      BY <1>1, <1>2, <1>4, <2>1, <2>2
    <2>5. \E i \in Rooted(p)' : (\A j \in Rooted(p)' : j <= i) /\ history'[i].root = Project(p)'.root
      <3>1. CASE e.type = "ProjectDeleted" \/ e.root = NoRoot
        <4>1. Rooted(p)' = Rooted(p) /\ Project(p)'.root = Project(p).root /\ ProjectExists(readModel, p)
          BY <2>1, <3>1, RootedGrows
        <4> QED
          BY <1>2, <4>1, RootedGrows, HistoryGrows
      <3>2. CASE e.type # "ProjectDeleted" /\ e.root # NoRoot
        <4>1. Rooted(p)' = Rooted(p) \cup {Newest} /\ Project(p)'.root = e.root
          BY <1>4, <2>1, <3>2, RootedGrows
        <4>2. /\ history'[Newest].root = e.root /\ Newest \in Nat
              /\ \A j \in Rooted(p) : j \in Nat /\ j < Newest
          BY RootedGrows, HistoryGrows DEF Newest
        <4> QED
          BY <4>1, <4>2
      <3> QED
        BY <3>1, <3>2
    <2> QED
      BY <2>3, <2>4, <2>5 DEF ProjectMatches, HistoryHasProject, HistoryLive, Created, Changed, Deleted
  <1>5. CASE ~(e.type \in {"ProjectCreated", "ProjectMetaUpdated", "ProjectDeleted"} /\ e.project = p)
    <2>1. Project(p)' = Project(p)
      BY <1>3, <1>5 DEF ProjectStep, Project
    <2>2. Created' = Created /\ Changed' = Changed /\ Deleted' = Deleted /\ Rooted(p)' = Rooted(p)
      BY <1>1, <1>5, RootedGrows
    <2>3. \A i \in Rooted(p) : history'[i] = history[i]
      BY RootedGrows, HistoryGrows
    <2>4. (ProjectExists(readModel, p))' <=> ProjectExists(readModel, p)
      BY <2>1 DEF ProjectExists, Project
    <2> QED
      BY <1>2, <2>1, <2>2, <2>3, <2>4
      DEF ProjectMatches, HistoryHasProject, HistoryLive, Created, Changed, Deleted
  <1> QED
    BY <1>4, <1>5

\* So the root of the row is the one the history says.
LEMMA RootMatches ==
    ASSUME TypeInv, NEW p \in Projects, ProjectMatches(p), ProjectExists(readModel, p)
    PROVE  HistoryRoot(p) = Project(p).root
  <1>1. PICK i \in Rooted(p) : (\A j \in Rooted(p) : j <= i) /\ history[i].root = Project(p).root
    BY DEF ProjectMatches
  <1>2. Rooted(p) \subseteq Nat
    BY DEF TypeInv, Rooted, OfProject, Types
  <1>3. \A n \in Rooted(p) : (\A j \in Rooted(p) : j <= n) => n = i
    BY <1>1, <1>2
  <1>4. (CHOOSE n \in Rooted(p) : \A j \in Rooted(p) : j <= n) = i
    BY <1>1, <1>3
  <1> QED
    BY <1>1, <1>4 DEF HistoryRoot, Rooted

-----------------------------------------------------------------------------
(* Sessions *)

ArchiveTypes == {"SessionArchived", "SessionUnarchived"}
Taken(s) == OfSession({"CheckpointCreated"}, s)
After(s, i) == {j \in Taken(s) : j > i}

\* The row keeps the newest checkpoints the history has, in order: one is as far
\* from the end of the list as there are newer ones.
CheckpointsMatch(s) ==
    /\ \A n \in 1..Len(Session(s).checkpoints) :
          \E i \in Taken(s) : /\ Cardinality(After(s, i)) = Len(Session(s).checkpoints) - n
                              /\ history[i].checkpoint = Session(s).checkpoints[n]
    /\ \A i \in Taken(s) : Cardinality(After(s, i)) < MaxCheckpoints =>
          /\ Cardinality(After(s, i)) < Len(Session(s).checkpoints)
          /\ history[i].checkpoint =
                Session(s).checkpoints[Len(Session(s).checkpoints) - Cardinality(After(s, i))]

SessionMatches(s) ==
    /\ SessionExists(readModel, s) <=> HistoryHasSession(s)
    /\ ~HistoryHasSession(s) => OfSession(ArchiveTypes \cup {"CheckpointCreated"}, s) = {}
    /\ Session(s).archived = TRUE <=> HistoryArchived(s)
    /\ CheckpointsMatch(s)

LEMMA SessionMatchesInit == Init => \A s \in Sessions : SessionMatches(s)
  <1> SUFFICES ASSUME Init, NEW s \in Sessions PROVE SessionMatches(s)
    OBVIOUS
  <1>1. history = <<>> /\ Session(s) = NoSession
    BY DEF Init, EmptyReadModel, Session
  <1>2. /\ Session(s).status = "absent" /\ Session(s).checkpoints = <<>>
    BY <1>1 DEF NoSession
  <1>3. Session(s).archived = FALSE
    <2>1. \A x : [status |-> "absent", archived |-> x, messages |-> <<>>, checkpoints |-> <<>>].archived = x
      OBVIOUS
    <2> QED
      BY <1>1, <2>1, Zenon DEF NoSession
  <1>4. \A S : OfSession(S, s) = {}
    BY <1>1 DEF OfSession, Types
  <1>5. ~SessionExists(readModel, s) /\ ~HistoryHasSession(s) /\ ~HistoryArchived(s)
    BY <1>2, <1>4 DEF SessionExists, Session, HistoryHasSession, HistoryArchived, LatestIs
  <1>6. CheckpointsMatch(s)
    BY <1>2, <1>4 DEF CheckpointsMatch, Taken
  <1> QED
    BY <1>3, <1>4, <1>5, <1>6 DEF SessionMatches

\* Archived or not is what the newest of these events says.
LEMMA ArchivedGrows ==
    ASSUME TypeInv, NEW e, Steps(e), NEW s
    PROVE  /\ e.type \in ArchiveTypes /\ e.session = s =>
                (HistoryArchived(s)' <=> e.type = "SessionArchived")
           /\ ~(e.type \in ArchiveTypes /\ e.session = s) =>
                (HistoryArchived(s)' <=> HistoryArchived(s))
  <1> DEFINE A == OfSession({"SessionArchived"}, s)
             B == OfSession(ArchiveTypes, s)
  <1>1. /\ A \subseteq B /\ B \subseteq DOMAIN history
        /\ A' = IF e.type = "SessionArchived" /\ e.session = s THEN A \cup {Newest} ELSE A
        /\ B' = IF e.type \in ArchiveTypes /\ e.session = s THEN B \cup {Newest} ELSE B
    <2>1. A' = IF e.type = "SessionArchived" /\ e.session = s THEN A \cup {Newest} ELSE A
      BY SessionEventsGrow
    <2>2. /\ B \subseteq DOMAIN history
          /\ B' = IF e.type \in ArchiveTypes /\ e.session = s THEN B \cup {Newest} ELSE B
      BY SessionEventsGrow
    <2>3. A \subseteq B
      BY DEF OfSession, Types, ArchiveTypes
    <2> QED
      BY <2>1, <2>2, <2>3
  <1>2. /\ \A i \in B : i \in A <=> history[i].type = "SessionArchived"
        /\ \A i \in B' : i \in A' <=> history'[i].type = "SessionArchived"
    BY DEF OfSession, Types, ArchiveTypes
  <1>3. /\ HistoryArchived(s) <=> \E i \in A : \A j \in B : j <= i
        /\ HistoryArchived(s)' <=> \E i \in A' : \A j \in B' : j <= i
    <2>1. /\ \A i \in B : history[i].type \in {"SessionArchived"} <=> i \in A
          /\ \A i \in B' : history'[i].type \in {"SessionArchived"} <=> i \in A'
          /\ A \subseteq B /\ A' \subseteq B'
      BY <1>2 DEF OfSession, Types, ArchiveTypes
    <2> QED
      BY <2>1 DEF HistoryArchived, LatestIs, ArchiveTypes
  <1> HIDE DEF A, B
  <1>4. Newest \in Nat /\ \A i \in B : i \in Nat /\ i < Newest
    BY <1>1, HistoryGrows DEF Newest
  <1>5. CASE e.type \in ArchiveTypes /\ e.session = s
    <2>1. CASE e.type = "SessionArchived"
      BY <1>1, <1>3, <1>4, <1>5, <2>1
    <2>2. CASE e.type # "SessionArchived"
      <3>1. A' = A /\ Newest \in B'
        BY <1>1, <1>5, <2>2
      <3>2. \A i \in A : ~(Newest <= i)
        BY <1>1, <1>4
      <3> QED
        BY <1>3, <1>5, <2>2, <3>1, <3>2
    <2> QED
      BY <2>1, <2>2
  <1>6. CASE ~(e.type \in ArchiveTypes /\ e.session = s)
    <2>1. A' = A /\ B' = B
      BY <1>1, <1>6 DEF ArchiveTypes
    <2> QED
      BY <1>3, <1>6, <2>1
  <1> QED
    BY <1>5, <1>6

LEMMA AfterFinite ==
    ASSUME TypeInv, NEW s, NEW i
    PROVE  IsFiniteSet(After(s, i)) /\ Cardinality(After(s, i)) \in Nat
  <1>1. Len(history) \in Nat /\ After(s, i) \subseteq 1..Len(history)
    BY DEF TypeInv, After, Taken, OfSession, Types
  <1>2. IsFiniteSet(1..Len(history))
    BY <1>1, FS_Interval
  <1>3. IsFiniteSet(After(s, i))
    BY <1>1, <1>2, FS_Subset
  <1> QED
    BY <1>3, FS_CardinalityType

\* A checkpoint makes every older one one step older.
LEMMA AfterGrows ==
    ASSUME TypeInv, NEW e, Steps(e), NEW s, e.type = "CheckpointCreated", e.session = s
    PROVE  /\ Taken(s)' = Taken(s) \cup {Newest} /\ Newest \notin Taken(s)
           /\ \A i \in Taken(s) : Cardinality(After(s, i)') = Cardinality(After(s, i)) + 1
           /\ \A m : m = Newest => Cardinality(After(s, m)') = 0
  <1>1. /\ Taken(s) \subseteq DOMAIN history /\ Taken(s)' = Taken(s) \cup {Newest}
        /\ Newest \notin Taken(s) /\ Newest \in Nat
        /\ \A i \in Taken(s) : i \in Nat /\ i < Newest
    BY SessionEventsGrow, HistoryGrows DEF Taken, Newest
  <1>2. ASSUME NEW i \in Taken(s)
        PROVE  Cardinality(After(s, i)') = Cardinality(After(s, i)) + 1
    <2>1. After(s, i)' = After(s, i) \cup {Newest} /\ Newest \notin After(s, i)
      BY <1>1 DEF After
    <2> QED
      BY <2>1, AfterFinite, FS_AddElement
  <1>3. ASSUME NEW m, m = Newest
        PROVE  After(s, m)' = {}
    <2>1. After(s, m)' = {j \in Taken(s)' : j > m}
      BY DEF After
    <2> QED
      BY <1>1, <1>3, <2>1
  <1> QED
    BY <1>1, <1>2, <1>3, FS_EmptySet

\* The list kept has k as its newest item, and the newest of items before it.
Retained(items, k, max, kept) ==
    /\ Len(kept) = IF Len(items) < max THEN Len(items) + 1 ELSE max
    /\ Len(items) \in Nat /\ Len(kept) \in Nat /\ (Len(items) + 1) - Len(kept) \in Nat
    /\ kept[Len(kept)] = k
    /\ \A n \in 1..(Len(kept) - 1) : kept[n] = items[n + ((Len(items) + 1) - Len(kept))]

\* What retainNewest makes of a list one item longer.
LEMMA RetainedItems ==
    ASSUME NEW items, items \in Seq(Ids), NEW k, k \in Ids,
           NEW max, max \in Nat \ {0}, Len(items) <= max
    PROVE  Retained(items, k, max, RetainNewest(Append(items, k), max))
  <1> DEFINE kept == RetainNewest(Append(items, k), max)
  <1> DEFINE longer == Append(items, k)
  <1>1. /\ longer \in Seq(Ids) /\ Len(longer) = Len(items) + 1 /\ Len(items) \in Nat
        /\ longer[Len(items) + 1] = k
        /\ \A n \in 1..Len(items) : longer[n] = items[n]
    OBVIOUS
  <1> HIDE DEF longer
  <1>2. ASSUME Len(items) < max
        PROVE  Retained(items, k, max, kept)
    <2>1. kept = longer
      BY <1>1, <1>2 DEF RetainNewest, longer
    <2> HIDE DEF kept
    <2> QED
      BY <1>1, <1>2, <2>1 DEF Retained
  <1>3. ASSUME Len(items) = max
        PROVE  Retained(items, k, max, kept)
    <2>1. kept = SubSeq(longer, 2, Len(longer))
      BY <1>1, <1>3 DEF RetainNewest, longer
    <2>2. /\ Len(kept) = max
          /\ \A n \in 1..max : kept[n] = longer[n + 1]
      BY <1>1, <1>3, <2>1
    <2>3. max \in 1..max
      OBVIOUS
    <2> HIDE DEF kept
    <2> QED
      BY <1>1, <1>3, <2>2, <2>3 DEF Retained
  <1>4. Len(items) < max \/ Len(items) = max
    BY <1>1
  <1> QED
    BY <1>2, <1>3, <1>4

LEMMA CheckpointsMatchTaken ==
    ASSUME TypeInv, NEW e, Steps(e), NEW s \in Sessions, CheckpointsMatch(s),
           e.type = "CheckpointCreated", e.session = s, e.checkpoint \in Ids,
           Session(s)'.checkpoints =
               RetainNewest(Append(Session(s).checkpoints, e.checkpoint), MaxCheckpoints)
    PROVE  CheckpointsMatch(s)'
  <1> DEFINE old == Session(s).checkpoints
             new == Session(s)'.checkpoints
             cut == (Len(old) + 1) - Len(new)
             Age(i) == Cardinality(After(s, i))
             NewAge(i) == Cardinality(After(s, i)')
  <1>1. old \in Seq(Ids) /\ Len(old) <= MaxCheckpoints /\ MaxCheckpoints \in Nat \ {0}
    BY RetentionAssumption DEF TypeInv, IsRow, Session
  <1>2. /\ Len(new) = IF Len(old) < MaxCheckpoints THEN Len(old) + 1 ELSE MaxCheckpoints
        /\ Len(new) \in Nat /\ cut \in Nat /\ Len(old) \in Nat
        /\ new[Len(new)] = e.checkpoint
        /\ \A n \in 1..(Len(new) - 1) : new[n] = old[n + cut]
    <2>1. new = RetainNewest(Append(old, e.checkpoint), MaxCheckpoints)
      OBVIOUS
    <2>2. Retained(old, e.checkpoint, MaxCheckpoints, new)
      <3> HIDE DEF old
      <3> QED
        BY <1>1, <2>1, RetainedItems
    <2> HIDE DEF old, new
    <2> QED
      BY <2>2 DEF Retained
  <1>3. /\ \A n \in 1..Len(old) : \E i \in Taken(s) :
              Age(i) = Len(old) - n /\ history[i].checkpoint = old[n]
        /\ \A i \in Taken(s) : Age(i) < MaxCheckpoints =>
              Age(i) < Len(old) /\ history[i].checkpoint = old[Len(old) - Age(i)]
    BY DEF CheckpointsMatch
  <1>4. /\ Taken(s)' = Taken(s) \cup {Newest} /\ Newest \notin Taken(s)
        /\ \A i \in Taken(s) : NewAge(i) = Age(i) + 1 /\ Age(i) \in Nat
        /\ \A m : m = Newest => NewAge(m) = 0
    BY AfterGrows, AfterFinite
  <1>5. /\ \A i \in Taken(s) : history'[i] = history[i]
        /\ history'[Newest] = e
    BY HistoryGrows, SessionEventsGrow DEF Taken
  <1> HIDE DEF old, new, Age, NewAge
  <1>6. ASSUME NEW n \in 1..Len(new)
        PROVE  \E i \in Taken(s)' : NewAge(i) = Len(new) - n /\ history'[i].checkpoint = new[n]
    <2>1. CASE n = Len(new)
      <3>1. PICK m : m = Newest
        OBVIOUS
      <3>2. m \in Taken(s)' /\ NewAge(m) = 0 /\ history'[m].checkpoint = new[n]
        BY <1>2, <1>4, <1>5, <2>1, <3>1
      <3> QED
        BY <1>2, <2>1, <3>2
    <2>2. CASE n # Len(new)
      <3>1. n \in 1..(Len(new) - 1) /\ n + cut \in 1..Len(old)
        BY <1>2, <2>2
      <3>2. PICK i \in Taken(s) : /\ Age(i) = Len(old) - (n + cut)
                                  /\ history[i].checkpoint = old[n + cut]
        BY <1>3, <3>1
      <3>3. NewAge(i) = Len(new) - n
        BY <1>2, <1>4, <3>2
      <3> QED
        BY <1>2, <1>4, <1>5, <3>1, <3>2, <3>3
    <2> QED
      BY <2>1, <2>2
  <1>7. ASSUME NEW i \in Taken(s)', NewAge(i) < MaxCheckpoints
        PROVE  NewAge(i) < Len(new) /\ history'[i].checkpoint = new[Len(new) - NewAge(i)]
    <2>1. CASE i = Newest
      <3>1. NewAge(i) = 0 /\ Len(new) > 0
        BY <1>1, <1>2, <1>4, <2>1
      <3> QED
        BY <1>2, <1>5, <2>1, <3>1
    <2>2. CASE i \in Taken(s)
      <3>1. NewAge(i) = Age(i) + 1 /\ Age(i) \in Nat /\ history'[i] = history[i]
        BY <1>4, <1>5, <2>2
      <3>2. Age(i) < Len(old) /\ history[i].checkpoint = old[Len(old) - Age(i)]
        BY <1>1, <1>3, <1>7, <2>2, <3>1
      <3>3. /\ Len(new) - NewAge(i) \in 1..(Len(new) - 1)
            /\ (Len(new) - NewAge(i)) + cut = Len(old) - Age(i)
        <4>2. Age(i) \in Nat /\ NewAge(i) \in Nat /\ Len(old) \in Nat /\ Len(new) \in Nat
          BY <1>2, <3>1
        <4>3. Age(i) < Len(old) /\ NewAge(i) = Age(i) + 1 /\ NewAge(i) < MaxCheckpoints
          BY <1>7, <3>1, <3>2
        <4>4. Len(old) <= MaxCheckpoints /\ MaxCheckpoints \in Nat
              /\ Len(new) = IF Len(old) < MaxCheckpoints THEN Len(old) + 1 ELSE MaxCheckpoints
          BY <1>1, <1>2
        <4>5. cut = (Len(old) + 1) - Len(new)
          OBVIOUS
        <4> HIDE DEF cut
        <4>6. Len(new) - NewAge(i) >= 1 /\ Len(new) - NewAge(i) <= Len(new) - 1
          BY <4>2, <4>3, <4>4
        <4>7. Len(new) - NewAge(i) \in 1..(Len(new) - 1)
          BY <4>2, <4>6
        <4>8. (Len(new) - NewAge(i)) + cut = Len(old) - Age(i)
          BY <4>2, <4>3, <4>5
        <4> QED
          BY <4>7, <4>8
      <3>4. NewAge(i) < Len(new)
        BY <1>2, <3>1, <3>3
      <3>5. new[Len(new) - NewAge(i)] = old[Len(old) - Age(i)]
        BY <1>2, <3>3
      <3> QED
        BY <3>1, <3>2, <3>4, <3>5
    <2> QED
      BY <1>4, <2>1, <2>2
  <1> QED
    BY <1>6, <1>7 DEF CheckpointsMatch, new, NewAge

\* A step about something else leaves the list where it was.
LEMMA CheckpointsMatchKept ==
    ASSUME TypeInv, NEW e, Steps(e), NEW s \in Sessions, CheckpointsMatch(s),
           ~(e.type = "CheckpointCreated" /\ e.session = s),
           Session(s)'.checkpoints = Session(s).checkpoints
    PROVE  CheckpointsMatch(s)'
  <1>1. Taken(s)' = Taken(s) /\ \A i \in Taken(s) : history'[i] = history[i]
    BY SessionEventsGrow, HistoryGrows DEF Taken
  <1>2. \A i : After(s, i)' = After(s, i)
    BY <1>1 DEF After
  <1> QED
    BY <1>1, <1>2 DEF CheckpointsMatch

LEMMA NoneTaken ==
    ASSUME TypeInv, NEW s \in Sessions, SessionMatches(s), ~SessionExists(readModel, s)
    PROVE  /\ Session(s).checkpoints = <<>> /\ Taken(s) = {}
           /\ OfSession(ArchiveTypes, s) = {} /\ ~HistoryArchived(s)
  <1>1. OfSession(ArchiveTypes \cup {"CheckpointCreated"}, s) = {}
    BY DEF SessionMatches
  <1>2. OfSession(ArchiveTypes, s) = {} /\ Taken(s) = {}
    BY <1>1 DEF OfSession, Types, Taken
  <1>3. ~HistoryArchived(s)
    BY <1>2 DEF HistoryArchived, LatestIs, ArchiveTypes
  <1>4. \A n \in 1..Len(Session(s).checkpoints) : FALSE
    BY <1>2 DEF SessionMatches, CheckpointsMatch
  <1>5. Session(s).checkpoints \in Seq(Ids)
    BY DEF TypeInv, IsRow, Session
  <1>6. Len(Session(s).checkpoints) = 0
    BY <1>4, <1>5
  <1> QED
    BY <1>2, <1>3, <1>5, <1>6

LEMMA SessionMatchesStep ==
    ASSUME TypeInv, NEW e, Steps(e), NEW s \in Sessions, SessionMatches(s)
    PROVE  SessionMatches(s)'
  <1> DEFINE Created == OfSession({"SessionCreated"}, s)
             Later == OfSession(ArchiveTypes \cup {"CheckpointCreated"}, s)
  <1>1. /\ Created' = IF e.type = "SessionCreated" /\ e.session = s
                      THEN Created \cup {Newest} ELSE Created
        /\ Later' = IF e.type \in ArchiveTypes \cup {"CheckpointCreated"} /\ e.session = s
                    THEN Later \cup {Newest} ELSE Later
    BY SessionEventsGrow
  <1>2. /\ SessionExists(readModel, s) <=> Created # {}
        /\ Created = {} => Later = {}
        /\ Session(s).archived = TRUE <=> HistoryArchived(s)
        /\ CheckpointsMatch(s)
    BY DEF SessionMatches, HistoryHasSession
  <1>3. /\ SessionExists(readModel, s) <=> Session(s).status # "absent"
        /\ SessionExists(readModel, s)' <=> Session(s)'.status # "absent"
    BY DEF SessionExists, Session
  <1>4. SessionStep(e)
    BY DEF Steps
  <1> HIDE DEF Created, Later
  <1>5. SUFFICES /\ SessionExists(readModel, s)' <=> Created' # {}
                 /\ Created' = {} => Later' = {}
                 /\ Session(s)'.archived = TRUE <=> HistoryArchived(s)'
                 /\ CheckpointsMatch(s)'
    BY DEF SessionMatches, HistoryHasSession, Created, Later
  <1>6. CASE e.type \in SessionTypes /\ e.session = s
    <2>1. RowStep(e, s)
      BY <1>4, <1>6 DEF SessionStep
    <2>2. CASE e.type = "SessionCreated"
      <3>1. ~SessionExists(readModel, s) /\ RowBecomes(s, "live", FALSE, <<>>)
        BY <2>1, <2>2 DEF RowStep
      <3>2. /\ Session(s)'.status = "live" /\ Session(s)'.archived = FALSE
            /\ Session(s)'.checkpoints = Session(s).checkpoints
        BY <3>1, NoneTaken DEF RowBecomes
      <3>3. ~HistoryArchived(s)'
        BY <2>2, <3>1, NoneTaken, ArchivedGrows DEF ArchiveTypes
      <3>4. CheckpointsMatch(s)'
        BY <1>2, <2>2, <3>2, CheckpointsMatchKept
      <3> QED
        BY <1>1, <1>3, <1>6, <2>2, <3>2, <3>3, <3>4
    <2>3. CASE e.type \in ArchiveTypes
      <3>1. /\ SessionExists(readModel, s)
            /\ Session(s)'.status = Session(s).status
            /\ Session(s)'.archived = TRUE <=> e.type = "SessionArchived"
            /\ Session(s)'.checkpoints = Session(s).checkpoints
        BY <2>1, <2>3 DEF RowStep, RowBecomes, ArchiveTypes
      <3>2. HistoryArchived(s)' <=> e.type = "SessionArchived"
        BY <1>6, <2>3, ArchivedGrows
      <3>3. CheckpointsMatch(s)'
        BY <1>2, <2>3, <3>1, CheckpointsMatchKept DEF ArchiveTypes
      <3>4. Created' = Created
        BY <1>1, <2>3 DEF ArchiveTypes
      <3> QED
        BY <1>2, <1>3, <3>1, <3>2, <3>3, <3>4
    <2>4. CASE e.type = "SessionDeleted"
      <3>1. /\ SessionExists(readModel, s) /\ Session(s)'.status = "deleted"
            /\ Session(s)'.archived = Session(s).archived
            /\ Session(s)'.checkpoints = Session(s).checkpoints
        BY <2>1, <2>4 DEF RowStep, RowBecomes
      <3>2. HistoryArchived(s)' <=> HistoryArchived(s)
        BY <2>4, ArchivedGrows DEF ArchiveTypes
      <3>3. CheckpointsMatch(s)'
        BY <1>2, <2>4, <3>1, CheckpointsMatchKept
      <3>4. Created' = Created
        BY <1>1, <2>4
      <3> QED
        BY <1>2, <1>3, <3>1, <3>2, <3>3, <3>4
    <2>5. CASE e.type = "CheckpointCreated"
      <3>1. /\ SessionExists(readModel, s) /\ e.checkpoint \in Ids
            /\ Session(s)'.status = Session(s).status
            /\ Session(s)'.archived = Session(s).archived
            /\ Session(s)'.checkpoints =
                  RetainNewest(Append(Session(s).checkpoints, e.checkpoint), MaxCheckpoints)
        BY <2>1, <2>5 DEF RowStep, RowBecomes
      <3>2. HistoryArchived(s)' <=> HistoryArchived(s)
        BY <2>5, ArchivedGrows DEF ArchiveTypes
      <3>3. CheckpointsMatch(s)'
        BY <1>2, <1>6, <2>5, <3>1, CheckpointsMatchTaken
      <3>4. Created' = Created
        BY <1>1, <2>5
      <3> QED
        BY <1>2, <1>3, <3>1, <3>2, <3>3, <3>4
    <2> QED
      BY <1>6, <2>2, <2>3, <2>4, <2>5 DEF SessionTypes, ArchiveTypes
  <1>7. CASE ~(e.type \in SessionTypes /\ e.session = s)
    <2>1. RowKept(s)
      BY <1>4, <1>7 DEF SessionStep
    <2>2. /\ Session(s)'.status = Session(s).status
          /\ Session(s)'.archived = Session(s).archived
          /\ Session(s)'.checkpoints = Session(s).checkpoints
      BY <2>1 DEF RowKept, RowBecomes
    <2>3. Created' = Created /\ Later' = Later
      BY <1>1, <1>7 DEF SessionTypes, ArchiveTypes
    <2>4. HistoryArchived(s)' <=> HistoryArchived(s)
      BY <1>7, ArchivedGrows DEF SessionTypes, ArchiveTypes
    <2>5. CheckpointsMatch(s)'
      BY <1>2, <1>7, <2>2, CheckpointsMatchKept DEF SessionTypes
    <2> QED
      BY <1>2, <1>3, <2>2, <2>3, <2>4, <2>5
  <1> QED
    BY <1>6, <1>7

\* So a checkpoint can be named when the history says so.
LEMMA CheckpointMatches ==
    ASSUME TypeInv, NEW s \in Sessions, SessionMatches(s), NEW k
    PROVE  HasCheckpoint(readModel, s, k) <=> HistoryHasCheckpoint(s, k)
  <1> DEFINE list == Session(s).checkpoints
             Age(i) == Cardinality(After(s, i))
  <1>1. list \in Seq(Ids) /\ Len(list) <= MaxCheckpoints /\ Len(list) \in Nat /\ MaxCheckpoints \in Nat
    <2>1. list \in Seq(Ids) /\ Len(list) <= MaxCheckpoints
      BY DEF TypeInv, IsRow, Session
    <2> HIDE DEF list
    <2> QED
      BY <2>1, RetentionAssumption
  <1>2. /\ \A n \in 1..Len(list) :
              \E i \in Taken(s) : Age(i) = Len(list) - n /\ history[i].checkpoint = list[n]
        /\ \A i \in Taken(s) : Age(i) < MaxCheckpoints =>
              Age(i) < Len(list) /\ history[i].checkpoint = list[Len(list) - Age(i)]
    BY DEF SessionMatches, CheckpointsMatch
  <1>3. \A i : Age(i) \in Nat
    BY AfterFinite
  <1>4. HasCheckpoint(readModel, s, k) <=> \E n \in 1..Len(list) : list[n] = k
    BY <1>1 DEF HasCheckpoint, Session
  <1>5. HistoryHasCheckpoint(s, k)
            <=> \E i \in Taken(s) : history[i].checkpoint = k /\ Age(i) < MaxCheckpoints
    BY DEF HistoryHasCheckpoint, Taken, After
  <1> HIDE DEF list, Age
  <1>6. ASSUME NEW n \in 1..Len(list), list[n] = k
        PROVE  \E i \in Taken(s) : history[i].checkpoint = k /\ Age(i) < MaxCheckpoints
    <2>1. PICK i \in Taken(s) : Age(i) = Len(list) - n /\ history[i].checkpoint = list[n]
      BY <1>2
    <2>2. Age(i) < MaxCheckpoints
      BY <1>1, <2>1
    <2> QED
      BY <1>6, <2>1, <2>2
  <1>7. ASSUME NEW i \in Taken(s), history[i].checkpoint = k, Age(i) < MaxCheckpoints
        PROVE  \E n \in 1..Len(list) : list[n] = k
    <2>1. Age(i) < Len(list) /\ list[Len(list) - Age(i)] = k
      BY <1>2, <1>7
    <2>2. Len(list) - Age(i) \in 1..Len(list)
      BY <1>1, <1>3, <2>1
    <2> QED
      BY <2>1, <2>2
  <1> QED
    BY <1>4, <1>5, <1>6, <1>7

-----------------------------------------------------------------------------
(* Decisions *)

MatchInv ==
    /\ TypeInv
    /\ \A p \in Projects : ProjectMatches(p)
    /\ \A s \in Sessions : SessionMatches(s)

LEMMA MatchInvStep == MatchInv /\ [Next]_vars => MatchInv'
  <1> SUFFICES ASSUME MatchInv, [Next]_vars PROVE MatchInv'
    OBVIOUS
  <1>1. TypeInv /\ TypeInv'
    BY TypeInvStep DEF MatchInv
  <1>2. CASE UNCHANGED vars
    <2>1. readModel' = readModel /\ history' = history
      BY <1>2 DEF vars
    <2>2. ASSUME NEW p \in Projects
          PROVE  ProjectMatches(p)'
      <3>1. ProjectMatches(p)
        BY DEF MatchInv
      <3> QED
        BY <2>1, <3>1 DEF ProjectMatches, Rooted, Project, ProjectExists, HistoryHasProject,
                          HistoryLive, OfProject, Types
    <2>3. ASSUME NEW s \in Sessions
          PROVE  SessionMatches(s)'
      <3>1. SessionMatches(s)
        BY DEF MatchInv
      <3>2. (Session(s) = Session(s)') /\ \A S : OfSession(S, s)' = OfSession(S, s)
        BY <2>1 DEF Session, OfSession, Types
      <3>3. /\ SessionExists(readModel, s)' <=> SessionExists(readModel, s)
            /\ HistoryArchived(s)' <=> HistoryArchived(s)
        BY <2>1 DEF SessionExists, HistoryArchived, LatestIs, OfSession, Types
      <3>4. CheckpointsMatch(s)' <=> CheckpointsMatch(s)
        BY <2>1 DEF CheckpointsMatch, Taken, After, Session, OfSession, Types
      <3> QED
        BY <3>1, <3>2, <3>3, <3>4 DEF SessionMatches, HistoryHasSession
    <2> QED
      BY <1>1, <2>2, <2>3 DEF MatchInv
  <1>3. ASSUME NEW e, Steps(e)
        PROVE  MatchInv'
    <2>1. \A p \in Projects : ProjectMatches(p)'
      BY <1>1, <1>3, ProjectMatchesStep, RetentionAssumption DEF MatchInv
    <2>2. \A s \in Sessions : SessionMatches(s)'
      BY <1>1, <1>3, SessionMatchesStep DEF MatchInv
    <2> QED
      BY <1>1, <2>1, <2>2 DEF MatchInv
  <1> QED
    BY <1>1, <1>2, <1>3, EveryStep

LEMMA ProjectGuards ==
    ASSUME MatchInv, NEW p \in Projects
    PROVE  ProjectExists(readModel, p) <=> HistoryHasProject(p)
  BY DEF MatchInv, ProjectMatches

LEMMA RootGuard ==
    ASSUME MatchInv, NEW root
    PROVE  RootClaimed(readModel, root)
               <=> ~\A p \in Projects : HistoryLive(p) => HistoryRoot(p) # root
  <1>1. ASSUME NEW p \in Projects
        PROVE  Project(p) = [status |-> "live", root |-> root]
                   <=> HistoryLive(p) /\ HistoryRoot(p) = root
    <2>1. Project(p) \in [status : {"absent", "live", "deleted"}, root : Roots \cup {NoRoot}]
      BY DEF MatchInv, TypeInv, Project
    <2>2. Project(p) = [status |-> "live", root |-> root]
              <=> Project(p).status = "live" /\ Project(p).root = root
      BY <2>1
    <2>3. Project(p).status = "live" <=> HistoryLive(p)
      BY DEF MatchInv, ProjectMatches
    <2>4. Project(p).status = "live" => HistoryRoot(p) = Project(p).root
      BY RootMatches DEF MatchInv, ProjectExists, Project
    <2> QED
      BY <2>2, <2>3, <2>4
  <1>2. RootClaimed(readModel, root)
            <=> \E p \in Projects : Project(p) = [status |-> "live", root |-> root]
    BY DEF RootClaimed, Project
  <1> QED
    BY <1>1, <1>2

LEMMA SessionGuards ==
    ASSUME MatchInv, NEW s \in Sessions
    PROVE  /\ SessionExists(readModel, s) <=> HistoryHasSession(s)
           /\ SessionOpen(readModel, s) <=> HistoryHasSession(s) /\ ~HistoryArchived(s)
           /\ readModel.sessions[s].archived <=> HistoryArchived(s)
           /\ \A k : HasCheckpoint(readModel, s, k) <=> HistoryHasCheckpoint(s, k)
  <1>1. TypeInv /\ SessionMatches(s)
    BY DEF MatchInv
  <1>2. SessionExists(readModel, s) <=> HistoryHasSession(s)
    BY <1>1 DEF SessionMatches
  <1>3. readModel.sessions[s].archived <=> HistoryArchived(s)
    <2>1. Session(s).archived \in {TRUE, FALSE}
      BY <1>1 DEF TypeInv, IsRow, Session
    <2>2. Session(s).archived = TRUE <=> HistoryArchived(s)
      BY <1>1 DEF SessionMatches
    <2> QED
      BY <2>1, <2>2, Zenon DEF Session
  <1>4. SessionOpen(readModel, s) <=> HistoryHasSession(s) /\ ~HistoryArchived(s)
    BY <1>2, <1>3, Zenon DEF SessionOpen
  <1> QED
    BY <1>1, <1>2, <1>3, <1>4, CheckpointMatches

\* A command is let through exactly when the event history allows it
\* (commandInvariants.ts on the state projector.ts folds), for any commands,
\* any retention caps and histories of any length.
THEOREM DecisionsMatch == Spec => []DecisionsMatchHistory
  <1>1. Init => MatchInv
    BY TypeInvInit, ProjectMatchesInit, SessionMatchesInit DEF MatchInv
  <1>2. MatchInv => DecisionsMatchHistory
    <2> SUFFICES ASSUME MatchInv, NEW c \in Commands
                 PROVE  DecideAccepts(readModel, c) <=> HistoryAccepts(c)
      BY DEF DecisionsMatchHistory
    <2>1. c.type \in ProjectCommands \cup {"project.create"} =>
              (ProjectExists(readModel, c.project) <=> HistoryHasProject(c.project))
      BY VocabularyAssumption, ProjectGuards
    <2>2. RootClaimed(readModel, c.root)
              <=> ~\A p \in Projects : HistoryLive(p) => HistoryRoot(p) # c.root
      BY RootGuard
    <2>3. c.type \in SessionCommands \cup OpenSessionCommands \cup CheckpointCommands
                         \cup {"session.create", "session.unarchive", "checkpoint.create"}
            => /\ SessionExists(readModel, c.session) <=> HistoryHasSession(c.session)
               /\ SessionOpen(readModel, c.session)
                     <=> HistoryHasSession(c.session) /\ ~HistoryArchived(c.session)
               /\ readModel.sessions[c.session].archived <=> HistoryArchived(c.session)
               /\ HasCheckpoint(readModel, c.session, c.checkpoint)
                     <=> HistoryHasCheckpoint(c.session, c.checkpoint)
      BY VocabularyAssumption, SessionGuards
    <2>4. IsInjective(c.ids) <=> \A i, j \in DOMAIN c.ids : i # j => c.ids[i] # c.ids[j]
      BY DEF IsInjective
    <2> QED
      BY <2>1, <2>2, <2>3, <2>4, Zenon DEF DecideAccepts, HistoryAccepts
  <1> QED
    BY <1>1, <1>2, MatchInvStep, PTL DEF Spec

-----------------------------------------------------------------------------
(* Message text *)

MessageTypes == {"MessageSent", "TokenAppended"}
Names == {e.message : e \in Committed}
Tokens == {e.token : e \in Committed}

Messages(s) == Session(s).messages

MessagesTyped ==
    \A s \in Sessions :
        /\ Messages(s) \in Seq([id : Names, text : Seq(Tokens)])
        /\ Len(Messages(s)) <= MaxMessages

\* The text an event gives its message.
TextAfter(messages, e) ==
    IF e.type = "MessageSent" THEN <<e.token>>
    ELSE Append(TextSoFar(messages, e.message), e.token)

Hears(e, s) == e.type \in MessageTypes /\ e.session = s /\ SessionExists(readModel, s)

\* The messages of session s once e is folded in.
MessagesAfter(e, s) ==
    IF e.type = "SessionCreated" /\ e.session = s THEN <<>>
    ELSE IF Hears(e, s)
         THEN UpsertMessage(Messages(s),
                            [id |-> e.message, text |-> TextAfter(Messages(s), e)])
         ELSE Messages(s)

ProjectTypes == {"ProjectCreated", "ProjectMetaUpdated", "ProjectDeleted"}

\* An event names a row of its kind.
Addressed(e) ==
    /\ e.type \in RowTypes => e.session \in Sessions
    /\ e.type \in ProjectTypes => e.project \in Projects

\* The cap drops no message of a row that keeps to it.
LEMMA CapKeepsMessages ==
    ASSUME TypeInv, MessagesTyped, NEW s \in Sessions
    PROVE  Capped.sessions[s].messages = Messages(s)
  <1>1. Capped.sessions[s] = CapSessionRetention(readModel.sessions[s])
    <2>1. Capped.sessions = [t \in Sessions |-> CapSessionRetention(readModel.sessions[t])]
      <3> DEFINE rows == [t \in Sessions |-> CapSessionRetention(readModel.sessions[t])]
      <3>1. readModel = [projects |-> readModel.projects, sessions |-> readModel.sessions]
        BY DEF TypeInv
      <3>2. Capped = [readModel EXCEPT !.sessions = rows]
        BY DEF Capped, AdvanceReadModelCursor
      <3> HIDE DEF rows
      <3>3. Capped.sessions = rows
        BY <3>1, <3>2
      <3> QED
        BY <3>3 DEF rows
    <2> QED
      BY <2>1
  <1>2. RetainNewest(Messages(s), MaxMessages) = Messages(s)
    BY DEF MessagesTyped, RetainNewest
  <1>3. CapSessionRetention(readModel.sessions[s]).messages = RetainNewest(Messages(s), MaxMessages)
    <2>1. ASSUME NEW a, NEW b, NEW m, NEW k
          PROVE  [status |-> a, archived |-> b, messages |-> m, checkpoints |-> k].messages = m
      OBVIOUS
    <2> QED
      BY <2>1, Zenon DEF CapSessionRetention, Messages, Session
  <1> QED
    BY <1>1, <1>2, <1>3

\* A fold that leaves the rows capped keeps every message; so does one that
\* sets a row beside.
LEMMA MessagesOfRows ==
    ASSUME TypeInv, MessagesTyped
    PROVE  /\ \A s \in Sessions : Capped.sessions[s].messages = Messages(s)
           /\ \A p \in Projects : \A row :
                 [Capped EXCEPT !.projects[p] = row].sessions = Capped.sessions
           /\ \A t \in Sessions : \A row : \A s \in Sessions :
                 [Capped EXCEPT !.sessions[t] = row].sessions[s].messages =
                     IF s = t THEN row.messages ELSE Messages(s)
  <1>1. \A s \in Sessions : Capped.sessions[s].messages = Messages(s)
    BY CapKeepsMessages
  <1>2. /\ Capped = [projects |-> readModel.projects, sessions |-> Capped.sessions]
        /\ Capped.sessions = [s \in Sessions |-> Capped.sessions[s]]
    BY CapKeepsRows
  <1>3. Capped = [projects |-> Capped.projects, sessions |-> Capped.sessions]
    BY <1>2
  <1>4. ASSUME NEW p \in Projects, NEW row
        PROVE  [Capped EXCEPT !.projects[p] = row].sessions = Capped.sessions
    BY <1>3, SetProject
  <1>5. ASSUME NEW t \in Sessions, NEW row, NEW s \in Sessions
        PROVE  [Capped EXCEPT !.sessions[t] = row].sessions[s].messages =
                   IF s = t THEN row.messages ELSE Messages(s)
    <2>1. [Capped EXCEPT !.sessions[t] = row].sessions = [Capped.sessions EXCEPT ![t] = row]
      BY <1>3, SetSession
    <2>2. [Capped.sessions EXCEPT ![t] = row][s] = IF s = t THEN row ELSE Capped.sessions[s]
      BY <1>2
    <2> QED
      BY <1>1, <2>1, <2>2
  <1> QED
    BY <1>1, <1>4, <1>5

\* What one event does to the messages of every session.
LEMMA FoldMessages ==
    ASSUME TypeInv, MessagesTyped, NEW e, Addressed(e), NEW s \in Sessions
    PROVE  ProjectEvent(readModel, e).sessions[s].messages = MessagesAfter(e, s)
  <1> DEFINE t == e.session
             r == Capped.sessions[t]
             after == ProjectEvent(readModel, e)
  <1>1. ASSUME t \in Sessions
        PROVE  /\ r = [status |-> r.status, archived |-> r.archived, messages |-> r.messages,
                       checkpoints |-> r.checkpoints]
               /\ r.messages = Messages(t)
               /\ SessionExists(Capped, t) <=> SessionExists(readModel, t)
    BY <1>1, CapKeepsRows, CapKeepsMessages, ExistsKept DEF IsRow
  <1>2. CASE e.type \in ProjectTypes
    <2>1. after = Capped \/ \E row : after = [Capped EXCEPT !.projects[e.project] = row]
      <3>1. CASE e.type = "ProjectCreated"
        BY <3>1 DEF ProjectEvent, Capped
      <3>2. CASE e.type = "ProjectMetaUpdated"
        <4>1. \E row : after = UpdateProject(Capped, e.project, row)
          BY <3>2 DEF ProjectEvent, Capped
        <4> QED
          BY <4>1 DEF UpdateProject
      <3>3. CASE e.type = "ProjectDeleted"
        <4>1. \E row : after = UpdateProject(Capped, e.project, row)
          BY <3>3 DEF ProjectEvent, Capped
        <4> QED
          BY <4>1 DEF UpdateProject
      <3> QED
        BY <1>2, <3>1, <3>2, <3>3 DEF ProjectTypes
    <2>2. after.sessions = Capped.sessions
      BY ZenonT(40), <1>2, <2>1, MessagesOfRows DEF Addressed
    <2>3. MessagesAfter(e, s) = Messages(s)
      BY <1>2 DEF MessagesAfter, Hears, ProjectTypes, MessageTypes
    <2> QED
      BY <2>2, <2>3, MessagesOfRows
  <1>3. CASE e.type = "SessionCreated"
    <2>1. t \in Sessions
      BY <1>3 DEF Addressed, RowTypes, SessionTypes
    <2>2. after = [Capped EXCEPT !.sessions[t] = [NoSession EXCEPT !.status = "live"]]
      BY <1>3 DEF ProjectEvent, Capped
    <2>3. [NoSession EXCEPT !.status = "live"].messages = <<>>
      <3>1. ASSUME NEW x
            PROVE  [[status |-> "absent", archived |-> x, messages |-> <<>>, checkpoints |-> <<>>]
                       EXCEPT !.status = "live"].messages = <<>>
        OBVIOUS
      <3> QED
        BY <3>1, Zenon DEF NoSession
    <2>4. after.sessions[s].messages = IF s = t THEN <<>> ELSE Messages(s)
      BY <2>1, <2>2, <2>3, MessagesOfRows
    <2> QED
      BY <1>3, <2>4 DEF MessagesAfter, Hears, MessageTypes
  <1>4. CASE e.type \in SessionTypes \ {"SessionCreated"}
    <2>1. t \in Sessions
      BY <1>4 DEF Addressed, RowTypes
    <2>2. \E row : row.messages = r.messages /\ after = UpdateSession(Capped, t, row)
      <3>1. ASSUME NEW x
            PROVE  /\ [r EXCEPT !.archived = x].messages = r.messages
                   /\ [r EXCEPT !.status = x].messages = r.messages
                   /\ [r EXCEPT !.checkpoints = x].messages = r.messages
        <4> HIDE DEF r
        <4> QED
          BY <1>1, <2>1
      <3>2. CASE e.type = "SessionArchived"
        <4>1. after = UpdateSession(Capped, t, [r EXCEPT !.archived = TRUE])
          BY <3>2 DEF ProjectEvent, Capped
        <4> QED
          BY <3>1, <4>1, Zenon
      <3>3. CASE e.type = "SessionUnarchived"
        <4>1. after = UpdateSession(Capped, t, [r EXCEPT !.archived = FALSE])
          BY <3>3 DEF ProjectEvent, Capped
        <4> QED
          BY <3>1, <4>1, Zenon
      <3>4. CASE e.type = "SessionDeleted"
        <4>1. after = UpdateSession(Capped, t, [r EXCEPT !.status = "deleted"])
          BY <3>4 DEF ProjectEvent, Capped
        <4> QED
          BY <3>1, <4>1, Zenon
      <3>5. CASE e.type = "CheckpointCreated"
        <4>1. after = UpdateSession(Capped, t, [r EXCEPT !.checkpoints =
                          UpsertCheckpoint(r.checkpoints, e.checkpoint)])
          BY <3>5 DEF ProjectEvent, Capped
        <4> QED
          BY <3>1, <4>1, Zenon
      <3> QED
        BY <1>4, <3>2, <3>3, <3>4, <3>5 DEF SessionTypes
    <2>3. PICK row : row.messages = r.messages /\ after = UpdateSession(Capped, t, row)
      BY <2>2
    <2>4. after = Capped \/ after = [Capped EXCEPT !.sessions[t] = row]
      BY <2>3 DEF UpdateSession
    <2> HIDE DEF after, t, r
    <2>5. after.sessions[s].messages = Messages(s)
      <3>1. r.messages = Messages(t)
        BY <1>1, <2>1
      <3>2. [Capped EXCEPT !.sessions[t] = row].sessions[s].messages =
               IF s = t THEN row.messages ELSE Messages(s)
        BY <2>1, MessagesOfRows
      <3>3. Capped.sessions[s].messages = Messages(s)
        BY MessagesOfRows
      <3> QED
        BY <2>3, <2>4, <3>1, <3>2, <3>3
    <2> QED
      BY <1>4, <2>5 DEF after, MessagesAfter, Hears, MessageTypes, SessionTypes
  <1>5. CASE e.type \in MessageTypes
    <2>1. t \in Sessions
      BY <1>5 DEF Addressed, RowTypes, MessageTypes
    <2> DEFINE put == UpsertMessage(r.messages, [id |-> e.message, text |-> TextAfter(r.messages, e)])
    <2>2. after = UpdateSession(Capped, t, [r EXCEPT !.messages = put])
      <3>1. CASE e.type = "MessageSent"
        BY <3>1 DEF ProjectEvent, Capped, TextAfter
      <3>2. CASE e.type = "TokenAppended"
        BY <3>2 DEF ProjectEvent, Capped, TextAfter
      <3> QED
        BY <1>5, <3>1, <3>2 DEF MessageTypes
    <2>3. put = UpsertMessage(Messages(t), [id |-> e.message, text |-> TextAfter(Messages(t), e)])
      BY <1>1, <2>1
    <2>4. [r EXCEPT !.messages = put].messages = put
      <3> HIDE DEF put, r
      <3> QED
        BY <1>1, <2>1
    <2> DEFINE row == [r EXCEPT !.messages = put]
    <2> HIDE DEF row, put
    <2>5. CASE SessionExists(readModel, t)
      <3>1. after = [Capped EXCEPT !.sessions[t] = row]
        BY <1>1, <2>1, <2>2, <2>5 DEF UpdateSession, row
      <3> HIDE DEF after, t, r
      <3>2. after.sessions[s].messages = IF s = t THEN put ELSE Messages(s)
        <4>1. row.messages = put
          BY <2>4 DEF row
        <4>2. [Capped EXCEPT !.sessions[t] = row].sessions[s].messages =
                 IF s = t THEN row.messages ELSE Messages(s)
          BY <2>1, MessagesOfRows
        <4> QED
          BY <3>1, <4>1, <4>2
      <3> QED
        BY <1>5, <2>3, <2>5, <3>2 DEF after, t, MessagesAfter, Hears, MessageTypes
    <2>6. CASE ~SessionExists(readModel, t)
      <3>1. after = Capped
        BY <1>1, <2>1, <2>2, <2>6 DEF UpdateSession
      <3> QED
        BY <1>5, <2>6, <3>1, MessagesOfRows DEF MessagesAfter, Hears, MessageTypes
    <2> QED
      BY <2>5, <2>6
  <1>6. CASE e.type \notin RowTypes \cup ProjectTypes
    <2>1. after = Capped
      BY <1>6, FoldOther DEF ProjectTypes
    <2> QED
      BY <1>6, <2>1, MessagesOfRows DEF MessagesAfter, Hears, MessageTypes, RowTypes, SessionTypes
  <1> QED
    BY <1>2, <1>3, <1>4, <1>5, <1>6 DEF RowTypes, MessageTypes

\* So a step that commits e does it to the messages.
LEMMA MessagesStep ==
    ASSUME TypeInv, MessagesTyped, [Next]_vars, NEW e, Steps(e), NEW s \in Sessions
    PROVE  Messages(s)' = MessagesAfter(e, s)
  <1>1. ASSUME NEW f \in Committed, Commit(f), Addressed(f)
        PROVE  Messages(s)' = MessagesAfter(e, s)
    <2>1. f = e
      <3>1. history' = Append(history, e) /\ history' = Append(history, f) /\ history \in Seq(Committed)
            /\ e \in Committed /\ f \in Committed
        BY <1>1 DEF Commit, Steps, TypeInv
      <3>2. ASSUME NEW g \in Committed
            PROVE  Append(history, g)[Len(history) + 1] = g
        BY <3>1
      <3>3. Append(history, e)[Len(history) + 1] = e /\ Append(history, f)[Len(history) + 1] = f
        BY <3>1, <3>2
      <3>4. Append(history, e) = Append(history, f)
        BY <3>1
      <3> QED
        BY <3>3, <3>4, Zenon
    <2> QED
      BY <1>1, <2>1, FoldMessages DEF Commit, Messages, Session
  <1>2. ASSUME NEW c \in Commands, Decide(c)
        PROVE  DecidedEvent(c) \in Committed /\ Addressed(DecidedEvent(c))
    <2> DEFINE d == DecidedEvent(c)
    <2>1. d \in Committed /\ d.type = EventTypeOf(c.type)
      BY DecidedFields
    <2>2. d.type \in RowTypes => d.session \in Sessions
      <3>1. d.type \in RowTypes =>
              c.type \in {"session.create", "session.archive", "session.unarchive", "session.delete",
                          "message.send", "token.append", "checkpoint.create"}
        BY <2>1 DEF EventTypeOf, RowTypes, SessionTypes
      <3> QED
        BY <3>1, DecidedFields, VocabularyAssumption DEF SessionCommands, OpenSessionCommands
    <2>3. d.type \in ProjectTypes => d.project \in Projects
      <3>1. d.type \in ProjectTypes =>
              c.type \in {"project.create", "project.meta.update", "project.delete"}
        BY <2>1 DEF EventTypeOf, ProjectTypes
      <3> QED
        BY <3>1, DecidedFields, VocabularyAssumption DEF ProjectCommands
    <2> QED
      BY <2>1, <2>2, <2>3 DEF Addressed
  <1>3. ASSUME NEW f \in ProviderEvents
        PROVE  f \in Committed /\ Addressed(f)
    BY VocabularyAssumption DEF Committed, Addressed, RowTypes, SessionTypes, ProjectTypes
  <1>4. ~UNCHANGED vars
    <2>1. history' = Append(history, e) /\ history \in Seq(Committed)
      BY DEF Steps, TypeInv
    <2>2. Len(history') # Len(history)
      BY <2>1
    <2> QED
      BY <2>2 DEF vars
  <1> QED
    BY <1>1, <1>2, <1>3, <1>4 DEF Next, Decide, Provide, Refuse

\* The messages as they are before the cap.
Put(messages, message) ==
    IF \E i \in DOMAIN messages : messages[i].id = message.id
    THEN [i \in DOMAIN messages |-> IF messages[i].id = message.id THEN message ELSE messages[i]]
    ELSE Append(messages, message)

Message == [id : Names, text : Seq(Tokens)]

LEMMA PutTyped ==
    ASSUME NEW messages \in Seq(Message), NEW message \in Message
    PROVE  /\ Put(messages, message) \in Seq(Message)
           /\ Len(Put(messages, message)) \in {Len(messages), Len(messages) + 1}
           /\ UpsertMessage(messages, message) = RetainNewest(Put(messages, message), MaxMessages)
  <1>1. UpsertMessage(messages, message) = RetainNewest(Put(messages, message), MaxMessages)
    BY DEF UpsertMessage, Put
  <1>2. CASE \E i \in DOMAIN messages : messages[i].id = message.id
    <2> DEFINE put == [i \in 1..Len(messages) |->
                          IF messages[i].id = message.id THEN message ELSE messages[i]]
    <2>1. Put(messages, message) = put
      BY <1>2 DEF Put
    <2>2. \A i \in 1..Len(messages) : put[i] \in Message
      OBVIOUS
    <2>3. put \in [1..Len(messages) -> Message] /\ Len(messages) \in Nat
      BY <2>2
    <2> HIDE DEF put
    <2>4. put \in Seq(Message) /\ Len(put) = Len(messages)
      BY <2>3
    <2> QED
      BY <1>1, <2>1, <2>4
  <1>3. CASE ~\E i \in DOMAIN messages : messages[i].id = message.id
    <2>1. Put(messages, message) = Append(messages, message)
      BY <1>3 DEF Put
    <2> QED
      BY <1>1, <2>1
  <1> QED
    BY <1>2, <1>3

\* The text a message of the list has, and the text of one that is not there.
LEMMA TextTyped ==
    ASSUME NEW messages \in Seq(Message), NEW m
    PROVE  /\ TextSoFar(messages, m) \in Seq(Tokens)
           /\ (\A i \in DOMAIN messages : messages[i].id # m) => TextSoFar(messages, m) = <<>>
           /\ \A i \in DOMAIN messages :
                 (/\ messages[i].id = m
                  /\ \A j \in DOMAIN messages : messages[j].id = m => j = i)
                 => TextSoFar(messages, m) = messages[i].text
  <1>1. CASE \A i \in DOMAIN messages : messages[i].id # m
    <2>1. TextSoFar(messages, m) = <<>>
      BY <1>1 DEF TextSoFar
    <2> QED
      BY <1>1, <2>1
  <1>2. CASE \E i \in DOMAIN messages : messages[i].id = m
    <2> DEFINE x == CHOOSE x \in ToSet(messages) : x.id = m
    <2>1. ToSet(messages) = {messages[i] : i \in DOMAIN messages}
      BY DEF ToSet
    <2>2. \E y \in ToSet(messages) : y.id = m
      BY <1>2, <2>1
    <2>3. x \in ToSet(messages) /\ x.id = m
      BY <2>2
    <2>4. TextSoFar(messages, m) = x.text
      BY <1>2 DEF TextSoFar
    <2> HIDE DEF x
    <2>5. PICK k \in DOMAIN messages : x = messages[k]
      BY <2>1, <2>3
    <2>6. x.text \in Seq(Tokens)
      <3>1. messages[k] \in Message
        BY <2>5
      <3> QED
        BY <2>5, <3>1 DEF Message
    <2> QED
      BY <1>2, <2>3, <2>4, <2>5, <2>6
  <1> QED
    BY <1>1, <1>2

LEMMA MessagesTypedInit == Init => MessagesTyped
  <1> SUFFICES ASSUME Init, NEW s \in Sessions
               PROVE  Messages(s) \in Seq(Message) /\ Len(Messages(s)) <= MaxMessages
    BY DEF MessagesTyped, Message
  <1>1. Messages(s) = NoSession.messages
    BY DEF Init, EmptyReadModel, Messages, Session
  <1>2. NoSession.messages = <<>>
    <2>1. \A x : [status |-> "absent", archived |-> x, messages |-> <<>>, checkpoints |-> <<>>].messages = <<>>
      OBVIOUS
    <2> QED
      BY <2>1, Zenon DEF NoSession
  <1> QED
    BY <1>1, <1>2, RetentionAssumption

\* The message an event writes.
Written(e, s) == [id |-> e.message, text |-> TextAfter(Messages(s), e)]

LEMMA WrittenTyped ==
    ASSUME MessagesTyped, NEW e \in Committed, NEW s \in Sessions
    PROVE  /\ Messages(s) \in Seq(Message) /\ Len(Messages(s)) <= MaxMessages
           /\ Written(e, s) \in Message
           /\ Written(e, s).id = e.message /\ Written(e, s).text = TextAfter(Messages(s), e)
  <1>1. Messages(s) \in Seq(Message) /\ Len(Messages(s)) <= MaxMessages
    BY DEF MessagesTyped, Message
  <1>2. e.message \in Names /\ e.token \in Tokens
    BY DEF Names, Tokens
  <1>3. TextAfter(Messages(s), e) \in Seq(Tokens)
    <2>1. TextSoFar(Messages(s), e.message) \in Seq(Tokens)
      BY <1>1, TextTyped
    <2> QED
      BY <1>2, <2>1 DEF TextAfter
  <1> QED
    BY <1>1, <1>2, <1>3 DEF Written, Message

LEMMA MessagesTypedStep == TypeInv /\ MessagesTyped /\ [Next]_vars => MessagesTyped'
  <1> SUFFICES ASSUME TypeInv, MessagesTyped, [Next]_vars PROVE MessagesTyped'
    OBVIOUS
  <1>1. CASE UNCHANGED vars
    BY <1>1 DEF vars, MessagesTyped, Messages, Session
  <1>2. ASSUME NEW e, Steps(e), NEW s \in Sessions
        PROVE  Messages(s)' \in Seq(Message) /\ Len(Messages(s)') <= MaxMessages
    <2>1. Messages(s)' = MessagesAfter(e, s)
      BY <1>2, MessagesStep
    <2>2. e \in Committed
      BY <1>2 DEF Steps
    <2>3. UpsertMessage(Messages(s), Written(e, s)) \in Seq(Message)
          /\ Len(UpsertMessage(Messages(s), Written(e, s))) <= MaxMessages
      <3>1. Put(Messages(s), Written(e, s)) \in Seq(Message)
        BY <2>2, WrittenTyped, PutTyped
      <3> QED
        BY <2>2, <3>1, WrittenTyped, PutTyped, RetainedType, RetentionAssumption
    <2>4. <<>> \in Seq(Message) /\ Len(<<>>) <= MaxMessages
      BY RetentionAssumption
    <2> QED
      BY <2>1, <2>2, <2>3, <2>4, WrittenTyped DEF MessagesAfter, Written
  <1>3. MessagesTyped' <=> \A s \in Sessions :
            Messages(s)' \in Seq(Message) /\ Len(Messages(s)') <= MaxMessages
    BY DEF MessagesTyped, Message, Names, Tokens
  <1> QED
    BY <1>1, <1>2, <1>3, EveryStep

\* The events of a session's transcript, and those the text of message m is
\* made of: from its last MessageSent on, after the session was created.
Transcript(s) == OfSession(MessageTypes, s)
Started(s) == OfSession({"SessionCreated"}, s)
NamesOf(s) == {history[i].message : i \in Transcript(s)}
Resent(s, m, i) ==
    \E j \in Transcript(s) : j > i /\ history[j].message = m /\ history[j].type = "MessageSent"
Pieces(s, m) ==
    {i \in Transcript(s) : /\ history[i].message = m
                           /\ ~Resent(s, m, i)
                           /\ \E n \in Started(s) : n < i}

PiecesOf(s) == [m \in NamesOf(s) |-> Pieces(s, m)]

\* The text is the tokens of these events, in their order.
Spells(h, text, pieces) ==
    /\ Len(text) = Cardinality(pieces)
    /\ \A n \in pieces : text[Cardinality({j \in pieces : j <= n})] = h[n].token

\* One message for each that has pieces, with the text they make.
Matching(h, messages, pieces) ==
    /\ \A i, j \in DOMAIN messages : messages[i].id = messages[j].id => i = j
    /\ {messages[i].id : i \in DOMAIN messages} = {m \in DOMAIN pieces : pieces[m] # {}}
    /\ \A i \in DOMAIN messages : Spells(h, messages[i].text, pieces[messages[i].id])

\* The messages of a session that never had more than the cap keeps.
TextMatches(s) ==
    Cardinality(NamesOf(s)) <= MaxMessages => Matching(history, Messages(s), PiecesOf(s))

LEMMA TextMatchesProperty ==
    (\A s \in Sessions : TextMatches(s)) => TextIsCommittedTokens
  <1> SUFFICES ASSUME \A s \in Sessions : TextMatches(s), NEW s \in Sessions
               PROVE  LET P(m) == {i \in Transcript(s) :
                                     /\ history[i].message = m
                                     /\ \A j \in Transcript(s) :
                                          j > i => ~(history[j].message = m
                                                     /\ history[j].type = "MessageSent")
                                     /\ \E n \in Started(s) : n < i}
                          ids == {history[i].message : i \in Transcript(s)}
                      IN  Cardinality(ids) <= MaxMessages =>
                            /\ {Messages(s)[i].id : i \in DOMAIN Messages(s)} = {m \in ids : P(m) # {}}
                            /\ \A i \in DOMAIN Messages(s) :
                                  /\ Len(Messages(s)[i].text) = Cardinality(P(Messages(s)[i].id))
                                  /\ \A n \in P(Messages(s)[i].id) :
                                        Messages(s)[i].text[Cardinality({j \in P(Messages(s)[i].id) : j <= n})]
                                            = history[n].token
    BY DEF TextIsCommittedTokens, Transcript, Started, Messages, Session, MessageTypes
  <1> DEFINE P(m) == {i \in Transcript(s) :
                         /\ history[i].message = m
                         /\ \A j \in Transcript(s) :
                              j > i => ~(history[j].message = m /\ history[j].type = "MessageSent")
                         /\ \E n \in Started(s) : n < i}
  <1>1. \A m : P(m) = Pieces(s, m)
    BY DEF Pieces, Resent
  <1>2. TextMatches(s)
    OBVIOUS
  <1> HIDE DEF P
  <1>3. Cardinality(NamesOf(s)) <= MaxMessages =>
          /\ {Messages(s)[i].id : i \in DOMAIN Messages(s)} = {m \in NamesOf(s) : P(m) # {}}
          /\ \A i \in DOMAIN Messages(s) : Spells(history, Messages(s)[i].text, P(Messages(s)[i].id))
    <2>1. DOMAIN PiecesOf(s) = NamesOf(s) /\ \A m \in NamesOf(s) : PiecesOf(s)[m] = P(m)
      BY <1>1 DEF PiecesOf
    <2> SUFFICES ASSUME Cardinality(NamesOf(s)) <= MaxMessages
                 PROVE  /\ {Messages(s)[i].id : i \in DOMAIN Messages(s)} = {m \in NamesOf(s) : P(m) # {}}
                        /\ \A i \in DOMAIN Messages(s) :
                              Spells(history, Messages(s)[i].text, P(Messages(s)[i].id))
      OBVIOUS
    <2>2. Matching(history, Messages(s), PiecesOf(s))
      BY <1>2 DEF TextMatches
    <2>3. {Messages(s)[i].id : i \in DOMAIN Messages(s)} = {m \in NamesOf(s) : P(m) # {}}
      BY <2>1, <2>2 DEF Matching
    <2>4. \A i \in DOMAIN Messages(s) : Messages(s)[i].id \in NamesOf(s)
      BY <2>3
    <2> QED
      BY <2>1, <2>2, <2>3, <2>4 DEF Matching
  <1> QED
    BY <1>3, Zenon DEF Spells, NamesOf, P

LEMMA PiecesFinite ==
    ASSUME TypeInv, NEW s
    PROVE  /\ IsFiniteSet(Transcript(s)) /\ Transcript(s) \subseteq Nat
           /\ IsFiniteSet(NamesOf(s)) /\ Cardinality(NamesOf(s)) \in Nat
           /\ \A m : /\ Pieces(s, m) \subseteq Transcript(s)
                     /\ IsFiniteSet(Pieces(s, m)) /\ Cardinality(Pieces(s, m)) \in Nat
  <1>1. Len(history) \in Nat /\ Transcript(s) \subseteq 1..Len(history)
    BY DEF TypeInv, Transcript, OfSession, Types
  <1>2. IsFiniteSet(1..Len(history))
    BY <1>1, FS_Interval
  <1>3. IsFiniteSet(Transcript(s)) /\ Transcript(s) \subseteq Nat
    BY <1>1, <1>2, FS_Subset
  <1>4. IsFiniteSet(NamesOf(s))
    <2> DEFINE f == [i \in Transcript(s) |-> history[i].message]
    <2>1. f \in Surjection(Transcript(s), NamesOf(s))
      BY DEF Surjection, NamesOf
    <2> QED
      BY <1>3, <2>1, FS_Surjection
  <1>5. \A m : Pieces(s, m) \subseteq Transcript(s)
    BY DEF Pieces
  <1> QED
    BY <1>3, <1>4, <1>5, FS_Subset, FS_CardinalityType

\* How the pieces of a message change with the event e.
LEMMA PiecesGrow ==
    ASSUME TypeInv, NEW e, Steps(e), NEW s, NEW m
    PROVE  /\ ~(e.type \in MessageTypes \cup {"SessionCreated"} /\ e.session = s) =>
                NamesOf(s)' = NamesOf(s) /\ Pieces(s, m)' = Pieces(s, m)
           /\ e.type = "SessionCreated" /\ e.session = s /\ Started(s) = {} => Pieces(s, m)' = {}
           /\ e.type \in MessageTypes /\ e.session = s =>
                /\ NamesOf(s)' = NamesOf(s) \cup {e.message}
                /\ m # e.message => Pieces(s, m)' = Pieces(s, m)
                /\ m = e.message /\ Started(s) # {} =>
                     Pieces(s, m)' = IF e.type = "MessageSent" THEN {Newest}
                                     ELSE Pieces(s, m) \cup {Newest}
           /\ Started(s) = {} => Pieces(s, m) = {}
           /\ Pieces(s, m) \subseteq DOMAIN history
           /\ m \notin NamesOf(s) => Pieces(s, m) = {}
  <1>1. /\ Transcript(s) \subseteq DOMAIN history /\ Started(s) \subseteq DOMAIN history
        /\ Transcript(s)' = IF e.type \in MessageTypes /\ e.session = s
                            THEN Transcript(s) \cup {Newest} ELSE Transcript(s)
        /\ Started(s)' = IF e.type = "SessionCreated" /\ e.session = s
                         THEN Started(s) \cup {Newest} ELSE Started(s)
    BY SessionEventsGrow DEF Transcript, Started, MessageTypes
  <1>2. /\ Newest \in Nat /\ Newest \notin DOMAIN history /\ history'[Newest] = e
        /\ \A i \in DOMAIN history : i \in Nat /\ i < Newest /\ history'[i] = history[i]
    BY HistoryGrows DEF Newest
  <1>3. /\ Pieces(s, m) \subseteq Transcript(s)
        /\ Started(s) = {} => Pieces(s, m) = {}
        /\ m \notin NamesOf(s) => Pieces(s, m) = {}
    BY DEF Pieces, NamesOf
  <1>4. ASSUME ~(e.type \in MessageTypes \cup {"SessionCreated"} /\ e.session = s)
        PROVE  NamesOf(s)' = NamesOf(s) /\ Pieces(s, m)' = Pieces(s, m)
    <2>1. Transcript(s)' = Transcript(s) /\ Started(s)' = Started(s)
      BY <1>1, <1>4
    <2>2. \A i \in Transcript(s) : history'[i] = history[i]
      BY <1>1, <1>2
    <2>3. \A i \in Transcript(s) : Resent(s, m, i)' <=> Resent(s, m, i)
      BY <2>1, <2>2 DEF Resent
    <2> QED
      BY <2>1, <2>2, <2>3 DEF NamesOf, Pieces
  <1>5. ASSUME e.type = "SessionCreated", e.session = s, Started(s) = {}
        PROVE  Pieces(s, m)' = {}
    <2>1. Transcript(s)' = Transcript(s) /\ Started(s)' = {Newest}
      BY <1>1, <1>5 DEF MessageTypes
    <2>2. \A i \in Transcript(s)' : \A n \in Started(s)' : ~(n < i)
      BY <1>1, <1>2, <2>1
    <2> QED
      BY <2>2 DEF Pieces
  <1>6. ASSUME e.type \in MessageTypes, e.session = s
        PROVE  /\ NamesOf(s)' = NamesOf(s) \cup {e.message}
               /\ m # e.message => Pieces(s, m)' = Pieces(s, m)
               /\ m = e.message /\ Started(s) # {} =>
                     Pieces(s, m)' = IF e.type = "MessageSent" THEN {Newest}
                                     ELSE Pieces(s, m) \cup {Newest}
    <2>1. Transcript(s)' = Transcript(s) \cup {Newest} /\ Started(s)' = Started(s)
      BY <1>1, <1>6 DEF MessageTypes
    <2>2. \A i \in Transcript(s) : history'[i] = history[i] /\ i \in Nat /\ i < Newest /\ i # Newest
      BY <1>1, <1>2
    <2>3. NamesOf(s)' = NamesOf(s) \cup {e.message}
      BY <1>2, <2>1, <2>2 DEF NamesOf
    <2>4. \A i \in Transcript(s) :
              Resent(s, m, i)' <=> Resent(s, m, i) \/ (e.message = m /\ e.type = "MessageSent")
      BY <1>2, <2>1, <2>2 DEF Resent
    <2>5. ASSUME NEW n, n = Newest
          PROVE  ~Resent(s, m, n)'
      BY <1>2, <2>1, <2>2, <2>5 DEF Resent
    <2>6. \A i \in Transcript(s) : i \in Pieces(s, m)' <=>
              i \in Pieces(s, m) /\ ~(e.message = m /\ e.type = "MessageSent")
      BY <2>1, <2>2, <2>4 DEF Pieces
    <2>7. ASSUME NEW n, n = Newest
          PROVE  n \in Pieces(s, m)' <=> e.message = m /\ Started(s) # {}
      <3>1. Started(s) # {} <=> \E k \in Started(s) : k < n
        BY <1>1, <1>2, <2>7
      <3> QED
        BY <1>2, <2>1, <2>5, <2>7, <3>1 DEF Pieces
    <2>8. Pieces(s, m)' \subseteq Transcript(s) \cup {Newest}
      BY <2>1 DEF Pieces
    <2> QED
      BY <1>3, <2>2, <2>3, <2>6, <2>7, <2>8
  <1> QED
    BY <1>1, <1>3, <1>4, <1>5, <1>6

\* The first n of a set of naturals.
UpTo(pieces, n) == {j \in pieces : j <= n}

\* A text that spells pieces spells one more with its token appended.
LEMMA SpellsOneMore ==
    ASSUME NEW h, NEW g, NEW text \in Seq(Tokens), NEW pieces \in SUBSET Nat, IsFiniteSet(pieces),
           Spells(h, text, pieces), \A i \in pieces : g[i] = h[i],
           NEW new \in Nat, \A i \in pieces : i < new,
           g[new].token \in Tokens
    PROVE  Spells(g, Append(text, g[new].token), pieces \cup {new})
  <1> DEFINE more == pieces \cup {new}
             longer == Append(text, g[new].token)
  <1>1. new \notin pieces
    OBVIOUS
  <1>2. Cardinality(more) = Cardinality(pieces) + 1 /\ Cardinality(pieces) \in Nat
    BY <1>1, FS_AddElement, FS_CardinalityType
  <1>3. Len(text) = Cardinality(pieces)
        /\ \A n \in pieces : text[Cardinality(UpTo(pieces, n))] = h[n].token
    BY DEF Spells, UpTo
  <1>4. /\ Len(longer) = Len(text) + 1
        /\ \A i \in 1..Len(text) : longer[i] = text[i]
        /\ longer[Len(text) + 1] = g[new].token
    OBVIOUS
  <1> HIDE DEF longer
  <1>5. ASSUME NEW n \in pieces
        PROVE  longer[Cardinality(UpTo(more, n))] = g[n].token
    <2>1. UpTo(more, n) = UpTo(pieces, n)
      BY DEF UpTo
    <2>2. UpTo(pieces, n) \subseteq pieces /\ n \in UpTo(pieces, n)
      BY DEF UpTo
    <2>3. /\ IsFiniteSet(UpTo(pieces, n)) /\ Cardinality(UpTo(pieces, n)) \in Nat
          /\ Cardinality(UpTo(pieces, n)) <= Cardinality(pieces)
      BY <2>2, FS_Subset, FS_CardinalityType
    <2>4. Cardinality(UpTo(pieces, n)) # 0
      BY <2>2, <2>3, FS_EmptySet
    <2>5. Cardinality(UpTo(pieces, n)) \in 1..Len(text)
      BY <1>2, <1>3, <2>3, <2>4
    <2> QED
      BY <1>3, <1>4, <2>1, <2>5
  <1>6. longer[Cardinality(UpTo(more, new))] = g[new].token
    <2>1. UpTo(more, new) = more
      BY DEF UpTo
    <2> QED
      BY <1>2, <1>3, <1>4, <2>1
  <1>7. Len(longer) = Cardinality(more)
    BY <1>2, <1>3, <1>4
  <1> QED
    BY <1>5, <1>6, <1>7 DEF Spells, UpTo, longer

LEMMA SpellsNothing ==
    ASSUME NEW h
    PROVE  Spells(h, <<>>, {}) /\ \A text \in Seq(Tokens) : Spells(h, text, {}) => text = <<>>
  BY FS_EmptySet DEF Spells

\* A list that matches, with the message of the new piece put in, matches.
LEMMA PutMatches ==
    ASSUME NEW h, NEW g, NEW messages \in Seq(Message), NEW old, NEW new,
           Matching(h, messages, old),
           \A m \in DOMAIN old : \A n \in old[m] : g[n] = h[n],
           NEW message \in Message,
           DOMAIN new = DOMAIN old \cup {message.id},
           \A m \in DOMAIN new : m # message.id => new[m] = old[m],
           new[message.id] # {},
           Spells(g, message.text, new[message.id])
    PROVE  Matching(g, Put(messages, message), new)
  <1>1. /\ \A i, j \in DOMAIN messages : messages[i].id = messages[j].id => i = j
        /\ {messages[i].id : i \in DOMAIN messages} = {m \in DOMAIN old : old[m] # {}}
        /\ \A i \in DOMAIN messages : Spells(h, messages[i].text, old[messages[i].id])
    BY DEF Matching
  <1>2. \A i \in DOMAIN messages : messages[i].id \in DOMAIN old
    BY <1>1
  <1>3. \A i \in DOMAIN messages : messages[i].id # message.id =>
            new[messages[i].id] = old[messages[i].id]
            /\ Spells(g, messages[i].text, new[messages[i].id])
    <2> SUFFICES ASSUME NEW i \in DOMAIN messages, messages[i].id # message.id
                 PROVE  /\ new[messages[i].id] = old[messages[i].id]
                        /\ Spells(g, messages[i].text, new[messages[i].id])
      OBVIOUS
    <2>1. new[messages[i].id] = old[messages[i].id]
      BY <1>2
    <2>2. Spells(h, messages[i].text, old[messages[i].id])
      BY <1>1
    <2>3. \A n \in old[messages[i].id] : g[n] = h[n]
      BY <1>2
    <2>4. Spells(g, messages[i].text, old[messages[i].id])
      BY <2>2, <2>3 DEF Spells
    <2> QED
      BY <2>1, <2>4
  <1> DEFINE put == Put(messages, message)
  <1>4. CASE \E k \in DOMAIN messages : messages[k].id = message.id
    <2>1. PICK k \in DOMAIN messages : messages[k].id = message.id
      BY <1>4
    <2>2. /\ DOMAIN put = DOMAIN messages /\ put[k] = message
          /\ \A i \in DOMAIN messages \ {k} : put[i] = messages[i] /\ messages[i].id # message.id
      BY <1>1, <1>4, <2>1 DEF Put
    <2> HIDE DEF put
    <2>3. \A i \in DOMAIN put : put[i].id = messages[i].id
      BY <2>1, <2>2
    <2>4. \A i, j \in DOMAIN put : put[i].id = put[j].id => i = j
      BY <1>1, <2>2, <2>3
    <2>5. {put[i].id : i \in DOMAIN put} = {m \in DOMAIN new : new[m] # {}}
      <3>1. {put[i].id : i \in DOMAIN put} = {messages[i].id : i \in DOMAIN messages}
        BY <2>2, <2>3
      <3>2. \A m : m \in DOMAIN new /\ new[m] # {} <=> m \in DOMAIN old /\ old[m] # {}
        <4>1. message.id \in DOMAIN old /\ old[message.id] # {}
          BY <1>1, <2>1
        <4> QED
          BY <4>1
      <3> QED
        BY <1>1, <3>1, <3>2
    <2>6. \A i \in DOMAIN put : Spells(g, put[i].text, new[put[i].id])
      BY <1>3, <2>1, <2>2
    <2> QED
      BY <2>4, <2>5, <2>6 DEF Matching, put
  <1>5. CASE ~\E k \in DOMAIN messages : messages[k].id = message.id
    <2> DEFINE last == Len(messages) + 1
    <2>1. put = Append(messages, message)
      BY <1>5 DEF Put
    <2>2. /\ DOMAIN put = DOMAIN messages \cup {last} /\ last \notin DOMAIN messages
          /\ put[last] = message
          /\ \A i \in DOMAIN messages : put[i] = messages[i]
      BY <2>1
    <2> HIDE DEF put, last
    <2>3. \A i, j \in DOMAIN put : put[i].id = put[j].id => i = j
      BY <1>1, <1>5, <2>2
    <2>4. {put[i].id : i \in DOMAIN put} = {m \in DOMAIN new : new[m] # {}}
      <3>1. {put[i].id : i \in DOMAIN put} = {messages[i].id : i \in DOMAIN messages} \cup {message.id}
        BY <2>2
      <3>2. \A m : m \in DOMAIN new /\ new[m] # {} <=>
                (m \in DOMAIN old /\ old[m] # {}) \/ m = message.id
        <4>1. \A m \in DOMAIN old : old[m] # {} => m # message.id
          BY <1>1, <1>5
        <4> QED
          BY <4>1
      <3> QED
        BY <1>1, <3>1, <3>2
    <2>5. \A i \in DOMAIN put : Spells(g, put[i].text, new[put[i].id])
      BY <1>3, <1>5, <2>2
    <2> QED
      BY <2>3, <2>4, <2>5 DEF Matching, put
  <1> QED
    BY <1>4, <1>5

\* It is no longer than the number of messages there are pieces for.
LEMMA MatchingFits ==
    ASSUME NEW h, NEW messages \in Seq(Message), NEW pieces, Matching(h, messages, pieces),
           IsFiniteSet(DOMAIN pieces)
    PROVE  Len(messages) <= Cardinality(DOMAIN pieces)
  <1> DEFINE f == [i \in 1..Len(messages) |-> messages[i].id]
  <1>1. /\ \A i, j \in 1..Len(messages) : messages[i].id = messages[j].id => i = j
        /\ \A i \in 1..Len(messages) : messages[i].id \in DOMAIN pieces
    BY DEF Matching
  <1>2. f \in Injection(1..Len(messages), DOMAIN pieces)
    BY <1>1 DEF Injection, IsInjective
  <1>3. Cardinality(1..Len(messages)) <= Cardinality(DOMAIN pieces)
    BY <1>2, FS_Injection
  <1>4. Cardinality(1..Len(messages)) = Len(messages)
    BY FS_Interval
  <1> QED
    BY <1>3, <1>4

\* A step about something else leaves the messages and their pieces.
LEMMA TextKept ==
    ASSUME TypeInv, NEW e, Steps(e), NEW s \in Sessions, TextMatches(s),
           ~(e.type \in MessageTypes \cup {"SessionCreated"} /\ e.session = s),
           Messages(s)' = Messages(s)
    PROVE  TextMatches(s)'
  <1>1. NamesOf(s)' = NamesOf(s) /\ \A m : Pieces(s, m)' = Pieces(s, m)
    BY PiecesGrow
  <1>2. PiecesOf(s)' = PiecesOf(s)
    BY <1>1 DEF PiecesOf
  <1>3. \A m \in NamesOf(s) : \A n \in PiecesOf(s)[m] : history'[n] = history[n]
    BY PiecesGrow, HistoryGrows DEF PiecesOf
  <1>4. DOMAIN PiecesOf(s) = NamesOf(s)
    BY DEF PiecesOf
  <1> SUFFICES ASSUME Matching(history, Messages(s), PiecesOf(s))
               PROVE  Matching(history', Messages(s), PiecesOf(s))
    BY <1>1, <1>2 DEF TextMatches
  <1>5. \A i \in DOMAIN Messages(s) : Messages(s)[i].id \in NamesOf(s)
    BY <1>4 DEF Matching
  <1>6. ASSUME NEW i \in DOMAIN Messages(s)
        PROVE  Spells(history', Messages(s)[i].text, PiecesOf(s)[Messages(s)[i].id])
    <2>1. Spells(history, Messages(s)[i].text, PiecesOf(s)[Messages(s)[i].id])
      BY DEF Matching
    <2>2. \A n \in PiecesOf(s)[Messages(s)[i].id] : history'[n] = history[n]
      BY <1>3, <1>5
    <2> QED
      BY <2>1, <2>2 DEF Spells
  <1> QED
    BY <1>6 DEF Matching

\* Nothing is made of the events of a session that was not created.
LEMMA NothingSaid ==
    ASSUME NEW h, NEW pieces, \A m \in DOMAIN pieces : pieces[m] = {}
    PROVE  /\ Matching(h, <<>>, pieces)
           /\ \A S : \A messages \in Seq(S) : Matching(h, messages, pieces) => messages = <<>>
  <1>1. Matching(h, <<>>, pieces)
    BY DEF Matching
  <1>2. ASSUME NEW S, NEW messages \in Seq(S), Matching(h, messages, pieces)
        PROVE  messages = <<>>
    <2>1. {messages[i].id : i \in DOMAIN messages} = {}
      BY <1>2 DEF Matching
    <2>2. \A i \in DOMAIN messages : messages[i].id \in {messages[j].id : j \in DOMAIN messages}
      OBVIOUS
    <2>3. DOMAIN messages = {}
      BY <2>1, <2>2, Zenon
    <2>4. Len(messages) = 0
      <3>1. DOMAIN messages = 1..Len(messages) /\ Len(messages) \in Nat
        OBVIOUS
      <3> QED
        BY <2>3, <3>1
    <2> QED
      BY <2>4
  <1> QED
    BY <1>1, <1>2

\* What was within the cap was so before.
LEMMA NamesGrow ==
    ASSUME TypeInv, NEW e, Steps(e), NEW s
    PROVE  Cardinality(NamesOf(s)') <= MaxMessages => Cardinality(NamesOf(s)) <= MaxMessages
  <1>1. NamesOf(s)' = NamesOf(s) \/ NamesOf(s)' = NamesOf(s) \cup {e.message}
    <2>1. CASE e.type \in MessageTypes /\ e.session = s
      BY <2>1, PiecesGrow
    <2>2. CASE e.type = "SessionCreated" /\ e.session = s
      <3>1. Transcript(s)' = Transcript(s) /\ Transcript(s) \subseteq DOMAIN history
        BY <2>2, SessionEventsGrow DEF Transcript, MessageTypes
      <3>2. \A i \in Transcript(s) : history'[i] = history[i]
        BY <3>1, HistoryGrows
      <3> QED
        BY <3>1, <3>2 DEF NamesOf
    <2>3. CASE ~(e.type \in MessageTypes \cup {"SessionCreated"} /\ e.session = s)
      BY <2>3, PiecesGrow
    <2> QED
      BY <2>1, <2>2, <2>3
  <1>2. IsFiniteSet(NamesOf(s)) /\ Cardinality(NamesOf(s)) \in Nat
    BY PiecesFinite
  <1>3. Cardinality(NamesOf(s) \cup {e.message}) \in {Cardinality(NamesOf(s)), Cardinality(NamesOf(s)) + 1}
    BY <1>2, FS_AddElement
  <1>4. Cardinality(NamesOf(s)') \in {Cardinality(NamesOf(s)), Cardinality(NamesOf(s)) + 1}
    BY <1>1, <1>3
  <1> QED
    BY <1>2, <1>4, RetentionAssumption

\* A message of a session that is there is put in with the text of its pieces.
LEMMA TextWritten ==
    ASSUME TypeInv, MessagesTyped, NEW e, Steps(e), NEW s \in Sessions, TextMatches(s),
           e.type \in MessageTypes, e.session = s, Started(s) # {},
           Messages(s)' = UpsertMessage(Messages(s), Written(e, s))
    PROVE  TextMatches(s)'
  <1> DEFINE old == PiecesOf(s)
             new == PiecesOf(s)'
             id == e.message
  <1> SUFFICES ASSUME Cardinality(NamesOf(s)') <= MaxMessages
               PROVE  Matching(history', Messages(s)', new)
    BY DEF TextMatches
  <1>1. e \in Committed
    BY DEF Steps
  <1>2. /\ Messages(s) \in Seq(Message) /\ Len(Messages(s)) <= MaxMessages
        /\ Written(e, s) \in Message
        /\ Written(e, s).id = id /\ Written(e, s).text = TextAfter(Messages(s), e)
    BY <1>1, WrittenTyped
  <1>3. Matching(history, Messages(s), old)
    BY NamesGrow DEF TextMatches
  <1>4. /\ NamesOf(s)' = NamesOf(s) \cup {id}
        /\ \A m : m # id => Pieces(s, m)' = Pieces(s, m)
        /\ \A m : m = id => Pieces(s, m)' = IF e.type = "MessageSent" THEN {Newest}
                                            ELSE Pieces(s, m) \cup {Newest}
        /\ \A m : Pieces(s, m) \subseteq DOMAIN history
        /\ \A m : m \notin NamesOf(s) => Pieces(s, m) = {}
    BY PiecesGrow
  <1>5. /\ DOMAIN old = NamesOf(s) /\ DOMAIN new = NamesOf(s) \cup {id}
        /\ \A m \in NamesOf(s) : old[m] = Pieces(s, m)
        /\ \A m \in NamesOf(s) \cup {id} : new[m] = Pieces(s, m)'
    BY <1>4 DEF PiecesOf
  <1>6. PICK before : before = Pieces(s, id)
    OBVIOUS
  <1>7. new[id] = IF e.type = "MessageSent" THEN {Newest} ELSE before \cup {Newest}
    <2>1. ASSUME NEW m, m = id
          PROVE  new[m] = IF e.type = "MessageSent" THEN {Newest} ELSE before \cup {Newest}
      BY <1>4, <1>5, <1>6, <2>1
    <2> QED
      BY <2>1
  <1>8. /\ Newest \in Nat /\ history'[Newest] = e
        /\ \A i \in DOMAIN history : i \in Nat /\ i < Newest /\ history'[i] = history[i]
    BY HistoryGrows DEF Newest
  <1>9. e.token \in Tokens
    BY <1>1 DEF Tokens
  <1>10. Spells(history', TextAfter(Messages(s), e), new[id])
    <2>1. CASE e.type = "MessageSent"
      <3>1. TextAfter(Messages(s), e) = <<e.token>> /\ new[id] = {Newest}
        BY <1>7, <2>1 DEF TextAfter
      <3>2. {Newest} = {} \cup {Newest} /\ <<e.token>> = Append(<<>>, e.token) /\ <<>> \in Seq(Tokens)
        OBVIOUS
      <3>3. Spells(history, <<>>, {}) /\ IsFiniteSet({})
        BY SpellsNothing, FS_EmptySet
      <3>4. Spells(history', Append(<<>>, history'[Newest].token), {} \cup {Newest})
        BY <1>8, <1>9, <3>2, <3>3, SpellsOneMore
      <3> QED
        BY <1>8, <3>1, <3>2, <3>4
    <2>2. CASE e.type = "TokenAppended"
      <3> DEFINE text == TextSoFar(Messages(s), id)
      <3>1. TextAfter(Messages(s), e) = Append(text, e.token) /\ new[id] = before \cup {Newest}
        BY <1>7, <2>2 DEF TextAfter
      <3>2. text \in Seq(Tokens)
        BY <1>2, TextTyped
      <3>3. Spells(history, text, before)
        <4>1. CASE \E i \in DOMAIN Messages(s) : Messages(s)[i].id = id
          <5>1. PICK i \in DOMAIN Messages(s) : Messages(s)[i].id = id
            BY <4>1
          <5>2. text = Messages(s)[i].text
            BY <1>2, <1>3, <5>1, TextTyped DEF Matching
          <5>3. id \in NamesOf(s) /\ old[id] = before
            <6>1. id \in DOMAIN old
              BY <1>3, <5>1 DEF Matching
            <6> QED
              BY <1>5, <1>6, <6>1
          <5> HIDE DEF text, old, new
          <5> QED
            BY <1>3, <5>1, <5>2, <5>3 DEF Matching
        <4>2. CASE \A i \in DOMAIN Messages(s) : Messages(s)[i].id # id
          <5>1. text = <<>>
            BY <1>2, <4>2, TextTyped
          <5>2. before = {}
            <6>1. CASE id \in NamesOf(s)
              <7>1. ~(id \in DOMAIN old /\ old[id] # {})
                BY <1>3, <4>2 DEF Matching
              <7> QED
                BY <1>5, <1>6, <6>1, <7>1
            <6>2. CASE id \notin NamesOf(s)
              BY <1>4, <1>6, <6>2
            <6> QED
              BY <6>1, <6>2
          <5> QED
            BY <5>1, <5>2, SpellsNothing
        <4> QED
          BY <4>1, <4>2
      <3>4. before \in SUBSET Nat /\ IsFiniteSet(before)
            /\ \A i \in before : i < Newest /\ history'[i] = history[i]
        <4>1. before \subseteq DOMAIN history
          BY <1>4, <1>6
        <4>2. IsFiniteSet(before)
          BY <1>6, PiecesFinite
        <4> QED
          BY <1>8, <4>1, <4>2
      <3>5. Spells(history', Append(text, history'[Newest].token), before \cup {Newest})
        <4> HIDE DEF text
        <4> QED
          BY <1>8, <1>9, <3>2, <3>3, <3>4, SpellsOneMore
      <3> QED
        BY <1>8, <3>1, <3>5
    <2> QED
      BY <2>1, <2>2 DEF MessageTypes
  <1> DEFINE put == Put(Messages(s), Written(e, s))
  <1>11. Matching(history', put, new)
    <2>1. \A m \in DOMAIN old : \A n \in old[m] : history'[n] = history[n]
      BY <1>4, <1>5, <1>8
    <2>2. DOMAIN new = DOMAIN old \cup {Written(e, s).id}
      BY <1>2, <1>5
    <2>3. \A m \in DOMAIN new : m # Written(e, s).id => new[m] = old[m]
      BY <1>2, <1>4, <1>5
    <2>4. new[Written(e, s).id] # {}
      BY <1>2, <1>7
    <2>5. Spells(history', Written(e, s).text, new[Written(e, s).id])
      BY <1>2, <1>10
    <2> HIDE DEF old, new
    <2> QED
      BY <1>2, <1>3, <2>1, <2>2, <2>3, <2>4, <2>5, PutMatches
  <1>12. Len(put) <= MaxMessages
    <2>1. put \in Seq(Message)
      BY <1>2, PutTyped
    <2>2. IsFiniteSet(NamesOf(s) \cup {id}) /\ Cardinality(NamesOf(s) \cup {id}) \in Nat
      BY PiecesFinite, FS_AddElement, FS_CardinalityType
    <2>3. Len(put) <= Cardinality(NamesOf(s) \cup {id})
      <3> HIDE DEF put, new
      <3> QED
        BY <1>5, <1>11, <2>1, <2>2, MatchingFits
    <2>4. Len(put) \in Nat
      BY <2>1
    <2> QED
      BY <1>4, <2>2, <2>3, <2>4, RetentionAssumption
  <1>13. Messages(s)' = put
    <2>1. Messages(s)' = RetainNewest(put, MaxMessages)
      BY <1>2, PutTyped
    <2> QED
      BY <1>12, <2>1 DEF RetainNewest
  <1> QED
    BY <1>11, <1>13

TextInv ==
    /\ MatchInv
    /\ MessagesTyped
    /\ \A s \in Sessions : TextMatches(s)

LEMMA TextInvInit == Init => TextInv
  <1> SUFFICES ASSUME Init PROVE TextInv
    OBVIOUS
  <1>1. MatchInv /\ MessagesTyped
    BY TypeInvInit, ProjectMatchesInit, SessionMatchesInit, MessagesTypedInit DEF MatchInv
  <1>2. ASSUME NEW s \in Sessions
        PROVE  TextMatches(s)
    <2>1. Messages(s) = <<>>
      <3>1. Messages(s) = NoSession.messages
        BY DEF Init, EmptyReadModel, Messages, Session
      <3>2. \A x : [status |-> "absent", archived |-> x, messages |-> <<>>, checkpoints |-> <<>>].messages = <<>>
        OBVIOUS
      <3> QED
        BY <3>1, <3>2, Zenon DEF NoSession
    <2>2. NamesOf(s) = {}
      BY DEF Init, NamesOf, Transcript, OfSession, Types
    <2>3. \A m \in DOMAIN PiecesOf(s) : PiecesOf(s)[m] = {}
      BY <2>2 DEF PiecesOf
    <2> QED
      BY <2>1, <2>3, NothingSaid DEF TextMatches
  <1> QED
    BY <1>1, <1>2 DEF TextInv

LEMMA TextInvStep == TextInv /\ [Next]_vars => TextInv'
  <1> SUFFICES ASSUME TextInv, [Next]_vars PROVE TextInv'
    OBVIOUS
  <1>1. MatchInv /\ TypeInv /\ MessagesTyped /\ MatchInv' /\ MessagesTyped'
    BY MatchInvStep, MessagesTypedStep DEF TextInv, MatchInv
  <1>2. CASE UNCHANGED vars
    <2>1. readModel' = readModel /\ history' = history
      BY <1>2 DEF vars
    <2>2. ASSUME NEW s \in Sessions
          PROVE  TextMatches(s)'
      <3>1. /\ Messages(s)' = Messages(s) /\ Transcript(s)' = Transcript(s)
            /\ Started(s)' = Started(s) /\ NamesOf(s)' = NamesOf(s)
        BY <2>1 DEF Messages, Session, Transcript, Started, NamesOf, OfSession, Types
      <3>2. \A m : Pieces(s, m)' = Pieces(s, m)
        BY <2>1, <3>1 DEF Pieces, Resent
      <3>3. PiecesOf(s)' = PiecesOf(s)
        BY <3>1, <3>2 DEF PiecesOf
      <3>4. TextMatches(s)
        BY DEF TextInv
      <3> QED
        BY <2>1, <3>1, <3>3, <3>4 DEF TextMatches
    <2> QED
      BY <1>1, <2>2 DEF TextInv
  <1>3. ASSUME NEW e, Steps(e), NEW s \in Sessions
        PROVE  TextMatches(s)'
    <2>1. Messages(s)' = MessagesAfter(e, s)
      BY <1>1, <1>3, MessagesStep
    <2>2. TextMatches(s)
      BY DEF TextInv
    <2>3. SessionExists(readModel, s) <=> Started(s) # {}
      BY DEF TextInv, MatchInv, SessionMatches, HistoryHasSession, Started
    <2>4. CASE ~(e.type \in MessageTypes \cup {"SessionCreated"} /\ e.session = s)
      <3>1. Messages(s)' = Messages(s)
        BY <2>1, <2>4 DEF MessagesAfter, Hears
      <3> QED
        BY <1>1, <1>3, <2>2, <2>4, <3>1, TextKept
    <2>5. CASE e.type = "SessionCreated" /\ e.session = s
      <3>1. ~SessionExists(readModel, s)
        BY <1>3, <2>5 DEF Steps, SessionStep, RowStep, SessionTypes
      <3>2. \A m : Pieces(s, m)' = {}
        BY <1>1, <1>3, <2>3, <2>5, <3>1, PiecesGrow
      <3>3. Messages(s)' = <<>>
        BY <2>1, <2>5 DEF MessagesAfter
      <3>4. \A m \in DOMAIN PiecesOf(s)' : PiecesOf(s)'[m] = {}
        BY <3>2 DEF PiecesOf
      <3> QED
        BY <3>3, <3>4, NothingSaid DEF TextMatches
    <2>6. CASE e.type \in MessageTypes /\ e.session = s /\ SessionExists(readModel, s)
      <3>1. Messages(s)' = UpsertMessage(Messages(s), Written(e, s))
        BY <2>1, <2>6 DEF MessagesAfter, Hears, Written, MessageTypes
      <3> QED
        BY <1>1, <1>3, <2>2, <2>3, <2>6, <3>1, TextWritten
    <2>7. CASE e.type \in MessageTypes /\ e.session = s /\ ~SessionExists(readModel, s)
      <3>1. Messages(s)' = Messages(s) /\ Messages(s) \in Seq(Message)
        BY <1>1, <2>1, <2>7 DEF MessagesAfter, Hears, MessageTypes, MessagesTyped, Message
      <3>2. Started(s) = {} /\ Started(s)' = {}
        BY <1>1, <1>3, <2>3, <2>7, SessionEventsGrow DEF Started, MessageTypes
      <3>3. /\ \A m \in DOMAIN PiecesOf(s) : PiecesOf(s)[m] = {}
            /\ \A m \in DOMAIN PiecesOf(s)' : PiecesOf(s)'[m] = {}
        BY <3>2 DEF PiecesOf, Pieces
      <3> SUFFICES ASSUME Cardinality(NamesOf(s)') <= MaxMessages
                   PROVE  Matching(history', Messages(s)', PiecesOf(s)')
        BY DEF TextMatches
      <3>4. Messages(s) = <<>>
        BY <1>1, <1>3, <2>2, <3>1, <3>3, NamesGrow, NothingSaid DEF TextMatches
      <3> QED
        BY <3>1, <3>3, <3>4, NothingSaid
    <2> QED
      BY <2>4, <2>5, <2>6, <2>7
  <1> QED
    BY <1>1, <1>2, <1>3, EveryStep DEF TextInv

\* The text of every message the read model holds is the tokens committed for
\* it, in commit order, and it holds every such message, as long as its session
\* keeps to the cap (projectMessageSent and projectTokenAppended in
\* projector.ts), whatever else is committed in between.
THEOREM TextStaysCommitted == Spec => []TextIsCommittedTokens
  <1>1. TextInv => TextIsCommittedTokens
    BY TextMatchesProperty DEF TextInv
  <1> QED
    BY <1>1, TextInvInit, TextInvStep, PTL DEF Spec
=============================================================================
