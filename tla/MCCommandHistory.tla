-------------------------- MODULE MCCommandHistory --------------------------
(***************************************************************************)
(* Small command vocabularies for CommandHistory: one about projects and   *)
(* their roots, one about a session, its archive flag, checkpoints and     *)
(* messages, each with a representative of every guard.                    *)
(***************************************************************************)
EXTENDS CommandHistory

CONSTANTS p1, p2, s1, r1, r2, r3, m1, m2, k1, k2, k3

OfType(type, fields) == [x \in {"type"} \cup DOMAIN fields |->
                            IF x = "type" THEN type ELSE fields[x]]

CreateProject == {OfType("project.create", [project |-> p, root |-> r]) :
                    p \in {p1, p2}, r \in {r1, r2}}
UpdateProjectMeta(p, r) == OfType("project.meta.update", [project |-> p, root |-> r])
DeleteProject == {OfType("project.delete", [project |-> p]) : p \in {p1, p2}}
McpResolve == {OfType("mcp.catalog.resolve", [project |-> p1, ids |-> ids]) :
                 ids \in {<<1, 2>>, <<1, 1>>}}

\* A project may be renamed, or moved to a root that nobody else wants.
ProjectCommandsTried ==
    CreateProject \cup DeleteProject \cup McpResolve \cup
    {UpdateProjectMeta(p2, NoRoot), UpdateProjectMeta(p1, r3)}

\* Or to any root at all.
MovesTried == CreateProject \cup {UpdateProjectMeta(p, r) : p \in {p1, p2}, r \in {r1, r2}}

OnSession(type) == OfType(type, [project |-> p1, session |-> s1])
OnCheckpoint(type, k) == OfType(type, [session |-> s1, checkpoint |-> k])
OnMessage(type, m, t) == OfType(type, [session |-> s1, message |-> m, token |-> t])

SessionCommandsTried ==
    {OfType("project.create", [project |-> p1, root |-> r1])} \cup
    {OnSession(type) : type \in {"session.create", "session.archive", "session.unarchive",
                                 "session.delete", "session.resume"}} \cup
    {OfType("terminal.open", [session |-> s1, filled |-> b]) : b \in BOOLEAN} \cup
    {OnCheckpoint("checkpoint.create", k) : k \in {k1, k2, k3}} \cup
    {OnCheckpoint("checkpoint.revert", k1)} \cup
    {OnMessage("message.send", m, "a") : m \in {m1, m2}} \cup
    {OnMessage("token.append", m1, t) : t \in {"b", "c"}}

TokenEvents == {OnMessage("TokenAppended", m, "d") : m \in {m1, m2}}
NoEvents == {}
AllTried == ProjectCommandsTried \cup SessionCommandsTried
=============================================================================
