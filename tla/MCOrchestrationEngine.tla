----------------------- MODULE MCOrchestrationEngine -----------------------
(***************************************************************************)
(* The engine with the deciders and the projector of ReadModel, on two     *)
(* commands and two provider batches.  The second project claims the root  *)
(* of the first, so whichever is decided first wins; the batches carry two *)
(* events and an event id they share.                                      *)
(***************************************************************************)
EXTENDS OrchestrationEngine, ReadModel

CONSTANTS p1, p2, s1, r1, m1, FreshId, SharedId, OtherId

MCCommands == {"create1", "create2"}
MCBatches == {"tokens", "retoken"}

Command(c) ==
    CASE c = "create1" -> [type |-> "project.create", project |-> p1, root |-> r1]
      [] c = "create2" -> [type |-> "project.create", project |-> p2, root |-> r1]

Token(text) == [type |-> "TokenAppended", session |-> s1, message |-> m1, token |-> text]

MCEventsOf(w) ==
    CASE w = "tokens" -> <<[id |-> SharedId, body |-> Token("a")],
                           [id |-> OtherId, body |-> Token("b")]>>
      [] w = "retoken" -> <<[id |-> SharedId, body |-> Token("a")]>>
      [] OTHER -> <<[id |-> FreshId, body |-> DecidedEvent(Command(w))]>>

MCAccepts(state, c) == DecideAccepts(state, Command(c))
MCProject(state, event) == ProjectEvent(state, event.body)
MCEmptyState == EmptyReadModel

AllFaults == FaultPoints
NoReconcileFault == FaultPoints \ {"reconcile"}
=============================================================================
