------------------------ MODULE MCProjectionPipeline ------------------------
(***************************************************************************)
(* ProjectionPipeline with one of the fourteen projectors, which are       *)
(* independent of each other: one whose table a history import also        *)
(* writes.                                                                 *)
(***************************************************************************)
EXTENDS ProjectionPipeline

CONSTANT sessions

OneProjector == {sessions}
=============================================================================
