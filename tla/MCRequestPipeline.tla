-------------------------- MODULE MCRequestPipeline --------------------------
(***************************************************************************)
(* Instances of RequestPipeline: three endpoints, two of one route.        *)
(***************************************************************************)
EXTENDS RequestPipeline

CONSTANTS e1, e2, e3

MCRoutes  == {"/", "/{id:int}"}
MCRouteOf == e1 :> "/" @@ e2 :> "/{id:int}" @@ e3 :> "/"
=============================================================================
