--------------------------- MODULE MCRideRefinement ---------------------------
(* RideRefinement on the instances of MCRideService.                        *)
EXTENDS RideRefinement, MCRideService
=============================================================================
