---------------------------- MODULE MCGasSchedule ----------------------------
(* Two functions, two executors and a spare object to edit the container with.  *)
EXTENDS GasSchedule, TLC

CONSTANTS create, transfer, o1, o2, o3

MCInitial == (create :> o1) @@ (transfer :> o2)
=============================================================================
