---------------------------- MODULE MCRecovery ----------------------------
(***************************************************************************)
(* Model-checking instances of Recovery: the documented scenarios, one     *)
(* request after another, with power losses and failing operations.        *)
(***************************************************************************)
EXTENDS Recovery

MCRequests ==
  {{"wipe_data"}, {"wipe_cache"}, {"update_package", "send_intent"},
   {"update_package", "wipe_data"}, {}}
=============================================================================
