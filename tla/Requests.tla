------------------------------ MODULE Requests ------------------------------
(***************************************************************************)
(* The requests of the services whose modules are proved together: each is *)
(* worked on by one of Handlers, and job is what that one has read and     *)
(* decided so far.                                                         *)
(***************************************************************************)

CONSTANTS
  Handlers, None,
  MaxRequests   \* bound of the models

VARIABLES
  job,
  requests      \* how many have begun
=============================================================================
