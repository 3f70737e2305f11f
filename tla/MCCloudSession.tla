--------------------------- MODULE MCCloudSession ---------------------------
(* Two devices, either or none of which the account lists.                  *)
EXTENDS CloudSession
=============================================================================
