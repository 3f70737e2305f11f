---------------------------- MODULE MCStateStore ----------------------------
(* Two writers that race, and one browser: watchers do not see each other.  *)
EXTENDS StateStore
=============================================================================
