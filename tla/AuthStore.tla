------------------------------- MODULE AuthStore -------------------------------
(***************************************************************************)
(* What the implementations of AuthStore (wazeko-auth/src/store.ts) have in *)
(* common: calls of save, load and clear by one or several processes, which *)
(* nothing serialises.                                                      *)
(***************************************************************************)

CONSTANTS
  Calls,      \* calls of a store's methods that may be in progress at a time
  Versions,   \* the credentials that are saved
  None,       \* an absent file, the null of load
  Refused     \* load throws
=============================================================================
