------------------------------ MODULE Records ------------------------------
(***************************************************************************)
(* What the modules on the server's records share.  A request is several   *)
(* writes to the store, each committed by itself.  No other request runs   *)
(* between them, but the process may die there, and what it had not        *)
(* written yet is then lost.                                               *)
(***************************************************************************)
EXTENDS Integers

CONSTANTS
  None,        \* no value
  MaxCrashes   \* model bound: times the process dies

ASSUME RecordsParameters == MaxCrashes \in Nat
=============================================================================
