------------------------------ MODULE Accounts ------------------------------
(***************************************************************************)
(* The tenants of the service: sign-in and what a signed-in address keeps. *)
(* The tenant of a request is the address of its session (require_session  *)
(* of main.py).  One process serves both, over one SQLite file, so a stop  *)
(* ends the threads of both.                                               *)
(***************************************************************************)
EXTENDS SignIn, Inventory

vars == <<authVars, inventoryVars>>

Init == AuthInit /\ InventoryInit

Restart == Forgetful /\ Abandoned

Next ==
  \/ AuthStep /\ UNCHANGED inventoryVars
  \/ \E t \in Tenants : SignedIn(t) /\ InventoryStep(t) /\ UNCHANGED authVars
  \/ InventoryContinues /\ UNCHANGED authVars
  \/ Restart

Spec == Init /\ [][Next]_vars

TypeOK == AuthTypeOK /\ InventoryTypeOK
=============================================================================
