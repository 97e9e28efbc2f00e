------------------------- MODULE TransactionalSettings -------------------------
(***************************************************************************)
(* The contract of the settings API (SettingManager.java:47-53): changes   *)
(* follow the rules of transactions, and are not visible until commit.     *)
(* Readers see one committed version of the settings, as a whole, and move *)
(* on to the next version before a further one is committed.               *)
(***************************************************************************)
CONSTANT Versions             \* the contents the settings can have

VARIABLES committed, visible  \* what the database holds, what readers see

InitSettings == committed \in Versions /\ visible = committed

CommitVersion ==
  /\ visible = committed
  /\ committed' \in Versions
  /\ UNCHANGED visible

Publish ==
  /\ visible' = committed
  /\ UNCHANGED committed

SettingsContract == InitSettings /\ [][CommitVersion \/ Publish]_<<committed, visible>>
===============================================================================
