----------------------------- MODULE MCAppData -----------------------------
(* Instance of AppData: a stored setting, and one that is neither stored nor, *)
(* its id being past the end of the restore loop, restored, as                *)
(* APPDATA_IFACE_DEFAULT_FORMAT.  Their order among the presets is not that   *)
(* of their ids, and id 1 is no setting.                                      *)
EXTENDS AppData, TLC

MCItemId == 0 :> 3 @@ 1 :> 0
MCStored == {1}

\* Words 0 .. 4: 0 is below and 3 above the limits of the stored setting, 4 is blank.
MCMin     == 0 :> 0 @@ 1 :> 1
MCMax     == 0 :> 1 @@ 1 :> 2
MCDefault == 0 :> 1 @@ 1 :> 2
=============================================================================
