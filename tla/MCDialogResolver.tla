------------------------- MODULE MCDialogResolver -------------------------
(* Constant values for the TLC runs of DialogResolver: three buttons of the  *)
(* host's dialogs and the positions of the default keywords they match.  The *)
(* first contains the best keyword, the second is equal to the third best.   *)
EXTENDS DialogResolver

ButtonTexts == {"Always Load Add-in", "Load", "Do Not Load"}
Keywords == 8
ExactMatches == [t \in ButtonTexts |-> IF t = "Load" THEN 3 ELSE 0]
Matches == [t \in ButtonTexts |-> IF t = "Always Load Add-in" THEN 1 ELSE 3]
BlockedTexts == {"Do Not Load"}
=============================================================================
