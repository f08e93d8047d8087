--------------------------- MODULE MCSmsValidate ---------------------------
(***************************************************************************)
(* Small instances of SmsValidate.  The durations keep the order they have *)
(* in the code (a minute, five, ten, a day); the clock runs just past the  *)
(* longest one a run needs.                                                *)
(***************************************************************************)
EXTENDS SmsValidate, TLC

Symmetry == Permutations(Code) \cup Permutations(WebProc) \cup Permutations(ApiProc)
=============================================================================
