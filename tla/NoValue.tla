------------------------------ MODULE NoValue ------------------------------
(***************************************************************************)
(* Python's None and SQL's NULL, the absent value of every module that     *)
(* needs one.                                                              *)
(***************************************************************************)
CONSTANT None
=============================================================================
