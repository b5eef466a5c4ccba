---------------------------- MODULE MCCopySessions ----------------------------
(* Small instances of CopySessions: two sessions, a purchase, a sale. *)
EXTENDS CopySessions
===============================================================================
