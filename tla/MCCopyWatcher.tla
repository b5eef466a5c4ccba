---------------------------- MODULE MCCopyWatcher ----------------------------
(* Small instances of CopyWatcher. *)
EXTENDS CopyWatcher
===============================================================================
