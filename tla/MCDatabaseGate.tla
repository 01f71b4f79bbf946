--------------------------- MODULE MCDatabaseGate ---------------------------
(***************************************************************************)
(* Instances of DatabaseGate for TLC: the uploads are a backup of another  *)
(* installation with a session in it, an older one, and a newer one.       *)
(***************************************************************************)
EXTENDS DatabaseGate, TLC

CONSTANTS other, bread, milk

MCUploads ==
    [book : {other}, entry : {milk}, schema : {"older", "current", "newer"}, sessions : {Sessions}]
=============================================================================
