---------------------------- MODULE MCFileTransfer ----------------------------
(***************************************************************************)
(* Values of the constants of FileTransfer for model checking.             *)
(***************************************************************************)
EXTENDS FileTransfer, TLC

CONSTANTS f1, f2, f3, f4  \* files
=============================================================================
