---------------------------- MODULE MCFileHandles ----------------------------
(***************************************************************************)
(* Three threads, three files and room for two of their handles.         *)
(***************************************************************************)
EXTENDS FileHandles
=============================================================================
