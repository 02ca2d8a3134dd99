------------------------------ MODULE MCTestFs ------------------------------
(***************************************************************************)
(* The driver on two of the small disks of MCFileSystem.                   *)
(***************************************************************************)
EXTENDS TestFs, MCFileSystem
=============================================================================
