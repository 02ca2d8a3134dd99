------------------------------ MODULE FileNames ------------------------------
(***************************************************************************)
(* The file names the other modules share.  Names are only compared.       *)
(***************************************************************************)
CONSTANTS
    Names,              \* the non-empty file names the callers use
    NoName              \* the empty C string

ASSUME NamesAssumption == NoName \notin Names

MaybeName == Names \cup {NoName}
=============================================================================
