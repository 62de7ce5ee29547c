--------------------------- MODULE MCPciEnumerate ---------------------------
(***************************************************************************)
(* PciEnumerate for TLC: more devices than the array holds, chains longer  *)
(* than the resource array and chains that end before it is full.          *)
(***************************************************************************)
EXTENDS PciEnumerate
=============================================================================
