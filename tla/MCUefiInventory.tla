-------------------------- MODULE MCUefiInventory --------------------------
(***************************************************************************)
(* UefiInventory for TLC: every order of every selection of up to four     *)
(* GUIDs, a memory map that grows by up to three descriptors, XSDT lengths *)
(* around the header and around whole entries, and a UINTN of 6 bits.      *)
(***************************************************************************)
EXTENDS UefiInventory

MCConfigurationTables ==
    {t \in UNION {[1..n -> Guids] : n \in 0..4} : IsInjective(t)}
=============================================================================
