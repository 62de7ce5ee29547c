--------------------------- MODULE MCAcpiCollect ---------------------------
(***************************************************************************)
(* AcpiCollect for TLC.  The sizes lie on both sides of every limit the    *)
(* code tests (36, 44, 48, 53, and 44 + 16 n), one byte off included; the  *)
(* three array limits are scaled down so that they are reached.            *)
(***************************************************************************)
EXTENDS AcpiCollect
=============================================================================
