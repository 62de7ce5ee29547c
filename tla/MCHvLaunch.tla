----------------------------- MODULE MCHvLaunch -----------------------------
(***************************************************************************)
(* HvLaunch for TLC: two processors, two calls (the second one sees what a *)
(* failed first one left behind), and two capability reports: one that     *)
(* offers the 64-bit bit and one that makes VMLAUNCH impossible.           *)
(***************************************************************************)
EXTENDS HvLaunch

MCCapabilities == {[allowed0 |-> {1}, allowed1 |-> {1, 9}],
                   [allowed0 |-> {1}, allowed1 |-> {1}]}
=============================================================================
