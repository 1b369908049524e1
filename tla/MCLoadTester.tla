----------------------------- MODULE MCLoadTester -----------------------------
(* Small instance of LoadTester for TLC: one second of warm-up and one that *)
(* is measured, and answers that come up to a tick late.                    *)
EXTENDS LoadTester
=============================================================================
