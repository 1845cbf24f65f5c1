------------------------------ MODULE RoutesMC ------------------------------
(* Instances of Routes for TLC. *)
EXTENDS Routes, TLC

CONSTANTS a1, a2, a3, tunAddress

DualStack == {{"v4", "v6"}}
AnyKernel == {{"v4"}, {"v4", "v6"}}
V4Only == {{"v4"}}
=============================================================================
