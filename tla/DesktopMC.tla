------------------------------ MODULE DesktopMC ------------------------------
(* A small instance of Desktop: two lines of one country.                    *)
EXTENDS Desktop

CONSTANTS A, B
=============================================================================
