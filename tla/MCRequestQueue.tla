--------------------------- MODULE MCRequestQueue ---------------------------
(* The instance of RequestQueue that TLC checks: two clients, two views.     *)
EXTENDS RequestQueue

CONSTANTS c1, c2, v1, v2

MCClients == {c1, c2}
MCViews == {v1, v2}
=============================================================================
