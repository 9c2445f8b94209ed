------------------------------ MODULE MCSessions ------------------------------
(* Sessions on a small instance. *)
EXTENDS Sessions

CONSTANTS left, right, c1

TwoTabs == {left, right}
OneCall == {c1}
=============================================================================
