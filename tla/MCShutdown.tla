----------------------------- MODULE MCShutdown -----------------------------
(* A small instance of Shutdown: three requests for two links, and a        *)
(* channel of two.                                                          *)
EXTENDS Shutdown

CONSTANTS e1, e2, e3, l1, l2

MCEvent == {e1, e2, e3}
MCLink == {l1, l2}
MCLinkOf == [e \in MCEvent |-> IF e = e3 THEN l2 ELSE l1]

=============================================================================
