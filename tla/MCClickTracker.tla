--------------------------- MODULE MCClickTracker ---------------------------
(* Small instances of ClickTracker: four events about two links, three of   *)
(* them about the first, so that a batch holds several events of one link   *)
(* and the channel of two overflows.                                        *)
EXTENDS ClickTracker

CONSTANTS e1, e2, e3, e4, l1, l2

MCEvent == {e1, e2, e3, e4}
MCLink == {l1, l2}
MCLinkOf == [e \in MCEvent |-> IF e = e4 THEN l2 ELSE l1]

=============================================================================
