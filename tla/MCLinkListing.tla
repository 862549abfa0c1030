--------------------------- MODULE MCLinkListing ---------------------------
(* Small instances of LinkListing: two registered types, one of which links *)
(* may also spell in capitals, and pages of two links.                      *)
EXTENDS LinkListing

MCTypeSeq == <<"album", "event">>
MCCapitals == {"album", "event", "EVENT"}
MCLower == [s \in Spelling |-> IF s = "EVENT" THEN "event" ELSE s]

=============================================================================
