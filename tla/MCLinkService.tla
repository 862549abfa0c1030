--------------------------- MODULE MCLinkService ---------------------------
(* Small instances of LinkService.  Requests are interchangeable, and so   *)
(* are values and the IDs that no skip path matches.                       *)
EXTENDS LinkService, TLC

Symmetry == Permutations(Req) \cup Permutations(Val)
              \cup Permutations(Id \ SkipPath)

=============================================================================
