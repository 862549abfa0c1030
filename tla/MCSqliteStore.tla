---------------------------- MODULE MCSqliteStore ---------------------------
(* Small instances of SqliteStore.  Clients are interchangeable.            *)
EXTENDS SqliteStore, TLC

Symmetry == Permutations(Client)

=============================================================================
