----------------------------- MODULE MCVaultLog -----------------------------
(* The instance of VaultLog that TLC checks. *)
EXTENDS VaultLog, TLC

\* Neither blobs nor connections are told apart by anything but equality.
Symmetric == Permutations(Blob) \cup Permutations(Conn)

\* Bound: two uploads race until a gap takes a line; then one upload goes on
\* until it takes a second.
FewLost == Cardinality(lost) + Cardinality(uploads) <= 2
=============================================================================
