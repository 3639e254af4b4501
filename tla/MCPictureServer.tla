--------------------------- MODULE MCPictureServer ---------------------------
(* Instances of PictureServer for TLC. *)
EXTENDS PictureServer, TLC

(* Workers and clients are interchangeable in the safety runs. *)
Symmetry == Permutations(Workers) \cup Permutations(Clients)

=============================================================================
