--------------------------- MODULE MCManifestBook ---------------------------
(* Readings of this node are numbered 0 to 3, so that those on one page    *)
(* differ; the others send readings of two kinds.                          *)
EXTENDS ManifestBook

MCSent == {0, 1}
=============================================================================
