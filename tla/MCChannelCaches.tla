-------------------------- MODULE MCChannelCaches ---------------------------
(***************************************************************************)
(* Two console edits against two clients, each proxying or listing models: *)
(* a load can be overtaken by another load, by an Invalidate or by both.   *)
(***************************************************************************)
EXTENDS ChannelCaches, TLC

CONSTANTS e1, e2, r1, r2, g1

MCEditors == {e1, e2}
MCReaders == {r1, r2}

Symmetry == Permutations(MCEditors) \cup Permutations(MCReaders)
=============================================================================
