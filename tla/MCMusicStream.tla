---------------------------- MODULE MCMusicStream ----------------------------
(* Small instances of MusicStream for TLC. *)
EXTENDS MusicStream, TLC
=============================================================================
