--------------------------- MODULE MCMusicSessions ---------------------------
(* Small instances of MusicSessions for TLC. *)
EXTENDS MusicSessions, TLC
=============================================================================
