--------------------------- MODULE MCDownloaders ---------------------------
(***************************************************************************)
(* One torrent, two requests or calls at once, two faults, from the state  *)
(* of a run that has connected or from none: two callers of one client     *)
(* repeat the handshake while a session expires twice, an edit meets a     *)
(* deletion, a build meets a login.                                        *)
(***************************************************************************)
EXTENDS Downloaders

MCActor == 1 .. 2
=============================================================================
