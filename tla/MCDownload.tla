----------------------------- MODULE MCDownload -----------------------------
(* Small instances of Download: objects of three parts, the last one short. *)
EXTENDS Download

MCPieces == <<2, 2, 1>>
MCStart == <<0, 2, 4, 5>>
=============================================================================
