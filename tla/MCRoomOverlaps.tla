-------------------------- MODULE MCRoomOverlaps --------------------------
(* Model values for RoomLeasing with its history.                          *)
EXTENDS RoomOverlaps, MCRoomLeasing
===========================================================================
