---------------------------- MODULE MCRoomSession ----------------------------
EXTENDS RoomSession
=============================================================================
