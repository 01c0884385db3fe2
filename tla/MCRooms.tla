------------------------------ MODULE MCRooms ------------------------------
\* A group of two bots.
EXTENDS Rooms

=============================================================================
