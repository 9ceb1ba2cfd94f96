--------------------------- MODULE MCCurrentSocket ---------------------------
EXTENDS CurrentSocket

Unraced == ~raced
=============================================================================
