--------------------------- MODULE MCAsyncBroker ---------------------------
(* AsyncBroker with the two UEs of main.cpp.                               *)
EXTENDS AsyncBroker

GnbAndOneUe == {0, 1}
=============================================================================
