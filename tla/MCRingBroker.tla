---------------------------- MODULE MCRingBroker ----------------------------
(* RingBroker on small instances.                                          *)
EXTENDS RingBroker

OneSample == {1}
ThreeSamples == {3}
TwoSamples == {2}
GnbAndUe == {0, 1}
=============================================================================
