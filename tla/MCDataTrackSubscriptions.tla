---------------------- MODULE MCDataTrackSubscriptions ----------------------
EXTENDS DataTrackSubscriptions

CONSTANTS p1
MCPublisherOf == [t \in Tracks |-> p1]
=============================================================================
