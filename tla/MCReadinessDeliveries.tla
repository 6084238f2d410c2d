------------------------ MODULE MCReadinessDeliveries ------------------------
\* ReadinessDeliveries for TLC: its runs are interchangeable.
EXTENDS ReadinessDeliveries, TLC

SenderSymmetry == Permutations(Senders)
=============================================================================
