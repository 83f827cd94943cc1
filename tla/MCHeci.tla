-------------------------------- MODULE MCHeci --------------------------------
EXTENDS Heci
\* Answers of one packet, of two, and of one that is longer than the callers' buffers.
H(n, l, o) == [head |-> TRUE, len |-> n, last |-> l, off |-> o]
B == [head |-> FALSE]
OnePacket  == <<H(1, TRUE, 0), B>>
TwoPackets == <<H(1, FALSE, 0), B, H(1, TRUE, 1), B>>
TooLong    == <<H(1, FALSE, 0), B, H(2, TRUE, 1), B, B>>
MCShapes   == {OnePacket, TwoPackets, TooLong}

\* The proofs rest on no more than holds here.
ASSUME ProofConditions == Lengths /\ Answers
===============================================================================
