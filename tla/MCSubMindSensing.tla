-------------------------- MODULE MCSubMindSensing --------------------------
EXTENDS SubMindSensing

CONSTANTS battery, heat

\* Three bands and two: severity 0 is BACKGROUND, then more urgent.
TheBands == [s \in SubMinds |-> IF s = battery THEN <<<<0, 2>>, <<2, 1>>, <<3, 0>>>>
                                               ELSE <<<<0, 2>>, <<3, 0>>>>]
=============================================================================
