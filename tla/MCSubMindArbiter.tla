-------------------------- MODULE MCSubMindArbiter --------------------------
EXTENDS SubMindArbiter, TLC

CONSTANTS low, high, arm

\* Two SubMinds that need the same exclusive resource.
SharedArm == [n \in SubMinds |-> {arm}]

Critical   == [tier |-> 0, score |-> 1000]
Background == [tier |-> 2, score |-> 100]
Foreground == [tier |-> 1, score |-> 500]

\* One SubMind signals low, the other high.
LowAndHigh   == [n \in SubMinds |-> IF n = high THEN {Critical} ELSE {Background}]
OneTier      == {Foreground}
=============================================================================
