---------------------------- MODULE MCTransports -----------------------------
EXTENDS Transports

Alone     == {{1}, {2}, {3, 4}, {5}, {11}, {12}, {13, 14}}
TlsFrames == [s \in 1..5 |-> IF s \in {3, 4} THEN 0 ELSE 2]
SecondBad == [s \in 1..5 |-> IF s = 2 THEN 2 ELSE 0]
Budgets   == [s \in 1..5 |-> IF s <= 2 THEN 2 * s - 1 ELSE 0]
StreamFrames == [s \in 11..14 |-> IF s = 11 THEN 3 ELSE IF s = 12 THEN 2 ELSE 0]
TwelfthBad   == [s \in 11..14 |-> IF s = 12 THEN 2 ELSE 0]
=============================================================================
