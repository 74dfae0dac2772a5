--------------------------- MODULE MCTransportHost --------------------------
EXTENDS TransportHost

OneDelay == <<1>>

AllFaults == {"None"} \union Dispositions
NoFaults == {"None"}

AnyCode == {NoCode, PolicyViolation}

=============================================================================
