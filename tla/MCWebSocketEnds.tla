-------------------------- MODULE MCWebSocketEnds --------------------------
\* Two ends of a WebSocket: whole messages, fragments, pings.
EXTENDS WebSocketEnds

F(op, fin, len) == [op |-> op, fin |-> fin, len |-> len]

MCFrames ==
    {F("Binary", TRUE, 1), F("Text", FALSE, 1), F("Continue", TRUE, 1), F("Ping", TRUE, 0)}

\* A payload of two bytes, which a read can divide.
MCDivisible == {F("Binary", TRUE, 2)}

=============================================================================
