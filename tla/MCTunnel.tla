------------------------------ MODULE MCTunnel ------------------------------
(* Bytes of three values: bodies of 0, 2 and 9 bytes take the three forms of header. *)
EXTENDS TunnelHandshake

Known == [user |-> <<1>>, pass |-> <<2, 1>>]
Stranger == [user |-> <<2>>, pass |-> <<1>>]
TooLong == [user |-> <<1, 1, 1>>, pass |-> <<1>>]
LikeAMethod == [user |-> <<1, 1>>, pass |-> <<1>>]
EmptyPassword == [user |-> <<1>>, pass |-> <<>>]

MCAccounts == {Known, LikeAMethod, EmptyPassword}
MCConfigured == {Known, Stranger, TooLong, LikeAMethod}
MCMethods == {<<2, 1, 1>>, <<2, 2, 1, 1>>}
MCRequest == <<2, 2, 1, 1, 2, 0>>

MCSendable == {[op |-> 0, id |-> 1, body |-> <<>>],
               [op |-> 1, id |-> 2, body |-> <<0, 2>>],
               [op |-> 2, id |-> 2, body |-> <<2, 0, 1, 2, 0, 1, 2, 2, 0>>]}
=============================================================================
