--------------------------- MODULE MCRemoteTable ---------------------------
(***************************************************************************)
(* An instance of RemoteTable for TLC: two interfaces with room for one    *)
(* neighbour of each protocol. Two cells for neighbours and two for        *)
(* systems are few enough to run out of them and to use them again.        *)
(***************************************************************************)
EXTENDS RemoteTable

CONSTANT x

\* System x is seen through port ids 1 and 2: with different lifetimes, with a
\* changed frame for port 1, and with a lifetime of zero when port 2 shuts down.
FrameX1 == [proto |-> 1, cid |-> x, pid |-> 1, ttl |-> 2, info |-> 0]
FrameX1Changed == [FrameX1 EXCEPT !.info = 1, !.ttl = 1]
FrameX2 == [FrameX1 EXCEPT !.pid = 2, !.ttl = 1]
FrameX2Shutdown == [FrameX2 EXCEPT !.ttl = 0]
\* The same system over another protocol is another system and neighbour.
FrameX1Cdp == [FrameX1 EXCEPT !.proto = 2, !.ttl = 1]

SharedFrames == {FrameX1, FrameX1Changed, FrameX2Shutdown, FrameX1Cdp}

=============================================================================
