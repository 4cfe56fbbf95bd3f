------------------------- MODULE MCFlyingTransfers --------------------------
(* Values of the constants for TLC.                                        *)
EXTENDS FlyingTransfers
CONSTANTS tr1, tr2, d1, d2

OneDevice  == [t \in Transfers |-> d1]
TwoDevices == [t \in Transfers |-> IF t = tr2 THEN d2 ELSE d1]

(* tr2 also goes without a timeout.                                        *)
VariedTimeouts == [t \in Transfers |-> IF t = tr2 THEN {0, 1} ELSE {1, 2}]
OneTick        == [t \in Transfers |-> {1}]
ZeroOrOne      == [t \in Transfers |-> {0, 1}]
=============================================================================
