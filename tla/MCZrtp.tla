------------------------------- MODULE MCZrtp -------------------------------
(* Two protocols, of which the responder supports only the one it must. *)
EXTENDS ZrtpHandshake

CONSTANTS DH3KProtocol, EC25Protocol

MCProtocols == {DH3KProtocol, EC25Protocol}
MCAllowed   == [r \in Roles |-> IF r = "initiator" THEN <<EC25Protocol, DH3KProtocol>>
                                                  ELSE <<DH3KProtocol>>]
=============================================================================
