---------------------------- MODULE MCNegotiation ----------------------------
(* Values for Negotiation: which ends are told of a drop.                    *)
EXTENDS Negotiation

BothEnds == {{"host", "guest"}}
AnyEnds == {{"host"}, {"guest"}, {"host", "guest"}}
=============================================================================
