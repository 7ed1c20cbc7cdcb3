------------------------------ MODULE MCField ------------------------------
(* Our address, two of one device, and room for two events on the bus.      *)
EXTENDS Field, TLC

CONSTANTS d1, h0, h1, h2, w1, w2

OneDevice == [h \in Hosts |-> d1]
=============================================================================
