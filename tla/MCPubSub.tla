------------------------------ MODULE MCPubSub ------------------------------
(* An instance of PubSub for TLC. *)
EXTENDS PubSubProps

CONSTANTS all, blob

\* One publication of one packet, one of segments and one without a mapping.
Three == <<"packet", "segments", "other">>

Covered == [s \in {blob} |-> {1, 2}]
=============================================================================
