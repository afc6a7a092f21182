--------------------------- MODULE MCChannelBroker ---------------------------
(* Model checking of ChannelBroker: subscribers that name the same queue.     *)
EXTENDS ChannelBroker

Pair == [s \in Subs |-> "queue"]
=============================================================================
