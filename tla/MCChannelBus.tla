--------------------------- MODULE MCChannelBus ---------------------------
(* Finite instances of ChannelBus: every client watches the one channel.   *)
EXTENDS ChannelBus

CONSTANT Home
MCWatches == [c \in Clients |-> Home]
MCShows   == [d \in Dispatchers |-> Kinds]
===========================================================================
