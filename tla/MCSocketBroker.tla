--------------------------- MODULE MCSocketBroker ---------------------------
(* A relay whose client writes garbage before its request, a client that    *)
(* connects directly, and one that stays silent.                            *)
EXTENDS SocketBroker

CONSTANTS relay, direct, idle

MCClients == {relay, direct, idle}
MCRelays == {relay}
MCScript == [c \in MCClients |-> CASE c = relay  -> <<"garbage", "request">>
                                   [] c = direct -> <<"request">>
                                   [] c = idle   -> <<>>]
=============================================================================
