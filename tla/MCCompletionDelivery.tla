------------------------ MODULE MCCompletionDelivery ------------------------
EXTENDS CompletionDelivery, TLC

Channels == {"eventbus", "mailbox"} \X Sessions
SessionOf == [h \in Channels |-> h[2]]
=============================================================================
