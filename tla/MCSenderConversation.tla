----------------------- MODULE MCSenderConversation -----------------------
(* SenderConversation for TLC: three messages, numbered as sent. *)
EXTENDS SenderConversation

Conversation(texts, stamps) ==
  [m \in DOMAIN texts |-> [text |-> texts[m], stamp |-> stamps[m]]]

\* Two replies that arrive in one second, and messages a second apart.
Conversations ==
  { Conversation(<<"send", "pin", "pin">>, <<1, 2, 2>>),
    Conversation(<<"risky", "yes", "pin">>, <<1, 2, 3>>),
    Conversation(<<"send", "no", "pin">>, <<1, 2, 3>>) }
===========================================================================
