-------------------------- MODULE MCRemoteSession --------------------------
(* RemoteSession with two requests of one conversation and one of another, *)
(* two of which may be under way, and a channel that keeps one screen.     *)
EXTENDS RemoteSession

CONSTANTS c1, c2, c3, i1, i2

MCChats == {c1, c2, c3}
MCIds == {i1, i2}
\* The chats among themselves; a chat while the screen changes.
MCLimits == {[chats |-> {c1, c2, c3}, frames |-> 0],
             [chats |-> {c3}, frames |-> 3]}

MCConversation == [c \in MCChats |-> IF c = c3 THEN i2 ELSE i1]
=============================================================================
