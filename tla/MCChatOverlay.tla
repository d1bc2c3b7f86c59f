--------------------------- MODULE MCChatOverlay ---------------------------
(* ChatOverlay with replies of up to two tool calls of each kind.          *)
EXTENDS ChatOverlay

MCRounds == <<2, 1>>
MCCallLists == <<{<<"plain", "plain">>, <<"guarded">>}, {<<"guarded">>}>>
=============================================================================
