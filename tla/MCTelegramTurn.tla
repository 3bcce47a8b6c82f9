--------------------------- MODULE MCTelegramTurn ---------------------------
(***************************************************************************)
(* TelegramTurn for TLC: two messages of one chat.                         *)
(***************************************************************************)
EXTENDS TelegramTurn, TLC

CONSTANTS m1, m2, chat

OneChat == (m1 :> chat) @@ (m2 :> chat)
WorkAndTalk == (m1 :> {"write", "extract", "read"}) @@ (m2 :> {})
TwiceAndOnce == (m1 :> 2) @@ (m2 :> 1)
=============================================================================
