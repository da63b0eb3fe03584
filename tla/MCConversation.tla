--------------------------- MODULE MCConversation ---------------------------
(***************************************************************************)
(* Conversation, instantiated for TLC.                                     *)
(***************************************************************************)
EXTENDS Conversation

CONSTANTS m1, m2

(* A message of this window and its answer, a line that draws nothing, and  *)
(* the next exchange.                                                       *)
Answered == {<<m, "starts", "quiet", "opens">> : m \in Messages}
(* Something the agent goes on with after the next exchange has begun. *)
Interrupted == {<<"opens", "starts", "opens", "adds">>}

AllScripts == Answered \cup Interrupted
=============================================================================
