--------------------------- MODULE MCConversation ---------------------------
(***************************************************************************)
(* A colleague, a passer-by and an integration with write access on a held *)
(* finding, whose issue has lost its label and may be followed by another, *)
(* one that waits for the clock, a thread, and somebody else's.            *)
(***************************************************************************)
EXTENDS Conversation

MCKeyOf ==
  [place \in Places |-> IF place \in {"held", "again"} THEN "hold" ELSE place]

Saying(author, place, asks) == [author |-> author, place |-> place, asks |-> asks]

(* What a colleague asks for where, and what others say to mix in with it. *)
MCSayings ==
  {Saying("ann", "held", asks) : asks \in {"unlock", "unrelated"}} \cup
  {Saying("ann", "clock", asks) : asks \in {"unlock", "recheck"}} \cup
  {Saying("ann", "line", asks) : asks \in {"unlock", "fix"}} \cup
  {Saying("ann", "again", "unlock"), Saying("ann", "alien", "unlock"),
   Saying("joe", "held", "unlock"), Saying("ci", "line", "fix")}
=============================================================================
