----------------------- MODULE MCInboundConversation -----------------------
(* Instances of InboundConversation for TLC. *)
EXTENDS InboundConversation, TLC

Symmetry == Permutations(Call) \cup Permutations(Msg) \cup Permutations(Desk)
=============================================================================
