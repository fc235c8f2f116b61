----------------------------- MODULE MCListing -----------------------------
(* An instance of Listing for TLC. *)
EXTENDS Listing, TLC

CONSTANTS m1, m2, m3

(* The two lists share nothing: a behaviour has rows of one of them.         *)
OneList == (\A c \in Conv : updated[c] = 0) \/ Stored = {}

(* One conversation of the three is never written while they are listed.     *)
NotAll == Cardinality(touched) < Cardinality(Conv)

(* What happens after the walk concerns the next one, which begins in any    *)
(* state of the rows anyway.                                                 *)
OneWalk == walk # "ended"
=============================================================================
