--------------------------- MODULE MCSharedConfig ---------------------------
(* A small core: two settings and one market.  A setting has its first     *)
(* value, two that the user may want, and another that others write; a     *)
(* marked market has that other value too.                                 *)
EXTENDS SharedConfigSequence, TLC

CONSTANTS general, view, star, first, low, high, other

MCSettings == {general, view}
MCMarks    == {star}
MCWanted   == {low, high}
MCValues   == {first, other} \cup MCWanted
MCForeign  == {other}
MCFirst    == {[f \in Fields |-> first]}
MCEdits    == {general :> v : v \in MCWanted}
MCMarkOnce == {star :> other}

(* The two wishes are told apart only by which came later. *)
MCSymmetry == Permutations(MCWanted)

=============================================================================
