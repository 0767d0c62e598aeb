--------------------------- MODULE MCSettingsPage ---------------------------
(* Two settings of one area, and one market. *)
EXTENDS SettingsPage

CONSTANTS general, view, star

MCSettings == {general, view}
MCMarks    == {star}
MCValues   == {0, 1}
MCFirst    == {[f \in Fields |-> 0]}
MCShown    == {general, view}

=============================================================================
