---------------------------- MODULE MCEditorSession ----------------------------
(* Model checking of the editor page: two requests under way at a time.    *)
EXTENDS EditorSession, TLC

CONSTANTS c1, c2
MCSlots == {c1, c2}
Symmetry == Permutations(Slots)
===============================================================================
