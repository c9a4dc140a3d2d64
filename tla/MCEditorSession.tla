--------------------------- MODULE MCEditorSession ---------------------------
(* Two entities and two transforms; a history of two commands. *)
EXTENDS EditorSession
=============================================================================
