---------------------------- MODULE MCUndoBuffer ----------------------------
(* Commands of two sizes, as UndoTagData and UndoTransformData are, and a
   history short enough to be full after three pushes. *)
EXTENDS UndoBuffer, TLC

CONSTANTS tagA, tagB, moveA, moveB

MCSize == (tagA :> 2) @@ (tagB :> 2) @@ (moveA :> 3) @@ (moveB :> 3)
=============================================================================
