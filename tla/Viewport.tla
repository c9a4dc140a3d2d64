------------------------------ MODULE Viewport ------------------------------
(***************************************************************************)
(* What the renderer promises the viewport panel: the texture it hands out *)
(* (Renderer::getFinalSceneViewportTexture) always holds one frame of the  *)
(* scene, complete and of a single moment, or nothing before the first.    *)
(***************************************************************************)
CONSTANTS Entity, None

VARIABLES scene, selected, wireframe, camera, panorama, picture

vars == <<scene, selected, wireframe, camera, panorama, picture>>

\* A mesh at its own place, under the lighting baked from the panorama; the
\* sky; and the silhouette of the selected entity, for its outline.
Mesh(e) == [object |-> e, camera |-> camera, light |-> panorama, wire |-> wireframe]

Frame ==
  [meshes |-> {Mesh(e) : e \in {x \in Entity : scene[x] = "whole"}},
   sky    |-> {[camera |-> camera, light |-> panorama]},
   mask   |-> {[object |-> e, camera |-> camera] :
                 e \in {x \in Entity : /\ x = selected
                                       /\ scene[x] = "whole"}}]

Init == picture = [meshes |-> {}, sky |-> {}, mask |-> {}]

Render ==
  /\ picture' = Frame
  /\ UNCHANGED <<scene, selected, wireframe, camera, panorama>>

\* The editor changes what is to be shown; the picture follows in a later frame.
Edit == UNCHANGED <<panorama, picture>>

Spec == Init /\ [][Render \/ Edit]_vars
=============================================================================
