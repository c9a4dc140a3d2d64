---------------------------- MODULE OpenGLContext ----------------------------
(***************************************************************************)
(* The calls of the render hardware interface that the renderer makes      *)
(* (renderer_rhi/OpenGL), as operators on the two parts of a GL context:   *)
(*                                                                         *)
(*   pipe  the fixed-function state: what GL has (state), what the context *)
(*         object believes GL has (current, m_CurrentSpecs), whether no    *)
(*         pass has run yet (first, m_IsFirstContextInit) and, for the     *)
(*         properties only, the specs of the last setRenderPassSpecs       *)
(*         (asked).                                                        *)
(*   bind  the bindings: framebuffer, viewport, active texture unit, the   *)
(*         2D and the cube texture of each unit, and the uniform buffer of *)
(*         each slot.                                                      *)
(*                                                                         *)
(* Shader programs, vertex arrays and the storage behind a texture are     *)
(* left out: every draw of the renderer binds its own.                     *)
(***************************************************************************)
EXTENDS Naturals

RenderPassSpecs ==
  [rasterizerMode : {"Fill", "Wireframe"},
   cullMode       : {"None", "Back", "Front"},
   depthTest      : BOOLEAN,
   depthFunction  : {"Less", "Equal", "LEqual"},
   blendMode      : {"None", "AlphaBlend"},
   depthWrite     : BOOLEAN]

DefaultSpecs ==
  [rasterizerMode |-> "Fill", cullMode |-> "Back", depthTest |-> TRUE,
   depthFunction |-> "Less", blendMode |-> "None", depthWrite |-> TRUE]

Field == DOMAIN DefaultSpecs

\* What a new GL context has; it differs from DefaultSpecs, hence the flag.
ContextCreated ==
  [state   |-> [DefaultSpecs EXCEPT !.cullMode = "None", !.depthTest = FALSE],
   current |-> DefaultSpecs, first |-> TRUE, asked |-> DefaultSpecs]

\* The depth function means nothing while the depth test is off.
Sent(pipe, specs, f) ==
  /\ pipe.first \/ specs[f] # pipe.current[f]
  /\ f = "depthFunction" => specs.depthTest

\* A defect for the mutation check: the cache forgets to note the cull mode.
setRenderPassSpecsUnnoted(pipe, specs) ==
  LET Update(held) == [f \in Field |-> IF Sent(pipe, specs, f) THEN specs[f]
                                                               ELSE held[f]]
  IN [state |-> Update(pipe.state), first |-> FALSE, asked |-> specs,
      current |-> [Update(pipe.current) EXCEPT !.cullMode = pipe.current.cullMode]]

setRenderPassSpecs(pipe, specs) ==
  LET Update(held) == [f \in Field |-> IF Sent(pipe, specs, f) THEN specs[f]
                                                               ELSE held[f]]
  IN [state |-> Update(pipe.state), current |-> Update(pipe.current),
      first |-> FALSE, asked |-> specs]

\* The state that tells in a draw: all of it but an unused depth function.
Agree(had, asked) ==
  \A f \in Field : (f = "depthFunction" => asked.depthTest) => had[f] = asked[f]

\* The shadow copy is true once a pass has run; the depth function always is.
Coherent(pipe) ==
  /\ pipe.state.depthFunction = pipe.current.depthFunction
  /\ ~pipe.first => pipe.state = pipe.current

Pipe == [state : RenderPassSpecs, current : RenderPassSpecs,
         first : BOOLEAN, asked : RenderPassSpecs]

-----------------------------------------------------------------------------
(* ImGui draws through GL itself, behind the context's back.               *)

SetupRenderState(state) ==
  [state EXCEPT !.blendMode = "AlphaBlend", !.cullMode = "None",
                !.depthTest = FALSE, !.rasterizerMode = "Fill"]

\* The end of RenderDrawData: what it saved of the state it changes.
Restored(state, saved) ==
  [state EXCEPT !.blendMode = saved.blendMode, !.cullMode = saved.cullMode,
                !.depthTest = saved.depthTest,
                !.rasterizerMode = saved.rasterizerMode]

RenderDrawData(pipe) ==
  [pipe EXCEPT !.state = Restored(SetupRenderState(pipe.state), pipe.state)]

-----------------------------------------------------------------------------
Unit == {0, 1, 2, 10, 11}
Slot == 0 .. 3

NothingBound ==
  [fbo |-> "window", viewport |-> "window", unit |-> 0,
   flat |-> [u \in Unit |-> "none"], cube |-> [u \in Unit |-> "none"],
   ubo  |-> [s \in Slot |-> "none"]]

setViewport(bind, area) == [bind EXCEPT !.viewport = area]

\* fbo is a framebuffer and size its specification; 0 leaves the viewport.
bindFramebuffer(bind, fbo, size) ==
  [bind EXCEPT !.fbo = fbo, !.viewport = size]

unbindFramebuffer(bind) == [bind EXCEPT !.fbo = "window"]

bindUBO(bind, slot, buffer) == [bind EXCEPT !.ubo[slot] = buffer]

bindTextureCube(bind, unit, texture) ==
  [bind EXCEPT !.unit = unit, !.cube[unit] = texture]

bindShaderTexture(bind, unit, texture) ==
  [bind EXCEPT !.unit = unit, !.flat[unit] = texture]

\* glBindTextureUnit by target; the active unit stays.
bindTextures(bind, flats, cubes) ==
  [bind EXCEPT !.flat = [u \in Unit |-> IF u \in DOMAIN flats THEN flats[u] ELSE @[u]],
               !.cube = [u \in Unit |-> IF u \in DOMAIN cubes THEN cubes[u] ELSE @[u]]]

\* Allocating a texture and setting its sampler bind it to its target of the
\* active unit and leave the target unbound.
allocateTexture(bind)        == [bind EXCEPT !.flat[bind.unit] = "none"]
AllocateCubemapTexture(bind) == [bind EXCEPT !.cube[bind.unit] = "none"]

\* invalidate ends with no framebuffer and no 2D texture bound.
resize(bind) == [bind EXCEPT !.fbo = "window", !.flat[bind.unit] = "none"]
=============================================================================
