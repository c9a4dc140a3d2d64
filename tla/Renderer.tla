------------------------------ MODULE Renderer ------------------------------
(***************************************************************************)
(* The renderer (renderer/renderer.cpp): start bakes the lighting maps and *)
(* builds the materials, then every frame runs its passes in order and the *)
(* editor's ImGui draws the window. The frame is one call on the main      *)
(* thread; a pass is an action, pc names the next one.                     *)
(*                                                                         *)
(* A framebuffer holds the draws since its colour was cleared (drawn) and  *)
(* whether its depth was cleared with it (depth). A draw is recorded with  *)
(* everything its shader reads at that moment: the contents of the uniform *)
(* buffers and textures then bound where the shader looks for them.        *)
(***************************************************************************)
EXTENDS OpenGLContext

CONSTANTS
  Entity,   \* ids of the entities that may be in the scene
  Camera,   \* positions of the editor's camera
  None      \* INVALID_ENTITY_ID

ASSUME NoneAssumption == None \notin Entity

VARIABLES
  pc,        \* the next step of start or of the frame
  pipe,      \* fixed-function state and its cache (OpenGLContext)
  bind,      \* bindings (OpenGLContext)
  uniforms,  \* contents of the uniform buffers
  image,     \* contents of the framebuffers
  baked,     \* contents of the lighting textures
  asAsked,   \* history: every draw so far had the state its pass asked for
  scene,     \* entity -> which of the components a draw needs it has
  selected,  \* m_SelectedForHighlighting
  wireframe, \* m_WireframeActive
  camera     \* m_EditorCamData

gl    == <<pipe, bind, uniforms, image>>
input == <<scene, selected, wireframe, camera>>
vars  == <<pc, pipe, bind, uniforms, image, baked, asAsked, scene, selected,
           wireframe, camera>>

Bakery == {"irradiance", "prefilter", "brdf", "materials"}
Passes == {"windowClear", "scenePassBegin", "geometry", "procedural", "vfx",
           "resolve", "selection", "postprocessing", "gui"}
Target == {"window", "msaa", "scene", "selection", "postprocess"}

\* noVao: a mesh id with no mesh; noMaterial: no Material component; absent
\* stands for any entity without a MeshRenderer.
Kind == {"absent", "whole", "noVao", "noTransform", "noMaterial"}

-----------------------------------------------------------------------------
(* Reading and drawing                                                     *)

Uniform(b, u, slot) == IF b.ubo[slot] = "none" THEN "undefined" ELSE u[b.ubo[slot]]

Baked(texture) == IF texture = "none" THEN "nothing" ELSE baked[texture]

\* The draw runs in the state p; the pass asked for p.asked.
Drawing(p) == asAsked' = (asAsked /\ Agree(p.state, p.asked))

\* PBR/pbr.vert and pbr.frag with the state and uniforms of the moment.
PbrDraw(p, b, u) ==
  [by |-> "pbr", raster |-> p.state.rasterizerMode, area |-> b.viewport,
   depth |-> image[b.fbo].depth,
   camera |-> Uniform(b, u, 0), object |-> Uniform(b, u, 1),
   material |-> Uniform(b, u, 2), lights |-> Uniform(b, u, 3),
   irradiance |-> Baked(b.cube[0]), prefilter |-> Baked(b.cube[1]),
   brdf |-> Baked(b.flat[2])]

\* skybox.vert and skybox.frag.
SkyDraw(b, u) ==
  [by |-> "skybox", area |-> b.viewport, depth |-> image[b.fbo].depth, camera |-> Uniform(b, u, 0),
   environment |-> Baked(b.cube[0])]

\* mask.vert and mask.frag.
MaskDraw(b, u, depth) ==
  [by |-> "mask", area |-> b.viewport, depth |-> depth,
   camera |-> Uniform(b, u, 0), object |-> Uniform(b, u, 1)]

\* outline.vert and outline.frag: alpha is 1, so the draw covers the target.
OutlineDraw(b, u) ==
  [by |-> "outline", area |-> b.viewport, texelSize |-> Uniform(b, u, 0),
   scene |-> image[b.flat[10]], selection |-> image[b.flat[11]]]

\* glClear obeys the depth mask.
Cleared(fbo, p) == [image EXCEPT ![fbo] = [drawn |-> {}, depth |-> p.state.depthWrite]]

Onto(fbo, draws) == [image EXCEPT ![fbo].drawn = @ \cup draws]

Goes(from, to) == pc = from /\ pc' = to

-----------------------------------------------------------------------------
(* start                                                                   *)

Init ==
  /\ pc = "start"
  /\ pipe = ContextCreated
  /\ bind = NothingBound
  /\ uniforms = [b \in {"camera", "object", "lights", "material", "outline"} |-> "unset"]
  /\ image = [t \in Target |-> [drawn |-> {}, depth |-> TRUE]]
  /\ \E found \in {"panorama", "black"} :
       baked = [panorama |-> found, environment |-> "empty",
                irradiance |-> "empty", prefilter |-> "empty", brdf |-> "empty"]
  /\ asAsked = TRUE
  /\ scene = [e \in Entity |-> "absent"]
  /\ selected = None
  /\ wireframe = FALSE
  /\ camera \in Camera

BakingSpecs == [DefaultSpecs EXCEPT !.cullMode = "None", !.depthTest = FALSE]

\* A face is filled when the viewport is the size of the face.
FaceOf(content, b, size) == IF b.viewport = size THEN content ELSE "garbled"

\* initRenderer, createFramebuffers, the environment cubemap from the
\* panorama, and its mip chain: its sampler is trilinear, so without one it
\* reads as black.
ConvertEquirectangularToCubemap ==
  LET specs == [DefaultSpecs EXCEPT !.depthFunction = "LEqual", !.cullMode = "None"]
      drawing == setRenderPassSpecs(pipe, specs)
      b1 == bindShaderTexture(AllocateCubemapTexture(resize(bind)), 0, "panorama")
      b2 == bindFramebuffer(setViewport(b1, 512), "baking", 512)
      b3 == bindTextureCube(unbindFramebuffer(b2), 0, "environment")
  IN /\ Goes("start", "irradiance")
     /\ Drawing(drawing)
     /\ pipe' = setRenderPassSpecs(drawing, DefaultSpecs)
     /\ bind' = b3
     /\ baked' = [baked EXCEPT !.environment =
                    IF b3.cube[b3.unit] = "environment"
                    THEN FaceOf(Baked(b2.flat[0]), b2, 512) ELSE "black"]
     /\ UNCHANGED <<uniforms, image, input>>

irradianceCubemapBaking ==
  LET drawing == setRenderPassSpecs(pipe, BakingSpecs)
      b1 == AllocateCubemapTexture(AllocateCubemapTexture(resize(bind)))
      b2 == setViewport(bindTextureCube(b1, 0, "environment"), 32)
      b3 == bindFramebuffer(b2, "baking", 32)
  IN /\ Goes("irradiance", "prefilter")
     /\ Drawing(drawing)
     /\ pipe' = setRenderPassSpecs(drawing, DefaultSpecs)
     /\ bind' = resize(setViewport(unbindFramebuffer(b3), 512))
     /\ baked' = [baked EXCEPT !.irradiance = FaceOf(Baked(b3.cube[0]), b3, 32)]
     /\ UNCHANGED <<uniforms, image, input>>

\* The specs are not reset, and the last mip's viewport stays. Which roughness
\* a mip is filtered for is left out: prefilter.frag reads it from uniform
\* slot 1, where nothing is bound yet.
prefilterCubemapBaking ==
  LET b1 == bindFramebuffer(bindTextureCube(bind, 0, "environment"), "baking", 512)
      Mip(m) == setViewport(b1, 128 \div 2^m)
  IN /\ Goes("prefilter", "brdf")
     /\ pipe' = setRenderPassSpecs(pipe, BakingSpecs)
     /\ Drawing(pipe')
     /\ bind' = unbindFramebuffer(Mip(4))
     /\ baked' = [baked EXCEPT !.prefilter =
                    IF \A m \in 0 .. 4 : FaceOf("right", Mip(m), 128 \div 2^m) = "right"
                    THEN Baked(b1.cube[0]) ELSE "garbled"]
     /\ UNCHANGED <<uniforms, image, input>>

brdfLUTBaking ==
  LET drawing == setRenderPassSpecs(pipe, BakingSpecs)
      b1 == bindFramebuffer(setViewport(allocateTexture(bind), 512), "baking", 512)
  IN /\ Goes("brdf", "materials")
     /\ Drawing(drawing)
     /\ pipe' = setRenderPassSpecs(drawing, DefaultSpecs)
     /\ bind' = unbindFramebuffer([b1 EXCEPT !.flat[b1.unit] = "none"])
     /\ baked' = [baked EXCEPT !.brdf = FaceOf("lut", b1, 512)]
     /\ UNCHANGED <<uniforms, image, input>>

\* The PBR material gets its uniform buffer; then the final specs of start.
createMaterials ==
  /\ Goes("materials", "windowClear")
  /\ pipe' = setRenderPassSpecs(pipe, DefaultSpecs)
  /\ bind' = bindUBO(bind, 2, "material")
  /\ uniforms' = [uniforms EXCEPT !["material"] = "pbrMaterial"]
  /\ UNCHANGED <<image, baked, asAsked, input>>

-----------------------------------------------------------------------------
(* update                                                                  *)

\* A defect for the mutation check: the window is never cleared.
windowClearPassSkipped ==
  /\ Goes("windowClear", "scenePassBegin")
  /\ bind' = setViewport(bind, "window")
  /\ UNCHANGED <<pipe, uniforms, image, baked, asAsked, input>>

\* No framebuffer is bound here: whatever the last frame left is cleared.
windowClearPass ==
  /\ Goes("windowClear", "scenePassBegin")
  /\ bind' = setViewport(bind, "window")
  /\ image' = Cleared(bind.fbo, pipe)
  /\ UNCHANGED <<pipe, uniforms, baked, asAsked, input>>

\* A defect for the mutation check: the camera's slot is left as it was.
scenePassBeginUnbound ==
  /\ Goes("scenePassBegin", "geometry")
  /\ bind' = bindUBO(bindFramebuffer(bind, "msaa", "window"), 3, "lights")
  /\ image' = Cleared("msaa", pipe)
  /\ uniforms' = [uniforms EXCEPT !["camera"] = camera, !["lights"] = "lights"]
  /\ UNCHANGED <<pipe, baked, asAsked, input>>

scenePassBegin ==
  /\ Goes("scenePassBegin", "geometry")
  /\ bind' = bindUBO(bindUBO(bindFramebuffer(bind, "msaa", "window"),
                             0, "camera"), 3, "lights")
  /\ image' = Cleared("msaa", pipe)
  /\ uniforms' = [uniforms EXCEPT !["camera"] = camera, !["lights"] = "lights"]
  /\ UNCHANGED <<pipe, baked, asAsked, input>>

GeometrySpecs ==
  IF wireframe
  THEN [DefaultSpecs EXCEPT !.rasterizerMode = "Wireframe", !.cullMode = "None"]
  ELSE DefaultSpecs

\* Material::bind of the PBR material.
PbrBound(b) ==
  bindTextures(bindUBO(b, 2, "material"), [u \in {2} |-> "brdf"],
               [u \in {0, 1} |-> IF u = 0 THEN "irradiance" ELSE "prefilter"])

\* An entity with mesh and transform and no Material fails the assertion of
\* ComponentPool::get (core/a_registry.hpp:129-131) and ends the program.
geometryPass ==
  LET drawing  == setRenderPassSpecs(pipe, GeometrySpecs)
      drawable == {e \in Entity : scene[e] = "whole"}
      bound    == PbrBound(bindUBO(bind, 1, "object"))
      Written(e) == [uniforms EXCEPT !["object"] = e]
  IN /\ pc = "geometry"
     /\ \A e \in Entity : scene[e] # "noMaterial"
     /\ pc' = "procedural"
     /\ asAsked' = (asAsked /\ (drawable # {} => Agree(drawing.state, GeometrySpecs)))
     /\ pipe' = setRenderPassSpecs(drawing, DefaultSpecs)
     /\ image' = Onto(bind.fbo, {PbrDraw(drawing, bound, Written(e)) : e \in drawable})
     /\ IF drawable = {} THEN UNCHANGED <<bind, uniforms>>
        ELSE /\ bind' = bound
             /\ \E last \in drawable : uniforms' = Written(last)
     /\ UNCHANGED <<baked, input>>

geometryPassAborts ==
  /\ Goes("geometry", "aborted")
  /\ \E e \in Entity : scene[e] = "noMaterial"
  /\ UNCHANGED <<gl, baked, asAsked, input>>

\* The skybox material has no textures of its own.
proceduralPass ==
  LET drawing == setRenderPassSpecs(pipe,
                   [DefaultSpecs EXCEPT !.cullMode = "None", !.blendMode = "AlphaBlend",
                                        !.depthFunction = "LEqual"])
  IN /\ Goes("procedural", "vfx")
     /\ Drawing(drawing)
     /\ pipe' = setRenderPassSpecs(drawing, DefaultSpecs)
     /\ bind' = bindTextureCube(bind, 0, "environment")
     /\ image' = Onto(bind.fbo, {SkyDraw(bind', uniforms)})
     /\ UNCHANGED <<uniforms, baked, input>>

\* The draw of ParticleEmitter::render is commented out; its specs are set.
vfxPass ==
  LET drawing == setRenderPassSpecs(pipe,
                   [DefaultSpecs EXCEPT !.blendMode = "AlphaBlend", !.depthWrite = FALSE])
  IN /\ Goes("vfx", "resolve")
     /\ pipe' = setRenderPassSpecs(drawing, DefaultSpecs)
     /\ UNCHANGED <<bind, uniforms, image, baked, asAsked, input>>

\* blitFramebuffer copies colour only and leaves its target bound.
scenePassEndResolve ==
  /\ Goes("resolve", "selection")
  /\ image' = [image EXCEPT !["scene"].drawn = image["msaa"].drawn]
  /\ bind' = unbindFramebuffer([bind EXCEPT !.fbo = "scene"])
  /\ UNCHANGED <<pipe, uniforms, baked, asAsked, input>>

\* Cleared whatever is selected; drawn for an entity with mesh and transform.
selectionPass ==
  LET specs   == [DefaultSpecs EXCEPT !.cullMode = "None", !.depthFunction = "LEqual"]
      drawing == setRenderPassSpecs(pipe, specs)
      target  == bindFramebuffer(bind, "selection", "window")
      bound   == bindUBO(target, 1, "object")
      cleared == Cleared("selection", pipe)
  IN /\ Goes("selection", "postprocessing")
     /\ IF selected \in Entity /\ scene[selected] = "whole"
        THEN /\ uniforms' = [uniforms EXCEPT !["object"] = selected]
             /\ image' = [cleared EXCEPT !["selection"].drawn =
                          {MaskDraw(bound, uniforms', cleared["selection"].depth)}]
             /\ bind' = unbindFramebuffer(bound)
             /\ Drawing(drawing)
             /\ pipe' = setRenderPassSpecs(drawing, DefaultSpecs)
        ELSE /\ image' = cleared
             /\ bind' = unbindFramebuffer(target)
             /\ UNCHANGED <<pipe, uniforms, asAsked>>
     /\ UNCHANGED <<baked, input>>

\* The buffer is not cleared: the outline draw covers all of it.
postprocessingPass ==
  LET drawing == setRenderPassSpecs(pipe,
                   [BakingSpecs EXCEPT !.blendMode = "AlphaBlend"])
      target  == bindUBO(bindFramebuffer(bind, "postprocess", "window"), 0, "outline")
      bound   == bindShaderTexture(bindShaderTexture(target, 10, "scene"), 11, "selection")
  IN /\ Goes("postprocessing", "gui")
     /\ Drawing(drawing)
     /\ pipe' = setRenderPassSpecs(drawing, DefaultSpecs)
     /\ uniforms' = [uniforms EXCEPT !["outline"] = "texelSize"]
     /\ image' = [image EXCEPT !["postprocess"].drawn = {OutlineDraw(bound, uniforms')}]
     /\ bind' = unbindFramebuffer(bound)
     /\ UNCHANGED <<baked, input>>

-----------------------------------------------------------------------------
(* The rest of the editor, between the renderer's frames.                  *)

\* GuiRenderer::EndFrame: ImGui draws on whatever framebuffer is bound, and
\* puts back the texture unit and the texture it used.
EndFrame ==
  /\ Goes("gui", "windowClear")
  /\ pipe' = RenderDrawData(pipe)
  /\ image' = Onto(bind.fbo, {[by |-> "gui"]})
  /\ UNCHANGED <<bind, uniforms, baked, asAsked, input>>

\* Panels, undo and a load add, complete, take apart and remove entities.
editScene(e, kind) ==
  /\ pc = "gui"
  /\ scene' = [scene EXCEPT ![e] = kind]
  /\ UNCHANGED <<pc, gl, baked, asAsked, selected, wireframe, camera>>

onSceneObjectSelected(e) ==
  /\ pc = "gui"
  /\ selected' = e
  /\ UNCHANGED <<pc, gl, baked, asAsked, scene, wireframe, camera>>

onEnableWireFrame ==
  /\ pc = "gui"
  /\ wireframe' = ~wireframe
  /\ UNCHANGED <<pc, gl, baked, asAsked, scene, selected, camera>>

moveCamera(c) ==
  /\ pc = "gui"
  /\ camera' = c
  /\ UNCHANGED <<pc, gl, baked, asAsked, scene, selected, wireframe>>

-----------------------------------------------------------------------------
start ==
  \/ ConvertEquirectangularToCubemap \/ irradianceCubemapBaking
  \/ prefilterCubemapBaking \/ brdfLUTBaking \/ createMaterials

update ==
  \/ windowClearPass \/ scenePassBegin \/ geometryPass \/ geometryPassAborts
  \/ proceduralPass \/ vfxPass \/ scenePassEndResolve \/ selectionPass
  \/ postprocessingPass

Edit ==
  \/ \E e \in Entity, kind \in Kind : editScene(e, kind)
  \/ \E e \in Entity \cup {None} : onSceneObjectSelected(e)
  \/ onEnableWireFrame
  \/ \E c \in Camera : moveCamera(c)

Next == start \/ update \/ EndFrame \/ Edit

Spec == Init /\ [][Next]_vars

-----------------------------------------------------------------------------
(* Properties                                                              *)

\* Whatever setRenderPassSpecs leaves out because its cache says GL has it
\* already, and whatever ImGui did to GL in between, each draw of a pass runs
\* in exactly the state that the pass asked for.
DrawnAsAsked == asAsked

\* The window is cleared and drawn by the GUI alone: no pass leaves one of its
\* framebuffers bound for EndFrame to draw on, nor draws on the window, and the
\* GUI never draws over the frame before.
WindowForGui ==
  /\ image["window"].drawn \subseteq {[by |-> "gui"]}
  /\ pc = "scenePassBegin" => image["window"].drawn = {}
  /\ \A t \in Target \ {"window"} : [by |-> "gui"] \notin image[t].drawn

-----------------------------------------------------------------------------
(* What the texture shows                                                  *)

MeshDraws(f) == {d \in f.drawn : d.by = "pbr"}
SkyDraws(f)  == {d \in f.drawn : d.by = "skybox"}

\* What a mesh looks like depends on its two lighting maps and where they are
\* from; anything else wrong with its inputs garbles the picture.
Sound(p) ==
  /\ p.texelSize = "texelSize" /\ p.area = "window"
  /\ \A d \in p.scene.drawn :
       /\ d.by \in {"pbr", "skybox"} /\ d.area = "window" /\ d.depth
       /\ d.by = "pbr" => /\ d.material = "pbrMaterial" /\ d.lights = "lights"
                          /\ d.brdf = "lut" /\ d.irradiance = d.prefilter
  /\ \A d \in p.selection.drawn : d.by = "mask" /\ d.area = "window" /\ d.depth

Seen(p) ==
  [meshes |-> {[object |-> d.object, camera |-> d.camera, light |-> d.irradiance,
                wire |-> d.raster = "Wireframe"] : d \in MeshDraws(p.scene)},
   sky    |-> {[camera |-> d.camera, light |-> d.environment] : d \in SkyDraws(p.scene)},
   mask   |-> {[object |-> d.object, camera |-> d.camera] : d \in p.selection.drawn}]

Garbled ==
  [meshes |-> {}, mask |-> {}, sky |-> {[camera |-> "garbled", light |-> "garbled"]}]

Picture ==
  IF image["postprocess"].drawn = {} THEN [Garbled EXCEPT !.sky = {}]
  ELSE LET p == CHOOSE d \in image["postprocess"].drawn : d.by = "outline"
       IN IF Sound(p) THEN Seen(p) ELSE Garbled

Shown == INSTANCE Viewport WITH picture <- Picture, panorama <- baked.panorama

\* The texture handed to the viewport panel always shows one whole frame: every
\* drawable entity once, at its own place, all under the same camera and the
\* lighting baked from the panorama, solid or wireframe as last asked, the sky,
\* and the silhouette of the selected entity if it is drawn at all; nothing is
\* left in it of a frame before or of an entity that is gone.
ImplementsViewport == Shown!Spec
=============================================================================
