---------------------------- MODULE GLStateCache ----------------------------
(* utils/glutil.c between the game and VitaGL: a wrapper leaves a call out   *)
(* when the cache says that the driver is in the requested state already.    *)
(* Deletions, eglMakeCurrent() and the overlay of controls.c, which calls    *)
(* VitaGL directly, make the cache forget.  All on the render thread.  Calls *)
(* GL itself would refuse are not modelled.                                  *)
EXTENDS Naturals

CONSTANTS
    TextureUnits,       \* texture units the game selects
    CachedUnits,        \* those below GL_STATE_TEXTURE_UNITS
    Names,              \* object names, and the values of other state
    Zero,               \* the name of no object
    Attribs,            \* vertex attributes
    CachedAttribs,      \* those below GL_STATE_VERTEX_ATTRIBS
    Caps,               \* capabilities of glEnable()
    CachedCaps,         \* those of gl_capability_slot()
    FixedState,         \* blending, masks, depth, culling, viewport, ...
    Unknown,            \* not a name: what the cache has forgotten
    MaxCalls            \* bound on the calls of a behaviour

ASSUME UnknownAssumption ==
    /\ Unknown \notin Names \cup TextureUnits
    /\ \A n, b \in Names : Unknown # [at |-> n, buffer |-> b]
ASSUME BoundAssumption == MaxCalls \in Nat
ASSUME ZeroAssumption == 0 \in TextureUnits /\ Zero \in Names
ASSUME CachedAssumption ==
    /\ CachedUnits \subseteq TextureUnits
    /\ CachedAttribs \subseteq Attribs
    /\ CachedCaps \subseteq Caps

VARIABLES
    gl,                 \* the driver's state
    call,               \* the last call of the game
    cache,              \* gl_state_cache, Unknown where a valid flag is clear
    calls               \* calls so far

glVars == <<gl, call, cache, calls>>

Plain == INSTANCE PlainGL

Targets == Plain!Targets
Registers == Plain!Registers
Cacheable == Registers \ (({"cap"} \X (Caps \ CachedCaps))
                            \cup ({"attrib"} \X (Attribs \ CachedAttribs)))

\* gl_state_cache_invalidate()
Forgotten ==
    [unit |-> Unknown,
     tex |-> [b \in CachedUnits \X Targets |-> Unknown],
     reg |-> [r \in Cacheable |-> Unknown],
     pointer |-> [i \in CachedAttribs |-> Unknown]]

GlInit == Plain!Init /\ cache = Forgotten /\ calls = 0

Call(c) == calls < MaxCalls /\ calls' = calls + 1 /\ call' = c

-----------------------------------------------------------------------------
ActiveTexture(u) ==
    /\ Call(<<"unit", u>>)
    /\ gl' = IF cache.unit = u THEN gl ELSE Plain!AfterUnit(u)
    /\ cache' = [cache EXCEPT !.unit = u]

\* gl_active_texture_slot(): the binding point the cache holds, if it does.
TextureSlot(g) == {<<u, g>> : u \in {cache.unit} \cap CachedUnits}

BindTexture(g, n) ==
    /\ Call(<<"tex", g, n>>)
    /\ gl' = IF \E b \in TextureSlot(g) : cache.tex[b] = n
             THEN gl ELSE Plain!AfterTexture(g, n)
    /\ cache' = [cache EXCEPT !.tex =
                    [b \in DOMAIN @ |-> IF b \in TextureSlot(g) THEN n ELSE @[b]]]

Holds(r, v) == r \in Cacheable /\ cache.reg[r] = v

SetRegister(r, v) ==
    /\ Call(<<"set", r, v>>)
    /\ gl' = IF Holds(r, v) THEN gl ELSE Plain!AfterSet(r, v)
    /\ cache' = IF r \in Cacheable THEN [cache EXCEPT !.reg[r] = v] ELSE cache

BindBuffer(k, n) == SetRegister(<<"bound", k>>, n)
BindFramebuffer(n) == SetRegister(<<"bound", "framebuffer">>, n)
BindRenderbuffer(n) == SetRegister(<<"bound", "renderbuffer">>, n)
UseProgram(n) == SetRegister(<<"bound", "program">>, n)
SetCapability(c, on) == SetRegister(<<"cap", c>>, on)
SetVertexAttrib(i, on) == SetRegister(<<"attrib", i>>, on)
SetFixedState(f, v) == SetRegister(<<"fixed", f>>, v)

\* A pointer keeps the array buffer of its call: it is cached with that buffer.
VertexAttribPointer(i, p) ==
    LET buffer == cache.reg[<<"bound", "array">>]
        cacheable == i \in CachedAttribs /\ buffer # Unknown
        asked == [at |-> p, buffer |-> buffer]
    IN  /\ Call(<<"pointer", i, p>>)
        /\ gl' = IF cacheable /\ cache.pointer[i] = asked
                 THEN gl ELSE Plain!AfterPointer(i, p)
        /\ cache' = IF cacheable THEN [cache EXCEPT !.pointer[i] = asked] ELSE cache

-----------------------------------------------------------------------------
\* Mutant: the bindings of the deleted texture stay in the cache.
DeleteTexturesUnnoticed(n) ==
    /\ Call(<<"deltex", n>>)
    /\ gl' = Plain!AfterDeleteTexture(n)
    /\ UNCHANGED cache

DeleteTextures(n) ==
    /\ Call(<<"deltex", n>>)
    /\ gl' = Plain!AfterDeleteTexture(n)
    /\ cache' = Forgotten

DeleteObjects(kinds, n) ==
    /\ Call(<<"delete", kinds, n>>)
    /\ gl' = Plain!AfterDelete(kinds, n)
    /\ cache' = Forgotten

\* The end of controls_draw_cursor(): clear colour, scissor and colour mask
\* are left as the overlay wants them.
DrawOverlay(n) ==
    /\ Call(<<"overlay">>)
    /\ gl' = Plain!AfterOverlay(n)
    /\ cache' = Forgotten

MakeCurrent ==
    /\ Call(<<"current">>)
    /\ cache' = Forgotten
    /\ UNCHANGED gl

GlDone == calls = MaxCalls /\ UNCHANGED glVars

GlNext ==
    \/ \E u \in TextureUnits : ActiveTexture(u)
    \/ \E g \in Targets, n \in Names : BindTexture(g, n)
    \/ \E n \in Names :
        \/ \E k \in Plain!Buffers : BindBuffer(k, n)
        \/ BindFramebuffer(n)
        \/ BindRenderbuffer(n)
        \/ UseProgram(n)
        \/ \E c \in Caps : SetCapability(c, n)
        \/ \E i \in Attribs : SetVertexAttrib(i, n)
        \/ \E f \in FixedState : SetFixedState(f, n)
        \/ \E i \in Attribs : VertexAttribPointer(i, n)
    \/ \E n \in Names \ {Zero} :
        \/ DeleteTextures(n)
        \/ \E kinds \in Plain!Kinds : DeleteObjects(kinds, n)
    \/ \E n \in Names : DrawOverlay(n)
    \/ MakeCurrent
    \/ GlDone

GlSpec == GlInit /\ [][GlNext]_glVars

-----------------------------------------------------------------------------
GlTypeOK ==
    /\ gl \in Plain!States
    /\ cache \in [unit : TextureUnits \cup {Unknown},
                  tex : [CachedUnits \X Targets -> Names \cup {Unknown}],
                  reg : [Cacheable -> Names \cup {Unknown}],
                  pointer : [CachedAttribs -> Plain!Pointers \cup {Unknown}]]
    /\ calls \in 0..MaxCalls

\* Whatever the wrappers leave out, every call of the game has the effect it
\* has without them: no binding is skipped because of an object that was
\* deleted, an overlay drawn in between, another texture unit or a pointer
\* that was set up for another buffer.
ImplementsPlainGL == Plain!Spec
=============================================================================
