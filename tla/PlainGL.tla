------------------------------ MODULE PlainGL ------------------------------
(* The promise of the GL import wrappers: the game sees OpenGL ES as if no  *)
(* call were ever left out.  gl is the state of the driver, call the last   *)
(* thing that happened.  The effects are those of VitaGL, which is not part *)
(* of the repository.                                                       *)

CONSTANTS TextureUnits, Names, Attribs, Caps, FixedState, Zero

VARIABLES gl, call

Targets == {"2d", "cube"}
Buffers == {"array", "element"}
Objects == Buffers \cup {"program", "framebuffer", "renderbuffer"}

\* What one call sets as a whole.
Registers == ({"bound"} \X Objects) \cup ({"cap"} \X Caps)
                \cup ({"attrib"} \X Attribs) \cup ({"fixed"} \X FixedState)
Pointers == [at : Names, buffer : Names]

States == [unit : TextureUnits, tex : [TextureUnits \X Targets -> Names],
           reg : [Registers -> Names], pointer : [Attribs -> Pointers]]

Init ==
    /\ gl = [unit |-> 0,
             tex |-> [b \in TextureUnits \X Targets |-> Zero],
             reg |-> [r \in Registers |-> Zero],
             pointer |-> [i \in Attribs |-> [at |-> Zero, buffer |-> Zero]]]
    /\ call = <<"start">>

AfterUnit(u) == [gl EXCEPT !.unit = u]
AfterTexture(g, n) == [gl EXCEPT !.tex[<<gl.unit, g>>] = n]
AfterSet(r, v) == [gl EXCEPT !.reg[r] = v]
AfterPointer(i, p) ==
    [gl EXCEPT !.pointer[i] = [at |-> p, buffer |-> gl.reg[<<"bound", "array">>]]]

\* A deleted object is unbound everywhere; a program stays in use.
AfterDeleteTexture(n) ==
    [gl EXCEPT !.tex = [b \in DOMAIN @ |-> IF @[b] = n THEN Zero ELSE @[b]]]
AfterDelete(kinds, n) ==
    [gl EXCEPT
        !.reg = [r \in DOMAIN @ |->
                    IF r \in {"bound"} \X (kinds \ {"program"}) /\ @[r] = n
                    THEN Zero ELSE @[r]],
        !.pointer = [i \in DOMAIN @ |->
                    IF "array" \in kinds /\ @[i].buffer = n
                    THEN [@[i] EXCEPT !.buffer = Zero] ELSE @[i]]]

Kinds == {Buffers, {"program"}, {"framebuffer"}, {"renderbuffer"}}

\* The overlay turns the scissor test off and leaves values of its own in
\* the rest of what it uses.
Drawn == {"fixed"} \X {"colorMask", "clearColor", "scissorBox"}
AfterOverlay(n) ==
    [gl EXCEPT !.reg = [r \in DOMAIN @ |->
                            IF r = <<"cap", "scissor">> THEN Zero
                            ELSE IF r \in Drawn THEN n ELSE @[r]]]

Next ==
    \/ \E u \in TextureUnits : call' = <<"unit", u>> /\ gl' = AfterUnit(u)
    \/ \E g \in Targets, n \in Names :
            call' = <<"tex", g, n>> /\ gl' = AfterTexture(g, n)
    \/ \E r \in Registers, v \in Names :
            call' = <<"set", r, v>> /\ gl' = AfterSet(r, v)
    \/ \E i \in Attribs, p \in Names :
            call' = <<"pointer", i, p>> /\ gl' = AfterPointer(i, p)
    \/ \E n \in Names \ {Zero} :
            call' = <<"deltex", n>> /\ gl' = AfterDeleteTexture(n)
    \/ \E k \in Kinds, n \in Names \ {Zero} :
            call' = <<"delete", k, n>> /\ gl' = AfterDelete(k, n)
    \/ call' = <<"overlay">> /\ \E n \in Names : gl' = AfterOverlay(n)
    \/ call' = <<"current">> /\ UNCHANGED gl

Spec == Init /\ [][Next]_<<gl, call>>
=============================================================================
