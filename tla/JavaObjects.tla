----------------------------- MODULE JavaObjects -----------------------------
(* The references of the fake Java side (src/lib/falso_jni).  There is no       *)
(* collector: a local or a global reference is the pointer itself, local ones   *)
(* are never freed, and DeleteGlobalRef() frees the object.  Objects are blocks *)
(* of the C heap or one of a few handles that are no block at all.  The engine  *)
(* keeps to the rules of JNI: it uses what it has a reference to, and deletes   *)
(* each global reference once.                                                  *)
EXTENDS Naturals

CONSTANTS
    Callers,        \* native threads
    Blocks,         \* heap blocks that may hold an object
    NoBlock,
    MaxMade,        \* bound: objects made
    MaxRefs         \* bound: global references to one object

VARIABLES
    block,          \* what a block holds
    locals,         \* the blocks a thread has local references to
    globals,        \* how many global references lead to an object
    elements,       \* the object whose storage a thread has a pointer to
    windowService,  \* the object field WINDOW_SERVICE
    broken,         \* free() was called for what is no block
    objectsMade

objectVars == <<block, locals, globals, elements, windowService, broken, objectsMade>>

\* 0x42424242 and 0x69696969; a music handle; the (jobject)1 of getActivity, the
\* "LICN" of the license checker, and the characters of WINDOW_SERVICE.  A thread
\* may have a reference to each at any time.
Reserved == {"activity", "assets"}
Music == "music"
Handles == Reserved \cup {Music, "one", "LICN", "window"}
Things == Blocks \cup Handles

\* The item is that of an array of objects; free memory holds nothing.
Object(kind, item) == [kind |-> kind, item |-> item]
Freed == Object("freed", NoBlock)

ObjectsInit ==
    /\ block = [b \in Blocks |-> Freed]
    /\ locals = [n \in Callers |-> {}]
    /\ globals = [o \in Things |-> 0]
    /\ elements = [n \in Callers |-> NoBlock]
    /\ windowService = "window"
    /\ broken = FALSE
    /\ objectsMade = 0

\* What the code of a thread can name.
Reachable(n) == locals[n] \cup Handles \cup {o \in Things : globals[o] > 0}
Is(o, kind) == o \in Blocks /\ block[o].kind = kind

OnlyLocals(n, objects) ==
    /\ locals' = [locals EXCEPT ![n] = objects \cap Blocks]
    /\ UNCHANGED <<block, globals, elements, windowService, broken, objectsMade>>
-----------------------------------------------------------------------------
Make(n, content) ==
    /\ objectsMade < MaxMade
    /\ objectsMade' = objectsMade + 1
    /\ \E b \in Blocks :
           /\ block[b] = Freed
           /\ block' = [block EXCEPT ![b] = content]
           /\ locals' = [locals EXCEPT ![n] = @ \cup {b}]
    /\ UNCHANGED <<globals, elements, windowService, broken>>

\* A class is the copy of its name.
FindClass(n) == Make(n, Object("class", NoBlock))
NewPrimitiveArray(n) == Make(n, Object("array", NoBlock))

\* An array of one element.
NewObjectArray(n, o) == o \in Reachable(n) /\ Make(n, Object("objects", o))

GetObjectArrayElement(n, a) ==
    /\ a \in Reachable(n) /\ Is(a, "objects")
    /\ OnlyLocals(n, locals[n] \cup {block[a].item})

SetObjectArrayElement(n, a, o) ==
    /\ a \in Reachable(n) /\ Is(a, "objects") /\ o \in Reachable(n)
    /\ block' = [block EXCEPT ![a].item = o]
    /\ UNCHANGED <<locals, globals, elements, windowService, broken, objectsMade>>

\* A field is found by its name alone, and a name that is not registered gives
\* NULL, which is the number of WINDOW_SERVICE.
FieldNames == {"WINDOW_SERVICE", "SDK_INT", "another"}
GetFieldID(name) == IF name = "SDK_INT" THEN 1 ELSE 0

\* The tables of object fields hold one; 0x42424242 stands for any other.
FieldValue(id) == IF id = 0 THEN windowService ELSE "activity"

GetObjectField(n, name) == OnlyLocals(n, locals[n] \cup {FieldValue(GetFieldID(name))})

SetObjectField(n, name, o) ==
    /\ o \in Reachable(n)
    /\ windowService' = IF GetFieldID(name) = 0 THEN o ELSE windowService
    /\ UNCHANGED <<block, locals, globals, elements, broken, objectsMade>>
-----------------------------------------------------------------------------
NewLocalRef(n, o) == o \in Reachable(n) /\ OnlyLocals(n, locals[n] \cup {o})

\* The object stays where it is, for good.
DeleteLocalRef(n, o) == o \in locals[n] /\ OnlyLocals(n, locals[n] \ {o})

\* A global reference is the object, too.
NewGlobalRef(n, o) ==
    /\ o \in Reachable(n) /\ globals[o] < MaxRefs
    /\ globals' = [globals EXCEPT ![o] = @ + 1]
    /\ UNCHANGED <<block, locals, elements, windowService, broken, objectsMade>>

\* btd5_music_owns_handle()
OwnsHandle(o) == o = Music

\* jda_free() for an array, free() for anything else; music handles and the two
\* reserved values are left alone.
DeleteGlobalRef(o) ==
    /\ globals[o] > 0
    /\ globals' = [globals EXCEPT ![o] = @ - 1]
    /\ IF OwnsHandle(o) \/ o \in Reserved THEN UNCHANGED <<block, broken>>
       ELSE IF o \in Blocks /\ block[o] # Freed
            THEN block' = [block EXCEPT ![o] = Freed] /\ UNCHANGED broken
            ELSE broken' = TRUE /\ UNCHANGED block
    /\ UNCHANGED <<locals, elements, windowService, objectsMade>>
-----------------------------------------------------------------------------
\* Get<Type>ArrayElements() and GetPrimitiveArrayCritical() return the storage
\* itself; their releases do nothing.
GetStorage(n, o) ==
    /\ elements[n] = NoBlock
    /\ o \in Reachable(n) /\ Is(o, "array")
    /\ elements' = [elements EXCEPT ![n] = o]
    /\ UNCHANGED <<block, locals, globals, windowService, broken, objectsMade>>

GetArrayElements(n, o) == GetStorage(n, o)
GetCritical(n, o) == GetStorage(n, o)

ReleaseStorage(n) ==
    /\ elements[n] # NoBlock
    /\ elements' = [elements EXCEPT ![n] = NoBlock]
    /\ UNCHANGED <<block, locals, globals, windowService, broken, objectsMade>>

\* The native method returns to Java: its local references end.
ReturnToJava(n) ==
    /\ elements[n] = NoBlock
    /\ OnlyLocals(n, {})

ObjectsNext ==
    \/ \E n \in Callers :
           \/ FindClass(n) \/ NewPrimitiveArray(n) \/ ReleaseStorage(n) \/ ReturnToJava(n)
           \/ \E name \in FieldNames :
                  \/ GetObjectField(n, name)
                  \/ \E o \in Things : SetObjectField(n, name, o)
           \/ \E o \in Things :
                  \/ NewObjectArray(n, o) \/ NewLocalRef(n, o) \/ DeleteLocalRef(n, o)
                  \/ NewGlobalRef(n, o)
                  \/ GetArrayElements(n, o) \/ GetCritical(n, o)
                  \/ GetObjectArrayElement(n, o)
                  \/ \E a \in Blocks : SetObjectArrayElement(n, a, o)
    \/ \E o \in Things : DeleteGlobalRef(o)

ObjectsSpec == ObjectsInit /\ [][ObjectsNext]_objectVars
-----------------------------------------------------------------------------
Held ==
    UNION {Reachable(n) \cup {elements[n]} : n \in Callers}
        \cup {windowService} \cup {block[a].item : a \in {b \in Blocks : Is(b, "objects")}}

=============================================================================
