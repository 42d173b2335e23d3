----------------------------- MODULE JavaMethods -----------------------------
(* How a call of the engine reaches a method of the fake Java side: the name is *)
(* looked up in one table (java.c, nameToMethodId), the number it gives in the  *)
(* table of the return type alone (methodsObject, methodsInt ...), and neither  *)
(* lookup knows of classes.                                                     *)
EXTENDS Naturals

\* nameToMethodId: the number and the type a name is registered with.  Every
\* number between the ends is taken, except 606.
Registered ==
    [object |-> 100..118, int |-> 200..209, long |-> 300..301, double |-> {400},
     boolean |-> 500..503, void |-> (600..625) \ {606}]

\* The numbers that the table of each type can call.
Callable == Registered

\* The methods that the other modules model.
LoadMusicId == 116
FileInit == 117             \* "java/io/File/<init>": FindClass keeps the class's name
MkdirsId == 503
StoreKeyValuePairId == 619
UnloadMusicId == 620
PlayMusicId(loop) == IF loop THEN 621 ELSE 622      \* playMusic, playMusicNoLoop
PauseMusicId == 623

\* getMethodIdByName: the class is not looked at, but for constructors, whose
\* name FindClass has kept.
GetMethodID(id) == \E t \in DOMAIN Registered : id \in Registered[t]
GetStaticMethodID(id) == GetMethodID(id)

\* method<Type>Call: 0, -1 or NULL is the answer to a number that is not there.
MethodCall(type, id) == id \in Callable[type]

-----------------------------------------------------------------------------
\* The call functions of JNI, for an object, for an object and a class, and for
\* a class; none looks at either.  Each has a "..." form and a "V" form, in
\* which the calls of the engine arrive, and which pass the arguments on.  One
\* group answers in a word, one in two words or a float, one not at all.
OneWord == {"object", "boolean", "int"}
TwoWords == {"long", "double"}

CallMethod(type, id) == type \in OneWord /\ GetMethodID(id) /\ MethodCall(type, id)
CallWideMethod(type, id) == type \in TwoWords /\ GetMethodID(id) /\ MethodCall(type, id)
CallVoidMethod(id) == GetMethodID(id) /\ MethodCall("void", id)

CallNonvirtualMethod(type, id) ==
    type \in OneWord /\ GetMethodID(id) /\ MethodCall(type, id)
CallNonvirtualWideMethod(type, id) ==
    type \in TwoWords /\ GetMethodID(id) /\ MethodCall(type, id)
CallNonvirtualVoidMethod(id) == GetMethodID(id) /\ MethodCall("void", id)

CallStaticMethod(type, id) ==
    type \in OneWord /\ GetStaticMethodID(id) /\ MethodCall(type, id)
CallStaticWideMethod(type, id) ==
    type \in TwoWords /\ GetStaticMethodID(id) /\ MethodCall(type, id)
CallStaticVoidMethod(id) == GetStaticMethodID(id) /\ MethodCall("void", id)

NewObject(id) == GetMethodID(id) /\ MethodCall("object", id)

\* A call that names the right type reaches its method, whichever function the
\* engine calls.
Dispatches(type, id) ==
    \/ CallMethod(type, id) \/ CallNonvirtualMethod(type, id) \/ CallStaticMethod(type, id)
    \/ CallWideMethod(type, id) \/ CallNonvirtualWideMethod(type, id)
    \/ CallStaticWideMethod(type, id)
DispatchesVoid(id) ==
    CallVoidMethod(id) \/ CallNonvirtualVoidMethod(id) \/ CallStaticVoidMethod(id)
=============================================================================
