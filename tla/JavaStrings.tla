----------------------------- MODULE JavaStrings -----------------------------
(* The strings of the fake Java side (src/lib/falso_jni) and the native        *)
(* threads that read them.  A string has a UTF-16 form, which never changes,   *)
(* and a UTF-8 form in an array: NewStringUTF() makes it at once, NewString()  *)
(* leaves it to the first reader, and every reader converts again into the     *)
(* array that the others are reading from, under no lock.                      *)
EXTENDS Naturals

CONSTANTS
    Callers,    \* native threads
    Strings,    \* strings that they may make
    Maker       \* the array of NewStringUTF(); any other is of a caller

VARIABLES
    string,     \* how a string was made, and the array its UTF-8 field leads to
    array,      \* the arrays of a string, by who made them
    call,       \* the call that a thread is in
    got         \* the copy of the characters that a thread has

stringVars == <<string, array, call, got>>

ASSUME StringsAssumption == Maker \notin Callers

Arrays == Callers \cup {Maker}

\* What an array holds before its last byte, and in it.  A string is wide when
\* some character takes more than one byte; then NewString() has no room for it
\* (utf16->len + 1 bytes), and the UTF-16 form of NewStringUTF() has units to
\* spare (one for each byte) that are never written, which the encoder reads too.
Blank == [chars |-> "blank", last |-> "blank"]
Whole == [chars |-> "text", last |-> "zero"]
Contents == [chars : {"blank", "text", "cut"}, last : {"blank", "junk", "zero"}]

NoString == [from |-> "nothing", wide |-> FALSE, utf8 |-> {}]
NoCall == [op |-> "none", step |-> "idle", met |-> FALSE]

Idle(n) == call[n].step = "idle"
StringIn(n) == call[n].string
\* The array that the field leads to now: each step reads the field anew.
Current(s) == CHOOSE a \in Arrays : string[s].utf8 = {a}

StringsTypeOK ==
    /\ string \in [Strings -> [from : {"nothing", "UTF16", "UTF8"}, wide : BOOLEAN,
                               utf8 : {{}} \cup {{a} : a \in Arrays}]]
    /\ array \in [Strings -> [Arrays -> Contents]]
    /\ call \in [Callers -> {NoCall}
                     \cup [op : {"chars", "region"}, string : Strings, met : BOOLEAN,
                           step : {"test", "make", "encode", "terminate", "copy"}]]
    /\ got \in [Callers -> {{}} \cup {{c} : c \in
                     [string : Strings, met : BOOLEAN, copy : Contents]}]

StringsInit ==
    /\ string = [s \in Strings |-> NoString]
    /\ array = [s \in Strings |-> [a \in Arrays |-> Blank]]
    /\ call = [n \in Callers |-> NoCall]
    /\ got = [n \in Callers |-> {}]
-----------------------------------------------------------------------------
\* Nothing is left of a string that there was no memory for.
NewString(s, wide) ==
    /\ string[s] = NoString
    /\ string' = [string EXCEPT ![s] = [from |-> "UTF16", wide |-> wide, utf8 |-> {}]]
    /\ UNCHANGED <<array, call, got>>

\* Mutant: its UTF-8 form is left for later too.
NewStringUTFLater(s, wide) ==
    /\ string[s] = NoString
    /\ string' = [string EXCEPT ![s] = [from |-> "UTF8", wide |-> wide, utf8 |-> {}]]
    /\ UNCHANGED <<array, call, got>>

NewStringUTF(s, wide) ==
    /\ string[s] = NoString
    /\ string' = [string EXCEPT ![s] = [from |-> "UTF8", wide |-> wide, utf8 |-> {Maker}]]
    /\ array' = [array EXCEPT ![s][Maker] = Whole]
    /\ UNCHANGED <<call, got>>
-----------------------------------------------------------------------------
\* A call on a string meets the ones that others are in.
Others(n, s) == {m \in Callers \ {n} : ~Idle(m) /\ StringIn(m) = s}

Begin(n, s, op) ==
    /\ Idle(n) /\ got[n] = {}
    /\ string[s] # NoString
    /\ call' = [m \in Callers |->
                    IF m = n THEN [op |-> op, string |-> s, step |-> "test",
                                   met |-> Others(n, s) # {}]
                    ELSE IF m \in Others(n, s) THEN [call[m] EXCEPT !.met = TRUE]
                    ELSE call[m]]
    /\ UNCHANGED <<string, array, got>>

\* GetStringUTFChars() has the memory for its copy first.
GetStringUTFChars(n, s) == Begin(n, s, "chars")
GetStringUTFRegion(n, s) == Begin(n, s, "region")

\* jstr_utf16_to_utf8() is entered.
AtStep(n, step) == call[n].step = step
Goes(n, step) == call' = [call EXCEPT ![n].step = step]

TestUTF8(n) ==
    /\ AtStep(n, "test")
    /\ Goes(n, IF string[StringIn(n)].utf8 = {} THEN "make" ELSE "encode")
    /\ UNCHANGED <<string, array, got>>

\* A new array takes the place of one that another thread made in between.
MakeUTF8(n) ==
    /\ AtStep(n, "make")
    /\ string' = [string EXCEPT ![StringIn(n)].utf8 = {n}]
    /\ array' = [array EXCEPT ![StringIn(n)][n] = Blank]
    /\ Goes(n, "encode")
    /\ UNCHANGED got

\* Characters that do not fit are left out.  The last byte is written to by a
\* wide string alone, and not by each.
CutShort(s) == string[s].wide /\ string[s].from = "UTF16"
SpareUnits(s) == string[s].wide /\ string[s].from = "UTF8"

Encoded(s, content) ==
    [chars : {IF CutShort(s) THEN "cut" ELSE "text"},
     last : {content.last} \cup IF CutShort(s) \/ SpareUnits(s) THEN {"junk"} ELSE {}]

EncodeUTF8(n) ==
    /\ AtStep(n, "encode")
    /\ LET s == StringIn(n) a == Current(s) IN
           \E content \in Encoded(s, array[s][a]) :
               array' = [array EXCEPT ![s][a] = content]
    /\ Goes(n, "terminate")
    /\ UNCHANGED <<string, got>>

TerminateUTF8(n) ==
    /\ AtStep(n, "terminate")
    /\ LET s == StringIn(n) IN array' = [array EXCEPT ![s][Current(s)].last = "zero"]
    /\ Goes(n, "copy")
    /\ UNCHANGED <<string, got>>

\* GetStringUTFRegion() copies from the head of the array, not from its bytes.
CopyUTF8(n) ==
    /\ AtStep(n, "copy")
    /\ LET s == StringIn(n) IN
           got' = IF call[n].op = "region" THEN got
                  ELSE [got EXCEPT ![n] = {[string |-> s, met |-> call[n].met,
                                            copy |-> array[s][Current(s)]]}]
    /\ call' = [call EXCEPT ![n] = NoCall]
    /\ UNCHANGED <<string, array>>

\* No memory for the copy or for the array: NULL, or a region left as it was.
CharsFail(n) ==
    /\ call[n].step \in {"test", "make"}
    /\ call' = [call EXCEPT ![n] = NoCall]
    /\ UNCHANGED <<string, array, got>>

ReleaseStringUTFChars(n) ==
    /\ Idle(n) /\ got[n] # {}
    /\ got' = [got EXCEPT ![n] = {}]
    /\ UNCHANGED <<string, array, call>>

StringsNext ==
    \/ \E s \in Strings, wide \in BOOLEAN : NewString(s, wide) \/ NewStringUTF(s, wide)
    \/ \E n \in Callers :
           \/ \E s \in Strings : GetStringUTFChars(n, s) \/ GetStringUTFRegion(n, s)
           \/ TestUTF8(n) \/ MakeUTF8(n) \/ EncodeUTF8(n) \/ TerminateUTF8(n)
           \/ CopyUTF8(n) \/ CharsFail(n) \/ ReleaseStringUTFChars(n)

StringsSpec == StringsInit /\ [][StringsNext]_stringVars
-----------------------------------------------------------------------------
(* FalsoJNI.c 1175-1370 and FalsoJNI_ImplBridge.c 332-351: the characters that *)
(* a thread gets of a string of NewStringUTF() are its text whatever calls of  *)
(* others convert it at the same time, and they end in a zero, too, unless the *)
(* string is wide and such a call met this one.  Of a string of NewString()    *)
(* that is not wide the same holds when no call met this one, even if others   *)
(* spoiled the array before.                                                   *)
CharactersComeWhole ==
    \A n \in Callers : \A c \in got[n] :
        LET s == string[c.string] IN
        /\ s.from = "UTF8" => c.copy.chars = "text"
        /\ s.from = "UTF8" /\ ~s.wide => c.copy.last = "zero"
        /\ ~c.met => c.copy.last = "zero"
        /\ ~c.met /\ ~s.wide => c.copy.chars = "text"
=============================================================================
