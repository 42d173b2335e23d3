----------------------------- MODULE JavaBridge -----------------------------
(* The fake Java side of the game (src/source/java.c on src/lib/falso_jni):     *)
(* strings are kept in UTF-16, and java.io.File is no object at all: its       *)
(* constructor remembers the path in a thread-local buffer, and mkdirs uses    *)
(* that of its thread, whatever File it is called on.                          *)
(* A byte is <<code point, position>> in its UTF-8 form, a unit the same in    *)
(* its UTF-16 form; code points are told apart by their width.                 *)
EXTENDS Naturals, Sequences, JavaMethods

CONSTANTS
    Natives,      \* native threads that make directories
    Texts,        \* the paths they pass: sequences of code points, valid UTF-8
    PathBytes,    \* sizeof(last_file_path), 512 in the code
    MaxFiles      \* bound on the Files a thread constructs

ASSUME PathBytesAssumption == PathBytes \in Nat \ {0} /\ MaxFiles \in Nat
ASSUME TextsAssumption == Texts \subseteq Seq(STRING)

VARIABLES
    jstep,          \* "file" while a thread has a path for a constructor, else "any"
    given,          \* that path
    jstring,        \* its jstring: the UTF-16 array
    lastFilePath,   \* _Thread_local last_file_path, in bytes
    directories,    \* the directories on the card
    files,          \* how many Files a thread has constructed
    newest,         \* the path it passed for the last of them
    made            \* what mkdirs on that File returned last: "none", "true", "false"

javaVars == <<jstep, given, jstring, lastFilePath, directories, files, newest, made>>
-----------------------------------------------------------------------------
Slash == "/"
Bad == "bad"         \* U+FFFD, which stands for an invalid encoding
Width(p) == CASE p \in {Slash, "a"} -> 1 [] p = "e2" -> 2 [] p = "e4" -> 4 [] OTHER -> 3
UnitsOf(p) == IF Width(p) = 4 THEN 2 ELSE 1

Bytes(p) == [i \in 1..Width(p) |-> <<p, i>>]
Utf16(p) == [i \in 1..UnitsOf(p) |-> <<p, i>>]

\* The loops of the conversions: piece by piece, and what no longer fits is left
\* out.
Joined(pieces, room) ==
    LET out[i \in 0..Len(pieces)] ==
            IF i = 0 THEN <<>>
            ELSE LET before == out[i - 1]
                 IN  IF Len(before) + Len(pieces[i]) <= room THEN before \o pieces[i]
                     ELSE before
    IN  out[Len(pieces)]

\* encode_utf8 and encode_utf16 over a text.
EncodeUtf8(text, room) == Joined([i \in DOMAIN text |-> Bytes(text[i])], room)
EncodeUtf16(text, room) == Joined([i \in DOMAIN text |-> Utf16(text[i])], room)
Utf8(text) == EncodeUtf8(text, 4 * Len(text))

High(u) == UnitsOf(u[1]) = 2 /\ u[2] = 1
Low(u) == u[2] = 2

\* decode_utf16: a low surrogate is consumed with the high one before it.
PointAt(units, i) ==
    LET paired == High(units[i]) /\ i < Len(units) /\ Low(units[i + 1])
        consumed == Low(units[i]) /\ i > 1 /\ High(units[i - 1])
    IN  CASE consumed -> <<>>
          [] paired \/ ~(High(units[i]) \/ Low(units[i])) -> <<units[i][1]>>
          [] OTHER -> <<Bad>>
DecodeUtf16(units) == Joined([i \in DOMAIN units |-> PointAt(units, i)], Len(units))

\* NewStringUTF: a UTF-16 array with one unit per UTF-8 byte.  The conversion
\* fills its front; the rest is what malloc left there.
Leftovers == {<<"a", 1>>, <<"e3", 1>>, <<"e4", 1>>, <<"e4", 2>>}
StringsOf(text) ==
    LET room == Len(Utf8(text))
        units == EncodeUtf16(text, room)
    IN  {units \o [i \in 1..room - Len(units) |-> left] : left \in Leftovers}

\* GetStringUTFChars converts the whole array back and ends it one byte after
\* as many bytes as the array has units.
UTFChars(units) ==
    LET out == EncodeUtf8(DecodeUtf16(units), Len(units) + 1)
    IN  SubSeq(out, 1, Len(units))
-----------------------------------------------------------------------------
JavaInit ==
    /\ jstep = [n \in Natives |-> "any"]
    /\ given = [n \in Natives |-> <<>>]
    /\ jstring = [n \in Natives |-> <<>>]
    /\ lastFilePath = [n \in Natives |-> <<>>]
    /\ directories = {}
    /\ files = [n \in Natives |-> 0]
    /\ newest = [n \in Natives |-> <<>>]
    /\ made = [n \in Natives |-> "none"]

NewStringUTF(n) ==
    /\ jstep[n] = "any"
    /\ files[n] < MaxFiles
    /\ \E text \in Texts : \E string \in StringsOf(text) :
           /\ given' = [given EXCEPT ![n] = text]
           /\ jstring' = [jstring EXCEPT ![n] = string]
    /\ jstep' = [jstep EXCEPT ![n] = "file"]
    /\ UNCHANGED <<lastFilePath, directories, files, newest, made>>

\* The File the game gets is the path string itself.
Constructed(n) ==
    /\ jstep[n] = "file"
    /\ files' = [files EXCEPT ![n] = @ + 1]
    /\ newest' = [newest EXCEPT ![n] = given[n]]
    /\ made' = [made EXCEPT ![n] = "none"]
    /\ jstep' = [jstep EXCEPT ![n] = "any"]
    /\ given' = [given EXCEPT ![n] = <<>>]
    /\ jstring' = [jstring EXCEPT ![n] = <<>>]
    /\ UNCHANGED directories

\* snprintf into the buffer.
PathCut(path) == IF Len(path) < PathBytes THEN path ELSE SubSeq(path, 1, PathBytes - 1)

\* NewObject with the constructor's number; the path is cut to the buffer.
FileConstructor(n) ==
    /\ Constructed(n)
    /\ lastFilePath' = IF NewObject(FileInit)
                       THEN [lastFilePath EXCEPT ![n] = PathCut(UTFChars(jstring[n]))]
                       ELSE lastFilePath

\* GetStringUTFChars returns NULL, for want of memory or because the string is
\* NULL, and the path of the File before must not stay behind.
\* Mutant: it stays.
FileConstructorStale(n) == Constructed(n) /\ UNCHANGED lastFilePath
FileConstructorFails(n) ==
    /\ Constructed(n)
    /\ lastFilePath' = [lastFilePath EXCEPT ![n] = <<>>]

\* file_mkpath on the remembered path and a slash: the directories are the
\* prefixes before each slash but a leading one.
Ends(path) == {i \in 2..Len(path) + 1 : i = Len(path) + 1 \/ path[i] = <<Slash, 1>>}
Parents(path, stop) == {SubSeq(path, 1, i - 1) : i \in {e \in Ends(path) : e < stop}}

\* CallBooleanMethod of mkdirs on a File: the thread's newest, or any other that
\* exists, which the code does not tell apart.
Calls(n, file, answer) ==
    /\ jstep[n] = "any"
    /\ \/ file = "newest" /\ files[n] > 0
       \/ file = "other" /\ files[n] > 1
       \/ file = "other" /\ \E o \in Natives \ {n} : files[o] > 0
    /\ made' = IF file = "newest" THEN [made EXCEPT ![n] = answer] ELSE made
    /\ UNCHANGED <<jstep, given, jstring, lastFilePath, files, newest>>

\* A directory that exists is as good as made; any other failure of mkdir keeps
\* the shorter ones, which are made first.
Mkdirs(n, file) ==
    /\ Dispatches("boolean", MkdirsId)
    /\ lastFilePath[n] # <<>>
    /\ LET path == lastFilePath[n]
           behind == Len(path) + 2
       IN  \E stop \in Ends(path) \cup {behind} :
               /\ directories' = directories \cup Parents(path, stop)
               /\ Calls(n, file, IF stop = behind THEN "true" ELSE "false")

\* Without a path, or through a table that lacks the number, nothing happens.
MkdirsRefused(n, file) ==
    /\ ~Dispatches("boolean", MkdirsId) \/ lastFilePath[n] = <<>>
    /\ Calls(n, file, "false")
    /\ UNCHANGED directories

JavaNext ==
    \E n \in Natives :
        \/ NewStringUTF(n) \/ FileConstructor(n) \/ FileConstructorFails(n)
        \/ \E file \in {"newest", "other"} : Mkdirs(n, file) \/ MkdirsRefused(n, file)

JavaSpec == JavaInit /\ [][JavaNext]_javaVars
-----------------------------------------------------------------------------
JavaTypeOK ==
    /\ jstep \in [Natives -> {"any", "file"}]
    /\ made \in [Natives -> {"none", "true", "false"}]
    /\ \A n \in Natives : Len(lastFilePath[n]) < PathBytes /\ files[n] <= MaxFiles

(* java.c 38-52 and 85-96: when mkdirs reports success for the File that the    *)
(* thread has constructed last, the directory that exists is the one whose     *)
(* name it passed to the constructor, byte for byte, whatever this and other   *)
(* threads constructed before, whatever the unused end of the string holds,    *)
(* and also when a constructor could not read its path, as long as the name    *)
(* fits the buffer.  On any other File, one of another thread or one that is   *)
(* not the last, mkdirs makes the directory of the calling thread's last File  *)
(* instead: the property does not speak of those.                              *)
MkdirsMakesItsFile ==
    \A n \in Natives :
        LET path == Utf8(newest[n])
        IN  made[n] = "true" /\ Len(path) < PathBytes => path \in directories
=============================================================================
