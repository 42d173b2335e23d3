------------------------------- MODULE Logger -------------------------------
(* The loader's log (src/source/utils/logger.c): two static buffers for the   *)
(* line that is being put together, one file, and a mutex that is made when   *)
(* it is first needed.  The session starts before there are other threads.    *)
CONSTANTS
    LogThreads,     \* the threads that log
    LogMain,        \* main(), which starts the session
    NoThread

ASSUME LogAssumption == LogMain \in LogThreads /\ NoThread \notin LogThreads

VARIABLES
    enabled,        \* _log_file_enabled
    mutexReady,     \* _log_mutex_ready
    inLog,          \* the call a thread is in, and its place there
    lockedBy,       \* who has the mutex in _log_mutex
    stranded,       \* threads that wait for one that was there before
    bufferA,        \* whose format buffer_a holds
    bufferB,        \* whose format and whose arguments made buffer_b
    file,           \* _log_file
    put,            \* what went last to the console or the file, and who put it
    sessionLine     \* the session could make the mutex for its first line

logVars == <<enabled, mutexReady, inLog, lockedBy, stranded, bufferA, bufferB, file, put,
             sessionLine>>
bufferVars == <<bufferA, bufferB, file, put>>

Raw == {"session", "raw"}
\* A type that the switch knows, two of which are logged in any package; and one
\* it does not know.
Printed == {"info", "error"}
LogCalls == Raw \cup Printed \cup {"unknown"}

Line(format, args) == [format |-> format, args |-> args]
NoLine == Line(NoThread, NoThread)
Away == [call |-> "none", place |-> "idle"]

LogTypeOK ==
    LET someone == LogThreads \cup {NoThread}
        lines == [format : someone, args : someone]
    IN  /\ {enabled, mutexReady, sessionLine} \subseteq BOOLEAN
        /\ inLog \in [LogThreads -> [call : LogCalls \cup {"none"},
                          place : {"off", "boot", "idle", "test", "create", "publish", "lock",
                                   "waits", "format", "compose", "print", "write", "unlock"}]]
        /\ lockedBy \in someone /\ stranded \subseteq LogThreads
        /\ bufferA \in someone /\ bufferB \in lines
        /\ file \in {"unopened", "open", "failed"}
        /\ put \in [by : someone, line : lines]

LogInit ==
    /\ enabled = FALSE /\ mutexReady = FALSE
    /\ inLog = [n \in LogThreads |-> [call |-> "none",
                                      place |-> IF n = LogMain THEN "boot" ELSE "off"]]
    /\ lockedBy = NoThread /\ stranded = {}
    /\ bufferA = NoThread /\ bufferB = NoLine
    /\ file = "unopened"
    /\ put = [by |-> NoThread, line |-> NoLine]
    /\ sessionLine = FALSE

Stands(n, place) == inLog[n].place = place
Calling(n) == inLog[n].call
Moves(n, place) == inLog' = [inLog EXCEPT ![n].place = place]

\* The call returns; the other threads start after main()'s first line.
Leaves(n) ==
    inLog' = IF Calling(n) = "session" THEN [m \in LogThreads |-> Away]
             ELSE [inLog EXCEPT ![n] = Away]
-----------------------------------------------------------------------------
\* log_start_session(): the package decides, the old files are removed.
StartSession ==
    /\ Stands(LogMain, "boot")
    /\ enabled' \in BOOLEAN
    /\ inLog' = IF enabled' THEN [inLog EXCEPT ![LogMain] = [call |-> "session",
                                                             place |-> "test"]]
                ELSE [n \in LogThreads |-> Away]
    /\ UNCHANGED <<mutexReady, lockedBy, stranded, bufferVars, sessionLine>>

\* log_write_raw() and _log_print(); errors are printed without a file, too.
BeginCall(n, call) ==
    /\ inLog[n] = Away
    /\ enabled \/ call = "error"
    /\ inLog' = [inLog EXCEPT ![n] = [call |-> call, place |-> "test"]]
    /\ UNCHANGED <<enabled, mutexReady, lockedBy, stranded, bufferVars, sessionLine>>

log_write_raw(n) == BeginCall(n, "raw")
log_print(n, call) == BeginCall(n, call)

TestReady(n) ==
    /\ Stands(n, "test")
    /\ Moves(n, IF mutexReady THEN "lock" ELSE "create")
    /\ UNCHANGED <<enabled, mutexReady, lockedBy, stranded, bufferVars, sessionLine>>

\* A second thread that found no mutex makes another one in the same place:
\* whoever waits for the first waits for one that nobody can unlock any more.
CreateMutex(n) ==
    /\ Stands(n, "create")
    /\ lockedBy' = NoThread
    /\ stranded' = stranded \cup {m \in LogThreads : Stands(m, "waits")}
    /\ Moves(n, "publish")
    /\ UNCHANGED <<enabled, mutexReady, bufferVars, sessionLine>>

\* The line is dropped.
CreateFails(n) ==
    /\ Stands(n, "create")
    /\ Leaves(n)
    /\ UNCHANGED <<enabled, mutexReady, lockedBy, stranded, bufferVars, sessionLine>>

\* Mutant: the mutex is not announced.
KeepMutex(n) ==
    /\ Stands(n, "publish")
    /\ sessionLine' = (sessionLine \/ Calling(n) = "session")
    /\ Moves(n, "lock")
    /\ UNCHANGED <<enabled, mutexReady, lockedBy, stranded, bufferVars>>

PublishMutex(n) ==
    /\ Stands(n, "publish")
    /\ mutexReady' = TRUE
    /\ sessionLine' = (sessionLine \/ Calling(n) = "session")
    /\ Moves(n, "lock")
    /\ UNCHANGED <<enabled, lockedBy, stranded, bufferVars>>

Lock(n) ==
    /\ Stands(n, "lock") \/ Stands(n, "waits")
    /\ lockedBy = NoThread /\ n \notin stranded
    /\ lockedBy' = n
    /\ Moves(n, CASE Calling(n) \in Printed -> "format"
                 [] Calling(n) \in Raw -> "write"
                 [] OTHER -> "unlock")
    /\ UNCHANGED <<enabled, mutexReady, stranded, bufferVars, sessionLine>>

WaitForLock(n) ==
    /\ Stands(n, "lock") /\ lockedBy # NoThread
    /\ Moves(n, "waits")
    /\ UNCHANGED <<enabled, mutexReady, lockedBy, stranded, bufferVars, sessionLine>>
-----------------------------------------------------------------------------
\* The format gets its prefix in buffer_a, ...
FormatLine(n) ==
    /\ Stands(n, "format")
    /\ bufferA' = n
    /\ Moves(n, "compose")
    /\ UNCHANGED <<enabled, mutexReady, lockedBy, stranded, bufferB, file, put, sessionLine>>

\* ... and with the arguments becomes the line in buffer_b.
ComposeLine(n) ==
    /\ Stands(n, "compose")
    /\ bufferB' = Line(bufferA, n)
    /\ Moves(n, "print")
    /\ UNCHANGED <<enabled, mutexReady, lockedBy, stranded, bufferA, file, put, sessionLine>>

PrintLine(n) ==
    /\ Stands(n, "print")
    /\ put' = [by |-> n, line |-> bufferB]
    /\ Moves(n, "write")
    /\ UNCHANGED <<enabled, mutexReady, lockedBy, stranded, bufferA, bufferB, file, sessionLine>>

\* log_file_write_unlocked(): a file that cannot be opened is not tried again.
WriteLine(n) ==
    /\ Stands(n, "write")
    /\ file' \in IF enabled /\ file = "unopened" THEN {"open", "failed"} ELSE {file}
    /\ put' = IF enabled /\ file' = "open"
              THEN [by |-> n, line |-> IF Calling(n) \in Raw THEN Line(n, n) ELSE bufferB]
              ELSE put
    /\ Moves(n, "unlock")
    /\ UNCHANGED <<enabled, mutexReady, lockedBy, stranded, bufferA, bufferB, sessionLine>>

\* Only the owner's unlock does anything; its result is not looked at.
Unlock(n) ==
    /\ Stands(n, "unlock")
    /\ lockedBy' = IF lockedBy = n THEN NoThread ELSE lockedBy
    /\ Leaves(n)
    /\ UNCHANGED <<enabled, mutexReady, stranded, bufferVars, sessionLine>>

LogStep(n) ==
    \/ log_write_raw(n) \/ \E call \in Printed \cup {"unknown"} : log_print(n, call)
    \/ TestReady(n) \/ CreateMutex(n) \/ CreateFails(n) \/ PublishMutex(n)
    \/ Lock(n) \/ WaitForLock(n)
    \/ FormatLine(n) \/ ComposeLine(n) \/ PrintLine(n) \/ WriteLine(n) \/ Unlock(n)

LogNext == StartSession \/ \E n \in LogThreads : LogStep(n)

LogSpec == LogInit /\ [][LogNext]_logVars
-----------------------------------------------------------------------------
Inside(n) == inLog[n].place \in {"format", "compose", "print", "write", "unlock"}

(* logger.c 71-178: when the session could make the mutex for its first line,  *)
(* every line that is put to the console or the file has its format and its    *)
(* arguments from the thread that puts it, whatever others log meanwhile; no   *)
(* thread waits for a mutex that was replaced, and nobody keeps it after its   *)
(* line.  (In a package without a log, or after that creation failed, the      *)
(* first lines of two threads may do each of these.)                           *)
OneLineAtATime ==
    sessionLine =>
        /\ put.line = Line(put.by, put.by)
        /\ stranded = {}
        /\ \A n \in LogThreads : lockedBy = n => Inside(n)
=============================================================================
