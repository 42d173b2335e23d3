------------------------------- MODULE MCEngine -------------------------------
(* What lies under the Android engine: the loader that makes its image, the    *)
(* bridges at the patched call sites, the profiler behind them, the strings of *)
(* the fake Java side, the loader's log, the way it reads the engine's memory, *)
(* and the mutexes and conditions.  They share no state and none waits for     *)
(* another, so a behaviour is one of a single part.                            *)
EXTENDS Loader, CallsiteBridge, PhaseProbe, JavaStrings, Logger, NativeReads, PthrBridge, TLC

VARIABLE part        \* which of them a behaviour is about

\* A symbol of the engine, one the table has once and one it has twice, one that
\* nobody has, the entry point, and a vtable that type_infos refer to with an
\* addend of eight; each kind of relocation against them.
TheSymbols == <<[name |-> "own", defined |-> TRUE, value |-> 8],
                [name |-> "open", defined |-> FALSE, value |-> 0],
                [name |-> "iswdigit", defined |-> FALSE, value |-> 0],
                [name |-> "absent", defined |-> FALSE, value |-> 0],
                [name |-> "nativeTick", defined |-> TRUE, value |-> 16],
                [name |-> "si_class_type_info", defined |-> FALSE, value |-> 0]>>
TheTable == <<[symbol |-> "open", func |-> "open_soloader"],
              [symbol |-> "iswdigit", func |-> "iswdigit"],
              [symbol |-> "iswdigit", func |-> "iswdigit again"],
              [symbol |-> "si_class_type_info", func |-> "si_class_type_info"]>>
Reloc(type, symbol, plus) == [type |-> type, symbol |-> symbol, plus |-> plus]
TheRelocs == {Reloc("ABS32", 1, 4), Reloc("ABS32", 2, 0), Reloc("RELATIVE", 1, 12),
              Reloc("ABS32", 6, 8)}
                 \cup {Reloc(t, s, 0) : t \in {"GLOB_DAT", "JUMP_SLOT"}, s \in {1, 3, 4}}

\* Whole images, and ones without code, with too many data segments, without a
\* section, without an exception index, with a relocation the loader lacks.
Image(segments, missing, magic, unwind, more, version) ==
    [segments |-> segments, sections |-> Required \ missing, magic |-> magic,
     exidx |-> unwind, relocs |-> TheRelocs \cup more, version |-> version,
     symbols |-> TheSymbols,
     literals |-> IF version = 337 THEN {"cmpxchg", "barrier"} ELSE {},
     sites |-> IF version = 47 THEN Sites ELSE {}]
TheImages ==
    {Image(segments, missing, magic, e, more, version) :
         segments \in {<<"rx", "rw">>, <<"rw", "rx", "rw">>, <<"rx", "rw", "rw", "rw">>,
                       <<"rw">>},
         missing \in {{}, {"relplt"}}, magic \in BOOLEAN, e \in BOOLEAN,
         more \in {{}, {Reloc("COPY", 1, 0)}}, version \in {337, 47}}

\* Negative, zero, and on either side of OneFrame and OneSecond.
TheDeltas == -1..6

\* Code, a heap behind the data, a block of the system's near the last address;
\* the engine has one segment more than the loader keeps.
TheExec == Segment(8, 8)
TheData == <<Segment(20, 3), Segment(26, 6), Segment(0, 0)>>
TheOthers == {Segment(52, 12)}

EngineInit ==
    /\ part \in {"loader", "bridges", "probe", "strings", "log", "reads", "mutexes"}
    /\ LoaderInit /\ (part # "loader" => elf = CHOOSE i \in Images : TRUE)
    /\ CallsiteInit /\ (part # "bridges" => site = "engine" /\ ~sampling /\ delta = 0)
    /\ ReadsInit /\ (part # "reads" => heapEnd = HeapBase)
    /\ Init /\ (part # "mutexes" => usable = {})
    /\ ProbeInit /\ StringsInit /\ LogInit

\* The parts whose turn it never is stay as they began.
Keep(name, state) == IF part = name THEN TRUE ELSE UNCHANGED state

EngineNext ==
    /\ UNCHANGED part
    /\ Keep("loader", loaderVars) /\ Keep("bridges", bridgeVars)
    /\ Keep("probe", probeVars) /\ Keep("strings", stringVars)
    /\ Keep("log", logVars) /\ Keep("reads", readVars)
    /\ Keep("mutexes", vars)
    /\ \/ part = "loader" /\ LoaderNext
       \/ part = "bridges" /\ CallsiteNext
       \/ part = "probe" /\ ProbeNext
       \/ part = "strings" /\ StringsNext
       \/ part = "log" /\ LogNext
       \/ part = "reads" /\ ReadsNext
       \/ part = "mutexes" /\ Next

EngineSpec ==
    EngineInit
        /\ [][EngineNext]_<<part, loaderVars, bridgeVars, probeVars, stringVars, logVars, readVars,
                         vars>>

Symmetric ==
    Permutations(Threads) \cup Permutations(Mutexes) \cup Permutations(Reals)
=============================================================================
