-------------------------------- MODULE Loader --------------------------------
(* The start of the engine: soloader_init_all() (src/source/utils/init.c) loads *)
(* libnative.so with src/lib/so_util, relocates it, gives it the imports of the *)
(* table in dynlib.c, patches it (patch.c), flushes the instruction cache and   *)
(* runs its constructors; main.c then looks up the entry points.  All of it     *)
(* runs on the main thread; what varies is the file and what fails.             *)
EXTENDS Naturals, Sequences, FiniteSets

CONSTANTS
    Images,         \* the ELF files that may be found at btd5_so_path()
    ImportTable,    \* default_dynlib: a sequence of [symbol, func]
    Exports,        \* the names main looks up in the engine
    MaxDataSeg      \* MAX_DATA_SEG

ASSUME LoaderAssumption ==
    /\ MaxDataSeg \in Nat
    /\ \A elf \in Images :
        \* What an ELF file holds; one executable segment at most (so_util.c
        \* 132-134).
        /\ elf.segments \in Seq({"rx", "rw"})
        /\ \A r \in elf.relocs : r.plus \in Nat /\ elf.symbols[r.symbol].value \in Nat
        /\ Cardinality({i \in DOMAIN elf.segments : elf.segments[i] = "rx"}) <= 1

VARIABLES
    lstep,          \* where soloader_init_all() stands
    elf,            \* the file
    segment,        \* the next program header
    blocks,         \* the memory blocks in use
    loadResult,     \* the sign of what so_file_load() returns
    exidx,          \* mod->exidx_base and exidx_count are set
    words,          \* the words that relocations are about
    literals,       \* the kuser helpers that the code calls by address
    hooks,          \* the functions and call sites that lead to the loader
    unflushed,      \* code was written that the instruction cache has not seen
    exports         \* the entry points found so far

loaderVars == <<lstep, elf, segment, blocks, loadResult, exidx, words, literals, hooks,
                unflushed, exports>>

Required == {"dynamic", "dynstr", "dynsym", "reldyn", "relplt"}
Sites == {"engine", "inner", "frameDebt"}
File == <<"so", 0>>
Patch == <<"patch", 0>>
Text == <<"text", 0>>
DataBlocks == {"data"} \X (1..MaxDataSeg)
DataLoaded == Cardinality(blocks \cap DataBlocks)

Defined(r) == elf.symbols[r.symbol].defined
Address(r) == [base |-> "image", plus |-> elf.symbols[r.symbol].value]

LoaderInit ==
    /\ lstep = "file"
    /\ elf \in Images
    /\ segment = 1
    /\ blocks = {}
    /\ loadResult = "none"
    /\ exidx = FALSE
    /\ words = [r \in elf.relocs |-> [base |-> "file", plus |-> r.plus]]
    /\ literals = elf.literals
    /\ hooks = {}
    /\ unflushed = FALSE
    /\ exports = {}
-----------------------------------------------------------------------------
\* The file is missing, or there is no memory for it.
FileOpenFails ==
    /\ lstep = "file"
    /\ lstep' = "loaded"
    /\ loadResult' = "negative"
    /\ UNCHANGED <<elf, segment, blocks, exidx, words, literals, hooks, unflushed, exports>>

\* err_free_data and the labels after it: every block of the module is given
\* back, and `res` is returned as it happens to be.
Abandon(res) ==
    /\ lstep' = "loaded"
    /\ blocks' = {}
    /\ loadResult' = res
    /\ UNCHANGED <<elf, segment, exidx, words, literals, hooks, unflushed, exports>>

\* The file is in its block; its magic is wrong, or there is no patch block.
HeaderFails ==
    /\ lstep = "file"
    /\ Abandon("negative")

Header ==
    /\ lstep = "file"
    /\ elf.magic
    /\ lstep' = "segments"
    /\ blocks' = {File, Patch}
    /\ loadResult' = "positive"         \* res is the block's id from here on
    /\ UNCHANGED <<elf, segment, exidx, words, literals, hooks, unflushed, exports>>

More == lstep = "segments" /\ segment <= Len(elf.segments)

\* A PT_LOAD segment gets a block of its own at load_addr + its page.
LoadSegment(b) ==
    /\ blocks' = blocks \cup {b}
    /\ segment' = segment + 1
    /\ loadResult' = "positive"
    /\ unflushed' = (unflushed \/ b = Text)
    /\ UNCHANGED <<lstep, elf, exidx, words, literals, hooks, exports>>

LoadCode == More /\ elf.segments[segment] = "rx" /\ LoadSegment(Text)

LoadData ==
    /\ More
    /\ elf.segments[segment] = "rw"
    /\ DataLoaded < MaxDataSeg
    /\ LoadSegment(<<"data", DataLoaded + 1>>)

\* More data segments than data_blockid[] has room for: res still holds the id
\* of the block allocated last.
TooManyData ==
    /\ More
    /\ elf.segments[segment] = "rw"
    /\ DataLoaded = MaxDataSeg
    /\ Abandon(loadResult)

\* No block, or no zeroed copy to fill it with.
SegmentFails == More /\ Abandon("negative")

\* Every segment is in place; the exception index is a program header too.
SegmentsDone ==
    /\ lstep = "segments"
    /\ segment > Len(elf.segments)
    /\ IF Text \in blocks
       THEN /\ lstep' = "sections"
            /\ exidx' = elf.exidx
            /\ UNCHANGED <<elf, segment, blocks, loadResult, words, literals, hooks,
                           unflushed, exports>>
       ELSE Abandon("negative")

FindSections ==
    /\ lstep = "sections"
    /\ IF Required \subseteq elf.sections
       THEN /\ lstep' = "loaded"
            /\ blocks' = blocks \ {File}
            /\ loadResult' = "zero"
            /\ UNCHANGED <<elf, segment, exidx, words, literals, hooks, unflushed, exports>>
       ELSE Abandon("negative")
-----------------------------------------------------------------------------
Proceed(from, to) ==
    /\ lstep = from
    /\ lstep' = to
    /\ UNCHANGED <<elf, segment, blocks, loadResult, exidx, exports>>

\* Only the result, as a start without the second test would look at it.
CheckResultOnly ==
    /\ Proceed("loaded", IF loadResult = "negative" THEN "fatal" ELSE "relocate")
    /\ UNCHANGED <<words, literals, hooks, unflushed>>

CheckLoaded ==
    /\ Proceed("loaded", IF loadResult = "negative" \/ ~exidx THEN "fatal" ELSE "relocate")
    /\ UNCHANGED <<words, literals, hooks, unflushed>>

\* so_relocate() adds the address of the image, in place.
Relocated(r) ==
    CASE r.type = "ABS32" /\ Defined(r) ->
             [base |-> "image", plus |-> words[r].plus + Address(r).plus]
      [] r.type = "RELATIVE" -> [base |-> "image", plus |-> words[r].plus]
      [] r.type \in {"GLOB_DAT", "JUMP_SLOT"} /\ Defined(r) -> Address(r)
      [] OTHER -> words[r]

Relocate ==
    /\ IF \E r \in elf.relocs : r.type \notin {"ABS32", "RELATIVE", "GLOB_DAT", "JUMP_SLOT"}
       THEN Proceed("relocate", "fatal") /\ UNCHANGED words
       ELSE Proceed("relocate", "resolve") /\ words' = [r \in elf.relocs |-> Relocated(r)]
    /\ UNCHANGED <<literals, hooks, unflushed>>

\* The entry of the table that a search from its beginning meets first.
TableEntries(name) == {j \in DOMAIN ImportTable : ImportTable[j].symbol = name}
FirstEntry(name) ==
    ImportTable[CHOOSE j \in TableEntries(name) : \A k \in TableEntries(name) : j <= k].func

\* so_resolve(): the engine is the only module, so that no other can provide a
\* symbol and so_resolve_link() finds nothing.  The table's function replaces
\* the word, and with it the addend that a link to another module would add.
Resolved(r) ==
    LET name == elf.symbols[r.symbol].name
    IN  IF r.type = "RELATIVE" \/ Defined(r) THEN words[r]
        ELSE IF TableEntries(name) # {} THEN [base |-> FirstEntry(name), plus |-> 0]
        ELSE IF r.type = "JUMP_SLOT" THEN [base |-> "plt0_stub", plus |-> 0]
        ELSE words[r]

Resolve ==
    /\ Proceed("resolve", "patch")
    /\ words' = [r \in elf.relocs |-> Resolved(r)]
    /\ UNCHANGED <<literals, hooks, unflushed>>

\* hook_addr(): the first words of a function become a jump; the cache is not
\* flushed.  The functions that are hooked lie at multiples of four, so that
\* hook_thumb() overwrites no half-word that it does not keep.
HookAddr(functions) ==
    /\ hooks' = hooks \cup functions
    /\ unflushed' = (unflushed \/ functions # {})

\* A build with DEBUG_SOLOADER marks the stages of a tick.
StageHooks == {"update", "postFrame", "present", "renderCore", "renderOverlay"}

\* Version 3.37 calls Linux's kuser helpers by address; every literal becomes
\* the address of the loader's function, in the code.
PatchKuserHelpers ==
    /\ literals' = {}
    /\ unflushed' = (unflushed \/ literals # {})
    /\ UNCHANGED hooks

\* so_patch() calls patch_kuser_helpers() and then install_version_337_hooks().
PatchOld ==
    /\ Proceed("patch", "hook")
    /\ elf.version = 337
    /\ PatchKuserHelpers
    /\ UNCHANGED words

InstallHooks ==
    /\ Proceed("hook", "flush")
    /\ \E debug \in BOOLEAN : HookAddr(IF debug THEN StageHooks ELSE {})
    /\ UNCHANGED <<words, literals>>

\* The sites of version 4.7 that are led to a bridge: with a log the profiler's
\* two, the inner one only after the outer one, and the frame clamp; each where
\* the bytes are the known ones, and flushed at once.
ProfilerBridges(logging) ==
    IF logging /\ "engine" \in elf.sites THEN {"engine", "inner"} \cap elf.sites ELSE {}
ClampBridge == {"frameDebt"} \cap elf.sites

PatchNew ==
    /\ Proceed("patch", "flush")
    /\ elf.version = 47
    /\ \E logging \in BOOLEAN : hooks' = ProfilerBridges(logging) \cup ClampBridge
    /\ UNCHANGED <<words, literals, unflushed>>

FlushCaches ==
    /\ Proceed("flush", "bridge")
    /\ unflushed' = FALSE
    /\ UNCHANGED <<words, literals, hooks>>

BridgeInit ==
    /\ \E bridged \in BOOLEAN : Proceed("bridge", IF bridged THEN "constructors" ELSE "fatal")
    /\ UNCHANGED <<words, literals, hooks, unflushed>>
-----------------------------------------------------------------------------
\* A constructor, or the engine later, calls through the table: a slot that
\* leads to plt0_stub() ends in reloc_err().
CallSlot(r) ==
    /\ lstep \in {"constructors", "running"}
    /\ r.type = "JUMP_SLOT"
    /\ words[r].base = "plt0_stub"
    /\ lstep' = "fatal"
    /\ UNCHANGED <<elf, segment, blocks, loadResult, exidx, words, literals, hooks,
                   unflushed, exports>>

\* so_symbol_index(): the hash chain, then the whole table, defined symbols only.
HasSymbol(name) ==
    \E i \in DOMAIN elf.symbols : elf.symbols[i].name = name /\ elf.symbols[i].defined

BindExport(name) ==
    /\ lstep = "constructors"
    /\ name \in Exports \ exports
    /\ exports' = exports \cup {name}
    /\ lstep' = IF ~HasSymbol(name) THEN "fatal"
                ELSE IF exports' = Exports THEN "running"
                ELSE lstep
    /\ UNCHANGED <<elf, segment, blocks, loadResult, exidx, words, literals, hooks, unflushed>>

LoaderNext ==
    \/ FileOpenFails \/ HeaderFails \/ Header \/ LoadCode \/ LoadData \/ TooManyData
    \/ SegmentFails \/ SegmentsDone \/ FindSections
    \/ CheckLoaded \/ Relocate \/ Resolve \/ PatchOld \/ InstallHooks
    \/ PatchNew \/ FlushCaches \/ BridgeInit
    \/ \E r \in elf.relocs : CallSlot(r)
    \/ \E name \in Exports : BindExport(name)

LoaderSpec == LoaderInit /\ [][LoaderNext]_loaderVars
-----------------------------------------------------------------------------
\* What the word of a relocation means to the engine's compiler, if the symbol
\* is one that the engine or the loader has.
HasMeaning(r) ==
    \/ r.type = "RELATIVE" \/ Defined(r)
    \/ TableEntries(elf.symbols[r.symbol].name) # {}

Meaning(r) ==
    LET name == elf.symbols[r.symbol].name
        symbol == IF Defined(r) THEN Address(r) ELSE [base |-> FirstEntry(name), plus |-> 0]
    IN  CASE r.type = "RELATIVE" -> [base |-> "image", plus |-> r.plus]
          [] r.type = "ABS32" -> [symbol EXCEPT !.plus = @ + r.plus]
          [] OTHER -> symbol

\* so_resolve() drops the addend of an ABS32 reference to an import.
AddendDropped(r) == r.type = "ABS32" /\ ~Defined(r)
Loaded(r) == IF AddendDropped(r) THEN [Meaning(r) EXCEPT !.plus = 0] ELSE Meaning(r)

(* so_util.c 110-285, init.c 80-117: nothing of the engine runs before its     *)
(* image is whole: every segment in memory, every word that has a meaning with *)
(* that meaning, but for a reference into the middle of an import, which gets  *)
(* the import's beginning (so_util.c 488); no call of a helper that only Linux *)
(* has, and no instruction that the processor may still read in its old form,  *)
(* whatever file was found and wherever its loading failed.  so_file_load()    *)
(* alone does not promise it: with too many data segments it frees the image   *)
(* and returns a positive number, and only the test of the exception index     *)
(* stops the start.                                                            *)
OnlyWholeImagesRun ==
    lstep \in {"constructors", "running"} =>
        /\ File \notin blocks /\ Text \in blocks
        /\ Cardinality(blocks) = Len(elf.segments) + 1
        /\ \A r \in elf.relocs : HasMeaning(r) => words[r] = Loaded(r)
        /\ elf.version = 337 => literals = {}
        /\ ~unflushed

=============================================================================
