----------------------------- MODULE EngineProofs -----------------------------
(***************************************************************************)
(* Proofs about what lies under the engine: the loader, the bridges at the *)
(* patched call sites, the profiler behind them, the strings of the fake   *)
(* Java side, the loader's log and its reads of the engine's memory; and   *)
(* about their union, with the mutexes and conditions of PthrProofs.       *)
(***************************************************************************)
EXTENDS MCEngine, PthrProofs, SequenceTheorems

\* The data blocks 1 to d.
DataUpTo(d) == {"data"} \X (1..d)

\* There are d of them.
LEMMA DataCounts ==
    ASSUME NEW d \in Nat
    PROVE  IsFiniteSet(DataUpTo(d)) /\ Cardinality(DataUpTo(d)) = d
<1>1. IsFiniteSet(1..d) /\ Cardinality(1..d) = d
  BY FS_Interval
<1>2. IsFiniteSet({"data"}) /\ Cardinality({"data"}) = 1
  BY FS_Singleton
<1>3. Cardinality(DataUpTo(d)) = 1 * d /\ IsFiniteSet(DataUpTo(d))
  BY <1>1, <1>2, FS_Product DEF DataUpTo
<1>4. QED
  BY <1>3

\* The next one has the next number.
LEMMA NextData ==
    ASSUME NEW d \in Nat
    PROVE  DataUpTo(d) \cup {<<"data", d + 1>>} = DataUpTo(d + 1)
<1>1. 1..(d + 1) = (1..d) \cup {d + 1}
  OBVIOUS
<1>2. QED
  BY <1>1 DEF DataUpTo

\* The file, the patch block and the code are none of them.
LEMMA BlocksApart ==
    ASSUME NEW d \in Nat
    PROVE  /\ File \notin DataUpTo(d) /\ Patch \notin DataUpTo(d) /\ Text \notin DataUpTo(d)
           /\ File # Text /\ File # Patch /\ Patch # Text
BY DEF DataUpTo, File, Patch, Text

\* An image of d data segments has d + 2 blocks.
LEMMA ImageCounts ==
    ASSUME NEW d \in Nat
    PROVE  Cardinality({Patch, Text} \cup DataUpTo(d)) = d + 2
<1>1. IsFiniteSet(DataUpTo(d) \cup {Patch}) /\ Cardinality(DataUpTo(d) \cup {Patch}) = d + 1
  BY DataCounts, BlocksApart, FS_AddElement
<1>2. Text \notin DataUpTo(d) \cup {Patch}
  BY BlocksApart
<1>3. Cardinality((DataUpTo(d) \cup {Patch}) \cup {Text}) = (d + 1) + 1
  BY <1>1, <1>2, FS_AddElement
<1>4. {Patch, Text} \cup DataUpTo(d) = (DataUpTo(d) \cup {Patch}) \cup {Text}
  OBVIOUS
<1>5. QED
  BY <1>3, <1>4

\* An image has one executable segment at most.
LEMMA OneCodeSegment ==
    ASSUME NEW image \in Images, NEW i \in DOMAIN image.segments, NEW j \in DOMAIN image.segments,
           image.segments[i] = "rx", image.segments[j] = "rx"
    PROVE  i = j
<1> DEFINE S == {k \in DOMAIN image.segments : image.segments[k] = "rx"}
<1>1. DOMAIN image.segments = 1..Len(image.segments) /\ Len(image.segments) \in Nat
  BY LoaderAssumption
<1>2. IsFiniteSet(1..Len(image.segments))
  BY <1>1, FS_Interval
<1>3. IsFiniteSet(S)
  BY <1>1, <1>2, FS_Subset
<1>4. Cardinality(S) <= 1
  BY LoaderAssumption
<1>5. SUFFICES ASSUME i # j PROVE FALSE
  OBVIOUS
<1>6. Cardinality({i} \cup {j}) = 2
  <2>1. IsFiniteSet({i}) /\ Cardinality({i}) = 1 /\ j \notin {i}
    BY <1>5, FS_Singleton
  <2>2. Cardinality({i} \cup {j}) = 1 + 1
    BY <2>1, FS_AddElement
  <2>3. QED
    BY <2>2
<1>7. {i} \cup {j} \subseteq S
  OBVIOUS
<1>8. Cardinality({i} \cup {j}) <= Cardinality(S) /\ Cardinality(S) \in Nat
  BY <1>3, <1>7, FS_Subset, FS_CardinalityType
<1>9. QED
  BY <1>4, <1>6, <1>8

\* While segments are loaded: the data blocks are numbered without a gap, and
\* every block but the file's and the patch's is one of the segments behind.
Loading ==
    /\ File \in blocks /\ Patch \in blocks
    /\ \E d \in 0..MaxDataSeg :
          /\ blocks = {File, Patch} \cup (blocks \cap {Text}) \cup DataUpTo(d)
          /\ Text \notin blocks => segment = d + 1
          /\ Text \in blocks => segment = d + 2
    /\ Text \in blocks => \E i \in DOMAIN elf.segments : i < segment /\ elf.segments[i] = "rx"
    /\ segment <= Len(elf.segments) + 1

ImageWhole ==
    \E d \in Nat : Len(elf.segments) = d + 1 /\ blocks = {Patch, Text} \cup DataUpTo(d)

FirstWord(r) == [base |-> "file", plus |-> r.plus]
SecondWord(r) ==
    CASE r.type = "ABS32" /\ Defined(r) ->
             [base |-> "image", plus |-> r.plus + Address(r).plus]
      [] r.type = "RELATIVE" -> [base |-> "image", plus |-> r.plus]
      [] r.type \in {"GLOB_DAT", "JUMP_SLOT"} /\ Defined(r) -> Address(r)
      [] OTHER -> FirstWord(r)
RelocTypes == {"ABS32", "RELATIVE", "GLOB_DAT", "JUMP_SLOT"}

BeforeWords == {"file", "segments", "sections", "loaded", "relocate"}
Running == {"constructors", "running"}
AfterPatch == {"flush", "bridge"} \cup Running
AfterResolve == {"patch", "hook"} \cup AfterPatch
Started == {"relocate", "resolve"} \cup AfterResolve

BlocksInv ==
    /\ elf \in Images
    /\ lstep \in {"file", "segments", "sections", "loaded", "fatal"} \cup Started
    /\ lstep \in {"file", "segments"} => ~exidx /\ segment \in Nat
    /\ lstep = "segments" => Loading
    /\ lstep = "file" => segment = 1
    /\ lstep = "sections" =>
          \E d \in Nat : /\ Len(elf.segments) = d + 1
                         /\ blocks = {File, Patch, Text} \cup DataUpTo(d)
    /\ lstep = "loaded" /\ exidx /\ loadResult # "negative" => ImageWhole
    /\ lstep \in Started => ImageWhole

WordsInv ==
    /\ lstep \in BeforeWords => \A r \in elf.relocs : words[r] = FirstWord(r)
    /\ lstep = "resolve" => \A r \in elf.relocs : words[r] = SecondWord(r) /\ r.type \in RelocTypes
    /\ lstep \in AfterResolve => \A r \in elf.relocs : HasMeaning(r) => words[r] = Loaded(r)

CodeInv ==
    /\ lstep \in {"hook"} \cup AfterPatch => (elf.version = 337 => literals = {})
    /\ lstep \in {"bridge"} \cup Running => ~unflushed

\* The invariant holds before the file is opened.
LEMMA LoaderInitInv == LoaderInit => BlocksInv /\ WordsInv /\ CodeInv
BY DEF LoaderInit, BlocksInv, WordsInv, CodeInv, FirstWord, Started, AfterResolve, AfterPatch, Running, BeforeWords

FileSteps ==
    \/ FileOpenFails \/ HeaderFails \/ Header \/ LoadCode \/ LoadData \/ TooManyData
    \/ SegmentFails \/ SegmentsDone \/ FindSections
CodeSteps ==
    \/ CheckLoaded \/ Relocate \/ Resolve \/ PatchOld \/ InstallHooks
    \/ PatchNew \/ FlushCaches \/ BridgeInit
EngineSteps ==
    \/ \E r \in elf.relocs : CallSlot(r)
    \/ \E name \in Exports : BindExport(name)

\* The program headers are counted from one.
LEMMA LengthOfSegments ==
    ASSUME BlocksInv PROVE Len(elf.segments) \in Nat /\ DOMAIN elf.segments = 1..Len(elf.segments)
BY LoaderAssumption DEF BlocksInv

\* DataLoaded counts the data blocks in use.
LEMMA LoadingCounts ==
    ASSUME Loading, NEW d \in 0..MaxDataSeg,
           blocks = {File, Patch} \cup (blocks \cap {Text}) \cup DataUpTo(d)
    PROVE  DataLoaded = d
<1>1. d \in Nat /\ \A x : x \in DataUpTo(d) => x \in DataBlocks
  BY LoaderAssumption DEF DataUpTo, DataBlocks
<1>2. File \notin DataBlocks /\ Patch \notin DataBlocks /\ Text \notin DataBlocks
  BY DEF DataBlocks, File, Patch, Text
<1>3. blocks \cap DataBlocks = DataUpTo(d)
  BY <1>1, <1>2
<1>4. QED
  BY <1>1, <1>3, DataCounts DEF DataLoaded

\* so_file_load() either leaves a whole image or reports that it does not.
LEMMA FileKeepsBlocks == ASSUME BlocksInv, FileSteps PROVE BlocksInv'
<1> USE DEF Started, AfterResolve, AfterPatch, Running
<1>0. elf \in Images /\ elf' = elf /\ Len(elf.segments) \in Nat
        /\ DOMAIN elf.segments = 1..Len(elf.segments)
  BY LengthOfSegments DEF BlocksInv, FileSteps, FileOpenFails, HeaderFails, Header, LoadCode, LoadData,
    TooManyData, SegmentFails, SegmentsDone, FindSections, Abandon, LoadSegment
<1>1. ASSUME lstep' = "loaded", exidx' => loadResult' = "negative"
      PROVE  BlocksInv'
  BY <1>0, <1>1 DEF BlocksInv
<1>2. CASE FileOpenFails \/ HeaderFails \/ SegmentFails
  BY <1>1, <1>2 DEF FileOpenFails, HeaderFails, SegmentFails, Abandon
<1>3. CASE TooManyData
  <2>1. lstep' = "loaded" /\ UNCHANGED exidx /\ lstep = "segments"
    BY <1>3 DEF TooManyData, Abandon, More
  <2>2. ~exidx
    BY <2>1 DEF BlocksInv
  <2>3. QED
    BY <1>1, <2>1, <2>2
<1>4. CASE Header
  <2>1. /\ lstep = "file" /\ lstep' = "segments" /\ blocks' = {File, Patch}
        /\ UNCHANGED <<segment, exidx>>
    BY <1>4 DEF Header
  <2>2. segment = 1 /\ ~exidx
    BY <2>1 DEF BlocksInv
  <2>3. DataUpTo(0) = {}
    BY DEF DataUpTo
  <2>4. 0 \in 0..MaxDataSeg /\ Text \notin blocks'
    BY <2>1, LoaderAssumption DEF File, Patch, Text
  <2>5. Loading'
    BY <1>0, <2>1, <2>2, <2>3, <2>4 DEF Loading
  <2>6. QED
    BY <1>0, <2>1, <2>2, <2>5 DEF BlocksInv
<1>5. ASSUME NEW b, More, LoadSegment(b), Loading'
      PROVE  BlocksInv'
  <2>1. lstep' = "segments" /\ segment' = segment + 1 /\ UNCHANGED exidx /\ lstep = "segments"
    BY <1>5 DEF LoadSegment, More
  <2>2. QED
    BY <1>0, <1>5, <2>1 DEF BlocksInv
<1>6. CASE LoadCode
  <2>1. /\ lstep = "segments" /\ segment <= Len(elf.segments) /\ elf.segments[segment] = "rx"
        /\ blocks' = blocks \cup {Text} /\ segment' = segment + 1
    BY <1>6 DEF LoadCode, More, LoadSegment
  <2>2. Loading /\ segment \in Nat
    BY <2>1 DEF BlocksInv
  <2>3. PICK d \in 0..MaxDataSeg :
          /\ blocks = {File, Patch} \cup (blocks \cap {Text}) \cup DataUpTo(d)
          /\ Text \notin blocks => segment = d + 1
          /\ Text \in blocks => segment = d + 2
    BY <2>2 DEF Loading
  <2>4. segment \in DOMAIN elf.segments
    BY <1>0, <2>1, <2>2, <2>3
  <2>5. Text \notin blocks
    <3>1. SUFFICES ASSUME Text \in blocks PROVE FALSE
      OBVIOUS
    <3>2. PICK i \in DOMAIN elf.segments : i < segment /\ elf.segments[i] = "rx"
      BY <2>2, <3>1 DEF Loading
    <3>3. i = segment
      BY <1>0, <2>1, <2>4, <3>2, OneCodeSegment
    <3>4. QED
      BY <1>0, <2>2, <3>2, <3>3
  <2>6. blocks' = {File, Patch} \cup (blocks' \cap {Text}) \cup DataUpTo(d)
    BY <2>1, <2>3
  <2>7. segment' = d + 2 /\ segment' <= Len(elf.segments) + 1 /\ segment < segment'
    BY <1>0, <2>1, <2>2, <2>3, <2>5
  <2>8. Loading'
    BY <1>0, <2>1, <2>2, <2>4, <2>6, <2>7 DEF Loading
  <2>9. QED
    BY <1>5, <1>6, <2>8 DEF LoadCode
<1>7. CASE LoadData
  <2>1. /\ lstep = "segments" /\ segment <= Len(elf.segments) /\ DataLoaded < MaxDataSeg
        /\ blocks' = blocks \cup {<<"data", DataLoaded + 1>>} /\ segment' = segment + 1
    BY <1>7 DEF LoadData, More, LoadSegment
  <2>2. Loading /\ segment \in Nat
    BY <2>1 DEF BlocksInv
  <2>3. PICK d \in 0..MaxDataSeg :
          /\ blocks = {File, Patch} \cup (blocks \cap {Text}) \cup DataUpTo(d)
          /\ Text \notin blocks => segment = d + 1
          /\ Text \in blocks => segment = d + 2
    BY <2>2 DEF Loading
  <2>4. DataLoaded = d /\ d \in Nat
    BY <2>2, <2>3, LoadingCounts, LoaderAssumption
  <2>5. d + 1 \in 0..MaxDataSeg
    BY <2>1, <2>4, LoaderAssumption
  <2>6. Text \in blocks' <=> Text \in blocks
    BY <2>1 DEF Text
  <2>7. blocks' = {File, Patch} \cup (blocks' \cap {Text}) \cup DataUpTo(d + 1)
    BY <2>1, <2>3, <2>4, <2>6, NextData
  <2>8. /\ Text \notin blocks' => segment' = (d + 1) + 1
        /\ Text \in blocks' => segment' = (d + 1) + 2
        /\ segment' <= Len(elf.segments) + 1 /\ segment < segment'
    BY <1>0, <2>1, <2>2, <2>3, <2>4, <2>6
  <2>9. Text \in blocks' => \E i \in DOMAIN elf.segments : i < segment' /\ elf.segments[i] = "rx"
    <3>1. SUFFICES ASSUME Text \in blocks'
                   PROVE  \E i \in DOMAIN elf.segments : i < segment' /\ elf.segments[i] = "rx"
      OBVIOUS
    <3>2. PICK i \in DOMAIN elf.segments : i < segment /\ elf.segments[i] = "rx"
      BY <2>2, <2>6, <3>1 DEF Loading
    <3>3. i < segment'
      BY <1>0, <2>1, <2>2, <3>2
    <3>4. QED
      BY <3>2, <3>3
  <2>10. File \in blocks' /\ Patch \in blocks'
    BY <2>7
  <2>11. Loading'
    BY <1>0, <2>5, <2>7, <2>8, <2>9, <2>10 DEF Loading
  <2>12. QED
    BY <1>5, <1>7, <2>11 DEF LoadData
<1>8. CASE SegmentsDone
  <2>1. CASE Text \in blocks
    <3>1. lstep = "segments" /\ segment > Len(elf.segments) /\ lstep' = "sections" /\ UNCHANGED blocks
      BY <1>8, <2>1 DEF SegmentsDone
    <3>2. Loading /\ segment \in Nat
      BY <3>1 DEF BlocksInv
    <3>3. PICK d \in 0..MaxDataSeg :
            /\ blocks = {File, Patch} \cup (blocks \cap {Text}) \cup DataUpTo(d)
            /\ segment = d + 2
      BY <2>1, <3>2 DEF Loading
    <3>4. segment <= Len(elf.segments) + 1
      BY <3>2 DEF Loading
    <3>5. d \in Nat /\ Len(elf.segments) = d + 1
      BY <1>0, <3>1, <3>3, <3>4, LoaderAssumption
    <3>6. blocks = {File, Patch, Text} \cup DataUpTo(d)
      BY <2>1, <3>3
    <3>7. QED
      BY <1>0, <3>1, <3>5, <3>6 DEF BlocksInv
  <2>2. CASE Text \notin blocks
    BY <1>1, <1>8, <2>2 DEF SegmentsDone, Abandon
  <2>3. QED
    BY <2>1, <2>2
<1>9. CASE FindSections
  <2>1. CASE Required \subseteq elf.sections
    <3>1. lstep = "sections" /\ lstep' = "loaded" /\ blocks' = blocks \ {File}
      BY <1>9, <2>1 DEF FindSections
    <3>2. PICK d \in Nat : /\ Len(elf.segments) = d + 1
                          /\ blocks = {File, Patch, Text} \cup DataUpTo(d)
      BY <3>1 DEF BlocksInv
    <3>3. blocks' = {Patch, Text} \cup DataUpTo(d)
      BY <3>1, <3>2, BlocksApart
    <3>4. ImageWhole'
      BY <1>0, <3>2, <3>3 DEF ImageWhole
    <3>5. QED
      BY <1>0, <3>1, <3>4 DEF BlocksInv
  <2>2. CASE ~(Required \subseteq elf.sections)
    BY <1>1, <1>9, <2>2 DEF FindSections, Abandon
  <2>3. QED
    BY <2>1, <2>2
<1>10. QED
  BY <1>2, <1>3, <1>4, <1>6, <1>7, <1>8, <1>9 DEF FileSteps

\* Nothing later touches the blocks, and nothing but the check lets a start go on.
LEMMA OthersKeepBlocks == ASSUME BlocksInv, CodeSteps \/ EngineSteps PROVE BlocksInv'
<1>1. UNCHANGED <<elf, blocks>>
  BY DEF CodeSteps, EngineSteps, CheckLoaded, Relocate, Resolve, PatchOld, InstallHooks, PatchNew,
    FlushCaches, BridgeInit, Proceed, CallSlot, BindExport
<1>2. lstep' \in {"fatal"} \cup Started
  BY DEF CodeSteps, EngineSteps, CheckLoaded, Relocate, Resolve, PatchOld, InstallHooks, PatchNew,
    FlushCaches, BridgeInit, Proceed, CallSlot, BindExport, Started, AfterResolve, AfterPatch, Running
<1>3. lstep' \in Started => ImageWhole
  <2>1. CASE CheckLoaded
    BY <2>1 DEF CheckLoaded, Proceed, BlocksInv, Started, AfterResolve, AfterPatch, Running
  <2>2. CASE lstep \in Started
    BY <2>2 DEF BlocksInv
  <2>3. CheckLoaded \/ lstep \in Started
    BY DEF CodeSteps, EngineSteps, Relocate, Resolve, PatchOld, InstallHooks, PatchNew,
      FlushCaches, BridgeInit, Proceed, CallSlot, BindExport, Started, AfterResolve, AfterPatch, Running
  <2>4. QED
    BY <2>1, <2>2, <2>3
<1>4. QED
  BY <1>1, <1>2, <1>3 DEF BlocksInv, ImageWhole, Started, AfterResolve, AfterPatch, Running

\* Two passes over the relocations give every word its meaning.
LEMMA WordsKeep ==
    ASSUME BlocksInv, WordsInv, FileSteps \/ CodeSteps \/ EngineSteps PROVE WordsInv'
<1> USE DEF Started, AfterResolve, AfterPatch, Running, BeforeWords
<1>0. UNCHANGED elf /\ elf \in Images
  BY DEF FileSteps, FileOpenFails, HeaderFails, Header, LoadCode, LoadData, TooManyData,
    SegmentFails, SegmentsDone, FindSections, Abandon, LoadSegment, CodeSteps, EngineSteps,
    CheckLoaded, Relocate, Resolve, PatchOld, InstallHooks, PatchNew, FlushCaches, BridgeInit,
    Proceed, CallSlot, BindExport, BlocksInv
<1>1. CASE FileSteps \/ CheckLoaded
  <2>1. UNCHANGED words /\ lstep \in BeforeWords /\ lstep' \in BeforeWords \cup {"fatal"}
    BY <1>1 DEF FileSteps, FileOpenFails, HeaderFails, Header, LoadCode, LoadData, TooManyData,
      SegmentFails, SegmentsDone, FindSections, Abandon, LoadSegment, More, CheckLoaded, Proceed
  <2>2. QED
    BY <1>0, <2>1 DEF WordsInv, FirstWord
<1>2. CASE Relocate
  <2>1. CASE \E r \in elf.relocs : r.type \notin RelocTypes
    BY <1>2, <2>1 DEF Relocate, Proceed, WordsInv, RelocTypes
  <2>2. CASE \A r \in elf.relocs : r.type \in RelocTypes
    <3>1. lstep = "relocate" /\ lstep' = "resolve" /\ words' = [r \in elf.relocs |-> Relocated(r)]
      BY <1>2, <2>2 DEF Relocate, Proceed, RelocTypes
    <3>2. \A r \in elf.relocs : words[r] = FirstWord(r)
      BY <3>1 DEF WordsInv
    <3>3. \A r \in elf.relocs : words'[r] = SecondWord(r)
      <4> TAKE r \in elf.relocs
      <4>1. words'[r] = Relocated(r) /\ words[r] = FirstWord(r) /\ words[r].plus = r.plus
        BY <3>1, <3>2 DEF FirstWord
      <4>2. CASE r.type = "ABS32" /\ Defined(r)
        BY <4>1, <4>2 DEF Relocated, SecondWord
      <4>3. CASE r.type = "RELATIVE"
        BY <4>1, <4>3 DEF Relocated, SecondWord
      <4>4. CASE r.type \in {"GLOB_DAT", "JUMP_SLOT"} /\ Defined(r)
        BY <4>1, <4>4 DEF Relocated, SecondWord
      <4>5. CASE ~Defined(r) /\ r.type # "RELATIVE"
        BY <4>1, <4>5 DEF Relocated, SecondWord
      <4>6. QED
        BY <2>2, <4>2, <4>3, <4>4, <4>5 DEF RelocTypes
    <3>4. \A r : SecondWord(r)' = SecondWord(r)
      BY <1>0 DEF SecondWord, Defined, Address, FirstWord
    <3>5. QED
      BY <1>0, <2>2, <3>1, <3>3, <3>4 DEF WordsInv
  <2>3. QED
    BY <2>1, <2>2
<1>3. CASE Resolve
  <2>1. lstep = "resolve" /\ lstep' = "patch" /\ words' = [r \in elf.relocs |-> Resolved(r)]
    BY <1>3 DEF Resolve, Proceed
  <2>2. ASSUME NEW r \in elf.relocs, HasMeaning(r) PROVE words'[r] = Loaded(r)
    <3>1. words[r] = SecondWord(r) /\ r.type \in RelocTypes /\ words'[r] = Resolved(r)
      BY <2>1 DEF WordsInv
    <3>2. r.plus \in Nat /\ elf.symbols[r.symbol].value \in Nat
      BY <1>0, LoaderAssumption
    <3>3. CASE r.type = "RELATIVE"
      BY <3>1, <3>3 DEF SecondWord, Resolved, Loaded, AddendDropped, Meaning
    <3>4. CASE r.type = "ABS32" /\ Defined(r)
      BY <3>1, <3>2, <3>4 DEF SecondWord, Resolved, Loaded, AddendDropped, Meaning, Address
    <3>5. CASE r.type \in {"GLOB_DAT", "JUMP_SLOT"} /\ Defined(r)
      BY <3>1, <3>5 DEF SecondWord, Resolved, Loaded, AddendDropped, Meaning
    <3>6. CASE r.type # "RELATIVE" /\ ~Defined(r)
      <4>1. TableEntries(elf.symbols[r.symbol].name) # {}
        BY <2>2, <3>6 DEF HasMeaning
      <4>2. words'[r] = [base |-> FirstEntry(elf.symbols[r.symbol].name), plus |-> 0]
        BY <3>1, <3>6, <4>1 DEF Resolved
      <4> DEFINE name == elf.symbols[r.symbol].name
                 import == [base |-> FirstEntry(name), plus |-> 0]
      <4>3. Loaded(r) = import
        <5>1. CASE r.type = "ABS32"
          <6>1. Meaning(r) = [import EXCEPT !.plus = @ + r.plus]
            BY <3>6, <5>1 DEF Meaning
          <6>2. Loaded(r) = [Meaning(r) EXCEPT !.plus = 0]
            BY <3>6, <5>1 DEF Loaded, AddendDropped
          <6>3. QED
            BY <6>1, <6>2
        <5>2. CASE r.type # "ABS32"
          BY <3>6, <5>2 DEF Loaded, AddendDropped, Meaning
        <5>3. QED
          BY <5>1, <5>2
      <4>4. QED
        BY <4>2, <4>3
    <3>7. QED
      BY <3>1, <3>3, <3>4, <3>5, <3>6 DEF RelocTypes
  <2>3. \A r : HasMeaning(r)' = HasMeaning(r) /\ Loaded(r)' = Loaded(r)
    BY <1>0 DEF HasMeaning, Loaded, AddendDropped, Meaning, Defined, Address, TableEntries, FirstEntry
  <2>4. QED
    BY <1>0, <2>1, <2>2, <2>3 DEF WordsInv
<1>4. CASE PatchOld \/ InstallHooks \/ PatchNew \/ FlushCaches \/ BridgeInit \/ EngineSteps
  <2>1. UNCHANGED words /\ lstep \in AfterResolve /\ lstep' \in AfterResolve \cup {"fatal"}
    BY <1>4 DEF PatchOld, InstallHooks, PatchNew, FlushCaches, BridgeInit, Proceed, EngineSteps,
      CallSlot, BindExport
  <2>2. \A r : HasMeaning(r)' = HasMeaning(r) /\ Loaded(r)' = Loaded(r)
    BY <1>0 DEF HasMeaning, Loaded, AddendDropped, Meaning, Defined, Address, TableEntries, FirstEntry
  <2>3. QED
    BY <1>0, <2>1, <2>2 DEF WordsInv
<1>5. QED
  BY <1>1, <1>2, <1>3, <1>4 DEF CodeSteps

\* Every patch is followed by the flush or needs none.
LEMMA CodeKeeps ==
    ASSUME CodeInv, FileSteps \/ CodeSteps \/ EngineSteps PROVE CodeInv'
<1> USE DEF AfterPatch, Running
<1>1. CASE FileSteps \/ CheckLoaded \/ Relocate \/ Resolve
  <2>1. lstep' \in {"segments", "sections", "loaded", "fatal", "relocate", "resolve", "patch"}
    BY <1>1 DEF FileSteps, FileOpenFails, HeaderFails, Header, LoadCode, LoadData, TooManyData,
      SegmentFails, SegmentsDone, FindSections, Abandon, LoadSegment, More, CheckLoaded, Proceed,
      Relocate, Resolve
  <2>2. QED
    BY <2>1 DEF CodeInv
<1>2. CASE PatchOld
  BY <1>2 DEF PatchOld, PatchKuserHelpers, Proceed, CodeInv
<1>3. CASE InstallHooks
  BY <1>3 DEF InstallHooks, Proceed, CodeInv
<1>4. CASE PatchNew
  BY <1>4 DEF PatchNew, Proceed, CodeInv
<1>5. CASE FlushCaches
  BY <1>5 DEF FlushCaches, Proceed, CodeInv
<1>6. CASE BridgeInit
  BY <1>6 DEF BridgeInit, Proceed, CodeInv
<1>7. CASE EngineSteps
  <2>1. UNCHANGED <<elf, literals, unflushed>> /\ lstep \in Running /\ lstep' \in Running \cup {"fatal"}
    BY <1>7 DEF EngineSteps, CallSlot, BindExport
  <2>2. QED
    BY <2>1 DEF CodeInv
<1>8. QED
  BY <1>1, <1>2, <1>3, <1>4, <1>5, <1>6, <1>7 DEF CodeSteps

(* so_util.c 110-285, init.c 80-117: for every file, table of imports and limit *)
(* of data segments, the engine runs only as a whole image: all segments in     *)
(* memory, every word relocated and resolved to what it means, or to the        *)
(* beginning of the import that it points into, no kuser helper called by       *)
(* address and no code that the instruction cache has not seen.                 *)
THEOREM EngineStartsWhole == LoaderSpec => []OnlyWholeImagesRun
<1> DEFINE Inv == BlocksInv /\ WordsInv /\ CodeInv
<1>1. Inv /\ [LoaderNext]_loaderVars => Inv'
  <2> SUFFICES ASSUME Inv, [LoaderNext]_loaderVars PROVE Inv'
    OBVIOUS
  <2>1. CASE UNCHANGED loaderVars
    <3>1. BlocksInv'
      BY <2>1 DEF loaderVars, BlocksInv, Loading, ImageWhole
    <3>2. WordsInv'
      <4>1. UNCHANGED <<elf, words, lstep>>
        BY <2>1 DEF loaderVars
      <4>2. \A r : SecondWord(r)' = SecondWord(r) /\ FirstWord(r)' = FirstWord(r)
        BY <4>1 DEF SecondWord, Defined, Address, FirstWord
      <4>3. \A r : HasMeaning(r)' = HasMeaning(r) /\ Loaded(r)' = Loaded(r)
        BY <4>1 DEF HasMeaning, Loaded, AddendDropped, Meaning, Defined, Address, TableEntries, FirstEntry
      <4>4. QED
        BY <4>1, <4>2, <4>3 DEF WordsInv
    <3>3. CodeInv'
      BY <2>1 DEF loaderVars, CodeInv
    <3>4. QED
      BY <3>1, <3>2, <3>3
  <2>2. CASE LoaderNext
    <3>1. FileSteps \/ CodeSteps \/ EngineSteps
      BY <2>2 DEF LoaderNext, FileSteps, CodeSteps, EngineSteps
    <3>2. QED
      BY <3>1, FileKeepsBlocks, OthersKeepBlocks, WordsKeep, CodeKeeps
  <2>3. QED
    BY <2>1, <2>2
<1>2. Inv => OnlyWholeImagesRun
  <2> SUFFICES ASSUME Inv, lstep \in Running PROVE OnlyWholeImagesRun
    BY DEF OnlyWholeImagesRun, Running
  <2>1. PICK d \in Nat : Len(elf.segments) = d + 1 /\ blocks = {Patch, Text} \cup DataUpTo(d)
    BY DEF BlocksInv, ImageWhole, Started, AfterResolve, AfterPatch
  <2>2. File \notin blocks /\ Text \in blocks /\ Cardinality(blocks) = Len(elf.segments) + 1
    BY <2>1, BlocksApart, ImageCounts
  <2>3. \A r \in elf.relocs : HasMeaning(r) => words[r] = Loaded(r)
    BY DEF WordsInv, AfterResolve, AfterPatch
  <2>4. (elf.version = 337 => literals = {}) /\ ~unflushed
    BY DEF CodeInv, AfterPatch
  <2>5. QED
    BY <2>2, <2>3, <2>4 DEF OnlyWholeImagesRun
<1>3. QED
  BY <1>1, <1>2, LoaderInitInv, PTL DEF LoaderSpec
-----------------------------------------------------------------------------
\* Append() on a tuple of one.
LEMMA AppendOne ==
    ASSUME NEW x, NEW y
    PROVE  Append(<<x>>, y) = <<x, y>>
<1> DEFINE S == {x, y}
<1>1. <<x>> \in Seq(S) /\ <<x, y>> \in Seq(S) /\ y \in S
  OBVIOUS
<1>2. Append(<<x>>, y) \in Seq(S) /\ Len(Append(<<x>>, y)) = 2
  BY <1>1
<1>3. Append(<<x>>, y)[1] = x /\ Append(<<x>>, y)[2] = y
  BY <1>1
<1> DEFINE s == Append(<<x>>, y)
           t == <<x, y>>
<1>4. t[1] = x /\ t[2] = y /\ Len(t) = 2
  OBVIOUS
<1>5. s \in Seq(S) /\ t \in Seq(S) /\ Len(s) = 2
  BY <1>1, <1>2
<1>6. s[1] = t[1] /\ s[2] = t[2]
  BY <1>3, <1>4
<1> HIDE DEF s, t
<1>7. \A i \in 1..Len(s) : s[i] = t[i]
  <2> TAKE i \in 1..Len(s)
  <2>1. i = 1 \/ i = 2
    BY <1>5
  <2>2. QED
    BY <2>1, <1>6
<1>8. s = t
  BY <1>4, <1>5, <1>7, SeqEqual
<1>9. QED
  BY <1>8 DEF s, t

\* The names of what the sites load.
LEMMA MethodOfR0 == Method(<<"r0">>) = Target
BY AppendOne DEF Method, Target
LEMMA FrameLoads ==
    /\ Append(<<"r4">>, "manager") = <<"r4", "manager">>
    /\ Append(<<"r6">>, "context") = <<"r6", "context">>
    /\ Append(<<"r5">>, "next") = <<"r5", "next">>
BY AppendOne

Bridged == {"engine", "inner"}

\* Where the sampled bridges keep the target while they call the profiler.
KeepsTarget ==
    /\ site = "engine" => regs["r5"] = Target
    /\ site = "inner" => regs["r6"] = Target

\* What the registers and the stack hold at each point of a bridge.
BridgeInv ==
    /\ site \in {"engine", "inner", "frameDebt"} /\ delta \in Int /\ sampling \in BOOLEAN
    /\ cpc \in {"site", "enter", "target", "exit", "continue"}
    /\ DOMAIN regs = Regs /\ regs = [r \in Regs |-> regs[r]]
    /\ cstack = [kept |-> cstack.kept, started |-> cstack.started, result |-> cstack.result]
    /\ cpc \in {"site", "continue"} => sp = 0
    /\ cpc = "site" => regs = AtSite
    /\ cpc \in {"enter", "exit"} => site \in Bridged /\ sampling
    /\ cpc = "target" /\ ~(site \in Bridged /\ sampling) => regs = Original /\ sp = 0
    /\ site \in Bridged /\ sampling /\ cpc \in {"enter", "target", "exit"} =>
          /\ cstack.kept = [r \in Saved |-> <<r>>] /\ sp \in {32, 40}
    /\ cpc = "enter" =>
          /\ KeepsTarget /\ regs["r4"] = <<"r0">> /\ regs["r7"] = <<"r3">>
          /\ site = "engine" => regs["r6"] = <<"r2">>
          /\ site = "inner" => regs["r5"] = <<"r5">>
    /\ cpc = "target" /\ site \in Bridged /\ sampling =>
          /\ KeepsTarget /\ cstack.started = <<"started">>
          /\ \A r \in {"r0", "r1", "r2", "r3"} : regs[r] = Original[r]
    /\ cpc = "exit" =>
          /\ regs["r0"] = <<"started">> /\ regs["r2"] = Target
          /\ site = "inner" => cstack.result = <<"result">>
    /\ cpc = "continue" => GoesOn(regs)
    /\ site = "frameDebt" /\ cpc \in {"target", "continue"} => delta <= OneFrame \/ delta >= OneSecond

\* The engine reaches a site with its own registers.
LEMMA BridgeInitInv == CallsiteInit => BridgeInv
BY ClampAssumption DEF CallsiteInit, BridgeInv, AtSite

\* Each part of a bridge keeps to it.
LEMMA BridgeNextInv == BridgeInv /\ [CallsiteNext]_bridgeVars => BridgeInv'
<1> SUFFICES ASSUME BridgeInv, [CallsiteNext]_bridgeVars
             PROVE  BridgeInv'
  OBVIOUS
<1> USE DEF BridgeInv, KeepsTarget, Bridged, Regs, Saved, AtSite, Original,
             OriginalEngine, OriginalInner, OriginalFrame, GoesOn
<1>1. CASE CallUnsampled
  BY <1>1, MethodOfR0 DEF CallUnsampled
<1>2. CASE EnterSampled
  <2>1. /\ site \in Bridged /\ sampling /\ regs = AtSite
        /\ cstack' = [cstack EXCEPT !.kept = [r \in Saved |-> regs[r]]]
        /\ sp' \in {32, 40} /\ cpc' = "enter" /\ UNCHANGED <<site, sampling, delta>>
    BY <1>2 DEF EnterSampled
  <2>2. cstack'.kept = [r \in Saved |-> <<r>>]
    BY <2>1
  <2>3. CASE site = "engine"
    <3>1. regs' = PushEngine
      BY <1>2, <2>3 DEF EnterSampled
    <3>2. QED
      BY <2>1, <2>2, <2>3, <3>1, MethodOfR0 DEF PushEngine
  <2>4. CASE site = "inner"
    <3>1. regs' = PushInner
      BY <1>2, <2>4 DEF EnterSampled
    <3>2. QED
      BY <2>1, <2>2, <2>4, <3>1, MethodOfR0 DEF PushInner
  <2>5. QED
    BY <2>1, <2>3, <2>4
<1>3. CASE CallSampled
  BY <1>3 DEF CallSampled, Called, Restored
<1>4. CASE ReturnUnsampled
  BY <1>4, FrameLoads DEF ReturnUnsampled, Called
<1>5. CASE ExitSampled
  BY <1>5 DEF ExitSampled, Called
<1>6. CASE ReturnSampled
  <2> DEFINE after == Called(<<"junk">>)
  <2>1. /\ site \in Bridged /\ sampling /\ cstack.kept = [r \in Saved |-> <<r>>]
        /\ sp' = 0 /\ cpc' = "continue" /\ UNCHANGED <<site, cstack, sampling, delta>>
    BY <1>6 DEF ReturnSampled
  <2>2. Popped(after) = [r \in Regs |-> IF r \in Saved THEN <<r>> ELSE after[r]]
    BY <2>1 DEF Popped
  <2> HIDE DEF after
  <2>3. CASE site = "engine"
    <3>1. regs' = [Popped(after) EXCEPT !["r0"] = <<"r5", "next">>]
      BY <1>6, <2>2, <2>3, FrameLoads DEF ReturnSampled, PopThenLoad, after
    <3>2. QED
      BY <2>1, <2>2, <2>3, <3>1
  <2>4. CASE site = "inner"
    <3>1. regs' = [Popped(after) EXCEPT !["r0"] = <<"result">>]
      BY <1>6, <2>4 DEF ReturnSampled, after
    <3>2. QED
      BY <2>1, <2>2, <2>4, <3>1
  <2>5. QED
    BY <2>1, <2>3, <2>4
<1>7. CASE PrepareFrame
  <2>1. /\ site = "frameDebt" /\ cpc' = "target" /\ delta' = Clamped30(delta)
        /\ regs = AtSite /\ sp = 0 /\ UNCHANGED <<site, sp, cstack, sampling>>
    BY <1>7 DEF PrepareFrame
  <2>2. delta' \in Int /\ (delta' <= OneFrame \/ delta' >= OneSecond)
    BY <2>1, ClampAssumption DEF Clamped30
  <2>3. regs' = [AtSite EXCEPT !["r0"] = <<"r4", "manager">>, !["r5"] = <<"r6", "context">>,
                               !["r1"] = <<"delta", delta'>>]
    BY <1>7, <2>1, FrameLoads DEF PrepareFrame
  <2>4. QED
    BY <2>1, <2>2, <2>3
<1>8. CASE FramePrepared
  BY <1>8 DEF FramePrepared, Called
<1>9. CASE NextSite
  BY <1>9, ClampAssumption DEF NextSite
<1>10. CASE UNCHANGED bridgeVars
  BY <1>10 DEF bridgeVars
<1>11. QED
  BY <1>1, <1>2, <1>3, <1>4, <1>5, <1>6, <1>7, <1>8, <1>9, <1>10 DEF CallsiteNext

(* engine_callsite.S 4-168: for every frame delta, sampled or not, a bridge      *)
(* hands over the arguments of the original instructions on an aligned stack    *)
(* and goes on with its result and the registers that a call keeps.             *)
THEOREM BridgesDoNotShow == CallsiteSpec => []BridgesAreTransparent
<1>1. BridgeInv => BridgesAreTransparent
  BY DEF BridgeInv, BridgesAreTransparent
<1>2. QED
  BY <1>1, BridgeInitInv, BridgeNextInv, PTL DEF CallsiteSpec
-----------------------------------------------------------------------------
Sums ==
    [ticks : Nat, total : Nat, pre : Nat, engine : Nat, inner : Nat, draw : Nat,
     periodic : Nat, slow : Nat, target : CallTargets \cup {NoTarget}, changes : Nat]

\* The types of the probe's variables.
ProbeTypeOK ==
    /\ pnow \in Nat /\ tickBegan \in Nat /\ sampleBegan \in Nat /\ engineBegan \in Nat
    /\ innerBegan \in Nat /\ sample \in Nat /\ timed \in Nat
    /\ within \in {"between", "begun", "tick", "engine", "inner", "ended"}
    /\ probing \in BOOLEAN /\ slowSample \in BOOLEAN /\ engineDone \in BOOLEAN
    /\ stats \in Sums

\* What a sample has taken so far, from the outer phase to the inner one.
InTheSample ==
    /\ tickBegan <= sampleBegan /\ sampleBegan <= pnow
    /\ sampleBegan + sample <= pnow
    /\ stats.draw <= stats.total
InTheTick ==
    /\ stats.inner <= stats.engine
    /\ stats.pre + stats.engine + sampleBegan <= stats.total + pnow
    /\ ~engineDone => stats.pre + stats.engine <= stats.total
InTheEngine ==
    /\ 1 <= engineBegan /\ sampleBegan <= engineBegan /\ engineBegan <= pnow
    /\ stats.pre + stats.engine + sampleBegan <= stats.total + engineBegan
    /\ within = "engine" => stats.inner + engineBegan <= stats.engine + pnow
InTheInner ==
    /\ 1 <= innerBegan /\ engineBegan <= innerBegan /\ innerBegan <= pnow
    /\ stats.inner + engineBegan <= stats.engine + innerBegan
AtRest ==
    /\ stats.inner <= stats.engine
    /\ stats.pre + stats.engine <= stats.total
    /\ stats.draw <= stats.total

\* What the sums owe to the phases that are still open.
ProbeInv ==
    /\ ProbeTypeOK
    /\ 1 <= pnow /\ tickBegan <= pnow
    /\ stats.periodic + stats.slow = stats.ticks
    /\ within \in {"between", "begun", "ended"} => ~probing
    /\ ~probing => AtRest
    /\ probing => InTheSample
    /\ probing /\ within = "tick" => InTheTick
    /\ probing /\ within \in {"engine", "inner"} => InTheEngine
    /\ probing /\ within = "inner" => InTheInner
    /\ within # "ended" => stats.total <= timed
    /\ within = "ended" => stats.total + tickBegan <= timed + pnow

\* Nothing has been measured at first.
LEMMA ProbeInitInv == ProbeInit => ProbeInv
<1> SUFFICES ASSUME ProbeInit
             PROVE  ProbeInv
  OBVIOUS
<1>1. ~probing /\ probing \in BOOLEAN /\ slowSample \in BOOLEAN /\ engineDone \in BOOLEAN
  BY DEF ProbeInit
<1>2. stats = Zeroed(NoTarget) /\ within = "between" /\ pnow = 1 /\ tickBegan = 0
        /\ sampleBegan = 0 /\ engineBegan = 0 /\ innerBegan = 0 /\ sample = 0 /\ timed = 0
  BY DEF ProbeInit, NoTime
<1>3. ProbeTypeOK
  BY <1>1, <1>2 DEF ProbeTypeOK, Sums, Zeroed
<1>4. QED
  BY <1>1, <1>2, <1>3 DEF ProbeInv, Zeroed, AtRest

\* Opening a phase, letting time pass and closing it keep the debts.
LEMMA ProbeNextInv == ProbeInv /\ [ProbeNext]_probeVars => ProbeInv'
<1> SUFFICES ASSUME ProbeInv, [ProbeNext]_probeVars
             PROVE  ProbeInv'
  OBVIOUS
<1>0. ProbeTypeOK /\ stats \in Sums
  BY DEF ProbeInv, ProbeTypeOK
<1> USE DEF ProbeInv, ProbeTypeOK, Sums, AtRest, InTheSample, InTheTick, InTheEngine, InTheInner, NoTime
<1>1. CASE Elapses
  BY <1>0, <1>1 DEF Elapses
<1>2. CASE BeginTick
  <2>1. ~probing' /\ probing' \in BOOLEAN /\ engineDone' \in BOOLEAN
    BY <1>2 DEF BeginTick
  <2>2. QED
    BY <1>0, <1>2, <2>1 DEF BeginTick
<1>3. CASE ProbeBegin
  <2>1. ~probing
    BY <1>3 DEF ProbeBegin, GLProfileSampleBegin
  <2>2. within' = "tick" /\ UNCHANGED <<pnow, tickBegan, engineBegan, innerBegan, stats, timed>>
          /\ UNCHANGED engineDone
    BY <1>3 DEF ProbeBegin, GLProfileSampleBegin
  <2>3. CASE UNCHANGED <<slowSample, sampleBegan, sample, probing>>
    <3>1. ~probing' /\ AtRest'
      BY <2>1, <2>2, <2>3
    <3>2. ProbeTypeOK'
      BY <1>0, <2>2, <2>3
    <3>3. 1 <= pnow' /\ tickBegan' <= pnow' /\ stats'.total <= timed'
            /\ stats'.periodic + stats'.slow = stats'.ticks
      BY <1>3, <2>2 DEF ProbeBegin, GLProfileSampleBegin
    <3>4. QED
      BY <2>2, <3>1, <3>2, <3>3, Zenon
  <2>4. CASE /\ slowSample' \in BOOLEAN
             /\ sampleBegan' = pnow /\ sample' = 0 /\ probing'
             /\ probing' \in BOOLEAN
    <3>1. probing' /\ InTheSample' /\ InTheTick'
      BY <1>0, <2>1, <2>2, <2>4
    <3>2. ProbeTypeOK'
      BY <1>0, <2>2, <2>4
    <3>3. 1 <= pnow' /\ tickBegan' <= pnow' /\ stats'.total <= timed'
            /\ stats'.periodic + stats'.slow = stats'.ticks
      BY <1>3, <2>2 DEF ProbeBegin, GLProfileSampleBegin
    <3>4. QED
      BY <2>2, <3>1, <3>2, <3>3
  <2>5. QED
    BY <1>3, <2>3, <2>4 DEF ProbeBegin, GLProfileSampleBegin
<1>4. CASE InnerEnter
  BY <1>0, <1>4 DEF InnerEnter
<1>5. CASE InnerExit
  BY <1>0, <1>5 DEF InnerExit
<1>6. CASE EngineExit
  BY <1>0, <1>6 DEF EngineExit
<1>7. CASE Draw
  BY <1>0, <1>7 DEF Draw
<1>8. CASE ProbeEnd
  <2>1. ~probing' /\ probing' \in BOOLEAN /\ within = "tick" /\ within' = "ended"
    BY <1>8 DEF ProbeEnd, GLProfileSampleEnd
  <2>2. UNCHANGED <<pnow, tickBegan, slowSample, sampleBegan, engineBegan, innerBegan,
                    engineDone, timed>>
    BY <1>8 DEF ProbeEnd, GLProfileSampleEnd
  <2>3. CASE ~probing
    BY <1>0, <1>8, <2>1, <2>2, <2>3 DEF ProbeEnd, GLProfileSampleEnd
  <2>4. CASE probing
    <3>1. sample' = 0 /\ \E slow, periodic \in Nat :
            /\ periodic + slow = stats.ticks + 1
            /\ stats' = [stats EXCEPT
                             !.ticks = @ + 1, !.total = @ + (pnow - sampleBegan),
                             !.draw = @ + sample, !.slow = slow, !.periodic = periodic]
      <4> DEFINE slow == IF slowSample THEN stats.slow + 1 ELSE stats.slow
                 periodic == IF slowSample THEN stats.periodic ELSE stats.periodic + 1
      <4>1. slow \in Nat /\ periodic \in Nat /\ periodic + slow = stats.ticks + 1
        BY <1>0
      <4>2. /\ sample' = 0
            /\ stats' = [stats EXCEPT
                             !.ticks = @ + 1, !.total = @ + (pnow - sampleBegan),
                             !.draw = @ + sample, !.slow = slow, !.periodic = periodic]
        BY <1>8, <2>4 DEF ProbeEnd, GLProfileSampleEnd
      <4> HIDE DEF slow, periodic
      <4>3. QED
        BY <4>1, <4>2
    <3>2. QED
      <4>0. stats' \in Sums
        <5>1. pnow - sampleBegan \in Nat
          BY <1>0, <2>4
        <5>2. stats.total + (pnow - sampleBegan) \in Nat /\ stats.ticks + 1 \in Nat
                /\ stats.draw + sample \in Nat
          BY <1>0, <5>1
        <5>3. QED
          BY <1>0, <3>1, <5>2
      <4>1. ProbeTypeOK'
        BY <1>0, <2>1, <2>2, <3>1, <4>0
      <4>2. AtRest'
        BY <1>0, <2>1, <2>2, <2>4, <3>1
      <4>3. stats'.periodic + stats'.slow = stats'.ticks
        BY <1>0, <3>1
      <4>4. stats'.total + tickBegan' <= timed' + pnow'
        BY <1>0, <2>1, <2>2, <2>4, <3>1
      <4>5. QED
        BY <2>1, <2>2, <4>1, <4>2, <4>3, <4>4
  <2>5. QED
    BY <2>3, <2>4
<1>9. CASE EndTick
  BY <1>0, <1>9 DEF EndTick
<1>10. CASE TakeStats
  BY <1>0, <1>10 DEF TakeStats, Zeroed
<1>11. CASE \E target \in CallTargets : EngineEnter(target)
  <2> PICK target \in CallTargets : EngineEnter(target)
    BY <1>11
  <2>1. /\ within = "tick" /\ ~engineDone /\ within' = "engine"
        /\ UNCHANGED <<pnow, tickBegan, probing, slowSample, sampleBegan, innerBegan,
                       engineDone, sample, timed>>
    BY DEF EngineEnter
  <2>2. CASE ~probing
    BY <1>0, <2>1, <2>2 DEF EngineEnter
  <2>3. CASE probing
    <3>1. \E changes \in Nat :
            stats' = [stats EXCEPT !.pre = @ + (pnow - sampleBegan), !.target = target,
                                   !.changes = changes]
      <4> DEFINE changes == IF stats.target \in {NoTarget, target} THEN stats.changes
                            ELSE stats.changes + 1
      <4>1. changes \in Nat
        BY <1>0
      <4>2. stats' = [stats EXCEPT !.pre = @ + (pnow - sampleBegan), !.target = target,
                                   !.changes = changes]
        BY <2>3 DEF EngineEnter
      <4>3. QED
        BY <4>1, <4>2
    <3>2. engineBegan' = pnow
      BY <2>3 DEF EngineEnter
    <3>3. QED
      <4>1. ProbeTypeOK'
        <5>1. pnow - sampleBegan \in Nat
          BY <1>0, <2>1, <2>3
        <5>2. stats.pre + (pnow - sampleBegan) \in Nat
          BY <1>0, <5>1
        <5>3. stats' \in Sums
          BY <1>0, <3>1, <5>2
        <5>4. QED
          BY <1>0, <2>1, <3>2, <5>3
      <4>2. InTheSample' /\ InTheEngine'
        BY <1>0, <2>1, <2>3, <3>1, <3>2
      <4>3. stats'.periodic + stats'.slow = stats'.ticks /\ stats'.total = stats.total
        BY <1>0, <3>1
      <4>4. QED
        BY <2>1, <2>3, <4>1, <4>2, <4>3
  <2>4. QED
    BY <2>2, <2>3
<1>12. CASE UNCHANGED probeVars
  BY <1>0, <1>12 DEF probeVars
<1>13. QED
  BY <1>1, <1>2, <1>3, <1>4, <1>5, <1>6, <1>7, <1>8, <1>9, <1>10, <1>11, <1>12 DEF ProbeNext

(* main.c 775-800, patch.c and glutil.c: however long the phases take and        *)
(* whichever ticks are sampled, no difference of sums that the log reports is   *)
(* negative: inner time fits into engine time, that with the time before it and *)
(* the draw time into the sampled ticks, and those into all ticks.              *)
THEOREM SampledTimesNest == ProbeSpec => []NestedTimesFit
<1>1. ProbeInv => NestedTimesFit
  BY DEF ProbeInv, NestedTimesFit, AtRest
<1>2. QED
  BY <1>1, ProbeInitInv, ProbeNextInv, PTL DEF ProbeSpec
-----------------------------------------------------------------------------
(* Where a thread is, its string is there; past the test, its string has an     *)
(* array, and one that only the first reader of a string of NewString() makes.  *)
Converting == {"encode", "terminate", "copy"}
MadeInv ==
    \A s \in Strings :
        /\ string[s].from = "UTF8" => string[s].utf8 = {Maker}
        /\ string[s].from = "nothing" => string[s] = NoString
        /\ string[s].from = "UTF16" => string[s].utf8 # {Maker}
AtInv ==
    \A n \in Callers : ~Idle(n) =>
        /\ string[StringIn(n)].from # "nothing"
        /\ call[n].step = "make" => string[StringIn(n)].from = "UTF16"
        /\ call[n].step \in Converting => string[StringIn(n)].utf8 # {}
\* Calls on one string have met.
MeetInv ==
    \A n, m \in Callers :
        n # m /\ ~Idle(n) /\ ~Idle(m) /\ StringIn(n) = StringIn(m) => call[n].met
\* What the array of a string of NewStringUTF() holds, ...
MakerInv ==
    \A s \in Strings : string[s].from = "UTF8" =>
        /\ array[s][Maker].chars = "text"
        /\ ~string[s].wide => array[s][Maker].last = "zero"
\* ... and what a call that met no other leaves behind each of its steps.
Left(n, content) ==
    /\ call[n].step \in {"terminate", "copy"} /\ ~string[StringIn(n)].wide =>
           content.chars = "text"
    /\ call[n].step = "copy" => content.last = "zero"
AloneInv ==
    \A n \in Callers : ~Idle(n) /\ ~call[n].met =>
        Left(n, array[StringIn(n)][Current(StringIn(n))])
\* Nobody has characters of a string that is yet to be made.
GotInv == \A n \in Callers : \A c \in got[n] : string[c.string].from # "nothing"
StringsInv ==
    /\ StringsTypeOK /\ MadeInv /\ AtInv /\ MeetInv /\ MakerInv /\ AloneInv
    /\ GotInv /\ CharactersComeWhole

LEMMA CurrentIs ==
    ASSUME NEW s \in Strings, NEW a \in Arrays, string[s].utf8 = {a}
    PROVE  Current(s) = a
<1>1. \A b \in Arrays : string[s].utf8 = {b} => b = a
  OBVIOUS
<1>2. QED
  BY <1>1 DEF Current

\* The array in use is the one that the field leads to.
LEMMA CurrentThere ==
    ASSUME StringsTypeOK, NEW s \in Strings, string[s].utf8 # {}
    PROVE  Current(s) \in Arrays /\ string[s].utf8 = {Current(s)}
<1>1. PICK a \in Arrays : string[s].utf8 = {a}
  BY DEF StringsTypeOK
<1>2. QED
  BY <1>1, CurrentIs

LEMMA CallTyped ==
    ASSUME StringsTypeOK, NEW n \in Callers, ~Idle(n)
    PROVE  /\ StringIn(n) \in Strings /\ call[n].met \in BOOLEAN
           /\ call[n] \in [op : {"chars", "region"}, string : Strings, met : BOOLEAN,
                           step : {"test", "make", "encode", "terminate", "copy"}]
BY DEF StringsTypeOK, Idle, StringIn, NoCall

LEMMA StringsInitInv == StringsInit => StringsInv
BY DEF StringsInit, StringsInv, StringsTypeOK, MadeInv, AtInv, MeetInv, MakerInv, AloneInv,
       Left, GotInv, CharactersComeWhole, NoString, NoCall, Blank, Contents, Arrays, Idle

LEMMA NewStringInv ==
    ASSUME StringsInv, NEW s \in Strings, NEW wide \in BOOLEAN, NewString(s, wide)
    PROVE  StringsInv'
<1> USE DEF StringsInv
<1>1. string[s] = NoString /\ string' = [string EXCEPT ![s] = [from |-> "UTF16", wide |-> wide, utf8 |-> {}]]
      /\ UNCHANGED <<array, call, got>>
  BY DEF NewString
<1>2. StringsTypeOK'
  BY <1>1 DEF StringsTypeOK, Contents
<1>3. \A r \in Strings : r # s => string'[r] = string[r] /\ (Current(r))' = Current(r)
  BY <1>1 DEF StringsTypeOK, Current
<1>4. string[s].from = "nothing" /\ string'[s] = [from |-> "UTF16", wide |-> wide, utf8 |-> {}]
  BY <1>1 DEF NoString, StringsTypeOK
<1>5. \A n \in Callers : ~Idle(n) => StringIn(n) # s /\ StringIn(n) \in Strings
  BY <1>4, CallTyped DEF AtInv
<1>6. \A n \in Callers : \A c \in got[n] : c.string # s /\ c.string \in Strings
  BY <1>4 DEF GotInv, StringsTypeOK
<1>7. MadeInv' /\ MakerInv'
  BY <1>1, <1>3, <1>4 DEF MadeInv, MakerInv
<1>8. AtInv' /\ MeetInv'
  BY <1>1, <1>3, <1>5 DEF AtInv, MeetInv, Idle, StringIn
<1>9. AloneInv'
  BY <1>1, <1>3, <1>5 DEF AloneInv, Left, Idle, StringIn
<1>10. GotInv' /\ CharactersComeWhole'
  BY <1>1, <1>3, <1>6 DEF GotInv, CharactersComeWhole
<1>11. QED
  BY <1>2, <1>7, <1>8, <1>9, <1>10

LEMMA NewStringUTFInv ==
    ASSUME StringsInv, NEW s \in Strings, NEW wide \in BOOLEAN, NewStringUTF(s, wide)
    PROVE  StringsInv'
<1> USE DEF StringsInv
<1>1. /\ string[s] = NoString /\ UNCHANGED <<call, got>>
      /\ string' = [string EXCEPT ![s] = [from |-> "UTF8", wide |-> wide, utf8 |-> {Maker}]]
      /\ array' = [array EXCEPT ![s][Maker] = Whole]
  BY DEF NewStringUTF
<1>2. StringsTypeOK'
  BY <1>1 DEF StringsTypeOK, Contents, Arrays, Whole
<1>3. \A r \in Strings : r # s => /\ string'[r] = string[r] /\ (Current(r))' = Current(r)
                                 /\ array'[r] = array[r]
  BY <1>1 DEF StringsTypeOK, Current
<1>4. /\ string[s].from = "nothing"
      /\ string'[s] = [from |-> "UTF8", wide |-> wide, utf8 |-> {Maker}]
      /\ array'[s][Maker] = Whole
  BY <1>1 DEF NoString, StringsTypeOK, Arrays
<1>5. \A n \in Callers : ~Idle(n) => StringIn(n) # s /\ StringIn(n) \in Strings
  BY <1>4, CallTyped DEF AtInv
<1>6. \A n \in Callers : \A c \in got[n] : c.string # s /\ c.string \in Strings
  BY <1>4 DEF GotInv, StringsTypeOK
<1>7. MadeInv' /\ MakerInv'
  BY <1>1, <1>3, <1>4 DEF MadeInv, MakerInv, Whole
<1>8. AtInv' /\ MeetInv'
  BY <1>1, <1>3, <1>5 DEF AtInv, MeetInv, Idle, StringIn
<1>9. AloneInv'
  BY <1>1, <1>3, <1>5 DEF AloneInv, Left, Idle, StringIn
<1>10. GotInv' /\ CharactersComeWhole'
  BY <1>1, <1>3, <1>6 DEF GotInv, CharactersComeWhole
<1>11. QED
  BY <1>2, <1>7, <1>8, <1>9, <1>10

LEMMA BeginInv ==
    ASSUME StringsInv, NEW n \in Callers, NEW s \in Strings, NEW kind \in {"chars", "region"},
           Begin(n, s, kind)
    PROVE  StringsInv'
<1> USE DEF StringsInv
<1>1. UNCHANGED <<string, array, got>> /\ Idle(n) /\ string[s] # NoString
  BY DEF Begin
<1>2. \A r \in Strings : (Current(r))' = Current(r)
  BY <1>1 DEF Current
<1>3. string[s].from # "nothing"
  BY <1>1 DEF MadeInv
<1> DEFINE mine == [op |-> kind, string |-> s, step |-> "test", met |-> Others(n, s) # {}]
<1>4. call'[n] = mine
  BY DEF Begin
<1>5. \A m \in Callers : m # n /\ ~Idle(m) /\ StringIn(m) = s =>
          call'[m] = [call[m] EXCEPT !.met = TRUE]
  BY DEF Begin, Others
<1>6. \A m \in Callers : m # n /\ ~(~Idle(m) /\ StringIn(m) = s) => call'[m] = call[m]
  BY DEF Begin, Others
<1>7. \A m \in Callers : m # n =>
          /\ (Idle(m))' <=> Idle(m)
          /\ call'[m].step = call[m].step
          /\ ~Idle(m) => (StringIn(m))' = StringIn(m) /\ (call[m].met => call'[m].met)
  BY <1>5, <1>6, CallTyped DEF Idle, StringIn, NoCall
<1>8. StringsTypeOK'
  <2>1. call' \in [Callers -> {NoCall}
                     \cup [op : {"chars", "region"}, string : Strings, met : BOOLEAN,
                           step : {"test", "make", "encode", "terminate", "copy"}]]
    <3> DEFINE Typed == {NoCall}
                     \cup [op : {"chars", "region"}, string : Strings, met : BOOLEAN,
                           step : {"test", "make", "encode", "terminate", "copy"}]
    <3>1. mine \in Typed
      BY DEF Others
    <3>2. ASSUME NEW m \in Callers, m # n, ~Idle(m), StringIn(m) = s
          PROVE  call'[m] \in Typed
      BY <3>2, <1>5, CallTyped
    <3>3. ASSUME NEW m \in Callers, m # n, ~(~Idle(m) /\ StringIn(m) = s)
          PROVE  call'[m] \in Typed
      BY <3>3, <1>6 DEF StringsTypeOK
    <3>4. \A m \in Callers : call'[m] \in Typed
      BY <3>1, <3>2, <3>3, <1>4, Zenon
    <3>5. call' = [m \in Callers |-> call'[m]]
      BY DEF Begin
    <3>6. QED
      BY <3>4, <3>5
  <2>2. QED
    BY <1>1, <2>1 DEF StringsTypeOK
<1>9. MadeInv' /\ MakerInv' /\ GotInv' /\ CharactersComeWhole'
  BY <1>1 DEF MadeInv, MakerInv, GotInv, CharactersComeWhole
<1>10. AtInv'
  <2> SUFFICES ASSUME NEW m \in Callers, (~Idle(m))'
               PROVE  /\ string[(StringIn(m))'].from # "nothing"
                      /\ call'[m].step = "make" => string[(StringIn(m))'].from = "UTF16"
                      /\ call'[m].step \in Converting => string[(StringIn(m))'].utf8 # {}
    BY <1>1 DEF AtInv
  <2>1. CASE m = n
    BY <2>1, <1>3, <1>4 DEF StringIn, Converting
  <2>2. CASE m # n
    BY <2>2, <1>7 DEF AtInv
  <2>3. QED
    BY <2>1, <2>2
<1>11. MeetInv'
  <2> SUFFICES ASSUME NEW k \in Callers, NEW m \in Callers, k # m, (~Idle(k))', (~Idle(m))',
                      (StringIn(k))' = (StringIn(m))'
               PROVE  call'[k].met
    BY DEF MeetInv
  <2>1. CASE k = n
    <3>1. (StringIn(n))' = s
      BY <1>4 DEF StringIn
    <3>2. ~Idle(m) /\ StringIn(m) = s
      BY <2>1, <3>1, <1>7
    <3>3. Others(n, s) # {}
      BY <2>1, <3>2 DEF Others
    <3>4. call'[n].met = (Others(n, s) # {})
      BY <1>4
    <3>5. QED
      BY <2>1, <3>3, <3>4
  <2>2. CASE k # n /\ m = n
    <3>1. (StringIn(n))' = s
      BY <1>4 DEF StringIn
    <3>2. ~Idle(k) /\ StringIn(k) = s
      BY <2>2, <3>1, <1>7
    <3>3. QED
      BY <2>2, <3>2, <1>5, CallTyped
  <2>3. CASE k # n /\ m # n
    BY <2>3, <1>7 DEF MeetInv
  <2>4. QED
    BY <2>1, <2>2, <2>3
<1>12. AloneInv'
  <2> SUFFICES ASSUME NEW m \in Callers, (~Idle(m))', ~call'[m].met
               PROVE  Left(m, array[StringIn(m)][Current(StringIn(m))])'
    BY DEF AloneInv
  <2>1. CASE m = n
    BY <2>1, <1>4 DEF Left
  <2>2. CASE m # n
    <3>1. ~Idle(m) /\ ~call[m].met /\ (StringIn(m))' = StringIn(m) /\ StringIn(m) \in Strings
      BY <2>2, <1>7, CallTyped
    <3>2. QED
      BY <3>1, <2>2, <1>1, <1>2, <1>7 DEF AloneInv, Left
  <2>3. QED
    BY <2>1, <2>2
<1>13. QED
  BY <1>8, <1>9, <1>10, <1>11, <1>12

\* A step within a call, which goes on.
LEMMA GoesOnInv ==
    ASSUME StringsInv, NEW n \in Callers, ~Idle(n),
           NEW step \in {"test", "make", "encode", "terminate", "copy"}, Goes(n, step)
    PROVE  /\ call'[n] = [call[n] EXCEPT !.step = step]
           /\ \A m \in Callers : m # n => call'[m] = call[m]
           /\ \A m \in Callers : (Idle(m))' <=> Idle(m)
           /\ \A m \in Callers : ~Idle(m) =>
                  (StringIn(m))' = StringIn(m) /\ call'[m].met = call[m].met
           /\ call' \in [Callers -> {NoCall}
                     \cup [op : {"chars", "region"}, string : Strings, met : BOOLEAN,
                           step : {"test", "make", "encode", "terminate", "copy"}]]
           /\ MeetInv'
<1>1. call' = [call EXCEPT ![n].step = step] /\ call \in [Callers -> {NoCall}
                     \cup [op : {"chars", "region"}, string : Strings, met : BOOLEAN,
                           step : {"test", "make", "encode", "terminate", "copy"}]]
  BY DEF Goes, StringsInv, StringsTypeOK
<1>2. call'[n] = [call[n] EXCEPT !.step = step] /\ \A m \in Callers : m # n => call'[m] = call[m]
  BY <1>1
<1>3. call[n] \in [op : {"chars", "region"}, string : Strings, met : BOOLEAN,
                   step : {"test", "make", "encode", "terminate", "copy"}]
  BY CallTyped DEF StringsInv
<1>4. /\ \A m \in Callers : (Idle(m))' <=> Idle(m)
      /\ \A m \in Callers : ~Idle(m) =>
                  (StringIn(m))' = StringIn(m) /\ call'[m].met = call[m].met
  BY <1>2, <1>3 DEF Idle, StringIn
<1>5. MeetInv'
  BY <1>4 DEF StringsInv, MeetInv
<1>6. QED
  BY <1>1, <1>2, <1>3, <1>4, <1>5

\* What a step of a call on s does to s alone leaves the other lonely calls be.
LEMMA OthersLeft ==
    ASSUME StringsInv, NEW n \in Callers, ~Idle(n),
           \A r \in Strings \ {StringIn(n)} : string'[r] = string[r] /\ array'[r] = array[r],
           NEW m \in Callers, m # n, ~Idle(m), ~call[m].met, call'[m] = call[m]
    PROVE  Left(m, array[StringIn(m)][Current(StringIn(m))])'
<1>1. StringIn(m) \in Strings /\ StringIn(m) # StringIn(n)
  BY CallTyped DEF StringsInv, MeetInv
<1>2. (StringIn(m))' = StringIn(m)
  BY DEF StringIn
<1>3. (Current(StringIn(m)))' = Current(StringIn(m))
  BY <1>1, <1>2 DEF Current
<1>4. QED
  BY <1>1, <1>2, <1>3 DEF StringsInv, AloneInv, Left

LEMMA TestUTF8Inv == ASSUME StringsInv, NEW n \in Callers, TestUTF8(n) PROVE StringsInv'
<1>1. ~Idle(n) /\ StringIn(n) \in Strings /\ UNCHANGED <<string, array, got>>
  BY CallTyped DEF TestUTF8, AtStep, Idle, StringsInv
<1> DEFINE step == IF string[StringIn(n)].utf8 = {} THEN "make" ELSE "encode"
<1>2. Goes(n, step) /\ step \in {"make", "encode"}
  BY DEF TestUTF8
<1> HIDE DEF step
<1>3. /\ call'[n] = [call[n] EXCEPT !.step = step]
      /\ \A m \in Callers : m # n => call'[m] = call[m]
      /\ \A m \in Callers : (Idle(m))' <=> Idle(m)
      /\ \A m \in Callers : ~Idle(m) => (StringIn(m))' = StringIn(m) /\ call'[m].met = call[m].met
      /\ call' \in [Callers -> {NoCall}
                     \cup [op : {"chars", "region"}, string : Strings, met : BOOLEAN,
                           step : {"test", "make", "encode", "terminate", "copy"}]]
      /\ MeetInv'
  BY <1>1, <1>2, GoesOnInv
<1>4. StringsTypeOK' /\ MadeInv' /\ MakerInv' /\ GotInv' /\ CharactersComeWhole'
  <2>1. StringsTypeOK'
    BY <1>1, <1>3 DEF StringsInv, StringsTypeOK
  <2>2. MadeInv' /\ MakerInv' /\ GotInv' /\ CharactersComeWhole'
    BY <1>1 DEF StringsInv, MadeInv, MakerInv, GotInv, CharactersComeWhole
  <2>3. QED
    BY <2>1, <2>2
<1>5. call'[n].step = step
  BY <1>1, <1>3, CallTyped DEF StringsInv
<1>6. AtInv'
  <2>1. step = "make" => string[StringIn(n)].from = "UTF16"
    BY <1>1 DEF step, StringsInv, AtInv, MadeInv, StringsTypeOK
  <2>2. step = "encode" => string[StringIn(n)].utf8 # {}
    BY DEF step
  <2>3. QED
    BY <1>1, <1>2, <1>3, <1>5, <2>1, <2>2 DEF StringsInv, AtInv, Converting
<1>7. AloneInv'
  BY <1>1, <1>2, <1>3, <1>5, OthersLeft DEF AloneInv, Left
<1>8. QED
  BY <1>3, <1>4, <1>6, <1>7 DEF StringsInv

LEMMA MakeUTF8Inv == ASSUME StringsInv, NEW n \in Callers, MakeUTF8(n) PROVE StringsInv'
<1> DEFINE s == StringIn(n)
<1>1. ~Idle(n) /\ s \in Strings /\ UNCHANGED got /\ string[s].from = "UTF16"
  BY CallTyped DEF MakeUTF8, AtStep, Idle, StringsInv, AtInv
<1>2. Goes(n, "encode")
  BY DEF MakeUTF8
<1>3. /\ call'[n] = [call[n] EXCEPT !.step = "encode"]
      /\ \A m \in Callers : m # n => call'[m] = call[m]
      /\ \A m \in Callers : (Idle(m))' <=> Idle(m)
      /\ \A m \in Callers : ~Idle(m) => (StringIn(m))' = StringIn(m) /\ call'[m].met = call[m].met
      /\ call' \in [Callers -> {NoCall}
                     \cup [op : {"chars", "region"}, string : Strings, met : BOOLEAN,
                           step : {"test", "make", "encode", "terminate", "copy"}]]
      /\ MeetInv'
  BY <1>1, <1>2, GoesOnInv
<1>4. /\ string' = [string EXCEPT ![s].utf8 = {n}]
      /\ array' = [array EXCEPT ![s][n] = Blank]
  BY DEF MakeUTF8
<1> HIDE DEF s
<1>5. /\ string'[s] = [string[s] EXCEPT !.utf8 = {n}]
      /\ \A r \in Strings \ {s} : string'[r] = string[r] /\ array'[r] = array[r]
      /\ \A r \in Strings : string'[r].from = string[r].from /\ string'[r].wide = string[r].wide
  BY <1>1, <1>4 DEF StringsInv, StringsTypeOK
<1>6. StringsTypeOK'
  <2>1. array' \in [Strings -> [Arrays -> Contents]]
    <3>1. n \in Arrays /\ Blank \in Contents
      BY DEF Arrays, Blank, Contents
    <3>2. QED
      BY <1>1, <1>4, <3>1 DEF StringsInv, StringsTypeOK
  <2>2. string' \in [Strings -> [from : {"nothing", "UTF16", "UTF8"}, wide : BOOLEAN,
                                utf8 : {{}} \cup {{a} : a \in Arrays}]]
    <3>1. n \in Arrays
      BY DEF Arrays
    <3>2. QED
      BY <1>1, <1>4, <3>1 DEF StringsInv, StringsTypeOK
  <2>3. QED
    BY <1>1, <1>3, <2>1, <2>2 DEF StringsInv, StringsTypeOK
<1>7. MadeInv' /\ MakerInv'
  <2>1. MadeInv'
    <3>1. string'[s].from = "UTF16" /\ string'[s].utf8 = {n} /\ n # Maker
      BY <1>1, <1>5, StringsAssumption DEF StringsInv, StringsTypeOK
    <3>2. QED
      BY <1>1, <1>5, <3>1 DEF StringsInv, MadeInv
  <2>2. MakerInv'
    BY <1>1, <1>5 DEF StringsInv, MakerInv
  <2>3. QED
    BY <2>1, <2>2
<1>8. GotInv' /\ CharactersComeWhole'
  <2>1. \A m \in Callers : \A c \in got[m] : c.string \in Strings
    BY DEF StringsInv, StringsTypeOK
  <2>2. QED
    BY <1>1, <1>5, <2>1 DEF StringsInv, GotInv, CharactersComeWhole
<1>9. call'[n].step = "encode" /\ (StringIn(n))' = s
  BY <1>1, <1>3, CallTyped DEF StringsInv, s
<1>10. AtInv'
  <2> SUFFICES ASSUME NEW m \in Callers, ~Idle(m)
               PROVE  /\ string'[(StringIn(m))'].from # "nothing"
                      /\ call'[m].step = "make" => string'[(StringIn(m))'].from = "UTF16"
                      /\ call'[m].step \in Converting => string'[(StringIn(m))'].utf8 # {}
    BY <1>3 DEF AtInv
  <2>1. CASE m = n
    <3>1. string'[s].from = "UTF16" /\ string'[s].utf8 = {n}
      BY <1>1, <1>5 DEF StringsInv, StringsTypeOK
    <3>2. QED
      BY <2>1, <1>9, <3>1
  <2>2. CASE m # n
    <3>1. StringIn(m) \in Strings /\ (StringIn(m))' = StringIn(m) /\ call'[m] = call[m]
      BY <2>2, <1>3, CallTyped DEF StringsInv
    <3>2. string[StringIn(m)].utf8 # {} => string'[StringIn(m)].utf8 # {}
      BY <3>1, <1>5, <1>1 DEF StringsInv, StringsTypeOK
    <3>3. QED
      BY <3>1, <3>2, <1>5 DEF StringsInv, AtInv
  <2>3. QED
    BY <2>1, <2>2
<1>11. AloneInv'
  <2>1. \A r \in Strings \ {StringIn(n)} : string'[r] = string[r] /\ array'[r] = array[r]
    BY <1>5 DEF s
  <2>2. QED
    BY <1>1, <1>3, <1>9, <2>1, OthersLeft DEF AloneInv, Left
<1>12. QED
  BY <1>3, <1>6, <1>7, <1>8, <1>10, <1>11 DEF StringsInv

\* A step that writes to the array in use: what it leaves there has to be right.
LEMMA WriteInv ==
    ASSUME StringsInv, NEW n \in Callers, ~Idle(n), string[StringIn(n)].utf8 # {},
           UNCHANGED <<string, got>>,
           NEW step \in {"terminate", "copy"}, Goes(n, step),
           NEW content \in Contents,
           array' = [array EXCEPT ![StringIn(n)][Current(StringIn(n))] = content],
           string[StringIn(n)].from = "UTF8" =>
               content.chars = "text" /\ (~string[StringIn(n)].wide => content.last = "zero"),
           ~call[n].met => /\ ~string[StringIn(n)].wide => content.chars = "text"
                           /\ step = "copy" => content.last = "zero"
    PROVE  StringsInv'
<1> DEFINE s == StringIn(n) a == Current(s)
<1>1. s \in Strings /\ a \in Arrays /\ string[s].utf8 = {a}
  BY CallTyped, CurrentThere DEF StringsInv
<1>2. /\ call'[n] = [call[n] EXCEPT !.step = step]
      /\ \A m \in Callers : m # n => call'[m] = call[m]
      /\ \A m \in Callers : (Idle(m))' <=> Idle(m)
      /\ \A m \in Callers : ~Idle(m) => (StringIn(m))' = StringIn(m) /\ call'[m].met = call[m].met
      /\ call' \in [Callers -> {NoCall}
                     \cup [op : {"chars", "region"}, string : Strings, met : BOOLEAN,
                           step : {"test", "make", "encode", "terminate", "copy"}]]
      /\ MeetInv'
  BY GoesOnInv
<1>3. call'[n].step = step /\ (s)' = s /\ (a)' = a
  BY <1>2, CallTyped DEF StringsInv, Current
<1>4. /\ array'[s][a] = content
      /\ \A b \in Arrays \ {a} : array'[s][b] = array[s][b]
      /\ \A r \in Strings \ {s} : array'[r] = array[r]
  BY <1>1 DEF StringsInv, StringsTypeOK
<1>5. StringsTypeOK'
  <2>1. array' \in [Strings -> [Arrays -> Contents]]
    BY <1>1 DEF StringsInv, StringsTypeOK
  <2>2. QED
    BY <1>2, <2>1 DEF StringsInv, StringsTypeOK
<1>6. MadeInv' /\ GotInv' /\ CharactersComeWhole'
  BY DEF StringsInv, MadeInv, GotInv, CharactersComeWhole
<1>7. MakerInv'
  <2> SUFFICES ASSUME NEW r \in Strings, string[r].from = "UTF8"
               PROVE  /\ array'[r][Maker].chars = "text"
                      /\ ~string[r].wide => array'[r][Maker].last = "zero"
    BY DEF MakerInv
  <2>1. CASE r # s
    BY <2>1, <1>4 DEF StringsInv, MakerInv
  <2>2. CASE r = s
    <3>1. a = Maker
      BY <2>2, <1>1 DEF StringsInv, MadeInv
    <3>2. QED
      BY <2>2, <3>1, <1>4
  <2>3. QED
    BY <2>1, <2>2
<1>8. AtInv'
  BY <1>2, <1>3 DEF StringsInv, AtInv, Converting
<1>9. AloneInv'
  <2> SUFFICES ASSUME NEW m \in Callers, ~Idle(m), ~call[m].met
               PROVE  Left(m, array[StringIn(m)][Current(StringIn(m))])'
    BY <1>2 DEF AloneInv
  <2>1. CASE m = n
    BY <2>1, <1>3, <1>4 DEF Left
  <2>2. CASE m # n
    BY <2>2, <1>2, <1>4, OthersLeft
  <2>3. QED
    BY <2>1, <2>2
<1>10. QED
  BY <1>2, <1>5, <1>6, <1>7, <1>8, <1>9 DEF StringsInv

LEMMA EncodeUTF8Inv == ASSUME StringsInv, NEW n \in Callers, EncodeUTF8(n) PROVE StringsInv'
<1> DEFINE s == StringIn(n) a == Current(s)
<1>1. ~Idle(n) /\ s \in Strings /\ string[s].utf8 # {} /\ UNCHANGED <<string, got>>
  BY CallTyped DEF EncodeUTF8, AtStep, Idle, StringsInv, AtInv, Converting
<1>2. a \in Arrays /\ string[s].utf8 = {a}
  BY <1>1, CurrentThere DEF StringsInv
<1>3. PICK content \in Encoded(s, array[s][a]) :
          array' = [array EXCEPT ![s][a] = content]
  BY DEF EncodeUTF8
<1>4. content \in Contents
  <2>1. array[s][a].last \in {"blank", "junk", "zero"}
    BY <1>1, <1>2 DEF StringsInv, StringsTypeOK, Contents
  <2>2. QED
    BY <2>1 DEF Encoded, CutShort, SpareUnits, Contents
<1>5. ~string[s].wide => content.chars = "text" /\ content.last = array[s][a].last
  BY DEF Encoded, CutShort, SpareUnits
<1>6. string[s].from = "UTF8" => content.chars = "text"
  BY DEF Encoded, CutShort, SpareUnits
<1>7. string[s].from = "UTF8" /\ ~string[s].wide => content.last = "zero"
  BY <1>1, <1>2, <1>5 DEF StringsInv, MadeInv, MakerInv
<1>8. Goes(n, "terminate")
  BY DEF EncodeUTF8
<1>9. QED
  BY <1>1, <1>3, <1>4, <1>5, <1>6, <1>7, <1>8, WriteInv

LEMMA TerminateUTF8Inv == ASSUME StringsInv, NEW n \in Callers, TerminateUTF8(n) PROVE StringsInv'
<1> DEFINE s == StringIn(n) a == Current(s)
<1>1. ~Idle(n) /\ s \in Strings /\ string[s].utf8 # {} /\ UNCHANGED <<string, got>>
  BY CallTyped DEF TerminateUTF8, AtStep, Idle, StringsInv, AtInv, Converting
<1>2. a \in Arrays /\ string[s].utf8 = {a}
  BY <1>1, CurrentThere DEF StringsInv
<1> DEFINE content == [array[s][a] EXCEPT !.last = "zero"]
<1>3. array[s][a] \in Contents
  BY <1>1, <1>2 DEF StringsInv, StringsTypeOK
<1>4. content \in Contents /\ content.last = "zero" /\ content.chars = array[s][a].chars
  BY <1>3 DEF Contents
<1>5. array' = [array EXCEPT ![s][a] = content]
  BY DEF TerminateUTF8
<1>6. string[s].from = "UTF8" => array[s][a].chars = "text"
  BY <1>1, <1>2 DEF StringsInv, MadeInv, MakerInv
<1>7. ~call[n].met /\ ~string[s].wide => array[s][a].chars = "text"
  BY <1>1 DEF StringsInv, AloneInv, Left, TerminateUTF8, AtStep
<1>8. Goes(n, "copy")
  BY DEF TerminateUTF8
<1> HIDE DEF content
<1>9. QED
  BY <1>1, <1>4, <1>5, <1>6, <1>7, <1>8, WriteInv

\* A call that is over is in nobody's way.
LEMMA OverInv ==
    ASSUME StringsInv, NEW n \in Callers, UNCHANGED <<string, array>>,
           call' = [call EXCEPT ![n] = NoCall]
    PROVE  /\ call' \in [Callers -> {NoCall}
                     \cup [op : {"chars", "region"}, string : Strings, met : BOOLEAN,
                           step : {"test", "make", "encode", "terminate", "copy"}]]
           /\ MadeInv' /\ AtInv' /\ MeetInv' /\ MakerInv' /\ AloneInv'
<1>1. /\ call'[n] = NoCall
      /\ \A m \in Callers : m # n => call'[m] = call[m]
  BY DEF StringsInv, StringsTypeOK
<1>2. \A m \in Callers : (~Idle(m))' => /\ m # n /\ ~Idle(m) /\ call'[m] = call[m]
                                       /\ (StringIn(m))' = StringIn(m)
                                       /\ (Current(StringIn(m)))' = Current(StringIn(m))
  BY <1>1 DEF Idle, NoCall, StringIn, Current
<1>3. call' \in [Callers -> {NoCall}
                     \cup [op : {"chars", "region"}, string : Strings, met : BOOLEAN,
                           step : {"test", "make", "encode", "terminate", "copy"}]]
  BY DEF StringsInv, StringsTypeOK
<1>4. MadeInv' /\ MakerInv'
  BY DEF StringsInv, MadeInv, MakerInv
<1>5. AtInv' /\ MeetInv'
  BY <1>2 DEF StringsInv, AtInv, MeetInv
<1>6. AloneInv'
  BY <1>2 DEF StringsInv, AloneInv, Left
<1>7. QED
  BY <1>3, <1>4, <1>5, <1>6

LEMMA CopyUTF8Inv == ASSUME StringsInv, NEW n \in Callers, CopyUTF8(n) PROVE StringsInv'
<1> DEFINE s == StringIn(n) a == Current(s)
           mine == [string |-> s, met |-> call[n].met, copy |-> array[s][a]]
<1>1. ~Idle(n) /\ s \in Strings /\ string[s].utf8 # {} /\ UNCHANGED <<string, array>>
      /\ call[n].step = "copy" /\ call[n].met \in BOOLEAN /\ string[s].from # "nothing"
  BY CallTyped DEF CopyUTF8, AtStep, Idle, StringsInv, AtInv, Converting
<1>2. a \in Arrays /\ string[s].utf8 = {a} /\ array[s][a] \in Contents
  BY <1>1, CurrentThere DEF StringsInv, StringsTypeOK
<1>3. /\ call' \in [Callers -> {NoCall}
                     \cup [op : {"chars", "region"}, string : Strings, met : BOOLEAN,
                           step : {"test", "make", "encode", "terminate", "copy"}]]
      /\ MadeInv' /\ AtInv' /\ MeetInv' /\ MakerInv' /\ AloneInv'
  BY <1>1, OverInv DEF CopyUTF8
<1>4. got' = got \/ got' = [got EXCEPT ![n] = {mine}]
  BY DEF CopyUTF8
<1>5. \A m \in Callers : \A c \in got'[m] : c = mine \/ c \in got[m]
  BY <1>4 DEF StringsInv, StringsTypeOK
<1>6. /\ string[s].from = "UTF8" => array[s][a].chars = "text"
      /\ string[s].from = "UTF8" /\ ~string[s].wide => array[s][a].last = "zero"
  BY <1>1, <1>2 DEF StringsInv, MadeInv, MakerInv
<1>7. ~call[n].met => /\ array[s][a].last = "zero"
                      /\ ~string[s].wide => array[s][a].chars = "text"
  BY <1>1 DEF StringsInv, AloneInv, Left
<1>8. StringsTypeOK'
  <2>1. got' \in [Callers -> {{}} \cup {{c} : c \in
                     [string : Strings, met : BOOLEAN, copy : Contents]}]
    <3>1. mine \in [string : Strings, met : BOOLEAN, copy : Contents]
      BY <1>1, <1>2
    <3> HIDE DEF mine
    <3>2. QED
      BY <3>1, <1>4 DEF StringsInv, StringsTypeOK
  <2>2. QED
    BY <2>1, <1>1, <1>3 DEF StringsInv, StringsTypeOK
<1>9. mine.string = s /\ mine.copy = array[s][a] /\ mine.met = call[n].met
  OBVIOUS
<1> HIDE DEF mine
<1>10. GotInv' /\ CharactersComeWhole'
  BY <1>1, <1>5, <1>6, <1>7, <1>9 DEF StringsInv, GotInv, CharactersComeWhole
<1>11. QED
  BY <1>3, <1>8, <1>10 DEF StringsInv

LEMMA CharsFailInv == ASSUME StringsInv, NEW n \in Callers, CharsFail(n) PROVE StringsInv'
<1>1. UNCHANGED <<string, array, got>> /\ call' = [call EXCEPT ![n] = NoCall]
  BY DEF CharsFail
<1>2. StringsTypeOK' /\ GotInv' /\ CharactersComeWhole'
  BY <1>1, OverInv DEF StringsInv, StringsTypeOK, GotInv, CharactersComeWhole
<1>3. QED
  BY <1>1, <1>2, OverInv DEF StringsInv

LEMMA ReleaseInv ==
    ASSUME StringsInv, NEW n \in Callers, ReleaseStringUTFChars(n) PROVE StringsInv'
<1>1. UNCHANGED <<string, array, call>> /\ got' = [got EXCEPT ![n] = {}]
  BY DEF ReleaseStringUTFChars
<1>2. \A m \in Callers : got'[m] \subseteq got[m]
  BY <1>1 DEF StringsInv, StringsTypeOK
<1>3. StringsTypeOK'
  BY <1>1 DEF StringsInv, StringsTypeOK
<1>4. GotInv' /\ CharactersComeWhole'
  BY <1>1, <1>2 DEF StringsInv, GotInv, CharactersComeWhole
<1>5. MadeInv' /\ MakerInv' /\ AtInv' /\ MeetInv' /\ AloneInv'
  <2>1. /\ \A m \in Callers : (Idle(m))' = Idle(m) /\ (StringIn(m))' = StringIn(m)
        /\ \A s : (Current(s))' = Current(s)
    BY <1>1 DEF Idle, StringIn, Current
  <2>2. MadeInv' /\ MakerInv'
    BY <1>1 DEF StringsInv, MadeInv, MakerInv
  <2>3. AtInv' /\ MeetInv'
    BY <1>1, <2>1 DEF StringsInv, AtInv, MeetInv
  <2>4. AloneInv'
    BY <1>1, <2>1 DEF StringsInv, AloneInv, Left
  <2>5. QED
    BY <2>2, <2>3, <2>4
<1>6. QED
  BY <1>3, <1>4, <1>5 DEF StringsInv

LEMMA StringsNextInv == StringsInv /\ [StringsNext]_stringVars => StringsInv'
<1> SUFFICES ASSUME StringsInv, [StringsNext]_stringVars PROVE StringsInv'
  OBVIOUS
<1>1. ASSUME NEW s \in Strings, NEW wide \in BOOLEAN, NewString(s, wide) \/ NewStringUTF(s, wide)
      PROVE  StringsInv'
  BY <1>1, NewStringInv, NewStringUTFInv
<1>2. ASSUME NEW n \in Callers, NEW s \in Strings,
             GetStringUTFChars(n, s) \/ GetStringUTFRegion(n, s)
      PROVE  StringsInv'
  BY <1>2, BeginInv DEF GetStringUTFChars, GetStringUTFRegion
<1>3. ASSUME NEW n \in Callers,
             \/ TestUTF8(n) \/ MakeUTF8(n) \/ EncodeUTF8(n) \/ TerminateUTF8(n)
             \/ CopyUTF8(n) \/ CharsFail(n) \/ ReleaseStringUTFChars(n)
      PROVE  StringsInv'
  BY <1>3, TestUTF8Inv, MakeUTF8Inv, EncodeUTF8Inv, TerminateUTF8Inv, CopyUTF8Inv,
     CharsFailInv, ReleaseInv
<1>4. CASE UNCHANGED stringVars
  <2>1. /\ \A m \in Callers : (Idle(m))' = Idle(m) /\ (StringIn(m))' = StringIn(m)
        /\ \A s : (Current(s))' = Current(s)
    BY <1>4 DEF stringVars, Idle, StringIn, Current
  <2>2. StringsTypeOK' /\ MadeInv' /\ MakerInv' /\ GotInv'
    BY <1>4 DEF stringVars, StringsInv, StringsTypeOK, MadeInv, MakerInv, GotInv
  <2>3. AtInv' /\ MeetInv'
    BY <1>4, <2>1 DEF stringVars, StringsInv, AtInv, MeetInv
  <2>4. AloneInv'
    BY <1>4, <2>1 DEF stringVars, StringsInv, AloneInv, Left
  <2>5. CharactersComeWhole'
    BY <1>4 DEF stringVars, StringsInv, CharactersComeWhole
  <2>6. QED
    BY <2>2, <2>3, <2>4, <2>5 DEF StringsInv
<1>5. QED
  BY <1>1, <1>2, <1>3, <1>4, Zenon DEF StringsNext

(* FalsoJNI.c 1175-1370, for any threads and strings: the characters that a     *)
(* thread gets of a string of NewStringUTF() are its text, whoever converts it  *)
(* at the same time; and so are those of a string of NewString() that is not    *)
(* wide and that no other call met.                                             *)
THEOREM StringsComeWhole == StringsSpec => []CharactersComeWhole
<1>1. StringsInv => CharactersComeWhole
  BY DEF StringsInv
<1>2. QED
  BY <1>1, StringsInitInv, StringsNextInv, PTL DEF StringsSpec
-----------------------------------------------------------------------------
InSession == Stands(LogMain, "boot") \/ Calling(LogMain) = "session"
\* The session comes before all else, and only main() starts it.
SessionInv ==
    /\ \A n \in LogThreads : Calling(n) = "session" \/ Stands(n, "boot") => n = LogMain
    /\ Stands(LogMain, "boot") => ~sessionLine
    /\ InSession => \A n \in LogThreads \ {LogMain} : Stands(n, "off")
    /\ InSession /\ ~sessionLine =>
           /\ stranded = {} /\ put = [by |-> NoThread, line |-> NoLine]
           /\ lockedBy = NoThread /\ ~mutexReady
           /\ inLog[LogMain].place \in {"boot", "test", "create", "publish"}
\* With its mutex announced the thread in the middle of a line is the one that
\* has it, and the buffers are that thread's.
LineInv ==
    sessionLine =>
        /\ mutexReady
        /\ \A n \in LogThreads :
               /\ inLog[n].place \notin {"create", "publish"}
               /\ lockedBy = n <=> Inside(n)
               /\ Stands(n, "format") \/ Stands(n, "compose") \/ Stands(n, "print") =>
                      Calling(n) \in Printed
               /\ Stands(n, "write") => Calling(n) \in Raw \cup Printed
               /\ Stands(n, "compose") => bufferA = n
               /\ Stands(n, "print") \/ (Stands(n, "write") /\ Calling(n) \in Printed) =>
                      bufferB = Line(n, n)
LogInv == LogTypeOK /\ SessionInv /\ LineInv /\ OneLineAtATime

LogPlaces == {"off", "boot", "idle", "test", "create", "publish", "lock",
                                   "waits", "format", "compose", "print", "write", "unlock"}
InLogs == [LogThreads -> [call : LogCalls \cup {"none"}, place : LogPlaces]]

LEMMA MovesTo ==
    ASSUME LogTypeOK, NEW n \in LogThreads, NEW place \in LogPlaces, Moves(n, place)
    PROVE  /\ inLog' \in InLogs /\ (Calling(n))' = Calling(n)
           /\ inLog'[n].call = Calling(n) /\ inLog'[n].place = place
           /\ \A m \in LogThreads \ {n} : inLog'[m] = inLog[m]
BY DEF LogTypeOK, Moves, InLogs, LogPlaces, Calling

LEMMA LeavesTo ==
    ASSUME LogTypeOK, NEW n \in LogThreads, Leaves(n)
    PROVE  /\ inLog' \in InLogs /\ inLog'[n] = Away
           /\ Calling(n) # "session" => \A m \in LogThreads \ {n} : inLog'[m] = inLog[m]
           /\ Calling(n) = "session" => \A m \in LogThreads : inLog'[m] = Away
BY DEF LogTypeOK, Leaves, InLogs, LogPlaces, Calling, Away

LEMMA LogInitInv == LogInit => LogInv
<1> SUFFICES ASSUME LogInit PROVE LogInv
  OBVIOUS
<1>1. LogTypeOK
  BY LogAssumption DEF LogInit, LogTypeOK, NoLine, Line, LogCalls, Raw, Printed
<1>2. SessionInv
  BY LogAssumption DEF LogInit, SessionInv, InSession, Stands, Calling
<1>3. ~sessionLine
  BY DEF LogInit
<1>4. LineInv /\ OneLineAtATime
  BY <1>3 DEF LineInv, OneLineAtATime
<1>5. QED
  BY <1>1, <1>2, <1>4 DEF LogInv

LEMMA EnterInv ==
    ASSUME LogInv, NEW n \in LogThreads, NEW kind \in {"raw", "unknown"} \cup Printed, BeginCall(n, kind)
    PROVE  LogInv'
<1> USE LogAssumption
<1>1. LogTypeOK
  BY DEF LogInv
<1>2. /\ inLog' \in InLogs /\ inLog'[n].call = kind /\ inLog'[n].place = "test"
      /\ \A m \in LogThreads \ {n} : inLog'[m] = inLog[m]
  BY <1>1 DEF BeginCall, LogTypeOK, InLogs, LogPlaces, LogCalls, Raw, Printed
<1>3. LogTypeOK'
  BY <1>2 DEF BeginCall, LogInv, LogTypeOK, InLogs, LogPlaces, bufferVars, Line
<1>4. SessionInv'
  BY <1>1, <1>2 DEF BeginCall, LogInv, LogTypeOK, SessionInv, InSession, Stands, Calling, bufferVars, Away, LogCalls, Raw, Printed
<1>5. LineInv' /\ OneLineAtATime'
  BY <1>1, <1>2 DEF BeginCall, LogInv, LogTypeOK, SessionInv, LineInv, OneLineAtATime, InSession, Stands, Calling, Inside, bufferVars, Away, Line, Raw, Printed, LogCalls
<1>6. QED
  BY <1>3, <1>4, <1>5 DEF LogInv

LEMMA TestReadyInv ==
    ASSUME LogInv, NEW n \in LogThreads, TestReady(n)
    PROVE  LogInv'
<1> USE LogAssumption
<1>1. LogTypeOK
  BY DEF LogInv
<1>2. /\ inLog' \in InLogs /\ (Calling(n))' = Calling(n)
      /\ inLog'[n].call = Calling(n) /\ inLog'[n].place = IF mutexReady THEN "lock" ELSE "create"
      /\ \A m \in LogThreads \ {n} : inLog'[m] = inLog[m]
  BY <1>1, MovesTo DEF TestReady, LogPlaces
<1>3. LogTypeOK'
  BY <1>2 DEF TestReady, LogInv, LogTypeOK, InLogs, LogPlaces, bufferVars, Line
<1>4. SessionInv'
  BY <1>1, <1>2 DEF TestReady, LogInv, LogTypeOK, SessionInv, InSession, Stands, Calling, bufferVars, Away, LogCalls, Raw, Printed
<1>5. LineInv' /\ OneLineAtATime'
  BY <1>1, <1>2 DEF TestReady, LogInv, LogTypeOK, SessionInv, LineInv, OneLineAtATime, InSession, Stands, Calling, Inside, bufferVars, Away, Line, Raw, Printed, LogCalls
<1>6. QED
  BY <1>3, <1>4, <1>5 DEF LogInv

LEMMA CreateMutexInv ==
    ASSUME LogInv, NEW n \in LogThreads, CreateMutex(n)
    PROVE  LogInv'
<1> USE LogAssumption
<1>1. LogTypeOK
  BY DEF LogInv
<1>2. /\ inLog' \in InLogs /\ (Calling(n))' = Calling(n)
      /\ inLog'[n].call = Calling(n) /\ inLog'[n].place = "publish"
      /\ \A m \in LogThreads \ {n} : inLog'[m] = inLog[m]
  BY <1>1, MovesTo DEF CreateMutex, LogPlaces
<1>3. LogTypeOK'
  BY <1>2 DEF CreateMutex, LogInv, LogTypeOK, InLogs, LogPlaces, bufferVars, Line
<1>4. SessionInv'
  BY <1>1, <1>2 DEF CreateMutex, LogInv, LogTypeOK, SessionInv, InSession, Stands, Calling, bufferVars, Away, LogCalls, Raw, Printed
<1>5. LineInv' /\ OneLineAtATime'
  BY <1>1, <1>2 DEF CreateMutex, LogInv, LogTypeOK, SessionInv, LineInv, OneLineAtATime, InSession, Stands, Calling, Inside, bufferVars, Away, Line, Raw, Printed, LogCalls
<1>6. QED
  BY <1>3, <1>4, <1>5 DEF LogInv

LEMMA CreateFailsInv ==
    ASSUME LogInv, NEW n \in LogThreads, CreateFails(n)
    PROVE  LogInv'
<1> USE LogAssumption
<1>1. LogTypeOK
  BY DEF LogInv
<1>2. /\ inLog' \in InLogs /\ inLog'[n] = Away
      /\ Calling(n) # "session" => \A m \in LogThreads \ {n} : inLog'[m] = inLog[m]
      /\ Calling(n) = "session" => \A m \in LogThreads : inLog'[m] = Away
  BY <1>1, LeavesTo DEF CreateFails
<1>3. LogTypeOK'
  BY <1>2 DEF CreateFails, LogInv, LogTypeOK, InLogs, LogPlaces, bufferVars, Line
<1>4. SessionInv'
  BY <1>1, <1>2 DEF CreateFails, LogInv, LogTypeOK, SessionInv, InSession, Stands, Calling, bufferVars, Away, LogCalls, Raw, Printed
<1>5. LineInv' /\ OneLineAtATime'
  BY <1>1, <1>2 DEF CreateFails, LogInv, LogTypeOK, SessionInv, LineInv, OneLineAtATime, InSession, Stands, Calling, Inside, bufferVars, Away, Line, Raw, Printed, LogCalls
<1>6. QED
  BY <1>3, <1>4, <1>5 DEF LogInv

LEMMA PublishMutexInv ==
    ASSUME LogInv, NEW n \in LogThreads, PublishMutex(n)
    PROVE  LogInv'
<1> USE LogAssumption
<1>1. LogTypeOK
  BY DEF LogInv
<1>2. /\ inLog' \in InLogs /\ (Calling(n))' = Calling(n)
      /\ inLog'[n].call = Calling(n) /\ inLog'[n].place = "lock"
      /\ \A m \in LogThreads \ {n} : inLog'[m] = inLog[m]
  BY <1>1, MovesTo DEF PublishMutex, LogPlaces
<1>3. LogTypeOK'
  BY <1>2 DEF PublishMutex, LogInv, LogTypeOK, InLogs, LogPlaces, bufferVars, Line
<1>4. sessionLine' <=> sessionLine \/ Calling(n) = "session"
  BY DEF PublishMutex
<1>5. mutexReady' /\ UNCHANGED <<enabled, lockedBy, stranded, bufferA, bufferB, file, put>>
  BY DEF PublishMutex, bufferVars
<1>6. Stands(n, "publish")
  BY DEF PublishMutex
<1>7. SessionInv'
  <2>1. CASE Calling(n) = "session"
    BY <1>1, <1>2, <1>4, <1>6, <2>1 DEF LogInv, SessionInv, InSession, Stands, Calling
  <2>2. CASE Calling(n) # "session"
    BY <1>1, <1>2, <1>4, <1>5, <1>6, <2>2 DEF LogInv, SessionInv, InSession, Stands, Calling
  <2>3. QED
    BY <2>1, <2>2
<1>8. LineInv' /\ OneLineAtATime'
  <2>1. ~sessionLine
    BY <1>6 DEF LogInv, LineInv, Stands
  <2>2. CASE Calling(n) # "session"
    BY <1>4, <2>1, <2>2 DEF LineInv, OneLineAtATime
  <2>3. CASE Calling(n) = "session"
    <3>1. /\ n = LogMain /\ stranded = {} /\ lockedBy = NoThread
          /\ put = [by |-> NoThread, line |-> NoLine]
          /\ \A m \in LogThreads \ {n} : inLog[m].place = "off"
      BY <2>1, <2>3 DEF LogInv, SessionInv, InSession, Stands, Calling
    <3>2. \A m \in LogThreads : inLog'[m].place \in {"off", "lock"}
      BY <1>2, <3>1
    <3>3. LineInv'
      BY <1>5, <3>1, <3>2 DEF LineInv, Stands, Inside
    <3>4. OneLineAtATime'
      BY <1>5, <3>1 DEF OneLineAtATime, Line, NoLine
    <3>5. QED
      BY <3>3, <3>4
  <2>4. QED
    BY <2>2, <2>3
<1>9. QED
  BY <1>3, <1>7, <1>8 DEF LogInv

LEMMA LockInv ==
    ASSUME LogInv, NEW n \in LogThreads, Lock(n)
    PROVE  LogInv'
<1> USE LogAssumption
<1>1. LogTypeOK
  BY DEF LogInv
<1>2. /\ inLog' \in InLogs /\ (Calling(n))' = Calling(n)
      /\ inLog'[n].call = Calling(n) /\ inLog'[n].place = CASE Calling(n) \in Printed -> "format"
                 [] Calling(n) \in Raw -> "write"
                 [] OTHER -> "unlock"
      /\ \A m \in LogThreads \ {n} : inLog'[m] = inLog[m]
  BY <1>1, MovesTo DEF Lock, LogPlaces
<1>3. LogTypeOK'
  BY <1>2 DEF Lock, LogInv, LogTypeOK, InLogs, LogPlaces, bufferVars, Line
<1>4. SessionInv'
  BY <1>1, <1>2 DEF Lock, LogInv, LogTypeOK, SessionInv, InSession, Stands, Calling, bufferVars, Away, LogCalls, Raw, Printed
<1>5. LineInv' /\ OneLineAtATime'
  BY <1>1, <1>2 DEF Lock, LogInv, LogTypeOK, SessionInv, LineInv, OneLineAtATime, InSession, Stands, Calling, Inside, bufferVars, Away, Line, Raw, Printed, LogCalls
<1>6. QED
  BY <1>3, <1>4, <1>5 DEF LogInv

LEMMA WaitForLockInv ==
    ASSUME LogInv, NEW n \in LogThreads, WaitForLock(n)
    PROVE  LogInv'
<1> USE LogAssumption
<1>1. LogTypeOK
  BY DEF LogInv
<1>2. /\ inLog' \in InLogs /\ (Calling(n))' = Calling(n)
      /\ inLog'[n].call = Calling(n) /\ inLog'[n].place = "waits"
      /\ \A m \in LogThreads \ {n} : inLog'[m] = inLog[m]
  BY <1>1, MovesTo DEF WaitForLock, LogPlaces
<1>3. LogTypeOK'
  BY <1>2 DEF WaitForLock, LogInv, LogTypeOK, InLogs, LogPlaces, bufferVars, Line
<1>4. SessionInv'
  BY <1>1, <1>2 DEF WaitForLock, LogInv, LogTypeOK, SessionInv, InSession, Stands, Calling, bufferVars, Away, LogCalls, Raw, Printed
<1>5. LineInv' /\ OneLineAtATime'
  BY <1>1, <1>2 DEF WaitForLock, LogInv, LogTypeOK, SessionInv, LineInv, OneLineAtATime, InSession, Stands, Calling, Inside, bufferVars, Away, Line, Raw, Printed, LogCalls
<1>6. QED
  BY <1>3, <1>4, <1>5 DEF LogInv

LEMMA FormatLineInv ==
    ASSUME LogInv, NEW n \in LogThreads, FormatLine(n)
    PROVE  LogInv'
<1> USE LogAssumption
<1>1. LogTypeOK
  BY DEF LogInv
<1>2. /\ inLog' \in InLogs /\ (Calling(n))' = Calling(n)
      /\ inLog'[n].call = Calling(n) /\ inLog'[n].place = "compose"
      /\ \A m \in LogThreads \ {n} : inLog'[m] = inLog[m]
  BY <1>1, MovesTo DEF FormatLine, LogPlaces
<1>3. LogTypeOK'
  BY <1>2 DEF FormatLine, LogInv, LogTypeOK, InLogs, LogPlaces, bufferVars, Line
<1>4. SessionInv'
  BY <1>1, <1>2 DEF FormatLine, LogInv, LogTypeOK, SessionInv, InSession, Stands, Calling, bufferVars, Away, LogCalls, Raw, Printed
<1>5. LineInv' /\ OneLineAtATime'
  BY <1>1, <1>2 DEF FormatLine, LogInv, LogTypeOK, SessionInv, LineInv, OneLineAtATime, InSession, Stands, Calling, Inside, bufferVars, Away, Line, Raw, Printed, LogCalls
<1>6. QED
  BY <1>3, <1>4, <1>5 DEF LogInv

LEMMA ComposeLineInv ==
    ASSUME LogInv, NEW n \in LogThreads, ComposeLine(n)
    PROVE  LogInv'
<1> USE LogAssumption
<1>1. LogTypeOK
  BY DEF LogInv
<1>2. /\ inLog' \in InLogs /\ (Calling(n))' = Calling(n)
      /\ inLog'[n].call = Calling(n) /\ inLog'[n].place = "print"
      /\ \A m \in LogThreads \ {n} : inLog'[m] = inLog[m]
  BY <1>1, MovesTo DEF ComposeLine, LogPlaces
<1>3. LogTypeOK'
  BY <1>2 DEF ComposeLine, LogInv, LogTypeOK, InLogs, LogPlaces, bufferVars, Line
<1>4. SessionInv'
  BY <1>1, <1>2 DEF ComposeLine, LogInv, LogTypeOK, SessionInv, InSession, Stands, Calling, bufferVars, Away, LogCalls, Raw, Printed
<1>5. LineInv' /\ OneLineAtATime'
  BY <1>1, <1>2 DEF ComposeLine, LogInv, LogTypeOK, SessionInv, LineInv, OneLineAtATime, InSession, Stands, Calling, Inside, bufferVars, Away, Line, Raw, Printed, LogCalls
<1>6. QED
  BY <1>3, <1>4, <1>5 DEF LogInv

LEMMA PrintLineInv ==
    ASSUME LogInv, NEW n \in LogThreads, PrintLine(n)
    PROVE  LogInv'
<1> USE LogAssumption
<1>1. LogTypeOK
  BY DEF LogInv
<1>2. /\ inLog' \in InLogs /\ (Calling(n))' = Calling(n)
      /\ inLog'[n].call = Calling(n) /\ inLog'[n].place = "write"
      /\ \A m \in LogThreads \ {n} : inLog'[m] = inLog[m]
  BY <1>1, MovesTo DEF PrintLine, LogPlaces
<1>3. LogTypeOK'
  BY <1>2 DEF PrintLine, LogInv, LogTypeOK, InLogs, LogPlaces, bufferVars, Line
<1>4. SessionInv'
  BY <1>1, <1>2 DEF PrintLine, LogInv, LogTypeOK, SessionInv, InSession, Stands, Calling, bufferVars, Away, LogCalls, Raw, Printed
<1>5. LineInv' /\ OneLineAtATime'
  BY <1>1, <1>2 DEF PrintLine, LogInv, LogTypeOK, SessionInv, LineInv, OneLineAtATime, InSession, Stands, Calling, Inside, bufferVars, Away, Line, Raw, Printed, LogCalls
<1>6. QED
  BY <1>3, <1>4, <1>5 DEF LogInv

LEMMA WriteLineInv ==
    ASSUME LogInv, NEW n \in LogThreads, WriteLine(n)
    PROVE  LogInv'
<1> USE LogAssumption
<1>1. LogTypeOK
  BY DEF LogInv
<1>2. /\ inLog' \in InLogs /\ (Calling(n))' = Calling(n)
      /\ inLog'[n].call = Calling(n) /\ inLog'[n].place = "unlock"
      /\ \A m \in LogThreads \ {n} : inLog'[m] = inLog[m]
  BY <1>1, MovesTo DEF WriteLine, LogPlaces
<1>3. LogTypeOK'
  BY <1>2 DEF WriteLine, LogInv, LogTypeOK, InLogs, LogPlaces, bufferVars, Line
<1>4. SessionInv'
  BY <1>1, <1>2 DEF WriteLine, LogInv, LogTypeOK, SessionInv, InSession, Stands, Calling, bufferVars, Away, LogCalls, Raw, Printed
<1>5. LineInv' /\ OneLineAtATime'
  <2> SUFFICES ASSUME sessionLine PROVE LineInv' /\ OneLineAtATime'
    BY DEF WriteLine, LineInv, OneLineAtATime
  <2>1. Stands(n, "write") /\ Inside(n) /\ lockedBy = n
    BY DEF WriteLine, Stands, Inside, LogInv, LineInv
  <2>2. put' \in {put, [by |-> n, line |-> Line(n, n)]}
    <3>1. CASE Calling(n) \in Raw
      BY <3>1 DEF WriteLine
    <3>2. CASE Calling(n) \in Printed
      BY <2>1, <3>2 DEF WriteLine, LogInv, LineInv
    <3>3. CASE Calling(n) \notin Raw \cup Printed
      BY <2>1, <3>3 DEF WriteLine, LogInv, LineInv
    <3>4. QED
      BY <3>1, <3>2, <3>3
  <2>3. OneLineAtATime'
    BY <1>2, <2>1, <2>2 DEF WriteLine, LogInv, OneLineAtATime, Inside, Line
  <2>4. LineInv'
    BY <1>2, <2>1 DEF WriteLine, LogInv, LineInv, Stands, Calling, Inside
  <2>5. QED
    BY <2>3, <2>4
<1>6. QED
  BY <1>3, <1>4, <1>5 DEF LogInv

LEMMA UnlockInv ==
    ASSUME LogInv, NEW n \in LogThreads, Unlock(n)
    PROVE  LogInv'
<1> USE LogAssumption
<1>1. LogTypeOK
  BY DEF LogInv
<1>2. /\ inLog' \in InLogs /\ inLog'[n] = Away
      /\ Calling(n) # "session" => \A m \in LogThreads \ {n} : inLog'[m] = inLog[m]
      /\ Calling(n) = "session" => \A m \in LogThreads : inLog'[m] = Away
  BY <1>1, LeavesTo DEF Unlock
<1>3. LogTypeOK'
  BY <1>2 DEF Unlock, LogInv, LogTypeOK, InLogs, LogPlaces, bufferVars, Line
<1>4. SessionInv'
  BY <1>1, <1>2 DEF Unlock, LogInv, LogTypeOK, SessionInv, InSession, Stands, Calling, bufferVars, Away, LogCalls, Raw, Printed
<1>5. LineInv' /\ OneLineAtATime'
  BY <1>1, <1>2 DEF Unlock, LogInv, LogTypeOK, SessionInv, LineInv, OneLineAtATime, InSession, Stands, Calling, Inside, bufferVars, Away, Line, Raw, Printed, LogCalls
<1>6. QED
  BY <1>3, <1>4, <1>5 DEF LogInv

LEMMA StartSessionInv ==
    ASSUME LogInv, StartSession
    PROVE  LogInv'
<1> USE LogAssumption
<1>1. LogTypeOK /\ Stands(LogMain, "boot") /\ enabled' \in BOOLEAN
  BY DEF LogInv, StartSession
<1>2. UNCHANGED <<mutexReady, lockedBy, stranded, bufferA, bufferB, file, put, sessionLine>>
  BY DEF StartSession, bufferVars
<1>3. ~sessionLine
  BY <1>1 DEF LogInv, SessionInv
<1>4. LineInv' /\ OneLineAtATime'
  BY <1>2, <1>3 DEF LineInv, OneLineAtATime
<1>5. CASE enabled'
  <2>1. /\ inLog' \in InLogs /\ inLog'[LogMain] = [call |-> "session", place |-> "test"]
        /\ \A m \in LogThreads \ {LogMain} : inLog'[m] = inLog[m]
    BY <1>1, <1>5 DEF StartSession, LogTypeOK, InLogs, LogPlaces, LogCalls, Raw, Printed
  <2>2. LogTypeOK'
    BY <1>1, <1>2, <2>1 DEF LogTypeOK, InLogs, LogPlaces, Line
  <2>3. SessionInv'
    BY <1>1, <1>2, <1>3, <2>1 DEF LogInv, SessionInv, InSession, Stands, Calling
  <2>4. QED
    BY <1>4, <2>2, <2>3 DEF LogInv
<1>6. CASE ~enabled'
  <2>1. inLog' \in InLogs /\ \A m \in LogThreads : inLog'[m] = Away
    BY <1>6 DEF StartSession, InLogs, LogPlaces, LogCalls, Raw, Printed, Away
  <2>2. LogTypeOK'
    BY <1>1, <1>2, <2>1 DEF LogTypeOK, InLogs, LogPlaces, Line
  <2>3. SessionInv'
    BY <1>2, <2>1 DEF LogInv, SessionInv, InSession, Stands, Calling, Away
  <2>4. QED
    BY <1>4, <2>2, <2>3 DEF LogInv
<1>7. QED
  BY <1>5, <1>6

LEMMA LogNextInv ==
    ASSUME LogInv, LogNext
    PROVE  LogInv'
<1>1. CASE StartSession
  BY <1>1, StartSessionInv
<1>2. ASSUME NEW n \in LogThreads, LogStep(n) PROVE LogInv'
  <2>1. CASE log_write_raw(n)
    BY <2>1, EnterInv DEF log_write_raw
  <2>2. ASSUME NEW kind \in Printed \cup {"unknown"}, log_print(n, kind) PROVE LogInv'
    BY <2>2, EnterInv DEF log_print
  <2>3. CASE TestReady(n) \/ CreateMutex(n) \/ CreateFails(n) \/ PublishMutex(n)
    BY <2>3, TestReadyInv, CreateMutexInv, CreateFailsInv, PublishMutexInv
  <2>4. CASE Lock(n) \/ WaitForLock(n) \/ FormatLine(n) \/ ComposeLine(n)
    BY <2>4, LockInv, WaitForLockInv, FormatLineInv, ComposeLineInv
  <2>5. CASE PrintLine(n) \/ WriteLine(n) \/ Unlock(n)
    BY <2>5, PrintLineInv, WriteLineInv, UnlockInv
  <2>6. QED
    BY <1>2, <2>1, <2>2, <2>3, <2>4, <2>5 DEF LogStep
<1>3. QED
  BY <1>1, <1>2 DEF LogNext

(* logger.c 71-178: for any number of threads that log, every line after the   *)
(* session's first has the format and the arguments of the thread that puts    *)
(* it, and the mutex is never replaced under a waiting thread.                 *)
THEOREM LinesComeWhole == LogSpec => []OneLineAtATime
<1>1. LogInv /\ [LogNext]_logVars => LogInv'
  <2> SUFFICES ASSUME LogInv, UNCHANGED logVars PROVE LogInv'
    BY LogNextInv
  <2> QED
    BY DEF LogInv, LogTypeOK, SessionInv, InSession, LineInv, OneLineAtATime, logVars, Stands,
           Calling, Inside
<1>2. LogInv => OneLineAtATime
  BY DEF LogInv
<1>3. QED
  BY LogInitInv, <1>1, <1>2, PTL DEF LogSpec
-----------------------------------------------------------------------------
\* The locals hold words, and what was read lies in a block.
Locals == [object : Values, length : Nat, characters : Values]
Covered ==
    lastRead.size > 0 =>
        \E block \in Memory :
            /\ block.base <= lastRead.base
            /\ lastRead.base + lastRead.size <= block.base + block.size
ReadsInv ==
    /\ heapEnd \in HeapBase..HeapLimit
    /\ wanted \in Locals
    /\ lastRead \in [base : Nat, size : Nat]
    /\ written \in 0..OutputSize
    /\ Covered

LEMMA ValidIsInside ==
    ASSUME heapEnd \in HeapBase..HeapLimit, NEW address \in Nat, NEW size \in Nat,
           RangeValid(address, size, heapEnd)
    PROVE  \E block \in Memory :
               block.base <= address /\ address + size <= block.base + block.size
<1> USE WordAssumption, SegmentsAssumption
<1>1. DataCount \in 0..MaxSegments
  BY DEF DataCount
<1>2. ASSUME NEW block \in Blocks, BoundedRangeValid(address, size, block)
      PROVE  block.base <= address /\ address + size <= block.base + block.size
  BY <1>2 DEF BoundedRangeValid, Blocks
<1>3. CASE ModuleRangeValid(address, size)
  <2>1. ExecSegment \in Memory /\ \A i \in 1..DataCount : DataSegments[i] \in Memory \cap Blocks
    BY <1>1 DEF Memory
  <2>2. QED
    BY <1>2, <1>3, <2>1 DEF ModuleRangeValid
<1>4. CASE HeapRangeValid(address, size, heapEnd)
  <2> DEFINE heap == Segment(HeapBase, heapEnd - HeapBase)
  <2>1. heap \in Memory /\ heap \in Blocks
    BY DEF Memory, Segment, Blocks
  <2>2. BoundedRangeValid(address, size, heap)
    BY <1>4 DEF HeapRangeValid
  <2>3. QED
    BY <1>2, <2>1, <2>2
<1>5. CASE FindMemBlock(address, size)
  BY <1>5 DEF FindMemBlock, Memory
<1>6. QED
  BY <1>3, <1>4, <1>5 DEF RangeValid

LEMMA ReadIsCovered ==
    ASSUME ReadsInv, heapEnd' = heapEnd, NEW address \in Nat, NEW size \in Nat,
           ReadBytes(address, size)
    PROVE  Covered' /\ lastRead' \in [base : Nat, size : Nat]
<1>1. PICK block \in Memory :
          block.base <= address /\ address + size <= block.base + block.size
  BY ValidIsInside DEF ReadsInv, ReadBytes
<1>2. lastRead' = Segment(address, size) /\ Memory' = Memory
  BY DEF ReadBytes, Memory
<1>3. QED
  BY <1>1, <1>2 DEF Covered, Segment

LEMMA NothingIsCovered ==
    ASSUME lastRead' = NoBytes
    PROVE  Covered' /\ lastRead' \in [base : Nat, size : Nat]
BY DEF NoBytes, Segment, Covered

LEMMA SameIsCovered ==
    ASSUME ReadsInv, heapEnd' = heapEnd, lastRead' = lastRead
    PROVE  Covered' /\ lastRead' \in [base : Nat, size : Nat]
BY DEF ReadsInv, Covered, Memory

LEMMA WordsStay ==
    /\ \A address \in Values, n \in Values : Plus(address, n) \in Values
    /\ NoLocals \in Locals /\ 0 \in Values /\ Values \subseteq Nat
<1>1. \A sum \in Nat : sum % Word \in Values
  BY WordAssumption, SMT DEF Values
<1>2. 0 \in Values /\ Values \subseteq Nat
  BY WordAssumption DEF Values
<1>3. QED
  BY <1>1, <1>2 DEF Plus, NoLocals, Locals

LEMMA NamesAreWords == ReadsInv => NameOf(wanted.object) \in Values
<1>1. NameOffset \in Values
  BY WordAssumption DEF Values
<1>2. ReadsInv => wanted.object \in Values
  BY DEF ReadsInv, Locals
<1>3. QED
  BY <1>1, <1>2, WordsStay DEF NameOf

LEMMA GrowHeapInv ==
    ASSUME ReadsInv, GrowHeap
    PROVE  ReadsInv'
<1> USE WordAssumption, SegmentsAssumption
<1>1. heapEnd' \in HeapBase..HeapLimit /\ heapEnd <= heapEnd'
  BY DEF ReadsInv, GrowHeap
<1>2. Covered'
  <2> SUFFICES ASSUME lastRead.size > 0
               PROVE  \E block \in Memory' :
                          /\ block.base <= lastRead.base
                          /\ lastRead.base + lastRead.size <= block.base + block.size
    BY DEF GrowHeap, Covered
  <2>1. PICK block \in Memory :
            /\ block.base <= lastRead.base
            /\ lastRead.base + lastRead.size <= block.base + block.size
    BY DEF ReadsInv, Covered
  <2>2. CASE block = Segment(HeapBase, heapEnd - HeapBase)
    <3>1. Segment(HeapBase, heapEnd' - HeapBase) \in Memory'
      BY DEF Memory
    <3>2. HeapBase <= lastRead.base /\ lastRead.base + lastRead.size <= heapEnd
      BY <2>1, <2>2, <1>1 DEF Segment, ReadsInv
    <3>3. QED
      BY <1>1, <3>1, <3>2 DEF Segment, ReadsInv
  <2>3. CASE block # Segment(HeapBase, heapEnd - HeapBase)
    BY <2>1, <2>3 DEF Memory
  <2>4. QED
    BY <2>2, <2>3
<1>3. QED
  BY <1>1, <1>2 DEF ReadsInv, GrowHeap

LEMMA ObjectReadInv ==
    ASSUME ReadsInv, NEW value \in Values, ReadVptr(value) \/ ReadTypeinfo(value)
    PROVE  ReadsInv'
<1> USE WordAssumption, WordsStay
<1>1. heapEnd' = heapEnd /\ written' = written /\ wanted' = NoLocals
  BY DEF ReadVptr, ReadTypeinfo, ReadEnds, Fail, CannotRead, GoOn
<1>2. value \in Nat /\ (value >= 4 => value - 4 \in Nat)
  BY DEF Values
<1>3. \/ lastRead' = NoBytes \/ ReadBytes(value, 4)
      \/ value >= 4 /\ ReadBytes(value - 4, 4)
  BY DEF ReadVptr, ReadTypeinfo, CannotRead, Fail
<1>4. Covered' /\ lastRead' \in [base : Nat, size : Nat]
  BY <1>1, <1>2, <1>3, ReadIsCovered, NothingIsCovered
<1>5. QED
  BY <1>1, <1>4 DEF ReadsInv

LEMMA NameReadInv ==
    ASSUME ReadsInv, NEW value \in Values,
           BeginName(value) \/ ReadLength(value) \/ ReadPointer(value)
    PROVE  ReadsInv'
<1> USE WordAssumption, WordsStay
<1>1. CASE BeginName(value)
  <2>1. NameOf(value) \in Nat
    BY DEF NameOf, Values
  <2>2. Covered' /\ lastRead' \in [base : Nat, size : Nat]
    BY <1>1, <2>1, ReadIsCovered DEF BeginName
  <2>3. wanted' \in Locals
    BY <1>1 DEF BeginName, GoOn, Locals, NoLocals
  <2>4. QED
    BY <1>1, <2>2, <2>3 DEF BeginName, ReadsInv
<1>2. CASE ReadLength(value)
  <2> DEFINE address == Plus(NameOf(wanted.object), 8)
  <2>1. address \in Nat
    BY NamesAreWords, SMT DEF Plus, Values
  <2>2. wanted' \in Locals /\ heapEnd' = heapEnd /\ written' = written
    BY <1>2 DEF ReadLength, GoOn, CannotRead, Fail, ReadEnds, Locals, ReadsInv
  <2>3. lastRead' = NoBytes \/ ReadBytes(address, 4)
    BY <1>2 DEF ReadLength, CannotRead, Fail
  <2>4. Covered' /\ lastRead' \in [base : Nat, size : Nat]
    BY <2>1, <2>2, <2>3, ReadIsCovered, NothingIsCovered
  <2>5. QED
    BY <2>2, <2>4 DEF ReadsInv
<1>3. CASE ReadPointer(value)
  <2>1. wanted' \in Locals /\ heapEnd' = heapEnd /\ written' = written
    BY <1>3 DEF ReadPointer, GoOn, Fail, ReadEnds, Locals, ReadsInv
  <2>2. lastRead' = NoBytes \/ lastRead' = lastRead
    BY <1>3 DEF ReadPointer, Fail
  <2>3. Covered' /\ lastRead' \in [base : Nat, size : Nat]
    BY <2>1, <2>2, SameIsCovered, NothingIsCovered
  <2>4. QED
    BY <2>1, <2>3 DEF ReadsInv
<1>4. QED
  BY <1>1, <1>2, <1>3

LEMMA FirstByteInv ==
    ASSUME ReadsInv, NEW first \in ByteValues, ShortName(first) \/ LongName(first)
    PROVE  ReadsInv'
<1> USE WordAssumption, WordsStay
<1>1. NameOf(wanted.object) \in Values
  BY NamesAreWords
<1>2. CASE ShortName(first)
  <2>1. first \div 2 \in Nat
    BY SMT
  <2>2. Plus(NameOf(wanted.object), 1) \in Values
    <3>1. 1 \in Values
      BY DEF Values
    <3>2. QED
      BY <1>1, <3>1
  <2>3. wanted' \in Locals /\ heapEnd' = heapEnd /\ written' = written
    BY <1>2, <2>1, <2>2 DEF ShortName, GoOn, Fail, ReadEnds, Locals, ReadsInv
  <2>4. lastRead' = NoBytes \/ lastRead' = lastRead
    BY <1>2 DEF ShortName, Fail
  <2>5. Covered' /\ lastRead' \in [base : Nat, size : Nat]
    BY <2>3, <2>4, SameIsCovered, NothingIsCovered
  <2>6. QED
    BY <2>3, <2>5 DEF ReadsInv
<1>3. CASE LongName(first)
  <2> DEFINE address == Plus(NameOf(wanted.object), 4)
  <2>1. address \in Nat
    BY <1>1, SMT DEF Plus, Values
  <2>2. wanted' \in Locals /\ heapEnd' = heapEnd /\ written' = written
    BY <1>3 DEF LongName, GoOn, CannotRead, Fail, ReadEnds, ReadsInv
  <2>3. lastRead' = NoBytes \/ ReadBytes(address, 4)
    BY <1>3 DEF LongName, CannotRead, Fail
  <2>4. Covered' /\ lastRead' \in [base : Nat, size : Nat]
    BY <2>1, <2>2, <2>3, ReadIsCovered, NothingIsCovered
  <2>5. QED
    BY <2>2, <2>4 DEF ReadsInv
<1>4. QED
  BY <1>2, <1>3

LEMMA CopyNameInv ==
    ASSUME ReadsInv, CopyName
    PROVE  ReadsInv'
<1> USE WordAssumption, WordsStay
<1>1. CopyLength \in 0..OutputSize - 1 /\ wanted.characters \in Nat
  <2>1. wanted.length \in Nat /\ wanted.characters \in Values
    BY DEF ReadsInv, Locals
  <2>2. CopyLength \in 0..OutputSize - 1
    BY <2>1 DEF CopyLength
  <2>3. QED
    BY <2>1, <2>2
<1>2. wanted' = NoLocals /\ heapEnd' = heapEnd /\ written' \in {written, CopyLength + 1}
  BY DEF CopyName, ReadEnds, CannotRead, Fail
<1>3. \/ lastRead' = NoBytes \/ lastRead' = lastRead
      \/ ReadBytes(wanted.characters, CopyLength)
  BY DEF CopyName, CannotRead, Fail
<1>4. Covered' /\ lastRead' \in [base : Nat, size : Nat]
  BY <1>1, <1>2, <1>3, ReadIsCovered, SameIsCovered, NothingIsCovered
<1>5. QED
  BY <1>1, <1>2, <1>4 DEF ReadsInv

(* ui_context.c 147-198 and 243-309: for any segments, heap and layout, and for *)
(* words of any size, no byte is read outside of a block that is there.         *)
THEOREM ReadsAreInside == ReadsSpec => []ReadsStayInside
<1>1. ReadsInit => ReadsInv
  <2> SUFFICES ASSUME ReadsInit PROVE ReadsInv
    OBVIOUS
  <2>1. lastRead.size = 0 /\ lastRead \in [base : Nat, size : Nat]
    BY DEF ReadsInit, NoBytes, Segment
  <2>2. QED
    BY <2>1, WordsStay, WordAssumption DEF ReadsInit, ReadsInv, Covered
<1>2. ReadsInv /\ [ReadsNext]_readVars => ReadsInv'
  <2> SUFFICES ASSUME ReadsInv, [ReadsNext]_readVars PROVE ReadsInv'
    OBVIOUS
  <2>1. CASE GrowHeap
    BY <2>1, GrowHeapInv
  <2>2. CASE CopyName
    BY <2>2, CopyNameInv
  <2>3. ASSUME NEW value \in Values, ReadVptr(value) \/ ReadTypeinfo(value)
        PROVE  ReadsInv'
    BY <2>3, ObjectReadInv
  <2>4. ASSUME NEW value \in Values,
               BeginName(value) \/ ReadLength(value) \/ ReadPointer(value)
        PROVE  ReadsInv'
    BY <2>4, NameReadInv
  <2>5. ASSUME NEW first \in ByteValues, ShortName(first) \/ LongName(first)
        PROVE  ReadsInv'
    BY <2>5, FirstByteInv
  <2>6. CASE UNCHANGED readVars
    BY <2>6 DEF ReadsInv, Covered, Memory, readVars
  <2>7. QED
    BY <2>1, <2>2, <2>3, <2>4, <2>5, <2>6 DEF ReadsNext
<1>3. ReadsInv => ReadsStayInside
  BY DEF ReadsInv, Covered, ReadsStayInside
<1>4. QED
  BY <1>1, <1>2, <1>3, PTL DEF ReadsSpec
(* In the union that MCEngine runs each part makes its own steps or none: what  *)
(* is proved above of a part alone holds in the union.                          *)
THEOREM EngineIsItsParts ==
    EngineSpec => /\ LoaderSpec /\ CallsiteSpec /\ ProbeSpec
                  /\ StringsSpec /\ LogSpec /\ ReadsSpec /\ Spec
<1>1. EngineInit => /\ LoaderInit /\ CallsiteInit /\ ProbeInit
                    /\ StringsInit /\ LogInit /\ ReadsInit /\ Init
  BY DEF EngineInit
<1>2. ASSUME [EngineNext]_<<part, loaderVars, bridgeVars, probeVars, stringVars, logVars,
                            readVars, vars>>
      PROVE  /\ [LoaderNext]_loaderVars /\ [CallsiteNext]_bridgeVars
             /\ [ProbeNext]_probeVars /\ [StringsNext]_stringVars
             /\ [LogNext]_logVars /\ [ReadsNext]_readVars /\ [Next]_vars
  BY <1>2, Zenon DEF EngineNext, Keep
<1>3. QED
  BY <1>1, <1>2, PTL
     DEF EngineSpec, LoaderSpec, CallsiteSpec, ProbeSpec, StringsSpec, LogSpec, ReadsSpec, Spec

(* So what TLC checks of them in the union, with callers that destroy a mutex   *)
(* before they use its memory again, holds there for all values of the          *)
(* constants.                                                                   *)
THEOREM EngineIsSafe ==
    ASSUME ~Forgetful
    PROVE  EngineSpec =>
               []( /\ OnlyWholeImagesRun /\ BridgesAreTransparent /\ NestedTimesFit
                   /\ CharactersComeWhole /\ OneLineAtATime /\ ReadsStayInside
                   /\ MutualExclusion /\ NoMisuse /\ RegistryExact /\ NothingLeaks )
BY EngineIsItsParts, EngineStartsWhole, BridgesDoNotShow, SampledTimesNest,
   StringsComeWhole, LinesComeWhole, ReadsAreInside, MutualExclusionHolds, NoMisuseHolds,
   RegistryExactHolds, NothingLeaksHolds, PTL
=============================================================================
