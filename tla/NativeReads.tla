----------------------------- MODULE NativeReads -----------------------------
(* How src/source/reimpl/ui_context.c reads the memory of the engine: every     *)
(* address is compared with the segments of libnative.so, with newlib's heap    *)
(* and with what the system knows, in unsigned numbers that wrap around.  The   *)
(* engine's threads may write to what is read in the meantime, so each read     *)
(* gives any value; on such values a std::string of libc++ is followed to its   *)
(* characters.  A word has four bytes.                                          *)
EXTENDS Integers

CONSTANTS
    Word,           \* 2^32
    FirstAddress,   \* 0x10000
    ExecSegment,    \* so_mod.exec_base and exec_size
    DataSegments,   \* so_mod.data_base and data_size
    SegmentCount,   \* so_mod.n_data
    MaxSegments,    \* MAX_DATA_SEG
    HeapBase,       \* __malloc_sbrk_base
    HeapLimit,      \* what sbrk() can reach
    OtherBlocks,    \* memory that only the system knows of
    NameOffset,     \* screen_name of the layout
    StringSize,     \* ANDROID_STRING_SIZE
    LongestName,    \* 255
    OutputSize,     \* the bytes of the caller's array
    ByteValues      \* values of a byte that reads may give

ASSUME WordAssumption ==
    /\ Word \in Nat /\ FirstAddress \in 1..Word - 1
    /\ SegmentCount \in Int /\ MaxSegments \in Nat
    /\ NameOffset \in 0..Word - 1 /\ StringSize \in 1..Word - 1
    /\ LongestName \in 0..Word - 1 /\ OutputSize \in Nat \ {0}
    /\ ByteValues \subseteq Nat

Blocks == [base : 0..Word - 1, size : 0..Word - 1]

ASSUME SegmentsAssumption ==
    /\ ExecSegment \in Blocks
    /\ DataSegments \in [1..MaxSegments -> Blocks]
    /\ OtherBlocks \subseteq Blocks
    /\ HeapBase \in 0..Word - 1 /\ HeapLimit \in HeapBase..Word - 1

VARIABLES
    heapEnd,        \* sbrk(0)
    stage,          \* what is read next
    wanted,         \* the locals of read_android_string()
    lastRead,       \* the bytes read last: where, and how many (0: none)
    written         \* bytes of the output that are in use

readVars == <<heapEnd, stage, wanted, lastRead, written>>

Values == 0..Word - 1
Plus(address, n) == (address + n) % Word
Segment(base, size) == [base |-> base, size |-> size]

\* bounded_range_valid()
\* Mutant: the size is not compared first, so that the difference wraps.
BoundedAnySize(address, size, block) ==
    /\ block.base # 0 /\ block.size # 0 /\ address >= block.base
    /\ address - block.base <= (block.size - size) % Word

BoundedRangeValid(address, size, block) ==
    /\ block.base # 0 /\ block.size # 0 /\ address >= block.base
    /\ size <= block.size
    /\ address - block.base <= block.size - size

Plausible(address, size) ==
    address >= FirstAddress /\ size # 0 /\ address <= Word - 1 - size

\* Neither a negative number of segments nor one too many is believed.
DataCount ==
    IF SegmentCount < 0 THEN 0 ELSE IF SegmentCount > MaxSegments THEN MaxSegments
    ELSE SegmentCount

ModuleRangeValid(address, size) ==
    /\ Plausible(address, size)
    /\ \/ BoundedRangeValid(address, size, ExecSegment)
       \/ \E i \in 1..DataCount : BoundedRangeValid(address, size, DataSegments[i])

\* sbrk(0) is all ones when it fails.
HeapRangeValid(address, size, current) ==
    /\ HeapBase # Word - 1 /\ current # Word - 1 /\ current > HeapBase
    /\ BoundedRangeValid(address, size, Segment(HeapBase, current - HeapBase))

\* sceKernelFindMemBlockByAddr()
FindMemBlock(address, size) ==
    \E block \in OtherBlocks :
        block.base <= address /\ address + size <= block.base + block.size

RangeValid(address, size, current) ==
    /\ Plausible(address, size)
    /\ \/ ModuleRangeValid(address, size)
       \/ HeapRangeValid(address, size, current)
       \/ FindMemBlock(address, size)
-----------------------------------------------------------------------------
NoLocals == [object |-> 0, length |-> 0, characters |-> 0]
NoBytes == Segment(0, 0)

ReadsInit ==
    /\ heapEnd \in HeapBase..HeapLimit
    /\ stage = "idle" /\ wanted = NoLocals
    /\ lastRead = NoBytes /\ written = 0

\* malloc() of the engine may take more, between any two reads.
GrowHeap ==
    /\ heapEnd' \in heapEnd..HeapLimit
    /\ UNCHANGED <<stage, wanted, lastRead, written>>

ReadEnds == stage' = "idle" /\ wanted' = NoLocals
Fail == ReadEnds /\ lastRead' = NoBytes
GoOn(next, locals) == stage' = next /\ wanted' = locals

\* read_bytes(): what is not valid is not read, and ends the whole reading.
ReadBytes(address, size) ==
    RangeValid(address, size, heapEnd) /\ lastRead' = Segment(address, size)
CannotRead(address, size) == ~RangeValid(address, size, heapEnd) /\ Fail

\* object_typeinfo(): the vtable pointer of any object, and the word before
\* the vtable.
ReadVptr(object) ==
    /\ stage = "idle"
    /\ \/ ReadBytes(object, 4) /\ GoOn("typeinfo", NoLocals)
       \/ CannotRead(object, 4)
    /\ UNCHANGED <<heapEnd, written>>

ReadTypeinfo(vptr) ==
    /\ stage = "typeinfo"
    /\ IF ModuleRangeValid(vptr, 4) /\ vptr >= 4
       THEN \/ ReadBytes(vptr - 4, 4) /\ ReadEnds
            \/ CannotRead(vptr - 4, 4)
       ELSE Fail
    /\ UNCHANGED <<heapEnd, written>>

\* read_android_string(), from screen_name(): the whole object has to be there.
NameOf(object) == Plus(object, NameOffset)

BeginName(object) ==
    /\ stage = "idle"
    /\ RangeValid(NameOf(object), StringSize, heapEnd)
    /\ ReadBytes(NameOf(object), 1)
    /\ GoOn("first", [NoLocals EXCEPT !.object = object])
    /\ written' = 1
    /\ UNCHANGED heapEnd

\* A short string is in the object, and its first byte has the length.
ShortName(first) ==
    /\ stage = "first" /\ first % 2 = 0
    /\ IF first \div 2 <= StringSize - 1
       THEN GoOn("copy", [wanted EXCEPT !.length = first \div 2,
                                        !.characters = Plus(NameOf(wanted.object), 1)])
                /\ UNCHANGED lastRead
       ELSE Fail
    /\ UNCHANGED <<heapEnd, written>>

LongName(first) ==
    /\ stage = "first" /\ first % 2 = 1
    /\ LET address == Plus(NameOf(wanted.object), 4) IN
           \/ ReadBytes(address, 4) /\ GoOn("length", wanted)
           \/ CannotRead(address, 4)
    /\ UNCHANGED <<heapEnd, written>>

ReadLength(length) ==
    /\ stage = "length"
    /\ LET address == Plus(NameOf(wanted.object), 8) IN
           \/ ReadBytes(address, 4) /\ GoOn("pointer", [wanted EXCEPT !.length = length])
           \/ CannotRead(address, 4)
    /\ UNCHANGED <<heapEnd, written>>

ReadPointer(pointer) ==
    /\ stage = "pointer"
    /\ IF wanted.length <= LongestName
       THEN GoOn("copy", [wanted EXCEPT !.characters = pointer]) /\ UNCHANGED lastRead
       ELSE Fail
    /\ UNCHANGED <<heapEnd, written>>

\* What does not fit is cut, and a zero ends it.
CopyLength == IF wanted.length >= OutputSize THEN OutputSize - 1 ELSE wanted.length

CopyName ==
    /\ stage = "copy"
    /\ \/ CopyLength = 0 /\ ReadEnds /\ UNCHANGED <<lastRead, written>>
       \/ /\ CopyLength # 0 /\ ReadBytes(wanted.characters, CopyLength) /\ ReadEnds
          /\ written' = CopyLength + 1
       \/ CopyLength # 0 /\ CannotRead(wanted.characters, CopyLength) /\ UNCHANGED written
    /\ UNCHANGED heapEnd

ReadsNext ==
    \/ GrowHeap \/ CopyName
    \/ \E value \in Values :
           \/ ReadVptr(value) \/ ReadTypeinfo(value)
           \/ BeginName(value) \/ ReadLength(value) \/ ReadPointer(value)
    \/ \E first \in ByteValues : ShortName(first) \/ LongName(first)

ReadsSpec == ReadsInit /\ [][ReadsNext]_readVars
-----------------------------------------------------------------------------
\* The blocks of memory that there are.
Memory ==
    {ExecSegment, Segment(HeapBase, heapEnd - HeapBase)} \cup OtherBlocks
        \cup {DataSegments[i] : i \in 1..DataCount}

(* ui_context.c 147-198 and 243-309: whatever addresses, lengths and pointers   *)
(* the engine's memory seems to hold, near the ends of its blocks and of the    *)
(* address space, the loader reads no byte outside of one block that is there,  *)
(* and writes no more of a name than its array has room for.                    *)
ReadsStayInside ==
    /\ lastRead.size > 0 =>
           \E block \in Memory :
               /\ block.base <= lastRead.base
               /\ lastRead.base + lastRead.size <= block.base + block.size
    /\ written <= OutputSize
=============================================================================
