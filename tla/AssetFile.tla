------------------------------ MODULE AssetFile ------------------------------
(* reimpl/asset_manager.cpp: an AAsset is a stdio stream with a position of    *)
(* its own, which decides how much of a read is passed on.  The stream, its    *)
(* end-of-file rules and its failures are the C library's.                     *)
EXTENDS Integers, FiniteSets

CONSTANTS
    Assets,             \* handles
    MaxSize,            \* bound on the size of a file
    MaxSeek,            \* bound on the position after a seek
    MaxCount            \* bound on the bytes a read asks for

ASSUME AssetsAssumption == IsFiniteSet(Assets)
ASSUME SizesAssumption ==
    MaxSize \in Nat \ {0} /\ MaxSeek \in Nat /\ MaxSize <= MaxSeek /\ MaxCount \in Nat

VARIABLES
    asset,              \* each handle: state, fileSize, bytesRead
    stream,             \* the stream's position, and the bytes behind it
    active,             \* diag_active
    request,            \* the last read that reached a stream
    returned            \* what the last call returned

assetVars == <<asset, stream, active, request, returned>>

NoRequest == [from |-> 0, count |-> 0, size |-> 0]

AssetInit ==
    /\ asset = [a \in Assets |-> [state |-> "closed", size |-> 0, bytesRead |-> 0]]
    /\ stream = [a \in Assets |-> 0]
    /\ active = 0
    /\ request = NoRequest /\ returned = 0

Opened(a) == asset[a].state = "opened"
Least(m, n) == IF m < n THEN m ELSE n

\* AAssetManager_open() measures the file and goes back to its start.
OpenAsset(a, size) ==
    /\ asset[a].state = "closed"
    /\ asset' = [asset EXCEPT ![a] = [state |-> "opened", size |-> size, bytesRead |-> 0]]
    /\ stream' = [stream EXCEPT ![a] = 0]
    /\ active' = active + 1
    /\ returned' = size
    /\ UNCHANGED request

\* AAsset_read() of a descriptor's asset, of nothing, or at the end.
ReadNothing(a, count) ==
    /\ asset[a].state # "closed"
    /\ ~Opened(a) \/ count = 0 \/ asset[a].bytesRead >= asset[a].size
    /\ returned' = IF Opened(a) THEN 0 ELSE -1
    /\ UNCHANGED <<asset, stream, active, request>>

\* Mutant: the request is cut to the size of the file, wherever it starts.
ClampedToSize(a, count) == Least(count, asset[a].size)

\* What is passed on; the stream delivers some of it, or fails with nothing.
Clamped(a, count) == Least(count, asset[a].size - asset[a].bytesRead)

ReadAsset(a, count, got) ==
    /\ Opened(a) /\ count > 0
    /\ asset[a].bytesRead < asset[a].size
    /\ LET passed == Clamped(a, count)
       IN  /\ got <= Least(passed, IF stream[a] < asset[a].size
                                   THEN asset[a].size - stream[a] ELSE 0)
           /\ request' = [from |-> stream[a], count |-> passed, size |-> asset[a].size]
    /\ asset' = [asset EXCEPT ![a].bytesRead = @ + got]
    /\ stream' = [stream EXCEPT ![a] = @ + got]
    /\ returned' \in IF got > 0 THEN {got} ELSE {0, -1}
    /\ UNCHANGED active

\* AAsset_seek(): the library goes beyond the end, but not before the start.
Origins(a) == {0, stream[a], asset[a].size}

SeekAsset(a, origin, offset) ==
    /\ Opened(a) /\ origin \in Origins(a)
    /\ origin + offset \in 0..MaxSeek
    /\ stream' = [stream EXCEPT ![a] = origin + offset]
    /\ asset' = [asset EXCEPT ![a].bytesRead = stream'[a]]
    /\ returned' = stream'[a]
    /\ UNCHANGED <<active, request>>

SeekFails(a) ==
    /\ asset[a].state # "closed"
    /\ returned' = -1
    /\ UNCHANGED <<asset, stream, active, request>>

\* AAsset_openFileDescriptor() closes the stream; a second call does not again.
OpenFileDescriptor(a) ==
    /\ asset[a].state # "closed"
    /\ asset' = [asset EXCEPT ![a].state = "descriptor"]
    /\ active' = IF Opened(a) THEN active - 1 ELSE active
    /\ returned' = asset[a].size
    /\ UNCHANGED <<stream, request>>

CloseAsset(a) ==
    /\ asset[a].state # "closed"
    /\ asset' = [asset EXCEPT ![a] = [state |-> "closed", size |-> 0, bytesRead |-> 0]]
    /\ stream' = [stream EXCEPT ![a] = 0]
    /\ active' = IF Opened(a) THEN active - 1 ELSE active
    /\ UNCHANGED <<request, returned>>

\* AAsset_getRemainingLength(): beyond the end the subtraction wraps, and the
\* caller, whose off_t is signed, sees a negative number.
GetRemainingLength(a) ==
    /\ asset[a].state # "closed"
    /\ returned' = IF Opened(a) THEN asset[a].size - asset[a].bytesRead ELSE -1
    /\ UNCHANGED <<asset, stream, active, request>>

\* AAsset_getLength(), of a descriptor's asset too.
GetLength(a) ==
    /\ asset[a].state # "closed"
    /\ returned' = asset[a].size
    /\ UNCHANGED <<asset, stream, active, request>>

AssetNext ==
    \E a \in Assets :
        \/ \E n \in 0..MaxSize : OpenAsset(a, n)
        \/ \E n \in 0..MaxCount : ReadNothing(a, n) \/ (\E got \in 0..n : ReadAsset(a, n, got))
        \/ \E offset \in -MaxSeek..MaxSeek, origin \in Origins(a) : SeekAsset(a, origin, offset)
        \/ SeekFails(a)
        \/ OpenFileDescriptor(a)
        \/ CloseAsset(a)
        \/ GetRemainingLength(a)
        \/ GetLength(a)

AssetSpec == AssetInit /\ [][AssetNext]_assetVars

-----------------------------------------------------------------------------
AssetTypeOK ==
    /\ asset \in [Assets -> [state : {"closed", "opened", "descriptor"}, size : 0..MaxSize,
                             bytesRead : 0..MaxSeek]]
    /\ stream \in [Assets -> 0..MaxSeek]
    /\ active \in 0..Cardinality(Assets)
    /\ request \in [from : 0..MaxSeek, count : 0..MaxCount, size : 0..MaxSize]
    /\ returned \in -MaxSeek..MaxSeek

\* "Never submit a request beyond the asset": wherever seeks and short reads
\* have left the stream, a read that reaches it starts inside the file, asks
\* for something, and ends inside the file.
NeverBeyondEnd ==
    request # NoRequest =>
        request.count > 0 /\ request.from + request.count <= request.size
=============================================================================
