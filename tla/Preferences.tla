----------------------------- MODULE Preferences -----------------------------
(* The preferences of the Java shim (java.c): every access loads the whole     *)
(* table from preferences.bin, a store changes one entry and writes the table  *)
(* back.  Nothing keeps two stores apart.  The file is what programs see and   *)
(* what is on the card; a group and its key are one key here, and a key that   *)
(* is longer than an entry has room for is never found again.                  *)
EXTENDS Naturals, Sequences, JavaMethods
Seqs == INSTANCE SequencesExt

CONSTANTS
    Writers,            \* threads that call the shim
    Keys,               \* those that fit
    LongKeys,           \* those that do not
    Values, Fallback,   \* values, and the caller's default
    MaxEntries,         \* BTD5_PREF_MAX
    MaxStores,          \* bound on the stores of a behaviour
    MaxCuts             \* bound on the losses of power

ASSUME MaxAssumption == MaxEntries \in Nat \ {0}
ASSUME StoresAssumption == MaxStores \in Nat /\ MaxCuts \in Nat
ASSUME KeysAssumption == Keys \cap LongKeys = {} /\ "none" \notin Keys \cup LongKeys

AllKeys == Keys \cup LongKeys

VARIABLES
    file,               \* preferences.bin: seen and on the card
    pc, image,          \* each thread's place, and its copy of the table
    storing,            \* the entry it stores
    stores, cuts,
    expected,           \* what was stored last under each key
    unsure              \* stores overlapped, or power was lost

prefVars == <<file, pc, image, storing, stores, cuts, expected, unsure>>

\* A table is a sequence of entries.  A torn file has the count of the whole
\* table and lacks its last entries, which are read as empty ones.
Empty == [key |-> "none", value |-> Fallback]
NoTable == <<>>

PrefInit ==
    /\ file = [seen |-> NoTable, card |-> NoTable]
    /\ pc = [t \in Writers |-> "idle"]
    /\ image = [t \in Writers |-> <<>>]
    /\ storing = [t \in Writers |-> Empty]
    /\ stores = 0 /\ cuts = 0
    /\ expected = [k \in Keys |-> Fallback]
    /\ unsure = FALSE

\* The place of a key: strcmp() against what snprintf() left of the names.
Index(table, k) == Seqs!SelectInSeq(table, LAMBDA e : e.key = k)
Kept(k) == IF k \in Keys THEN k ELSE "none"

\* get_value_from_key()
Get(k) ==
    LET table == file.seen
        i == Index(table, k)
    IN  IF i = 0 THEN Fallback ELSE table[i].value

\* The loop of store_key_value_pair() over the loaded table; a full table drops
\* the entry.
With(table, e) ==
    LET i == Index(table, e.key)
        entry == [e EXCEPT !.key = Kept(e.key)]
    IN  IF i # 0 THEN [table EXCEPT ![i] = entry] ELSE Append(table, entry)
HasRoom(table, k) == Index(table, k) # 0 \/ Len(table) < MaxEntries

Alone(t) == \A u \in Writers \ {t} : pc[u] = "idle"

Load(t, k, v) ==
    /\ DispatchesVoid(StoreKeyValuePairId)
    /\ pc[t] = "idle" /\ stores < MaxStores
    /\ stores' = stores + 1
    /\ IF HasRoom(file.seen, k)
       THEN /\ pc' = [pc EXCEPT ![t] = "open"]
            /\ image' = [image EXCEPT ![t] = With(file.seen, [key |-> k, value |-> v])]
            /\ storing' = [storing EXCEPT ![t] = [key |-> k, value |-> v]]
       ELSE UNCHANGED <<pc, image, storing>>
    /\ unsure' = (unsure \/ ~Alone(t))
    /\ UNCHANGED <<file, cuts, expected>>

SeeFile(content) == file' = [file EXCEPT !.seen = content]

\* fopen("wb") empties the file; if it fails nothing is stored.
Truncate(t) ==
    /\ pc[t] = "open"
    /\ pc' = [pc EXCEPT ![t] = "write"]
    /\ SeeFile(NoTable)
    /\ UNCHANGED <<image, storing, stores, cuts, expected, unsure>>

OpenFails(t) ==
    /\ pc[t] = "open"
    /\ pc' = [pc EXCEPT ![t] = "idle"]
    /\ UNCHANGED <<file, image, storing, stores, cuts, expected, unsure>>

\* The table goes out in several blocks, all of it or, on a full card, not.
Torn(table, n) == [i \in DOMAIN table |-> IF i <= n THEN table[i] ELSE Empty]

WriteBlocks(t, n) ==
    /\ pc[t] = "write" /\ n < Len(image[t])
    /\ pc' = [pc EXCEPT ![t] = "rest"]
    /\ SeeFile(Torn(image[t], n))
    /\ UNCHANGED <<image, storing, stores, cuts, expected, unsure>>

WriteRest(t, full) ==
    /\ pc[t] = "rest"
    /\ pc' = [pc EXCEPT ![t] = "sync"]
    /\ IF full THEN UNCHANGED file
               ELSE SeeFile(image[t])
    /\ unsure' = (unsure \/ full)
    /\ UNCHANGED <<image, storing, stores, cuts, expected>>

\* Mutant: the store ends without the sync.
SyncFileLater(t) ==
    /\ pc[t] = "sync"
    /\ pc' = [pc EXCEPT ![t] = "idle"]
    /\ expected' = [k \in Keys |-> IF k = storing[t].key THEN storing[t].value ELSE expected[k]]
    /\ UNCHANGED <<file, image, storing, stores, cuts, unsure>>

\* sceIoSync()
SyncFile(t) ==
    /\ pc[t] = "sync"
    /\ pc' = [pc EXCEPT ![t] = "idle"]
    /\ file' = [file EXCEPT !.card = file.seen]
    /\ expected' = [k \in Keys |-> IF k = storing[t].key THEN storing[t].value ELSE expected[k]]
    /\ UNCHANGED <<image, storing, stores, cuts, unsure>>

PrefWriteBack ==
    /\ file.card # file.seen
    /\ file' = [file EXCEPT !.card = file.seen]
    /\ UNCHANGED <<pc, image, storing, stores, cuts, expected, unsure>>

\* The process goes with the power; a store that was under way may have been
\* cut short.
PrefPowerLoss ==
    /\ cuts < MaxCuts /\ cuts' = cuts + 1
    /\ file' = [file EXCEPT !.seen = file.card]
    /\ pc' = [t \in Writers |-> "idle"]
    /\ unsure' = (unsure \/ \E t \in Writers : pc[t] # "idle")
    /\ UNCHANGED <<image, storing, stores, expected>>

PrefNext ==
    \/ \E t \in Writers :
        \/ \E k \in AllKeys, v \in Values : Load(t, k, v)
        \/ Truncate(t) \/ OpenFails(t)
        \/ \E n \in 0..MaxEntries - 1 : WriteBlocks(t, n)
        \/ \E full \in BOOLEAN : WriteRest(t, full)
        \/ SyncFile(t)
    \/ PrefWriteBack
    \/ PrefPowerLoss

PrefSpec == PrefInit /\ [][PrefNext]_prefVars

-----------------------------------------------------------------------------
Entries == [key : Keys \cup {"none"}, value : Values \cup {Fallback}]
Tables == UNION {[1..n -> Entries] : n \in 0..MaxEntries}

PrefTypeOK ==
    /\ file.seen \in Tables /\ file.card \in Tables
    /\ pc \in [Writers -> {"idle", "open", "write", "rest", "sync"}]
    /\ image \in [Writers -> Tables]
    /\ storing \in [Writers -> [key : AllKeys \cup {"none"}, value : Values \cup {Fallback}]]
    /\ stores \in 0..MaxStores /\ cuts \in 0..MaxCuts
    /\ expected \in [Keys -> Values \cup {Fallback}] /\ unsure \in BOOLEAN

\* While nobody stores, the engine reads back what it stored last under every
\* key, after a loss of power too, unless two stores overlapped or one was cut
\* short.  (A store that a full table drops, or whose file cannot be opened, has
\* stored nothing.)
PreferencesKept ==
    (\A t \in Writers : pc[t] = "idle") /\ ~unsure => \A k \in Keys : Get(k) = expected[k]
=============================================================================
