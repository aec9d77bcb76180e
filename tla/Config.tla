------------------------------- MODULE Config --------------------------------
(***************************************************************************)
(* The configuration (src/core/config.c): an array of entries that grows,  *)
(* which a load appends to, a set call updates or appends to, and a save   *)
(* writes to the file entry by entry.  The array may hold a key twice; the *)
(* first entry of a key is the one that get and set find.                  *)
(*                                                                         *)
(* The file is the lines that load reads, each as load takes it.  An entry *)
(* is printed in one line, the value in double quotes and not escaped: a   *)
(* quote ends the value there, a newline breaks the line, and a line of    *)
(* more than 4095 characters is read in parts.                             *)
(*                                                                         *)
(* The caller is any program that makes these calls in any order; it may   *)
(* end at any point, and the disk may be full, which save does not notice: *)
(* a save may leave only the head of the file.                             *)
(***************************************************************************)
EXTENDS Naturals, Sequences

CONSTANTS
  Keys,           \* keys without a colon, a # in front or space around
  Values,         \* values
  AsRead,         \* AsRead[k][v]: the lines that load gets of k: "v"
  Torn,           \* what a line of which only a beginning is there, and what
                  \* may follow that on the line, can be to load
  Files,          \* contents the user gives to the file
  FirstCapacity,  \* the first size of the array (16 in the code)
  MaxEntries      \* bound on the number of entries

\* A line of the file, as load takes it: an entry, or one that load skips
\* (comment, empty, without a colon).
Skipped == [key |-> "none", value |-> "none"]
Lines == [key : Keys, value : Values] \cup {Skipped}

ASSUME KeysAssumption == "none" \notin Keys
ASSUME AsReadAssumption == AsRead \in [Keys -> [Values -> Seq(Lines)]]
ASSUME TornAssumption == Torn \subseteq Lines
ASSUME FilesAssumption == \A f \in Files : f \in Seq(Lines)
ASSUME FirstCapacityAssumption == FirstCapacity \in Nat \ {0}

VARIABLES
  entries,   \* config.entries, the first config.count of them
  capacity,  \* config.capacity
  file,      \* the lines of the configuration file
  mode,      \* "idle", "loading", "saving", or "losing": saving after some
             \* of it could not be written
  at,        \* the line or entry that load or save has dealt with last
  kept       \* history: what get would answer at the last save of which all
             \* was written, for the keys that it spoils not, if the file is
             \* still the one it wrote: <<>> or <<settings>>

configVars == <<entries, capacity, file, mode, at, kept>>

ConfigInit ==
  /\ entries = <<>> /\ capacity = 0
  /\ file \in Files
  /\ mode = "idle" /\ at = 0 /\ kept = <<>>

-----------------------------------------------------------------------------

\* Entry i is the first one of key k.
IsFirst(es, i, k) == es[i].key = k /\ \A j \in 1..i - 1 : es[j].key # k

\* ks_config_get, as a set that is empty for NULL.
Get(es, k) == {es[i].value : i \in {i \in DOMAIN es : IsFirst(es, i, k)}}

\* Variant of Full: one place more than there is.
FullLate(n, c) == n > c
Full(n, c) == n >= c

\* Makes room and appends.
AppendEntry(k, v) ==
  /\ Len(entries) < MaxEntries
  /\ capacity' = IF ~Full(Len(entries), capacity) THEN capacity
                 ELSE IF capacity = 0 THEN FirstCapacity ELSE capacity * 2
  /\ entries' = Append(entries, [key |-> k, value |-> v])

ConfigSet(k, v) ==
  /\ mode = "idle"
  /\ \/ \E i \in DOMAIN entries :
          /\ IsFirst(entries, i, k)
          /\ entries' = [entries EXCEPT ![i].value = v]
          /\ UNCHANGED capacity
     \/ /\ \A i \in DOMAIN entries : entries[i].key # k
        /\ AppendEntry(k, v)
  /\ UNCHANGED <<file, mode, at, kept>>

LoadBegin ==
  /\ mode = "idle"
  /\ mode' = "loading" /\ at' = 0
  /\ UNCHANGED <<entries, capacity, file, kept>>

\* Variant of Loaded: an entry that is there is updated.
LoadedOver(k, v) ==
  \/ /\ \E i \in DOMAIN entries :
          /\ IsFirst(entries, i, k)
          /\ entries' = [entries EXCEPT ![i].value = v]
     /\ UNCHANGED capacity
  \/ /\ \A i \in DOMAIN entries : entries[i].key # k
     /\ AppendEntry(k, v)
\* Load does not look for the key.
Loaded(k, v) == AppendEntry(k, v)

IsEntry(line) == line # Skipped

LoadLine ==
  /\ mode = "loading" /\ at < Len(file)
  /\ at' = at + 1
  /\ LET line == file[at + 1]
     IN IF IsEntry(line) THEN Loaded(line.key, line.value)
        ELSE UNCHANGED <<entries, capacity>>
  /\ UNCHANGED <<file, mode, kept>>

LoadEnd ==
  /\ mode = "loading" /\ at = Len(file)
  /\ mode' = "idle" /\ at' = 0
  /\ UNCHANGED <<entries, capacity, file, kept>>

\* fopen "w" empties the file; two comment lines and an empty one follow.
SaveBegin ==
  /\ mode = "idle"
  /\ mode' = "saving" /\ at' = 0
  /\ file' = <<Skipped>> /\ kept' = <<>>
  /\ UNCHANGED <<entries, capacity>>

\* fprintf(file, "%s: \"%s\"\n", key, value), as load will read it.
Printed(e) == AsRead[e.key][e.value]

\* Variant of NextToSave: the last entry first.
LastToSave == entries[Len(entries) - at]
NextToSave == entries[at + 1]

Saving == mode \in {"saving", "losing"}

\* Once something is lost, what follows may be lost too, or run into a line
\* of which only the beginning was written.
SaveEntry ==
  /\ Saving /\ at < Len(entries)
  /\ at' = at + 1
  /\ LET lines == Printed(NextToSave)
     IN \E n \in 1..Len(lines) + 1 :
          /\ n = 1 \/ mode = "losing"
          /\ file' = file \o SubSeq(lines, n, Len(lines))
  /\ UNCHANGED <<entries, capacity, mode, kept>>

\* The file ends earlier than what was printed, perhaps within a line.
CutOff ==
  \E n \in 0..Len(file) :
    \/ file' = SubSeq(file, 1, n)
    \/ n > 0 /\ \E line \in Torn : file' = [SubSeq(file, 1, n) EXCEPT ![n] = line]

\* The buffer cannot be written to the disk; save looks at no result.
FlushFails ==
  /\ Saving
  /\ mode' = "losing" /\ CutOff
  /\ UNCHANGED <<entries, capacity, at, kept>>

\* Entry e is read back as it is: its value has no double quote and no
\* newline, and its line fits in the buffer.
Plain(e) == Printed(e) = <<e>>

\* No entry of es that is read back otherwise has to do with key k.
Unspoilt(es, k) ==
  \A i \in DOMAIN es :
    \/ Plain(es[i])
    \/ /\ es[i].key # k
       /\ \A l \in DOMAIN Printed(es[i]) : Printed(es[i])[l].key # k

SaveEnd ==
  /\ Saving /\ at = Len(entries)
  /\ mode' = "idle" /\ at' = 0
  /\ kept' = IF mode = "losing" THEN <<>>
             ELSE <<[k \in {k \in Keys : Unspoilt(entries, k)} |->
                       Get(entries, k)]>>
  /\ UNCHANGED <<entries, capacity, file>>

\* ks_config_cleanup, or the end of the process in whatever it was doing; of
\* a save that is under way, the disk has what was written out so far.
ConfigCleanup ==
  /\ entries' = <<>> /\ capacity' = 0
  /\ mode' = "idle" /\ at' = 0
  /\ IF Saving THEN CutOff ELSE UNCHANGED file
  /\ UNCHANGED kept

\* The user edits the file.
Edit ==
  /\ mode = "idle"
  /\ file' \in Files /\ kept' = <<>>
  /\ UNCHANGED <<entries, capacity, mode, at>>

ConfigNext ==
  \/ \E k \in Keys, v \in Values : ConfigSet(k, v)
  \/ LoadBegin \/ LoadLine \/ LoadEnd
  \/ SaveBegin \/ SaveEntry \/ FlushFails \/ SaveEnd
  \/ ConfigCleanup \/ Edit

ConfigSpec == ConfigInit /\ [][ConfigNext]_configVars

-----------------------------------------------------------------------------
(* Properties                                                              *)

\* Every variable has its type (config.c:3-14).
ConfigTypeOK ==
  /\ entries \in Seq([key : Keys, value : Values])
  /\ capacity \in Nat
  /\ file \in Seq(Lines)
  /\ mode \in {"idle", "loading", "saving", "losing"}
  /\ at \in Nat
  /\ kept # <<>> => \E ks \in SUBSET Keys : kept[1] \in [ks -> SUBSET Values]

\* The array never holds more entries than it was allocated for, so that no
\* entry is written behind its end (config.c:59-67, 99-107).
EntriesFit == Len(entries) <= capacity

\* As long as nobody else writes the file, a save of which all could be
\* written gives back what get answered then, also for a key that the array
\* holds more than once: every value without a double quote or newline on a
\* line that load reads at once, unless an entry with one that is not so
\* brings another line for that key (config.c:31-57, 110-127).
SavedIsKept ==
  kept # <<>> => \A k \in DOMAIN kept[1] : Get(file, k) = kept[1][k]

\* The array behaves as a table with one value for each key, in which
\* loading never changes a value that is set (config.c:58-67, 74-108).
Table == INSTANCE Settings WITH
           settings <- [k \in Keys |-> Get(entries, k)],
           loading <- mode = "loading"
ImplementsSettings == Table!Spec
=============================================================================
