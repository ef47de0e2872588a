----------------------------- MODULE ConfigFile -----------------------------
(***************************************************************************)
(* The configuration file (src/ui/version_check.cc, and main_window.cc     *)
(* where the controls save it): processes of the program that load their   *)
(* settings from the same file and write it back when a control changes,   *)
(* the user who edits it by hand, and the check for a new version, which   *)
(* leaves its address in the settings.                                     *)
(*                                                                         *)
(* A file is a map from keys to values, some of which stand for what a     *)
(* key's reader does not take.  It is written in place: it is cut to       *)
(* nothing when it is opened, and every writer writes from the beginning.  *)
(* A write that does not get to the end leaves the keys before some point, *)
(* or text that cannot be parsed; one that finds the text of another,      *)
(* written since it opened the file, leaves the end of that behind its own.*)
(***************************************************************************)
EXTENDS Integers, Sequences, SequencesExt, FiniteSets

CONSTANTS
    Processes,
    HandWritten,     \* files the user writes
    BiasTexts,       \* what is typed as the address bias
    Versions,        \* of the program, in answers to the version check
    CurrentVersion,
    PartRange,       \* a number in a version is unsigned, below 2^64 in the code
    MaxEvents        \* bound: changes of controls, edits, checks and crashes

VARIABLES
    file,     \* [text, keys]: "absent", "map" or "broken", and its values
    memory,   \* AppState's settings, by process
    pc,       \* "off", "idle", or where its save is: "read", "cut"
    root,     \* the map a save works on, by process
    newest,   \* has_new_version with the version it is about, by process
    events,
    stale,    \* history: the file was changed by others since a process read
              \* it, or could not be read to the end
    touched,  \* history: keys that a process's user has changed
    settled   \* history: what the last complete save wrote, and whether over
              \* the text of another, until the file changes again

configVars == <<file, memory, pc, root, newest, events, stale, touched, settled>>

\* Values that are not taken: one that its reader refuses, a list or map where
\* one value should be, and one value where the key's section should be (at
\* the first key of a section, which then has no others).
Bad    == "bad"
Nested == "nested"
Flat   == "flat"
Unread == {Bad, Nested, Flat}

\* In the order in which load_app_config reads them.  debounce stands for the
\* numbers of ui, statics for the flags and the number of load_policy.
KeyOrder == <<"uri", "prefix", "base", "debounce", "statics", "rules", "elements",
              "writeBack", "bias">>
Keys     == Range(KeyOrder)

NoText == ""

Default == [uri |-> NoText, prefix |-> "false", base |-> "hex", debounce |-> "300",
            statics |-> "true", rules |-> "standard", elements |-> "1024",
            writeBack |-> "false", bias |-> "0"]

DefaultUri == "releases_api_url"
Other      == "other"   \* a value that nobody chose

\* The reader throws, which ends load_app_config.  The numbers of ui are read
\* where that is caught; an address base, rules and a bias that are not valid
\* are logged.
Throws(k, v) ==
    \/ v \in {Nested, Flat} /\ k # "debounce"
    \/ v = Bad /\ k \in {"prefix", "statics", "elements", "writeBack"}

NoFile  == [text |-> "absent", keys |-> <<>>]
Broken  == [text |-> "broken", keys |-> <<>>]
Map(ks) == [text |-> "map", keys |-> ks]

\* The user may write anything, keys that the program does not know as well.
\* Versions are lists of characters.
ASSUME ConfigAssumption ==
    /\ MaxEvents \in Nat /\ PartRange \in Nat \ {0}
    /\ \A version \in Versions \cup {CurrentVersion} : version \in Seq(Range(version))
    /\ \A f \in HandWritten : f \in {NoFile, Broken} \/ f = Map(f.keys)

-----------------------------------------------------------------------------
(* Loading.                                                                *)

\* Only then the bias is read.
WritesBack(keys) == "writeBack" \in DOMAIN keys /\ keys["writeBack"] = "true"

\* Where the load of a file throws, or past the end
LoadStops(keys) ==
    LET thrown == {i \in DOMAIN KeyOrder :
                       /\ KeyOrder[i] \in DOMAIN keys
                       /\ Throws(KeyOrder[i], keys[KeyOrder[i]])
                       /\ KeyOrder[i] = "bias" => WritesBack(keys)}
    IN  IF thrown = {} THEN Len(KeyOrder) + 1
        ELSE CHOOSE i \in thrown : \A j \in thrown : i <= j

LoadFails(f) == f.text = "broken" \/ LoadStops(f.keys) <= Len(KeyOrder)

\* Mutants: the bias is read in any case; a value is taken as it is.
LoadedWithBias(f) ==
    [k \in Keys |-> IF k \in DOMAIN f.keys /\ f.keys[k] \notin Unread THEN f.keys[k]
                     ELSE Default[k]]

LoadedAsIs(f) ==
    [k \in Keys |-> IF k \in DOMAIN f.keys THEN f.keys[k] ELSE Default[k]]

\* load_app_config, of the settings of a new process: what is not there or
\* not valid leaves the default, and so does what comes after a throw.
Loaded(f) ==
    LET Takes(k) == /\ k \in DOMAIN f.keys /\ f.keys[k] \notin Unread
                    /\ \E i \in 1..(LoadStops(f.keys) - 1) : KeyOrder[i] = k
                    /\ k = "bias" => WritesBack(f.keys)
    IN  IF f.text = "broken" THEN Default
        ELSE [k \in Keys |-> IF Takes(k) THEN f.keys[k] ELSE Default[k]]

Start(p) ==
    /\ pc[p] = "off"
    /\ pc' = [pc EXCEPT ![p] = "idle"]
    /\ memory' = [memory EXCEPT ![p] = Loaded(file)]
    /\ stale' = [stale EXCEPT ![p] = LoadFails(file)]
    /\ touched' = [touched EXCEPT ![p] = {}]
    /\ UNCHANGED <<file, root, newest, events, settled>>

-----------------------------------------------------------------------------
(* Saving.                                                                 *)

ValidBias(text) == text # NoText /\ text \notin Unread

\* Mutant: a new map is written, without what was in the file.
SavedAnew(keys, settings) == settings

\* save_app_config: what it changes in the map it has read
Writes(settings) ==
    {"prefix", "base", "debounce", "statics", "rules", "elements", "writeBack"}
    \cup (IF settings["uri"] # NoText THEN {"uri"} ELSE {})
    \cup (IF settings["writeBack"] = "true" /\ ValidBias(settings["bias"])
          THEN {"bias"} ELSE {})

Saved(keys, settings) ==
    [k \in DOMAIN keys \cup Writes(settings) |->
        IF k \in Writes(settings) THEN settings[k] ELSE keys[k]]

\* There is no section to write a key into.
SaveThrows(keys, settings) == \E k \in DOMAIN keys \cap Writes(settings) : keys[k] = Flat

Happens == events < MaxEvents /\ events' = events + 1

\* load_existing_config_root, and the changes to what it returns: a file that
\* cannot be parsed ends the save with an entry in the log, and so does a
\* section that is none.
SaveReads(p) ==
    IF file.text = "broken" \/ SaveThrows(file.keys, memory'[p]) THEN UNCHANGED <<pc, root>>
    ELSE /\ pc' = [pc EXCEPT ![p] = "read"]
         /\ root' = [root EXCEPT ![p] = file.keys]

\* A change of a control, and the save it leads to
ChooseBase(p, base) ==
    /\ pc[p] = "idle" /\ Happens
    /\ memory' = [memory EXCEPT ![p].base = base]
    /\ touched' = [touched EXCEPT ![p] = @ \cup {"base"}]
    /\ SaveReads(p)
    /\ UNCHANGED <<file, newest, stale, settled>>

\* The box is disabled unless the base is hexadecimal.
TogglePrefix(p) ==
    /\ pc[p] = "idle" /\ memory[p].base = "hex" /\ Happens
    /\ memory' = [memory EXCEPT ![p].prefix = IF @ = "true" THEN "false" ELSE "true"]
    /\ touched' = [touched EXCEPT ![p] = @ \cup {"prefix"}]
    /\ SaveReads(p)
    /\ UNCHANGED <<file, newest, stale, settled>>

ToggleWriteBack(p) ==
    /\ pc[p] = "idle" /\ Happens
    /\ memory' = [memory EXCEPT ![p].writeBack = IF @ = "true" THEN "false" ELSE "true"]
    /\ touched' = [touched EXCEPT ![p] = @ \cup {"writeBack", "bias"}]
    /\ SaveReads(p)
    /\ UNCHANGED <<file, newest, stale, settled>>

\* Only a text that is a number is saved.
EditBias(p, text) ==
    /\ pc[p] = "idle" /\ Happens
    /\ memory' = [memory EXCEPT ![p].bias = text]
    /\ touched' = [touched EXCEPT ![p] = @ \cup {"bias"}]
    /\ IF ValidBias(text) /\ memory[p].writeBack = "true" THEN SaveReads(p)
       ELSE UNCHANGED <<pc, root>>
    /\ UNCHANGED <<file, newest, stale, settled>>

Disturb(processes) == [q \in Processes |-> stale[q] \/ q \in processes]

NoSave == [by |-> "nobody"]

\* write_config_root: the file is opened and cut, or cannot be opened.
SaveOpens(p) ==
    /\ pc[p] = "read"
    /\ file' = Map(<<>>)
    /\ pc' = [pc EXCEPT ![p] = "cut"]
    /\ stale' = Disturb(Processes \ {p})
    /\ settled' = NoSave
    /\ UNCHANGED <<memory, root, newest, events, touched>>

SaveCannotOpen(p) ==
    /\ pc[p] = "read" /\ Happens
    /\ pc' = [pc EXCEPT ![p] = "idle"]
    /\ UNCHANGED <<file, memory, root, newest, stale, touched, settled>>

\* What the value of a key becomes with something behind it: an address or
\* rules other ones, a number another one or none, the rest invalid.
Spoilt(k) ==
    {v \in {Bad, Other} : /\ v = Bad => k \notin {"uri", "rules"}
                          /\ v = Other => k \notin {"prefix", "base", "statics", "writeBack"}}

\* What a text written from the beginning of a file may leave there: behind it
\* stays the end of a longer one, which can add keys, spoil a value, or make
\* the whole unreadable.
Mixtures(new, old) ==
    LET Behind(n) == DOMAIN old \ Range(SubSeq(KeyOrder, 1, n))
        joined    == {[k \in DOMAIN new \cup Behind(n) |->
                          IF k \in DOMAIN new THEN new[k] ELSE old[k]] : n \in 0..Len(KeyOrder)}
    IN  joined \cup UNION {{[keys EXCEPT ![k] = v] : v \in Spoilt(k)} :
                               keys \in joined, k \in DOMAIN new}

Overwritten(new, old) ==
    IF old = Map(<<>>) THEN {Map(new)}
    ELSE {Broken} \cup {Map(keys) : keys \in Mixtures(new, old.keys)}

\* The text goes to the beginning of the file, whoever has written there since
\* it was opened.
SaveWrites(p) ==
    /\ pc[p] = "cut"
    /\ file' \in Overwritten(Saved(root[p], memory[p]), file)
    /\ pc' = [pc EXCEPT ![p] = "idle"]
    /\ stale' = Disturb(Processes \ {p})
    /\ settled' = [by |-> p, memory |-> memory[p], before |-> root[p],
                   over |-> file # Map(<<>>),
                   untouched |-> IF stale[p] THEN {} ELSE DOMAIN root[p] \ touched[p]]
    /\ UNCHANGED <<memory, root, newest, events, touched>>

\* What a write that does not get to the end leaves
Remains(keys, old) ==
    {Broken} \cup
    UNION {Overwritten([k \in DOMAIN keys \cap Range(SubSeq(KeyOrder, 1, n)) |-> keys[k]], old) :
               n \in 0..(Len(KeyOrder) - 1)}

\* The state of the stream is not looked at.
SaveBreaksOff(p) ==
    /\ pc[p] = "cut" /\ Happens
    /\ file' \in Remains(Saved(root[p], memory[p]), file)
    /\ pc' = [pc EXCEPT ![p] = "idle"]
    /\ stale' = Disturb(Processes)
    /\ settled' = NoSave
    /\ UNCHANGED <<memory, root, newest, touched>>

\* A process ends, or is ended.
Stop(p) ==
    /\ pc[p] # "off" /\ Happens
    /\ pc' = [pc EXCEPT ![p] = "off"]
    /\ IF pc[p] = "cut"
       THEN /\ file' \in Remains(Saved(root[p], memory[p]), file)
            /\ stale' = Disturb(Processes)
            /\ settled' = NoSave
       ELSE UNCHANGED <<file, stale, settled>>
    /\ UNCHANGED <<memory, root, newest, touched>>

\* The user's editor writes in place too.  A file that is open for writing is
\* not taken away.
HandEdit(f) ==
    /\ Happens
    /\ f = NoFile => \A p \in Processes : pc[p] # "cut"
    /\ file' = f
    /\ stale' = Disturb(Processes)
    /\ settled' = NoSave
    /\ UNCHANGED <<memory, pc, root, newest, touched>>

-----------------------------------------------------------------------------
(* The version check.  A version is a sequence of characters.              *)

Digits == <<"0", "1", "2", "3", "4", "5", "6", "7", "8", "9">>
IsDigit(char) == char \in Range(Digits)
DigitOf(char) == (CHOOSE i \in DOMAIN Digits : Digits[i] = char) - 1

\* strip_version_prefix
Stripped(version) ==
    LET bare == IF version # <<>> /\ Head(version) \in {"v", "V"} THEN Tail(version)
                ELSE version
    IN  SubSeq(bare, 1, SelectInSeq(bare \o <<"+">>, LAMBDA char : char = "+") - 1)

\* Mutant: what follows the shorter version does not count.
CompareShortest(left, right) ==
    LET a == Stripped(left)
        b == Stripped(right)
        shorter == IF Len(a) < Len(b) THEN Len(a) ELSE Len(b)
        differ  == {i \in 1..shorter : a[i] # b[i]}
        first   == CHOOSE i \in differ : \A j \in differ : i <= j
    IN  IF differ = {} \/ ~IsDigit(a[first]) \/ ~IsDigit(b[first]) THEN 0
        ELSE IF DigitOf(a[first]) < DigitOf(b[first]) THEN -1 ELSE 1

\* Where the digits that begin at a place end, or the other characters
End(chars, i, digital) ==
    CHOOSE j \in i..(Len(chars) + 1) :
        /\ \A k \in i..(j - 1) : IsDigit(chars[k]) <=> digital
        /\ j <= Len(chars) => ~(IsDigit(chars[j]) <=> digital)

Part(chars, i) ==
    FoldLeft(LAMBDA n, char : (10 * n + DigitOf(char)) % PartRange, 0,
             SubSeq(chars, i, End(chars, i, TRUE) - 1))

NextPart(chars, i) == End(chars, End(chars, i, TRUE), FALSE)

\* compare_versions_impl, from a place in each version: -1, 0 or 1
CompareVersions(left, right) ==
    LET a == Stripped(left)
        b == Stripped(right)
        compare[at \in (1..(Len(a) + 1)) \X (1..(Len(b) + 1))] ==
            IF at = <<Len(a) + 1, Len(b) + 1>> THEN 0
            ELSE IF Part(a, at[1]) < Part(b, at[2]) THEN -1
            ELSE IF Part(a, at[1]) > Part(b, at[2]) THEN 1
            ELSE compare[<<NextPart(a, at[1]), NextPart(b, at[2])>>]
    IN  compare[<<1, 1>>]

\* The answer to a check, parse_version_response_text: the address the check
\* used is kept as if it had been set.
VersionChecked(p, version) ==
    /\ pc[p] = "idle" /\ Happens
    /\ memory' = [memory EXCEPT ![p].uri = IF @ = NoText THEN DefaultUri ELSE @]
    /\ newest' = [newest EXCEPT ![p] =
                     [is |-> CompareVersions(CurrentVersion, version) < 0,
                      version |-> version]]
    /\ UNCHANGED <<file, pc, root, stale, touched, settled>>

-----------------------------------------------------------------------------
ConfigInit ==
    /\ file \in HandWritten
    /\ memory = [p \in Processes |-> Default]
    /\ pc = [p \in Processes |-> "off"]
    /\ root = [p \in Processes |-> <<>>]
    /\ newest = [p \in Processes |-> [is |-> FALSE, version |-> CurrentVersion]]
    /\ events = 0
    /\ stale = [p \in Processes |-> FALSE]
    /\ touched = [p \in Processes |-> {}]
    /\ settled = NoSave

ConfigNext ==
    \/ \E p \in Processes :
           \/ Start(p)
           \/ \E base \in {"hex", "dec"} : ChooseBase(p, base)
           \/ TogglePrefix(p)
           \/ ToggleWriteBack(p)
           \/ \E text \in BiasTexts : EditBias(p, text)
           \/ SaveOpens(p)
           \/ SaveCannotOpen(p)
           \/ SaveWrites(p)
           \/ SaveBreaksOff(p)
           \/ Stop(p)
           \/ \E version \in Versions : VersionChecked(p, version)
    \/ \E f \in HandWritten : HandEdit(f)

ConfigSpec == ConfigInit /\ [][ConfigNext]_configVars

-----------------------------------------------------------------------------
(* Properties.                                                             *)

ConfigTypeOK ==
    /\ file \in {NoFile, Broken} \/ file = Map(file.keys)
    /\ \A p \in Processes :
           /\ DOMAIN memory[p] = Keys
           /\ \A k \in Keys \ {"bias"} : memory[p][k] \notin Unread
           /\ pc[p] \in {"off", "idle", "read", "cut"}
           /\ touched[p] \subseteq Keys
    /\ events \in 0..MaxEvents
    /\ settled # NoSave => settled.by \in Processes
    /\ settled # NoSave /\ ~settled.over => file.text = "map"

\* The next process starts with these settings.  The bias comes back if it is
\* to be written back and what is typed is a number; an address comes back if
\* there is one.
ComesBack(saved) ==
    LET next == Loaded(file)
        bias == IF saved.writeBack = "true" THEN saved.bias ELSE Default["bias"]
    IN  /\ \A k \in Keys \ {"bias", "uri"} : next[k] = saved[k]
        /\ saved.uri # NoText => next.uri = saved.uri
        /\ ValidBias(bias) => next.bias = bias

\* The file has an address for the version check that cannot be read, and the
\* save had none to put in its place.
UnreadableAddress(save) ==
    /\ save.memory.uri = NoText
    /\ "uri" \in DOMAIN save.before /\ save.before["uri"] \in {Nested, Flat}

\* What a complete save has written is what the next process starts with,
\* whatever else was in the file before, valid or not: a save puts a value
\* that is read in the place of every one that would end a load.  The two
\* exceptions are what EverySaveComesBack fails on: an address that cannot be
\* read, and a save that wrote over the text of another writer who came
\* between its opening of the file and its writing.
SavedSettingsComeBack ==
    settled # NoSave /\ ~settled.over /\ ~UnreadableAddress(settled)
        => ComesBack(settled.memory)

\* What the documents say of the file, without exceptions: it keeps settings of
\* the interface and of the version check (README.md:12, "通过
\* `elf-static-view.yaml` 保存部分界面与更新检查配置"), and what is written back
\* is restored from it (tests/test_main.cc:3181, "地址偏移写回应当从配置文件恢复").
EverySaveComesBack == settled # NoSave => ComesBack(settled.memory)

\* A save keeps what its user has not changed: each key that was in the file
\* with a value the program takes, and every key the program does not know;
\* unless the file was changed by others since the process read it, or the
\* process could not read it to its end.  An empty address counts as none:
\* the version check puts the default one in its place.
UntouchedSettingsStay ==
    settled # NoSave =>
        \A k \in settled.untouched :
            settled.before[k] \notin Unread /\ (k = "uri" => settled.before[k] # NoText)
                => k \in DOMAIN file.keys /\ file.keys[k] = settled.before[k]

\* The numbers of a version: those between the other characters, 0 where none
\* stands before or after these.
WithPlace(numbers, chars, i) ==
    IF IsDigit(chars[i])
    THEN [numbers EXCEPT ![Len(numbers)] = 10 * @ + DigitOf(chars[i])]
    ELSE IF i > 1 /\ ~IsDigit(chars[i - 1]) THEN numbers
    ELSE Append(numbers, 0)

Numbers(chars) ==
    FoldLeftDomain(LAMBDA numbers, i : WithPlace(numbers, chars, i), <<0>>, chars)

At(numbers, i) == IF i <= Len(numbers) THEN numbers[i] ELSE 0

\* The first difference between two lists of numbers is that one's is less.
ComesBefore(a, b) ==
    \E i \in 1..(Len(a) + Len(b)) :
        At(a, i) < At(b, i) /\ \A j \in 1..(i - 1) : At(a, j) = At(b, j)

\* A new version is announced exactly if its numbers come after the current
\* one's, what is missing counting as 0; as long as they fit in their type.
NewVersionIsNewer ==
    \A p \in Processes :
        LET a == Numbers(Stripped(CurrentVersion))
            b == Numbers(Stripped(newest[p].version))
        IN  (\A n \in Range(a) \cup Range(b) : n < PartRange) =>
                (newest[p].is <=> ComesBefore(a, b))
=============================================================================
