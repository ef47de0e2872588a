-------------------------- MODULE ConfigFileProofs --------------------------
(***************************************************************************)
(* The configuration file keeps what is written into it, for any number of *)
(* processes and anything the user writes by hand; and a version is        *)
(* announced as new exactly if its numbers come after the current one's.   *)
(*                                                                         *)
(* SavedSettingsComeBack and UntouchedSettingsStay speak of the file after *)
(* a save; what makes them true is gathered before it: a process that has  *)
(* read the file to its end knows it (KnowsFile) until somebody else       *)
(* changes it, through every change its own user makes and every save.     *)
(*                                                                         *)
(* The comparison of versions reads two texts at once and stops at the     *)
(* first numbers that differ.  Both texts have, place by place, the list   *)
(* of the numbers up to there (NumbersUpTo); OnNumber says that a place is *)
(* where the next number of that list begins, and holds of the two cursors *)
(* in every round, until both are past the end.                            *)
(***************************************************************************)
EXTENDS ConfigFile, ListProofs

\* The function f is defined on S.
On(f, S) == f = [x \in S |-> f[x]]

-----------------------------------------------------------------------------
(* Loading.                                                                *)

LEMMA KeysAreThese ==
    /\ Keys = {"uri", "prefix", "base", "debounce", "statics", "rules", "elements",
               "writeBack", "bias"}
    /\ DOMAIN KeyOrder = 1..9 /\ Len(KeyOrder) = 9
    /\ \A i \in 1..9 : KeyOrder[i] = "bias" <=> i = 9
    /\ \A k \in Keys : \E i \in 1..9 : KeyOrder[i] = k
<1>1. /\ DOMAIN KeyOrder = 1..9 /\ Len(KeyOrder) = 9
      /\ KeyOrder[1] = "uri" /\ KeyOrder[2] = "prefix" /\ KeyOrder[3] = "base"
      /\ KeyOrder[4] = "debounce" /\ KeyOrder[5] = "statics" /\ KeyOrder[6] = "rules"
      /\ KeyOrder[7] = "elements" /\ KeyOrder[8] = "writeBack"
      /\ KeyOrder[9] = "bias"
    BY DEF KeyOrder
<1>2. Keys = {KeyOrder[i] : i \in 1..9}
    BY <1>1 DEF Keys, Range
<1>3. 1..9 = {1, 2, 3, 4, 5, 6, 7, 8, 9}
    OBVIOUS
<1> QED BY <1>1, <1>2, <1>3

\* The load throws when it comes to the i-th key.
ThrowsAt(keys, i) ==
    /\ KeyOrder[i] \in DOMAIN keys
    /\ Throws(KeyOrder[i], keys[KeyOrder[i]])
    /\ KeyOrder[i] = "bias" => WritesBack(keys)

\* A load stops at the first key that throws.
LEMMA WhereLoadStops ==
    ASSUME NEW keys
    PROVE  /\ LoadStops(keys) \in 1..10
           /\ \A i \in 1..9 : i < LoadStops(keys) => ~ThrowsAt(keys, i)
           /\ LoadStops(keys) # 10 => ThrowsAt(keys, LoadStops(keys))
<1> DEFINE thrown == {i \in DOMAIN KeyOrder :
                          /\ KeyOrder[i] \in DOMAIN keys
                          /\ Throws(KeyOrder[i], keys[KeyOrder[i]])
                          /\ KeyOrder[i] = "bias" => WritesBack(keys)}
           first  == CHOOSE i \in thrown : \A j \in thrown : i <= j
<1>1. LoadStops(keys) = IF thrown = {} THEN 10 ELSE first
    BY KeysAreThese DEF LoadStops
<1>2. thrown = {i \in 1..9 : ThrowsAt(keys, i)}
    BY KeysAreThese DEF ThrowsAt
<1> HIDE DEF thrown
<1>3. CASE thrown = {}
    BY <1>1, <1>2, <1>3
<1>4. CASE thrown # {}
  <2>1. \E i \in thrown : \A j \in thrown : i <= j
      BY <1>2, <1>4, Least
  <2>2. first \in thrown /\ \A j \in thrown : first <= j
      BY <2>1
  <2> HIDE DEF first
  <2> QED BY <1>1, <1>2, <1>4, <2>2
<1> QED BY <1>3, <1>4

LEMMA WhenLoadFails ==
    ASSUME NEW f PROVE LoadFails(f) <=> f.text = "broken" \/ LoadStops(f.keys) # 10
<1>1. LoadStops(f.keys) \in 1..10
    BY WhereLoadStops
<1>2. LoadStops(f.keys) <= Len(KeyOrder) <=> LoadStops(f.keys) # 10
    BY <1>1, KeysAreThese
<1> QED BY <1>2 DEF LoadFails

\* What a load makes of a value that it comes to.
LoadedOf(keys, k) ==
    IF /\ k \in DOMAIN keys /\ keys[k] \notin Unread
       /\ k = "bias" => WritesBack(keys)
    THEN keys[k] ELSE Default[k]

LEMMA LoadedBefore ==
    ASSUME NEW f, f.text # "broken", NEW i \in 1..9, i < LoadStops(f.keys)
    PROVE  Loaded(f)[KeyOrder[i]] = LoadedOf(f.keys, KeyOrder[i])
<1>1. LoadStops(f.keys) \in 1..10 /\ KeyOrder[i] \in Keys
    BY WhereLoadStops, KeysAreThese DEF Keys, Range
<1>2. \E j \in 1..(LoadStops(f.keys) - 1) : KeyOrder[j] = KeyOrder[i]
    BY <1>1
<1> QED BY <1>1, <1>2 DEF Loaded, LoadedOf

LEMMA LoadedReadable ==
    ASSUME NEW f, ~LoadFails(f), NEW k \in Keys
    PROVE  Loaded(f)[k] = LoadedOf(f.keys, k)
<1>1. f.text # "broken" /\ LoadStops(f.keys) = 10
    BY WhenLoadFails
<1>2. PICK i \in 1..9 : KeyOrder[i] = k
    BY KeysAreThese
<1>3. i < LoadStops(f.keys)
    BY <1>1
<1> QED BY <1>1, <1>2, <1>3, LoadedBefore

\* A value is never one that its reader does not take.
Settings(s) == On(s, Keys) /\ \A k \in Keys \ {"bias"} : s[k] \notin Unread

LEMMA DefaultSettings == Settings(Default) /\ Default["bias"] \notin Unread
<1>1. DOMAIN Default = Keys
    BY KeysAreThese DEF Default
<1>2. On(Default, Keys)
  <2>1. Default = [x \in DOMAIN Default |-> Default[x]]
      BY DEF Default
  <2> QED BY <1>1, <2>1 DEF On
<1>3. Default["uri"] \notin Unread
  <2>1. Default["uri"] = NoText
      BY DEF Default
  <2> QED BY <2>1, Zenon DEF NoText, Unread, Bad, Nested, Flat
<1>4. /\ Default["prefix"] \notin Unread
      /\ Default["base"] \notin Unread /\ Default["debounce"] \notin Unread
      /\ Default["statics"] \notin Unread /\ Default["rules"] \notin Unread
      /\ Default["elements"] \notin Unread /\ Default["writeBack"] \notin Unread
      /\ Default["bias"] \notin Unread
    BY DEF Default, Unread, Bad, Nested, Flat
<1> QED BY <1>2, <1>3, <1>4, KeysAreThese DEF Settings

LEMMA LoadedSettings == ASSUME NEW f PROVE Settings(Loaded(f))
<1>1. CASE f.text = "broken"
    BY <1>1, DefaultSettings DEF Loaded
<1>2. CASE f.text # "broken"
    BY <1>2, DefaultSettings DEF Loaded, Settings, On
<1> QED BY <1>1, <1>2

-----------------------------------------------------------------------------
(* Saving.                                                                 *)

\* The keys that every save writes
Always == {"prefix", "base", "debounce", "statics", "rules", "elements", "writeBack"}

\* What a save with settings s makes of the keys of the file.
IsSaved(written, keys, s) ==
    /\ \A k \in Always : k \in DOMAIN written /\ written[k] = s[k]
    /\ s["uri"] # NoText => "uri" \in DOMAIN written /\ written["uri"] = s["uri"]
    /\ s["uri"] = NoText /\ "uri" \in DOMAIN written
          => "uri" \in DOMAIN keys /\ written["uri"] = keys["uri"]
    /\ s["writeBack"] = "true" /\ ValidBias(s["bias"])
          => "bias" \in DOMAIN written /\ written["bias"] = s["bias"]
    /\ \A k \in DOMAIN keys :
          /\ k \in DOMAIN written
          /\ \/ written[k] = keys[k]
             \/ /\ k \in Keys /\ written[k] = s[k]
                /\ k = "bias" => s["writeBack"] = "true"
    /\ \A k \in DOMAIN written \ DOMAIN keys : written[k] = s[k]

LEMMA SavedValues == \A keys, s : IsSaved(Saved(keys, s), keys, s)
<1> SUFFICES ASSUME NEW keys, NEW s PROVE IsSaved(Saved(keys, s), keys, s)
    OBVIOUS
<1> DEFINE writes  == Writes(s)
           written == Saved(keys, s)
<1>1. written = [k \in DOMAIN keys \cup writes |-> IF k \in writes THEN s[k] ELSE keys[k]]
    BY Zenon DEF Saved
<1>2. /\ \A k \in Always : k \in writes
      /\ "uri" \in writes <=> s["uri"] # NoText
      /\ "bias" \in writes <=> s["writeBack"] = "true" /\ ValidBias(s["bias"])
      /\ writes \subseteq Keys
    BY KeysAreThese DEF Writes, Always
<1> HIDE DEF writes, written
<1>3. /\ DOMAIN written = DOMAIN keys \cup writes
      /\ \A k \in writes : written[k] = s[k]
      /\ \A k \in DOMAIN keys \ writes : written[k] = keys[k]
    BY <1>1
<1>4. IsSaved(written, keys, s)
    BY <1>2, <1>3 DEF IsSaved
<1> QED BY <1>4 DEF written

\* The next load takes all of it, but for an address that cannot be read.
LEMMA SavedIsLoaded ==
    ASSUME NEW keys, NEW s, Settings(s), file = Map(Saved(keys, s)),
           s["uri"] # NoText \/ "uri" \notin DOMAIN keys \/ keys["uri"] \notin {Nested, Flat}
    PROVE  ComesBack(s)
<1> DEFINE written == Saved(keys, s)
           stop == LoadStops(written)
<1>1. file.text = "map" /\ file.keys = written /\ LoadStops(file.keys) = stop
    BY DEF Map
<1>2. \A k \in Keys \ {"bias"} : s[k] \notin Unread
    BY DEF Settings
<1>3. IsSaved(written, keys, s)
    BY SavedValues
<1>4. /\ stop \in 1..10
      /\ stop # 10 => ThrowsAt(written, stop)
    BY WhereLoadStops
<1> HIDE DEF written, stop
<1> USE DEF IsSaved
<1>5. \A k, v : v \notin Unread => ~Throws(k, v)
    BY DEF Unread, Throws
<1>6. ASSUME NEW k \in Always
      PROVE  k \in Keys \ {"bias", "uri"} /\ k \in DOMAIN written /\ written[k] = s[k]
             /\ s[k] \notin Unread
  <2>1. k \in Keys \ {"bias", "uri"}
      BY KeysAreThese DEF Always
  <2> QED BY <1>2, <1>3, <2>1
<1>7. ASSUME "uri" \in DOMAIN written PROVE ~Throws("uri", written["uri"])
  <2>1. CASE s["uri"] # NoText
    <3>1. "uri" \in Keys \ {"bias"}
        BY KeysAreThese
    <3> QED BY <1>2, <1>3, <1>5, <2>1, <3>1
  <2>2. CASE s["uri"] = NoText
      BY <1>3, <1>7, <2>2 DEF Throws
  <2> QED BY <2>1, <2>2
<1>8. ASSUME NEW k \in Keys \ {"bias"}, k \in DOMAIN written PROVE ~Throws(k, written[k])
  <2>1. k = "uri" \/ k \in Always
      BY KeysAreThese DEF Always
  <2> QED BY <1>5, <1>6, <1>7, <1>8, <2>1
<1>9. WritesBack(written) <=> s["writeBack"] = "true"
    BY <1>6 DEF WritesBack, Always
<1>10. stop \in {9, 10}
  <2> SUFFICES ASSUME stop # 10 PROVE stop = 9
      BY <1>4
  <2>1. stop \in 1..9
      BY <1>4
  <2>2. KeyOrder[stop] \in Keys
      BY <2>1, KeysAreThese DEF Keys, Range
  <2>3. KeyOrder[stop] = "bias"
      BY <1>4, <1>8, <2>2 DEF ThrowsAt
  <2> QED BY <2>1, <2>3, KeysAreThese
<1>11. ASSUME NEW k \in Keys \ {"bias"} PROVE Loaded(file)[k] = LoadedOf(written, k)
  <2>1. PICK i \in 1..9 : KeyOrder[i] = k
      BY KeysAreThese
  <2>2. i # 9
      BY <2>1, KeysAreThese
  <2>3. i < LoadStops(file.keys)
      BY <1>1, <1>10, <2>1, <2>2
  <2> QED BY <1>1, <2>1, <2>3, LoadedBefore
<1>12. \A k \in Keys \ {"bias", "uri"} : Loaded(file)[k] = s[k]
  <2> SUFFICES ASSUME NEW k \in Keys \ {"bias", "uri"} PROVE Loaded(file)[k] = s[k]
      OBVIOUS
  <2>1. k \in Always
      BY KeysAreThese DEF Always
  <2> QED BY <1>6, <1>11, <2>1 DEF LoadedOf
<1>13. s["uri"] # NoText => Loaded(file)["uri"] = s["uri"]
  <2>1. "uri" \in Keys \ {"bias"}
      BY KeysAreThese
  <2> QED BY <1>2, <1>3, <1>11, <2>1 DEF LoadedOf
<1>14. ASSUME s["writeBack"] = "true", ValidBias(s["bias"])
       PROVE  Loaded(file)["bias"] = s["bias"]
  <2>1. /\ "bias" \in DOMAIN written /\ written["bias"] = s["bias"]
        /\ s["bias"] \notin Unread
      BY <1>3, <1>14 DEF ValidBias
  <2>2. KeyOrder[9] = "bias"
      BY KeysAreThese
  <2>3. ~ThrowsAt(written, 9)
      BY <1>5, <2>1, <2>2 DEF ThrowsAt
  <2>4. stop = 10
      BY <1>4, <1>10, <2>3
  <2>5. Loaded(file)["bias"] = LoadedOf(written, "bias")
    <3>1. 9 \in 1..9 /\ 9 < LoadStops(file.keys)
        BY <1>1, <2>4
    <3> QED BY <1>1, <2>2, <3>1, LoadedBefore
  <2> QED BY <1>9, <1>14, <2>1, <2>5 DEF LoadedOf
<1>15. ASSUME s["writeBack"] # "true" PROVE Loaded(file)["bias"] = Default["bias"]
  <2>1. "bias" \in Keys /\ ~WritesBack(file.keys)
      BY <1>1, <1>9, <1>15, KeysAreThese
  <2> QED BY <2>1 DEF Loaded
<1> QED BY <1>12, <1>13, <1>14, <1>15 DEF ComesBack

-----------------------------------------------------------------------------
(* The invariant.                                                          *)

FileShape == file \in {NoFile, Broken} \/ file = Map(file.keys)

ConfigTypes ==
    /\ FileShape
    /\ On(memory, Processes) /\ \A p \in Processes : Settings(memory[p])
    /\ pc \in [Processes -> {"off", "idle", "read", "cut"}]
    /\ On(root, Processes)
    /\ stale \in [Processes -> BOOLEAN]
    /\ touched \in [Processes -> SUBSET Keys]
    /\ events \in 0..MaxEvents

\* These settings have the value that the file has for the key, if it is one
\* that was loaded.
Agrees(settings, keys, k) ==
    \/ keys[k] \in Unread
    \/ k = "uri" /\ keys[k] = NoText
    \/ k = "bias" /\ settings["writeBack"] # "true"
    \/ settings[k] = keys[k]

KnowsFile(p, keys) ==
    \A k \in (Keys \cap DOMAIN keys) \ touched[p] : Agrees(memory[p], keys, k)

\* A process that has read the file to its end knows it, until somebody else
\* changes it; and so it knows the map its save works on, and the file that it
\* has opened is empty.
Knowledge(p) ==
    ~stale[p] => /\ pc[p] = "idle" => KnowsFile(p, file.keys)
                 /\ pc[p] \in {"read", "cut"} => KnowsFile(p, root[p])
                 /\ pc[p] = "read" => root[p] = file.keys
                 /\ pc[p] = "cut" => file = Map(<<>>)

\* What the last save was of, which the file still is, unless it wrote over the
\* text of another.
SettledInv ==
    settled # NoSave =>
        /\ settled.by \in Processes
        /\ Settings(settled.memory)
        /\ settled.over => settled.untouched = {}
        /\ ~settled.over => file = Map(Saved(settled.before, settled.memory))
        /\ \A k \in settled.untouched :
              /\ k \in DOMAIN settled.before
              /\ k \in Keys => Agrees(settled.memory, settled.before, k)

ConfigInv ==
    /\ ConfigTypes
    /\ SettledInv
    /\ \A p \in Processes : Knowledge(p)

LEMMA InvMeans ==
    ConfigInv => ConfigTypeOK /\ SavedSettingsComeBack /\ UntouchedSettingsStay
<1> SUFFICES ASSUME ConfigInv
             PROVE  ConfigTypeOK /\ SavedSettingsComeBack /\ UntouchedSettingsStay
    OBVIOUS
<1> USE DEF ConfigInv, SettledInv
<1>1. ConfigTypeOK
  <2>1. \A p \in Processes : DOMAIN memory[p] = Keys
      BY DEF ConfigTypes, Settings, On
  <2>2. settled # NoSave /\ ~settled.over => file.text = "map"
      BY DEF Map
  <2> QED BY <2>1, <2>2 DEF ConfigTypes, ConfigTypeOK, FileShape, Settings
<1>2. settled # NoSave /\ ~settled.over
          => IsSaved(file.keys, settled.before, settled.memory)
  <2>1. IsSaved(Saved(settled.before, settled.memory), settled.before, settled.memory)
      BY SavedValues
  <2>2. settled # NoSave /\ ~settled.over
            => file.keys = Saved(settled.before, settled.memory)
      BY DEF Map
  <2> QED BY <2>1, <2>2
<1>3. SavedSettingsComeBack
  <2> SUFFICES ASSUME settled # NoSave, ~settled.over, ~UnreadableAddress(settled)
               PROVE  ComesBack(settled.memory)
      BY DEF SavedSettingsComeBack
  <2>1. /\ Settings(settled.memory)
        /\ file = Map(Saved(settled.before, settled.memory))
      OBVIOUS
  <2>2. \/ settled.memory["uri"] # NoText
        \/ "uri" \notin DOMAIN settled.before
        \/ settled.before["uri"] \notin {Nested, Flat}
      BY DEF UnreadableAddress
  <2> QED BY <2>1, <2>2, SavedIsLoaded
<1>4. UntouchedSettingsStay
  <2> SUFFICES ASSUME settled # NoSave, NEW k \in settled.untouched,
                      settled.before[k] \notin Unread, k = "uri" => settled.before[k] # NoText
               PROVE  k \in DOMAIN file.keys /\ file.keys[k] = settled.before[k]
      BY DEF UntouchedSettingsStay
  <2>1. /\ k \in DOMAIN file.keys
        /\ \/ file.keys[k] = settled.before[k]
           \/ /\ k \in Keys /\ file.keys[k] = settled.memory[k]
              /\ k = "bias" => settled.memory["writeBack"] = "true"
      BY <1>2 DEF IsSaved
  <2> QED BY <2>1 DEF Agrees
<1> QED BY <1>1, <1>3, <1>4

-----------------------------------------------------------------------------
(* The steps.                                                              *)

LEMMA EventsCounted ==
    ASSUME ConfigTypes, Happens \/ UNCHANGED events PROVE events' \in 0..MaxEvents
    BY ConfigAssumption DEF ConfigTypes, Happens

LEMMA SettledKept ==
    ASSUME SettledInv, UNCHANGED <<file, settled>> PROVE SettledInv'
    BY DEF SettledInv

LEMMA KnowledgeKept ==
    ASSUME NEW q \in Processes, Knowledge(q), UNCHANGED file,
           pc'[q] = pc[q], memory'[q] = memory[q], root'[q] = root[q],
           stale'[q] = stale[q], touched'[q] = touched[q]
    PROVE  Knowledge(q)'
    BY DEF Knowledge, KnowsFile, Agrees

LEMMA DisturbedTypes ==
    ASSUME NEW S, stale' = Disturb(S), stale \in [Processes -> BOOLEAN]
    PROVE  /\ stale' \in [Processes -> BOOLEAN]
           /\ \A q \in Processes \cap S : stale'[q]
           /\ \A q \in Processes \ S : stale'[q] = stale[q]
    BY DEF Disturb

LEMMA ConfigInitInv == ConfigInit => ConfigInv
<1> SUFFICES ASSUME ConfigInit PROVE ConfigInv
    OBVIOUS
<1> USE DEF ConfigInit
<1>1. ConfigTypes
  <2>1. FileShape
      BY ConfigAssumption DEF FileShape
  <2>2. On(memory, Processes) /\ On(root, Processes)
        /\ \A p \in Processes : Settings(memory[p])
      BY DefaultSettings DEF On
  <2> QED BY <2>1, <2>2, ConfigAssumption DEF ConfigTypes
<1>2. SettledInv /\ \A p \in Processes : Knowledge(p)
    BY DEF SettledInv, Knowledge
<1> QED BY <1>1, <1>2 DEF ConfigInv

LEMMA StartStep ==
    ASSUME ConfigInv, NEW p \in Processes, Start(p) PROVE ConfigInv'
<1> USE DEF ConfigInv, ConfigTypes, Start
<1>1. /\ On(memory', Processes) /\ memory'[p] = Loaded(file)
      /\ \A q \in Processes \ {p} : memory'[q] = memory[q]
    BY DEF On
<1>2. /\ pc'[p] = "idle" /\ stale'[p] = LoadFails(file) /\ touched'[p] = {}
      /\ \A q \in Processes \ {p} : /\ pc'[q] = pc[q] /\ stale'[q] = stale[q]
                                    /\ touched'[q] = touched[q]
    OBVIOUS
<1>3. ConfigTypes'
  <2>1. \A q \in Processes : Settings(memory[q])'
      BY <1>1, LoadedSettings DEF Settings, On
  <2>2. FileShape' /\ On(root, Processes)'
      BY DEF FileShape, On
  <2>3. LoadFails(file) \in BOOLEAN
      BY DEF LoadFails
  <2> QED BY <1>1, <2>1, <2>2, <2>3
<1>4. ASSUME ~LoadFails(file) PROVE KnowsFile(p, file.keys)'
  <2> SUFFICES ASSUME NEW k \in Keys \cap DOMAIN file.keys
               PROVE  Agrees(Loaded(file), file.keys, k)
      BY <1>1 DEF KnowsFile, Agrees
  <2>1. Loaded(file)[k] = LoadedOf(file.keys, k)
      BY <1>4, LoadedReadable
  <2>2. /\ "writeBack" \in Keys
        /\ Loaded(file)["writeBack"] = LoadedOf(file.keys, "writeBack")
      BY <1>4, LoadedReadable, KeysAreThese
  <2>3. Loaded(file)["writeBack"] = "true" => WritesBack(file.keys)
      BY <2>2 DEF LoadedOf, Default, WritesBack
  <2> QED BY <2>1, <2>3 DEF LoadedOf, Agrees
<1>5. \A q \in Processes : Knowledge(q)'
  <2>1. Knowledge(p)'
      BY <1>2, <1>4 DEF Knowledge
  <2>2. ASSUME NEW q \in Processes \ {p} PROVE Knowledge(q)'
      BY <1>1, <1>2, KnowledgeKept
  <2> QED BY <2>1, <2>2
<1> QED BY <1>3, <1>5, SettledKept

\* The user of a process changes a setting, or the version check sets the
\* address that was not set; what is saved of it is another matter.
LEMMA SettingStep ==
    ASSUME ConfigInv, NEW p \in Processes, pc[p] = "idle",
           NEW s, Settings(s), NEW changed \in SUBSET Keys,
           memory' = [memory EXCEPT ![p] = s],
           touched' = [touched EXCEPT ![p] = touched[p] \cup changed],
           SaveReads(p) \/ UNCHANGED <<pc, root>>,
           Happens, UNCHANGED <<file, stale, settled>>,
           \A k \in Keys \ changed :
               s[k] = memory[p][k] \/ (k = "uri" /\ memory[p][k] = NoText),
           "bias" \notin changed => s["writeBack"] = memory[p]["writeBack"]
    PROVE  ConfigInv'
<1> USE DEF ConfigInv, ConfigTypes
<1>1. /\ On(memory', Processes) /\ memory'[p] = s
      /\ \A q \in Processes \ {p} : memory'[q] = memory[q]
    BY DEF On
<1>2. /\ touched' \in [Processes -> SUBSET Keys]
      /\ touched'[p] = touched[p] \cup changed
      /\ \A q \in Processes \ {p} : touched'[q] = touched[q]
    OBVIOUS
<1>3. /\ pc' \in [Processes -> {"off", "idle", "read", "cut"}]
      /\ On(root', Processes)
      /\ \A q \in Processes \ {p} : pc'[q] = pc[q] /\ root'[q] = root[q]
      /\ \/ pc'[p] = "idle"
         \/ pc'[p] = "read" /\ root'[p] = file.keys
  <2>1. CASE UNCHANGED <<pc, root>>
      BY <2>1
  <2>2. CASE pc' = [pc EXCEPT ![p] = "read"]
             /\ root' = [root EXCEPT ![p] = file.keys]
      BY <2>2 DEF On
  <2> QED BY <2>1, <2>2 DEF SaveReads
<1>4. ConfigTypes'
  <2>1. ASSUME NEW q \in Processes PROVE Settings(memory'[q])
    <3>1. CASE q = p
        BY <1>1, <3>1
    <3>2. CASE q # p
        BY <1>1, <3>2
    <3> QED BY <3>1, <3>2
  <2>2. FileShape'
      BY DEF FileShape
  <2>3. events' \in 0..MaxEvents
      BY EventsCounted
  <2> QED BY <1>1, <1>2, <1>3, <2>1, <2>2, <2>3
<1>5. ASSUME ~stale[p] PROVE KnowsFile(p, file.keys)'
  <2>1. file' = file /\ memory'[p] = s /\ touched'[p] = touched[p] \cup changed
      BY <1>1, <1>2
  <2> SUFFICES ASSUME NEW k \in (Keys \cap DOMAIN file.keys) \ (touched[p] \cup changed)
               PROVE  Agrees(s, file.keys, k)
      BY <2>1 DEF KnowsFile, Agrees
  <2>2. Agrees(memory[p], file.keys, k)
      BY <1>5 DEF Knowledge, KnowsFile
  <2> QED BY <2>2 DEF Agrees
<1>6. \A q \in Processes : Knowledge(q)'
  <2>1. Knowledge(p)'
      BY <1>3, <1>5 DEF Knowledge
  <2>2. ASSUME NEW q \in Processes \ {p} PROVE Knowledge(q)'
      BY <1>1, <1>2, <1>3, KnowledgeKept
  <2> QED BY <2>1, <2>2
<1> QED BY <1>4, <1>6, SettledKept

LEMMA ChangedSettings ==
    ASSUME NEW s, Settings(s), NEW key \in Keys, NEW v, key = "bias" \/ v \notin Unread
    PROVE  LET new == [s EXCEPT ![key] = v]
           IN  /\ Settings(new)
               /\ new[key] = v
               /\ \A k \in Keys \ {key} : new[k] = s[k]
    BY DEF Settings, On

LEMMA UserSteps ==
    ASSUME ConfigInv, NEW p \in Processes,
           \/ \E base \in {"hex", "dec"} : ChooseBase(p, base)
           \/ TogglePrefix(p)
           \/ ToggleWriteBack(p)
           \/ \E text \in BiasTexts : EditBias(p, text)
           \/ \E version \in Versions : VersionChecked(p, version)
    PROVE  ConfigInv'
<1>1. /\ Settings(memory[p])
      /\ touched[p] \cup {} = touched[p]
      /\ On(touched, Processes)
    BY DEF ConfigInv, ConfigTypes, On
<1>2. ASSUME NEW base \in {"hex", "dec"}, ChooseBase(p, base) PROVE ConfigInv'
  <2> DEFINE s == [memory[p] EXCEPT !["base"] = base]
  <2>1. Settings(s) /\ s["base"] = base
        /\ \A k \in Keys \ {"base"} : s[k] = memory[p][k]
      BY <1>1, ChangedSettings, KeysAreThese DEF Unread, Bad, Nested, Flat
  <2>2. /\ memory' = [memory EXCEPT ![p] = s]
        /\ touched' = [touched EXCEPT ![p] = touched[p] \cup {"base"}]
        /\ pc[p] = "idle" /\ Happens /\ SaveReads(p)
        /\ UNCHANGED <<file, stale, settled>>
      BY <1>2, Zenon DEF ChooseBase
  <2> HIDE DEF s
  <2>3. {"base"} \in SUBSET Keys /\ "writeBack" \in Keys \ {"base"}
      BY KeysAreThese
  <2> QED BY <2>1, <2>2, <2>3, SettingStep
<1>3. CASE ToggleWriteBack(p)
  <2> DEFINE v == IF memory[p]["writeBack"] = "true" THEN "false" ELSE "true"
             s == [memory[p] EXCEPT !["writeBack"] = v]
  <2>1. Settings(s) /\ \A k \in Keys \ {"writeBack"} : s[k] = memory[p][k]
      BY <1>1, ChangedSettings, KeysAreThese DEF Unread, Bad, Nested, Flat
  <2>2. /\ memory' = [memory EXCEPT ![p] = s]
        /\ touched' = [touched EXCEPT ![p] = touched[p] \cup {"writeBack", "bias"}]
        /\ pc[p] = "idle" /\ Happens /\ SaveReads(p)
        /\ UNCHANGED <<file, stale, settled>>
      BY <1>3, Zenon DEF ToggleWriteBack
  <2> HIDE DEF s
  <2>3. {"writeBack", "bias"} \in SUBSET Keys
      BY KeysAreThese
  <2> QED BY <2>1, <2>2, <2>3, SettingStep
<1>4. ASSUME NEW text, EditBias(p, text) PROVE ConfigInv'
  <2> DEFINE s == [memory[p] EXCEPT !["bias"] = text]
  <2>1. Settings(s) /\ \A k \in Keys \ {"bias"} : s[k] = memory[p][k]
      BY <1>1, ChangedSettings, KeysAreThese DEF Unread, Bad, Nested, Flat
  <2>2. /\ memory' = [memory EXCEPT ![p] = s]
        /\ touched' = [touched EXCEPT ![p] = touched[p] \cup {"bias"}]
        /\ pc[p] = "idle" /\ Happens
        /\ SaveReads(p) \/ UNCHANGED <<pc, root>>
        /\ UNCHANGED <<file, stale, settled>>
      BY <1>4, Zenon DEF EditBias
  <2> HIDE DEF s
  <2>3. {"bias"} \in SUBSET Keys
      BY KeysAreThese
  <2> QED BY <2>1, <2>2, <2>3, SettingStep
<1>5. ASSUME NEW version, VersionChecked(p, version) PROVE ConfigInv'
  <2> DEFINE v == IF memory[p]["uri"] = NoText THEN DefaultUri ELSE memory[p]["uri"]
             s == [memory[p] EXCEPT !["uri"] = v]
  <2>1. "uri" \in Keys \ {"bias"} /\ "writeBack" \in Keys \ {"uri"}
      BY KeysAreThese
  <2>2. v \notin Unread
      BY <1>1, <2>1 DEF Settings, DefaultUri, Unread, Bad, Nested, Flat
  <2>3. memory[p]["uri"] = NoText \/ v = memory[p]["uri"]
      OBVIOUS
  <2> HIDE DEF v
  <2>4. Settings(s) /\ s["uri"] = v /\ \A k \in Keys \ {"uri"} : s[k] = memory[p][k]
      BY <1>1, <2>1, <2>2, ChangedSettings
  <2>5. /\ memory' = [memory EXCEPT ![p] = s]
        /\ pc[p] = "idle" /\ Happens
        /\ UNCHANGED <<file, pc, root, stale, touched, settled>>
      BY <1>5, Zenon DEF VersionChecked, v
  <2>6. touched' = [touched EXCEPT ![p] = touched[p] \cup {}]
      BY <1>1, <2>5 DEF On
  <2> HIDE DEF s
  <2>7. \A k \in Keys \ {} : s[k] = memory[p][k] \/ (k = "uri" /\ memory[p][k] = NoText)
      BY <2>3, <2>4
  <2>8. {} \in SUBSET Keys /\ s["writeBack"] = memory[p]["writeBack"]
      BY <2>1, <2>4
  <2> QED BY <2>4, <2>5, <2>6, <2>7, <2>8, SettingStep
<1>6. CASE TogglePrefix(p)
  <2> DEFINE v == IF memory[p]["prefix"] = "true" THEN "false" ELSE "true"
             s == [memory[p] EXCEPT !["prefix"] = v]
  <2>1. Settings(s) /\ \A k \in Keys \ {"prefix"} : s[k] = memory[p][k]
      BY <1>1, ChangedSettings, KeysAreThese DEF Unread, Bad, Nested, Flat
  <2>2. /\ memory' = [memory EXCEPT ![p] = s]
        /\ touched' = [touched EXCEPT ![p] = touched[p] \cup {"prefix"}]
        /\ pc[p] = "idle" /\ Happens /\ SaveReads(p)
        /\ UNCHANGED <<file, stale, settled>>
      BY <1>6, Zenon DEF TogglePrefix
  <2> HIDE DEF s
  <2>3. {"prefix"} \in SUBSET Keys /\ "writeBack" \in Keys \ {"prefix"}
      BY KeysAreThese
  <2> QED BY <2>1, <2>2, <2>3, SettingStep
<1> QED BY <1>2, <1>3, <1>4, <1>5, <1>6

\* The file changes under all processes.
LEMMA DisturbingStep ==
    ASSUME ConfigInv, FileShape', stale' = Disturb(Processes), settled' = NoSave,
           pc' \in [Processes -> {"off", "idle", "read", "cut"}], Happens,
           UNCHANGED <<memory, root, touched>>
    PROVE  ConfigInv'
<1>1. stale' \in [Processes -> BOOLEAN] /\ \A q \in Processes : stale'[q]
    BY DisturbedTypes DEF ConfigInv, ConfigTypes
<1>2. ConfigTypes'
    BY <1>1, EventsCounted DEF ConfigInv, ConfigTypes, Settings, On
<1>3. SettledInv' /\ \A q \in Processes : Knowledge(q)'
    BY <1>1 DEF SettledInv, Knowledge
<1> QED BY <1>2, <1>3 DEF ConfigInv

LEMMA OverwrittenShape ==
    ASSUME NEW new, NEW old
    PROVE  \A f \in Overwritten(new, old) : f = Broken \/ f = Map(f.keys)
<1>1. ASSUME NEW ks PROVE Map(ks) = Map(Map(ks).keys)
    BY DEF Map
<1>2. \A f \in Overwritten(new, old) : f = Broken \/ \E ks : f = Map(ks)
    BY DEF Overwritten
<1> QED BY <1>1, <1>2

LEMMA RemainsShape ==
    ASSUME NEW keys, NEW old, file' \in Remains(keys, old) PROVE FileShape'
<1>1. \/ file' = Broken
      \/ \E new : file' \in Overwritten(new, old)
    BY DEF Remains
<1> QED BY <1>1, OverwrittenShape DEF FileShape

LEMMA BreakOffStep ==
    ASSUME ConfigInv, NEW p \in Processes, SaveBreaksOff(p) \/ Stop(p)
    PROVE  ConfigInv'
<1>1. pc' \in [Processes -> {"off", "idle", "read", "cut"}]
    BY DEF ConfigInv, ConfigTypes, SaveBreaksOff, Stop
<1>2. CASE SaveBreaksOff(p) \/ (Stop(p) /\ pc[p] = "cut")
  <2>1. /\ file' \in Remains(Saved(root[p], memory[p]), file)
        /\ stale' = Disturb(Processes) /\ settled' = NoSave /\ Happens
        /\ UNCHANGED <<memory, root, touched>>
      BY <1>2 DEF SaveBreaksOff, Stop
  <2> QED BY <1>1, <2>1, RemainsShape, DisturbingStep
<1>3. CASE Stop(p) /\ pc[p] # "cut"
  <2> USE <1>3 DEF Stop, ConfigInv
  <2>1. ConfigTypes'
      BY <1>1, EventsCounted DEF ConfigTypes, Settings, On, FileShape
  <2>2. pc'[p] = "off" /\ \A q \in Processes \ {p} : pc'[q] = pc[q]
      BY DEF ConfigTypes
  <2>3. Knowledge(p)'
      BY <2>2 DEF Knowledge
  <2>4. ASSUME NEW q \in Processes \ {p} PROVE Knowledge(q)'
      BY <2>2, KnowledgeKept
  <2>5. \A q \in Processes : Knowledge(q)'
      BY <2>3, <2>4
  <2>6. SettledInv'
      BY SettledKept
  <2> QED BY <2>1, <2>5, <2>6
<1> QED BY <1>2, <1>3

LEMMA HandEditStep ==
    ASSUME ConfigInv, NEW f \in HandWritten, HandEdit(f) PROVE ConfigInv'
<1>1. FileShape'
    BY ConfigAssumption DEF HandEdit, FileShape
<1>2. pc' \in [Processes -> {"off", "idle", "read", "cut"}]
    BY DEF HandEdit, ConfigInv, ConfigTypes
<1> QED BY <1>1, <1>2, DisturbingStep DEF HandEdit

\* The file changes under all processes but the one that changes it.
LEMMA OthersDisturbed ==
    ASSUME NEW p \in Processes, stale' = Disturb(Processes \ {p}),
           stale \in [Processes -> BOOLEAN]
    PROVE  /\ stale' \in [Processes -> BOOLEAN] /\ stale'[p] = stale[p]
           /\ \A q \in Processes \ {p} : stale'[q]
<1>1. /\ stale' \in [Processes -> BOOLEAN]
      /\ \A q \in Processes \cap (Processes \ {p}) : stale'[q]
      /\ \A q \in Processes \ (Processes \ {p}) : stale'[q] = stale[q]
    BY DisturbedTypes
<1> QED BY <1>1

LEMMA SaveOpensStep ==
    ASSUME ConfigInv, NEW p \in Processes, SaveOpens(p) PROVE ConfigInv'
<1> USE DEF ConfigInv, SaveOpens
<1>1. /\ stale' \in [Processes -> BOOLEAN] /\ stale'[p] = stale[p]
      /\ \A q \in Processes \ {p} : stale'[q]
    BY OthersDisturbed DEF ConfigTypes
<1>2. /\ pc' \in [Processes -> {"off", "idle", "read", "cut"}]
      /\ pc[p] = "read" /\ pc'[p] = "cut"
    BY DEF ConfigTypes
<1>3. ConfigTypes'
  <2>1. FileShape'
      BY DEF FileShape, Map
  <2> QED BY <1>1, <1>2, <2>1, EventsCounted DEF ConfigTypes, Settings, On
<1>4. Knowledge(p)'
    BY <1>1, <1>2 DEF Knowledge, KnowsFile, Agrees
<1>5. ASSUME NEW q \in Processes PROVE Knowledge(q)'
  <2>1. q # p => stale'[q]
      BY <1>1
  <2> QED BY <1>4, <2>1 DEF Knowledge
<1>6. SettledInv'
    BY DEF SettledInv
<1> QED BY <1>3, <1>5, <1>6

LEMMA CannotOpenStep ==
    ASSUME ConfigInv, NEW p \in Processes, SaveCannotOpen(p) PROVE ConfigInv'
<1> USE DEF ConfigInv, SaveCannotOpen
<1>1. /\ pc' \in [Processes -> {"off", "idle", "read", "cut"}]
      /\ pc[p] = "read" /\ pc'[p] = "idle"
      /\ \A q \in Processes \ {p} : pc'[q] = pc[q]
    BY DEF ConfigTypes
<1>2. ConfigTypes'
  <2>1. events' \in 0..MaxEvents
      BY EventsCounted
  <2> QED BY <1>1, <2>1 DEF ConfigTypes, Settings, On, FileShape
<1>3. Knowledge(p)'
  <2>1. ~stale[p] => KnowsFile(p, file.keys)
      BY <1>1 DEF Knowledge
  <2>2. ~stale[p] => KnowsFile(p, file.keys)'
      BY <2>1 DEF KnowsFile, Agrees
  <2>3. stale'[p] = stale[p]
      OBVIOUS
  <2> QED BY <1>1, <2>2, <2>3 DEF Knowledge
<1>4. ASSUME NEW q \in Processes \ {p} PROVE Knowledge(q)'
    BY <1>1, KnowledgeKept
<1>5. \A q \in Processes : Knowledge(q)'
    BY <1>3, <1>4
<1>6. SettledInv'
    BY SettledKept
<1> QED BY <1>2, <1>5, <1>6

LEMMA SaveWritesStep ==
    ASSUME ConfigInv, NEW p \in Processes, SaveWrites(p) PROVE ConfigInv'
<1> USE DEF ConfigInv, SaveWrites
<1> DEFINE s == memory[p]
           keys == root[p]
           written == Saved(keys, s)
           known == IF stale[p] THEN {} ELSE DOMAIN keys \ touched[p]
           over == file # Map(<<>>)
           save == [by |-> p, memory |-> s, before |-> keys, over |-> over,
                    untouched |-> known]
<1>1. /\ stale' \in [Processes -> BOOLEAN] /\ stale'[p] = stale[p]
      /\ \A q \in Processes \ {p} : stale'[q]
    BY OthersDisturbed DEF ConfigTypes
<1>2. /\ pc' \in [Processes -> {"off", "idle", "read", "cut"}]
      /\ pc[p] = "cut" /\ pc'[p] = "idle"
    BY DEF ConfigTypes
<1>3. /\ file' \in Overwritten(written, file) /\ settled' = save
      /\ UNCHANGED <<memory, root, touched, events>>
      /\ ~over => file' = Map(written)
      /\ over => stale[p]
  <2>1. over => stale[p]
      BY <1>2 DEF Knowledge
  <2>2. /\ file' \in Overwritten(written, file) /\ settled' = save
        /\ UNCHANGED <<memory, root, touched, events>>
      OBVIOUS
  <2> HIDE DEF written
  <2>3. ~over => Overwritten(written, file) = {Map(written)}
      BY DEF Overwritten
  <2> HIDE DEF over, save
  <2> QED BY <2>1, <2>2, <2>3
<1>4. /\ save.by = p /\ save.memory = s /\ save.before = keys
      /\ save.untouched = known /\ save.over = over
      /\ over \in BOOLEAN /\ over => known = {}
      /\ Map(written).keys = written
    BY <1>3 DEF Map
<1>5. IsSaved(written, keys, s) /\ Settings(s)
    BY SavedValues DEF ConfigTypes
<1>6. ~stale[p] => KnowsFile(p, keys)
    BY <1>2 DEF Knowledge
<1>7. \A k \in known : /\ k \in DOMAIN keys
                       /\ k \in Keys => Agrees(s, keys, k)
    BY <1>6 DEF KnowsFile
<1>8. ASSUME ~stale[p], NEW k \in (Keys \cap DOMAIN written) \ touched[p]
      PROVE  Agrees(s, written, k)
  <2>1. CASE k \in DOMAIN keys
    <3>1. Agrees(s, keys, k)
        BY <1>6, <1>8, <2>1 DEF KnowsFile
    <3>2. written[k] = keys[k] \/ written[k] = s[k]
        BY <1>5, <2>1 DEF IsSaved
    <3> QED BY <3>1, <3>2 DEF Agrees
  <2>2. CASE k \notin DOMAIN keys
    <3>1. written[k] = s[k]
        BY <1>5, <1>8, <2>2 DEF IsSaved
    <3> QED BY <3>1 DEF Agrees
  <2> QED BY <2>1, <2>2
<1> HIDE DEF written, known, save, s, keys, over
<1>9. ConfigTypes'
  <2>1. FileShape'
      BY <1>3, OverwrittenShape DEF FileShape
  <2>2. events' \in 0..MaxEvents
      BY <1>3 DEF ConfigTypes
  <2>3. /\ On(memory, Processes)' /\ On(root, Processes)'
        /\ \A q \in Processes : Settings(memory[q])'
      BY <1>3 DEF ConfigTypes, Settings, On
  <2>4. touched' \in [Processes -> SUBSET Keys]
      BY <1>3 DEF ConfigTypes
  <2> QED BY <1>1, <1>2, <2>1, <2>2, <2>3, <2>4 DEF ConfigTypes
<1>10. SettledInv'
  <2>1. /\ settled'.by = p /\ settled'.memory = s /\ settled'.before = keys
        /\ settled'.untouched = known /\ settled'.over = over
        /\ ~over => file' = Map(Saved(keys, s))
      BY <1>3, <1>4 DEF written
  <2>2. Settings(settled.memory)'
      BY <1>5, <2>1 DEF Settings, On
  <2>3. ASSUME NEW k \in settled'.untouched
        PROVE  /\ k \in DOMAIN settled'.before
               /\ k \in Keys => Agrees(settled.memory, settled.before, k)'
      BY <1>7, <2>1, <2>3 DEF Agrees
  <2>4. /\ settled'.over => settled'.untouched = {}
        /\ ~settled'.over => file' = Map(Saved(settled'.before, settled'.memory))
      BY <1>4, <2>1
  <2> QED BY <2>1, <2>2, <2>3, <2>4 DEF SettledInv
<1>11. ~stale[p] => KnowsFile(p, file.keys)'
    BY <1>3, <1>4, <1>8 DEF KnowsFile, Agrees, s
<1>12. \A q \in Processes : Knowledge(q)'
    BY <1>1, <1>2, <1>11 DEF Knowledge
<1> QED BY <1>9, <1>10, <1>12

-----------------------------------------------------------------------------

LEMMA ConfigInvariant == ConfigSpec => []ConfigInv
<1>1. ConfigInv /\ [ConfigNext]_configVars => ConfigInv'
  <2> SUFFICES ASSUME ConfigInv, [ConfigNext]_configVars PROVE ConfigInv'
      OBVIOUS
  <2>1. ASSUME NEW p \in Processes, Start(p) PROVE ConfigInv'
      BY <2>1, StartStep
  <2>2. ASSUME NEW p \in Processes,
               \/ \E base \in {"hex", "dec"} : ChooseBase(p, base)
               \/ TogglePrefix(p)
               \/ ToggleWriteBack(p)
               \/ \E text \in BiasTexts : EditBias(p, text)
               \/ \E version \in Versions : VersionChecked(p, version)
        PROVE  ConfigInv'
      BY <2>2, UserSteps
  <2>3. ASSUME NEW p \in Processes, SaveOpens(p) PROVE ConfigInv'
      BY <2>3, SaveOpensStep
  <2>4. ASSUME NEW p \in Processes, SaveCannotOpen(p) PROVE ConfigInv'
      BY <2>4, CannotOpenStep
  <2>5. ASSUME NEW p \in Processes, SaveWrites(p) PROVE ConfigInv'
      BY <2>5, SaveWritesStep
  <2>6. ASSUME NEW p \in Processes, SaveBreaksOff(p) \/ Stop(p) PROVE ConfigInv'
      BY <2>6, BreakOffStep
  <2>7. ASSUME NEW f \in HandWritten, HandEdit(f) PROVE ConfigInv'
      BY <2>7, HandEditStep
  <2>8. CASE UNCHANGED configVars
    <3>1. UNCHANGED <<file, memory, pc, root, events, stale, touched, settled>>
        BY <2>8 DEF configVars
    <3>2. ConfigTypes'
        BY <3>1 DEF ConfigInv, ConfigTypes, FileShape, Settings, On
    <3>3. SettledInv'
        BY <3>1, SettledKept DEF ConfigInv
    <3>4. ASSUME NEW p \in Processes PROVE Knowledge(p)'
        BY <3>1, KnowledgeKept DEF ConfigInv
    <3> QED BY <3>2, <3>3, <3>4 DEF ConfigInv
  <2> QED BY <2>1, <2>2, <2>3, <2>4, <2>5, <2>6, <2>7, <2>8 DEF ConfigNext
<1> QED BY <1>1, ConfigInitInv, PTL DEF ConfigSpec

\* The settings of every process always have values that the program takes,
\* and the file is always one that can be told from a broken one.
THEOREM ConfigTypeCorrect == ConfigSpec => []ConfigTypeOK
    BY ConfigInvariant, InvMeans, PTL

\* What save_app_config has written, load_app_config starts the next process
\* with, for any number of processes and anything written by hand: whatever of
\* the file would end a load, the save has replaced, but for an address that
\* cannot be read; and this of every save that found its file as empty as it
\* had left it at the opening, whoever else was reading or saving then.
THEOREM SavedAlwaysComesBack == ConfigSpec => []SavedSettingsComeBack
    BY ConfigInvariant, InvMeans, PTL

\* A save never changes what its user has not changed, as long as the file is
\* the one its process has read: load and save agree on every key.
THEOREM UntouchedAlwaysStays == ConfigSpec => []UntouchedSettingsStay
    BY ConfigInvariant, InvMeans, PTL

-----------------------------------------------------------------------------
(* Versions: the numbers that the code reads.                              *)

LEMMA DigitsAre == \A char : IsDigit(char) => DigitOf(char) \in 0..9
<1> SUFFICES ASSUME NEW char, IsDigit(char) PROVE DigitOf(char) \in 0..9
  OBVIOUS
<1>1. DOMAIN Digits = 1..10
  BY DEF Digits
<1>2. \E i \in 1..10 : Digits[i] = char
  BY <1>1 DEF IsDigit, Range
<1> DEFINE place == CHOOSE i \in 1..10 : Digits[i] = char
<1>3. place \in 1..10
  BY <1>2
<1>4. DigitOf(char) = place - 1
  BY <1>1 DEF DigitOf
<1> HIDE DEF place
<1> QED
  BY <1>3, <1>4

LEMMA EndOf ==
    ASSUME NEW C, NEW chars \in Seq(C), NEW i \in 1..(Len(chars) + 1), NEW digital \in BOOLEAN,
           NEW end, end = End(chars, i, digital)
    PROVE  /\ end \in i..(Len(chars) + 1) /\ Len(chars) \in Nat
           /\ \A k \in i..(end - 1) : IsDigit(chars[k]) <=> digital
           /\ end <= Len(chars) => ~(IsDigit(chars[end]) <=> digital)
<1> DEFINE n == Len(chars)
           Ends(j) == /\ \A k \in i..(j - 1) : IsDigit(chars[k]) <=> digital
                      /\ j <= n => ~(IsDigit(chars[j]) <=> digital)
           T == {j \in i..(n + 1) : j = n + 1 \/ ~(IsDigit(chars[j]) <=> digital)}
<1>1. n \in Nat
  BY LenProperties
<1>2. T \subseteq Nat /\ n + 1 \in T
  BY <1>1
<1>3. PICK j \in T : \A k \in T : j <= k
  <2> HIDE DEF T
  <2> QED
    BY <1>2, Least
<1>4. j \in i..(n + 1)
  OBVIOUS
<1>5. ASSUME NEW k \in i..(j - 1) PROVE IsDigit(chars[k]) <=> digital
  <2>1. k \in i..(n + 1) /\ ~(j <= k)
    BY <1>1, <1>4
  <2>2. k \notin T
    BY <1>3, <2>1
  <2> QED
    BY <2>1, <2>2
<1>6. j <= n => ~(IsDigit(chars[j]) <=> digital)
  BY <1>1, <1>4
<1>7. \E k \in i..(n + 1) : Ends(k)
  BY <1>4, <1>5, <1>6
<1>8. end = CHOOSE k \in i..(n + 1) : Ends(k)
  BY DEF End
<1>9. end \in i..(n + 1) /\ Ends(end)
  <2> HIDE DEF Ends
  <2> QED
    BY <1>7, <1>8
<1> QED
  BY <1>1, <1>9

\* What is read of digits, one by one
DigitsUpTo(f, digits, count) ==
    /\ f \in [0..count -> Nat]
    /\ f[0] = 0
    /\ \A k \in 0..(count - 1) : f[k + 1] = (10 * f[k] + DigitOf(digits[k + 1])) % PartRange

LEMMA DigitsInSteps ==
    ASSUME NEW C, NEW digits \in Seq(C), NEW n, n = Len(digits),
           \A k \in 1..n : IsDigit(digits[k])
    PROVE  \E f : /\ DigitsUpTo(f, digits, n)
                  /\ f[n] = FoldLeft(LAMBDA x, char : (10 * x + DigitOf(char)) % PartRange,
                                     0, digits)
<1> DEFINE Next(x, char) == (10 * x + DigitOf(char)) % PartRange
           G == [x \in Nat \X (1..n) |-> Next(x[1], digits[x[2]])]
           Table(t) == [s \in SUBSET (DOMAIN digits) |->
                          IF s = {} THEN 0 ELSE Next(t[s \ {Max(s)}], digits[Max(s)])]
           iter == CHOOSE t : t = Table(t)
<1>1. n \in Nat /\ DOMAIN digits = 1..n
  BY LenProperties
<1>2. PartRange \in Nat \ {0}
  BY ConfigAssumption
<1>3. ASSUME NEW k \in 1..n PROVE DigitOf(digits[k]) \in Nat
  BY DigitsAre
<1>4. ASSUME NEW x \in Nat, NEW k \in 1..n PROVE Next(x, digits[k]) \in Nat
  BY <1>2, <1>3
<1>5. G \in [Nat \X (1..n) -> Nat]
  <2> HIDE DEF Next
  <2> QED
    BY <1>4
<1>6. PICK g : IsTable(g, n, Nat, 0, G)
  <2> HIDE DEF G
  <2> QED
    BY <1>1, <1>5, FoldTable
<1>7. g = Table(g)
  <2>1. ASSUME NEW s \in SUBSET (1..n), s # {}
        PROVE  G[<<g[s \ {Max(s)}], Max(s)>>] = Next(g[s \ {Max(s)}], digits[Max(s)])
    <3>1. Max(s) \in 1..n /\ g[s \ {Max(s)}] \in Nat
      BY <1>1, <1>6, <2>1, LastPlace DEF IsTable
    <3> HIDE DEF Next
    <3> QED
      BY <3>1
  <2> HIDE DEF G, Next
  <2> QED
    BY <1>1, <1>6, <2>1 DEF IsTable
<1>8. iter = Table(iter)
  BY <1>7
<1>9. FoldLeft(LAMBDA x, char : (10 * x + DigitOf(char)) % PartRange, 0, digits)
        = iter[DOMAIN digits]
  BY DEF FoldLeft, MapThenFoldSet
<1> HIDE DEF iter
<1> DEFINE f == [k \in 0..n |-> iter[1..k]]
<1>10. \A s \in SUBSET (1..n) :
         iter[s] = IF s = {} THEN 0 ELSE Next(iter[s \ {Max(s)}], digits[Max(s)])
  <2> HIDE DEF Next
  <2> QED
    BY <1>1, <1>8
<1> HIDE DEF Next
<1>11. f[0] = 0
  <2>1. 1..0 = {} /\ {} \in SUBSET (1..n) /\ 0 \in 0..n
    BY <1>1
  <2> QED
    BY <1>10, <2>1
<1>12. ASSUME NEW k \in 0..(n - 1)
       PROVE  f[k + 1] = Next(f[k], digits[k + 1])
  <2>1. k \in 0..n /\ k + 1 \in 0..n
    BY <1>1
  <2>2. /\ 1..(k + 1) \in SUBSET (1..n) /\ 1..(k + 1) # {}
        /\ Max(1..(k + 1)) = k + 1 /\ (1..(k + 1)) \ {k + 1} = 1..k
    BY <1>1, FirstPlaces
  <2> QED
    BY <1>10, <2>1, <2>2
<1>13. f[n] = iter[DOMAIN digits]
  BY <1>1
<1>14. f = [k \in 0..n |-> f[k]]
  OBVIOUS
<1> HIDE DEF f
<1> DEFINE S == {k \in 0..n : f[k] \in Nat}
<1>15. 0 \in S
  <2>1. 0 \in 0..n /\ f[0] = 0
    BY <1>1, <1>11
  <2> QED
    BY <2>1
<1>16. ASSUME NEW k \in 0..(n - 1), k \in S PROVE k + 1 \in S
  <2>1. k + 1 \in 0..n /\ k + 1 \in 1..n /\ f[k] \in Nat
    BY <1>1, <1>16
  <2> QED
    BY <1>4, <1>12, <2>1
<1> HIDE DEF S
<1>17. \A k \in 0..n : k \in S
  BY <1>1, <1>15, <1>16, UpTo
<1>18. f \in [0..n -> Nat]
  <2>1. \A k \in 0..n : f[k] \in Nat
    BY <1>17 DEF S
  <2> QED
    BY <1>14, <2>1
<1>19. DigitsUpTo(f, digits, n)
  BY <1>11, <1>12, <1>18 DEF DigitsUpTo, Next
<1> QED
  BY <1>9, <1>13, <1>19

Spans(l, i, end, n) ==
    /\ i \in Nat \ {0} /\ n \in Nat /\ end = i + n /\ i + n <= l + 1
    /\ n = IF i <= end - 1 THEN (end - 1) - i + 1 ELSE 0
    /\ end \in Nat /\ end - 1 \in Int /\ i \in Int
    /\ \A k \in i..(end - 1) : k \in 1..l
    /\ \A k \in 0..(n - 1) : /\ k + 1 \in 1..((end - 1) - i + 1)
                             /\ i + (k + 1) - 1 = i + k
    /\ \A k \in 1..n : /\ k - 1 \in 0..(n - 1) /\ (k - 1) + 1 = k
                       /\ i + (k - 1) \in i..(end - 1)

LEMMA Span ==
    ASSUME NEW l \in Nat, NEW i \in 1..(l + 1), NEW end \in i..(l + 1)
    PROVE  Spans(l, i, end, end - i)
  BY DEF Spans

\* The same of the digits that begin at a place of a list
PartUpTo(f, chars, i, count) ==
    /\ f \in [0..count -> Nat]
    /\ f[0] = 0
    /\ \A k \in 0..(count - 1) :
          f[k + 1] = (10 * f[k] + DigitOf(chars[i + k])) % PartRange
    /\ f[count] = Part(chars, i)

LEMMA PartInSteps ==
    ASSUME NEW C, NEW chars \in Seq(C), NEW i \in 1..(Len(chars) + 1),
           NEW end, end = End(chars, i, TRUE), NEW n, n = end - i
    PROVE  \E f : PartUpTo(f, chars, i, n)
<1> DEFINE digits == SubSeq(chars, i, end - 1)
<1>1. /\ end \in i..(Len(chars) + 1) /\ Len(chars) \in Nat
      /\ \A k \in i..(end - 1) : IsDigit(chars[k]) <=> TRUE
  BY EndOf
<1> DEFINE l == Len(chars)
<1>2. Spans(l, i, end, n)
  <2>1. l \in Nat /\ i \in 1..(l + 1) /\ end \in i..(l + 1)
    BY <1>1
  <2> HIDE DEF l
  <2> QED
    BY <2>1, Span
<1>3. \A k \in i..(end - 1) : chars[k] \in C /\ IsDigit(chars[k])
  BY <1>1, <1>2, ElementOfSeq DEF Spans, l
<1>4. /\ digits \in Seq(C)
      /\ Len(digits) = IF i <= end - 1 THEN (end - 1) - i + 1 ELSE 0
      /\ \A k \in 1..((end - 1) - i + 1) : digits[k] = chars[i + k - 1]
  <2> HIDE DEF digits
  <2>1. i \in Int /\ end - 1 \in Int /\ \A k \in i..(end - 1) : chars[k] \in C
    BY <1>2, <1>3 DEF Spans
  <2> DEFINE last == end - 1
  <2>2. digits = SubSeq(chars, i, last) /\ i \in Int /\ last \in Int
        /\ \A k \in i..last : chars[k] \in C
    BY <2>1 DEF digits
  <2>3. /\ digits \in Seq(C)
        /\ Len(digits) = IF i <= last THEN last - i + 1 ELSE 0
        /\ \A k \in 1..(last - i + 1) : digits[k] = chars[i + k - 1]
    <3> HIDE DEF last
    <3> QED
      BY <2>2, SubSeqProperties
  <2> QED
    BY <2>3
<1>5. Part(chars, i) = FoldLeft(LAMBDA x, char : (10 * x + DigitOf(char)) % PartRange, 0, digits)
  BY DEF Part
<1> HIDE DEF digits
<1>6. n = Len(digits)
  BY <1>2, <1>4 DEF Spans
<1>7. ASSUME NEW k \in 0..(n - 1) PROVE digits[k + 1] = chars[i + k]
  <2>1. k + 1 \in 1..((end - 1) - i + 1) /\ i + (k + 1) - 1 = i + k
    BY <1>2 DEF Spans
  <2> QED
    BY <1>4, <2>1
<1>8. \A k \in 1..n : IsDigit(digits[k])
  <2> SUFFICES ASSUME NEW k \in 1..n PROVE IsDigit(digits[k])
    OBVIOUS
  <2>1. k - 1 \in 0..(n - 1) /\ (k - 1) + 1 = k /\ i + (k - 1) \in i..(end - 1)
    BY <1>2 DEF Spans
  <2> QED
    BY <1>3, <1>7, <2>1
<1>9. PICK f : /\ DigitsUpTo(f, digits, n)
               /\ f[n] = FoldLeft(LAMBDA x, char : (10 * x + DigitOf(char)) % PartRange,
                                  0, digits)
  BY <1>4, <1>6, <1>8, DigitsInSteps
<1>10. PartUpTo(f, chars, i, n)
  BY <1>5, <1>7, <1>9 DEF DigitsUpTo, PartUpTo
<1> QED
  BY <1>10

-----------------------------------------------------------------------------
(* The numbers of a version.                                               *)

NumberLists == {numbers \in Seq(Nat) : numbers # <<>>}

Keeps(after, numbers, count) == \A k \in 1..count : after[k] = numbers[k]

LEMMA PlaceAdded ==
    ASSUME NEW numbers \in NumberLists, NEW chars, NEW i \in Nat
    PROVE  LET after == WithPlace(numbers, chars, i)
               l     == Len(numbers)
           IN  /\ after \in NumberLists /\ l \in Nat \ {0}
               /\ IsDigit(chars[i]) =>
                      /\ Len(after) = l /\ Keeps(after, numbers, l - 1)
                      /\ after[l] = 10 * numbers[l] + DigitOf(chars[i])
               /\ ~IsDigit(chars[i]) /\ (i > 1 /\ ~IsDigit(chars[i - 1])) =>
                      after = numbers
               /\ ~IsDigit(chars[i]) /\ ~(i > 1 /\ ~IsDigit(chars[i - 1])) =>
                      Len(after) = l + 1 /\ Keeps(after, numbers, l) /\ after[l + 1] = 0
<1> DEFINE after == WithPlace(numbers, chars, i)
           l     == Len(numbers)
<1>1. numbers \in Seq(Nat) /\ l \in Nat \ {0} /\ l \in 1..l /\ numbers[l] \in Nat
  <2>1. numbers \in Seq(Nat) /\ l \in Nat \ {0}
    BY EmptySeq DEF NumberLists
  <2>2. l \in 1..Len(numbers)
    BY <2>1
  <2> QED
    BY <2>1, <2>2, ElementOfSeq
<1>2. CASE IsDigit(chars[i])
  <2> DEFINE e == 10 * numbers[l] + DigitOf(chars[i])
  <2>1. e \in Nat
    BY <1>1, <1>2, DigitsAre
  <2>2. after = [numbers EXCEPT ![l] = e]
    BY <1>2 DEF WithPlace
  <2> HIDE DEF e, after
  <2>3. /\ after \in Seq(Nat) /\ Len(after) = l
        /\ \A j \in 1..l : after[j] = IF j = l THEN e ELSE numbers[j]
    BY <1>1, <2>1, <2>2, ExceptSeq
  <2> HIDE DEF l
  <2>4. after[l] = e /\ Keeps(after, numbers, l - 1)
    BY <1>1, <2>3 DEF Keeps
  <2>5. after \in NumberLists
    BY <1>1, <2>3, EmptySeq DEF NumberLists
  <2> QED
    BY <1>1, <1>2, <2>3, <2>4, <2>5 DEF e, after, l
<1>3. CASE ~IsDigit(chars[i]) /\ (i > 1 /\ ~IsDigit(chars[i - 1]))
  BY <1>1, <1>3 DEF WithPlace
<1>4. CASE ~IsDigit(chars[i]) /\ ~(i > 1 /\ ~IsDigit(chars[i - 1]))
  <2>1. after = Append(numbers, 0)
    BY <1>4 DEF WithPlace
  <2> HIDE DEF after
  <2>2. after \in NumberLists /\ Len(after) = l + 1 /\ Keeps(after, numbers, l) /\ after[l + 1] = 0
    BY <1>1, <2>1, AppendProperties DEF NumberLists, Keeps
  <2> QED
    BY <1>1, <1>4, <2>2 DEF after
<1> QED
  BY <1>2, <1>3, <1>4

NumbersUpTo(f, chars, n) ==
    /\ f \in [0..n -> NumberLists]
    /\ f[0] = <<0>>
    /\ \A k \in 0..(n - 1) : f[k + 1] = WithPlace(f[k], chars, k + 1)

LEMMA NumbersInSteps ==
    ASSUME NEW C, NEW chars \in Seq(C), NEW n, n = Len(chars)
    PROVE  n \in Nat /\ \E f : NumbersUpTo(f, chars, n) /\ f[n] = Numbers(chars)
<1> DEFINE A == NumberLists
           places == [i \in DOMAIN chars |-> i]
           Step(numbers, i) == WithPlace(numbers, chars, i)
           G == [x \in A \X (1..n) |-> Step(x[1], x[2])]
           Table(t) == [s \in SUBSET (DOMAIN places) |->
                          IF s = {} THEN <<0>> ELSE Step(t[s \ {Max(s)}], places[Max(s)])]
           iter == CHOOSE t : t = Table(t)
<1>1. /\ n \in Nat /\ DOMAIN chars = 1..n /\ DOMAIN places = 1..n
      /\ \A i \in 1..n : places[i] = i
  BY LenProperties
<1>2. <<0>> \in A
  BY DEF NumberLists
<1>3. ASSUME NEW numbers \in A, NEW i \in 1..n PROVE Step(numbers, i) \in A
  BY <1>1, PlaceAdded
<1>4. G \in [A \X (1..n) -> A]
  <2> HIDE DEF A, Step
  <2> QED
    BY <1>3
<1>5. PICK g : IsTable(g, n, A, <<0>>, G)
  <2> HIDE DEF A, G
  <2> QED
    BY <1>1, <1>2, <1>4, FoldTable
<1>6. g = Table(g)
  <2>1. ASSUME NEW s \in SUBSET (1..n), s # {}
        PROVE  G[<<g[s \ {Max(s)}], Max(s)>>] = Step(g[s \ {Max(s)}], places[Max(s)])
    <3>1. Max(s) \in 1..n /\ g[s \ {Max(s)}] \in A
      BY <1>1, <1>5, <2>1, LastPlace DEF IsTable
    <3> HIDE DEF A, Step
    <3> QED
      BY <1>1, <3>1
  <2> HIDE DEF G, Step
  <2> QED
    BY <1>1, <1>5, <2>1 DEF IsTable
<1>7. iter = Table(iter)
  BY <1>6
<1>8. Numbers(chars) = iter[DOMAIN places]
  BY DEF Numbers, FoldLeftDomain, FoldLeft, MapThenFoldSet
<1> HIDE DEF iter, Step
<1> DEFINE f == [k \in 0..n |-> iter[1..k]]
<1>9. \A s \in SUBSET (1..n) :
        iter[s] = IF s = {} THEN <<0>> ELSE Step(iter[s \ {Max(s)}], places[Max(s)])
  BY <1>1, <1>7
<1>10. f[0] = <<0>>
  <2>1. 1..0 = {} /\ {} \in SUBSET (1..n) /\ 0 \in 0..n
    BY <1>1
  <2> QED
    BY <1>9, <2>1
<1>11. ASSUME NEW k \in 0..(n - 1) PROVE f[k + 1] = Step(f[k], k + 1)
  <2>1. k \in 0..n /\ k + 1 \in 0..n /\ k + 1 \in 1..n
    BY <1>1
  <2>2. /\ 1..(k + 1) \in SUBSET (1..n) /\ 1..(k + 1) # {}
        /\ Max(1..(k + 1)) = k + 1 /\ (1..(k + 1)) \ {k + 1} = 1..k
    BY <1>1, FirstPlaces
  <2> QED
    BY <1>1, <1>9, <2>1, <2>2
<1>12. f[n] = Numbers(chars) /\ f = [k \in 0..n |-> f[k]]
  BY <1>1, <1>8
<1> HIDE DEF f
<1> DEFINE S == {k \in 0..n : f[k] \in A}
<1> HIDE DEF A
<1>13. 0 \in S
  <2>1. 0 \in 0..n /\ f[0] = <<0>>
    BY <1>1, <1>10
  <2> QED
    BY <1>2, <2>1
<1>14. ASSUME NEW k \in 0..(n - 1), k \in S PROVE k + 1 \in S
  <2>1. k + 1 \in 0..n /\ k + 1 \in 1..n /\ f[k] \in A
    BY <1>1, <1>14
  <2> QED
    BY <1>3, <1>11, <2>1
<1> HIDE DEF S
<1>15. \A k \in 0..n : k \in S
  BY <1>1, <1>13, <1>14, UpTo
<1>16. f \in [0..n -> A]
  <2>1. \A k \in 0..n : f[k] \in A
    BY <1>15 DEF S
  <2> QED
    BY <1>12, <2>1
<1>17. NumbersUpTo(f, chars, n)
  BY <1>10, <1>11, <1>16 DEF NumbersUpTo, A, Step
<1> QED
  BY <1>1, <1>12, <1>17

LEMMA SmallRemainder ==
    ASSUME NEW m \in Nat \ {0}, NEW x \in 0..(m - 1)
    PROVE  x % m = x
  OBVIOUS

\* What the type holds is read as it stands.
LEMMA ReadExactly ==
    ASSUME NEW d \in Nat, NEW x \in [0..d -> Nat], NEW m \in [0..d -> Nat],
           NEW c \in [0..(d - 1) -> Nat],
           x[0] = 0, m[0] = 0,
           \A k \in 0..(d - 1) : /\ x[k + 1] = 10 * x[k] + c[k]
                                 /\ m[k + 1] = (10 * m[k] + c[k]) % PartRange,
           x[d] < PartRange
    PROVE  m[d] = x[d]
<1> DEFINE S == {k \in 0..d : x[k] < PartRange => m[k] = x[k]}
<1>1. PartRange \in Nat \ {0}
  BY ConfigAssumption
<1>2. 0 \in S
  <2>1. 0 \in 0..d
    OBVIOUS
  <2> QED
    BY <2>1
<1>3. ASSUME NEW k \in 0..(d - 1), k \in S PROVE k + 1 \in S
  <2>1. k \in 0..d /\ k + 1 \in 0..d
    OBVIOUS
  <2>2. SUFFICES ASSUME x[k + 1] < PartRange PROVE m[k + 1] = x[k + 1]
    BY <2>1
  <2>3. x[k] \in Nat /\ c[k] \in Nat /\ x[k + 1] \in Nat /\ x[k + 1] = 10 * x[k] + c[k]
    BY <2>1
  <2>4. x[k] < PartRange
    BY <1>1, <2>2, <2>3
  <2>5. m[k] = x[k]
    BY <1>3, <2>4
  <2>6. m[k + 1] = x[k + 1] % PartRange
    BY <2>3, <2>5
  <2>7. x[k + 1] \in 0..(PartRange - 1)
    BY <1>1, <2>2, <2>3
  <2> QED
    BY <1>1, <2>6, <2>7, SmallRemainder
<1> HIDE DEF S
<1>4. \A k \in 0..d : k \in S
  BY <1>2, <1>3, UpTo
<1> QED
  BY <1>4 DEF S

\* All numbers but the last stay as they are.
LEMMA Settled ==
    ASSUME NEW n \in Nat, NEW f, NEW chars, NumbersUpTo(f, chars, n),
           NEW k \in 0..n, NEW d \in 0..(n - k)
    PROVE  /\ Len(f[k]) \in Nat \ {0} /\ Len(f[k + d]) \in Nat
           /\ Len(f[k]) <= Len(f[k + d]) /\ Keeps(f[k + d], f[k], Len(f[k]) - 1)
<1> DEFINE l == Len(f[k])
           S == {e \in 0..(n - k) : l <= Len(f[k + e]) /\ Keeps(f[k + e], f[k], l - 1)}
<1>1. n - k \in Nat /\ k \in Nat
  OBVIOUS
<1>2. \A e \in 0..n : f[e] \in NumberLists /\ Len(f[e]) \in Nat \ {0}
  BY EmptySeq DEF NumbersUpTo, NumberLists
<1>3. l \in Nat \ {0}
  BY <1>2
<1> HIDE DEF l
<1>4. 0 \in S
  <2>1. 0 \in 0..(n - k) /\ k + 0 = k
    BY <1>1
  <2>2. l <= Len(f[k + 0]) /\ Keeps(f[k + 0], f[k], l - 1)
    BY <1>3, <2>1 DEF Keeps, l
  <2> QED
    BY <2>1, <2>2
<1>5. ASSUME NEW e \in 0..((n - k) - 1), e \in S PROVE e + 1 \in S
  <2>1. /\ e + 1 \in 0..(n - k) /\ k + e \in 0..(n - 1) /\ (k + e) + 1 = k + (e + 1)
        /\ k + e \in 0..n /\ k + (e + 1) \in 0..n /\ (k + e) + 1 \in Nat
    BY <1>1
  <2> DEFINE old == f[k + e]
             new == f[k + (e + 1)]
             m   == Len(old)
  <2>2. new = WithPlace(old, chars, (k + e) + 1) /\ old \in NumberLists
    BY <1>2, <2>1 DEF NumbersUpTo
  <2>3. l <= m /\ Keeps(old, f[k], l - 1) /\ m \in Nat
    BY <1>2, <1>5, <2>1
  <2> HIDE DEF old, new
  <2>4. /\ Len(new) \in {m, m + 1}
        /\ Keeps(new, old, m - 1)
    <3>1. m \in Nat /\ Keeps(old, old, m - 1) /\ (Keeps(new, old, m) => Keeps(new, old, m - 1))
      BY <2>3 DEF Keeps
    <3> QED
      BY <2>1, <2>2, <3>1, PlaceAdded
  <2> HIDE DEF m
  <2>5. l <= Len(new)
    BY <1>3, <2>3, <2>4
  <2>6. Keeps(new, f[k], l - 1)
    BY <1>3, <2>3, <2>4 DEF Keeps
  <2> QED
    BY <2>1, <2>5, <2>6 DEF new
<1> HIDE DEF S
<1>6. \A e \in 0..(n - k) : e \in S
  BY <1>1, <1>4, <1>5, UpTo
<1>7. d \in S
  BY <1>6
<1>8. k \in 0..n /\ k + d \in 0..n
  BY <1>1
<1> QED
  BY <1>2, <1>7, <1>8 DEF S, l

\* Digits make the last number.
Extends(f, chars, q, d, l) ==
    /\ \A k \in 0..d : Len(f[q + k]) = l
    /\ \A k \in 0..(d - 1) :
          f[(q + k) + 1][l] = 10 * f[q + k][l] + DigitOf(chars[(q + k) + 1])

LEMMA DigitRun ==
    ASSUME NEW n \in Nat, NEW f, NEW chars, NumbersUpTo(f, chars, n),
           NEW q \in 0..n, NEW d \in 0..(n - q),
           \A k \in 0..(d - 1) : IsDigit(chars[(q + k) + 1]),
           NEW l, l = Len(f[q])
    PROVE  Extends(f, chars, q, d, l)
<1> DEFINE S == {k \in 0..d : Len(f[q + k]) = l}
<1>1. d \in Nat /\ q \in Nat
  OBVIOUS
<1>2. \A e \in 0..n : f[e] \in NumberLists
  BY DEF NumbersUpTo
<1>3. 0 \in S
  <2>1. 0 \in 0..d /\ q + 0 = q
    BY <1>1
  <2> QED
    BY <2>1
<1>4. ASSUME NEW k \in 0..(d - 1), Len(f[q + k]) = l
      PROVE  /\ Len(f[(q + k) + 1]) = l
             /\ f[(q + k) + 1][l] = 10 * f[q + k][l] + DigitOf(chars[(q + k) + 1])
  <2>1. q + k \in 0..(n - 1) /\ q + k \in 0..n /\ (q + k) + 1 \in Nat
    BY <1>1
  <2>2. f[(q + k) + 1] = WithPlace(f[q + k], chars, (q + k) + 1) /\ f[q + k] \in NumberLists
    BY <1>2, <2>1 DEF NumbersUpTo
  <2>3. IsDigit(chars[(q + k) + 1])
    OBVIOUS
  <2> QED
    BY <1>4, <2>1, <2>2, <2>3, PlaceAdded
<1>5. ASSUME NEW k \in 0..(d - 1), k \in S PROVE k + 1 \in S
  <2>1. k + 1 \in 0..d /\ (q + k) + 1 = q + (k + 1)
    BY <1>1
  <2> QED
    BY <1>4, <1>5, <2>1
<1> HIDE DEF S
<1>6. \A k \in 0..d : k \in S
  BY <1>1, <1>3, <1>5, UpTo
<1>7. \A k \in 0..d : Len(f[q + k]) = l
  BY <1>6 DEF S
<1>8. \A k \in 0..(d - 1) : k \in 0..d
  BY <1>1
<1> QED
  BY <1>4, <1>7, <1>8 DEF Extends

\* Other characters after the first change nothing.
LEMMA OtherRun ==
    ASSUME NEW n \in Nat, NEW f, NEW chars, NumbersUpTo(f, chars, n),
           NEW q \in 1..n, NEW d \in 0..(n - q),
           \A k \in 0..d : ~IsDigit(chars[q + k])
    PROVE  f[q + d] = f[q]
<1> DEFINE S == {k \in 0..d : f[q + k] = f[q]}
<1>1. d \in Nat /\ q \in Nat
  OBVIOUS
<1>2. 0 \in S
  <2>1. 0 \in 0..d /\ q + 0 = q
    BY <1>1
  <2> QED
    BY <2>1
<1>3. ASSUME NEW k \in 0..(d - 1), k \in S PROVE k + 1 \in S
  <2>1. /\ k + 1 \in 0..d /\ k \in 0..d /\ (q + k) + 1 = q + (k + 1)
        /\ q + k \in 0..(n - 1) /\ q + k \in 0..n
        /\ (q + k) + 1 \in Nat /\ (q + k) + 1 > 1 /\ ((q + k) + 1) - 1 = q + k
    BY <1>1
  <2>2. f[(q + k) + 1] = WithPlace(f[q + k], chars, (q + k) + 1) /\ f[q + k] \in NumberLists
    BY <2>1 DEF NumbersUpTo
  <2>3. ~IsDigit(chars[(q + k) + 1]) /\ ~IsDigit(chars[q + k])
    BY <2>1
  <2>4. f[(q + k) + 1] = f[q + k]
    BY <2>1, <2>2, <2>3, PlaceAdded
  <2> QED
    BY <1>3, <2>1, <2>4
<1> HIDE DEF S
<1>4. \A k \in 0..d : k \in S
  BY <1>1, <1>2, <1>3, UpTo
<1> QED
  BY <1>1, <1>4 DEF S

\* Past the end no number is left, and none is found.
LEMMA PastTheEnd ==
    ASSUME NEW C, NEW chars \in Seq(C), NEW n, n = Len(chars)
    PROVE  /\ Part(chars, n + 1) = 0 /\ NextPart(chars, n + 1) = n + 1
           /\ End(chars, n + 1, TRUE) = n + 1 /\ End(chars, n + 1, FALSE) = n + 1
<1>1. n \in Nat
  BY LenProperties
<1> DEFINE q == n + 1
<1>2. q \in 1..(Len(chars) + 1)
  BY <1>1
<1>3. \A digital \in BOOLEAN : End(chars, q, digital) \in q..(n + 1)
  BY <1>2, EndOf
<1>4. \A digital \in BOOLEAN : End(chars, q, digital) = n + 1
  BY <1>1, <1>3
<1>5. Part(chars, q) = 0
  <2> DEFINE end == End(chars, q, TRUE)
             d   == end - q
  <2>1. end = q
    BY <1>4
  <2>2. d = 0
    <3> HIDE DEF end
    <3> QED
      BY <1>1, <2>1
  <2> HIDE DEF q
  <2>3. \E g : PartUpTo(g, chars, q, d)
    <3> HIDE DEF d, end
    <3>1. end = End(chars, q, TRUE) /\ d = end - q
      BY DEF d, end
    <3> QED
      BY <1>2, <3>1, PartInSteps
  <2> QED
    BY <2>2, <2>3 DEF PartUpTo
<1> QED
  BY <1>4, <1>5 DEF NextPart

\* The list of numbers read up to a place is about to get its l-th number.
OnNumber(f, chars, n, q, l) ==
    \/ q = n + 1 /\ l > Len(f[n])
    \/ /\ Len(f[q - 1]) = l /\ f[q - 1][l] = 0
       /\ q > 1 => ~IsDigit(chars[q - 1])
       /\ q > 1 /\ q <= n => IsDigit(chars[q])

\* The digits at a place are read as the number that the list has there, if
\* that fits.
Offsets(n, q, end, d, p) ==
    /\ d \in Nat /\ d \in 0..d /\ p \in 0..n /\ d \in 0..(n - p) /\ end - 1 = p + d /\ q = p + 1
    /\ \A k \in 0..(d - 1) : /\ (p + k) + 1 = q + k /\ q + k \in q..(end - 1)
                             /\ p + (k + 1) = (p + k) + 1
    /\ \A k \in 0..d : p + k \in 0..n

LEMMA OffsetsOf ==
    ASSUME NEW n \in Nat, NEW q \in 1..(n + 1), NEW end \in q..(n + 1)
    PROVE  Offsets(n, q, end, end - q, q - 1)
  BY DEF Offsets

ReadAs(chars, q, numbers, l) ==
    /\ Len(numbers) = l /\ numbers[l] \in Nat
    /\ numbers[l] < PartRange => Part(chars, q) = numbers[l]

LEMMA NumberRead ==
    ASSUME NEW C, NEW chars \in Seq(C), NEW n, n = Len(chars),
           NEW f, NumbersUpTo(f, chars, n),
           NEW q \in 1..(n + 1), NEW l \in Nat \ {0},
           Len(f[q - 1]) = l, f[q - 1][l] = 0,
           NEW end, end = End(chars, q, TRUE)
    PROVE  ReadAs(chars, q, f[end - 1], l)
<1> DEFINE d == end - q
           p == q - 1
<1>1. /\ n \in Nat /\ q \in 1..(Len(chars) + 1)
  BY LenProperties
<1>2. /\ end \in q..(n + 1)
      /\ \A k \in q..(end - 1) : IsDigit(chars[k]) <=> TRUE
  BY <1>1, EndOf
<1>3. Offsets(n, q, end, d, p)
  BY <1>1, <1>2, OffsetsOf
<1>4. PICK m : PartUpTo(m, chars, q, d)
  <2>1. end = End(chars, q, TRUE) /\ d = end - q
    OBVIOUS
  <2> HIDE DEF d
  <2> QED
    BY <1>1, <2>1, PartInSteps
<1> HIDE DEF d, p
<1>5. \A k \in 0..(d - 1) : IsDigit(chars[(p + k) + 1])
  BY <1>2, <1>3 DEF Offsets
<1>6. l = Len(f[p])
  BY DEF p
<1>7. Extends(f, chars, p, d, l)
  BY <1>1, <1>3, <1>5, <1>6, DigitRun DEF Offsets
<1> DEFINE x == [k \in 0..d |-> f[p + k][l]]
           c == [k \in 0..(d - 1) |-> DigitOf(chars[q + k])]
<1>8. x \in [0..d -> Nat]
  <2> SUFFICES ASSUME NEW k \in 0..d PROVE f[p + k][l] \in Nat
    OBVIOUS
  <2>1. f[p + k] \in Seq(Nat) /\ Len(f[p + k]) = l
    BY <1>3, <1>7 DEF NumbersUpTo, NumberLists, Offsets, Extends
  <2>2. l \in 1..Len(f[p + k])
    BY <2>1
  <2> QED
    BY <2>1, <2>2, ElementOfSeq
<1>9. c \in [0..(d - 1) -> Nat]
  <2> SUFFICES ASSUME NEW k \in 0..(d - 1) PROVE DigitOf(chars[q + k]) \in Nat
    OBVIOUS
  <2>1. IsDigit(chars[q + k])
    BY <1>3, <1>5 DEF Offsets
  <2> QED
    BY <2>1, DigitsAre
<1>10. x[0] = 0
  <2>1. 0 \in 0..d /\ p + 0 = q - 1
    BY <1>3 DEF Offsets
  <2> QED
    BY <2>1
<1>11. ASSUME NEW k \in 0..(d - 1)
       PROVE  /\ x[k + 1] = 10 * x[k] + c[k]
              /\ m[k + 1] = (10 * m[k] + c[k]) % PartRange
  <2>1. k \in 0..d /\ k + 1 \in 0..d
    BY <1>3 DEF Offsets
  <2>2. x[k + 1] = f[(p + k) + 1][l] /\ x[k] = f[p + k][l] /\ c[k] = DigitOf(chars[(p + k) + 1])
    BY <1>3, <2>1 DEF Offsets
  <2>3. x[k + 1] = 10 * x[k] + c[k]
    BY <1>7, <2>2 DEF Extends
  <2>4. m[k + 1] = (10 * m[k] + c[k]) % PartRange
    BY <1>4 DEF PartUpTo
  <2> QED
    BY <2>3, <2>4
<1>12. x[d] = f[end - 1][l] /\ Len(f[end - 1]) = l /\ d \in 0..d
  <2>1. d \in 0..d /\ p + d = end - 1
    BY <1>3 DEF Offsets
  <2>2. Len(f[p + d]) = l
    BY <1>7, <2>1 DEF Extends
  <2>3. x[d] = f[p + d][l]
    BY <2>1
  <2> HIDE DEF x
  <2> QED
    BY <2>1, <2>2, <2>3
<1> HIDE DEF x, c
<1>13. x[d] \in Nat
  BY <1>8, <1>12
<1>14. x[d] < PartRange => m[d] = x[d]
  BY <1>3, <1>4, <1>8, <1>9, <1>10, <1>11, ReadExactly DEF Offsets, PartUpTo
<1> QED
  BY <1>4, <1>12, <1>13, <1>14 DEF PartUpTo, ReadAs

\* From one number to the next: what is read here is what the list has, and
\* after the other characters the next number begins.
LEMMA NextNumber ==
    ASSUME NEW C, NEW chars \in Seq(C), NEW n, n = Len(chars),
           NEW f, NumbersUpTo(f, chars, n),
           \A number \in Range(f[n]) : number < PartRange,
           NEW q \in 1..(n + 1), NEW l \in Nat \ {0}, OnNumber(f, chars, n, q, l),
           NEW next, next = NextPart(chars, q)
    PROVE  /\ Part(chars, q) = At(f[n], l)
           /\ next \in q..(n + 1) /\ (q <= n => next > q)
           /\ OnNumber(f, chars, n, next, l + 1)
<1>1. n \in Nat /\ q \in 1..(Len(chars) + 1) /\ q \in Nat
  BY LenProperties
<1>2. \A k \in 0..n : f[k] \in NumberLists /\ f[k] \in Seq(Nat) /\ Len(f[k]) \in Nat \ {0}
  BY EmptySeq DEF NumbersUpTo, NumberLists
<1>3. Len(f[n]) \in Nat /\ n \in 0..n
  BY <1>1, <1>2
<1>4. CASE q = n + 1 /\ l > Len(f[n])
  <2>1. Part(chars, q) = 0 /\ next = n + 1
    BY <1>4, PastTheEnd
  <2>2. At(f[n], l) = 0 /\ l + 1 > Len(f[n])
    BY <1>3, <1>4 DEF At
  <2> QED
    BY <1>1, <1>4, <2>1, <2>2 DEF OnNumber
<1>5. CASE /\ Len(f[q - 1]) = l /\ f[q - 1][l] = 0
           /\ q > 1 => ~IsDigit(chars[q - 1])
           /\ q > 1 /\ q <= n => IsDigit(chars[q])
  <2> DEFINE end == End(chars, q, TRUE)
             x   == f[end - 1][l]
  <2>1. /\ end \in q..(n + 1)
        /\ \A k \in q..(end - 1) : IsDigit(chars[k]) <=> TRUE
        /\ end <= n => ~(IsDigit(chars[end]) <=> TRUE)
    BY <1>1, EndOf
  <2>2. Len(f[end - 1]) = l /\ x \in Nat /\ (x < PartRange => Part(chars, q) = x)
    <3>1. end = End(chars, q, TRUE)
      OBVIOUS
    <3> HIDE DEF end
    <3>2. Len(f[q - 1]) = l /\ f[q - 1][l] = 0
      BY <1>5
    <3>3. ReadAs(chars, q, f[end - 1], l)
      BY <3>1, <3>2, NumberRead
    <3> QED
      BY <3>3 DEF ReadAs
  <2>3. next = End(chars, end, FALSE)
    BY DEF NextPart
  <2> HIDE DEF end
  <2>4. end \in Nat /\ end - 1 \in 0..n /\ end >= q /\ end <= n + 1
    BY <1>1, <2>1
  <2>5. /\ x = At(f[n], l) /\ l \in 1..Len(f[n])
        /\ next \in q..(n + 1) /\ (q <= n => next > q)
        /\ OnNumber(f, chars, n, next, l + 1)
    <3>1. CASE end = n + 1
      <4>1. end - 1 = n
        BY <1>1, <3>1
      <4>2. x = At(f[n], l) /\ l = Len(f[n])
        BY <2>2, <4>1 DEF At
      <4>3. next = n + 1
        BY <2>3, <3>1, PastTheEnd
      <4>4. l + 1 > Len(f[n]) /\ l \in 1..Len(f[n])
        BY <4>2
      <4> QED
        BY <1>1, <4>2, <4>3, <4>4 DEF OnNumber
    <3>2. CASE end <= n
      <4>1. end \in 0..n /\ end \in 1..n /\ end - 1 \in 0..(n - 1) /\ (end - 1) + 1 = end
        BY <1>1, <2>4, <3>2
      <4>2. f[end] = WithPlace(f[end - 1], chars, end)
        BY <4>1 DEF NumbersUpTo
      <4>3. ~IsDigit(chars[end])
        BY <2>1, <3>2
      <4>4. end > 1 => IsDigit(chars[end - 1])
        <5>1. CASE end = q
          <6>1. end <= 1
            BY <1>5, <3>2, <4>1, <4>3, <5>1
          <6> QED
            BY <4>1, <6>1
        <5>2. CASE end # q
          <6>1. end - 1 \in q..(end - 1)
            BY <1>1, <2>4, <5>2
          <6> QED
            BY <2>1, <6>1
        <5> QED
          BY <5>1, <5>2
      <4>5. /\ Len(f[end]) = l + 1 /\ Keeps(f[end], f[end - 1], l) /\ f[end][l + 1] = 0
        <5> DEFINE old == f[end - 1]
                   new == f[end]
        <5>1. old \in NumberLists /\ Len(old) = l /\ new = WithPlace(old, chars, end)
          BY <1>2, <2>2, <2>4, <4>2
        <5>2. ~(end > 1 /\ ~IsDigit(chars[end - 1]))
          BY <4>4
        <5> HIDE DEF old, new
        <5>3. Len(new) = l + 1 /\ Keeps(new, old, l) /\ new[l + 1] = 0
          BY <2>4, <4>3, <5>1, <5>2, PlaceAdded
        <5> QED
          BY <5>3 DEF old, new
      <4>6. f[end][l] = x
        BY <4>5 DEF Keeps
      <4>7. x = At(f[n], l) /\ l \in 1..Len(f[n])
        <5> DEFINE d == n - end
        <5>1. d \in 0..(n - end) /\ end + d = n
          BY <1>1, <4>1
        <5> HIDE DEF d
        <5>2. Len(f[end]) <= Len(f[n]) /\ Keeps(f[n], f[end], Len(f[end]) - 1)
          BY <1>1, <4>1, <5>1, Settled
        <5>3. l \in 1..(Len(f[end]) - 1) /\ l <= Len(f[n]) /\ l \in 1..Len(f[n])
          BY <1>3, <4>5, <5>2
        <5>4. f[n][l] = f[end][l]
          BY <5>2, <5>3 DEF Keeps
        <5> QED
          BY <4>6, <5>3, <5>4 DEF At
      <4>8. /\ next \in end..(n + 1)
            /\ \A k \in end..(next - 1) : IsDigit(chars[k]) <=> FALSE
            /\ next <= n => ~(IsDigit(chars[next]) <=> FALSE)
        <5>1. end \in 1..(Len(chars) + 1)
          BY <4>1
        <5> QED
          BY <2>3, <5>1, EndOf
      <4>9. next # end
        BY <3>2, <4>3, <4>8
      <4> DEFINE d == (next - 1) - end
      <4>10. /\ d \in 0..(n - end) /\ end + d = next - 1
             /\ \A k \in 0..d : end + k \in end..(next - 1)
             /\ next - 1 \in end..(next - 1) /\ next > end /\ next > 1
             /\ next \in q..(n + 1)
        BY <1>1, <2>4, <4>1, <4>8, <4>9
      <4> HIDE DEF d
      <4>11. \A k \in 0..d : ~IsDigit(chars[end + k])
        BY <4>8, <4>10
      <4>12. f[next - 1] = f[end]
        <5>1. f[end + d] = f[end]
          BY <1>1, <4>1, <4>10, <4>11, OtherRun
        <5> QED
          BY <4>10, <5>1
      <4>13. ~IsDigit(chars[next - 1]) /\ (next <= n => IsDigit(chars[next]))
        BY <4>8, <4>10
      <4>14. OnNumber(f, chars, n, next, l + 1)
        BY <4>5, <4>12, <4>13 DEF OnNumber
      <4>15. next > q
        BY <1>1, <2>4, <4>10
      <4> QED
        BY <4>7, <4>10, <4>14, <4>15
    <3> QED
      BY <1>1, <2>4, <3>1, <3>2
  <2>6. x < PartRange
    <3>1. x \in Range(f[n])
      <4>1. x = f[n][l] /\ l \in DOMAIN f[n]
        BY <1>2, <1>3, <2>5, LenProperties DEF At
      <4> QED
        BY <4>1 DEF Range
    <3> QED
      BY <3>1
  <2> QED
    BY <2>2, <2>5, <2>6
<1> QED
  BY <1>4, <1>5 DEF OnNumber

-----------------------------------------------------------------------------
(* The comparison.                                                         *)

LEMMA NextPartIsLater ==
    ASSUME NEW C, NEW chars \in Seq(C), NEW n, n = Len(chars), NEW q \in 1..(n + 1)
    PROVE  /\ n \in Nat /\ NextPart(chars, q) \in q..(n + 1)
           /\ q <= n => NextPart(chars, q) > q
<1> DEFINE end  == End(chars, q, TRUE)
           next == End(chars, end, FALSE)
<1>1. n \in Nat /\ q \in 1..(Len(chars) + 1) /\ q \in Nat
  BY LenProperties
<1>2. end \in q..(n + 1) /\ (end <= n => ~(IsDigit(chars[end]) <=> TRUE))
  BY <1>1, EndOf
<1>3. NextPart(chars, q) = next
  BY DEF NextPart
<1> HIDE DEF end
<1>4. end \in 1..(Len(chars) + 1)
  BY <1>1, <1>2
<1>5. next \in end..(n + 1) /\ (next <= n => ~(IsDigit(chars[next]) <=> FALSE))
  BY <1>4, EndOf
<1> HIDE DEF next
<1>6. next \in q..(n + 1) /\ (next = q => next = end)
  BY <1>1, <1>2, <1>5
<1>7. ASSUME q <= n PROVE next # q
  BY <1>2, <1>5, <1>6, <1>7
<1> QED
  BY <1>1, <1>3, <1>6, <1>7

Compares(compare, a, b, n, m) ==
    \A q \in 1..(n + 1), r \in 1..(m + 1) :
        compare[<<q, r>>] =
            IF q = n + 1 /\ r = m + 1 THEN 0
            ELSE IF Part(a, q) < Part(b, r) THEN -1
            ELSE IF Part(a, q) > Part(b, r) THEN 1
            ELSE compare[<<NextPart(a, q), NextPart(b, r)>>]

LEMMA CompareInSteps ==
    ASSUME NEW left, NEW right, NEW C, NEW a \in Seq(C), NEW b \in Seq(C),
           a = Stripped(left), b = Stripped(right),
           NEW n, n = Len(a), NEW m, m = Len(b)
    PROVE  \E compare : /\ Compares(compare, a, b, n, m)
                        /\ compare[<<1, 1>>] = CompareVersions(left, right)
<1> DEFINE S == (1..(n + 1)) \X (1..(m + 1))
           A == {-1, 0, 1}
           rank == [at \in S |-> (n + 1 - at[1]) + (m + 1 - at[2])]
           next == [at \in S |-> <<NextPart(a, at[1]), NextPart(b, at[2])>>]
           Then(at, x) == IF Part(a, at[1]) < Part(b, at[2]) THEN -1
                          ELSE IF Part(a, at[1]) > Part(b, at[2]) THEN 1 ELSE x
           G == [x \in S \X A |-> Then(x[1], x[2])]
           Table(t) ==
             [at \in S |->
                IF at = <<n + 1, m + 1>> THEN 0
                ELSE IF Part(a, at[1]) < Part(b, at[2]) THEN -1
                ELSE IF Part(a, at[1]) > Part(b, at[2]) THEN 1
                ELSE t[<<NextPart(a, at[1]), NextPart(b, at[2])>>]]
           compare == CHOOSE t : t = Table(t)
<1>1. n \in Nat /\ m \in Nat /\ n + m \in Nat
  BY LenProperties
<1>2. /\ \A q \in 1..(n + 1) : /\ NextPart(a, q) \in q..(n + 1)
                               /\ q <= n => NextPart(a, q) > q
      /\ \A r \in 1..(m + 1) : /\ NextPart(b, r) \in r..(m + 1)
                               /\ r <= m => NextPart(b, r) > r
  BY NextPartIsLater
<1>3. rank \in [S -> 0..(n + m)]
  BY <1>1
<1>4. next \in [S -> S]
  BY <1>1, <1>2
<1>5. ASSUME NEW at \in S
      PROVE  /\ rank[at] = 0 <=> at = <<n + 1, m + 1>>
             /\ rank[at] # 0 => rank[next[at]] < rank[at]
  <2>1. PICK q \in 1..(n + 1), r \in 1..(m + 1) : at = <<q, r>>
    OBVIOUS
  <2> DEFINE q2 == NextPart(a, q)
             r2 == NextPart(b, r)
  <2>2. q2 \in q..(n + 1) /\ (q <= n => q2 > q) /\ r2 \in r..(m + 1) /\ (r <= m => r2 > r)
    BY <1>2
  <2>3. next[at] = <<q2, r2>> /\ next[at] \in S
    BY <1>4, <2>1
  <2> HIDE DEF q2, r2, next
  <2>4. rank[at] = (n + 1 - q) + (m + 1 - r) /\ rank[next[at]] = (n + 1 - q2) + (m + 1 - r2)
    BY <2>1, <2>3
  <2> HIDE DEF rank, S
  <2>5. at = <<n + 1, m + 1>> <=> q = n + 1 /\ r = m + 1
    BY <2>1
  <2> QED
    BY <1>1, <2>2, <2>4, <2>5
<1>6. G \in [S \X A -> A]
  OBVIOUS
<1>7. PICK g : IsRankTable(g, S, rank, next, A, 0, G)
  <2>1. 0 \in A
    OBVIOUS
  <2> HIDE DEF S, A, G, next, rank
  <2> QED
    BY <1>1, <1>3, <1>4, <1>5, <1>6, <2>1, RankTable
<1>8. ASSUME NEW at \in S
      PROVE  g[at] = IF at = <<n + 1, m + 1>> THEN 0
                     ELSE Then(at, g[<<NextPart(a, at[1]), NextPart(b, at[2])>>])
  <2>1. g[at] = IF at = <<n + 1, m + 1>> THEN 0 ELSE G[<<at, g[next[at]]>>]
    <3> HIDE DEF S, A, G, next, rank
    <3> QED
      BY <1>5, <1>7 DEF IsRankTable
  <2>2. next[at] \in S /\ g[next[at]] \in A
    <3> HIDE DEF S, A, G, next, rank
    <3> QED
      BY <1>4, <1>7 DEF IsRankTable
  <2>3. next[at] = <<NextPart(a, at[1]), NextPart(b, at[2])>>
    OBVIOUS
  <2>4. G[<<at, g[next[at]]>>] = Then(at, g[next[at]])
    <3> HIDE DEF S, A, Then, next
    <3> QED
      BY <2>2
  <2> HIDE DEF S, A, G, Then, next
  <2> QED
    BY <2>1, <2>3, <2>4
<1>9. g = Table(g)
  <2>1. g = [at \in S |-> g[at]]
    <3> HIDE DEF S, A, G, next, rank
    <3> QED
      BY <1>7 DEF IsRankTable
  <2> HIDE DEF S
  <2> QED
    BY <1>8, <2>1
<1>10. compare = Table(compare)
  BY <1>9
<1>11. CompareVersions(left, right) = compare[<<1, 1>>]
  BY DEF CompareVersions
<1> HIDE DEF compare
<1>12. Compares(compare, a, b, n, m)
  <2> SUFFICES ASSUME NEW q \in 1..(n + 1), NEW r \in 1..(m + 1)
               PROVE  compare[<<q, r>>] =
                          IF q = n + 1 /\ r = m + 1 THEN 0
                          ELSE IF Part(a, q) < Part(b, r) THEN -1
                          ELSE IF Part(a, q) > Part(b, r) THEN 1
                          ELSE compare[<<NextPart(a, q), NextPart(b, r)>>]
    BY DEF Compares
  <2> DEFINE at == <<q, r>>
  <2>1. at \in S /\ at[1] = q /\ at[2] = r /\ (at = <<n + 1, m + 1>> <=> q = n + 1 /\ r = m + 1)
    OBVIOUS
  <2> HIDE DEF at, S
  <2>2. compare[at] = IF at = <<n + 1, m + 1>> THEN 0
                      ELSE IF Part(a, at[1]) < Part(b, at[2]) THEN -1
                      ELSE IF Part(a, at[1]) > Part(b, at[2]) THEN 1
                      ELSE compare[<<NextPart(a, at[1]), NextPart(b, at[2])>>]
    BY <1>10, <2>1
  <2> QED
    BY <2>1, <2>2 DEF at
<1> QED
  BY <1>11, <1>12

\* The first difference from the l-th number on is that a's is less.
BeforeFrom(a, b, l) ==
    \E i \in Nat : i >= l /\ At(a, i) < At(b, i) /\ \A j \in l..(i - 1) : At(a, j) = At(b, j)

LEMMA AtIsNumber ==
    ASSUME NEW a \in NumberLists, NEW i \in Nat \ {0}
    PROVE  At(a, i) \in Nat /\ Len(a) \in Nat /\ (i > Len(a) => At(a, i) = 0)
<1>1. a \in Seq(Nat) /\ Len(a) \in Nat
  BY LenProperties DEF NumberLists
<1>2. CASE i <= Len(a)
  <2>1. i \in 1..Len(a)
    BY <1>1, <1>2
  <2>2. a[i] \in Nat
    BY <1>1, <2>1, ElementOfSeq
  <2> QED
    BY <1>1, <1>2, <2>2 DEF At
<1>3. CASE ~(i <= Len(a))
  BY <1>1, <1>3 DEF At
<1> QED
  BY <1>2, <1>3

LEMMA BeforeStep ==
    ASSUME NEW a \in NumberLists, NEW b \in NumberLists, NEW l \in Nat \ {0}
    PROVE  /\ At(a, l) < At(b, l) => BeforeFrom(a, b, l)
           /\ At(a, l) > At(b, l) => ~BeforeFrom(a, b, l)
           /\ At(a, l) = At(b, l) => (BeforeFrom(a, b, l) <=> BeforeFrom(a, b, l + 1))
<1>1. At(a, l) \in Nat /\ At(b, l) \in Nat
  BY AtIsNumber
<1>2. ASSUME At(a, l) < At(b, l) PROVE BeforeFrom(a, b, l)
  <2>1. l \in Nat /\ l >= l /\ l..(l - 1) = {}
    OBVIOUS
  <2> QED
    BY <1>2, <2>1 DEF BeforeFrom
<1>3. ASSUME NEW i \in Nat, i >= l, ~(At(a, l) < At(b, l)), At(a, i) < At(b, i),
             \A j \in l..(i - 1) : At(a, j) = At(b, j)
      PROVE  /\ At(a, l) = At(b, l) /\ i >= l + 1
             /\ \A j \in (l + 1)..(i - 1) : At(a, j) = At(b, j)
  <2>1. i # l
    BY <1>3
  <2>2. i >= l + 1 /\ l \in l..(i - 1) /\ \A j \in (l + 1)..(i - 1) : j \in l..(i - 1)
    BY <1>3, <2>1
  <2> QED
    BY <1>3, <2>2
<1>4. ASSUME At(a, l) > At(b, l) PROVE ~BeforeFrom(a, b, l)
  <2>1. ~(At(a, l) < At(b, l)) /\ At(a, l) # At(b, l)
    BY <1>1, <1>4
  <2> QED
    BY <1>3, <2>1 DEF BeforeFrom
<1>5. ASSUME At(a, l) = At(b, l) PROVE BeforeFrom(a, b, l) <=> BeforeFrom(a, b, l + 1)
  <2>1. ~(At(a, l) < At(b, l))
    BY <1>1, <1>5
  <2>2. BeforeFrom(a, b, l) => BeforeFrom(a, b, l + 1)
    BY <1>3, <2>1 DEF BeforeFrom
  <2>3. ASSUME NEW i \in Nat, i >= l + 1, At(a, i) < At(b, i),
               \A j \in (l + 1)..(i - 1) : At(a, j) = At(b, j)
        PROVE  BeforeFrom(a, b, l)
    <3>1. i >= l /\ \A j \in l..(i - 1) : j = l \/ j \in (l + 1)..(i - 1)
      BY <2>3
    <3>2. \A j \in l..(i - 1) : At(a, j) = At(b, j)
      BY <1>5, <2>3, <3>1
    <3> QED
      BY <2>3, <3>1, <3>2 DEF BeforeFrom
  <2> QED
    BY <2>2, <2>3 DEF BeforeFrom
<1> QED
  BY <1>2, <1>4, <1>5

LEMMA ComesBeforeFromFirst ==
    ASSUME NEW a \in NumberLists, NEW b \in NumberLists
    PROVE  ComesBefore(a, b) <=> BeforeFrom(a, b, 1)
<1> DEFINE n == Len(a)
           m == Len(b)
<1>1. n \in Nat /\ m \in Nat
  BY AtIsNumber
<1>2. ASSUME NEW i \in Nat, i >= 1, At(a, i) < At(b, i) PROVE i \in 1..(n + m)
  <2>1. i \in Nat \ {0}
    BY <1>2
  <2>2. At(a, i) \in Nat /\ At(b, i) # 0
    BY <1>2, <2>1, AtIsNumber
  <2>3. ~(i > m)
    BY <2>1, <2>2, AtIsNumber
  <2> HIDE DEF n, m
  <2> QED
    BY <1>1, <2>1, <2>3
<1>3. \A i \in 1..(n + m) : i \in Nat /\ i >= 1
  BY <1>1
<1>4. ComesBefore(a, b) <=>
        \E i \in 1..(n + m) : At(a, i) < At(b, i) /\ \A j \in 1..(i - 1) : At(a, j) = At(b, j)
  BY DEF ComesBefore
<1> HIDE DEF n, m
<1> QED
  BY <1>2, <1>3, <1>4 DEF BeforeFrom

LEMMA NoneLeft ==
    ASSUME NEW n \in Nat, NEW f, NEW chars, NumbersUpTo(f, chars, n),
           NEW l \in Nat \ {0}, OnNumber(f, chars, n, n + 1, l), NEW i \in Nat, i >= l
    PROVE  At(f[n], i) = 0
<1>1. f[n] \in NumberLists /\ Len(f[n]) \in Nat /\ i \in Nat \ {0} /\ (n + 1) - 1 = n
  BY AtIsNumber DEF NumbersUpTo
<1>2. l > Len(f[n]) \/ (Len(f[n]) = l /\ f[n][l] = 0)
  BY <1>1 DEF OnNumber
<1>3. CASE i > Len(f[n])
  BY <1>1, <1>3, AtIsNumber
<1>4. CASE ~(i > Len(f[n]))
  <2>1. i = l /\ i <= Len(f[n]) /\ f[n][i] = 0
    BY <1>1, <1>2, <1>4
  <2> QED
    BY <2>1 DEF At
<1> QED
  BY <1>3, <1>4

\* Both lists gone through from their l-th numbers on: the comparison finds
\* the first difference, wherever it is.
LEMMA CompareFrom ==
    ASSUME NEW C, NEW a \in Seq(C), NEW b \in Seq(C),
           NEW n, n = Len(a), NEW m, m = Len(b),
           NEW f, NumbersUpTo(f, a, n), NEW g, NumbersUpTo(g, b, m),
           \A number \in Range(f[n]) : number < PartRange,
           \A number \in Range(g[m]) : number < PartRange,
           NEW compare, Compares(compare, a, b, n, m)
    PROVE  \A q \in 1..(n + 1), r \in 1..(m + 1), l \in Nat \ {0} :
               OnNumber(f, a, n, q, l) /\ OnNumber(g, b, m, r, l) =>
                   (compare[<<q, r>>] < 0 <=> BeforeFrom(f[n], g[m], l))
<1> DEFINE Right(q, r, l) ==
               OnNumber(f, a, n, q, l) /\ OnNumber(g, b, m, r, l) =>
                   (compare[<<q, r>>] < 0 <=> BeforeFrom(f[n], g[m], l))
           S == {k \in 0..(n + m) :
                    \A q \in 1..(n + 1), r \in 1..(m + 1), l \in Nat \ {0} :
                        (n + 1 - q) + (m + 1 - r) <= k => Right(q, r, l)}
<1>1. n \in Nat /\ m \in Nat /\ n + m \in Nat
  BY LenProperties
<1>2. f[n] \in NumberLists /\ g[m] \in NumberLists
  BY <1>1 DEF NumbersUpTo
<1>3. ASSUME NEW l \in Nat \ {0} PROVE Right(n + 1, m + 1, l)
  <2> SUFFICES ASSUME OnNumber(f, a, n, n + 1, l), OnNumber(g, b, m, m + 1, l)
               PROVE  compare[<<n + 1, m + 1>>] < 0 <=> BeforeFrom(f[n], g[m], l)
    OBVIOUS
  <2>1. \A i \in Nat : i >= l => At(f[n], i) = 0 /\ At(g[m], i) = 0
    BY <1>1, NoneLeft
  <2>2. ~BeforeFrom(f[n], g[m], l)
    <3> SUFFICES ASSUME NEW i \in Nat, i >= l, At(f[n], i) < At(g[m], i) PROVE FALSE
      BY DEF BeforeFrom
    <3>1. At(f[n], i) = 0 /\ At(g[m], i) = 0
      BY <2>1
    <3> QED
      BY <3>1
  <2>3. compare[<<n + 1, m + 1>>] = 0
    <3>1. n + 1 \in 1..(n + 1) /\ m + 1 \in 1..(m + 1)
      BY <1>1
    <3> QED
      BY <3>1 DEF Compares
  <2> QED
    BY <2>2, <2>3
<1>4. 0 \in S
  <2>1. ASSUME NEW q \in 1..(n + 1), NEW r \in 1..(m + 1), (n + 1 - q) + (m + 1 - r) <= 0
        PROVE  q = n + 1 /\ r = m + 1
    BY <1>1, <2>1
  <2>2. 0 \in 0..(n + m)
    BY <1>1
  <2> HIDE DEF Right
  <2> QED
    BY <1>3, <2>1, <2>2
<1>5. ASSUME NEW k \in 0..((n + m) - 1), k \in S PROVE k + 1 \in S
  <2>1. k + 1 \in 0..(n + m)
    BY <1>1
  <2> SUFFICES ASSUME NEW q \in 1..(n + 1), NEW r \in 1..(m + 1), NEW l \in Nat \ {0},
                      (n + 1 - q) + (m + 1 - r) <= k + 1
               PROVE  Right(q, r, l)
    <3> HIDE DEF Right
    <3> QED
      BY <2>1
  <2>2. CASE q = n + 1 /\ r = m + 1
    BY <1>3, <2>2
  <2>3. CASE ~(q = n + 1 /\ r = m + 1)
    <3> SUFFICES ASSUME OnNumber(f, a, n, q, l), OnNumber(g, b, m, r, l)
                 PROVE  compare[<<q, r>>] < 0 <=> BeforeFrom(f[n], g[m], l)
      OBVIOUS
    <3> DEFINE q2 == NextPart(a, q)
               r2 == NextPart(b, r)
               x == Part(a, q)
               y == Part(b, r)
    <3>1. /\ x = At(f[n], l) /\ q2 \in q..(n + 1) /\ (q <= n => q2 > q)
          /\ OnNumber(f, a, n, q2, l + 1)
      BY NextNumber
    <3>2. /\ y = At(g[m], l) /\ r2 \in r..(m + 1) /\ (r <= m => r2 > r)
          /\ OnNumber(g, b, m, r2, l + 1)
      BY NextNumber
    <3>3. compare[<<q, r>>] = IF x < y THEN -1 ELSE IF x > y THEN 1 ELSE compare[<<q2, r2>>]
      BY <2>3 DEF Compares
    <3> HIDE DEF q2, r2, x, y
    <3>4. x \in Nat /\ y \in Nat /\ l + 1 \in Nat \ {0}
      <4>1. At(f[n], l) \in Nat /\ At(g[m], l) \in Nat
        BY <1>2, AtIsNumber
      <4> QED
        BY <3>1, <3>2, <4>1
    <3>5. q2 \in 1..(n + 1) /\ r2 \in 1..(m + 1) /\ (n + 1 - q2) + (m + 1 - r2) <= k
      BY <1>1, <2>3, <3>1, <3>2
    <3>6. compare[<<q2, r2>>] < 0 <=> BeforeFrom(f[n], g[m], l + 1)
      BY <1>5, <3>1, <3>2, <3>4, <3>5
    <3> DEFINE v == compare[<<q, r>>]
    <3>7. CASE x < y
      <4>1. v = -1
        BY <3>3, <3>7
      <4>2. BeforeFrom(f[n], g[m], l)
        BY <1>2, <3>1, <3>2, <3>7, BeforeStep
      <4> HIDE DEF v
      <4>3. v < 0
        BY <4>1
      <4> QED
        BY <4>2, <4>3 DEF v
    <3>8. CASE x > y
      <4>1. ~(x < y)
        BY <3>4, <3>8
      <4>2. v = 1
        BY <3>3, <3>8, <4>1
      <4>3. ~BeforeFrom(f[n], g[m], l)
        BY <1>2, <3>1, <3>2, <3>8, BeforeStep
      <4> HIDE DEF v
      <4>4. ~(v < 0)
        BY <4>2
      <4> QED
        BY <4>3, <4>4 DEF v
    <3>9. CASE x = y
      <4>1. ~(x < y) /\ ~(x > y)
        BY <3>4, <3>9
      <4>2. BeforeFrom(f[n], g[m], l) <=> BeforeFrom(f[n], g[m], l + 1)
        BY <1>2, <3>1, <3>2, <3>9, BeforeStep
      <4> QED
        BY <3>3, <3>6, <4>1, <4>2
    <3> QED
      BY <3>4, <3>7, <3>8, <3>9
  <2> QED
    BY <2>2, <2>3
<1> HIDE DEF S
<1>6. \A k \in 0..(n + m) : k \in S
  BY <1>1, <1>4, <1>5, UpTo
<1>7. n + m \in S /\ \A q \in 1..(n + 1), r \in 1..(m + 1) : (n + 1 - q) + (m + 1 - r) <= n + m
  BY <1>1, <1>6
<1> QED
  BY <1>7 DEF S

\* The first of the characters that a version is stripped to
LEMMA StrippedIsList ==
    ASSUME NEW C, NEW version \in Seq(C)
    PROVE  Stripped(version) \in Seq(C)
<1> DEFINE bare == IF version # <<>> /\ Head(version) \in {"v", "V"} THEN Tail(version)
                   ELSE version
           whole == bare \o <<"+">>
           T == {i \in 1..Len(whole) : whole[i] = "+"}
           place == SelectInSeq(whole, LAMBDA char : char = "+")
<1>1. bare \in Seq(C)
  OBVIOUS
<1>2. Stripped(version) = SubSeq(bare, 1, place - 1)
  BY DEF Stripped
<1> HIDE DEF bare
<1>3. Len(bare) \in Nat /\ Len(whole) = Len(bare) + 1
  BY <1>1
<1>4. place \in 0..(Len(bare) + 1)
  <2>1. place = IF T # {} THEN Min(T) ELSE 0
    BY DEF SelectInSeq
  <2>2. T \subseteq Nat /\ T \subseteq 1..(Len(bare) + 1)
    BY <1>3
  <2> HIDE DEF T, place
  <2>3. CASE T = {}
    BY <1>3, <2>1, <2>3
  <2>4. CASE T # {}
    <3>1. \E i \in T : \A j \in T : i <= j
      BY <2>2, <2>4, Least
    <3>2. Min(T) \in T
      BY <3>1 DEF Min
    <3>3. place \in 1..(Len(bare) + 1)
      BY <2>1, <2>2, <2>4, <3>2
    <3> QED
      BY <1>3, <3>3
  <2> QED
    BY <2>3, <2>4
<1> HIDE DEF place
<1> DEFINE last == place - 1
<1>5. last \in Int /\ \A i \in 1..last : i \in 1..Len(bare)
  BY <1>3, <1>4
<1> HIDE DEF last
<1>6. \A i \in 1..last : bare[i] \in C
  BY <1>1, <1>5, ElementOfSeq
<1>7. SubSeq(bare, 1, last) \in Seq(C)
  BY <1>5, <1>6, SubSeqProperties
<1> QED
  BY <1>2, <1>7 DEF last

\* A version comes before another in the comparison of the code exactly if
\* its numbers do.
THEOREM CompareAsMeant ==
    ASSUME NEW C, NEW left \in Seq(C), NEW right \in Seq(C),
           NEW a, a = Numbers(Stripped(left)), NEW b, b = Numbers(Stripped(right)),
           \A number \in Range(a) \cup Range(b) : number < PartRange
    PROVE  CompareVersions(left, right) < 0 <=> ComesBefore(a, b)
<1> DEFINE s == Stripped(left)
           t == Stripped(right)
           n == Len(s)
           m == Len(t)
<1>1. s \in Seq(C) /\ t \in Seq(C)
  BY StrippedIsList
<1>2. PICK compare : /\ Compares(compare, s, t, n, m)
                     /\ compare[<<1, 1>>] = CompareVersions(left, right)
  <2>1. s = Stripped(left) /\ t = Stripped(right) /\ n = Len(s) /\ m = Len(t)
    OBVIOUS
  <2> HIDE DEF s, t, n, m
  <2> QED
    BY <1>1, <2>1, CompareInSteps
<1>3. a = Numbers(s) /\ b = Numbers(t) /\ n = Len(s) /\ m = Len(t)
  OBVIOUS
<1> HIDE DEF s, t, n, m
<1>4. PICK f : NumbersUpTo(f, s, n) /\ f[n] = a
  BY <1>1, <1>3, NumbersInSteps
<1>5. PICK g : NumbersUpTo(g, t, m) /\ g[m] = b
  BY <1>1, <1>3, NumbersInSteps
<1>6. n \in Nat /\ m \in Nat
  BY <1>1, <1>3, NumbersInSteps
<1>7. a \in NumberLists /\ b \in NumberLists
  BY <1>4, <1>5, <1>6 DEF NumbersUpTo
<1>8. OnNumber(f, s, n, 1, 1) /\ OnNumber(g, t, m, 1, 1)
  <2>1. ASSUME NEW h, NEW chars, NEW count \in Nat, NumbersUpTo(h, chars, count)
        PROVE  OnNumber(h, chars, count, 1, 1)
    <3>1. h[1 - 1] = <<0>>
      BY <2>1 DEF NumbersUpTo
    <3>2. Len(h[1 - 1]) = 1 /\ h[1 - 1][1] = 0
      BY <3>1
    <3> QED
      BY <3>2 DEF OnNumber
  <2> QED
    BY <1>4, <1>5, <1>6, <2>1
<1>9. compare[<<1, 1>>] < 0 <=> BeforeFrom(a, b, 1)
  <2>1. /\ \A number \in Range(f[n]) : number < PartRange
        /\ \A number \in Range(g[m]) : number < PartRange
    BY <1>4, <1>5
  <2>2. \A q \in 1..(n + 1), r \in 1..(m + 1), l \in Nat \ {0} :
            OnNumber(f, s, n, q, l) /\ OnNumber(g, t, m, r, l) =>
                (compare[<<q, r>>] < 0 <=> BeforeFrom(f[n], g[m], l))
    <3>1. Compares(compare, s, t, n, m) /\ n = Len(s) /\ m = Len(t)
      BY <1>2, <1>3
    <3>2. NumbersUpTo(f, s, n) /\ NumbersUpTo(g, t, m)
      BY <1>4, <1>5
    <3> QED
      BY <1>1, <2>1, <3>1, <3>2, CompareFrom
  <2>3. 1 \in 1..(n + 1) /\ 1 \in 1..(m + 1) /\ 1 \in Nat \ {0}
    BY <1>6
  <2> QED
    BY <1>4, <1>5, <1>8, <2>2, <2>3
<1> QED
  BY <1>2, <1>7, <1>9, ComesBeforeFromFirst

\* What is known of the newest version is what the comparison said of it.
NewestInv ==
    /\ On(newest, Processes)
    /\ \A p \in Processes :
           \/ newest[p] = [is |-> FALSE, version |-> CurrentVersion]
           \/ \E version \in Versions :
                 newest[p] = [is |-> CompareVersions(CurrentVersion, version) < 0,
                              version |-> version]

LEMMA NewestInvariant == ConfigSpec => []NewestInv
<1>1. ConfigInit => NewestInv
  BY DEF ConfigInit, NewestInv, On
<1>2. NewestInv /\ [ConfigNext]_configVars => NewestInv'
  <2> SUFFICES ASSUME NewestInv, [ConfigNext]_configVars PROVE NewestInv'
    OBVIOUS
  <2>1. ASSUME UNCHANGED newest PROVE NewestInv'
    BY <2>1 DEF NewestInv, On
  <2>2. ASSUME NEW p \in Processes, NEW version \in Versions, VersionChecked(p, version)
        PROVE  NewestInv'
    <3> DEFINE says == CompareVersions(CurrentVersion, version) < 0
    <3>1. newest' = [newest EXCEPT ![p] = [is |-> says, version |-> version]]
      BY <2>2 DEF VersionChecked
    <3>2. On(newest', Processes) /\ newest'[p] = [is |-> says, version |-> version]
      <4> HIDE DEF says
      <4> QED
        BY <3>1 DEF NewestInv, On
    <3>3. \A q \in Processes : q # p => newest'[q] = newest[q]
      <4> HIDE DEF says
      <4> QED
        BY <3>1 DEF NewestInv, On
    <3> QED
      BY <3>2, <3>3 DEF NewestInv, On
  <2>3. ASSUME NEW p \in Processes,
               \/ Start(p)
               \/ \E b \in {"hex", "dec"} : ChooseBase(p, b)
               \/ TogglePrefix(p)
               \/ ToggleWriteBack(p)
               \/ \E text \in BiasTexts : EditBias(p, text)
               \/ SaveOpens(p) \/ SaveCannotOpen(p) \/ SaveWrites(p)
               \/ SaveBreaksOff(p) \/ Stop(p)
        PROVE  UNCHANGED newest
    BY <2>3 DEF Start, ChooseBase, TogglePrefix, ToggleWriteBack, EditBias, SaveOpens, SaveCannotOpen,
                SaveWrites, SaveBreaksOff, Stop
  <2>4. ASSUME NEW f \in HandWritten, HandEdit(f) PROVE UNCHANGED newest
    BY <2>4 DEF HandEdit
  <2>5. CASE UNCHANGED configVars
    BY <2>1, <2>5 DEF configVars
  <2> QED
    BY <2>1, <2>2, <2>3, <2>4, <2>5 DEF ConfigNext
<1> QED
  BY <1>1, <1>2, PTL DEF ConfigSpec

LEMMA NotBeforeItself ==
    ASSUME NEW C, NEW version \in Seq(C)
    PROVE  ~ComesBefore(Numbers(Stripped(version)), Numbers(Stripped(version)))
<1> DEFINE s == Stripped(version)
           a == Numbers(s)
           n == Len(s)
<1>1. s \in Seq(C)
  BY StrippedIsList
<1>2. a \in NumberLists
  <2> HIDE DEF s
  <2>1. n \in Nat /\ \E f : NumbersUpTo(f, s, n) /\ f[n] = Numbers(s)
    BY <1>1, NumbersInSteps
  <2> QED
    BY <2>1 DEF NumbersUpTo
<1> HIDE DEF a
<1>3. ASSUME NEW i \in 1..(Len(a) + Len(a)) PROVE ~(At(a, i) < At(a, i))
  <2>1. i \in Nat \ {0}
    BY <1>2, AtIsNumber
  <2>2. At(a, i) \in Nat
    BY <1>2, <2>1, AtIsNumber
  <2> QED
    BY <2>2
<1> QED
  BY <1>3 DEF ComesBefore, a

\* The comparison of compare_versions_impl, digit by digit and number by
\* number, announces exactly what comes after the current version, for
\* versions of any length whose numbers fit in 64 bits.
THEOREM NewVersionAlwaysNewer == ConfigSpec => []NewVersionIsNewer
<1>1. NewestInv => NewVersionIsNewer
  <2> SUFFICES ASSUME NewestInv, NEW p \in Processes,
                      NEW a, a = Numbers(Stripped(CurrentVersion)),
                      NEW b, b = Numbers(Stripped(newest[p].version)),
                      \A number \in Range(a) \cup Range(b) : number < PartRange
               PROVE  newest[p].is <=> ComesBefore(a, b)
    BY DEF NewVersionIsNewer
  <2>1. \A version \in Versions \cup {CurrentVersion} : version \in Seq(Range(version))
    BY ConfigAssumption
  <2>2. CASE newest[p] = [is |-> FALSE, version |-> CurrentVersion]
    <3>1. ~newest[p].is /\ b = a
      BY <2>2
    <3>2. ~ComesBefore(a, a)
      BY <2>1, NotBeforeItself
    <3> QED
      BY <3>1, <3>2
  <2>3. ASSUME NEW version \in Versions,
               newest[p] = [is |-> CompareVersions(CurrentVersion, version) < 0,
                            version |-> version]
        PROVE  newest[p].is <=> ComesBefore(a, b)
    <3> DEFINE C == Range(CurrentVersion) \cup Range(version)
    <3>1. newest[p].is <=> CompareVersions(CurrentVersion, version) < 0
      <4> DEFINE says == CompareVersions(CurrentVersion, version) < 0
      <4>1. newest[p] = [is |-> says, version |-> version]
        BY <2>3
      <4> HIDE DEF says
      <4>2. newest[p].is = says
        BY <4>1
      <4> QED
        BY <4>2 DEF says
    <3>2. b = Numbers(Stripped(version))
      BY <2>3
    <3>3. CurrentVersion \in Seq(C) /\ version \in Seq(C)
      <4>1. Range(CurrentVersion) \subseteq C /\ Range(version) \subseteq C
        OBVIOUS
      <4> HIDE DEF C
      <4> QED
        BY <2>1, <4>1, SeqMonotonic
    <3> HIDE DEF C
    <3>4. CompareVersions(CurrentVersion, version) < 0 <=> ComesBefore(a, b)
      BY <3>2, <3>3, CompareAsMeant
    <3> QED
      BY <3>1, <3>4
  <2> QED
    BY <2>2, <2>3 DEF NewestInv
<1> QED
  BY <1>1, NewestInvariant, PTL
=============================================================================
