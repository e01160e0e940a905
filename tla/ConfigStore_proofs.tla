------------------------- MODULE ConfigStore_proofs -------------------------
(***************************************************************************)
(* Proofs about ConfigStore: type correctness for any number of concurrent  *)
(* updates, and, when at most one update runs at a time, that data.json is   *)
(* always a complete configuration, that it loses no update, keeps the      *)
(* session key and takes no message count back, and that the saved settings *)
(* implement AtomicConfig.                                                  *)
(***************************************************************************)
EXTENDS ConfigStore, TLAPS

LEMMA DefaultIsConfig == Default \in Config
  BY StoreAssumption DEF Default, Config, Settings

LEMMA OnDiskIsConfig == ASSUME TypeOK PROVE OnDisk \in Config
  BY DefaultIsConfig DEF OnDisk, Readable, TypeOK

LEMMA ReadsAsIsConfig == ASSUME TypeOK, NEW failed PROVE ReadsAs(failed) \in Config
  BY DefaultIsConfig, OnDiskIsConfig DEF ReadsAs

\* What a start drafts.
LEMMA StartDrafts ==
  ASSUME TypeOK, Start
  PROVE  \E cfg \in Config, k \in SessionKeys :
           /\ draft' = [draft EXCEPT ![Boot] = [cfg EXCEPT !.sk = k]]
           /\ cfg.sk # NoKey => k = cfg.sk
           /\ cfg = IF unread' THEN Default ELSE OnDisk
<1>0. PICK failed \in {FALSE, DiskErrors} :
        /\ \E k \in NewKey(ReadsAs(failed)) :
             draft' = [draft EXCEPT ![Boot] = [ReadsAs(failed) EXCEPT !.sk = k]]
        /\ unread' = (failed /\ Readable)
  BY DEF Start
<1>1. PICK k \in NewKey(ReadsAs(failed)) :
        draft' = [draft EXCEPT ![Boot] = [ReadsAs(failed) EXCEPT !.sk = k]]
  BY <1>0
<1>2. ReadsAs(failed) \in Config /\ ReadsAs(failed).sk \in SessionKeys \cup {NoKey}
  BY ReadsAsIsConfig DEF Config
<1>3. k \in SessionKeys /\ (ReadsAs(failed).sk # NoKey => k = ReadsAs(failed).sk)
  BY <1>1, <1>2 DEF NewKey
<1>4. ReadsAs(failed) = IF unread' THEN Default ELSE OnDisk
  BY <1>0, StoreAssumption DEF ReadsAs, OnDisk
<1> QED
  BY <1>1, <1>2, <1>3, <1>4

\* Every variable of the store keeps its type, however updates, disk errors and
\* crashes interleave (config.rs:158-230).
THEOREM TypeCorrect == Spec => []TypeOK
<1>1. Init => TypeOK
  <2> SUFFICES ASSUME Init PROVE TypeOK
    OBVIOUS
  <2>1. (CHOOSE f \in Fields : TRUE) \in Fields
    BY StoreAssumption
  <2>2. edit \in [Updaters -> [field : Fields, val : Vals]]
    BY <2>1, StoreAssumption DEF Init
  <2> QED
    BY <2>2, DefaultIsConfig, StoreAssumption DEF Init, TypeOK, Quiet, ActorPC, Forgotten
<1>2. TypeOK /\ [Next]_vars => TypeOK'
  <2> SUFFICES ASSUME TypeOK, [Next]_vars PROVE TypeOK'
    OBVIOUS
  <2> USE DEF TypeOK, ActorPC, Actors, memory, disk, actor, history, Step
  <2>1. ASSUME NEW a \in Actors, Open(a) PROVE TypeOK'
    BY <2>1 DEF Open
  <2>2. ASSUME NEW a \in Actors, Write(a) PROVE TypeOK'
    BY <2>2 DEF Write
  <2>3. ASSUME NEW a \in Actors, Rename(a) PROVE TypeOK'
    BY <2>3, StoreAssumption DEF Rename, Forgotten
  <2>4. ASSUME NEW a \in Actors, PersistFails(a) PROVE TypeOK'
    BY <2>4, StoreAssumption DEF PersistFails
  <2>5. ASSUME NEW u \in Updaters, NEW f \in Fields, NEW v \in Vals, Begin(u, f, v)
        PROVE TypeOK'
    <3>1. [set |-> [cache.set EXCEPT ![f] = v], mc |-> counter, sk |-> cache.sk] \in Config
      BY DEF Config, Settings
    <3> QED BY <2>5, <3>1 DEF Begin
  <2>6. ASSUME NEW u \in Updaters, SetCache(u) PROVE TypeOK'
    BY <2>6 DEF SetCache
  <2>7. CASE Push
    BY <2>7 DEF Push
  <2>8. CASE Start
    <3>1. PICK cfg \in Config, k \in SessionKeys : draft' = [draft EXCEPT ![Boot] = [cfg EXCEPT !.sk = k]]
      BY <2>8, StartDrafts
    <3>2. [cfg EXCEPT !.sk = k] \in Config
      BY DEF Config, Settings
    <3>3. unread' \in BOOLEAN
      BY <2>8, StoreAssumption DEF Start, Readable
    <3> QED BY <2>8, <3>1, <3>2, <3>3 DEF Start
  <2>9. CASE Loaded
    <3>1. draft[Boot] \in Config /\ draft[Boot].mc \in Nat
      BY DEF Config
    <3> QED BY <2>9, <3>1 DEF Loaded
  <2>10. CASE Crash
    BY <2>10 DEF Crash, Quiet, Busy
  <2>11. CASE UNCHANGED vars
    BY <2>11 DEF vars
  <2> QED
    BY <2>1, <2>2, <2>3, <2>4, <2>5, <2>6, <2>7, <2>8, <2>9, <2>10, <2>11 DEF Next
<1> QED
  BY <1>1, <1>2, PTL DEF Spec

----------------------------------------------------------------------------
(* One update at a time.  Serial is the hypothesis of the theorems below: the *)
(* code does not enforce it (store_race_torn.cfg and store_race_lost.cfg).   *)

Serial == \A u, v \in Updaters : u = v

\* At most one actor is inside persist or update.
OneActor == \A a, b \in Actors : (pc[a] # "idle" /\ pc[b] # "idle") => a = b

\* Who may be active in which status of the process.
StatusInv ==
    /\ status # "up" => \A u \in Updaters : pc[u] = "idle"
    /\ status = "boot" <=> pc[Boot] # "idle"

\* The two names never share an inode, so what is written under the temporary
\* name cannot touch data.json; the active actor has the temporary file open and
\* by rename it holds the whole draft.
FileInv ==
    /\ DiskNeverTorn
    /\ tmp # NoFile => tmp # data
    /\ \A a \in Actors :
         /\ pc[a] \in {"write", "rename"} => tmp # NoFile /\ fd[a] = tmp
         /\ pc[a] = "write" => content[tmp] = Blank
         /\ pc[a] = "rename" => content[tmp] = draft[a]
         /\ pc[a] = "cache" => OnDisk = draft[a]

\* What an update drafts is the saved configuration with its own field changed; what
\* a start drafts has the saved settings, or the defaults if it could not read them.
DraftInv ==
    /\ (status = "up" /\ \A a \in Actors : pc[a] # "cache")
         => cache.set = OnDisk.set /\ cache.sk = OnDisk.sk
    /\ \A u \in Updaters :
         pc[u] \in {"open", "write", "rename"} =>
            draft[u].set = [cache.set EXCEPT ![edit[u].field] = edit[u].val]
    /\ pc[Boot] \in {"open", "write", "rename"} =>
         draft[Boot].set = IF unread THEN Default.set ELSE OnDisk.set

SerialInv == OneActor /\ StatusInv /\ FileInv /\ DraftInv

\* An actor between the open and the rename of its file disturbs no draft.
LEMMA DraftKept ==
  ASSUME NEW a \in Actors, DraftInv,
         OnDisk' = OnDisk,
         cache' = cache /\ status' = status /\ draft' = draft /\ edit' = edit /\ unread' = unread,
         \A b \in Actors : b # a => pc'[b] = pc[b],
         pc[a] \in {"open", "write"}, pc'[a] \in {"write", "rename"}
  PROVE  DraftInv'
<1>1. \A b \in Actors : /\ pc'[b] = "cache" <=> pc[b] = "cache"
                        /\ pc'[b] \in {"open", "write", "rename"} <=> pc[b] \in {"open", "write", "rename"}
                        /\ pc'[b] = "idle" <=> pc[b] = "idle"
  OBVIOUS
<1>2. Boot \in Actors /\ Updaters \subseteq Actors
  BY DEF Actors
<1>3. (status = "up" /\ \A b \in Actors : pc[b] # "cache")' => cache'.set = OnDisk'.set /\ cache'.sk = OnDisk'.sk
  BY <1>1 DEF DraftInv
<1>4. QED
  BY <1>1, <1>2, <1>3 DEF DraftInv

LEMMA InitSerial == Init => SerialInv
  BY StoreAssumption
  DEF Init, SerialInv, OneActor, StatusInv, FileInv, DraftInv, DiskNeverTorn,
      Quiet, Actors

LEMMA StepSerial ==
  ASSUME Serial, TypeOK, TypeOK', SerialInv, [Next]_vars
  PROVE  SerialInv'
<1> USE StoreAssumption DEF Actors, memory, disk, actor, history, Step, SerialInv, OneActor, StatusInv
<1>1. (OneActor /\ StatusInv)'
  <2> USE DEF TypeOK, ActorPC
  <2>1. ASSUME NEW a \in Actors, Open(a) PROVE (OneActor /\ StatusInv)'
    BY <2>1 DEF Open
  <2>2. ASSUME NEW a \in Actors, Write(a) PROVE (OneActor /\ StatusInv)'
    BY <2>2 DEF Write
  <2>3. ASSUME NEW a \in Actors, Rename(a) PROVE (OneActor /\ StatusInv)'
    BY <2>3 DEF Rename
  <2>4. ASSUME NEW a \in Actors, PersistFails(a) PROVE (OneActor /\ StatusInv)'
    BY <2>4 DEF PersistFails
  <2>5. ASSUME NEW u \in Updaters, NEW f \in Fields, NEW v \in Vals, Begin(u, f, v) PROVE (OneActor /\ StatusInv)'
    BY <2>5 DEF Begin, Serial
  <2>6. ASSUME NEW u \in Updaters, SetCache(u) PROVE (OneActor /\ StatusInv)'
    BY <2>6 DEF SetCache
  <2>7. CASE Push
    BY <2>7 DEF Push
  <2>8. CASE Start
    BY <2>8 DEF Start
  <2>9. CASE Loaded
    BY <2>9 DEF Loaded
  <2>10. CASE Crash
    BY <2>10 DEF Crash, Quiet
  <2>11. CASE UNCHANGED vars
    BY <2>11 DEF vars
  <2> QED
    BY <2>1, <2>2, <2>3, <2>4, <2>5, <2>6, <2>7, <2>8, <2>9, <2>10, <2>11 DEF Next
<1>2. FileInv'
  <2> USE <1>1 DEF FileInv, DiskNeverTorn, Readable, OnDisk
  <2> USE DEF TypeOK
  <2>1. ASSUME NEW a \in Actors, Open(a) PROVE FileInv'
    BY <2>1 DEF Open
  <2>2. ASSUME NEW a \in Actors, Write(a) PROVE FileInv'
    BY <2>2 DEF Write
  <2>3. ASSUME NEW a \in Actors, Rename(a) PROVE FileInv'
    BY <2>3 DEF Rename
  <2>4. ASSUME NEW a \in Actors, PersistFails(a) PROVE FileInv'
    BY <2>4 DEF PersistFails
  <2>5. ASSUME NEW u \in Updaters, NEW f \in Fields, NEW v \in Vals, Begin(u, f, v) PROVE FileInv'
    BY <2>5 DEF Begin, Serial
  <2>6. ASSUME NEW u \in Updaters, SetCache(u) PROVE FileInv'
    BY <2>6 DEF SetCache
  <2>7. CASE Push
    BY <2>7 DEF Push
  <2>8. CASE Start
    BY <2>8 DEF Start
  <2>9. CASE Loaded
    BY <2>9 DEF Loaded
  <2>10. CASE Crash
    BY <2>10 DEF Crash, Quiet
  <2>11. CASE UNCHANGED vars
    BY <2>11 DEF vars
  <2> QED
    BY <2>1, <2>2, <2>3, <2>4, <2>5, <2>6, <2>7, <2>8, <2>9, <2>10, <2>11 DEF Next
<1>3. DraftInv'
  <2> USE DEF FileInv, DiskNeverTorn, Readable, TypeOK
  <2>1. ASSUME NEW a \in Actors, Open(a) PROVE DraftInv'
    <3>1. OnDisk' = OnDisk
      BY <2>1 DEF OnDisk, Open
    <3>2. /\ cache' = cache /\ status' = status /\ draft' = draft /\ edit' = edit /\ unread' = unread
          /\ \A b \in Actors : b # a => pc'[b] = pc[b]
          /\ pc[a] \in {"open", "write"} /\ pc'[a] \in {"write", "rename"}
      BY <2>1 DEF Open
    <3> QED BY <3>1, <3>2, DraftKept
  <2>2. ASSUME NEW a \in Actors, Write(a) PROVE DraftInv'
    <3>1. OnDisk' = OnDisk
      BY <2>2 DEF OnDisk, Write
    <3>2. /\ cache' = cache /\ status' = status /\ draft' = draft /\ edit' = edit /\ unread' = unread
          /\ \A b \in Actors : b # a => pc'[b] = pc[b]
          /\ pc[a] \in {"open", "write"} /\ pc'[a] \in {"write", "rename"}
      BY <2>2 DEF Write
    <3> QED BY <3>1, <3>2, DraftKept
  <2>3. ASSUME NEW a \in Actors, Rename(a) PROVE DraftInv'
    BY <2>3 DEF DraftInv, OnDisk, Rename
  <2>4. ASSUME NEW a \in Actors, PersistFails(a) PROVE DraftInv'
    BY <2>4 DEF DraftInv, OnDisk, PersistFails
  <2>5. ASSUME NEW u \in Updaters, NEW f \in Fields, NEW v \in Vals, Begin(u, f, v) PROVE DraftInv'
    BY <2>5 DEF DraftInv, OnDisk, Begin, Serial
  <2>6. ASSUME NEW u \in Updaters, SetCache(u) PROVE DraftInv'
    BY <2>6 DEF DraftInv, OnDisk, SetCache
  <2>7. CASE Push
    BY <2>7 DEF DraftInv, OnDisk, Push
  <2>8. CASE Start
    <3>1. PICK cfg \in Config, k \in SessionKeys :
            /\ draft' = [draft EXCEPT ![Boot] = [cfg EXCEPT !.sk = k]]
            /\ cfg = IF unread' THEN Default ELSE OnDisk
      BY <2>8, StartDrafts
    <3>2. draft'[Boot].set = cfg.set
      BY <3>1 DEF Config
    <3>3. OnDisk' = OnDisk
      BY <2>8 DEF OnDisk, Start
    <3>4. \A u \in Updaters : pc'[u] = "idle"
      BY <1>1, <2>8 DEF Start
    <3>5. pc'[Boot] = "open" /\ status' = "boot" /\ Default' = Default
      BY <2>8 DEF Start, Default
    <3> HIDE DEF FileInv, DiskNeverTorn, Readable, TypeOK
    <3> QED BY <3>1, <3>2, <3>3, <3>4, <3>5 DEF DraftInv
  <2>9. CASE Loaded
    BY <2>9 DEF DraftInv, OnDisk, Loaded
  <2>10. CASE Crash
    BY <2>10 DEF DraftInv, OnDisk, Crash, Quiet
  <2>11. CASE UNCHANGED vars
    BY <2>11 DEF DraftInv, OnDisk, vars
  <2> QED
    BY <2>1, <2>2, <2>3, <2>4, <2>5, <2>6, <2>7, <2>8, <2>9, <2>10, <2>11 DEF Next
<1> QED
  BY <1>1, <1>2, <1>3

\* data.json is never partial: with one update at a time, whatever disk errors
\* and crashes happen, a start finds a complete configuration and does not fall
\* back to the defaults (config.rs:169-172, 214-221).
THEOREM SerialDiskNeverTorn == ASSUME Serial PROVE Spec => []DiskNeverTorn
<1>1. TypeOK /\ TypeOK' /\ SerialInv /\ [Next]_vars => SerialInv'
  BY StepSerial
<1>2. SerialInv => DiskNeverTorn
  BY DEF SerialInv, FileInv
<1> QED
  BY <1>1, <1>2, InitSerial, TypeCorrect, PTL DEF Spec

\* In memory and on disk the same settings and session key, whenever no update
\* is in progress (config.rs:204-212).
THEOREM SerialCacheIsDisk == ASSUME Serial PROVE Spec => []CacheIsDisk
<1>1. TypeOK /\ TypeOK' /\ SerialInv /\ [Next]_vars => SerialInv'
  BY StepSerial
<1>2. SerialInv => CacheIsDisk
  BY DEF SerialInv, DraftInv, CacheIsDisk, Quiet
<1> QED
  BY <1>1, <1>2, InitSerial, TypeCorrect, PTL DEF Spec

\* Only the rename moves the saved settings, and it applies one update to them.
LEMMA StepIsAtomic ==
  ASSUME Serial, TypeOK, TypeOK', SerialInv, [Next]_vars
  PROVE  [Abstract!Next]_(OnDisk.set)
<1> USE StoreAssumption DEF Actors, memory, disk, actor, history, Step, SerialInv, FileInv,
        DraftInv, DiskNeverTorn, Readable, TypeOK
<1> SUFFICES ASSUME OnDisk'.set # OnDisk.set
             PROVE  \/ \E f \in Fields, v \in Vals : OnDisk'.set = [OnDisk.set EXCEPT ![f] = v]
                    \/ OnDisk'.set = Default.set
  BY DEF Abstract!Next, Abstract!Set, Abstract!Forget, Abstract!Defaults, Default
<1>1. ASSUME NEW a \in Actors, Open(a) PROVE OnDisk' = OnDisk
  BY <1>1 DEF Open, OnDisk
<1>2. ASSUME NEW a \in Actors, Write(a) PROVE OnDisk' = OnDisk
  BY <1>2 DEF Write, OnDisk
<1>3. ASSUME NEW u \in Updaters, Rename(u)
      PROVE  OnDisk'.set = [OnDisk.set EXCEPT ![edit[u].field] = edit[u].val]
  <2>1. OnDisk' = draft[u]
    BY <1>3 DEF Rename, OnDisk
  <2>2. status = "up" /\ \A a \in Actors : pc[a] # "cache"
    BY <1>3 DEF Rename, StatusInv, OneActor
  <2>3. draft[u].set = [cache.set EXCEPT ![edit[u].field] = edit[u].val]
    BY <1>3 DEF Rename
  <2> QED BY <2>1, <2>2, <2>3
<1>4. ASSUME Rename(Boot) PROVE OnDisk'.set \in {OnDisk.set, Default.set}
  <2>1. OnDisk' = draft[Boot]
    BY <1>4 DEF Rename, OnDisk
  <2>2. draft[Boot].set = IF unread THEN Default.set ELSE OnDisk.set
    BY <1>4 DEF Rename
  <2> QED BY <2>1, <2>2
<1>5. ASSUME NEW a \in Actors, PersistFails(a) PROVE OnDisk' = OnDisk
  BY <1>5 DEF PersistFails, OnDisk
<1>6. ASSUME UNCHANGED disk PROVE OnDisk' = OnDisk
  BY <1>6 DEF OnDisk
<1>7. ASSUME NEW u \in Updaters, Rename(u)
      PROVE  \E f \in Fields, v \in Vals : OnDisk'.set = [OnDisk.set EXCEPT ![f] = v]
  <2>1. edit[u].field \in Fields /\ edit[u].val \in Vals
    OBVIOUS
  <2>2. OnDisk'.set = [OnDisk.set EXCEPT ![edit[u].field] = edit[u].val]
    BY <1>3, <1>7
  <2> HIDE DEF SerialInv, FileInv, DraftInv, TypeOK, Readable, DiskNeverTorn
  <2> QED BY <2>1, <2>2
<1>8. \/ \E a \in Actors : Open(a) \/ Write(a) \/ Rename(a) \/ PersistFails(a)
      \/ UNCHANGED disk
  BY DEF Next, vars, Begin, SetCache, Push, Start, Loaded, Crash
<1> QED
  <2> HIDE DEF disk, TypeOK, SerialInv, FileInv, DraftInv
  <2> QED BY <1>1, <1>2, <1>4, <1>5, <1>6, <1>7, <1>8

\* Refinement: with one update at a time the saved settings behave as the atomic
\* variable of AtomicConfig through crashes, restarts and disk errors, of which only
\* the failed read of a start takes more than one field back (config.rs:171).
THEOREM SerialSavedIsAtomic == ASSUME Serial PROVE Spec => SavedIsAtomic
<1>1. TypeOK /\ TypeOK' /\ SerialInv /\ [Next]_vars => SerialInv'
  BY StepSerial
<1>2. TypeOK /\ TypeOK' /\ SerialInv /\ [Next]_vars => [Abstract!Next]_(OnDisk.set)
  BY StepIsAtomic
<1>3. Init => Abstract!Init
  BY StoreAssumption DEF Init, Abstract!Init, Abstract!Defaults, OnDisk, Readable, Default
<1> QED
  BY <1>1, <1>2, <1>3, InitSerial, TypeCorrect, PTL DEF Spec, SavedIsAtomic, Abstract!Spec


\* Only a rename changes what is on disk, and it puts the whole draft there.
LEMMA StepDisk ==
  ASSUME Serial, TypeOK, SerialInv, [Next]_vars
  PROVE  /\ \A a \in Actors : Rename(a) => OnDisk' = draft[a] /\ Readable'
         /\ \/ \E a \in Actors : Rename(a)
            \/ OnDisk' = OnDisk /\ Readable' = Readable
<1> USE StoreAssumption DEF memory, disk, actor, history, Step, SerialInv, FileInv, DiskNeverTorn,
        Readable, TypeOK
<1>1. ASSUME NEW a \in Actors, Open(a) PROVE OnDisk' = OnDisk /\ Readable' = Readable
  BY <1>1 DEF Open, OnDisk
<1>2. ASSUME NEW a \in Actors, Write(a) PROVE OnDisk' = OnDisk /\ Readable' = Readable
  BY <1>2 DEF Write, OnDisk
<1>3. ASSUME NEW a \in Actors, Rename(a) PROVE OnDisk' = draft[a] /\ Readable'
  BY <1>3 DEF Rename, OnDisk
<1>4. ASSUME NEW a \in Actors, PersistFails(a) PROVE OnDisk' = OnDisk /\ Readable' = Readable
  BY <1>4 DEF PersistFails, OnDisk
<1>5. ASSUME UNCHANGED disk PROVE OnDisk' = OnDisk /\ Readable' = Readable
  BY <1>5 DEF OnDisk
<1>6. \/ \E a \in Actors : Open(a) \/ Write(a) \/ Rename(a) \/ PersistFails(a)
      \/ UNCHANGED disk
  BY DEF Next, vars, Begin, SetCache, Push, Start, Loaded, Crash
<1> QED
  <2> HIDE DEF disk, TypeOK, SerialInv, FileInv, DraftInv, Readable
  <2> QED BY <1>1, <1>2, <1>3, <1>4, <1>5, <1>6

LEMMA InitDisk == Init => ~Readable /\ OnDisk.sk = NoKey /\ \A f \in Fields : OnDisk.set[f] = DefaultVal
  BY StoreAssumption DEF Init, OnDisk, Readable, Default

----------------------------------------------------------------------------
(* What an update may leave behind *)

\* Each field on disk is an expected value, but between the rename of an update and
\* its acknowledgement, when its own field already holds the new one; the cache is
\* never ahead of what was acknowledged.
ValueInv ==
    /\ \A u \in Updaters : pc[u] = "cache" => OnDisk.set[edit[u].field] = edit[u].val
    /\ \A f \in Fields :
         (\A u \in Updaters : pc[u] = "cache" => edit[u].field # f)
            => OnDisk.set[f] \in expected[f]
    /\ status = "up" => \A f \in Fields : cache.set[f] \in expected[f]

\* A process that is up has a saved configuration with a session key, and every
\* draft carries that key and a count between the saved and the live one, but the
\* draft of a start that could not read them.
KeyInv ==
    /\ status = "up" \/ (\E a \in Actors : pc[a] = "cache") => Readable
    /\ Readable => OnDisk.sk \in SessionKeys
    /\ status = "up" => counter >= OnDisk.mc
    /\ \A u \in Updaters : pc[u] \in {"open", "write", "rename"} =>
         draft[u].sk = OnDisk.sk /\ draft[u].mc >= OnDisk.mc /\ counter >= draft[u].mc
    /\ pc[Boot] # "idle" =>
         /\ draft[Boot].sk \in SessionKeys
         /\ ~unread => draft[Boot].mc = OnDisk.mc /\ (Readable => draft[Boot].sk = OnDisk.sk)

LEMMA StepValueInv ==
  ASSUME Serial, TypeOK, SerialInv, ValueInv, [Next]_vars
  PROVE  ValueInv'
<1> USE StoreAssumption DEF memory, disk, actor, history, Step, ValueInv, TypeOK, Actors
<1>0. /\ OneActor /\ StatusInv
      /\ \A a \in Actors : pc[a] = "cache" => OnDisk = draft[a]
      /\ (status = "up" /\ \A a \in Actors : pc[a] # "cache") => cache.set = OnDisk.set
      /\ \A u \in Updaters : pc[u] \in {"open", "write", "rename"} =>
           draft[u].set = [cache.set EXCEPT ![edit[u].field] = edit[u].val]
      /\ pc[Boot] \in {"open", "write", "rename"} =>
           draft[Boot].set = IF unread THEN Default.set ELSE OnDisk.set
      /\ cache.set \in [Fields -> Vals]
  BY DEF SerialInv, FileInv, DraftInv, Config, Settings
<1>d. (~ \E a \in Actors : Rename(a)) => OnDisk' = OnDisk
  BY StepDisk
<1>1. ASSUME NEW a \in Actors, Open(a) PROVE ValueInv'
  <2>1. OnDisk' = OnDisk
    BY <1>0, <1>1, <1>d DEF Open, Rename, OneActor
  <2> QED BY <1>1, <2>1 DEF Open
<1>2. ASSUME NEW a \in Actors, Write(a) PROVE ValueInv'
  <2>1. OnDisk' = OnDisk
    BY <1>0, <1>2, <1>d DEF Write, Rename, OneActor
  <2> QED BY <1>2, <2>1 DEF Write
<1>3. ASSUME NEW u \in Updaters, Rename(u) PROVE ValueInv'
  <2>1. OnDisk' = draft[u]
    BY <1>0, <1>3, StepDisk DEF Rename, OneActor
  <2>2. /\ status = "up" /\ \A a \in Actors : pc[a] # "cache"
        /\ \A v \in Updaters : pc'[v] = "cache" => v = u
        /\ pc'[u] = "cache" /\ UNCHANGED <<status, cache, edit, expected>>
    BY <1>0, <1>3 DEF Rename, StatusInv, OneActor
  <2>3. OnDisk'.set = [OnDisk.set EXCEPT ![edit[u].field] = edit[u].val]
    BY <1>0, <1>3, <2>1, <2>2 DEF Rename
  <2>4. OnDisk.set \in [Fields -> Vals]
    BY <1>0, <2>2
  <2> QED BY <2>2, <2>3, <2>4
<1>4. ASSUME Rename(Boot) PROVE ValueInv'
  <2>1. OnDisk'.set = IF unread THEN Default.set ELSE OnDisk.set
    BY <1>0, <1>4, StepDisk DEF Rename, OneActor
  <2>2. \A u \in Updaters : pc[u] = "idle" /\ pc'[u] = "idle"
    BY <1>0, <1>4 DEF Rename, StatusInv, OneActor
  <2>3. status' = "boot" /\ expected' = IF unread THEN Forgotten ELSE expected
    BY <1>0, <1>4 DEF Rename, StatusInv
  <2>4. \A f \in Fields : OnDisk'.set[f] \in expected'[f]
    BY <2>1, <2>2, <2>3 DEF Forgotten, Default
  <2> QED BY <2>2, <2>3, <2>4
<1>5. ASSUME NEW a \in Actors, PersistFails(a) PROVE ValueInv'
  <2>1. OnDisk' = OnDisk \/ \E b \in Actors : Rename(b)
    BY <1>d
  <2>2. /\ pc'[a] = "idle" /\ pc[a] # "cache"
        /\ \A b \in Actors \ {a} : pc'[b] = pc[b]
        /\ UNCHANGED <<cache, edit, expected, tmp, data>> /\ status' \in {status, "down"}
    BY <1>5 DEF PersistFails
  <2>3. OnDisk' = OnDisk
    <3>1. \A b \in Actors : Rename(b) => pc'[b] = "cache" /\ pc[b] # "cache"
      BY DEF Rename
    <3> QED BY <2>1, <2>2, <3>1
  <2>4. \A u \in Updaters : pc'[u] = "cache" <=> pc[u] = "cache"
    BY <2>2
  <2> QED BY <2>2, <2>3, <2>4
<1>6. ASSUME NEW u \in Updaters, NEW f \in Fields, NEW v \in Vals, Begin(u, f, v) PROVE ValueInv'
  <2>1. OnDisk' = OnDisk
    BY <1>6 DEF Begin, OnDisk, Readable
  <2> QED BY <1>6, <2>1 DEF Begin
<1>7. ASSUME NEW u \in Updaters, SetCache(u) PROVE ValueInv'
  <2>1. OnDisk' = OnDisk /\ cache' = OnDisk
    BY <1>0, <1>7 DEF SetCache, OnDisk, Readable
  <2>2. \A b \in Updaters : (pc[b] = "cache" => b = u) /\ pc'[b] # "cache"
    BY <1>0, <1>7 DEF SetCache, OneActor
  <2>3. \A f \in Fields : OnDisk.set[f] \in expected'[f]
    BY <1>7, <2>2 DEF SetCache
  <2> QED BY <2>1, <2>2, <2>3
<1>8. CASE Push
  BY <1>8 DEF Push, OnDisk, Readable
<1>9. CASE Start
  <2>1. OnDisk' = OnDisk
    BY <1>9 DEF Start, OnDisk, Readable
  <2> QED BY <1>9, <2>1 DEF Start
<1>10. CASE Loaded
  <2>1. OnDisk' = OnDisk /\ cache'.set = OnDisk.set
    BY <1>0, <1>10 DEF Loaded, OnDisk, Readable
  <2>2. \A u \in Updaters : pc[u] = "idle" /\ pc'[u] = "idle"
    BY <1>0, <1>10 DEF Loaded, StatusInv
  <2> QED BY <1>10, <2>1, <2>2 DEF Loaded
<1>11. CASE Crash
  <2>1. OnDisk' = OnDisk /\ status' = "down" /\ \A u \in Updaters : pc'[u] = "idle"
    BY <1>11 DEF Crash, OnDisk, Readable, Quiet
  <2>2. \A f \in Fields : expected'[f] = expected[f] \cup {edit[u].val : u \in Busy(f)}
    BY <1>11 DEF Crash
  <2>3. ASSUME NEW f \in Fields PROVE OnDisk.set[f] \in expected'[f]
    <3>1. CASE \A u \in Updaters : pc[u] = "cache" => edit[u].field # f
      BY <2>2, <3>1
    <3>2. ASSUME NEW u \in Updaters, pc[u] = "cache", edit[u].field = f
          PROVE  OnDisk.set[f] \in expected'[f]
      BY <2>2, <3>2 DEF Busy
    <3> QED BY <3>1, <3>2
  <2> QED BY <2>1, <2>3
<1>12. CASE UNCHANGED vars
  BY <1>12 DEF vars, OnDisk, Readable
<1> QED
  BY <1>1, <1>2, <1>3, <1>4, <1>5, <1>6, <1>7, <1>8, <1>9, <1>10, <1>11, <1>12 DEF Next

\* With one update at a time none is lost: on disk and in memory each field holds the
\* value of its last acknowledged update, or of one in progress or cut off, through
\* disk errors, crashes and restarts (config.rs:204-212, 214-221), until a start that
\* cannot read the file replaces it by the defaults (config.rs:171).
THEOREM SerialLosesNoUpdate == ASSUME Serial PROVE Spec => []NoLostUpdate
<1>1. Init => ValueInv
  BY InitDisk DEF Init, ValueInv, Quiet, Actors, Forgotten
<1>2. TypeOK /\ TypeOK' /\ SerialInv /\ [Next]_vars => SerialInv'
  BY StepSerial
<1>3. TypeOK /\ SerialInv /\ ValueInv /\ [Next]_vars => ValueInv'
  BY StepValueInv
<1>4. ValueInv => NoLostUpdate
  BY DEF ValueInv, NoLostUpdate, DiskLosesNone, CacheLosesNone, Allowed, Busy
<1> QED
  BY <1>1, <1>2, <1>3, <1>4, InitSerial, TypeCorrect, PTL DEF Spec

LEMMA StepKeyInv ==
  ASSUME Serial, TypeOK, SerialInv, KeyInv, [Next]_vars
  PROVE  KeyInv'
<1> USE StoreAssumption DEF memory, disk, actor, history, Step, KeyInv, TypeOK, Actors
<1>0. /\ OneActor /\ StatusInv
      /\ \A a \in Actors : pc[a] = "cache" => OnDisk = draft[a]
      /\ (status = "up" /\ \A a \in Actors : pc[a] # "cache") => cache.sk = OnDisk.sk
      /\ OnDisk \in Config /\ OnDisk.mc \in Nat /\ OnDisk.sk \in SessionKeys \cup {NoKey}
      /\ \A a \in Actors : draft[a].mc \in Nat
  BY OnDiskIsConfig DEF SerialInv, FileInv, DraftInv, Config
<1>k. (~ \E a \in Actors : Rename(a)) => OnDisk' = OnDisk /\ Readable' = Readable
  BY StepDisk
<1>1. ASSUME NEW a \in Actors, Open(a) PROVE KeyInv'
  <2>1. OnDisk' = OnDisk /\ Readable' = Readable
    BY <1>0, <1>1, <1>k DEF Open, Rename, OneActor
  <2> QED BY <1>1, <2>1 DEF Open
<1>2. ASSUME NEW a \in Actors, Write(a) PROVE KeyInv'
  <2>1. OnDisk' = OnDisk /\ Readable' = Readable
    BY <1>0, <1>2, <1>k DEF Write, Rename, OneActor
  <2> QED BY <1>2, <2>1 DEF Write
<1>3. ASSUME NEW a \in Actors, Rename(a) PROVE KeyInv'
  <2>1. OnDisk' = draft[a] /\ Readable'
    BY <1>0, <1>3, StepDisk DEF Rename, OneActor
  <2>2. /\ \A b \in Actors \ {a} : pc[b] = "idle" /\ pc'[b] = "idle"
        /\ pc[a] = "rename" /\ pc'[a] = "cache"
        /\ UNCHANGED <<status, counter, draft>>
    BY <1>0, <1>3 DEF Rename, OneActor
  <2>3. CASE a = Boot
    BY <1>0, <2>1, <2>2, <2>3 DEF StatusInv
  <2>4. CASE a \in Updaters
    <3>1. status = "up"
      BY <1>0, <2>2, <2>4 DEF StatusInv
    <3> QED BY <1>0, <2>1, <2>2, <2>4, <3>1
  <2> QED BY <2>3, <2>4
<1>4. ASSUME NEW a \in Actors, PersistFails(a) PROVE KeyInv'
  <2>1. /\ pc'[a] = "idle" /\ pc[a] # "cache"
        /\ \A b \in Actors \ {a} : pc'[b] = pc[b]
        /\ UNCHANGED <<counter, draft, tmp, data, unread>> /\ status' \in {status, "down"}
    BY <1>4 DEF PersistFails
  <2>2. OnDisk' = OnDisk /\ Readable' = Readable
    <3>1. \A b \in Actors : Rename(b) => pc'[b] = "cache" /\ pc[b] # "cache"
      BY DEF Rename
    <3> QED BY <1>k, <2>1, <3>1
  <2>3. \A b \in Actors : pc'[b] = "cache" <=> pc[b] = "cache"
    BY <2>1
  <2>4. \A u \in Updaters : pc'[u] \in {"open", "write", "rename"} => pc[u] \in {"open", "write", "rename"}
    BY <2>1
  <2>5. pc'[Boot] # "idle" => pc[Boot] # "idle"
    BY <2>1
  <2> QED BY <2>1, <2>2, <2>3, <2>4, <2>5
<1>5. ASSUME NEW u \in Updaters, NEW f \in Fields, NEW v \in Vals, Begin(u, f, v) PROVE KeyInv'
  <2>1. OnDisk' = OnDisk /\ Readable' = Readable
    BY <1>5 DEF Begin, OnDisk, Readable
  <2>2. /\ status = "up" /\ \A a \in Actors : pc[a] = "idle"
    BY <1>0, <1>5 DEF Begin, StatusInv, Serial
  <2>3. draft'[u].sk = OnDisk.sk /\ draft'[u].mc = counter
    BY <1>0, <1>5, <2>2 DEF Begin
  <2> QED BY <1>0, <1>5, <2>1, <2>2, <2>3 DEF Begin
<1>6. ASSUME NEW u \in Updaters, SetCache(u) PROVE KeyInv'
  <2>1. OnDisk' = OnDisk /\ Readable' = Readable
    BY <1>6 DEF SetCache, OnDisk, Readable
  <2> QED BY <1>6, <2>1 DEF SetCache
<1>7. CASE Push
  <2>1. OnDisk' = OnDisk /\ Readable' = Readable
    BY <1>7 DEF Push, OnDisk, Readable
  <2> QED BY <1>0, <1>7, <2>1 DEF Push
<1>8. CASE Start
  <2>1. OnDisk' = OnDisk /\ Readable' = Readable
    BY <1>8 DEF Start, OnDisk, Readable
  <2>2. \A a \in Actors : pc[a] = "idle"
    BY <1>0, <1>8 DEF Start, StatusInv
  <2>3. PICK cfg \in Config, k \in SessionKeys :
            /\ draft' = [draft EXCEPT ![Boot] = [cfg EXCEPT !.sk = k]]
            /\ cfg.sk # NoKey => k = cfg.sk
            /\ cfg = IF unread' THEN Default ELSE OnDisk
    BY <1>8, StartDrafts
  <2>4. draft'[Boot].mc = cfg.mc /\ draft'[Boot].sk = k
    BY <2>3 DEF Config
  <2>5. ~unread' => draft'[Boot].mc = OnDisk.mc /\ (Readable => draft'[Boot].sk = OnDisk.sk)
    BY <2>3, <2>4
  <2> QED BY <1>0, <1>8, <2>1, <2>2, <2>3, <2>4, <2>5 DEF Start
<1>9. CASE Loaded
  <2>1. OnDisk' = OnDisk /\ Readable' = Readable
    BY <1>9 DEF Loaded, OnDisk, Readable
  <2>2. \A u \in Updaters : pc[u] = "idle" /\ pc'[u] = "idle"
    BY <1>0, <1>9 DEF Loaded, OneActor
  <2> QED BY <1>0, <1>9, <2>1, <2>2 DEF Loaded
<1>10. CASE Crash
  <2>1. OnDisk' = OnDisk /\ Readable' = Readable /\ status' = "down" /\ \A a \in Actors : pc'[a] = "idle"
    BY <1>10 DEF Crash, OnDisk, Readable, Quiet
  <2> QED BY <2>1
<1>11. CASE UNCHANGED vars
  BY <1>11 DEF vars, OnDisk, Readable
<1> QED
  BY <1>1, <1>2, <1>3, <1>4, <1>5, <1>6, <1>7, <1>8, <1>9, <1>10, <1>11 DEF Next

\* With one update at a time the saved session key survives every update, error,
\* crash and restart, and the saved message count never goes back (config.rs:160-166,
\* 204-212): logins outlive the process and pushes are not uncounted, unless a start
\* cannot read data.json and replaces it (config.rs:171, 191-195).
THEOREM SerialKeepsKeyAndCount == ASSUME Serial PROVE Spec => SavedKeepsKeyAndCount
<1> DEFINE Keeps == Readable => /\ Readable'
                                /\ \/ OnDisk'.sk = OnDisk.sk /\ OnDisk'.mc >= OnDisk.mc
                                   \/ Replaces
<1>1. Init => KeyInv
  BY InitDisk DEF Init, KeyInv, Quiet, Actors
<1>2. TypeOK /\ TypeOK' /\ SerialInv /\ [Next]_vars => SerialInv'
  BY StepSerial
<1>3. TypeOK /\ SerialInv /\ KeyInv /\ [Next]_vars => KeyInv'
  BY StepKeyInv
<1>4. ASSUME TypeOK, SerialInv, KeyInv, [Next]_vars PROVE Keeps
  <2>1. OnDisk.mc \in Nat
    BY <1>4, OnDiskIsConfig DEF Config
  <2>2. ASSUME NEW a \in Actors, Rename(a), OnDisk' = draft[a] /\ Readable' PROVE Keeps
    <3>1. pc[a] = "rename"
      BY <2>2 DEF Rename
    <3>2. CASE a = Boot
      BY <1>4, <2>1, <2>2, <3>1, <3>2 DEF KeyInv, Replaces
    <3>3. CASE a \in Updaters
      BY <1>4, <2>1, <2>2, <3>1, <3>3 DEF KeyInv
    <3> QED BY <3>2, <3>3 DEF Actors
  <2>3. CASE OnDisk' = OnDisk /\ Readable' = Readable
    BY <2>1, <2>3
  <2>4. /\ \A a \in Actors : Rename(a) => OnDisk' = draft[a] /\ Readable'
        /\ \/ \E a \in Actors : Rename(a)
           \/ OnDisk' = OnDisk /\ Readable' = Readable
    BY <1>4, StepDisk
  <2> HIDE DEF Keeps
  <2> QED BY <2>2, <2>3, <2>4
<1>5. [][Keeps]_vars <=> SavedKeepsKeyAndCount
  BY PTL DEF SavedKeepsKeyAndCount
<1> QED
  BY <1>1, <1>2, <1>3, <1>4, <1>5, InitSerial, TypeCorrect, PTL DEF Spec

=============================================================================
