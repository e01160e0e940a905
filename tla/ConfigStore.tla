---------------------------- MODULE ConfigStore ----------------------------
(***************************************************************************)
(* The configuration store (src/src/config.rs): an in-memory configuration  *)
(* that every reader snapshots, and data.json, which each update rewrites   *)
(* through one temporary file (data.json.tmp) and a rename.                 *)
(*                                                                          *)
(* update takes no lock over its read-modify-write, so the panel handlers   *)
(* that call it from several worker threads interleave at its system calls. *)
(* The file system is external: a path names an inode, opening with         *)
(* truncation blanks the inode the path names, a write goes to the inode    *)
(* that was opened, a rename moves the name.                                *)
(***************************************************************************)
EXTENDS Integers, FiniteSets

CONSTANTS
    Updaters,     \* panel handlers that may be in ConfigStore::update at once
    Boot,         \* the process start, which runs ConfigStore::load
    Fields, Vals, DefaultVal,   \* settings, abstracted to a few fields
    Inodes, NoFile,
    Blank,        \* content of a file just truncated
    Torn,         \* content that is no configuration: partial or overlaid writes
    DiskErrors,   \* whether read, open, write and rename may fail
    SessionKeys,  \* the random keys load may draw
    NoKey,        \* the empty session_key
    MaxPushes     \* bound: counted pushes

Actors   == Updaters \cup {Boot}
Settings == [Fields -> Vals]
\* mc: message_count.  sk: session_key.
Config   == [set : Settings, mc : Nat, sk : SessionKeys \cup {NoKey}]

ASSUME StoreAssumption ==
    /\ Boot \notin Updaters
    /\ DefaultVal \in Vals
    /\ Fields # {}
    /\ NoFile \notin Inodes
    /\ Blank \notin Config
    /\ Torn \notin Config
    /\ DiskErrors \in BOOLEAN
    /\ NoKey \notin SessionKeys
    /\ SessionKeys # {}
    /\ MaxPushes \in Nat

\* AppConfig::default: every field from its serde default.
Default == [set |-> [f \in Fields |-> DefaultVal], mc |-> 0, sk |-> NoKey]

VARIABLES
    status,       \* "down", "boot" or "up"
    cache,        \* ConfigStore.cache
    counter,      \* ConfigStore.message_count
    content,      \* inode -> what it holds
    tmp, data,    \* the inodes named data.json.tmp and data.json
    pc, draft, fd,\* per actor: progress, the configuration it writes, its open file
    edit,         \* per updater: the field it sets and the value
    expected,     \* history: per field, the values an acknowledged update or one cut
                  \* off by a crash may have left, or a start that could not read
    unread        \* history: whether the last start failed to read a good data.json

memory == <<status, cache, counter>>
disk   == <<content, tmp, data>>
actor  == <<pc, draft, fd, edit>>
history == <<expected, unread>>
vars   == <<memory, disk, actor, history>>

----------------------------------------------------------------------------
(* Helpers *)

ActorPC == {"idle", "open", "write", "rename", "cache"}

\* What data.json holds; a missing or unparsable file counts as the default
\* configuration.
Readable == data \in Inodes /\ content[data] \in Config
OnDisk   == IF Readable THEN content[data] ELSE Default

\* What load takes it to hold: any error of the read, of a good file too, is
\* silently the default configuration.
ReadsAs(failed) == IF failed THEN Default ELSE OnDisk

\* What a data.json that could not be read leaves of each field, once it is replaced.
Forgotten == [f \in Fields |-> {DefaultVal}]

Quiet == [a \in Actors |-> "idle"]

\* The updaters that have drafted a configuration and not yet returned.
Busy(f) == {u \in Updaters : pc[u] # "idle" /\ edit[u].field = f}

Init ==
    /\ status = "down"
    /\ cache = Default
    /\ counter = 0
    /\ content = [i \in Inodes |-> Blank]
    /\ tmp = NoFile
    /\ data = NoFile
    /\ pc = Quiet
    /\ draft = [a \in Actors |-> Default]
    /\ fd = [a \in Actors |-> NoFile]
    /\ edit = [u \in Updaters |-> [field |-> CHOOSE f \in Fields : TRUE, val |-> DefaultVal]]
    /\ expected = Forgotten
    /\ unread = FALSE

----------------------------------------------------------------------------
(* persist: fs::write to the temporary path, then fs::rename *)

Step(a, to) == pc' = [pc EXCEPT ![a] = to]

\* fs::write opens the path: an existing file is truncated, whoever made it.
Open(a) ==
    /\ pc[a] = "open"
    /\ \E i \in (IF tmp = NoFile THEN Inodes \ ({data} \cup {fd[b] : b \in Actors})
                                 ELSE {tmp}) :
         /\ tmp' = i
         /\ fd' = [fd EXCEPT ![a] = i]
         /\ content' = [content EXCEPT ![i] = Blank]
    /\ Step(a, "write")
    /\ UNCHANGED <<memory, data, draft, edit, history>>

\* Over another writer's bytes the result is this writer's configuration only if
\* it is at least as long.
Write(a) ==
    /\ pc[a] = "write"
    /\ \E bytes \in (IF content[fd[a]] = Blank THEN {draft[a]} ELSE {draft[a], Torn}) :
         content' = [content EXCEPT ![fd[a]] = bytes]
    /\ Step(a, "rename")
    /\ UNCHANGED <<memory, tmp, data, draft, fd, edit, history>>

Rename(a) ==
    /\ pc[a] = "rename"
    /\ tmp # NoFile
    /\ data' = tmp
    /\ tmp' = NoFile
    /\ fd' = [fd EXCEPT ![a] = NoFile]
    /\ Step(a, "cache")
    /\ expected' = IF a = Boot /\ unread THEN Forgotten ELSE expected
    /\ UNCHANGED <<memory, content, draft, edit, unread>>

\* Mutant: a failed write is not noticed.
PersistFails_Ignored(a) ==
    /\ DiskErrors
    /\ pc[a] = "write"
    /\ content' = [content EXCEPT ![fd[a]] = Torn]
    /\ Step(a, "rename")
    /\ UNCHANGED <<memory, tmp, data, draft, fd, edit, history>>

\* An error from open, write or rename leaves persist, and update, at once; a
\* failed write leaves part of the bytes.  At start it ends the process.
PersistFails(a) ==
    /\ \/ DiskErrors /\ pc[a] \in {"open", "write", "rename"}
       \/ pc[a] = "rename" /\ tmp = NoFile
    /\ content' = IF pc[a] = "write" THEN [content EXCEPT ![fd[a]] = Torn] ELSE content
    /\ fd' = [fd EXCEPT ![a] = NoFile]
    /\ Step(a, "idle")
    /\ status' = IF a = Boot THEN "down" ELSE status
    /\ UNCHANGED <<cache, counter, tmp, data, draft, edit, history>>

----------------------------------------------------------------------------
(* update *)

\* Mutant: the other fields come from the defaults.
Begin_FromDefault(u, f, v) ==
    /\ status = "up"
    /\ pc[u] = "idle"
    /\ draft' = [draft EXCEPT ![u] = [set |-> [Default.set EXCEPT ![f] = v],
                                      mc  |-> counter,
                                      sk  |-> cache.sk]]
    /\ edit' = [edit EXCEPT ![u] = [field |-> f, val |-> v]]
    /\ Step(u, "open")
    /\ UNCHANGED <<memory, disk, fd, history>>

\* Mutant: a handler goes on from the draft of its previous, perhaps failed, update.
Begin_FromDraft(u, f, v) ==
    /\ status = "up"
    /\ pc[u] = "idle"
    /\ draft' = [draft EXCEPT ![u] = [set |-> [draft[u].set EXCEPT ![f] = v],
                                      mc  |-> counter,
                                      sk  |-> cache.sk]]
    /\ edit' = [edit EXCEPT ![u] = [field |-> f, val |-> v]]
    /\ Step(u, "open")
    /\ UNCHANGED <<memory, disk, fd, history>>

\* Clone the snapshot, take the live message count, apply the handler's closure.
Begin(u, f, v) ==
    /\ status = "up"
    /\ pc[u] = "idle"
    /\ draft' = [draft EXCEPT ![u] = [set |-> [cache.set EXCEPT ![f] = v],
                                      mc  |-> counter,
                                      sk  |-> cache.sk]]
    /\ edit' = [edit EXCEPT ![u] = [field |-> f, val |-> v]]
    /\ Step(u, "open")
    /\ UNCHANGED <<memory, disk, fd, history>>

\* Mutant: the cache keeps the old configuration.
SetCache_Forgotten(u) ==
    /\ pc[u] = "cache"
    /\ expected' = [expected EXCEPT ![edit[u].field] = {edit[u].val}]
    /\ Step(u, "idle")
    /\ UNCHANGED <<memory, disk, draft, fd, edit, unread>>

\* The cache takes the new configuration and update returns Ok.
SetCache(u) ==
    /\ pc[u] = "cache"
    /\ cache' = draft[u]
    /\ expected' = [expected EXCEPT ![edit[u].field] = {edit[u].val}]
    /\ Step(u, "idle")
    /\ UNCHANGED <<status, counter, disk, draft, fd, edit, unread>>

\* incr_message_count: memory only, until some update carries it to disk.
Push ==
    /\ status = "up"
    /\ counter < MaxPushes
    /\ counter' = counter + 1
    /\ UNCHANGED <<status, cache, disk, actor, history>>

----------------------------------------------------------------------------
(* load, and the end of a process *)

\* Mutant: every start draws a session key.
NewKey_Always(cfg) == SessionKeys

\* A configuration without a session key gets a new one.
NewKey(cfg) == IF cfg.sk = NoKey THEN SessionKeys ELSE {cfg.sk}

\* load persists whatever it read, over a file it could not read as well.
Start ==
    /\ status = "down"
    /\ \E failed \in {FALSE, DiskErrors} :
         /\ \E k \in NewKey(ReadsAs(failed)) :
              draft' = [draft EXCEPT ![Boot] = [ReadsAs(failed) EXCEPT !.sk = k]]
         /\ unread' = (failed /\ Readable)
    /\ status' = "boot"
    /\ Step(Boot, "open")
    /\ UNCHANGED <<cache, counter, disk, fd, edit, expected>>

Loaded ==
    /\ pc[Boot] = "cache"
    /\ cache' = draft[Boot]
    /\ counter' = draft[Boot].mc
    /\ status' = "up"
    /\ Step(Boot, "idle")
    /\ UNCHANGED <<disk, draft, fd, edit, history>>

\* The process dies; files stay as they are.  An update it cut off may or may not
\* have reached the disk.
Crash ==
    /\ status # "down"
    /\ status' = "down"
    /\ pc' = Quiet
    /\ fd' = [a \in Actors |-> NoFile]
    /\ expected' = [f \in Fields |-> expected[f] \cup {edit[u].val : u \in Busy(f)}]
    /\ UNCHANGED <<cache, counter, disk, draft, edit, unread>>

----------------------------------------------------------------------------
(* Specification *)

Next ==
    \/ \E a \in Actors : Open(a) \/ Write(a) \/ Rename(a) \/ PersistFails(a)
    \/ \E u \in Updaters, f \in Fields, v \in Vals : Begin(u, f, v)
    \/ \E u \in Updaters : SetCache(u)
    \/ Push
    \/ Start
    \/ Loaded
    \/ Crash

Spec == Init /\ [][Next]_vars

----------------------------------------------------------------------------
(* Properties *)

\* The type invariant.
TypeOK ==
    /\ status \in {"down", "boot", "up"}
    /\ cache \in Config
    /\ counter \in Nat
    /\ content \in [Inodes -> Config \cup {Blank, Torn}]
    /\ tmp \in Inodes \cup {NoFile}
    /\ data \in Inodes \cup {NoFile}
    /\ pc \in [Actors -> ActorPC]
    /\ draft \in [Actors -> Config]
    /\ fd \in [Actors -> Inodes \cup {NoFile}]
    /\ edit \in [Updaters -> [field : Fields, val : Vals]]
    /\ expected \in [Fields -> SUBSET Vals]
    /\ unread \in BOOLEAN

\* "Atomic replacement" (config.rs:158, 203): whatever has happened, data.json,
\* once it exists, holds a complete configuration; otherwise load would silently
\* start from the defaults.
DiskNeverTorn == data # NoFile => Readable

\* The values field f may hold: the last acknowledged one, or one being set; the
\* default, after a start that could not read the file has replaced it.
Allowed(f) == expected[f] \cup {edit[u].val : u \in Busy(f)}

\* No update is lost: each field holds, on disk and in memory, the value of the
\* last acknowledged update of that field or of one not yet finished; only a start
\* that fails to read data.json (config.rs:171) takes all of them back at once.
DiskLosesNone  == \A f \in Fields : OnDisk.set[f] \in Allowed(f)
CacheLosesNone == status = "up" => \A f \in Fields : cache.set[f] \in Allowed(f)
NoLostUpdate   == DiskLosesNone /\ CacheLosesNone

\* When no update is in progress, memory and disk agree on every setting and on
\* the session key, after a start that could not read the file as well.
CacheIsDisk ==
    (status = "up" /\ pc = Quiet) =>
        /\ cache.set = OnDisk.set
        /\ cache.sk = OnDisk.sk

\* The step with which a start that could not read data.json replaces it.
Replaces == unread /\ Rename(Boot)

\* Across updates, failures and restarts the saved session key never changes
\* (logins survive a restart) and the saved message count never goes back, unless
\* a start could not read the file: then it is that start's own rename, no other
\* step, that changes them (config.rs:171, 191-195).
SavedKeepsKeyAndCount ==
    [][Readable => /\ Readable'
                   /\ \/ OnDisk'.sk = OnDisk.sk /\ OnDisk'.mc >= OnDisk.mc
                      \/ Replaces]_vars

\* "On the first run: generate the session key, if there is none" (config.rs:174):
\* a key that is saved stays.
KeyOnFirstRun == [][Readable /\ OnDisk.sk # NoKey => OnDisk'.sk = OnDisk.sk]_vars

\* The saved settings behave as one atomic variable.
Abstract == INSTANCE AtomicConfig WITH saved <- OnDisk.set
SavedIsAtomic == Abstract!Spec

=============================================================================
