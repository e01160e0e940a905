------------------------------ MODULE PushApi ------------------------------
(***************************************************************************)
(* A push request (push_api of src/src/push_api.rs, with the webhook       *)
(* bodies of src/src/third.rs) against the panel's edits of the key list   *)
(* (src/src/panel.rs).                                                     *)
(*                                                                         *)
(* A parameter's value is the sequence of the parts its commas separate:   *)
(* "" is <<Blank>>, and <<>> stands for a JSON object or array.  A message *)
(* says something (<<Words>>), is empty, or is absent; its type and date   *)
(* are left out.  What publish does to a key is MqttHub's; here it         *)
(* succeeds or fails.                                                      *)
(*                                                                         *)
(* Every update, of the key list or of another setting, clones the whole   *)
(* configuration, changes the clone, writes it to the disk and only then   *)
(* replaces the configuration by it, with no lock (config.rs:204-212).     *)
(* What the write consists of is ConfigStore's; here it succeeds or fails. *)
(* Notes are left out.                                                     *)
(***************************************************************************)
EXTENDS Naturals, Sequences, SequencesExt

CONSTANTS
    Pushers,      \* push requests that may be under way at once
    Handlers,     \* panel requests that may be
    Keys, Aliases,
    Blank,        \* the empty string
    Words,        \* any text that is not empty
    Requests,     \* what a client may send: [query, body, words]
    MaxKeys,      \* keys of one request, 100
    Bare,         \* bound: keys one of which the list may have at the start
    MaxEntries    \* bound: entries of the key list

ASSUME ApiAssumption ==
    /\ Blank \notin Keys \cup Aliases
    /\ Words # Blank
    /\ Bare \subseteq Keys
    /\ MaxKeys \in Nat \ {0} /\ MaxEntries \in Nat
    /\ \A q \in Requests :
        /\ q.words \subseteq {"root", "title", "content"}
        /\ \A value \in Range(q.query) \cup Range(q.body) : value \in Seq(Range(value))

Refusals == {"banner", "key type", "empty key", "bad format", "too many keys", "illegal key", "empty message"}

VARIABLES
    entries,     \* push_keys of the configuration: [key, alias, form], form a bare
                 \* string ("text") or an object
    op,          \* per panel request: its update, see Resting
    req,         \* per push request: its progress, see Ask
    gone,        \* history: keys deleted while no clone of another update had them, and
                 \* not added since
    overlapped,  \* history: names (see Names) that were checked while another update was to
                 \* list them, and that are listed, or to be, ever since
    barred,      \* history: of gone when the request came, what has not been added since
    owners       \* history: the keys its alias has named since

panel == <<entries, op, gone, overlapped>>
seen  == <<barred, owners>>
vars  == <<panel, seen, req>>

----------------------------------------------------------------------------
(* AppConfig: key_set and find_by_temp_key *)

Listed == {entries[i].key : i \in DOMAIN entries}

\* What an entry is found by.
Names(e) == {<<"key", e.key>>} \cup (IF e.alias = Blank THEN {} ELSE {<<"alias", e.alias>>})

\* Mutant: the empty alias is looked up as well.
Owner_OfBlank(list, a) ==
    LET i == SelectInSeq(list, LAMBDA e : e.alias = a)
    IN  IF i = 0 THEN <<>> ELSE <<list[i].key>>

\* The key of the first entry with the alias, as a parameter's value.
Owner(list, a) ==
    LET i == SelectInSeq(list, LAMBDA e : e.alias = a)
    IN  IF i = 0 \/ a = Blank THEN <<>> ELSE <<list[i].key>>

\* What the first n elements of s have of S, in their order, for each n.  (SelectSeq is
\* Sift(s, S)[Len(s)] for the S of its test.)
Sift(s, S) ==
    LET f[n \in 0..Len(s)] ==
          IF n = 0 THEN <<>> ELSE IF s[n] \in S THEN Append(f[n - 1], s[n]) ELSE f[n - 1]
    IN  f

Retain(list, kept) == Sift(list, kept)[Len(list)]

----------------------------------------------------------------------------
(* Parameters: the query before the body, the first of a name before others *)

Merged(q) ==
    [n \in DOMAIN q.query \cup DOMAIN q.body |-> IF n \in DOMAIN q.query THEN q.query[n] ELSE q.body[n]]

Text(p, n) == IF n \in DOMAIN p THEN p[n] ELSE <<>>
IsObject(p, n) == n \in DOMAIN p /\ p[n] = <<>>

----------------------------------------------------------------------------
(* third.rs: which of title and content a webhook body gives words to.  In *)
(* words is what the body has of: the object its type wants ("root"), a    *)
(* title ("title"), a text or element that is translated ("content").      *)

Feishu(type, words) ==
    CASE type = "text" /\ "root" \in words -> words \cap {"content"}
      [] type \in {"post", "interactive"} /\ "root" \in words -> words \cap {"title", "content"}
      [] type \in {"share_chat", "image"} -> {"content"}
      [] OTHER -> {}

\* In markdown "root" is a field content (WeCom), which is then taken alone.
Weiding(type, words) ==
    CASE type \in {"text", "news", "feedCard"} -> words \cap {"content"}
      [] type \in {"image", "file", "template_card"} -> {"content"}
      [] type = "link" -> (words \cap {"title"}) \cup {"content"}
      [] type = "markdown" /\ "root" \in words -> words \cap {"content"}
      [] type = "markdown" /\ "root" \notin words -> words \cap {"title", "content"}
      [] type = "actionCard" -> words \cap {"title", "content"}
      [] OTHER -> {}

Detect(p, words) ==
    CASE Text(p, "msg_type") # <<>> -> Feishu(Head(p["msg_type"]), words)
      [] Text(p, "msg_type") = <<>> /\ Text(p, "msgtype") # <<>> -> Weiding(Head(p["msgtype"]), words)
      [] OTHER -> {}

\* Title and content, absent (<<>>), empty or not.
Said(p, words, n) == IF n \in Detect(p, words) THEN <<Words>> ELSE Text(p, n)

----------------------------------------------------------------------------

Idle == [pc |-> "idle", p |-> <<>>, words |-> {}, key |-> <<>>, todo |-> <<>>, done |-> <<>>, reply |-> ""]

\* pc: "checked", then "draft".  add: the entry it adds, if it adds one.  del: the key it
\* deletes.  list: the key list in its clone.
Resting == [pc |-> "idle", add |-> <<>>, del |-> {}, list |-> <<>>]

Init ==
    /\ entries \in {<<>>} \cup {<<e>> : e \in [key : Bare, alias : {Blank}, form : {"text"}]}
    /\ op = [h \in Handlers |-> Resting]
    /\ req = [r \in Pushers |-> Idle]
    /\ gone = {} /\ overlapped = {}
    /\ barred = [r \in Pushers |-> {}]
    /\ owners = [r \in Pushers |-> {}]

----------------------------------------------------------------------------
(* The panel *)

\* The keys that the alias of a request with parameters p names in a list.
Named(list, p) ==
    {list[i].key : i \in {j \in DOMAIN list : list[j].alias \in Range(Text(p, "temp_key")) \ {Blank}}}

\* What the push requests under way see of a new list.
Sees(list, added) ==
    /\ barred' = [r \in Pushers |-> barred[r] \ added]
    /\ owners' = [r \in Pushers |-> IF req[r].pc = "idle" THEN owners[r]
                    ELSE owners[r] \cup Named(list, req[r].p)]

Entry(k, a) == [key |-> k, alias |-> a, form |-> "object"]

KeysOf(list) == {e.key : e \in Range(list)}

\* What update h is to list.
Brings(h) == Range(op[h].add) \cup Range(op[h].list)

\* Those of the names that a list has or an update is to list.
Carried(names, list, ops) ==
    {n \in names : \E e \in Range(list) \cup UNION {Range(ops[h].add) \cup Range(ops[h].list) : h \in Handlers} :
                     n \in Names(e)}

\* Mutant: only the key is checked.
CheckEntry_KeyOnly(h, k, a) ==
    /\ op[h].pc = "idle"
    /\ k \notin Listed
    /\ op' = [op EXCEPT ![h] = [Resting EXCEPT !.pc = "checked", !.add = <<Entry(k, a)>>]]
    /\ overlapped' = overlapped \cup
         {n \in Names(Entry(k, a)) : \E g \in Handlers \ {h} : \E e \in Brings(g) : n \in Names(e)}
    /\ UNCHANGED <<entries, gone, seen, req>>

\* api_keys_add up to its update: the snapshot has neither key nor alias.
CheckEntry(h, k, a) ==
    /\ op[h].pc = "idle"
    /\ k \notin Listed
    /\ Owner(entries, a) = <<>>
    /\ op' = [op EXCEPT ![h] = [Resting EXCEPT !.pc = "checked", !.add = <<Entry(k, a)>>]]
    /\ overlapped' = overlapped \cup
         {n \in Names(Entry(k, a)) : \E g \in Handlers \ {h} : \E e \in Brings(g) : n \in Names(e)}
    /\ UNCHANGED <<entries, gone, seen, req>>

\* update up to its write: the clone of the configuration as it is now, with that list.
Draft(h, list, add, del) ==
    /\ op' = [op EXCEPT ![h] = [pc |-> "draft", add |-> add, del |-> del, list |-> list]]
    /\ UNCHANGED <<entries, gone, overlapped, seen, req>>

\* The entry goes into the list as it is by now.
DraftEntry(h) ==
    /\ op[h].pc = "checked"
    /\ Len(entries) < MaxEntries
    /\ Draft(h, entries \o op[h].add, op[h].add, {})

\* Mutant: an entry that is a bare string is kept.
DraftDelete_Objects(h, k) ==
    /\ op[h].pc = "idle"
    /\ Draft(h, Retain(entries, {e \in Range(entries) : e.key # k \/ e.form = "text"}), <<>>, {k})

\* api_keys_delete: every entry with the key goes, in either form.
DraftDelete(h, k) ==
    /\ op[h].pc = "idle"
    /\ Draft(h, Retain(entries, {e \in Range(entries) : e.key # k}), <<>>, {k})

\* api_keys_update, which sets notes, and the updates of all other settings.
DraftOther(h) ==
    /\ op[h].pc = "idle"
    /\ Draft(h, entries, <<>>, {})

\* The configuration becomes the clone, whatever the list has become meanwhile.
Save(h) ==
    /\ op[h].pc = "draft"
    /\ entries' = op[h].list
    /\ op' = [op EXCEPT ![h] = Resting]
    /\ gone' = (gone \ KeysOf(op[h].add)) \cup
               {k \in op[h].del : \A g \in Handlers \ {h} : k \notin KeysOf(op[g].list)}
    /\ overlapped' = Carried(overlapped, op[h].list, op')
    /\ Sees(entries', KeysOf(op[h].add))
    /\ UNCHANGED req

\* The update fails; the answer is the same.
SaveFails(h) ==
    /\ op[h].pc # "idle"
    /\ op' = [op EXCEPT ![h] = Resting]
    /\ overlapped' = Carried(overlapped, entries, op')
    /\ UNCHANGED <<entries, gone, seen, req>>

----------------------------------------------------------------------------
(* push_api *)

\* p: its parameters.  words: what a webhook body has.  key: push_key once the
\* alias is looked up.  todo: keys to publish to.  done: those tried, with how it
\* went, as logged; each that went well is counted.
Ask(r, q) ==
    /\ req[r].pc = "idle"
    /\ req' = [req EXCEPT ![r] = [Idle EXCEPT !.pc = "lookup", !.p = Merged(q), !.words = q.words]]
    /\ barred' = [barred EXCEPT ![r] = gone]
    /\ owners' = [owners EXCEPT ![r] = Named(entries, Merged(q))]
    /\ UNCHANGED panel

\* The first snapshot, read for an alias if there is no push_key.
LookUp(r) ==
    /\ req[r].pc = "lookup"
    /\ LET p == req[r].p
           key == Text(p, "push_key")
           alias == Text(p, "temp_key")
       IN  req' = [req EXCEPT ![r].pc = "check", ![r].key =
                     IF key = <<>> /\ Len(alias) = 1 THEN Owner(entries, alias[1]) ELSE key]
    /\ UNCHANGED <<panel, seen>>

\* Mutant: a parameter that is an object is refused though it was translated.
BadFormat_Always(p, value, n) == IsObject(p, n)

BadFormat(p, value, n) == value = <<>> /\ IsObject(p, n)

TooMany(key) == Len(key) > MaxKeys

\* The checks in their order: what is wrong, and what it is answered.
Checks(r) ==
    LET p == req[r].p
        key == req[r].key
        title == Said(p, req[r].words, "title")
        content == Said(p, req[r].words, "content")
    IN  <<[bad |-> key = <<>> /\ title = <<>> /\ content = <<>>,    reply |-> "banner"],
          [bad |-> IsObject(p, "push_key"),                                 reply |-> "key type"],
          [bad |-> key \in {<<>>, <<Blank>>},                               reply |-> "empty key"],
          [bad |-> BadFormat(p, title, "title") \/ BadFormat(p, content, "content"),
                                                                            reply |-> "bad format"],
          [bad |-> TooMany(key),                                          reply |-> "too many keys"],
          [bad |-> ~(Range(key) \subseteq Listed \cup {Blank}),             reply |-> "illegal key"],
          [bad |-> title = <<Blank>> /\ content = <<Blank>>,        reply |-> "empty message"]>>

\* The second snapshot, read for the whitelist (and the offline settings).
Check(r) ==
    /\ req[r].pc = "check"
    /\ LET failed == SelectInSeq(Checks(r), LAMBDA c : c.bad)
       IN  req' = IF failed # 0
                    THEN [req EXCEPT ![r].pc = "answered", ![r].reply = Checks(r)[failed].reply]
                    ELSE [req EXCEPT ![r].pc = "publish", ![r].reply = "success", ![r].todo = req[r].key]
    /\ UNCHANGED <<panel, seen>>

\* Mutant: an empty part ends the loop.
SkipPart_Breaks(r) ==
    /\ req[r].pc = "publish" /\ req[r].todo # <<>>
    /\ Head(req[r].todo) = Blank
    /\ req' = [req EXCEPT ![r].todo = <<>>]
    /\ UNCHANGED <<panel, seen>>

SkipPart(r) ==
    /\ req[r].pc = "publish" /\ req[r].todo # <<>>
    /\ Head(req[r].todo) = Blank
    /\ req' = [req EXCEPT ![r].todo = Tail(@)]
    /\ UNCHANGED <<panel, seen>>

\* MqttHub's publish, ok or not; only the failure of a single key is answered.
PublishKey(r, ok) ==
    /\ req[r].pc = "publish" /\ req[r].todo # <<>>
    /\ Head(req[r].todo) # Blank
    /\ req' = [req EXCEPT ![r].todo = Tail(@),
                          ![r].done = Append(@, [key |-> Head(req[r].todo), ok |-> ok]),
                          ![r].reply = IF ~ok /\ Len(req[r].key) = 1 THEN "failed" ELSE @]
    /\ UNCHANGED <<panel, seen>>

\* Answered in words, or as the third party's JSON if it was detected.
Reply(r) ==
    /\ req[r].pc = "publish" /\ req[r].todo = <<>>
    /\ req' = [req EXCEPT ![r].pc = "answered"]
    /\ UNCHANGED <<panel, seen>>

Close(r) ==
    /\ req[r].pc = "answered"
    /\ req' = [req EXCEPT ![r] = Idle]
    /\ barred' = [barred EXCEPT ![r] = {}]
    /\ owners' = [owners EXCEPT ![r] = {}]
    /\ UNCHANGED panel

----------------------------------------------------------------------------

PanelStep(h) ==
    \/ \E k \in Keys, a \in Aliases \cup {Blank} : CheckEntry(h, k, a)
    \/ \E k \in Keys : DraftDelete(h, k)
    \/ DraftEntry(h) \/ DraftOther(h) \/ Save(h) \/ SaveFails(h)

PushStep(r) ==
    \/ LookUp(r) \/ Check(r) \/ SkipPart(r)
    \/ \E ok \in BOOLEAN : PublishKey(r, ok)
    \/ Reply(r)

Next ==
    \/ \E h \in Handlers : PanelStep(h)
    \/ \E r \in Pushers :
        \/ \E q \in Requests : Ask(r, q)
        \/ PushStep(r) \/ Close(r)

Spec == Init /\ [][Next]_vars

----------------------------------------------------------------------------
(* Properties *)

Tried(r) == {d.key : d \in Range(req[r].done)}

\* api_keys_delete: once it is saved, a request that comes later reaches the key
\* in no way, whatever form the entry had, and by no alias, unless it is added again,
\* or another update had it in its clone when the deletion was saved and may put it back
\* (config.rs:204-212): no update that begins later does.
DeletedStaysOut == \A r \in Pushers : Tried(r) \cap barred[r] = {}

\* find_by_temp_key: a request by alias reaches a key the alias has named while the
\* request ran, though the list changes between the lookup and the whitelist check;
\* no alias names nobody.
AliasReachesOwner ==
    \A r \in Pushers : Text(req[r].p, "push_key") = <<>> => Tried(r) \subseteq owners[r]

\* api_keys_add: a key or an alias is listed twice only if it was checked, and found to be
\* free, while another update, that had it in its clone or was to add it, was under way;
\* nor does that excuse it any longer than until it is listed no more.
TwiceOnlyIfOverlapped ==
    \A i, j \in DOMAIN entries : i # j => Names(entries[i]) \cap Names(entries[j]) \subseteq overlapped

\* push_api: a refused request publishes to no key, not even to those before the one it
\* is refused for; an accepted one tries each that is not empty, in its order; of a
\* single key, success is answered only if it was published.
RepliesAreTrue ==
    \A r \in Pushers : req[r].pc = "answered" =>
        IF req[r].reply \in Refusals THEN req[r].done = <<>>
        ELSE /\ [i \in DOMAIN req[r].done |-> req[r].done[i].key]
                  = Retain(req[r].key, Range(req[r].key) \ {Blank})
             /\ Len(req[r].key) = 1 => (req[r].reply = "success" <=> req[r].done[1].ok)

\* The webhook kinds src/README.md lists.
KnownHook(p) ==
    \/ \E t \in {"text", "post", "share_chat", "image", "interactive"} : Text(p, "msg_type") = <<t>>
    \/ /\ Text(p, "msg_type") = <<>>
       /\ \E t \in {"text", "markdown", "image", "news", "file", "template_card", "link", "actionCard", "feedCard"} :
            Text(p, "msgtype") = <<t>>

\* third.rs with the format check of push_api: a webhook body of a documented kind that has
\* a text in its place goes out with words, though its parameters are objects, unless the
\* title is one, which no documented kind has.
HooksComeThrough ==
    \A r \in Pushers :
      {"root", "content"} \subseteq req[r].words /\ KnownHook(req[r].p) /\ ~IsObject(req[r].p, "title") =>
        /\ req[r].reply # "bad format"
        /\ req[r].pc = "publish" => Said(req[r].p, req[r].words, "content") = <<Words>>

=============================================================================
