----------------------------- MODULE Lifecycle -----------------------------
(***************************************************************************)
(* The process from its start to its end: main of src/src/main.rs, the     *)
(* certificate files of src/src/certs.rs, and the panel's requests that    *)
(* change settings for the next start (src/src/panel.rs).                  *)
(*                                                                         *)
(* A file holds the key pair it was made with; two files load if they hold *)
(* the same.  The file system is external: fs::write truncates a file and  *)
(* then writes it.  A setting is saved in one step; ConfigStore has its    *)
(* steps.                                                                  *)
(***************************************************************************)
EXTENDS IpAllow

CONSTANTS
    Handlers,    \* panel requests that may generate a certificate at once
    Boot,        \* the start of the process, which may generate one too
    Pairs,       \* key pairs
    Missing, Cut,\* a file that is not there; one truncated or overlaid
    None,        \* no pair, no address, no process, not known
    Setups,      \* the settings considered
    Busy,        \* ports that other programs hold
    Hosts        \* addresses that connect to the panel

Writers  == Handlers \cup {Boot}
Files    == {"cert", "key"}
Services == {"message", "panel"}

ASSUME LifecycleAssumption ==
    /\ Boot \notin Handlers
    /\ {Missing, Cut, None} \cap Pairs = {} /\ Missing # Cut
    /\ None \notin Setups \cup Hosts
    /\ \A s \in Setups :
        /\ s.tls \in {"none", "self", "public"} /\ s.panel_tls \in {"none", "tls"}
        /\ s.status \in {"start", "stop"} /\ s.panel_bind \in {"good", "bad"}
        /\ "allowed" \in DOMAIN s /\ \A i \in DOMAIN s.allowed : IsEntry(s.allowed[i])
    /\ \A ip \in Hosts : ip \in IpV4 \/ ip.v = 6

VARIABLES
    saved,      \* data.json
    used,       \* the settings this process was started with
    phase,      \* where main is
    public,     \* the task that serves the message port
    served,     \* per service, the pair it was given at the start
    visitor,    \* the address of the last panel connection
    file,       \* cert.crt and private.key
    job,        \* per writer: the step of generate_self_signed, and its pair
    disturbed,  \* history: the last generations overlapped, or one was cut off
    found       \* history: the files at the start, None once others were made

process == <<used, phase, public, served, visitor>>
certs   == <<file, job, disturbed>>
vars    == <<saved, process, certs, found>>

NotServed == [s \in Services |-> None]
Rest == [at |-> "rest", file |-> "cert", pair |-> None]
AllRest == \A w \in Writers : job[w] = Rest

Init ==
    /\ saved \in Setups
    /\ used = None
    /\ phase = "down" /\ public = "off" /\ served = NotServed /\ visitor = None
    /\ file = [f \in Files |-> Missing]
    /\ job = [w \in Writers |-> Rest]
    /\ disturbed = FALSE
    /\ found = None

----------------------------------------------------------------------------
(* certs.rs *)

\* Mutant: one of the two files is enough.
FilesExist_One == \E f \in Files : file[f] # Missing

FilesExist == \A f \in Files : file[f] # Missing

\* load_tls_acceptor: what it loads, None if it fails.
Loaded == IF file["cert"] = file["key"] /\ file["cert"] \in Pairs THEN file["cert"] ELSE None

InUse == {file[f] : f \in Files} \cup {job[w].pair : w \in Writers} \cup {served[s] : s \in Services}

\* Into generate_self_signed with a new pair.
Generate(w) ==
    /\ job[w] = Rest
    /\ \E p \in Pairs \ InUse : job' = [job EXCEPT ![w] = [at |-> "open", file |-> "cert", pair |-> p]]
    /\ disturbed' = ~AllRest

OpenFile(w) ==
    /\ job[w].at = "open"
    /\ file' = [file EXCEPT ![job[w].file] = Cut]
    /\ job' = [job EXCEPT ![w].at = "write"]
    /\ UNCHANGED <<saved, process, disturbed, found>>

\* Mutant: a private key that exists is kept.
AfterFile_KeepsKey(w) ==
    IF job[w].file = "cert" /\ file["key"] = Missing THEN [job[w] EXCEPT !.at = "open", !.file = "key"] ELSE Rest

AfterFile(w) ==
    IF job[w].file = "cert" THEN [job[w] EXCEPT !.at = "open", !.file = "key"] ELSE Rest

\* Over another writer's bytes the file need not come out whole.
WriteFile(w) ==
    /\ job[w].at = "write"
    /\ \E bytes \in {job[w].pair} \cup (IF file[job[w].file] = Cut THEN {} ELSE {Cut}) :
         file' = [file EXCEPT ![job[w].file] = bytes]
    /\ job' = [job EXCEPT ![w] = AfterFile(w)]
    /\ UNCHANGED <<saved, process, disturbed, found>>

\* An open or a write fails: the file stays as it was, or truncated.
GenerateFails(w) ==
    /\ job[w] # Rest
    /\ job' = [job EXCEPT ![w] = Rest]
    /\ disturbed' = TRUE
    /\ found' = None
    /\ UNCHANGED <<saved, process, file>>

----------------------------------------------------------------------------
(* main *)

Start ==
    /\ phase = "down"
    /\ used' = saved
    /\ phase' = "tls"
    /\ found' = file
    /\ UNCHANGED <<saved, public, served, visitor, certs>>

\* ensure_self_signed, where the settings ask for it.
Ensure(from, wanted, to) ==
    /\ phase = from
    /\ phase' = to
    /\ IF wanted /\ ~FilesExist THEN Generate(Boot) ELSE UNCHANGED <<job, disturbed>>
    /\ UNCHANGED <<saved, used, public, served, visitor, file, found>>

\* An acceptor, or none and a warning: the service then runs in plaintext.
Load(from, s, wanted, to) ==
    /\ phase = from
    /\ job[Boot] = Rest
    /\ phase' = to
    /\ served' = [served EXCEPT ![s] = IF wanted THEN Loaded ELSE None]
    /\ UNCHANGED <<saved, used, public, visitor, certs, found>>

EnsureMessage == Ensure("tls", used.tls = "self", "tls load")

LoadMessage == Load("tls load", "message", used.tls \in {"self", "public"}, "panel tls")

\* Mutant: the panel has a certificate of its own generated.
EnsurePanel_Always ==
    /\ phase = "panel tls"
    /\ phase' = "panel load"
    /\ IF used.panel_tls = "tls" THEN Generate(Boot) ELSE UNCHANGED <<job, disturbed>>
    /\ UNCHANGED <<saved, used, public, served, visitor, file, found>>

EnsurePanel == Ensure("panel tls", used.panel_tls = "tls", "panel load")

LoadPanel == Load("panel load", "panel", used.panel_tls = "tls", "spawn")

Spawn ==
    /\ phase = "spawn"
    /\ phase' = "bind"
    /\ public' = IF used.status = "stop" THEN "off" ELSE "pending"
    /\ UNCHANGED <<saved, used, served, visitor, certs, found>>

Taken ==
    Busy \cup (IF public = "bound" THEN {used.server_port} ELSE {})
         \cup (IF phase = "up" THEN {used.panel_port} ELSE {})

\* The spawned task only logs that it could not listen.
BindPublic ==
    /\ public = "pending"
    /\ public' = IF used.server_port \in Taken THEN "failed" ELSE "bound"
    /\ UNCHANGED <<saved, used, phase, served, visitor, certs, found>>

\* The process ends; what its writers had open stays as it is.
Ends ==
    /\ used' = None
    /\ phase' = "down" /\ public' = "off" /\ served' = NotServed /\ visitor' = None
    /\ job' = [w \in Writers |-> Rest]
    /\ disturbed' = (disturbed \/ ~AllRest)
    /\ found' = None
    /\ UNCHANGED <<saved, file>>

CanListen == used.panel_bind = "good" /\ used.panel_port \notin Taken

\* Mutant: a panel that cannot listen is waited for.
BindPanel_Waits ==
    /\ phase = "bind"
    /\ CanListen
    /\ phase' = "up"
    /\ UNCHANGED <<saved, used, public, served, visitor, certs, found>>

BindPanel ==
    /\ phase = "bind"
    /\ \/ /\ CanListen
          /\ phase' = "up"
          /\ UNCHANGED <<saved, used, public, served, visitor, certs, found>>
       \/ ~CanListen /\ Ends

Crash == phase # "down" /\ Ends

\* A connection to the panel's port that the whitelist lets in, as it is then (no request
\* edits it); others change nothing.
Connect(ip) ==
    /\ phase = "up"
    /\ ip_allowed(saved.allowed, ip)
    /\ visitor' = ip
    /\ UNCHANGED <<saved, used, phase, public, served, certs, found>>

----------------------------------------------------------------------------
(* The panel, and the files edited by hand *)

Reached == phase = "up" /\ visitor # None

\* What each of api_setting_tls, _status, _network and _ports writes.
Edits == {{"tls"}, {"status"}, {"panel_bind"}, {"server_port", "panel_port"}}

Save(fields) ==
    /\ Reached
    /\ \E s \in Setups : /\ \A f \in DOMAIN s \ fields : s[f] = saved[f]
                         /\ saved' = s
    /\ UNCHANGED <<process, certs, found>>

\* api_cert_generate
CertGenerate(h) ==
    /\ Reached
    /\ Generate(h)
    /\ found' = None
    /\ UNCHANGED <<saved, process, file>>

EditByHand ==
    /\ phase = "down"
    /\ saved' \in Setups
    /\ UNCHANGED <<process, certs, found>>

\* A certificate put there by hand, with its key or without; or files removed.
PlaceFiles(with) ==
    /\ phase = "down"
    /\ \E p \in Pairs \ InUse :
         file' = CASE with = "both" -> [f \in Files |-> p]
                   [] with = "cert" -> [file EXCEPT !["cert"] = p]
                   [] with = "none" -> [f \in Files |-> Missing]
    /\ disturbed' = (with = "cert")
    /\ UNCHANGED <<saved, process, job, found>>

----------------------------------------------------------------------------

WriterStep(w) == OpenFile(w) \/ WriteFile(w)

BootStep ==
    \/ EnsureMessage \/ LoadMessage \/ EnsurePanel \/ LoadPanel
    \/ Spawn \/ BindPanel \/ WriterStep(Boot)

Next ==
    \/ Start \/ BootStep \/ BindPublic \/ Crash
    \/ \E w \in Writers : WriterStep(w) \/ GenerateFails(w)
    \/ \E ip \in Hosts : Connect(ip)
    \/ \E fields \in Edits : Save(fields)
    \/ \E h \in Handlers : CertGenerate(h)
    \/ EditByHand
    \/ \E with \in {"both", "cert", "none"} : PlaceFiles(with)

Spec == Init /\ [][Next]_vars

\* main and the task it spawns go on.
FairSpec == Spec /\ WF_vars(BootStep) /\ WF_vars(BindPublic)

----------------------------------------------------------------------------
(* Properties *)

\* Settings, files and jobs; handlers generate only while the panel is up.
TypeOK ==
    /\ saved \in Setups
    /\ used \in Setups \cup {None} /\ (used = None <=> phase = "down")
    /\ phase \in {"down", "tls", "tls load", "panel tls", "panel load", "spawn", "bind", "up"}
    /\ public \in {"off", "pending", "bound", "failed"}
    /\ served \in [Services -> Pairs \cup {None}]
    /\ visitor \in Hosts \cup {None}
    /\ file \in [Files -> Pairs \cup {Missing, Cut}]
    /\ job \in [Writers -> [at : {"rest", "open", "write"}, file : Files, pair : Pairs \cup {None}]]
    /\ disturbed \in BOOLEAN
    /\ found = None \/ found \in [Files -> Pairs \cup {Missing, Cut}]
    /\ phase # "up" => \A h \in Handlers : job[h] = Rest

\* generate_self_signed writes two files one after the other: unless the last
\* generations overlapped or one was cut off, certificate and key belong together.
PairMatches == AllRest /\ ~disturbed => file["cert"] = file["key"] /\ file["cert"] # Cut

\* The comment at ensure_self_signed: a start that needs a certificate makes one if
\* a file is missing, and serves it; two files that are there it leaves alone.
StartLeavesPair ==
    phase = "up" /\ found # None =>
        IF \A f \in Files : found[f] # Missing THEN file = found
        ELSE /\ used.tls = "self" => served["message"] = Loaded /\ Loaded # None
             /\ used.panel_tls = "tls" => served["panel"] = Loaded /\ Loaded # None

\* /certs/download hands out the file, TLS uses the pair of the start: until the panel
\* generates another, both services have the certificate that clients download.
ServedIsDownloaded ==
    phase = "up" /\ found # None =>
        \A s \in Services : served[s] \in {None, file["cert"]}

\* A start ends with the panel listening, or in the end of the process; if the
\* settings leave each service a port of its own, both listen.
ComesUp ==
    /\ phase = "tls" ~> phase \in {"up", "down"}
    /\ (phase = "tls" /\ used.panel_bind = "good" /\ used.status = "start"
          /\ {used.server_port, used.panel_port} \cap Busy = {} /\ used.server_port # used.panel_port)
         ~> (phase = "down" \/ (phase = "up" /\ public = "bound"))

\* ip_allowed: its masks admit the addresses that share a prefix with a CIDR of the
\* list or are named in it, and everybody if the list is empty; whoever reached its port
\* (not the message port under public_panel) is one of them.
WhitelistIsPrefix ==
    /\ \A ip \in IpV4 \cup Hosts : ip_allowed(saved.allowed, ip) <=> Covered(saved.allowed, ip)
    /\ visitor # None => Covered(saved.allowed, visitor)

=============================================================================
