--------------------------- MODULE Lifecycle_proofs ---------------------------
(* Proofs about Lifecycle, for any settings, handlers and key pairs: type        *)
(* correctness, what becomes of the two certificate files, and whom the          *)
(* whitelist lets in.                                                            *)
EXTENDS Lifecycle, WellFoundedInduction, TLAPS

----------------------------------------------------------------------------
(* Type correctness *)

FileType == Pairs \cup {Missing, Cut}
JobType  == [at : {"rest", "open", "write"}, file : Files, pair : Pairs \cup {None}]

\* A writer that is not at rest has a pair, and main waits for its own.
WriterInv ==
  /\ \A w \in Writers : job[w] = Rest \/ (job[w].at \in {"open", "write"} /\ job[w].pair \in Pairs)
  /\ job[Boot] # Rest => phase \in {"tls load", "panel load"}

TypeInv == TypeOK /\ WriterInv

LEMMA RestType == Rest \in JobType /\ Rest.at = "rest"
BY DEF Rest, JobType, Files

LEMMA JobParts ==
  ASSUME TypeInv, NEW w \in Writers
  PROVE  /\ file \in [Files -> FileType] /\ job \in [Writers -> JobType] /\ job[w] \in JobType
         /\ job[w].file \in Files
         /\ job[w].at # "rest" => job[w] # Rest /\ job[w].pair \in Pairs
BY RestType DEF TypeInv, TypeOK, WriterInv, FileType, JobType

\* One step of a writer.
LEMMA WriterType ==
  ASSUME TypeInv, NEW w \in Writers, WriterStep(w)
  PROVE  /\ file' \in [Files -> FileType] /\ job' \in [Writers -> JobType]
         /\ job[w] # Rest
         /\ job'[w] = Rest \/ (job'[w].at \in {"open", "write"} /\ job'[w].pair \in Pairs)
         /\ \A v \in Writers \ {w} : job'[v] = job[v]
         /\ UNCHANGED <<saved, process, disturbed, found>>
<1>1. /\ file \in [Files -> FileType] /\ job \in [Writers -> JobType] /\ job[w] \in JobType
      /\ job[w].file \in Files
      /\ job[w].at # "rest" => job[w] # Rest /\ job[w].pair \in Pairs
  BY JobParts
<1>2. CASE OpenFile(w)
  <2>1. /\ file' = [file EXCEPT ![job[w].file] = Cut]
        /\ job' = [job EXCEPT ![w] = [job[w] EXCEPT !.at = "write"]]
        /\ job[w].at = "open"
        /\ UNCHANGED <<saved, process, disturbed, found>>
    BY <1>2 DEF OpenFile
  <2>2. /\ [job[w] EXCEPT !.at = "write"] \in JobType
        /\ [job[w] EXCEPT !.at = "write"].at = "write"
        /\ [job[w] EXCEPT !.at = "write"].pair = job[w].pair
    BY <1>1 DEF JobType
  <2>3. file' \in [Files -> FileType]
    BY <1>1, <2>1 DEF FileType
  <2>4. QED
    BY <1>1, <2>1, <2>2, <2>3
<1>3. CASE WriteFile(w)
  <2>1. PICK bytes \in {job[w].pair} \cup (IF file[job[w].file] = Cut THEN {} ELSE {Cut}) :
          file' = [file EXCEPT ![job[w].file] = bytes]
    BY <1>3 DEF WriteFile
  <2>2. /\ job' = [job EXCEPT ![w] = AfterFile(w)] /\ job[w].at = "write"
        /\ UNCHANGED <<saved, process, disturbed, found>>
    BY <1>3 DEF WriteFile
  <2>3. AfterFile(w) = Rest \/ AfterFile(w) = [job[w] EXCEPT !.at = "open", !.file = "key"]
    BY DEF AfterFile
  <2>4. /\ [job[w] EXCEPT !.at = "open", !.file = "key"] \in JobType
        /\ [job[w] EXCEPT !.at = "open", !.file = "key"].at = "open"
        /\ [job[w] EXCEPT !.at = "open", !.file = "key"].pair = job[w].pair
    BY <1>1 DEF JobType, Files
  <2>5. file' \in [Files -> FileType]
    BY <1>1, <2>1, <2>2 DEF FileType
  <2>6. QED
    BY <1>1, <2>2, <2>3, <2>4, <2>5, RestType
<1>4. QED
  BY <1>2, <1>3 DEF WriterStep

LEMMA GenerateType ==
  ASSUME TypeInv, NEW w \in Writers, Generate(w)
  PROVE  /\ job' \in [Writers -> JobType] /\ job[w] = Rest
         /\ job'[w].at = "open" /\ job'[w].file = "cert" /\ job'[w].pair \in Pairs
         /\ \A v \in Writers \ {w} : job'[v] = job[v]
         /\ disturbed' \in BOOLEAN /\ disturbed' = ~AllRest
<1>1. PICK p \in Pairs \ InUse : job' = [job EXCEPT ![w] = [at |-> "open", file |-> "cert", pair |-> p]]
  BY DEF Generate
<1>2. [at |-> "open", file |-> "cert", pair |-> p] \in JobType
  BY DEF JobType, Files
<1>3. job[w] = Rest /\ disturbed' = ~AllRest /\ (~AllRest) \in BOOLEAN
  BY DEF Generate
<1>4. QED
  BY <1>1, <1>2, <1>3, JobParts

\* main has its certificate made, or goes on as it is.
LEMMA EnsureType ==
  ASSUME TypeInv, NEW from, NEW wanted, NEW to \in {"tls load", "panel load"},
         from \in {"tls", "panel tls"}, Ensure(from, wanted, to)
  PROVE  TypeInv'
<1>1. /\ phase = from /\ phase' = to
      /\ UNCHANGED <<saved, used, public, served, visitor, file, found>>
      /\ (wanted /\ ~FilesExist /\ Generate(Boot)) \/ UNCHANGED <<job, disturbed>>
  BY DEF Ensure
<1>2. Boot \in Writers /\ Boot \notin Handlers
  BY LifecycleAssumption DEF Writers
<1>3. CASE UNCHANGED <<job, disturbed>>
  BY <1>1, <1>3 DEF TypeInv, TypeOK, WriterInv
<1>4. CASE Generate(Boot)
  <2>1. /\ job' \in [Writers -> JobType] /\ disturbed' \in BOOLEAN
        /\ job'[Boot].at = "open" /\ job'[Boot].pair \in Pairs
        /\ \A v \in Writers \ {Boot} : job'[v] = job[v]
    BY <1>2, <1>4, GenerateType
  <2>2. WriterInv'
    BY <1>1, <2>1 DEF TypeInv, WriterInv
  <2>3. \A h \in Handlers : job'[h] = Rest
    BY <1>1, <1>2, <2>1 DEF TypeInv, TypeOK, Writers
  <2>4. QED
    BY <1>1, <2>1, <2>2, <2>3 DEF TypeInv, TypeOK, JobType
<1>5. QED
  BY <1>1, <1>3, <1>4

LEMMA LoadType ==
  ASSUME TypeInv, NEW from, NEW s \in Services, NEW wanted, NEW to \in {"panel tls", "spawn"},
         from \in {"tls load", "panel load"}, Load(from, s, wanted, to)
  PROVE  TypeInv'
<1>1. Loaded \in Pairs \cup {None}
  BY DEF Loaded
<1>2. /\ phase = from /\ phase' = to /\ job[Boot] = Rest
      /\ served' = [served EXCEPT ![s] = IF wanted THEN Loaded ELSE None]
      /\ UNCHANGED <<saved, used, public, visitor, certs, found>>
  BY DEF Load
<1>3. (IF wanted THEN Loaded ELSE None) \in Pairs \cup {None}
  BY <1>1
<1>4. served' \in [Services -> Pairs \cup {None}]
  BY <1>2, <1>3 DEF TypeInv, TypeOK
<1>5. QED
  BY <1>2, <1>4 DEF TypeInv, TypeOK, WriterInv, certs

LEMMA EndsType == ASSUME TypeInv, Ends PROVE TypeInv'
<1>1. /\ used' = None /\ phase' = "down" /\ public' = "off" /\ served' = NotServed /\ visitor' = None
      /\ job' = [w \in Writers |-> Rest]
      /\ disturbed' \in BOOLEAN /\ found' = None
      /\ UNCHANGED <<saved, file>>
  BY DEF Ends, TypeInv, TypeOK
<1>2. served' \in [Services -> Pairs \cup {None}]
  BY <1>1 DEF NotServed
<1>3. Boot \in Writers
  BY DEF Writers
<1>4. \A w \in Writers : job'[w] = Rest
  BY <1>1
<1>5. job' \in [Writers -> JobType]
  BY <1>1, RestType
<1>6. QED
  BY <1>1, <1>2, <1>3, <1>4, <1>5, RestType DEF TypeInv, TypeOK, WriterInv, JobType, Writers

LEMMA InitTypeInv == Init => TypeInv
<1> SUFFICES ASSUME Init PROVE TypeInv
  OBVIOUS
<1>1. /\ Boot \in Writers /\ Handlers \subseteq Writers
  BY DEF Writers
<1>2. \A w \in Writers : job[w] = Rest
  BY DEF Init
<1>3. job \in [Writers -> JobType]
  BY RestType DEF Init
<1>4. QED
  BY <1>1, <1>2, <1>3 DEF Init, TypeInv, TypeOK, WriterInv, JobType, NotServed

LEMMA StepTypeInv == TypeInv /\ [Next]_vars => TypeInv'
<1> SUFFICES ASSUME TypeInv, [Next]_vars PROVE TypeInv'
  OBVIOUS
<1>0. Boot \in Writers /\ Boot \notin Handlers /\ Handlers \subseteq Writers /\ None \notin Setups
  BY LifecycleAssumption DEF Writers
<1>1. CASE UNCHANGED vars
  BY <1>1 DEF TypeInv, TypeOK, WriterInv, vars, process, certs
<1>2. CASE Start
  BY <1>0, <1>2 DEF Start, TypeInv, TypeOK, WriterInv, certs
<1>3. CASE EnsureMessage \/ EnsurePanel
  BY <1>3, EnsureType DEF EnsureMessage, EnsurePanel
<1>4. CASE LoadMessage \/ LoadPanel
  BY <1>4, LoadType DEF LoadMessage, LoadPanel, Services
<1>5. CASE Spawn \/ BindPublic
  <2>1. /\ public' \in {"off", "pending", "bound", "failed"}
        /\ phase' = phase \/ (phase = "spawn" /\ phase' = "bind")
        /\ UNCHANGED <<saved, used, served, visitor, certs, found>>
    BY <1>5 DEF Spawn, BindPublic
  <2>2. QED
    BY <2>1 DEF TypeInv, TypeOK, WriterInv, certs
<1>6. CASE Ends
  BY <1>6, EndsType
<1>7. CASE phase = "bind" /\ phase' = "up" /\ UNCHANGED <<saved, used, public, served, visitor, certs, found>>
  BY <1>7 DEF TypeInv, TypeOK, WriterInv, certs
<1>8. CASE BindPanel \/ Crash
  BY <1>6, <1>7, <1>8 DEF BindPanel, Crash
<1>9. ASSUME NEW w \in Writers, WriterStep(w) PROVE TypeInv'
  <2>1. /\ file' \in [Files -> FileType] /\ job' \in [Writers -> JobType]
        /\ job[w] # Rest
        /\ job'[w] = Rest \/ (job'[w].at \in {"open", "write"} /\ job'[w].pair \in Pairs)
        /\ \A v \in Writers \ {w} : job'[v] = job[v]
        /\ UNCHANGED <<saved, used, phase, public, served, visitor, disturbed, found>>
    BY <1>9, WriterType DEF process
  <2>2. WriterInv'
    BY <1>0, <2>1 DEF TypeInv, WriterInv
  <2>3. phase # "up" => \A h \in Handlers : job'[h] = Rest
    BY <1>0, <2>1 DEF TypeInv, TypeOK
  <2>4. QED
    BY <2>1, <2>2, <2>3 DEF TypeInv, TypeOK, FileType, JobType
<1>10. ASSUME NEW w \in Writers, GenerateFails(w) PROVE TypeInv'
  <2>1. /\ job' = [job EXCEPT ![w] = Rest] /\ disturbed' = TRUE /\ found' = None
        /\ UNCHANGED <<saved, used, phase, public, served, visitor, file>>
    BY <1>10 DEF GenerateFails, process
  <2>2. /\ job' \in [Writers -> JobType] /\ job'[w] = Rest
        /\ \A v \in Writers \ {w} : job'[v] = job[v]
    BY <1>10, <2>1, JobParts, RestType
  <2>3. WriterInv'
    BY <1>0, <2>1, <2>2 DEF TypeInv, WriterInv
  <2>4. phase # "up" => \A h \in Handlers : job'[h] = Rest
    BY <1>0, <2>1, <2>2 DEF TypeInv, TypeOK
  <2>5. QED
    BY <2>1, <2>2, <2>3, <2>4 DEF TypeInv, TypeOK, JobType
<1>11. ASSUME NEW ip \in Hosts, Connect(ip) PROVE TypeInv'
  BY <1>11 DEF Connect, TypeInv, TypeOK, WriterInv, certs
<1>12. CASE saved' \in Setups /\ UNCHANGED <<process, certs, found>>
  BY <1>12 DEF TypeInv, TypeOK, WriterInv, process, certs
<1>13. CASE EditByHand \/ \E fields \in Edits : Save(fields)
  BY <1>12, <1>13 DEF EditByHand, Save
<1>14. ASSUME NEW h \in Handlers, CertGenerate(h) PROVE TypeInv'
  <2>1. /\ phase = "up" /\ Generate(h) /\ found' = None
        /\ UNCHANGED <<saved, used, phase, public, served, visitor, file>>
    BY <1>14 DEF CertGenerate, Reached, process
  <2>2. /\ job' \in [Writers -> JobType] /\ disturbed' \in BOOLEAN
        /\ job'[h].at = "open" /\ job'[h].pair \in Pairs
        /\ \A v \in Writers \ {h} : job'[v] = job[v]
    BY <1>0, <2>1, GenerateType
  <2>3. WriterInv'
    BY <1>0, <2>1, <2>2 DEF TypeInv, WriterInv
  <2>4. QED
    BY <2>1, <2>2, <2>3 DEF TypeInv, TypeOK, JobType
<1>15. ASSUME NEW with \in {"both", "cert", "none"}, PlaceFiles(with) PROVE TypeInv'
  <2>1. PICK p \in Pairs :
          file' = CASE with = "both" -> [f \in Files |-> p]
                    [] with = "cert" -> [file EXCEPT !["cert"] = p]
                    [] with = "none" -> [f \in Files |-> Missing]
    BY <1>15 DEF PlaceFiles
  <2>2. file' \in [Files -> FileType]
    BY <2>1 DEF FileType, TypeInv, TypeOK
  <2>3. disturbed' \in BOOLEAN /\ UNCHANGED <<saved, used, phase, public, served, visitor, job, found>>
    BY <1>15 DEF PlaceFiles, process
  <2>4. QED
    BY <2>2, <2>3 DEF TypeInv, TypeOK, WriterInv, FileType
<1>16. QED
  BY <1>1, <1>2, <1>3, <1>4, <1>5, <1>8, <1>9, <1>10, <1>11, <1>13, <1>14, <1>15, <1>0 DEF Next, BootStep

\* Settings, services and files keep their ranges; a certificate is generated in the
\* start or for a request, never in between.
THEOREM TypeCorrect == Spec => []TypeOK
<1>1. TypeInv => TypeOK
  BY DEF TypeInv
<1>2. QED
  BY <1>1, InitTypeInv, StepTypeInv, PTL DEF Spec

----------------------------------------------------------------------------
(* The two files *)

\* How far one writer alone has come with the pair.
Progress(w) ==
  /\ job[w].at = "write" /\ job[w].file = "cert" => file["cert"] = Cut
  /\ job[w].file = "key" => file["cert"] = job[w].pair
  /\ job[w].at = "write" /\ job[w].file = "key" => file["key"] = Cut

\* Unless the last generations were disturbed there is one writer at most, and the files
\* are what it has made of them.
FilesInv ==
  ~disturbed =>
    /\ \A w, v \in Writers : job[w] # Rest /\ job[v] # Rest => w = v
    /\ \A w \in Writers : job[w] # Rest => Progress(w)
    /\ AllRest => file["cert"] = file["key"] /\ file["cert"] # Cut

\* A writer's step takes it from one stage to the next.
LEMMA ProgressStep ==
  ASSUME TypeInv, NEW w \in Writers, WriterStep(w), Progress(w)
  PROVE  /\ job'[w] # Rest => Progress(w)'
         /\ job'[w] = Rest => file'["cert"] = file'["key"] /\ file'["cert"] \in Pairs
<1>1. /\ file \in [Files -> FileType] /\ job \in [Writers -> JobType] /\ job[w] \in JobType
      /\ job[w].file \in Files
      /\ job[w].at # "rest" => job[w] # Rest /\ job[w].pair \in Pairs
  BY JobParts
<1>2. /\ "cert" \in Files /\ "key" \in Files /\ Files = {"cert", "key"} /\ Cut \notin Pairs
  BY LifecycleAssumption DEF Files
<1>3. CASE OpenFile(w)
  <2>1. /\ file' = [file EXCEPT ![job[w].file] = Cut]
        /\ job' = [job EXCEPT ![w] = [job[w] EXCEPT !.at = "write"]]
        /\ job[w].at = "open"
    BY <1>3 DEF OpenFile
  <2>2. /\ job'[w].at = "write" /\ job'[w].file = job[w].file /\ job'[w].pair = job[w].pair
        /\ job'[w] # Rest
    BY <1>1, <2>1, RestType DEF JobType
  <2>3. CASE job[w].file = "cert"
    BY <1>1, <1>2, <2>1, <2>2, <2>3 DEF Progress
  <2>4. CASE job[w].file = "key"
    BY <1>1, <1>2, <2>1, <2>2, <2>4 DEF Progress
  <2>5. QED
    BY <1>1, <1>2, <2>3, <2>4
<1>4. CASE WriteFile(w)
  <2>1. /\ job[w].at = "write" /\ file[job[w].file] = Cut
        /\ job' = [job EXCEPT ![w] = AfterFile(w)]
    BY <1>1, <1>2, <1>4 DEF WriteFile, Progress
  <2>2. file' = [file EXCEPT ![job[w].file] = job[w].pair] /\ job[w].pair \in Pairs
    BY <1>1, <1>4, <2>1 DEF WriteFile
  <2>3. CASE job[w].file = "cert"
    <3>1. job'[w] = [job[w] EXCEPT !.at = "open", !.file = "key"]
      BY <1>1, <2>1, <2>3 DEF AfterFile
    <3>2. job'[w].at = "open" /\ job'[w].file = "key" /\ job'[w].pair = job[w].pair /\ job'[w] # Rest
      BY <1>1, <3>1, RestType DEF JobType
    <3>3. file'["cert"] = job[w].pair
      BY <1>1, <1>2, <2>2, <2>3
    <3>4. QED
      BY <3>2, <3>3 DEF Progress
  <2>4. CASE job[w].file = "key"
    <3>1. job'[w] = Rest
      BY <1>1, <2>1, <2>4 DEF AfterFile
    <3>2. file'["cert"] = job[w].pair /\ file'["key"] = job[w].pair
      BY <1>1, <1>2, <2>2, <2>4 DEF Progress
    <3>3. QED
      BY <2>2, <3>1, <3>2
  <2>5. QED
    BY <1>1, <1>2, <2>3, <2>4
<1>5. QED
  BY <1>3, <1>4 DEF WriterStep

LEMMA GenerateFiles ==
  ASSUME TypeInv, NEW w \in Writers, Generate(w), file' = file PROVE FilesInv'
<1>1. /\ job[w] = Rest /\ disturbed' = ~AllRest
      /\ job'[w].at = "open" /\ job'[w].file = "cert"
      /\ \A v \in Writers \ {w} : job'[v] = job[v]
  BY GenerateType
<1>2. job'[w] # Rest
  BY <1>1, RestType
<1>3. ASSUME AllRest PROVE \A v \in Writers : job'[v] # Rest => v = w
  BY <1>1, <1>3 DEF AllRest
<1>4. Progress(w)'
  BY <1>1 DEF Progress
<1>5. ~AllRest'
  BY <1>2 DEF AllRest
<1>6. QED
  BY <1>1, <1>3, <1>4, <1>5 DEF FilesInv

LEMMA StepFiles == TypeInv /\ FilesInv /\ [Next]_vars => FilesInv'
<1> SUFFICES ASSUME TypeInv, FilesInv, [Next]_vars PROVE FilesInv'
  OBVIOUS
<1>0. Boot \in Writers /\ Handlers \subseteq Writers
  BY DEF Writers
<1>1. CASE UNCHANGED certs
  BY <1>1 DEF FilesInv, Progress, AllRest, certs
<1>2. CASE Start \/ LoadMessage \/ LoadPanel \/ Spawn \/ BindPublic \/ EditByHand \/ UNCHANGED vars
  BY <1>1, <1>2 DEF Start, LoadMessage, LoadPanel, Load, Spawn, BindPublic, EditByHand, vars
<1>3. CASE EnsureMessage \/ EnsurePanel
  BY <1>0, <1>1, <1>3, GenerateFiles DEF EnsureMessage, EnsurePanel, Ensure, certs
<1>4. CASE Ends
  <2>1. /\ \A w \in Writers : job'[w] = Rest
        /\ file' = file /\ disturbed' = (disturbed \/ ~AllRest)
    BY <1>4 DEF Ends
  <2>2. QED
    BY <2>1 DEF FilesInv, AllRest
<1>5. CASE BindPanel \/ Crash
  BY <1>1, <1>4, <1>5 DEF BindPanel, Crash
<1>6. ASSUME NEW w \in Writers, WriterStep(w) PROVE FilesInv'
  <2>1. /\ job[w] # Rest /\ disturbed' = disturbed
        /\ \A v \in Writers \ {w} : job'[v] = job[v]
    BY <1>6, WriterType
  <2>2. SUFFICES ASSUME ~disturbed PROVE FilesInv'
    BY <2>1 DEF FilesInv
  <2>3. /\ \A v \in Writers \ {w} : job'[v] = Rest
        /\ Progress(w)
    BY <2>1, <2>2 DEF FilesInv
  <2>4. /\ job'[w] # Rest => Progress(w)'
        /\ job'[w] = Rest => file'["cert"] = file'["key"] /\ file'["cert"] \in Pairs
    BY <1>6, <2>3, ProgressStep
  <2>5. Cut \notin Pairs
    BY LifecycleAssumption
  <2>6. \A v \in Writers : job'[v] # Rest => v = w
    BY <2>3
  <2>7. AllRest' => job'[w] = Rest
    BY DEF AllRest
  <2>8. QED
    BY <2>4, <2>5, <2>6, <2>7 DEF FilesInv
<1>7. ASSUME NEW w \in Writers, GenerateFails(w) PROVE FilesInv'
  BY <1>7 DEF GenerateFails, FilesInv
<1>8. ASSUME NEW h \in Handlers, CertGenerate(h) PROVE FilesInv'
  BY <1>0, <1>8, GenerateFiles DEF CertGenerate
<1>9. ASSUME NEW with \in {"both", "cert", "none"}, PlaceFiles(with) PROVE FilesInv'
  <2>1. PICK p \in Pairs :
          file' = CASE with = "both" -> [f \in Files |-> p]
                    [] with = "cert" -> [file EXCEPT !["cert"] = p]
                    [] with = "none" -> [f \in Files |-> Missing]
    BY <1>9 DEF PlaceFiles
  <2>2. phase = "down" /\ job' = job /\ disturbed' = (with = "cert")
    BY <1>9 DEF PlaceFiles
  <2>3. \A w \in Writers : job'[w] = Rest
    BY <2>2 DEF TypeInv, TypeOK, WriterInv, Writers
  <2>4. with # "cert" => file'["cert"] = file'["key"] /\ file'["cert"] # Cut
    BY <2>1, LifecycleAssumption DEF Files
  <2>5. QED
    BY <2>2, <2>3, <2>4 DEF FilesInv
<1>10. CASE BootStep
  BY <1>0, <1>2, <1>3, <1>5, <1>6, <1>10 DEF BootStep
<1>11. ASSUME NEW ip \in Hosts, Connect(ip) PROVE FilesInv'
  BY <1>1, <1>11 DEF Connect
<1>12. ASSUME NEW fields \in Edits, Save(fields) PROVE FilesInv'
  BY <1>1, <1>12 DEF Save
<1>13. QED
  BY <1>2, <1>5, <1>6, <1>7, <1>8, <1>9, <1>10, <1>11, <1>12 DEF Next

\* generate_self_signed (certs.rs:26-62) writes one file after the other: while no two
\* ran at once and none was cut off, the files left on the disk belong together.
THEOREM FilesMatch == Spec => []PairMatches
<1>1. Init => FilesInv
  <2> SUFFICES ASSUME Init PROVE FilesInv
    OBVIOUS
  <2>1. \A w \in Writers : job[w] = Rest
    BY DEF Init
  <2>2. file["cert"] = Missing /\ file["key"] = Missing /\ Missing # Cut
    BY LifecycleAssumption DEF Init, Files
  <2>3. QED
    BY <2>1, <2>2 DEF FilesInv
<1>2. FilesInv => PairMatches
  BY DEF FilesInv, PairMatches
<1>3. QED
  BY <1>1, <1>2, InitTypeInv, StepTypeInv, StepFiles, PTL DEF Spec

----------------------------------------------------------------------------
(* A start, and the files it found *)

Complete == \A f \in Files : found[f] # Missing
NoneServed == \A s \in Services : served[s] = None
Late == {"spawn", "bind", "up"}

\* Both files were there and are left alone.
Kept ==
  /\ Complete /\ file = found /\ job[Boot] = Rest
  /\ \A s \in Services : served[s] \in {None, Loaded}

\* One was missing, and no setting so far asked for a pair.
NotYet ==
  /\ ~Complete /\ file = found /\ job[Boot] = Rest
  /\ NoneServed
  /\ phase = "tls" \/ used.tls # "self"
  /\ phase \in Late \cup {"panel load"} => used.panel_tls # "tls"

\* main has a pair made.
Making ==
  /\ ~Complete /\ job[Boot] # Rest /\ Progress(Boot)
  /\ NoneServed
  /\ phase = "tls load" \/ (phase = "panel load" /\ used.tls # "self")

\* It was made, and the services load it.
Made ==
  /\ ~Complete /\ job[Boot] = Rest /\ Loaded # None
  /\ phase # "tls"
  /\ \A s \in Services : served[s] \in {None, Loaded}
  /\ phase # "tls load" /\ used.tls = "self" => served["message"] = Loaded
  /\ phase \in Late /\ used.panel_tls = "tls" => served["panel"] = Loaded

FoundInv ==
  /\ phase = "down" => NoneServed
  /\ found # None =>
       /\ phase # "down"
       /\ \A h \in Handlers : job[h] = Rest
       /\ Kept \/ NotYet \/ Making \/ Made

LEMMA LoadedPair ==
  /\ Loaded # None => FilesExist /\ Loaded = file["cert"]
  /\ file["cert"] = file["key"] /\ file["cert"] \in Pairs => Loaded # None
BY LifecycleAssumption DEF Loaded, FilesExist, Files

LEMMA LoadedNone == ASSUME NEW f \in Files, file[f] = Missing PROVE Loaded = None /\ ~FilesExist
BY LifecycleAssumption DEF Loaded, FilesExist, Files

\* What FoundInv reads, unchanged.
LEMMA FoundSame ==
  ASSUME FoundInv, UNCHANGED <<used, phase, served, file, job, found>> PROVE FoundInv'
BY DEF FoundInv, Kept, NotYet, Making, Made, Complete, NoneServed, Progress, Loaded

LEMMA FoundForgotten ==
  ASSUME found' = None, phase' = "down" => NoneServed' PROVE FoundInv'
BY DEF FoundInv

LEMMA EnsureFound ==
  ASSUME TypeInv, FoundInv, EnsureMessage \/ EnsurePanel PROVE FoundInv'
<1> DEFINE wanted == IF phase = "tls" THEN used.tls = "self" ELSE used.panel_tls = "tls"
<1>1. /\ \/ phase = "tls" /\ phase' = "tls load"
         \/ phase = "panel tls" /\ phase' = "panel load"
      /\ UNCHANGED <<used, served, file, found>>
      /\ IF wanted /\ ~FilesExist THEN Generate(Boot) ELSE UNCHANGED <<job, disturbed>>
  BY DEF EnsureMessage, EnsurePanel, Ensure
<1>2. Boot \in Writers /\ Boot \notin Handlers /\ Handlers \subseteq Writers
  BY LifecycleAssumption DEF Writers
<1>3. SUFFICES ASSUME found # None PROVE FoundInv'
  BY <1>1 DEF FoundInv
<1>4. (\A h \in Handlers : job[h] = Rest) /\ (Kept \/ NotYet \/ Making \/ Made)
  BY <1>3 DEF FoundInv
<1>5. Loaded' = Loaded /\ Complete' = Complete /\ (NoneServed => NoneServed')
  BY <1>1 DEF Loaded, Complete, NoneServed
<1>6. ~Making
  BY <1>1 DEF Making
<1>7. CASE FilesExist
  <2>1. job' = job
    BY <1>1, <1>7
  <2>2. \A h \in Handlers : job'[h] = Rest
    BY <1>4, <2>1
  <2>3. Kept => Kept'
    BY <1>1, <1>5, <2>1 DEF Kept
  <2>4. ~NotYet
    BY <1>7 DEF NotYet, Complete, FilesExist
  <2>5. Made => Made'
    BY <1>1, <1>5, <2>1 DEF Made, Late
  <2>6. QED
    BY <1>1, <1>4, <1>6, <2>2, <2>3, <2>4, <2>5 DEF FoundInv
<1>8. CASE ~FilesExist
  <2>1. NotYet
    BY <1>4, <1>6, <1>8, LoadedPair DEF Kept, Complete, FilesExist, Made
  <2>2. CASE wanted
    <3>1. Generate(Boot)
      BY <1>1, <1>8, <2>2
    <3>2. /\ job'[Boot].at = "open" /\ job'[Boot].file = "cert"
          /\ \A v \in Writers \ {Boot} : job'[v] = job[v]
      BY <1>2, <3>1, GenerateType
    <3>3. job'[Boot] # Rest /\ Progress(Boot)' /\ \A h \in Handlers : job'[h] = Rest
      BY <1>2, <1>4, <3>2, RestType DEF Progress
    <3>4. Making'
      BY <1>1, <1>5, <2>1, <3>3 DEF Making, NotYet
    <3>5. QED
      BY <1>1, <3>3, <3>4 DEF FoundInv
  <2>3. CASE ~wanted
    <3>1. job' = job
      BY <1>1, <2>3
    <3>2. NotYet'
      BY <1>1, <1>5, <2>1, <2>3, <3>1 DEF NotYet, Late
    <3>3. QED
      BY <1>1, <1>4, <3>1, <3>2 DEF FoundInv
  <2>4. QED
    BY <2>2, <2>3
<1>9. QED
  BY <1>7, <1>8

LEMMA LoadFound ==
  ASSUME TypeInv, FoundInv, LoadMessage \/ LoadPanel PROVE FoundInv'
<1>1. /\ \/ /\ phase = "tls load" /\ phase' = "panel tls"
            /\ served' = [served EXCEPT !["message"] = IF used.tls \in {"self", "public"} THEN Loaded ELSE None]
         \/ /\ phase = "panel load" /\ phase' = "spawn"
            /\ served' = [served EXCEPT !["panel"] = IF used.panel_tls = "tls" THEN Loaded ELSE None]
      /\ job[Boot] = Rest
      /\ UNCHANGED <<used, file, job, found>>
  BY DEF LoadMessage, LoadPanel, Load, certs
<1>2. SUFFICES ASSUME found # None PROVE FoundInv'
  BY <1>1 DEF FoundInv
<1>3. (\A h \in Handlers : job[h] = Rest) /\ (Kept \/ NotYet \/ Making \/ Made)
  BY <1>2 DEF FoundInv
<1>4. Loaded' = Loaded /\ Complete' = Complete
  BY <1>1 DEF Loaded, Complete
<1>5. served \in [Services -> Pairs \cup {None}] /\ Services = {"message", "panel"}
  BY DEF TypeInv, TypeOK, Services
<1>6. (\A s \in Services : served[s] \in {None, Loaded}) => (\A s \in Services : served'[s] \in {None, Loaded})
  BY <1>1, <1>5
<1>7. Kept => Kept'
  BY <1>1, <1>4, <1>6 DEF Kept
<1>8. NotYet => NotYet'
  <2>1. SUFFICES ASSUME NotYet PROVE NotYet'
    OBVIOUS
  <2>2. PICK f \in Files : file[f] = Missing
    BY <2>1 DEF NotYet, Complete
  <2>3. Loaded = None
    BY <2>2, LoadedNone
  <2>4. NoneServed'
    BY <1>1, <1>5, <2>1, <2>3 DEF NotYet, NoneServed
  <2>5. QED
    BY <1>1, <1>4, <2>1, <2>4 DEF NotYet, Late
<1>9. ~Making
  BY <1>1 DEF Making
<1>10. Made => Made'
  <2>1. SUFFICES ASSUME Made PROVE Made'
    OBVIOUS
  <2>2. phase = "tls load" /\ used.tls = "self" => served'["message"] = Loaded
    BY <1>1, <1>5
  <2>3. phase = "panel load" => served'["message"] = served["message"]
    BY <1>1, <1>5
  <2>4. phase = "panel load" /\ used.panel_tls = "tls" => served'["panel"] = Loaded
    BY <1>1, <1>5
  <2>5. QED
    BY <1>1, <1>4, <1>6, <2>1, <2>2, <2>3, <2>4 DEF Made, Late
<1>11. QED
  BY <1>1, <1>3, <1>7, <1>8, <1>9, <1>10 DEF FoundInv

LEMMA StartFound == ASSUME TypeInv, FoundInv, Start PROVE FoundInv'
<1>1. /\ phase = "down" /\ phase' = "tls" /\ found' = file
      /\ UNCHANGED <<served, file, job>>
  BY DEF Start, certs
<1>2. /\ \A h \in Handlers : job[h] = Rest
      /\ job[Boot] = Rest
  BY <1>1 DEF TypeInv, TypeOK, WriterInv, Writers
<1>3. NoneServed'
  BY <1>1 DEF FoundInv, NoneServed
<1>4. Complete' => Kept'
  BY <1>1, <1>2, <1>3 DEF Kept, NoneServed
<1>5. ~Complete' => NotYet'
  BY <1>1, <1>2, <1>3 DEF NotYet, Late
<1>6. QED
  BY <1>1, <1>2, <1>4, <1>5 DEF FoundInv

LEMMA WriterFound ==
  ASSUME TypeInv, FoundInv, NEW w \in Writers, WriterStep(w) PROVE FoundInv'
<1>1. /\ job[w] # Rest
      /\ \A v \in Writers \ {w} : job'[v] = job[v]
      /\ UNCHANGED <<used, phase, served, found>>
  BY WriterType DEF process
<1>2. NoneServed => NoneServed'
  BY <1>1 DEF NoneServed
<1>3. SUFFICES ASSUME found # None PROVE FoundInv'
  BY <1>1, <1>2 DEF FoundInv
<1>4. w = Boot /\ Making
  BY <1>1, <1>3 DEF FoundInv, Writers, Kept, NotYet, Made
<1>5. /\ job'[Boot] # Rest => Progress(Boot)'
      /\ job'[Boot] = Rest => file'["cert"] = file'["key"] /\ file'["cert"] \in Pairs
  BY <1>4, ProgressStep DEF Making
<1>6. Complete' = Complete
  BY <1>1 DEF Complete
<1>7. \A h \in Handlers : job'[h] = Rest
  BY <1>1, <1>3, <1>4, LifecycleAssumption DEF FoundInv, Writers
<1>8. CASE job'[Boot] # Rest
  <2>1. Making'
    BY <1>1, <1>2, <1>4, <1>5, <1>6, <1>8 DEF Making
  <2>2. QED
    BY <1>1, <1>3, <1>7, <2>1 DEF FoundInv
<1>9. CASE job'[Boot] = Rest
  <2>1. Loaded' # None
    BY <1>5, <1>9, LifecycleAssumption DEF Loaded
  <2>2. Made'
    BY <1>1, <1>2, <1>4, <1>6, <1>9, <2>1 DEF Made, Making, NoneServed, Late
  <2>3. QED
    BY <1>1, <1>3, <1>7, <2>2 DEF FoundInv
<1>10. QED
  BY <1>8, <1>9

LEMMA StepFound == TypeInv /\ FoundInv /\ [Next]_vars => FoundInv'
<1> SUFFICES ASSUME TypeInv, FoundInv, [Next]_vars PROVE FoundInv'
  OBVIOUS
<1>1. CASE UNCHANGED vars \/ BindPublic \/ EditByHand
  BY <1>1, FoundSame DEF vars, process, certs, BindPublic, EditByHand
<1>2. CASE Start
  BY <1>2, StartFound
<1>3. CASE EnsureMessage \/ EnsurePanel
  BY <1>3, EnsureFound
<1>4. CASE LoadMessage \/ LoadPanel
  BY <1>4, LoadFound
<1>5. CASE Ends
  <2>1. found' = None /\ NoneServed'
    BY <1>5 DEF Ends, NotServed, NoneServed
  <2>2. QED
    BY <2>1, FoundForgotten
<1>6. CASE /\ \/ phase = "spawn" /\ phase' = "bind"
              \/ phase = "bind" /\ phase' = "up"
           /\ UNCHANGED <<used, served, file, job, found>>
  <2>1. Loaded' = Loaded /\ Complete' = Complete /\ (NoneServed => NoneServed')
    BY <1>6 DEF Loaded, Complete, NoneServed
  <2>2. (Kept => Kept') /\ (NotYet => NotYet') /\ ~Making /\ (Made => Made')
    BY <1>6, <2>1 DEF Kept, NotYet, Making, Made, Late
  <2>3. QED
    BY <1>6, <2>2 DEF FoundInv
<1>7. CASE Spawn \/ BindPanel \/ Crash
  BY <1>5, <1>6, <1>7 DEF Spawn, BindPanel, Crash, certs
<1>8. ASSUME NEW w \in Writers, WriterStep(w) PROVE FoundInv'
  BY <1>8, WriterFound
<1>9. ASSUME NEW w \in Writers, GenerateFails(w) PROVE FoundInv'
  BY <1>9, FoundForgotten DEF GenerateFails, process, FoundInv, NoneServed
<1>10. ASSUME NEW ip \in Hosts, Connect(ip) PROVE FoundInv'
  BY <1>10, FoundSame DEF Connect, certs
<1>11. ASSUME NEW fields \in Edits, Save(fields) PROVE FoundInv'
  BY <1>11, FoundSame DEF Save, process, certs
<1>12. ASSUME NEW h \in Handlers, CertGenerate(h) PROVE FoundInv'
  BY <1>12, FoundForgotten DEF CertGenerate, Reached, process
<1>13. ASSUME NEW with \in {"both", "cert", "none"}, PlaceFiles(with) PROVE FoundInv'
  <2>1. phase = "down" /\ UNCHANGED <<phase, served, found>>
    BY <1>13 DEF PlaceFiles, process
  <2>2. found' = None /\ NoneServed'
    BY <2>1 DEF FoundInv, NoneServed
  <2>3. QED
    BY <2>2, FoundForgotten
<1>14. CASE BootStep
  BY <1>3, <1>4, <1>7, <1>8, <1>14 DEF BootStep, Writers
<1>15. QED
  BY <1>1, <1>2, <1>7, <1>8, <1>9, <1>10, <1>11, <1>12, <1>13, <1>14 DEF Next

LEMMA InitFound == Init => FoundInv
BY DEF Init, FoundInv, NotServed, NoneServed

\* ensure_self_signed (certs.rs:64-70): a start leaves two files alone; if one is missing
\* and a setting asks for them, both are new and served.
THEOREM StartKeepsPair == Spec => []StartLeavesPair
<1>1. FoundInv => StartLeavesPair
  BY DEF FoundInv, StartLeavesPair, Kept, NotYet, Making, Made, Complete, Late
<1>2. QED
  BY <1>1, InitFound, StepFound, InitTypeInv, StepTypeInv, PTL DEF Spec

\* /certs/download (push_api.rs:456) hands out the certificate the services were started with,
\* until the panel generates another or a write fails.
THEOREM DownloadIsServed == Spec => []ServedIsDownloaded
<1>1. FoundInv => ServedIsDownloaded
  BY LoadedPair DEF FoundInv, ServedIsDownloaded, Kept, NotYet, Making, Made, NoneServed
<1>2. QED
  BY <1>1, InitFound, StepFound, InitTypeInv, StepTypeInv, PTL DEF Spec

----------------------------------------------------------------------------
(* The whitelist: numbers, and induction over them *)

\* Numbers below each other, as the pairs that WellFoundedInduction wants.
Less == {ss \in Nat \X Nat : ss[1] < ss[2]}

LEMMA LeastNumber ==
  ASSUME NEW T \in SUBSET Nat, T # {}
  PROVE  \E x \in T : \A y \in T : x <= y
<1>1. IsWellFoundedOn(Less, Nat)
  BY NatLessThanWellFounded DEF OpToRel, Less
<1>2. PICK x \in T : \A y \in T : ~(<<y, x>> \in Less)
  BY <1>1, WFMin
<1>3. \A y \in T : ~(y < x)
  BY <1>2 DEF Less
<1>4. QED
  BY <1>3

\* Induction, for a set of numbers.
LEMMA AllNumbers ==
  ASSUME NEW T \in SUBSET Nat, 0 \in T, \A n \in Nat : n \in T => n + 1 \in T
  PROVE  T = Nat
<1>1. SUFFICES ASSUME Nat \ T # {} PROVE FALSE
  OBVIOUS
<1>2. PICK x \in Nat \ T : \A y \in Nat \ T : x <= y
  BY <1>1, LeastNumber
<1>3. x - 1 \in Nat
  BY <1>2
<1>4. QED
  BY <1>2, <1>3

\* The equations of Power, which its definition by recursion has to be shown to meet.
LEMMA PowerIs ==
  /\ Power \in [0..Width -> Nat \ {0}]
  /\ Power[0] = 1
  /\ \A i \in 0..Width : i + 1 <= Width => Power[i + 1] = 2 * Power[i]
<1> DEFINE P == Nat \ {0}
           Eq(g, m) == \A i \in 0..m : g[i] = IF i = 0 THEN 1 ELSE 2 * g[i - 1]
           T == {m \in Nat : \E g \in [0..m -> P] : Eq(g, m)}
<1>1. 0 \in T
  <2> DEFINE g == [i \in 0..0 |-> 1]
  <2>1. g \in [0..0 -> P] /\ Eq(g, 0)
    OBVIOUS
  <2>2. QED
    BY <2>1
<1>2. ASSUME NEW m \in Nat, m \in T PROVE m + 1 \in T
  <2>1. PICK g \in [0..m -> P] : Eq(g, m)
    <3> HIDE DEF Eq
    <3>1. QED
      BY <1>2
  <2> DEFINE h == [i \in 0..m + 1 |-> IF i = m + 1 THEN 2 * g[m] ELSE g[i]]
  <2>2. g[m] \in P /\ 2 * g[m] \in P
    BY <2>1
  <2>3. h \in [0..m + 1 -> P]
    BY <2>1, <2>2
  <2>4. ASSUME NEW i \in 0..m + 1 PROVE h[i] = IF i = 0 THEN 1 ELSE 2 * h[i - 1]
    <3>1. CASE i = m + 1
      <4>1. i - 1 = m /\ i # 0 /\ h[i - 1] = g[m]
        BY <3>1
      <4>2. QED
        BY <3>1, <4>1
    <3>2. CASE i \in 0..m
      <4>1. h[i] = g[i] /\ (i # 0 => h[i - 1] = g[i - 1])
        BY <3>2
      <4>2. QED
        BY <2>1, <3>2, <4>1
    <3>3. QED
      BY <3>1, <3>2
  <2>5. \E k \in [0..m + 1 -> P] : Eq(k, m + 1)
    <3>1. Eq(h, m + 1)
      BY <2>4
    <3> HIDE DEF Eq, h
    <3>2. QED
      BY <2>3, <3>1
  <2>6. QED
    <3> HIDE DEF Eq, P
    <3>1. QED
      BY <2>5
<1>3. T = Nat
  <2> HIDE DEF T
  <2>1. QED
    BY <1>1, <1>2, AllNumbers DEF T
<1>4. PICK g \in [0..Width -> P] : Eq(g, Width)
  <2>1. Width \in T
    BY <1>3, WidthAssumption
  <2>2. QED
    BY <2>1
<1>5. g = [i \in 0..Width |-> IF i = 0 THEN 1 ELSE 2 * g[i - 1]]
  BY <1>4
<1>6. Power = [i \in 0..Width |-> IF i = 0 THEN 1 ELSE 2 * Power[i - 1]]
  BY <1>5 DEF Power
<1>7. \A i \in 0..Width : Power[i] = IF i = 0 THEN 1 ELSE 2 * Power[i - 1]
  BY <1>6
<1>8. Power[0] = 1
  BY <1>7, WidthAssumption
<1>9. ASSUME NEW i \in 0..Width, i + 1 <= Width PROVE Power[i + 1] = 2 * Power[i]
  <2>1. i + 1 \in 0..Width /\ i + 1 # 0 /\ i + 1 - 1 = i
    BY <1>9, WidthAssumption
  <2>2. QED
    BY <1>7, <2>1
<1> DEFINE U == {m \in Nat : m <= Width => Power[m] \in P}
<1>10. U = Nat
  <2>1. 0 \in U
    BY <1>8
  <2>2. ASSUME NEW m \in Nat, m \in U PROVE m + 1 \in U
    <3> SUFFICES ASSUME m + 1 <= Width PROVE Power[m + 1] \in P
      OBVIOUS
    <3>1. m \in 0..Width /\ Power[m] \in P
      BY <2>2, WidthAssumption
    <3>2. Power[m + 1] = 2 * Power[m]
      BY <1>9, <3>1
    <3>3. QED
      BY <3>1, <3>2
  <2> HIDE DEF U
  <2>3. QED
    BY <2>1, <2>2, AllNumbers DEF U
<1>11. \A i \in 0..Width : Power[i] \in P
  BY <1>10, WidthAssumption
<1>12. QED
  BY <1>6, <1>8, <1>9, <1>11

\* 2^(i + j), and 2^j below 2^i.
LEMMA PowerSum ==
  ASSUME NEW i \in 0..Width, NEW j \in Nat, i + j <= Width
  PROVE  Power[i + j] = Power[i] * Power[j]
<1> DEFINE T == {m \in Nat : i + m <= Width => Power[i + m] = Power[i] * Power[m]}
<1>1. 0 \in T
  BY PowerIs, WidthAssumption
<1>2. ASSUME NEW m \in Nat, m \in T PROVE m + 1 \in T
  <2> SUFFICES ASSUME i + (m + 1) <= Width PROVE Power[i + (m + 1)] = Power[i] * Power[m + 1]
    OBVIOUS
  <2>1. /\ i + m \in 0..Width /\ (i + m) + 1 <= Width /\ m \in 0..Width /\ m + 1 <= Width
        /\ i + (m + 1) = (i + m) + 1 /\ Power[i + m] = Power[i] * Power[m]
    BY <1>2, WidthAssumption
  <2>2. Power[(i + m) + 1] = 2 * Power[i + m] /\ Power[m + 1] = 2 * Power[m]
    BY <2>1, PowerIs
  <2>3. Power[i] \in Nat /\ Power[m] \in Nat
    BY <2>1, PowerIs
  <2>4. QED
    BY <2>1, <2>2, <2>3
<1> HIDE DEF T
<1>3. QED
  BY <1>1, <1>2, AllNumbers DEF T

\* A quotient is known from a remainder that is small enough.
LEMMA Quotient ==
  ASSUME NEW d \in Nat \ {0}, NEW q \in Nat, NEW r \in Nat, r < d
  PROVE  (d * q + r) \div d = q
OBVIOUS

LEMMA Halved ==
  ASSUME NEW d \in Nat \ {0}, NEW n \in Nat
  PROVE  /\ n \div d \in Nat /\ (n \div d) % 2 \in {0, 1}
         /\ n \div d = 2 * (n \div (2 * d)) + ((n \div d) % 2)
<1>1. PICK q \in Nat, r \in Nat : n = d * q + r /\ r < d /\ n \div d = q
  OBVIOUS
<1>2. PICK b \in Nat, c \in {0, 1} : q = 2 * b + c /\ q % 2 = c
  OBVIOUS
<1>3. d * c + r \in Nat /\ d * c + r < 2 * d
  BY <1>1
<1>4. n = (2 * d) * b + (d * c + r)
  <2>1. d * (2 * b + c) = (2 * d) * b + d * c
    OBVIOUS
  <2>2. d * q = (2 * d) * b + d * c
    BY <1>2, <2>1
  <2>3. QED
    BY <1>1, <2>2
<1>5. ((2 * d) * b + (d * c + r)) \div (2 * d) = b
  <2>1. 2 * d \in Nat \ {0}
    OBVIOUS
  <2>2. QED
    BY <1>3, <2>1, Quotient
<1>6. n \div (2 * d) = b
  BY <1>4, <1>5, Zenon
<1>7. QED
  BY <1>1, <1>2, <1>6, Zenon

----------------------------------------------------------------------------
(* The whitelist: bits *)

\* A number is its bits: its quotients by the powers below Width, from its bits.
LEMMA NextQuotient ==
  ASSUME NEW n \in Nat, NEW i \in 0..Width, i + 1 <= Width
  PROVE  /\ n \div Power[i] \in Nat /\ n \div Power[i + 1] \in Nat
         /\ n \div Power[i] = 2 * (n \div Power[i + 1]) + Bit(n, i)
         /\ Bit(n, i) \in {0, 1}
<1> DEFINE d == Power[i]
<1>1. d \in Nat \ {0} /\ Power[i + 1] = 2 * d /\ 2 * d \in Nat \ {0}
  BY PowerIs
<1>2. /\ n \div d \in Nat /\ (n \div d) % 2 \in {0, 1}
      /\ n \div d = 2 * (n \div (2 * d)) + ((n \div d) % 2)
  <2> HIDE DEF d
  <2>1. QED
    BY <1>1, Halved
<1>3. n \div (2 * d) \in Nat
  <2> HIDE DEF d
  <2>1. QED
    BY <1>1, Halved
<1>4. Bit(n, i) = (n \div d) % 2
  BY DEF Bit
<1> HIDE DEF d
<1>5. n \div Power[i + 1] = n \div (2 * d)
  BY <1>1, Zenon
<1>6. n \div d = 2 * (n \div Power[i + 1]) + Bit(n, i) /\ Bit(n, i) \in {0, 1}
  BY <1>2, <1>4, <1>5, Zenon
<1>7. QED
  BY <1>2, <1>3, <1>5, <1>6, Zenon DEF d

\* Two numbers below 2^Width whose bits from the k-th on are the same differ in nothing
\* but the k bits below, and the other way around.
LEMMA HighBits ==
  ASSUME NEW a \in 0..(Power[Width] - 1), NEW b \in 0..(Power[Width] - 1), NEW k \in 0..Width
  PROVE  (\A i \in k..(Width - 1) : Bit(a, i) = Bit(b, i)) <=> a \div Power[k] = b \div Power[k]
<1> DEFINE Same(j) == a \div Power[j] = b \div Power[j]
           Bits(j) == \A i \in j..(Width - 1) : Bit(a, i) = Bit(b, i)
           T == {m \in Nat : m <= Width => (Bits(Width - m) <=> Same(Width - m))}
<1>0. a \in Nat /\ b \in Nat /\ Power[Width] \in Nat \ {0} /\ Width \in Nat
  BY PowerIs, WidthAssumption
<1>1. 0 \in T
  <2>1. Power[Width] * 0 + a = a /\ Power[Width] * 0 + b = b /\ a < Power[Width] /\ b < Power[Width]
    BY <1>0
  <2>2. (Power[Width] * 0 + a) \div Power[Width] = 0 /\ (Power[Width] * 0 + b) \div Power[Width] = 0
    BY <1>0, <2>1, Quotient
  <2>3. Same(Width)
    BY <2>1, <2>2, Zenon
  <2>4. Bits(Width) /\ Width - 0 = Width
    BY <1>0
  <2> HIDE DEF Bits, Same
  <2>5. QED
    BY <2>3, <2>4
<1>2. ASSUME NEW m \in Nat, m \in T PROVE m + 1 \in T
  <2> SUFFICES ASSUME m + 1 <= Width PROVE Bits(Width - (m + 1)) <=> Same(Width - (m + 1))
    <3> HIDE DEF Bits, Same
    <3>1. QED
      OBVIOUS
  <2> DEFINE j == Width - (m + 1)
  <2>1. j \in 0..Width /\ j + 1 <= Width /\ Width - m = j + 1 /\ j \in j..(Width - 1) /\ m <= Width
    BY <1>0
  <2>2. Bits(j + 1) <=> Same(j + 1)
    <3> HIDE DEF Bits, Same
    <3>1. QED
      BY <1>2, <2>1
  <2>3. Bits(j) <=> Bits(j + 1) /\ Bit(a, j) = Bit(b, j)
    BY <1>0, <2>1
  <2> DEFINE qa == a \div Power[j + 1]
             qb == b \div Power[j + 1]
  <2>4. /\ qa \in Nat /\ a \div Power[j] = 2 * qa + Bit(a, j) /\ Bit(a, j) \in {0, 1}
        /\ qb \in Nat /\ b \div Power[j] = 2 * qb + Bit(b, j) /\ Bit(b, j) \in {0, 1}
    BY <1>0, <2>1, NextQuotient
  <2>5. Same(j) <=> qa = qb /\ Bit(a, j) = Bit(b, j)
    <3>1. ASSUME NEW x \in Nat, NEW y \in Nat, NEW u \in {0, 1}, NEW v \in {0, 1}
          PROVE  2 * x + u = 2 * y + v <=> x = y /\ u = v
      OBVIOUS
    <3> HIDE DEF qa, qb, j
    <3>2. 2 * qa + Bit(a, j) = 2 * qb + Bit(b, j) <=> qa = qb /\ Bit(a, j) = Bit(b, j)
      BY <2>4, <3>1
    <3>3. QED
      BY <2>4, <3>2, Zenon
  <2> HIDE DEF Bits, j
  <2>6. QED
    BY <2>2, <2>3, <2>5 DEF j
<1>3. T = Nat
  <2> HIDE DEF T
  <2>1. QED
    BY <1>1, <1>2, AllNumbers DEF T
<1>4. Width - k \in T /\ Width - k <= Width /\ Width - (Width - k) = k
  <2>1. Width - k \in Nat /\ Width - k <= Width /\ Width - (Width - k) = k
    BY <1>0
  <2> HIDE DEF T
  <2>2. QED
    BY <1>3, <2>1
<1>5. Bits(k) <=> Same(k)
  <2> HIDE DEF Bits, Same
  <2>1. QED
    BY <1>4
<1>6. QED
  BY <1>5

\* The mask of a prefix: 2^Width - 2^k has the bits from the k-th on.
LEMMA MaskBits ==
  ASSUME NEW k \in 0..(Width - 1), NEW i \in 0..(Width - 1)
  PROVE  Bit(Power[Width] - Power[k], i) = IF i >= k THEN 1 ELSE 0
<1>0. /\ Width \in Nat /\ k \in 0..Width /\ i \in 0..Width /\ Width - i \in 1..Width /\ Width - k \in 1..Width
      /\ i + (Width - i) = Width /\ k + (Width - k) = Width
  BY WidthAssumption
<1> DEFINE d == Power[i]
           e == Power[Width - i]
<1>1. d \in Nat \ {0} /\ e \in Nat \ {0} /\ Power[k] \in Nat \ {0} /\ Power[Width] = d * e
  <2>1. Power[i + (Width - i)] = Power[i] * Power[Width - i]
    <3>1. Width - i \in Nat /\ i + (Width - i) <= Width
      BY <1>0
    <3>2. QED
      BY <1>0, <3>1, PowerSum
  <2>2. Width - i \in 0..Width
    BY <1>0
  <2>3. QED
    BY <1>0, <2>1, <2>2, PowerIs
<1>2. PICK c \in Nat : e = 2 * c
  <2>1. Width - i - 1 \in 0..Width /\ (Width - i - 1) + 1 = Width - i /\ (Width - i - 1) + 1 <= Width
    BY <1>0
  <2>2. Power[(Width - i - 1) + 1] = 2 * Power[Width - i - 1] /\ Power[Width - i - 1] \in Nat
    BY <2>1, PowerIs
  <2>3. QED
    BY <2>1, <2>2
<1>3. CASE i >= k
  <2>1. PICK s \in Nat \ {0} : d = Power[k] * s
    <3>1. i - k \in 0..Width /\ k + (i - k) = i
      BY <1>0, <1>3
    <3>2. Power[k + (i - k)] = Power[k] * Power[i - k]
      <4>1. i - k \in Nat /\ k + (i - k) <= Width
        BY <1>0, <3>1
      <4>2. QED
        BY <1>0, <4>1, PowerSum
    <3>3. Power[i - k] \in Nat \ {0}
      BY <3>1, PowerIs
    <3>4. QED
      BY <3>1, <3>2, <3>3
  <2>2. Power[k] <= d
    BY <1>1, <2>1
  <2>3. d * e - Power[k] = d * (e - 1) + (d - Power[k])
    <3>1. ASSUME NEW x \in Nat, NEW y \in Nat, NEW z \in Nat
          PROVE  x * y - z = x * (y - 1) + (x - z)
      OBVIOUS
    <3>2. d \in Nat /\ e \in Nat /\ Power[k] \in Nat
      BY <1>1
    <3> HIDE DEF d, e
    <3>3. QED
      BY <3>1, <3>2
  <2>4. (d * (e - 1) + (d - Power[k])) \div d = e - 1
    <3>1. e - 1 \in Nat /\ d - Power[k] \in Nat /\ d - Power[k] < d
      BY <1>1, <2>2
    <3> HIDE DEF d, e
    <3>2. QED
      BY <1>1, <3>1, Quotient
  <2>5. (e - 1) % 2 = 1
    <3> HIDE DEF e
    <3>1. QED
      BY <1>1, <1>2
  <2>6. QED
    BY <1>1, <1>3, <2>3, <2>4, <2>5, Zenon DEF Bit
<1>4. CASE i < k
  <2>1. PICK s \in Nat : Power[k] = d * (2 * s)
    <3>1. k - i - 1 \in 0..Width /\ (k - i - 1) + 1 <= Width /\ (k - i - 1) + 1 = k - i /\ i + (k - i) = k /\ k - i \in Nat
      BY <1>0, <1>4
    <3>2. Power[i + (k - i)] = Power[i] * Power[k - i]
      BY <1>0, <3>1, PowerSum
    <3>3. Power[(k - i - 1) + 1] = 2 * Power[k - i - 1] /\ Power[k - i - 1] \in Nat
      BY <3>1, PowerIs
    <3>4. QED
      BY <3>1, <3>2, <3>3
  <2>2. Power[k] <= d * e
    <3>1. Power[k + (Width - k)] = Power[k] * Power[Width - k]
      <4>1. Width - k \in Nat /\ k + (Width - k) <= Width
        BY <1>0
      <4>2. QED
        BY <1>0, <4>1, PowerSum
    <3>2. Width - k \in 0..Width
      BY <1>0
    <3>3. Power[Width - k] \in Nat \ {0}
      BY <3>2, PowerIs
    <3>4. QED
      BY <1>0, <1>1, <3>1, <3>3
  <2>3. s <= c
    <3> HIDE DEF d, e
    <3>1. d * (2 * s) <= d * (2 * c)
      BY <1>1, <1>2, <2>1, <2>2
    <3>2. QED
      BY <1>1, <3>1
  <2>4. d * e - Power[k] = d * (2 * (c - s)) + 0
    <3> HIDE DEF d, e
    <3>1. d * (2 * c) - d * (2 * s) = d * (2 * (c - s)) + 0
      BY <1>1
    <3>2. QED
      BY <1>2, <2>1, <3>1, Zenon
  <2>5. (d * (2 * (c - s)) + 0) \div d = 2 * (c - s)
    <3>1. 2 * (c - s) \in Nat
      BY <2>3
    <3> HIDE DEF d, e
    <3>2. QED
      BY <1>1, <3>1, Quotient
  <2>6. (2 * (c - s)) % 2 = 0
    BY <2>3
  <2>7. ~(i >= k)
    BY <1>0, <1>4
  <2>8. QED
    BY <1>1, <2>4, <2>5, <2>6, <2>7, Zenon DEF Bit
<1>5. QED
  BY <1>0, <1>3, <1>4

LEMMA PowerLess == ASSUME NEW k \in 0..(Width - 1) PROVE Power[k] < Power[Width]
<1>1. /\ k \in 0..Width /\ Width - k \in Nat /\ k + (Width - k) <= Width /\ k + (Width - k) = Width
      /\ Width - k - 1 \in 0..Width /\ (Width - k - 1) + 1 <= Width /\ (Width - k - 1) + 1 = Width - k
  BY WidthAssumption
<1>2. Power[k + (Width - k)] = Power[k] * Power[Width - k]
  BY <1>1, PowerSum
<1>3. Power[(Width - k - 1) + 1] = 2 * Power[Width - k - 1] /\ Power[Width - k - 1] \in Nat \ {0}
  BY <1>1, PowerIs
<1>4. Power[k] \in Nat \ {0}
  BY <1>1, PowerIs
<1>5. ASSUME NEW x \in Nat \ {0}, NEW y \in Nat \ {0} PROVE x < x * (2 * y)
  OBVIOUS
<1>6. Power[Width] = Power[k] * (2 * Power[Width - k - 1])
  BY <1>1, <1>2, <1>3, Zenon
<1>7. QED
  BY <1>3, <1>4, <1>5, <1>6

\* The masks of ipv4_match compare the first bits and nothing else, for prefix 0 and for
\* the whole width too.
LEMMA MatchIsPrefix ==
  ASSUME NEW a \in 0..(Power[Width] - 1), NEW b \in 0..(Power[Width] - 1), NEW prefix \in 0..Width
  PROVE  ipv4_match(a, b, prefix) <=> SamePrefix(a, b, prefix)
<1>0. Width \in Nat \ {0} /\ Power[Width] \in Nat \ {0} /\ Power[0] = 1
  BY PowerIs, WidthAssumption
<1> DEFINE k == Width - prefix
           mask == IF prefix = Width THEN Ones ELSE Not(Shifted(k) - 1)
<1>1. k \in 0..Width
  BY <1>0
<1>2. (\A i \in k..(Width - 1) : Bit(a, i) = Bit(b, i)) <=> SamePrefix(a, b, prefix)
  BY <1>1, HighBits DEF SamePrefix
<1>3. CASE prefix = 0
  <2>1. k..(Width - 1) = {}
    BY <1>0, <1>3
  <2>2. QED
    BY <1>2, <1>3, <2>1 DEF ipv4_match
<1>4. CASE prefix # 0
  <2>1. k \in 0..(Width - 1) /\ (prefix = Width => k = 0)
    BY <1>0, <1>4
  <2>2. Power[k] < Power[Width] /\ Power[k] \in Nat \ {0}
    BY <1>1, <2>1, PowerLess, PowerIs
  <2>3. Power[k] % Power[Width] = Power[k]
    BY <1>0, <2>2
  <2>4. mask = Power[Width] - Power[k]
    <3>1. CASE prefix = Width
      BY <1>0, <2>1, <3>1 DEF Ones
    <3>2. CASE prefix # Width
      <4>1. mask = (Power[Width] - 1) - ((Power[k] % Power[Width]) - 1)
        BY <3>2 DEF Not, Ones, Shifted
      <4> HIDE DEF mask, k
      <4>2. mask = (Power[Width] - 1) - (Power[k] - 1)
        BY <2>3, <4>1, Zenon
      <4>3. QED
        BY <1>0, <2>2, <4>2
    <3>3. QED
      BY <3>1, <3>2
  <2>5. \A i \in 0..(Width - 1) : Bit(mask, i) = 1 <=> i \in k..(Width - 1)
    <3>1. \A i \in 0..(Width - 1) : Bit(mask, i) = IF i >= k THEN 1 ELSE 0
      BY <2>1, <2>4, MaskBits, Zenon
    <3> HIDE DEF mask
    <3>2. QED
      BY <1>0, <2>1, <3>1
  <2>6. k..(Width - 1) \subseteq 0..(Width - 1)
    BY <1>0, <2>1
  <2>7. EqualUnder(mask, a, b) <=> \A i \in k..(Width - 1) : Bit(a, i) = Bit(b, i)
    <3> HIDE DEF mask, k
    <3>1. QED
      BY <2>5, <2>6 DEF EqualUnder
  <2>8. ipv4_match(a, b, prefix) <=> EqualUnder(mask, a, b)
    BY <1>4 DEF ipv4_match
  <2>9. QED
    BY <1>2, <2>7, <2>8
<1>5. QED
  BY <1>3, <1>4

----------------------------------------------------------------------------
(* The whitelist: its lines, and who comes in *)

\* One line lets in the address it is, or those that share its prefix.
LEMMA LineIs ==
  ASSUME NEW e, IsEntry(e), NEW ip \in IpV4 \cup Hosts
  PROVE  Matches(e, ip) <=>
           \/ e = Exact(ip)
           \/ \E prefix \in 0..Width, net \in IpV4 :
                e = Cidr(net, prefix) /\ ip.v = 4 /\ SamePrefix(ip.n, net.n, prefix)
<1>1. ip.v = 4 => ip.n \in 0..(Power[Width] - 1)
  BY LifecycleAssumption DEF IpV4
<1>2. \A net \in IpV4 : net.n \in 0..(Power[Width] - 1)
  BY DEF IpV4
<1>3. CASE e \in {Blank, NoAddress}
  BY <1>3 DEF Blank, NoAddress, Exact, Cidr, Matches
<1>4. CASE e = Exact(e.ip)
  BY <1>4 DEF Exact, Cidr, Matches
<1>5. CASE e = Cidr(e.ip, e.prefix) /\ e.ip \in IpV4 /\ e.prefix \in Nat
  <2>1. e.kind = "cidr" /\ e # Exact(ip)
    BY <1>5 DEF Exact, Cidr
  <2>2. e.prefix <= Width <=> e.prefix \in 0..Width
    BY <1>5, WidthAssumption
  <2>3. Matches(e, ip) <=> e.prefix \in 0..Width /\ ip.v = 4 /\ ipv4_match(ip.n, e.ip.n, e.prefix)
    BY <2>1, <2>2 DEF Matches
  <2>4. \A prefix, net : e = Cidr(net, prefix) <=> e.ip = net /\ e.prefix = prefix
    BY <1>5 DEF Cidr
  <2>5. e.prefix \in 0..Width /\ ip.v = 4 => (ipv4_match(ip.n, e.ip.n, e.prefix) <=> SamePrefix(ip.n, e.ip.n, e.prefix))
    BY <1>1, <1>2, <1>5, MatchIsPrefix
  <2>6. QED
    BY <1>5, <2>1, <2>3, <2>4, <2>5
<1>6. QED
  BY <1>3, <1>4, <1>5 DEF IsEntry

LEMMA AllowedIsCovered ==
  ASSUME NEW s \in Setups, NEW ip \in IpV4 \cup Hosts
  PROVE  ip_allowed(s.allowed, ip) <=> Covered(s.allowed, ip)
<1>1. \A i \in DOMAIN s.allowed :
        Matches(s.allowed[i], ip) <=>
          \/ s.allowed[i] = Exact(ip)
          \/ \E prefix \in 0..Width, net \in IpV4 :
               s.allowed[i] = Cidr(net, prefix) /\ ip.v = 4 /\ SamePrefix(ip.n, net.n, prefix)
  BY LineIs, LifecycleAssumption
<1>2. QED
  BY <1>1 DEF ip_allowed, Covered

\* Who has reached the panel is let in by the list as it is now: it changes only while
\* nobody has, because no request writes it.
VisitorInv == visitor # None => phase = "up" /\ ip_allowed(saved.allowed, visitor)

LEMMA VisitorSame ==
  ASSUME VisitorInv, visitor' = visitor, saved'.allowed = saved.allowed,
         phase = "up" => phase' = "up"
  PROVE  VisitorInv'
BY DEF VisitorInv

LEMMA StepVisitor == VisitorInv /\ TypeInv /\ [Next]_vars => VisitorInv'
<1> SUFFICES ASSUME VisitorInv, TypeInv, [Next]_vars PROVE VisitorInv'
  OBVIOUS
<1>1. CASE UNCHANGED <<saved, phase, visitor>>
  BY <1>1, VisitorSame
<1>2. CASE phase # "up" /\ visitor' = visitor
  BY <1>2 DEF VisitorInv
<1>3. CASE Start \/ EnsureMessage \/ LoadMessage \/ EnsurePanel \/ LoadPanel \/ Spawn \/ EditByHand
  BY <1>2, <1>3 DEF Start, EnsureMessage, EnsurePanel, Ensure, LoadMessage, LoadPanel, Load, Spawn, EditByHand, process
<1>4. CASE BindPublic \/ UNCHANGED vars
  BY <1>1, <1>4 DEF BindPublic, vars, process
<1>5. CASE Ends
  BY <1>5 DEF Ends, VisitorInv
<1>6. CASE BindPanel \/ Crash
  BY <1>2, <1>5, <1>6 DEF BindPanel, Crash
<1>7. ASSUME NEW w \in Writers, WriterStep(w) \/ GenerateFails(w) PROVE VisitorInv'
  BY <1>1, <1>7 DEF WriterStep, OpenFile, WriteFile, GenerateFails, process
<1>8. ASSUME NEW ip \in Hosts, Connect(ip) PROVE VisitorInv'
  BY <1>8 DEF Connect, VisitorInv
<1>9. ASSUME NEW fields \in Edits, Save(fields) PROVE VisitorInv'
  <2>1. PICK s \in Setups : (\A f \in DOMAIN s \ fields : s[f] = saved[f]) /\ saved' = s
    BY <1>9 DEF Save
  <2>2. "allowed" \in DOMAIN s \ fields
    BY LifecycleAssumption DEF Edits
  <2>3. s["allowed"] = saved["allowed"]
    BY <2>1, <2>2
  <2>4. visitor' = visitor /\ phase' = phase
    BY <1>9 DEF Save, process
  <2>5. QED
    BY <2>1, <2>3, <2>4, VisitorSame
<1>10. ASSUME NEW h \in Handlers, CertGenerate(h) PROVE VisitorInv'
  BY <1>1, <1>10 DEF CertGenerate, process
<1>11. ASSUME NEW with \in {"both", "cert", "none"}, PlaceFiles(with) PROVE VisitorInv'
  BY <1>1, <1>11 DEF PlaceFiles, process
<1>12. CASE BootStep
  BY <1>3, <1>6, <1>7, <1>12 DEF BootStep, Writers
<1>13. QED
  BY <1>3, <1>4, <1>6, <1>7, <1>8, <1>9, <1>10, <1>11, <1>12 DEF Next

\* ip_allowed (auth.rs:245-289): for addresses of any width, the masks and their two corner
\* cases admit exactly what the CIDRs of the list cover and the addresses it names; nobody
\* else has reached the panel, whatever is saved meanwhile.
THEOREM WhitelistExact == Spec => []WhitelistIsPrefix
<1>1. Init => VisitorInv
  BY DEF Init, VisitorInv
<1>2. TypeInv /\ VisitorInv => WhitelistIsPrefix
  <2> SUFFICES ASSUME TypeInv, VisitorInv PROVE WhitelistIsPrefix
    OBVIOUS
  <2>1. saved \in Setups /\ visitor \in Hosts \cup {None}
    BY DEF TypeInv, TypeOK
  <2>2. QED
    BY <2>1, AllowedIsCovered DEF WhitelistIsPrefix, VisitorInv
<1>3. QED
  BY <1>1, <1>2, InitTypeInv, StepTypeInv, StepVisitor, PTL DEF Spec

=============================================================================
