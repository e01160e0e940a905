------------------------------ MODULE PushLog ------------------------------
(***************************************************************************)
(* The push log: PushLog of src/src/push_api.rs, a ring of the latest      *)
(* entries behind a mutex and a broadcast channel; the panel's history,    *)
(* clear and stream requests, and the dashboard page (src/src/panel.rs),   *)
(* which shows what the two give it.                                       *)
(*                                                                         *)
(* An entry is its number in the order in which the ring got them; what it *)
(* says is left out.  The broadcast channel (tokio) is external: it keeps  *)
(* the last ChannelSize entries sent, and a receiver that falls behind is  *)
(* told so and moved to the oldest one kept.                               *)
(***************************************************************************)
EXTENDS Naturals, Sequences, SequencesExt

CONSTANTS
    Writers,       \* tasks that log: push requests and panel tests
    Pages,         \* dashboard pages
    Capacity,      \* of the ring, 200 in the code
    ChannelSize,   \* of the broadcast channel, 512 in the code
    HistoryCount,  \* entries a page asks for, 100 in the code
    RowsMax,       \* rows a page keeps, 100 in the code
    MaxEntries,    \* bound: entries logged
    NoOne          \* the mutex is free

ASSUME LogAssumption ==
    /\ {Capacity, ChannelSize, HistoryCount, RowsMax} \subseteq Nat \ {0}
    /\ MaxEntries \in Nat
    /\ NoOne \notin Writers

VARIABLES
    holder,   \* the writer inside the mutex of PushLog::inner
    entry,    \* the entry a writer has pushed and is to send, 0 if none
    ring,     \* PushLog::inner
    logged,   \* history: how many entries the ring has got
    cleared,  \* history: how many it had got when it was last cleared
    sent,     \* history: the entries sent to the channel, in order
    page,     \* where a page's script is
    answer,   \* the history a page was sent and has not shown yet
    rows,     \* the rows of a page, the top one first
    stream,   \* where its event stream is
    next,     \* the position in sent its receiver reads next
    start,    \* history: the position at which it was subscribed
    got       \* history: the entries its stream has delivered

log    == <<holder, entry, ring, logged, cleared, sent>>
shown  == <<page, answer, rows>>
events == <<stream, next, start, got>>
vars   == <<log, shown, events>>

----------------------------------------------------------------------------
(* Helpers *)

Latest(s, n) == SubSeq(s, IF Len(s) > n THEN Len(s) - n + 1 ELSE 1, Len(s))
FirstOf(s, n) == SubSeq(s, 1, IF Len(s) < n THEN Len(s) ELSE n)

\* recent_n: iter().rev().take(n), the newest entry first.
Recent(n) == Reverse(Latest(ring, n))

\* The oldest position the channel still keeps.
Oldest == IF Len(sent) > ChannelSize THEN Len(sent) - ChannelSize + 1 ELSE 1

\* appendLog for each entry of s in turn: inserted above the first row, the
\* last rows removed.
Appended(s, table) == FirstOf(Reverse(s) \o table, RowsMax)

Init ==
    /\ holder = NoOne
    /\ entry = [w \in Writers |-> 0]
    /\ ring = <<>>
    /\ logged = 0 /\ cleared = 0
    /\ sent = <<>>
    /\ page = [p \in Pages |-> "closed"]
    /\ answer = [p \in Pages |-> <<>>]
    /\ rows = [p \in Pages |-> <<>>]
    /\ stream = [p \in Pages |-> "closed"]
    /\ next = [p \in Pages |-> 1]
    /\ start = [p \in Pages |-> 1]
    /\ got = [p \in Pages |-> <<>>]

----------------------------------------------------------------------------
(* PushLog *)

\* Mutant: the ring evicts one entry too late.
Push_EvictsLate(w) ==
    /\ holder = NoOne /\ entry[w] = 0
    /\ logged < MaxEntries
    /\ holder' = w
    /\ entry' = [entry EXCEPT ![w] = logged + 1]
    /\ ring' = Append(IF Len(ring) > Capacity THEN Tail(ring) ELSE ring, logged + 1)
    /\ logged' = logged + 1
    /\ UNCHANGED <<cleared, sent, shown, events>>

\* Mutant: the mutex is released before the entry is sent.
Push_Unlocks(w) ==
    /\ holder = NoOne /\ entry[w] = 0
    /\ logged < MaxEntries
    /\ entry' = [entry EXCEPT ![w] = logged + 1]
    /\ ring' = Append(IF Len(ring) >= Capacity THEN Tail(ring) ELSE ring, logged + 1)
    /\ logged' = logged + 1
    /\ UNCHANGED <<holder, cleared, sent, shown, events>>

\* Into the ring, under the mutex, which is kept over the send.
Push(w) ==
    /\ holder = NoOne /\ entry[w] = 0
    /\ logged < MaxEntries
    /\ holder' = w
    /\ entry' = [entry EXCEPT ![w] = logged + 1]
    /\ ring' = Append(IF Len(ring) >= Capacity THEN Tail(ring) ELSE ring, logged + 1)
    /\ logged' = logged + 1
    /\ UNCHANGED <<cleared, sent, shown, events>>

Send(w) ==
    /\ entry[w] # 0
    /\ sent' = Append(sent, entry[w])
    /\ entry' = [entry EXCEPT ![w] = 0]
    /\ holder' = NoOne
    /\ UNCHANGED <<ring, logged, cleared, shown, events>>

----------------------------------------------------------------------------
(* The page and its two requests, which are under way together *)

\* loadLogs and openLogStream, called one after the other without awaiting.
OpenPage(p) ==
    /\ page[p] = "closed"
    /\ page' = [page EXCEPT ![p] = "loading"]
    /\ stream' = [stream EXCEPT ![p] = "asked"]
    /\ UNCHANGED <<log, answer, rows, next, start, got>>

\* api_log_history
ServeHistory(p) ==
    /\ page[p] = "loading"
    /\ holder = NoOne
    /\ answer' = [answer EXCEPT ![p] = Recent(HistoryCount)]
    /\ page' = [page EXCEPT ![p] = "answered"]
    /\ UNCHANGED <<log, rows, events>>

ShowHistory(p) ==
    /\ page[p] = "answered"
    /\ rows' = [rows EXCEPT ![p] = Appended(answer[p], @)]
    /\ answer' = [answer EXCEPT ![p] = <<>>]
    /\ page' = [page EXCEPT ![p] = "shown"]
    /\ UNCHANGED <<log, events>>

\* api_log_stream: the receiver gets what is sent from now on.
Subscribe(p) ==
    /\ stream[p] = "asked"
    /\ stream' = [stream EXCEPT ![p] = "open"]
    /\ next' = [next EXCEPT ![p] = Len(sent) + 1]
    /\ start' = [start EXCEPT ![p] = Len(sent) + 1]
    /\ got' = [got EXCEPT ![p] = <<>>]
    /\ UNCHANGED <<log, shown>>

Receive(p) ==
    /\ stream[p] = "open"
    /\ next[p] \in Oldest..Len(sent)
    /\ rows' = [rows EXCEPT ![p] = Appended(<<sent[next[p]]>>, @)]
    /\ got' = [got EXCEPT ![p] = Append(@, sent[next[p]])]
    /\ next' = [next EXCEPT ![p] = @ + 1]
    /\ UNCHANGED <<log, page, answer, stream, start>>

\* Mutant: a receiver that lagged goes on with what is sent from now on.
Lag_ToNewest(p) ==
    /\ stream[p] = "open"
    /\ next[p] < Oldest
    /\ next' = [next EXCEPT ![p] = Len(sent) + 1]
    /\ UNCHANGED <<log, shown, stream, start, got>>

\* Mutant: a receiver that lagged asks for the missed entry again.
Lag_AsksAgain(p) ==
    /\ stream[p] = "open"
    /\ next[p] < Oldest
    /\ UNCHANGED vars

\* RecvError::Lagged: the receiver has been moved, the loop goes on.
Lag(p) ==
    /\ stream[p] = "open"
    /\ next[p] < Oldest
    /\ next' = [next EXCEPT ![p] = Oldest]
    /\ UNCHANGED <<log, shown, stream, start, got>>

\* The connection of the stream fails; onerror closes it and opens another
\* one after five seconds.
StreamFails(p) ==
    /\ stream[p] \in {"asked", "open"}
    /\ stream' = [stream EXCEPT ![p] = "failed"]
    /\ UNCHANGED <<log, shown, next, start, got>>

Reconnect(p) ==
    /\ stream[p] = "failed"
    /\ stream' = [stream EXCEPT ![p] = "asked"]
    /\ UNCHANGED <<log, shown, next, start, got>>

\* api_log_clear, and what the page does with its answer.
Clear(p) ==
    /\ page[p] = "shown"
    /\ holder = NoOne
    /\ ring' = <<>>
    /\ cleared' = logged
    /\ page' = [page EXCEPT ![p] = "clearing"]
    /\ UNCHANGED <<holder, entry, logged, sent, answer, rows, events>>

ClearRows(p) ==
    /\ page[p] = "clearing"
    /\ rows' = [rows EXCEPT ![p] = <<>>]
    /\ page' = [page EXCEPT ![p] = "shown"]
    /\ UNCHANGED <<log, answer, events>>

ClosePage(p) ==
    /\ page[p] # "closed"
    /\ page' = [page EXCEPT ![p] = "closed"]
    /\ answer' = [answer EXCEPT ![p] = <<>>]
    /\ rows' = [rows EXCEPT ![p] = <<>>]
    /\ stream' = [stream EXCEPT ![p] = "closed"]
    /\ UNCHANGED <<log, next, start, got>>

----------------------------------------------------------------------------

StreamStep(p) == Receive(p) \/ Lag(p)

Next ==
    \/ \E w \in Writers : Push(w) \/ Send(w)
    \/ \E p \in Pages :
        \/ OpenPage(p) \/ ServeHistory(p) \/ ShowHistory(p)
        \/ Subscribe(p) \/ StreamStep(p) \/ StreamFails(p) \/ Reconnect(p)
        \/ Clear(p) \/ ClearRows(p) \/ ClosePage(p)

Spec == Init /\ [][Next]_vars

\* The generator behind an open stream is polled while the page reads.
FairSpec == Spec /\ \A p \in Pages : WF_vars(StreamStep(p))

----------------------------------------------------------------------------
(* Properties *)

\* The ring, the channel and the pages hold entries that were logged.
TypeOK ==
    /\ holder \in Writers \cup {NoOne}
    /\ entry \in [Writers -> 0..logged]
    /\ logged \in 0..MaxEntries /\ cleared \in 0..logged
    /\ ring \in Seq(1..logged) /\ Len(ring) <= Capacity
    /\ sent \in Seq(1..logged)
    /\ page \in [Pages -> {"closed", "loading", "answered", "shown", "clearing"}]
    /\ answer \in [Pages -> Seq(1..logged)]
    /\ rows \in [Pages -> Seq(1..logged)]
    /\ \A p \in Pages : Len(rows[p]) <= RowsMax
    /\ stream \in [Pages -> {"closed", "asked", "open", "failed"}]
    /\ next \in [Pages -> 1..(Len(sent) + 1)]
    /\ start \in [Pages -> 1..(Len(sent) + 1)]
    /\ got \in [Pages -> Seq(1..logged)]

\* PushLog::push and clear: the ring is the latest entries since it was
\* cleared, in order, without a gap, and as many as it has room for.
RingIsLatest ==
    LET kept == Len(ring)
    IN  /\ kept = IF logged - cleared < Capacity THEN logged - cleared ELSE Capacity
        /\ ring = [i \in 1..kept |-> logged - kept + i]

\* PushLog::push sends inside the mutex: a stream delivers entries in the order of
\* the ring, none twice, however writers and readers interleave.  api_log_stream goes
\* on after Lagged: of the entries the channel still keeps, it has skipped none.
StreamInOrder ==
    \A p \in Pages :
        /\ \A i, j \in 1..Len(got[p]) : i < j => got[p][i] < got[p][j]
        /\ stream[p] = "open" =>
            \A i \in Oldest..Len(sent) : i \in start[p]..(next[p] - 1) => Contains(got[p], sent[i])

\* api_log_stream: an entry sent while a stream is open is delivered, or lost
\* to lag, or the stream ends.
EntriesReachStreams ==
    \A p \in Pages : \A i \in 1..MaxEntries :
        (stream[p] = "open" /\ next[p] <= i /\ i <= Len(sent))
            ~> (stream[p] # "open" \/ next[p] > i)

=============================================================================
