---------------------------- MODULE PushLog_proofs ----------------------------
(* Proofs about PushLog, for any number of writers and pages and any sizes:    *)
(* type correctness, what the ring holds, what a stream delivers.              *)
EXTENDS PushLog, TLAPS

----------------------------------------------------------------------------
(* The helpers on sequences of entries *)

LEMMA Sizes ==
  /\ Capacity \in Nat /\ Capacity > 0
  /\ ChannelSize \in Nat /\ ChannelSize > 0
  /\ HistoryCount \in Nat /\ RowsMax \in Nat
  /\ MaxEntries \in Nat
BY LogAssumption

LEMMA LatestType ==
  ASSUME NEW S, NEW s \in Seq(S), NEW n \in Nat
  PROVE  Latest(s, n) \in Seq(S)
BY DEF Latest

LEMMA FirstOfType ==
  ASSUME NEW S, NEW s \in Seq(S), NEW n \in Nat
  PROVE  FirstOf(s, n) \in Seq(S) /\ Len(FirstOf(s, n)) <= n
BY DEF FirstOf

LEMMA ReverseType ==
  ASSUME NEW S, NEW s \in Seq(S)
  PROVE  Reverse(s) \in Seq(S)
<1>1. \A i \in 1..Len(s) : Len(s) - i + 1 \in 1..Len(s)
  OBVIOUS
<1>2. \A i \in 1..Len(s) : s[Len(s) - i + 1] \in S
  BY <1>1
<1>3. QED
  BY <1>2 DEF Reverse

LEMMA AppendedType ==
  ASSUME NEW S, NEW s \in Seq(S), NEW t \in Seq(S)
  PROVE  Appended(s, t) \in Seq(S) /\ Len(Appended(s, t)) <= RowsMax
<1>1. Reverse(s) \o t \in Seq(S)
  BY ReverseType
<1>2. QED
  BY <1>1, FirstOfType, Sizes DEF Appended

LEMMA OldestType == ASSUME TypeOK PROVE Oldest \in 1..(Len(sent) + 1)
BY Sizes DEF Oldest, TypeOK

LEMMA EntryType ==
  ASSUME NEW m, NEW s \in Seq(1..m), NEW i \in 1..Len(s)
  PROVE  s[i] \in 1..m
<1> DEFINE S == 1..m
<1>1. s \in Seq(S)
  OBVIOUS
<1> HIDE DEF S
<1>2. s[i] \in S
  BY <1>1
<1>3. QED
  BY <1>2 DEF S

\* A stream's position, and what it has delivered.
LEMMA PageType ==
  ASSUME TypeOK, NEW p \in Pages
  PROVE  /\ Len(sent) \in Nat /\ logged \in Nat
         /\ next[p] \in 1..(Len(sent) + 1) /\ start[p] \in 1..(Len(sent) + 1)
         /\ got[p] \in Seq(1..logged)
         /\ \A i \in 1..Len(got[p]) : got[p][i] \in Nat
<1>1. got[p] \in Seq(1..logged)
  BY DEF TypeOK
<1>2. \A i \in 1..Len(got[p]) : got[p][i] \in Nat
  <2>1. \A i \in 1..Len(got[p]) : got[p][i] \in 1..logged
    BY <1>1, EntryType
  <2>2. 1..logged \subseteq Nat
    BY DEF TypeOK
  <2>3. QED
    BY <2>1, <2>2
<1>3. /\ Len(sent) \in Nat /\ logged \in Nat
      /\ next[p] \in 1..(Len(sent) + 1) /\ start[p] \in 1..(Len(sent) + 1)
  BY DEF TypeOK
<1>4. QED
  BY <1>1, <1>2, <1>3

LEMMA ReceivePosition ==
  ASSUME TypeOK, NEW p \in Pages, Receive(p)
  PROVE  next[p] \in 1..Len(sent)
<1>1. next[p] \in Oldest..Len(sent)
  BY DEF Receive
<1>2. QED
  BY <1>1, OldestType, PageType

\* What was logged stays logged.
LEMMA MoreLogged ==
  ASSUME NEW m \in Nat, NEW n \in Nat, m <= n, NEW s \in Seq(1..m)
  PROVE  s \in Seq(1..n)
<1>1. \A i \in 1..Len(s) : s[i] \in 1..n
  OBVIOUS
<1>2. QED
  BY <1>1

\* One page's rows change.
LEMMA RowsType ==
  ASSUME TypeOK, NEW p \in Pages, NEW t \in Seq(1..logged), Len(t) <= RowsMax,
         rows' = [rows EXCEPT ![p] = t]
  PROVE  rows' \in [Pages -> Seq(1..logged)] /\ \A q \in Pages : Len(rows'[q]) <= RowsMax
<1>1. rows' \in [Pages -> Seq(1..logged)]
  BY DEF TypeOK
<1>2. \A q \in Pages : rows'[q] = IF q = p THEN t ELSE rows[q]
  BY DEF TypeOK
<1>3. QED
  BY <1>1, <1>2 DEF TypeOK

----------------------------------------------------------------------------
(* Type correctness *)

LEMMA InitTypeOK == Init => TypeOK
BY Sizes, LogAssumption DEF Init, TypeOK

LEMMA StepTypeOK == TypeOK /\ [Next]_vars => TypeOK'
<1> SUFFICES ASSUME TypeOK, [Next]_vars PROVE TypeOK'
  OBVIOUS
<1> USE Sizes
<1> DEFINE PageStates == {"closed", "loading", "answered", "shown", "clearing"}
<1>1. CASE UNCHANGED vars
  BY <1>1 DEF TypeOK, vars, log, shown, events
<1>2. ASSUME NEW w \in Writers, Push(w) PROVE TypeOK'
  <2>1. logged' = logged + 1 /\ logged + 1 \in 0..MaxEntries /\ cleared' \in 0..logged'
    BY <1>2 DEF Push, TypeOK
  <2>2. entry' \in [Writers -> 0..logged']
    BY <1>2, <2>1 DEF Push, TypeOK
  <2>3. \A s \in Seq(1..logged) : s \in Seq(1..logged')
    BY <2>1, MoreLogged DEF TypeOK
  <2>4. ring' \in Seq(1..logged') /\ Len(ring') <= Capacity
    <3>1. ring \in Seq(1..logged') /\ logged + 1 \in 1..logged'
      BY <2>1, <2>3 DEF TypeOK
    <3>2. CASE Len(ring) >= Capacity
      <4>1. ring' = Append(Tail(ring), logged + 1) /\ ring # <<>>
        BY <1>2, <3>2 DEF Push, TypeOK
      <4>2. QED
        BY <3>1, <4>1 DEF TypeOK
    <3>3. CASE ~(Len(ring) >= Capacity)
      BY <1>2, <3>1, <3>3 DEF Push, TypeOK
    <3>4. QED
      BY <3>2, <3>3
  <2>5. /\ answer' \in [Pages -> Seq(1..logged')]
        /\ rows' \in [Pages -> Seq(1..logged')]
        /\ got' \in [Pages -> Seq(1..logged')]
        /\ sent' \in Seq(1..logged')
    BY <1>2, <2>3 DEF Push, TypeOK, shown, events
  <2>6. QED
    BY <1>2, <2>1, <2>2, <2>4, <2>5 DEF Push, TypeOK, shown, events
<1>3. ASSUME NEW w \in Writers, Send(w) PROVE TypeOK'
  <2>1. sent' \in Seq(1..logged) /\ Len(sent') = Len(sent) + 1
    BY <1>3 DEF Send, TypeOK
  <2>2. next \in [Pages -> 1..(Len(sent') + 1)] /\ start \in [Pages -> 1..(Len(sent') + 1)]
    <3>1. 1..(Len(sent) + 1) \subseteq 1..(Len(sent') + 1)
      BY <2>1 DEF TypeOK
    <3>2. QED
      BY <3>1 DEF TypeOK
  <2>3. QED
    BY <1>3, <2>1, <2>2 DEF Send, TypeOK, shown, events
<1>4. ASSUME NEW p \in Pages, OpenPage(p) PROVE TypeOK'
  BY <1>4 DEF OpenPage, TypeOK, log
<1>5. ASSUME NEW p \in Pages, ServeHistory(p) PROVE TypeOK'
  <2>1. Recent(HistoryCount) \in Seq(1..logged)
    BY LatestType, ReverseType DEF Recent, TypeOK
  <2>2. QED
    BY <1>5, <2>1 DEF ServeHistory, TypeOK, log, events
<1>6. ASSUME NEW p \in Pages, ShowHistory(p) PROVE TypeOK'
  <2>1. /\ Appended(answer[p], rows[p]) \in Seq(1..logged)
        /\ Len(Appended(answer[p], rows[p])) <= RowsMax
    BY AppendedType DEF TypeOK
  <2>2. rows' \in [Pages -> Seq(1..logged)] /\ \A q \in Pages : Len(rows'[q]) <= RowsMax
    BY <1>6, <2>1, RowsType DEF ShowHistory
  <2>3. answer' \in [Pages -> Seq(1..logged)] /\ page' \in [Pages -> PageStates]
    <3>1. <<>> \in Seq(1..logged) /\ "shown" \in PageStates
      OBVIOUS
    <3>2. QED
      BY <1>6, <3>1 DEF ShowHistory, TypeOK
  <2>4. UNCHANGED <<log, events>>
    BY <1>6 DEF ShowHistory
  <2>5. QED
    BY <2>2, <2>3, <2>4 DEF TypeOK, log, events
<1>7. ASSUME NEW p \in Pages, Subscribe(p) PROVE TypeOK'
  <2>1. Len(sent) + 1 \in 1..(Len(sent) + 1) /\ <<>> \in Seq(1..logged)
    BY DEF TypeOK
  <2>2. next' \in [Pages -> 1..(Len(sent) + 1)] /\ start' \in [Pages -> 1..(Len(sent) + 1)]
    BY <1>7, <2>1 DEF Subscribe, TypeOK
  <2>3. got' \in [Pages -> Seq(1..logged)] /\ stream' \in [Pages -> {"closed", "asked", "open", "failed"}]
    BY <1>7, <2>1 DEF Subscribe, TypeOK
  <2>4. UNCHANGED <<log, shown>>
    BY <1>7 DEF Subscribe
  <2>5. QED
    BY <2>2, <2>3, <2>4 DEF TypeOK, log, shown
<1>8. ASSUME NEW p \in Pages, Receive(p) PROVE TypeOK'
  <2>1. next[p] \in 1..Len(sent) /\ sent[next[p]] \in 1..logged
    <3>1. next[p] \in 1..Len(sent)
      BY <1>8, ReceivePosition
    <3>2. sent \in Seq(1..logged)
      BY DEF TypeOK
    <3>3. QED
      BY <3>1, <3>2, EntryType
  <2>2. /\ Appended(<<sent[next[p]]>>, rows[p]) \in Seq(1..logged)
        /\ Len(Appended(<<sent[next[p]]>>, rows[p])) <= RowsMax
    <3>1. <<sent[next[p]]>> \in Seq(1..logged) /\ rows[p] \in Seq(1..logged)
      BY <2>1 DEF TypeOK
    <3>2. QED
      BY <3>1, AppendedType
  <2>3. rows' \in [Pages -> Seq(1..logged)] /\ \A q \in Pages : Len(rows'[q]) <= RowsMax
    BY <1>8, <2>2, RowsType DEF Receive
  <2>4. got' \in [Pages -> Seq(1..logged)] /\ next' \in [Pages -> 1..(Len(sent) + 1)]
    <3>1. Append(got[p], sent[next[p]]) \in Seq(1..logged) /\ next[p] + 1 \in 1..(Len(sent) + 1)
      BY <2>1, PageType
    <3>2. /\ got \in [Pages -> Seq(1..logged)] /\ next \in [Pages -> 1..(Len(sent) + 1)]
          /\ got' = [got EXCEPT ![p] = Append(got[p], sent[next[p]])] /\ next' = [next EXCEPT ![p] = next[p] + 1]
      BY <1>8 DEF Receive, TypeOK
    <3>3. got' \in [Pages -> Seq(1..logged)]
      BY <3>1, <3>2
    <3>4. next' \in [Pages -> 1..(Len(sent) + 1)]
      BY <3>1, <3>2
    <3>5. QED
      BY <3>3, <3>4
  <2>5. QED
    BY <1>8, <2>3, <2>4 DEF Receive, TypeOK, log
<1>9. ASSUME NEW p \in Pages, Lag(p) PROVE TypeOK'
  BY <1>9, OldestType DEF Lag, TypeOK, log, shown
<1>10. ASSUME NEW p \in Pages, StreamFails(p) \/ Reconnect(p) PROVE TypeOK'
  BY <1>10 DEF StreamFails, Reconnect, TypeOK, log, shown
<1>11. ASSUME NEW p \in Pages, Clear(p) PROVE TypeOK'
  <2>1. ring' \in Seq(1..logged) /\ Len(ring') <= Capacity /\ cleared' \in 0..logged
    BY <1>11 DEF Clear, TypeOK
  <2>2. page' \in [Pages -> PageStates]
    BY <1>11 DEF Clear, TypeOK
  <2>3. UNCHANGED <<holder, entry, logged, sent, answer, rows, events>>
    BY <1>11 DEF Clear
  <2>4. QED
    BY <2>1, <2>2, <2>3 DEF TypeOK, events
<1>12. ASSUME NEW p \in Pages, ClearRows(p) \/ ClosePage(p) PROVE TypeOK'
  <2>1. rows' = [rows EXCEPT ![p] = <<>>]
    BY <1>12 DEF ClearRows, ClosePage
  <2>2. rows' \in [Pages -> Seq(1..logged)] /\ \A q \in Pages : Len(rows'[q]) <= RowsMax
    <3>1. <<>> \in Seq(1..logged) /\ Len(<<>>) <= RowsMax
      OBVIOUS
    <3>2. QED
      BY <2>1, <3>1, RowsType
  <2>3. page' \in [Pages -> PageStates] /\ stream' \in [Pages -> {"closed", "asked", "open", "failed"}]
    BY <1>12 DEF ClearRows, ClosePage, TypeOK, events
  <2>4. answer' \in [Pages -> Seq(1..logged)]
    <3>1. <<>> \in Seq(1..logged) /\ answer \in [Pages -> Seq(1..logged)]
      BY DEF TypeOK
    <3>2. answer' = answer \/ answer' = [answer EXCEPT ![p] = <<>>]
      BY <1>12 DEF ClearRows, ClosePage
    <3>3. QED
      BY <3>1, <3>2
  <2>5. UNCHANGED <<log, next, start, got>>
    BY <1>12 DEF ClearRows, ClosePage, events
  <2>6. QED
    BY <2>2, <2>3, <2>4, <2>5 DEF TypeOK, log
<1>13. QED
  BY <1>1, <1>2, <1>3, <1>4, <1>5, <1>6, <1>7, <1>8, <1>9, <1>10, <1>11, <1>12 DEF Next, StreamStep

\* The log, the channel and the pages hold entries that were logged, and keep
\* their sizes.
THEOREM TypeCorrect == Spec => []TypeOK
BY InitTypeOK, StepTypeOK, PTL DEF Spec

----------------------------------------------------------------------------
(* The ring *)

LEMMA StepRing == TypeOK /\ RingIsLatest /\ [Next]_vars => RingIsLatest'
<1> SUFFICES ASSUME TypeOK, RingIsLatest, [Next]_vars PROVE RingIsLatest'
  OBVIOUS
<1> USE Sizes
<1>1. CASE UNCHANGED <<ring, logged, cleared>>
  BY <1>1 DEF RingIsLatest
<1>2. ASSUME NEW w \in Writers, Push(w) PROVE RingIsLatest'
  <2>1. /\ logged' = logged + 1 /\ cleared' = cleared
        /\ logged \in Nat /\ cleared \in 0..logged
        /\ ring \in Seq(Nat)
    <3>1. ring \in Seq(Nat)
      <4>1. \A i \in 1..Len(ring) : ring[i] \in Nat
        BY DEF TypeOK
      <4>2. QED
        BY <4>1 DEF TypeOK
    <3>2. QED
      BY <1>2, <3>1 DEF Push, TypeOK
  <2>2. /\ Len(ring) = IF logged - cleared < Capacity THEN logged - cleared ELSE Capacity
        /\ \A i \in 1..Len(ring) : ring[i] = logged - Len(ring) + i
    BY <2>1 DEF RingIsLatest
  <2>3. CASE Len(ring) >= Capacity
    <3>1. ring' = Append(Tail(ring), logged + 1) /\ Len(ring) = Capacity
      BY <1>2, <2>1, <2>2, <2>3 DEF Push
    <3>2. ring' \in Seq(Nat) /\ Len(ring') = Capacity
      BY <2>1, <3>1
    <3>3. \A i \in 1..Capacity : ring'[i] = logged' - Capacity + i
      <4>1. SUFFICES ASSUME NEW i \in 1..Capacity PROVE ring'[i] = logged' - Capacity + i
        OBVIOUS
      <4>2. CASE i = Capacity
        BY <2>1, <3>1, <4>2
      <4>3. CASE i # Capacity
        <5>1. i + 1 \in 1..Len(ring) /\ ring'[i] = ring[i + 1]
          BY <2>1, <3>1, <4>3
        <5>2. ring[i + 1] = logged - Capacity + (i + 1)
          BY <2>2, <3>1, <5>1
        <5>3. QED
          BY <2>1, <5>1, <5>2
      <4>4. QED
        BY <4>2, <4>3
    <3>4. Capacity = IF logged' - cleared' < Capacity THEN logged' - cleared' ELSE Capacity
      BY <2>1, <2>2, <3>1
    <3>5. ring' = [i \in 1..Len(ring') |-> logged' - Len(ring') + i]
      BY <3>2, <3>3
    <3>6. QED
      BY <3>2, <3>4, <3>5 DEF RingIsLatest
  <2>4. CASE ~(Len(ring) >= Capacity)
    <3>1. ring' = Append(ring, logged + 1) /\ Len(ring) = logged - cleared
      BY <1>2, <2>1, <2>2, <2>4 DEF Push
    <3>2. ring' \in Seq(Nat) /\ Len(ring') = logged' - cleared' /\ Len(ring') <= Capacity
      BY <2>1, <2>4, <3>1
    <3>3. \A i \in 1..Len(ring') : ring'[i] = logged' - Len(ring') + i
      <4>1. SUFFICES ASSUME NEW i \in 1..Len(ring') PROVE ring'[i] = logged' - Len(ring') + i
        OBVIOUS
      <4>2. Len(ring') = Len(ring) + 1
        BY <2>1, <3>1
      <4>3. CASE i = Len(ring')
        BY <2>1, <3>1, <4>2, <4>3
      <4>4. CASE i # Len(ring')
        <5>1. i \in 1..Len(ring) /\ ring'[i] = ring[i]
          BY <2>1, <3>1, <4>2, <4>4
        <5>2. ring[i] = logged - Len(ring) + i
          BY <2>2, <5>1
        <5>3. QED
          BY <2>1, <4>2, <5>1, <5>2
      <4>5. QED
        BY <4>3, <4>4
    <3>4. ring' = [i \in 1..Len(ring') |-> logged' - Len(ring') + i]
      BY <3>2, <3>3
    <3>5. Len(ring') = IF logged' - cleared' < Capacity THEN logged' - cleared' ELSE Capacity
      BY <2>1, <3>2
    <3>6. QED
      BY <3>4, <3>5 DEF RingIsLatest
  <2>5. QED
    BY <2>3, <2>4
<1>3. ASSUME NEW p \in Pages, Clear(p) PROVE RingIsLatest'
  <2>1. ring' = <<>> /\ logged' - cleared' = 0 /\ logged' - 0 \in Nat
    BY <1>3 DEF Clear, TypeOK
  <2>2. QED
    BY <2>1 DEF RingIsLatest
<1>4. ASSUME NEW w \in Writers, Send(w) PROVE RingIsLatest'
  BY <1>1, <1>4 DEF Send
<1>5. ASSUME NEW p \in Pages,
             \/ OpenPage(p) \/ ServeHistory(p) \/ ShowHistory(p) \/ Subscribe(p) \/ StreamStep(p)
             \/ StreamFails(p) \/ Reconnect(p) \/ ClearRows(p) \/ ClosePage(p)
      PROVE  RingIsLatest'
  BY <1>1, <1>5 DEF OpenPage, ServeHistory, ShowHistory, Subscribe, StreamStep, Receive, Lag,
       StreamFails, Reconnect, ClearRows, ClosePage, log
<1>6. QED
  BY <1>1, <1>2, <1>3, <1>4, <1>5 DEF Next, vars, log

\* The ring is the latest entries since it was cleared, whatever its capacity.
THEOREM RingLatest == Spec => []RingIsLatest
<1>1. Init => RingIsLatest
  BY Sizes DEF Init, RingIsLatest
<1>2. QED
  BY <1>1, TypeCorrect, StepRing, PTL DEF Spec

----------------------------------------------------------------------------
(* The streams *)

\* The mutex is held from the ring to the channel, so what is sent is what was
\* logged, in order, but for the entry of the writer inside.
SentInv ==
    /\ Len(sent) = IF holder = NoOne THEN logged ELSE logged - 1
    /\ \A i \in 1..Len(sent) : sent[i] = i
    /\ \A w \in Writers : entry[w] # 0 => holder = w /\ entry[w] = logged

\* A stream has delivered, in order, entries before the position it is at.
GotInv ==
    \A p \in Pages :
        /\ \A i \in 1..Len(got[p]) : got[p][i] < next[p]
        /\ \A i, j \in 1..Len(got[p]) : i < j => got[p][i] < got[p][j]

\* It has skipped none of those the channel still keeps.
KeptInv ==
    \A p \in Pages : stream[p] = "open" =>
        \A i \in Oldest..Len(sent) : i \in start[p]..(next[p] - 1) => Contains(got[p], sent[i])

StreamInv == SentInv /\ GotInv /\ KeptInv

LEMMA StepSentInv == TypeOK /\ SentInv /\ [Next]_vars => SentInv'
<1> SUFFICES ASSUME TypeOK, SentInv, [Next]_vars PROVE SentInv'
  OBVIOUS
<1>1. CASE UNCHANGED <<holder, entry, logged, sent>>
  BY <1>1 DEF SentInv
<1>2. ASSUME NEW w \in Writers, Push(w) PROVE SentInv'
  BY <1>2, LogAssumption DEF Push, SentInv, TypeOK
<1>3. ASSUME NEW w \in Writers, Send(w) PROVE SentInv'
  <2>1. /\ holder = w /\ entry[w] = logged /\ w # NoOne
        /\ logged \in Nat /\ sent \in Seq(1..logged)
        /\ Len(sent) = logged - 1
    BY <1>3, LogAssumption DEF Send, SentInv, TypeOK
  <2>2. Len(sent') = logged /\ \A i \in 1..Len(sent') : sent'[i] = i
    BY <1>3, <2>1 DEF Send, SentInv
  <2>3. \A v \in Writers : entry'[v] = 0
    BY <1>3, <2>1 DEF Send, SentInv, TypeOK
  <2>4. QED
    BY <1>3, <2>2, <2>3 DEF Send, SentInv
<1>4. ASSUME NEW p \in Pages,
             \/ OpenPage(p) \/ ServeHistory(p) \/ ShowHistory(p) \/ Subscribe(p) \/ StreamStep(p)
             \/ StreamFails(p) \/ Reconnect(p) \/ Clear(p) \/ ClearRows(p) \/ ClosePage(p)
      PROVE  SentInv'
  BY <1>1, <1>4 DEF OpenPage, ServeHistory, ShowHistory, Subscribe, StreamStep, Receive, Lag,
       StreamFails, Reconnect, Clear, ClearRows, ClosePage, log
<1>5. QED
  BY <1>1, <1>2, <1>3, <1>4 DEF Next, vars, log

LEMMA StepGotInv == TypeOK /\ SentInv /\ GotInv /\ [Next]_vars => GotInv'
<1> SUFFICES ASSUME TypeOK, SentInv, GotInv, [Next]_vars PROVE GotInv'
  OBVIOUS
<1>1. CASE UNCHANGED <<next, got>>
  BY <1>1 DEF GotInv
<1>2. ASSUME NEW p \in Pages, Subscribe(p) PROVE GotInv'
  <2>1. \A q \in Pages : (got'[q] = <<>>) \/ (got'[q] = got[q] /\ next'[q] = next[q])
    <3>1. /\ got' = [got EXCEPT ![p] = <<>>]
          /\ next' = [next EXCEPT ![p] = Len(sent) + 1]
      BY <1>2 DEF Subscribe
    <3>2. got \in [Pages -> Seq(1..logged)] /\ next \in [Pages -> 1..(Len(sent) + 1)]
      BY DEF TypeOK
    <3>3. got'[p] = <<>>
      BY <3>1, <3>2
    <3>4. \A q \in Pages \ {p} : got'[q] = got[q] /\ next'[q] = next[q]
      BY <3>1, <3>2
    <3>5. QED
      BY <3>3, <3>4
  <2>2. QED
    BY <2>1 DEF GotInv
<1>3. ASSUME NEW p \in Pages, Lag(p) PROVE GotInv'
  <2>1. got' = got /\ next' = [next EXCEPT ![p] = Oldest] /\ next[p] < Oldest
    BY <1>3 DEF Lag
  <2>2. Oldest \in Nat
    BY OldestType, PageType
  <2>3. SUFFICES ASSUME NEW q \in Pages, NEW i \in 1..Len(got[q]) PROVE got[q][i] < next'[q]
    BY <2>1 DEF GotInv
  <2>4. got[q][i] < next[q] /\ got[q][i] \in Nat /\ next[q] \in Nat
    BY PageType DEF GotInv
  <2>5. next'[q] = IF q = p THEN Oldest ELSE next[q]
    BY <2>1 DEF TypeOK
  <2>6. QED
    BY <2>1, <2>2, <2>4, <2>5
<1>4. ASSUME NEW p \in Pages, Receive(p) PROVE GotInv'
  <2>1. next[p] \in 1..Len(sent) /\ sent[next[p]] = next[p]
    BY <1>4, ReceivePosition DEF SentInv
  <2>2. got[p] \in Seq(1..logged) /\ got'[p] = Append(got[p], next[p]) /\ next'[p] = next[p] + 1
    BY <1>4, <2>1 DEF Receive, TypeOK
  <2>3. \A i \in 1..Len(got[p]) : got[p][i] \in Nat /\ got[p][i] < next[p]
    BY PageType DEF GotInv
  <2>4. \A i \in 1..Len(got'[p]) : got'[p][i] = IF i \in 1..Len(got[p]) THEN got[p][i] ELSE next[p]
    BY <2>2
  <2>5. \A i \in 1..Len(got'[p]) : got'[p][i] < next'[p]
    BY <2>1, <2>2, <2>3, <2>4
  <2>6. \A i, j \in 1..Len(got'[p]) : i < j => got'[p][i] < got'[p][j]
    BY <2>2, <2>3, <2>4 DEF GotInv
  <2>7. \A q \in Pages \ {p} : got'[q] = got[q] /\ next'[q] = next[q]
    BY <1>4 DEF Receive, TypeOK
  <2>8. QED
    BY <2>5, <2>6, <2>7 DEF GotInv
<1>5. ASSUME NEW w \in Writers, Push(w) \/ Send(w) PROVE GotInv'
  BY <1>1, <1>5 DEF Push, Send, events
<1>6. ASSUME NEW p \in Pages,
             \/ OpenPage(p) \/ ServeHistory(p) \/ ShowHistory(p)
             \/ StreamFails(p) \/ Reconnect(p) \/ Clear(p) \/ ClearRows(p) \/ ClosePage(p)
      PROVE  GotInv'
  BY <1>1, <1>6 DEF OpenPage, ServeHistory, ShowHistory, StreamFails, Reconnect, Clear, ClearRows,
       ClosePage, events
<1>7. QED
  BY <1>1, <1>2, <1>3, <1>4, <1>5, <1>6 DEF Next, StreamStep, vars, events

LEMMA StepKeptInv == TypeOK /\ SentInv /\ KeptInv /\ [Next]_vars => KeptInv'
<1> SUFFICES ASSUME TypeOK, SentInv, KeptInv, [Next]_vars PROVE KeptInv'
  OBVIOUS
<1> USE Sizes
<1>1. CASE UNCHANGED <<sent, stream, next, start, got>>
  BY <1>1 DEF KeptInv, Oldest
<1>2. ASSUME NEW w \in Writers, Send(w) PROVE KeptInv'
  <2>1. /\ Len(sent) \in Nat /\ Len(sent') = Len(sent) + 1
        /\ \A i \in 1..Len(sent) : sent'[i] = sent[i]
    BY <1>2 DEF Send, TypeOK
  <2>2. Oldest \in Nat /\ Oldest >= 1 /\ Oldest' \in Nat /\ Oldest' >= Oldest
    BY <2>1 DEF Oldest
  <2>3. SUFFICES ASSUME NEW p \in Pages, stream[p] = "open",
                        NEW i \in Oldest'..Len(sent'), i \in start[p]..(next[p] - 1)
                 PROVE  Contains(got[p], sent'[i])
    BY <1>2 DEF Send, events, KeptInv
  <2>4. next[p] \in 1..(Len(sent) + 1) /\ start[p] \in 1..(Len(sent) + 1)
    BY DEF TypeOK
  <2>5. i \in Oldest..Len(sent) /\ sent'[i] = sent[i]
    BY <2>1, <2>2, <2>3, <2>4
  <2>6. QED
    BY <2>3, <2>5 DEF KeptInv
<1>3. ASSUME NEW p \in Pages, Subscribe(p) \/ Lag(p) PROVE KeptInv'
  <2>1. sent' = sent /\ Oldest' = Oldest /\ Oldest \in 1..(Len(sent) + 1) /\ Len(sent) \in Nat
    <3>1. sent' = sent
      BY <1>3 DEF Subscribe, Lag, log
    <3>2. Oldest' = Oldest
      BY <3>1 DEF Oldest
    <3>3. QED
      BY <3>1, <3>2, OldestType, PageType
  <2>2. \A q \in Pages \ {p} : /\ got'[q] = got[q] /\ next'[q] = next[q]
                               /\ start'[q] = start[q] /\ stream'[q] = stream[q]
    BY <1>3 DEF Subscribe, Lag, TypeOK
  <2>3. \/ next'[p] = start'[p] /\ start'[p] \in Nat
        \/ next'[p] = Oldest /\ start'[p] \in Nat
    BY <1>3, <2>1 DEF Subscribe, Lag, TypeOK
  <2>4. \A i \in Oldest..Len(sent) : i \notin start'[p]..(next'[p] - 1)
    BY <2>1, <2>3
  <2>5. QED
    BY <2>1, <2>2, <2>4 DEF KeptInv
<1>4. ASSUME NEW p \in Pages, Receive(p) PROVE KeptInv'
  <2>1. sent' = sent /\ Oldest' = Oldest /\ stream' = stream /\ start' = start
    BY <1>4 DEF Receive, log, Oldest
  <2>2. \A q \in Pages \ {p} : got'[q] = got[q] /\ next'[q] = next[q]
    BY <1>4 DEF Receive, TypeOK
  <2>3. /\ got[p] \in Seq(1..logged) /\ got'[p] = Append(got[p], sent[next[p]])
        /\ next'[p] = next[p] + 1 /\ next[p] \in Nat /\ start[p] \in Nat
    <3>1. got'[p] = Append(got[p], sent[next[p]]) /\ next'[p] = next[p] + 1
      BY <1>4 DEF Receive, TypeOK
    <3>2. QED
      BY <3>1, PageType
  <2>4. Contains(got'[p], sent[next[p]])
    BY <2>3 DEF Contains
  <2>5. \A e : Contains(got[p], e) => Contains(got'[p], e)
    BY <2>3 DEF Contains
  <2>6. SUFFICES ASSUME NEW i \in Oldest..Len(sent), i \in start[p]..(next'[p] - 1), stream[p] = "open"
                 PROVE  Contains(got'[p], sent[i])
    BY <2>1, <2>2 DEF KeptInv
  <2>7. CASE i = next[p]
    BY <2>4, <2>7
  <2>8. CASE i # next[p]
    <3>1. i \in start[p]..(next[p] - 1)
      BY <2>3, <2>6, <2>8
    <3>2. QED
      BY <2>5, <2>6, <3>1 DEF KeptInv
  <2>9. QED
    BY <2>7, <2>8
<1>5. ASSUME NEW p \in Pages, \/ OpenPage(p) \/ StreamFails(p) \/ Reconnect(p) \/ ClosePage(p)
      PROVE  KeptInv'
  <2>1. /\ sent' = sent /\ Oldest' = Oldest
        /\ next' = next /\ start' = start /\ got' = got
    BY <1>5 DEF OpenPage, StreamFails, Reconnect, ClosePage, log, Oldest
  <2>2. \A q \in Pages : stream'[q] = "open" => stream[q] = "open"
    BY <1>5 DEF OpenPage, StreamFails, Reconnect, ClosePage, TypeOK
  <2>3. QED
    BY <2>1, <2>2 DEF KeptInv
<1>6. ASSUME NEW p \in Pages, \/ ServeHistory(p) \/ ShowHistory(p) \/ Clear(p) \/ ClearRows(p)
      PROVE  KeptInv'
  BY <1>1, <1>6 DEF ServeHistory, ShowHistory, Clear, ClearRows, events, log
<1>7. ASSUME NEW w \in Writers, Push(w) PROVE KeptInv'
  BY <1>1, <1>7 DEF Push, events
<1>8. QED
  BY <1>1, <1>2, <1>3, <1>4, <1>5, <1>6, <1>7 DEF Next, StreamStep, vars, log, events

\* A stream delivers entries in the order of the ring, none twice, and has
\* skipped none that the channel still keeps.
THEOREM StreamsInOrder == Spec => []StreamInOrder
<1>1. Init => StreamInv
  <2>1. SUFFICES ASSUME Init PROVE StreamInv
    OBVIOUS
  <2>2. SentInv /\ GotInv
    BY <2>1 DEF Init, SentInv, GotInv
  <2>3. KeptInv
    BY <2>1 DEF Init, KeptInv
  <2>4. QED
    BY <2>2, <2>3 DEF StreamInv
<1>2. TypeOK /\ StreamInv /\ [Next]_vars => StreamInv'
  BY StepSentInv, StepGotInv, StepKeptInv DEF StreamInv
<1>3. StreamInv => StreamInOrder
  BY DEF StreamInv, GotInv, KeptInv, StreamInOrder
<1>4. QED
  BY <1>1, <1>2, <1>3, TypeCorrect, PTL DEF Spec

=============================================================================
