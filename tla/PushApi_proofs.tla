---------------------------- MODULE PushApi_proofs ----------------------------
(***************************************************************************)
(* Proofs about PushApi, for any requests, keys, aliases and entries, and   *)
(* any number of pushes and panel requests at once.                         *)
(***************************************************************************)
EXTENDS PushApi, SequenceTheorems, WellFoundedInduction, TLAPS

----------------------------------------------------------------------------
(* The operators *)

LEMMA Bounds == Blank \notin Keys /\ Blank \notin Aliases /\ Words # Blank /\ MaxKeys \in Nat
BY ApiAssumption

\* Numbers below each other, as the pairs that WellFoundedInduction wants.
Less == {ss \in Nat \X Nat : ss[1] < ss[2]}

LEMMA LeastNumber ==
  ASSUME NEW T \in SUBSET Nat, T # {}
  PROVE  \E x \in T : \A y \in T : x <= y
<1>1. IsWellFoundedOn(Less, Nat)
  BY NatLessThanWellFounded DEF OpToRel, Less
<1>2. PICK x \in T : \A y \in T : ~(<<y, x>> \in Less)
  BY <1>1, WFMin
<1>3. \A y \in T : ~(y < x)
  BY <1>2 DEF Less
<1>4. QED
  BY <1>3

\* Induction, for a set of numbers.
LEMMA AllNumbers ==
  ASSUME NEW T \in SUBSET Nat, 0 \in T, \A n \in Nat : n \in T => n + 1 \in T
  PROVE  T = Nat
<1>1. SUFFICES ASSUME Nat \ T # {} PROVE FALSE
  OBVIOUS
<1>2. PICK x \in Nat \ T : \A y \in Nat \ T : x <= y
  BY <1>1, LeastNumber
<1>3. x - 1 \in Nat
  BY <1>2
<1>4. QED
  BY <1>2, <1>3

\* The equations of Sift, which its definition by recursion has to be shown to meet.
LEMMA SiftIs ==
  ASSUME NEW S, NEW s \in Seq(S), NEW K
  PROVE  /\ Sift(s, K) \in [0..Len(s) -> Seq(S)]
         /\ Sift(s, K)[0] = <<>>
         /\ \A n \in 1..Len(s) :
              Sift(s, K)[n] = IF s[n] \in K THEN Append(Sift(s, K)[n - 1], s[n]) ELSE Sift(s, K)[n - 1]
<1> DEFINE Eq(g, m) ==
             \A n \in 0..m :
               g[n] = IF n = 0 THEN <<>> ELSE IF s[n] \in K THEN Append(g[n - 1], s[n]) ELSE g[n - 1]
           T == {m \in Nat : m <= Len(s) => \E g \in [0..m -> Seq(S)] : Eq(g, m)}
<1>1. 0 \in T
  <2> DEFINE g == [n \in 0..0 |-> <<>>]
  <2>1. g \in [0..0 -> Seq(S)] /\ Eq(g, 0)
    OBVIOUS
  <2>2. QED
    BY <2>1
<1>2. ASSUME NEW m \in Nat, m \in T PROVE m + 1 \in T
  <2> SUFFICES ASSUME m + 1 <= Len(s) PROVE \E g \in [0..m + 1 -> Seq(S)] : Eq(g, m + 1)
    OBVIOUS
  <2>1. PICK g \in [0..m -> Seq(S)] : Eq(g, m)
    <3> HIDE DEF Eq
    <3>1. m <= Len(s)
      OBVIOUS
    <3>2. QED
      BY <1>2, <3>1
  <2> DEFINE last == IF s[m + 1] \in K THEN Append(g[m], s[m + 1]) ELSE g[m]
             h == [n \in 0..m + 1 |-> IF n = m + 1 THEN last ELSE g[n]]
  <2>2. s[m + 1] \in S /\ g[m] \in Seq(S)
    BY <2>1
  <2>3. h \in [0..m + 1 -> Seq(S)]
    BY <2>1, <2>2
  <2>4. ASSUME NEW n \in 0..m + 1
        PROVE  h[n] = IF n = 0 THEN <<>> ELSE IF s[n] \in K THEN Append(h[n - 1], s[n]) ELSE h[n - 1]
    <3>1. CASE n = m + 1
      <4>1. n - 1 = m /\ n # 0 /\ h[n - 1] = g[m]
        BY <3>1
      <4>2. QED
        BY <3>1, <4>1
    <3>2. CASE n \in 0..m
      <4>1. h[n] = g[n] /\ (n # 0 => h[n - 1] = g[n - 1])
        BY <3>2
      <4>2. QED
        BY <2>1, <3>2, <4>1
    <3>3. QED
      BY <3>1, <3>2
  <2>5. QED
    BY <2>3, <2>4
<1>3. T = Nat
  <2> HIDE DEF T
  <2>1. QED
    BY <1>1, <1>2, AllNumbers DEF T
<1>4. PICK g \in [0..Len(s) -> Seq(S)] : Eq(g, Len(s))
  <2>1. Len(s) \in T
    BY <1>3
  <2>2. QED
    BY <2>1
<1>5. g = [n \in 0..Len(s) |->
             IF n = 0 THEN <<>> ELSE IF s[n] \in K THEN Append(g[n - 1], s[n]) ELSE g[n - 1]]
  BY <1>4
<1> DEFINE f == Sift(s, K)
<1>6. f = [n \in 0..Len(s) |->
             IF n = 0 THEN <<>> ELSE IF s[n] \in K THEN Append(f[n - 1], s[n]) ELSE f[n - 1]]
  BY <1>5 DEF Sift
<1> HIDE DEF f
<1>7. /\ f[0] = <<>>
      /\ \A n \in 1..Len(s) : f[n] = IF s[n] \in K THEN Append(f[n - 1], s[n]) ELSE f[n - 1]
  <2>1. \A n \in 0..Len(s) :
          f[n] = IF n = 0 THEN <<>> ELSE IF s[n] \in K THEN Append(f[n - 1], s[n]) ELSE f[n - 1]
    BY <1>6
  <2>2. 0 \in 0..Len(s) /\ \A n \in 1..Len(s) : n \in 0..Len(s) /\ n # 0
    OBVIOUS
  <2>3. QED
    BY <2>1, <2>2
<1> DEFINE U == {m \in Nat : m <= Len(s) => f[m] \in Seq(S)}
<1>8. U = Nat
  <2>1. 0 \in U
    <3>1. f[0] \in Seq(S)
      BY <1>7
    <3>2. QED
      BY <3>1
  <2>2. ASSUME NEW m \in Nat, m \in U PROVE m + 1 \in U
    <3> SUFFICES ASSUME m + 1 <= Len(s) PROVE f[m + 1] \in Seq(S)
      OBVIOUS
    <3>1. m + 1 \in 1..Len(s) /\ f[m] \in Seq(S) /\ s[m + 1] \in S /\ m + 1 - 1 = m
      BY <2>2
    <3>2. f[m + 1] = IF s[m + 1] \in K THEN Append(f[m], s[m + 1]) ELSE f[m]
      BY <1>7, <3>1
    <3>3. QED
      BY <3>1, <3>2
  <2> HIDE DEF U
  <2>3. QED
    BY <2>1, <2>2, AllNumbers DEF U
<1>9. \A n \in 0..Len(s) : f[n] \in Seq(S)
  BY <1>8
<1>10. f \in [0..Len(s) -> Seq(S)]
  BY <1>6, <1>9
<1>11. QED
  BY <1>7, <1>10 DEF f

\* Where in s the elements come from that Retain leaves: they keep their order, and those
\* of K are all there.
LEMMA RetainIs ==
  ASSUME NEW S, NEW s \in Seq(S), NEW K
  PROVE  /\ Retain(s, K) \in Seq(S)
         /\ \E h \in [1..Len(Retain(s, K)) -> 1..Len(s)] :
              /\ \A i, j \in 1..Len(Retain(s, K)) : i < j => h[i] < h[j]
              /\ \A i \in 1..Len(Retain(s, K)) : Retain(s, K)[i] = s[h[i]] /\ s[h[i]] \in K
<1> DEFINE f == Sift(s, K)
           P(m) == \E h \in [1..Len(f[m]) -> 1..m] :
                     /\ \A i, j \in 1..Len(f[m]) : i < j => h[i] < h[j]
                     /\ \A i \in 1..Len(f[m]) : f[m][i] = s[h[i]] /\ s[h[i]] \in K
           T == {m \in Nat : m <= Len(s) => P(m)}
<1>1. /\ f \in [0..Len(s) -> Seq(S)] /\ f[0] = <<>>
      /\ \A n \in 1..Len(s) : f[n] = IF s[n] \in K THEN Append(f[n - 1], s[n]) ELSE f[n - 1]
  BY SiftIs
<1> HIDE DEF f
<1>2. 0 \in T
  <2> DEFINE h == [i \in 1..0 |-> 0]
  <2>1. Len(f[0]) = 0 /\ \A i \in 1..0 : FALSE
    BY <1>1
  <2>2. h \in [1..Len(f[0]) -> 1..0]
    BY <2>1
  <2>3. /\ \A i, j \in 1..Len(f[0]) : i < j => h[i] < h[j]
        /\ \A i \in 1..Len(f[0]) : f[0][i] = s[h[i]] /\ s[h[i]] \in K
    BY <2>1
  <2>4. P(0)
    BY <2>2, <2>3
  <2>5. QED
    BY <2>4
<1>3. ASSUME NEW m \in Nat, m \in T PROVE m + 1 \in T
  <2> SUFFICES ASSUME m + 1 <= Len(s) PROVE P(m + 1)
    OBVIOUS
  <2>1. PICK h \in [1..Len(f[m]) -> 1..m] :
          /\ \A i, j \in 1..Len(f[m]) : i < j => h[i] < h[j]
          /\ \A i \in 1..Len(f[m]) : f[m][i] = s[h[i]] /\ s[h[i]] \in K
    BY <1>3
  <2>2. m + 1 \in 1..Len(s) /\ m + 1 - 1 = m /\ m \in 0..Len(s) /\ s[m + 1] \in S
    OBVIOUS
  <2>3. f[m + 1] = IF s[m + 1] \in K THEN Append(f[m], s[m + 1]) ELSE f[m]
    BY <1>1, <2>2
  <2>4. f[m] \in Seq(S) /\ Len(f[m]) \in Nat
    <3>1. f[m] \in Seq(S)
      BY <1>1, <2>2, Zenon
    <3>2. QED
      BY <3>1
  <2>5. CASE s[m + 1] \notin K
    <3>1. f[m + 1] = f[m] /\ h \in [1..Len(f[m]) -> 1..m + 1]
      BY <2>1, <2>3, <2>5
    <3>2. QED
      BY <2>1, <3>1
  <2>6. CASE s[m + 1] \in K
    <3> DEFINE n == Len(f[m])
               g == [i \in 1..n + 1 |-> IF i = n + 1 THEN m + 1 ELSE h[i]]
    <3>1. /\ f[m + 1] = Append(f[m], s[m + 1]) /\ Len(f[m + 1]) = n + 1
          /\ f[m + 1][n + 1] = s[m + 1] /\ \A i \in 1..n : f[m + 1][i] = f[m][i]
      BY <2>2, <2>3, <2>4, <2>6
    <3>2. \A i \in 1..n : h[i] \in 1..m /\ i # n + 1
      BY <2>1, <2>4
    <3>3. \A i \in 1..n + 1 : i = n + 1 \/ i \in 1..n
      BY <2>4
    <3>4. ASSUME NEW i \in 1..n + 1 PROVE (IF i = n + 1 THEN m + 1 ELSE h[i]) \in 1..m + 1
      BY <3>2, <3>3
    <3>5. g \in [1..Len(f[m + 1]) -> 1..m + 1] /\ g[n + 1] = m + 1 /\ \A i \in 1..n : g[i] = h[i]
      BY <2>4, <3>1, <3>2, <3>4
    <3>6. ASSUME NEW i \in 1..Len(f[m + 1]), NEW j \in 1..Len(f[m + 1]), i < j PROVE g[i] < g[j]
      <4>1. i \in 1..n /\ (j = n + 1 \/ j \in 1..n)
        BY <2>4, <3>1, <3>6
      <4>2. h[i] < m + 1
        BY <3>2, <4>1
      <4>3. QED
        BY <2>1, <3>5, <3>6, <4>1, <4>2
    <3>7. ASSUME NEW i \in 1..Len(f[m + 1]) PROVE f[m + 1][i] = s[g[i]] /\ s[g[i]] \in K
      <4>1. i = n + 1 \/ i \in 1..n
        BY <2>4, <3>1
      <4>2. QED
        BY <2>1, <2>6, <3>1, <3>5, <4>1
    <3>8. QED
      BY <3>5, <3>6, <3>7
  <2>7. QED
    BY <2>5, <2>6
<1>4. P(Len(s))
  <2>1. T = Nat
    <3> HIDE DEF T
    <3>1. QED
      BY <1>2, <1>3, AllNumbers DEF T
  <2>2. Len(s) \in T
    <3> HIDE DEF T
    <3>1. Len(s) \in Nat
      OBVIOUS
    <3>2. QED
      BY <2>1, <3>1
  <2>3. QED
    <3> HIDE DEF P
    <3>1. QED
      BY <2>2 DEF T
<1>5. f[Len(s)] \in Seq(S) /\ f[Len(s)] = Retain(s, K)
  BY <1>1 DEF Retain, f
<1>6. QED
  BY <1>4, <1>5

----------------------------------------------------------------------------
(* Type correctness *)

\* What requests may carry, and what the panel lists.
Parts  == UNION {UNION {Range(value) : value \in Range(q.query) \cup Range(q.body)} : q \in Requests}
Params == {Merged(q) : q \in Requests} \cup {<<>>}
Targets == Parts \cup Keys
Listing == [key : Keys, alias : Aliases \cup {Blank}, form : {"text", "object"}]
Additions == {<<>>} \cup {<<e>> : e \in Listing}
Update == [pc : {"idle", "checked", "draft"}, add : Additions, del : SUBSET Keys, list : Seq(Listing)]
Progress ==
  [pc : {"idle", "lookup", "check", "publish", "answered"}, p : Params,
   words : SUBSET {"root", "title", "content"}, key : Seq(Targets), todo : Seq(Targets),
   done : Seq([key : Targets, ok : BOOLEAN]), reply : Refusals \cup {"", "success", "failed"}]

\* The panel's list and its updates, the requests, and the histories.
TypeOK ==
  /\ entries \in Seq(Listing)
  /\ op \in [Handlers -> Update]
  /\ \A h \in Handlers : op[h].pc = "checked" => op[h].add # <<>>
  /\ req \in [Pushers -> Progress]
  /\ gone \subseteq Keys
  /\ barred \in [Pushers -> SUBSET Keys] /\ owners \in [Pushers -> SUBSET Keys]

LEMMA LeastIs ==
  ASSUME NEW T \in SUBSET Nat, T # {}
  PROVE  Min(T) \in T
BY LeastNumber DEF Min

LEMMA OwnerIs ==
  ASSUME NEW list \in Seq(Listing), NEW a
  PROVE  \/ /\ Owner(list, a) = <<>>
            /\ a # Blank => \A i \in DOMAIN list : list[i].alias # a
         \/ /\ a # Blank
            /\ \E i \in DOMAIN list : list[i].alias = a /\ Owner(list, a) = <<list[i].key>>
<1> DEFINE I == {i \in 1..Len(list) : list[i].alias = a}
           m == SelectInSeq(list, LAMBDA e : e.alias = a)
<1>1. m = IF I # {} THEN Min(I) ELSE 0
  BY DEF SelectInSeq
<1>2. I \in SUBSET Nat /\ DOMAIN list = 1..Len(list) /\ Len(list) \in Nat
  OBVIOUS
<1>3. Owner(list, a) = IF m = 0 \/ a = Blank THEN <<>> ELSE <<list[m].key>>
  BY DEF Owner
<1> HIDE DEF m
<1>4. CASE I = {}
  BY <1>1, <1>2, <1>3, <1>4
<1>5. CASE I # {}
  <2>1. m \in I
    BY <1>1, <1>2, <1>5, LeastIs
  <2>2. m \in 1..Len(list) /\ list[m].alias = a /\ m # 0
    BY <2>1
  <2>3. QED
    BY <1>2, <1>3, <2>2
<1>6. QED
  BY <1>4, <1>5

LEMMA ParamIs ==
  ASSUME NEW p \in Params, NEW n
  PROVE  Text(p, n) \in Seq(Parts)
<1>1. CASE n \notin DOMAIN p
  BY <1>1 DEF Text
<1>2. CASE n \in DOMAIN p
  <2>1. PICK q \in Requests : p = Merged(q)
    BY <1>2 DEF Params
  <2>2. p[n] \in Range(q.query) \cup Range(q.body)
    BY <1>2, <2>1 DEF Merged, Range
  <2>3. p[n] \in Seq(Range(p[n]))
    BY <2>1, <2>2, ApiAssumption
  <2>4. Range(p[n]) \subseteq Parts
    BY <2>1, <2>2 DEF Parts
  <2>5. QED
    BY <1>2, <2>3, <2>4 DEF Text
<1>3. QED
  BY <1>1, <1>2

----------------------------------------------------------------------------
(* Type correctness *)

LEMMA InitTypeOK == Init => TypeOK
<1> SUFFICES ASSUME Init PROVE TypeOK
  OBVIOUS
<1>1. entries \in Seq(Listing)
  <2>1. CASE entries = <<>>
    BY <2>1
  <2>2. CASE entries # <<>>
    <3>1. PICK e \in [key : Bare, alias : {Blank}, form : {"text"}] : entries = <<e>>
      BY <2>2 DEF Init
    <3>2. e \in Listing
      BY <3>1, ApiAssumption DEF Listing
    <3>3. QED
      BY <3>1, <3>2
  <2>3. QED
    BY <2>1, <2>2
<1>2. Idle \in Progress
  BY DEF Idle, Progress, Params, Refusals
<1>3. Resting \in Update /\ Resting.pc = "idle"
  BY DEF Resting, Update, Additions
<1>4. QED
  BY <1>1, <1>2, <1>3 DEF Init, TypeOK

LEMMA RangeAppend == ASSUME NEW S, NEW s \in Seq(S), NEW e \in S PROVE Range(Append(s, e)) = Range(s) \cup {e}
<1>1. /\ DOMAIN s = 1..Len(s) /\ DOMAIN Append(s, e) = 1..Len(s) + 1 /\ Len(s) \in Nat
      /\ Append(s, e)[Len(s) + 1] = e /\ \A i \in 1..Len(s) : Append(s, e)[i] = s[i]
  OBVIOUS
<1>2. \A i \in 1..Len(s) + 1 : i = Len(s) + 1 \/ i \in 1..Len(s)
  BY <1>1
<1>3. Len(s) + 1 \in 1..Len(s) + 1 /\ \A i \in 1..Len(s) : i \in 1..Len(s) + 1
  BY <1>1
<1>4. QED
  BY <1>1, <1>2, <1>3 DEF Range

\* The list with the entry that has been checked at its end.
LEMMA AddedIs ==
  ASSUME TypeOK, NEW h \in Handlers, op[h].pc = "checked"
  PROVE  \E e \in Listing :
           /\ op[h].add = <<e>> /\ Head(op[h].add) = e /\ Range(op[h].add) = {e}
           /\ entries \o op[h].add = Append(entries, e) /\ Append(entries, e) \in Seq(Listing)
           /\ Range(Append(entries, e)) = Range(entries) \cup {e}
<1>1. PICK e \in Listing : op[h].add = <<e>>
  BY DEF TypeOK, Update, Additions
<1>2. entries \in Seq(Listing)
  BY DEF TypeOK
<1>3. entries \o <<e>> = Append(entries, e) /\ Append(entries, e) \in Seq(Listing)
  BY <1>2
<1>4. Range(Append(entries, e)) = Range(entries) \cup {e}
  BY <1>2, RangeAppend
<1>5. Range(<<e>>) = {e}
  BY DEF Range
<1>6. QED
  BY <1>1, <1>3, <1>4, <1>5

\* The list without the entries of a key.
LEMMA DeletedIs ==
  ASSUME TypeOK, NEW k \in Keys, NEW list, list = Retain(entries, {e \in Range(entries) : e.key # k})
  PROVE  /\ list \in Seq(Listing) /\ Range(list) \subseteq Range(entries) /\ k \notin KeysOf(list)
         /\ \E f \in [1..Len(list) -> 1..Len(entries)] :
              /\ \A i, j \in 1..Len(list) : i < j => f[i] < f[j]
              /\ \A i \in 1..Len(list) : list[i] = entries[f[i]]
<1> DEFINE K == {e \in Range(entries) : e.key # k}
<1>1. entries \in Seq(Listing) /\ list = Retain(entries, K)
  BY DEF TypeOK
<1>2. PICK f \in [1..Len(list) -> 1..Len(entries)] :
        /\ \A i, j \in 1..Len(list) : i < j => f[i] < f[j]
        /\ \A i \in 1..Len(list) : list[i] = entries[f[i]] /\ entries[f[i]] \in K
  <2>1. \E h \in [1..Len(Retain(entries, K)) -> 1..Len(entries)] :
          /\ \A i, j \in 1..Len(Retain(entries, K)) : i < j => h[i] < h[j]
          /\ \A i \in 1..Len(Retain(entries, K)) :
               Retain(entries, K)[i] = entries[h[i]] /\ entries[h[i]] \in K
    <3> HIDE DEF K
    <3>1. QED
      BY <1>1, RetainIs, Zenon
  <2> HIDE DEF K
  <2>2. QED
    BY <1>1, <2>1, Zenon
<1>3. list \in Seq(Listing)
  BY <1>1, RetainIs
<1>4. \A e \in Range(list) : e \in K
  BY <1>2, <1>3 DEF Range
<1>5. QED
  BY <1>2, <1>3, <1>4 DEF KeysOf

\* What a list names by an alias.
LEMMA NamedType == ASSUME NEW list \in Seq(Listing), NEW p PROVE Named(list, p) \subseteq Keys
<1>1. \A i \in DOMAIN list : list[i].key \in Keys
  <2>1. DOMAIN list = 1..Len(list) /\ \A i \in 1..Len(list) : list[i] \in Listing
    OBVIOUS
  <2>2. QED
    BY <2>1 DEF Listing
<1>2. QED
  BY <1>1 DEF Named

LEMMA SeesType ==
  ASSUME TypeOK, NEW added, entries' \in Seq(Listing), Sees(entries', added)
  PROVE  barred' \in [Pushers -> SUBSET Keys] /\ owners' \in [Pushers -> SUBSET Keys]
<1>1. \A r \in Pushers : Named(entries', req[r].p) \subseteq Keys
  BY NamedType
<1>2. QED
  BY <1>1 DEF Sees, TypeOK

LEMMA RestingIs ==
  /\ Resting \in Update /\ Resting.pc = "idle" /\ Resting.list = <<>>
  /\ Range(Resting.add) = {} /\ Range(Resting.list) = {}
BY DEF Resting, Update, Additions, Range

LEMMA DraftType ==
  ASSUME TypeOK, NEW h \in Handlers, NEW list \in Seq(Listing), NEW add \in Additions, NEW del \in SUBSET Keys,
         Draft(h, list, add, del)
  PROVE  TypeOK'
<1> DEFINE u == [pc |-> "draft", add |-> add, del |-> del, list |-> list]
<1>1. u \in Update /\ u.pc = "draft"
  BY DEF Update
<1>2. op' = [op EXCEPT ![h] = u] /\ UNCHANGED <<entries, gone, barred, owners, req>>
  BY DEF Draft, seen
<1> HIDE DEF u
<1>3. QED
  BY <1>1, <1>2 DEF TypeOK

\* Panel requests leave the progress of pushes alone.
LEMMA PanelType ==
  ASSUME TypeOK, NEW h \in Handlers, PanelStep(h)
  PROVE  TypeOK'
<1>0. op \in [Handlers -> Update] /\ entries \in Seq(Listing) /\ <<>> \in Additions
  BY DEF TypeOK, Additions
<1>1. ASSUME NEW k \in Keys, NEW a \in Aliases \cup {Blank}, CheckEntry(h, k, a) PROVE TypeOK'
  <2> DEFINE u == [Resting EXCEPT !.pc = "checked", !.add = <<Entry(k, a)>>]
  <2>1. Entry(k, a) \in Listing
    BY DEF Entry, Listing
  <2>2. u \in Update /\ u.add # <<>>
    <3>1. <<Entry(k, a)>> \in Additions /\ <<Entry(k, a)>> # <<>>
      <4>1. \A e \in Listing : <<e>> \in Additions
        BY DEF Additions
      <4>2. \A e : <<e>> # <<>>
        OBVIOUS
      <4>3. QED
        BY <2>1, <4>1, <4>2, Zenon
    <3>2. u \in Update /\ u.add = <<Entry(k, a)>>
      BY <3>1, RestingIs DEF Update
    <3>3. QED
      BY <3>1, <3>2
  <2>3. op' = [op EXCEPT ![h] = u] /\ UNCHANGED <<entries, gone, barred, owners, req>>
    BY <1>1 DEF CheckEntry, seen
  <2> HIDE DEF u
  <2>4. QED
    BY <2>2, <2>3 DEF TypeOK
<1>2. ASSUME NEW k \in Keys, DraftDelete(h, k) PROVE TypeOK'
  <2> DEFINE list == Retain(entries, {e \in Range(entries) : e.key # k})
  <2>1. list \in Seq(Listing)
    BY DeletedIs
  <2>2. Draft(h, list, <<>>, {k})
    BY <1>2 DEF DraftDelete
  <2> HIDE DEF list
  <2>3. QED
    BY <1>0, <2>1, <2>2, DraftType
<1>3. CASE DraftEntry(h)
  <2> DEFINE list == entries \o op[h].add
  <2>1. op[h].add \in Additions /\ list \in Seq(Listing)
    BY <1>0, <1>3, AddedIs DEF DraftEntry, Update
  <2>2. Draft(h, list, op[h].add, {}) /\ {} \in SUBSET Keys
    BY <1>3 DEF DraftEntry
  <2> HIDE DEF list
  <2>3. QED
    BY <2>1, <2>2, DraftType
<1>4. CASE DraftOther(h)
  BY <1>0, <1>4, DraftType DEF DraftOther
<1>5. CASE Save(h)
  <2>1. entries' \in Seq(Listing) /\ op[h].del \subseteq Keys
    BY <1>0, <1>5 DEF Save, Update
  <2>2. barred' \in [Pushers -> SUBSET Keys] /\ owners' \in [Pushers -> SUBSET Keys]
    BY <1>5, <2>1, SeesType DEF Save
  <2>3. gone' \subseteq Keys
    BY <1>5, <2>1 DEF Save, TypeOK
  <2>4. QED
    BY <1>5, <2>1, <2>2, <2>3, RestingIs DEF Save, TypeOK
<1>6. CASE SaveFails(h)
  BY <1>6, RestingIs DEF SaveFails, TypeOK, seen
<1>7. QED
  BY <1>1, <1>2, <1>3, <1>4, <1>5, <1>6 DEF PanelStep

\* What the checks answer: the first that fails, if one does.
LEMMA ChecksAre ==
  ASSUME NEW r \in Pushers, Check(r), TypeOK
  PROVE  \/ \E i \in 1..7 : /\ Checks(r)[i].bad
                            /\ req' = [req EXCEPT ![r].pc = "answered", ![r].reply = Checks(r)[i].reply]
         \/ /\ \A i \in 1..7 : ~Checks(r)[i].bad
            /\ req' = [req EXCEPT ![r].pc = "publish", ![r].reply = "success", ![r].todo = req[r].key]
<1> DEFINE I == {i \in 1..Len(Checks(r)) : Checks(r)[i].bad}
           m == SelectInSeq(Checks(r), LAMBDA c : c.bad)
<1>1. m = IF I # {} THEN Min(I) ELSE 0
  BY DEF SelectInSeq
<1>2. Len(Checks(r)) = 7
  BY DEF Checks
<1>3. req' = IF m # 0
               THEN [req EXCEPT ![r].pc = "answered", ![r].reply = Checks(r)[m].reply]
               ELSE [req EXCEPT ![r].pc = "publish", ![r].reply = "success", ![r].todo = req[r].key]
  BY DEF Check
<1> HIDE DEF m
<1>4. CASE I = {}
  BY <1>1, <1>2, <1>3, <1>4
<1>5. CASE I # {}
  <2>1. m \in I
    BY <1>1, <1>2, <1>5, LeastIs
  <2>2. m \in 1..7 /\ Checks(r)[m].bad /\ m # 0
    BY <1>2, <2>1
  <2>3. QED
    BY <1>3, <2>2
<1>6. QED
  BY <1>4, <1>5

LEMMA RepliesAre ==
  ASSUME NEW r
  PROVE  /\ Checks(r)[1].reply = "banner" /\ Checks(r)[2].reply = "key type" /\ Checks(r)[3].reply = "empty key"
         /\ Checks(r)[4].reply = "bad format" /\ Checks(r)[5].reply = "too many keys"
         /\ Checks(r)[6].reply = "illegal key" /\ Checks(r)[7].reply = "empty message"
BY DEF Checks

LEMMA RefusalIs == ASSUME NEW r, NEW i \in 1..7 PROVE Checks(r)[i].reply \in Refusals
<1>1. i = 1 \/ i = 2 \/ i = 3 \/ i = 4 \/ i = 5 \/ i = 6 \/ i = 7
  OBVIOUS
<1>2. QED
  BY <1>1, RepliesAre DEF Refusals

LEMMA AcceptedIs ==
  ASSUME NEW r, \A i \in 1..7 : ~Checks(r)[i].bad
  PROVE  req[r].key # <<>> /\ req[r].key # <<Blank>> /\ Range(req[r].key) \subseteq Listed \cup {Blank}
<1>1. ~Checks(r)[3].bad /\ ~Checks(r)[6].bad
  OBVIOUS
<1>2. /\ Checks(r)[3].bad = (req[r].key \in {<<>>, <<Blank>>})
      /\ Checks(r)[6].bad = ~(Range(req[r].key) \subseteq Listed \cup {Blank})
  BY DEF Checks
<1>3. QED
  BY <1>1, <1>2

\* How a push goes on, with what its record becomes.
Going(r, x) ==
  /\ req' = [req EXCEPT ![r] = x]
  /\ \/ /\ req[r].pc = "lookup" /\ x.pc = "check" /\ UNCHANGED <<panel, seen>>
        /\ x.todo = req[r].todo /\ x.done = req[r].done /\ x.reply = req[r].reply
        /\ x.p = req[r].p /\ x.words = req[r].words
        /\ x.key = IF Text(req[r].p, "push_key") = <<>> /\ Len(Text(req[r].p, "temp_key")) = 1
                     THEN Owner(entries, Text(req[r].p, "temp_key")[1]) ELSE Text(req[r].p, "push_key")
     \/ /\ req[r].pc = "check" /\ UNCHANGED <<panel, seen>>
        /\ x.key = req[r].key /\ x.done = req[r].done /\ x.p = req[r].p /\ x.words = req[r].words
        /\ \/ /\ x.pc = "answered" /\ x.todo = req[r].todo
              /\ \E i \in 1..7 : Checks(r)[i].bad /\ x.reply = Checks(r)[i].reply
           \/ /\ x.pc = "publish" /\ x.todo = req[r].key /\ x.reply = "success"
              /\ \A i \in 1..7 : ~Checks(r)[i].bad
     \/ /\ req[r].pc = "publish" /\ req[r].todo # <<>> /\ x.pc = "publish" /\ UNCHANGED <<panel, seen>>
        /\ x.key = req[r].key /\ x.p = req[r].p /\ x.words = req[r].words /\ x.todo = Tail(req[r].todo)
        /\ \/ /\ Head(req[r].todo) = Blank /\ x.done = req[r].done /\ x.reply = req[r].reply
           \/ /\ Head(req[r].todo) # Blank
              /\ \E ok \in BOOLEAN :
                   /\ x.done = Append(req[r].done, [key |-> Head(req[r].todo), ok |-> ok])
                   /\ x.reply = IF ~ok /\ Len(req[r].key) = 1 THEN "failed" ELSE req[r].reply
     \/ /\ req[r].pc = "publish" /\ req[r].todo = <<>> /\ x.pc = "answered" /\ UNCHANGED <<panel, seen>>
        /\ x.key = req[r].key /\ x.p = req[r].p /\ x.words = req[r].words /\ x.todo = req[r].todo
        /\ x.done = req[r].done /\ x.reply = req[r].reply
     \/ /\ req[r].pc = "answered" /\ x = Idle /\ UNCHANGED panel
        /\ barred' = [barred EXCEPT ![r] = {}] /\ owners' = [owners EXCEPT ![r] = {}]
     \/ /\ req[r].pc = "idle" /\ x.pc = "lookup" /\ UNCHANGED panel
        /\ x.key = <<>> /\ x.todo = <<>> /\ x.done = <<>> /\ x.reply = ""
        /\ barred' = [barred EXCEPT ![r] = gone] /\ owners' = [owners EXCEPT ![r] = Named(entries, x.p)]

LEMMA PushGoes ==
  ASSUME TypeOK, NEW r \in Pushers,
         (\E q \in Requests : Ask(r, q)) \/ PushStep(r) \/ Close(r)
  PROVE  \E x \in Progress : Going(r, x)
<1>0. req[r] \in Progress /\ req \in [Pushers -> Progress]
  BY DEF TypeOK
<1>1. CASE \E q \in Requests : Ask(r, q)
  <2>1. PICK q \in Requests : Ask(r, q)
    BY <1>1
  <2> DEFINE x == [Idle EXCEPT !.pc = "lookup", !.p = Merged(q), !.words = q.words]
  <2>2. /\ Idle \in Progress /\ Idle.key = <<>> /\ Idle.todo = <<>> /\ Idle.done = <<>> /\ Idle.reply = ""
    BY DEF Idle, Progress, Params, Refusals
  <2>3. q.words \in SUBSET {"root", "title", "content"} /\ Merged(q) \in Params
    BY ApiAssumption DEF Params
  <2>4. /\ x \in Progress /\ x.pc = "lookup" /\ x.p = Merged(q)
        /\ x.key = <<>> /\ x.todo = <<>> /\ x.done = <<>> /\ x.reply = ""
    <3> HIDE DEF Idle
    <3>1. QED
      BY <2>2, <2>3 DEF Progress
  <2>5. /\ req[r].pc = "idle" /\ req' = [req EXCEPT ![r] = x] /\ UNCHANGED panel
        /\ barred' = [barred EXCEPT ![r] = gone] /\ owners' = [owners EXCEPT ![r] = Named(entries, Merged(q))]
    BY <2>1 DEF Ask
  <2> HIDE DEF x
  <2>6. Going(r, x)
    BY <2>4, <2>5 DEF Going
  <2>7. QED
    BY <2>4, <2>6
<1>2. CASE LookUp(r)
  <2> DEFINE key == IF Text(req[r].p, "push_key") = <<>> /\ Len(Text(req[r].p, "temp_key")) = 1
                      THEN Owner(entries, Text(req[r].p, "temp_key")[1]) ELSE Text(req[r].p, "push_key")
             x == [req[r] EXCEPT !.pc = "check", !.key = key]
  <2>1. key \in Seq(Targets)
    <3>1. Text(req[r].p, "push_key") \in Seq(Targets)
      <4>1. req[r].p \in Params
        BY <1>0 DEF Progress
      <4>2. Text(req[r].p, "push_key") \in Seq(Parts)
        BY <4>1, ParamIs
      <4>3. QED
        BY <4>2 DEF Targets
    <3>2. ASSUME NEW a PROVE Owner(entries, a) \in Seq(Targets)
      <4>1. entries \in Seq(Listing)
        BY DEF TypeOK
      <4>2. \A i \in DOMAIN entries : entries[i].key \in Targets
        <5>1. DOMAIN entries = 1..Len(entries) /\ \A i \in 1..Len(entries) : entries[i] \in Listing
          BY <4>1
        <5>2. QED
          BY <5>1 DEF Listing, Targets
      <4>3. Owner(entries, a) = <<>> \/ \E i \in DOMAIN entries : Owner(entries, a) = <<entries[i].key>>
        BY <4>1, OwnerIs
      <4>4. ASSUME NEW i \in DOMAIN entries PROVE <<entries[i].key>> \in Seq(Targets)
        BY <4>2
      <4>5. <<>> \in Seq(Targets)
        OBVIOUS
      <4>6. QED
        BY <4>3, <4>4, <4>5
    <3>3. QED
      BY <3>1, <3>2
  <2>2. x \in Progress
    BY <1>0, <2>1 DEF Progress
  <2>3. req' = [req EXCEPT ![r] = x]
    BY <1>0, <1>2 DEF LookUp
  <2>4. Going(r, x)
    <3>1. /\ x.pc = "check" /\ x.key = key /\ x.todo = req[r].todo /\ x.done = req[r].done
          /\ x.reply = req[r].reply /\ x.p = req[r].p /\ x.words = req[r].words
      BY <1>0 DEF Progress
    <3>2. req[r].pc = "lookup" /\ UNCHANGED <<panel, seen>>
      BY <1>2 DEF LookUp
    <3>3. QED
      BY <2>3, <3>1, <3>2 DEF Going
  <2>5. QED
    BY <2>2, <2>4
<1>3. CASE Check(r)
  <2>1. CASE \E i \in 1..7 : /\ Checks(r)[i].bad
                             /\ req' = [req EXCEPT ![r].pc = "answered", ![r].reply = Checks(r)[i].reply]
    <3>1. PICK i \in 1..7 : /\ Checks(r)[i].bad
                            /\ req' = [req EXCEPT ![r].pc = "answered", ![r].reply = Checks(r)[i].reply]
      BY <2>1
    <3> DEFINE x == [req[r] EXCEPT !.pc = "answered", !.reply = Checks(r)[i].reply]
    <3>2. Checks(r)[i].reply \in Refusals
      BY RefusalIs
    <3>3. x \in Progress
      BY <1>0, <3>2 DEF Progress
    <3>4. req' = [req EXCEPT ![r] = x]
      BY <1>0, <3>1
    <3>5. Going(r, x)
      BY <1>0, <1>3, <3>1, <3>4 DEF Check, Going, Progress
    <3>6. QED
      BY <3>3, <3>5
  <2>2. CASE /\ \A i \in 1..7 : ~Checks(r)[i].bad
             /\ req' = [req EXCEPT ![r].pc = "publish", ![r].reply = "success", ![r].todo = req[r].key]
    <3> DEFINE x == [req[r] EXCEPT !.pc = "publish", !.reply = "success", !.todo = req[r].key]
    <3>3. x \in Progress
      BY <1>0 DEF Progress
    <3>4. req' = [req EXCEPT ![r] = x]
      BY <1>0, <2>2
    <3>5. Going(r, x)
      BY <1>0, <1>3, <2>2, <3>4 DEF Check, Going, Progress
    <3>6. QED
      BY <3>3, <3>5
  <2>3. QED
    BY <1>3, <2>1, <2>2, ChecksAre
<1>4. CASE SkipPart(r)
  <2> DEFINE x == [req[r] EXCEPT !.todo = Tail(req[r].todo)]
  <2>1. req[r].todo \in Seq(Targets) /\ req[r].todo # <<>>
    BY <1>0, <1>4 DEF SkipPart, Progress
  <2>2. x \in Progress
    <3>1. Tail(req[r].todo) \in Seq(Targets)
      BY <2>1
    <3>2. QED
      BY <1>0, <3>1 DEF Progress
  <2>3. req' = [req EXCEPT ![r] = x]
    BY <1>0, <1>4 DEF SkipPart
  <2>4. Going(r, x)
    BY <1>0, <1>4, <2>3 DEF SkipPart, Going, Progress
  <2>5. QED
    BY <2>2, <2>4
<1>5. CASE \E ok \in BOOLEAN : PublishKey(r, ok)
  <2>0. PICK ok \in BOOLEAN : PublishKey(r, ok)
    BY <1>5
  <2> DEFINE d == Append(req[r].done, [key |-> Head(req[r].todo), ok |-> ok])
             answer == IF ~ok /\ Len(req[r].key) = 1 THEN "failed" ELSE req[r].reply
             x == [req[r] EXCEPT !.todo = Tail(req[r].todo), !.done = d, !.reply = answer]
  <2>1. req[r].todo \in Seq(Targets) /\ req[r].todo # <<>> /\ req[r].done \in Seq([key : Targets, ok : BOOLEAN])
    BY <1>0, <2>0 DEF PublishKey, Progress
  <2>2. Tail(req[r].todo) \in Seq(Targets) /\ d \in Seq([key : Targets, ok : BOOLEAN])
    <3>1. [key |-> Head(req[r].todo), ok |-> ok] \in [key : Targets, ok : BOOLEAN]
      BY <2>1
    <3>2. QED
      BY <2>1, <3>1
  <2>3. answer \in Refusals \cup {"", "success", "failed"}
    BY <1>0 DEF Progress
  <2>4. x \in Progress
    BY <1>0, <2>2, <2>3 DEF Progress
  <2>5. req' = [req EXCEPT ![r] = x]
    BY <1>0, <2>0 DEF PublishKey
  <2>6. Going(r, x)
    <3>1. /\ x.pc = "publish" /\ x.key = req[r].key /\ x.p = req[r].p /\ x.words = req[r].words
          /\ x.todo = Tail(req[r].todo) /\ x.done = d /\ x.reply = answer
      BY <1>0, <2>0 DEF Progress, PublishKey
    <3>2. req[r].pc = "publish" /\ req[r].todo # <<>> /\ Head(req[r].todo) # Blank /\ UNCHANGED <<panel, seen>>
      BY <2>0 DEF PublishKey
    <3>3. QED
      BY <2>5, <3>1, <3>2 DEF Going
  <2>7. QED
    BY <2>4, <2>6
<1>6. CASE Reply(r)
  <2> DEFINE x == [req[r] EXCEPT !.pc = "answered"]
  <2>1. x \in Progress
    BY <1>0 DEF Progress
  <2>2. req' = [req EXCEPT ![r] = x]
    BY <1>0, <1>6 DEF Reply
  <2>3. Going(r, x)
    BY <1>0, <1>6, <2>2 DEF Reply, Going, Progress
  <2>4. QED
    BY <2>1, <2>3
<1>7. CASE Close(r)
  <2>1. Idle \in Progress
    BY DEF Idle, Progress, Params, Refusals
  <2>2. Going(r, Idle)
    BY <1>7 DEF Close, Going
  <2>3. QED
    BY <2>1, <2>2
<1>8. QED
  BY <1>1, <1>2, <1>3, <1>4, <1>5, <1>6, <1>7 DEF PushStep

\* Every step is one of a push, of the panel, or none.
LEMMA StepKinds ==
  ASSUME TypeOK, [Next]_vars
  PROVE  \/ \E r \in Pushers, x \in Progress : Going(r, x)
         \/ \E h \in Handlers : PanelStep(h)
         \/ UNCHANGED vars
BY PushGoes DEF Next

LEMMA GoingType == ASSUME TypeOK, NEW r \in Pushers, NEW x \in Progress, Going(r, x) PROVE TypeOK'
<1>1. req' \in [Pushers -> Progress]
  BY DEF Going, TypeOK
<1>2. UNCHANGED panel
  BY DEF Going
<1>3. barred' \in [Pushers -> SUBSET Keys] /\ owners' \in [Pushers -> SUBSET Keys]
  <2>1. Named(entries, x.p) \in SUBSET Keys
    BY NamedType DEF TypeOK
  <2>2. \/ UNCHANGED seen
        \/ barred' = [barred EXCEPT ![r] = {}] /\ owners' = [owners EXCEPT ![r] = {}]
        \/ barred' = [barred EXCEPT ![r] = gone] /\ owners' = [owners EXCEPT ![r] = Named(entries, x.p)]
    BY DEF Going
  <2>3. QED
    BY <2>1, <2>2 DEF TypeOK, seen
<1>4. QED
  BY <1>1, <1>2, <1>3 DEF TypeOK, panel

\* Entries, requests and what was seen of the keys keep their types, whatever clients send
\* to push_api and whatever the panel does to the list.
THEOREM TypeCorrect == Spec => []TypeOK
<1>1. TypeOK /\ [Next]_vars => TypeOK'
  <2> SUFFICES ASSUME TypeOK, [Next]_vars PROVE TypeOK'
    OBVIOUS
  <2>1. CASE UNCHANGED vars
    BY <2>1 DEF TypeOK, vars, panel, seen
  <2>2. QED
    BY <2>1, StepKinds, GoingType, PanelType
<1>2. QED
  BY <1>1, InitTypeOK, PTL DEF Spec

----------------------------------------------------------------------------
(* Deleted keys, aliases and duplicates *)

\* What an update is to list of the keys that are gone it adds, and of those it deletes
\* nothing.
Clean(u, out) == KeysOf(u.list) \cap out \subseteq KeysOf(u.add) /\ KeysOf(u.list) \cap u.del = {}

\* A deleted key is neither listed nor in a clone, and none is on its way to be published
\* that was deleted before its request came.
OutInv ==
  /\ gone \cap Listed = {}
  /\ \A h \in Handlers : Clean(op[h], gone)
  /\ \A r \in Pushers : barred[r] \subseteq gone /\ Range(req[r].todo) \cap barred[r] = {}
  /\ DeletedStaysOut

\* A request by alias knows the keys that the alias names now, and goes to those it knows.
OwnerInv ==
  \A r \in Pushers : req[r].pc # "idle" =>
    /\ Named(entries, req[r].p) \subseteq owners[r]
    /\ Text(req[r].p, "push_key") = <<>> =>
         Range(req[r].key) \cup Range(req[r].todo) \cup Tried(r) \subseteq owners[r]

\* No two entries of a list have a name in common but those in over.
Apart(list, over) == \A i, j \in DOMAIN list : i # j => Names(list[i]) \cap Names(list[j]) \subseteq over

\* Two entries of the list, or of a clone, with a name in common overlapped, and so did an
\* entry that has been checked and one that is listed by now, or is about to be.
TwiceInv ==
  /\ Apart(entries, overlapped)
  /\ \A h \in Handlers : Apart(op[h].list, overlapped)
  /\ \A h \in Handlers : op[h].pc = "checked" =>
       \A e \in Range(entries) \cup UNION {Brings(g) : g \in Handlers \ {h}} :
         Names(e) \cap Names(Head(op[h].add)) \subseteq overlapped

LEMMA RangeTail == ASSUME NEW S, NEW s \in Seq(S), s # <<>> PROVE Range(Tail(s)) \subseteq Range(s) /\ Head(s) \in Range(s)
<1>1. /\ DOMAIN s = 1..Len(s) /\ DOMAIN Tail(s) = 1..Len(s) - 1 /\ Len(s) \in Nat /\ Len(s) > 0
      /\ Head(s) = s[1] /\ \A i \in 1..Len(s) - 1 : Tail(s)[i] = s[i + 1]
  OBVIOUS
<1>2. \A i \in 1..Len(s) - 1 : i + 1 \in 1..Len(s)
  BY <1>1
<1>3. QED
  BY <1>1, <1>2 DEF Range

\* The keys tried, with one more.
LEMMA TriedMore ==
  ASSUME NEW d \in Seq([key : Targets, ok : BOOLEAN]), NEW k \in Targets, NEW ok \in BOOLEAN
  PROVE  {e.key : e \in Range(Append(d, [key |-> k, ok |-> ok]))} = {e.key : e \in Range(d)} \cup {k}
<1> DEFINE x == [key |-> k, ok |-> ok]
           D == [key : Targets, ok : BOOLEAN]
<1>1. x \in D /\ x.key = k /\ d \in Seq(D)
  OBVIOUS
<1> HIDE DEF x, D
<1>2. Range(Append(d, x)) = Range(d) \cup {x}
  BY <1>1, RangeAppend
<1>3. {e.key : e \in Range(Append(d, x))} = {e.key : e \in Range(d)} \cup {k}
  BY <1>1, <1>2
<1>4. QED
  BY <1>3 DEF x

LEMMA ListedIs == Listed = KeysOf(entries) /\ Listed' = KeysOf(entries')
BY DEF Listed, KeysOf, Range

\* A draft that is clean leaves the deleted keys out.
LEMMA DraftOut ==
  ASSUME TypeOK, OutInv, NEW h \in Handlers, NEW list, NEW add, NEW del, Draft(h, list, add, del),
         KeysOf(list) \cap gone \subseteq KeysOf(add), KeysOf(list) \cap del = {}
  PROVE  OutInv'
<1> DEFINE u == [pc |-> "draft", add |-> add, del |-> del, list |-> list]
<1>1. Clean(u, gone)
  BY DEF Clean
<1>2. \A g \in Handlers : op'[g] = IF g = h THEN u ELSE op[g]
  BY DEF Draft, TypeOK
<1>3. UNCHANGED <<entries, gone, barred, req>>
  BY DEF Draft, seen
<1> HIDE DEF u
<1>4. \A g \in Handlers : Clean(op'[g], gone)
  BY <1>1, <1>2 DEF OutInv
<1>5. \A g \in Handlers : Clean(op[g], gone)'
  BY <1>3, <1>4 DEF Clean, KeysOf
<1>6. QED
  BY <1>3, <1>5 DEF OutInv, DeletedStaysOut, Tried, Listed

LEMMA PanelOut ==
  ASSUME TypeOK, OutInv, NEW h \in Handlers, PanelStep(h)
  PROVE  OutInv'
<1>0. /\ gone \cap KeysOf(entries) = {}
      /\ \A g \in Handlers : Clean(op[g], gone)
      /\ \A r \in Pushers : /\ barred[r] \subseteq gone /\ Range(req[r].todo) \cap barred[r] = {}
                            /\ Tried(r) \cap barred[r] = {}
  BY ListedIs DEF OutInv, DeletedStaysOut
<1>1. ASSUME NEW k \in Keys, NEW a \in Aliases \cup {Blank}, CheckEntry(h, k, a) PROVE OutInv'
  <2> DEFINE u == [Resting EXCEPT !.pc = "checked", !.add = <<Entry(k, a)>>]
  <2>1. Clean(u, gone)
    <3>1. u.list = <<>> /\ KeysOf(<<>>) = {}
      BY DEF Resting, KeysOf, Range
    <3>2. QED
      BY <3>1 DEF Clean
  <2>2. \A g \in Handlers : op'[g] = IF g = h THEN u ELSE op[g]
    BY <1>1 DEF CheckEntry, TypeOK
  <2>3. UNCHANGED <<entries, gone, barred, req>>
    BY <1>1 DEF CheckEntry, seen
  <2> HIDE DEF u
  <2>4. \A g \in Handlers : Clean(op'[g], gone)
    BY <1>0, <2>1, <2>2
  <2>5. \A g \in Handlers : Clean(op[g], gone)'
    BY <2>3, <2>4 DEF Clean, KeysOf
  <2>6. QED
    BY <2>3, <2>5 DEF OutInv, DeletedStaysOut, Tried, Listed
<1>2. ASSUME NEW k \in Keys, DraftDelete(h, k) PROVE OutInv'
  <2> DEFINE list == Retain(entries, {e \in Range(entries) : e.key # k})
  <2>1. Range(list) \subseteq Range(entries) /\ k \notin KeysOf(list)
    BY DeletedIs
  <2>2. Draft(h, list, <<>>, {k})
    BY <1>2 DEF DraftDelete
  <2> HIDE DEF list
  <2>3. KeysOf(list) \subseteq KeysOf(entries)
    BY <2>1 DEF KeysOf
  <2>4. QED
    BY <1>0, <2>1, <2>2, <2>3, DraftOut
<1>3. CASE DraftEntry(h)
  <2>1. KeysOf(entries \o op[h].add) = KeysOf(entries) \cup KeysOf(op[h].add)
    BY <1>3, AddedIs DEF DraftEntry, KeysOf
  <2>2. QED
    BY <1>0, <1>3, <2>1, DraftOut DEF DraftEntry
<1>4. CASE DraftOther(h)
  BY <1>0, <1>4, DraftOut DEF DraftOther
<1>5. CASE Save(h)
  <2>1. /\ entries' = op[h].list /\ UNCHANGED req
        /\ gone' = (gone \ KeysOf(op[h].add)) \cup
                   {k \in op[h].del : \A g \in Handlers \ {h} : k \notin KeysOf(op[g].list)}
        /\ \A r \in Pushers : barred'[r] = barred[r] \ KeysOf(op[h].add)
        /\ \A g \in Handlers : op'[g] = IF g = h THEN Resting ELSE op[g]
    BY <1>5 DEF Save, Sees, TypeOK
  <2>2. gone' \cap KeysOf(entries') = {}
    BY <1>0, <2>1 DEF Clean
  <2>3. ASSUME NEW g \in Handlers PROVE Clean(op'[g], gone')
    <3>1. CASE g = h
      BY <2>1, <3>1, RestingIs DEF Clean, KeysOf
    <3>2. CASE g # h
      BY <1>0, <2>1, <3>2 DEF Clean
    <3>3. QED
      BY <3>1, <3>2
  <2>4. \A g \in Handlers : Clean(op[g], gone)'
    BY <2>3 DEF Clean, KeysOf
  <2>5. \A r \in Pushers : barred'[r] \subseteq gone' /\ barred'[r] \subseteq barred[r]
    BY <1>0, <2>1
  <2>6. QED
    BY <1>0, <2>1, <2>2, <2>4, <2>5, ListedIs DEF OutInv, DeletedStaysOut, Tried
<1>6. CASE SaveFails(h)
  <2>1. \A g \in Handlers : op'[g] = IF g = h THEN Resting ELSE op[g]
    BY <1>6 DEF SaveFails, TypeOK
  <2>2. UNCHANGED <<entries, gone, barred, req>>
    BY <1>6 DEF SaveFails, seen
  <2>3. Clean(Resting, gone)
    BY RestingIs DEF Clean, KeysOf
  <2>4. \A g \in Handlers : Clean(op'[g], gone)
    BY <1>0, <2>1, <2>3
  <2>5. \A g \in Handlers : Clean(op[g], gone)'
    BY <2>2, <2>4 DEF Clean, KeysOf
  <2>6. QED
    BY <2>2, <2>5 DEF OutInv, DeletedStaysOut, Tried, Listed
<1>7. QED
  BY <1>1, <1>2, <1>3, <1>4, <1>5, <1>6 DEF PanelStep

LEMMA StepOut == TypeOK /\ OutInv /\ [Next]_vars => OutInv'
<1> SUFFICES ASSUME TypeOK, OutInv, [Next]_vars PROVE OutInv'
  OBVIOUS
<1>0. /\ gone \cap Listed = {} /\ gone \subseteq Keys
      /\ \A r \in Pushers : /\ barred[r] \subseteq gone /\ Range(req[r].todo) \cap barred[r] = {}
                            /\ Tried(r) \cap barred[r] = {} /\ req[r] \in Progress
  BY DEF OutInv, DeletedStaysOut, TypeOK
<1>1. CASE UNCHANGED vars
  <2>1. UNCHANGED <<entries, op, gone, barred, req>>
    BY <1>1 DEF vars, panel, seen
  <2>2. QED
    BY <2>1 DEF OutInv, DeletedStaysOut, Tried, Listed, Clean, KeysOf
<1>2. CASE \E h \in Handlers : PanelStep(h)
  BY <1>2, PanelOut
<1>3. CASE \E r \in Pushers, x \in Progress : Going(r, x)
  <2>1. PICK r \in Pushers, x \in Progress : Going(r, x)
    BY <1>3
  <2>2. /\ req' = [req EXCEPT ![r] = x] /\ UNCHANGED <<entries, op, gone>> /\ Listed' = Listed
        /\ \A s \in Pushers \ {r} : barred'[s] = barred[s]
    <3>1. req' = [req EXCEPT ![r] = x] /\ UNCHANGED panel
      BY <2>1 DEF Going
    <3>2. \/ UNCHANGED seen
          \/ barred' = [barred EXCEPT ![r] = {}]
          \/ barred' = [barred EXCEPT ![r] = gone]
      BY <2>1 DEF Going
    <3>3. QED
      BY <3>1, <3>2 DEF panel, seen, Listed, TypeOK
  <2>3. /\ barred'[r] \subseteq gone /\ Range(x.todo) \cap barred'[r] = {}
        /\ {d.key : d \in Range(x.done)} \cap barred'[r] = {}
    <3>1. CASE UNCHANGED barred /\ Range(x.todo) \subseteq Range(req[r].todo) /\ x.done = req[r].done
      BY <1>0, <3>1 DEF Tried
    <3>2. CASE UNCHANGED barred /\ x.done = req[r].done /\ req[r].pc = "check" /\ x.todo = req[r].key
               /\ \A i \in 1..7 : ~Checks(r)[i].bad
      <4>1. Range(req[r].key) \subseteq Listed \cup {Blank}
        BY <3>2, AcceptedIs
      <4>2. QED
        BY <1>0, <3>2, <4>1, Bounds DEF Tried
    <3>3. CASE \E ok \in BOOLEAN :
                 /\ UNCHANGED barred /\ req[r].todo # <<>> /\ x.todo = Tail(req[r].todo)
                 /\ x.done = Append(req[r].done, [key |-> Head(req[r].todo), ok |-> ok])
      <4>1. PICK ok \in BOOLEAN :
                 /\ UNCHANGED barred /\ req[r].todo # <<>> /\ x.todo = Tail(req[r].todo)
                 /\ x.done = Append(req[r].done, [key |-> Head(req[r].todo), ok |-> ok])
        BY <3>3
      <4>2. req[r].todo \in Seq(Targets) /\ req[r].done \in Seq([key : Targets, ok : BOOLEAN])
        BY <1>0 DEF Progress
      <4>3. Range(Tail(req[r].todo)) \subseteq Range(req[r].todo) /\ Head(req[r].todo) \in Range(req[r].todo)
            /\ Head(req[r].todo) \in Targets
        BY <4>1, <4>2, RangeTail
      <4>4. {d.key : d \in Range(x.done)} = Tried(r) \cup {Head(req[r].todo)}
        <5>1. {d.key : d \in Range(Append(req[r].done, [key |-> Head(req[r].todo), ok |-> ok]))}
                = {d.key : d \in Range(req[r].done)} \cup {Head(req[r].todo)}
          BY <4>2, <4>3, TriedMore
        <5>2. QED
          BY <4>1, <5>1 DEF Tried
      <4>5. QED
        BY <1>0, <4>1, <4>3, <4>4
    <3>4. CASE x.todo = <<>> /\ x.done = <<>> /\ barred'[r] \in {{}, gone}
      BY <3>4 DEF Range
    <3>5. \/ UNCHANGED barred /\ Range(x.todo) \subseteq Range(req[r].todo) /\ x.done = req[r].done
          \/ UNCHANGED barred /\ x.done = req[r].done /\ req[r].pc = "check" /\ x.todo = req[r].key
               /\ \A i \in 1..7 : ~Checks(r)[i].bad
          \/ \E ok \in BOOLEAN :
                 /\ UNCHANGED barred /\ req[r].todo # <<>> /\ x.todo = Tail(req[r].todo)
                 /\ x.done = Append(req[r].done, [key |-> Head(req[r].todo), ok |-> ok])
          \/ x.todo = <<>> /\ x.done = <<>> /\ barred'[r] \in {{}, gone}
      <4>1. req[r].todo # <<>> => Range(Tail(req[r].todo)) \subseteq Range(req[r].todo)
        BY <1>0, RangeTail DEF Progress
      <4>2. barred \in [Pushers -> SUBSET Keys] /\ Idle.todo = <<>> /\ Idle.done = <<>>
        BY DEF TypeOK, Idle
      <4>3. QED
        BY <2>1, <4>1, <4>2 DEF Going, seen
    <3>6. QED
      BY <3>1, <3>2, <3>3, <3>4, <3>5
  <2>4. ASSUME NEW s \in Pushers
        PROVE  /\ barred'[s] \subseteq gone /\ Range(req'[s].todo) \cap barred'[s] = {}
               /\ {d.key : d \in Range(req'[s].done)} \cap barred'[s] = {}
    <3>1. CASE s = r
      BY <2>2, <2>3, <3>1 DEF TypeOK
    <3>2. CASE s # r
      BY <1>0, <2>2, <3>2 DEF TypeOK, Tried
    <3>3. QED
      BY <3>1, <3>2
  <2>5. \A h \in Handlers : Clean(op[h], gone)'
    BY <2>2 DEF OutInv, Clean, KeysOf
  <2>6. QED
    BY <1>0, <2>2, <2>4, <2>5 DEF OutInv, DeletedStaysOut, Tried
<1>4. QED
  BY <1>1, <1>2, <1>3, StepKinds

\* Once the deletion of a key is saved, a push that comes later reaches it in no way, unless
\* it is added again, or another update had it in its clone by then: whichever lookups and
\* checks of other pushes and updates of the panel are under way, or begin later, in
\* whichever form the entry was.
THEOREM DeletedStays == Spec => []DeletedStaysOut
<1>1. Init => OutInv
  <2> SUFFICES ASSUME Init PROVE OutInv
    OBVIOUS
  <2>1. gone = {} /\ \A r \in Pushers : req[r] = Idle /\ barred[r] = {}
    BY DEF Init
  <2>2. \A h \in Handlers : Clean(op[h], gone)
    BY RestingIs DEF Init, Clean, KeysOf
  <2>3. QED
    BY <2>1, <2>2 DEF OutInv, DeletedStaysOut
<1>2. OutInv => DeletedStaysOut
  BY DEF OutInv
<1>3. QED
  BY <1>1, <1>2, StepOut, TypeCorrect, PTL DEF Spec

LEMMA StepOwner == TypeOK /\ OwnerInv /\ [Next]_vars => OwnerInv'
<1> SUFFICES ASSUME TypeOK, OwnerInv, [Next]_vars PROVE OwnerInv'
  OBVIOUS
<1>1. CASE UNCHANGED <<entries, owners, req>>
  BY <1>1 DEF OwnerInv, Tried, Named
<1>2. CASE \E h \in Handlers : PanelStep(h)
  <2>1. PICK h \in Handlers : PanelStep(h)
    BY <1>2
  <2>2. /\ UNCHANGED req
        /\ UNCHANGED <<entries, owners>> \/ \E added : Sees(entries', added)
    BY <2>1
    DEF PanelStep, CheckEntry, DraftDelete, DraftEntry, DraftOther, Draft, Save, SaveFails, seen
  <2>3. CASE UNCHANGED <<entries, owners>>
    BY <2>2, <2>3 DEF OwnerInv, Tried, Named
  <2>4. CASE \E added : Sees(entries', added)
    <3>1. \A r \in Pushers : req[r].pc # "idle" => owners'[r] = owners[r] \cup Named(entries', req[r].p)
      BY <2>4 DEF Sees
    <3>2. QED
      BY <2>2, <3>1 DEF OwnerInv, Tried
  <2>5. QED
    BY <2>2, <2>3, <2>4
<1>3. CASE \E r \in Pushers, x \in Progress : Going(r, x)
  <2>1. PICK r \in Pushers, x \in Progress : Going(r, x)
    BY <1>3
  <2> DEFINE Known == Range(x.key) \cup Range(x.todo) \cup {d.key : d \in Range(x.done)} \subseteq owners'[r]
  <2>2. req' = [req EXCEPT ![r] = x] /\ UNCHANGED entries /\ \A s \in Pushers \ {r} : owners'[s] = owners[s]
    <3>1. req' = [req EXCEPT ![r] = x] /\ UNCHANGED panel
      BY <2>1 DEF Going
    <3>2. \/ UNCHANGED seen
          \/ owners' = [owners EXCEPT ![r] = {}]
          \/ owners' = [owners EXCEPT ![r] = Named(entries, x.p)]
      BY <2>1 DEF Going
    <3>3. QED
      BY <3>1, <3>2 DEF panel, seen, TypeOK
  <2>3. req[r] \in Progress /\ Idle.pc = "idle"
    BY DEF TypeOK, Idle
  <2>4. x.pc # "idle" => Named(entries, x.p) \subseteq owners'[r] /\ (Text(x.p, "push_key") = <<>> => Known)
    <3>1. CASE x.pc = "lookup"
      <4>1. owners' = [owners EXCEPT ![r] = Named(entries, x.p)] /\ x.key = <<>> /\ x.todo = <<>> /\ x.done = <<>>
        BY <2>1, <2>3, <3>1 DEF Going
      <4>2. Range(<<>>) = {}
        BY DEF Range
      <4>3. QED
        BY <4>1, <4>2 DEF TypeOK
    <3>2. CASE x.pc \notin {"idle", "lookup"}
      <4>1. x.p = req[r].p /\ UNCHANGED owners /\ req[r].pc # "idle"
        BY <2>1, <2>3, <3>2 DEF Going, seen
      <4>2. Named(entries, x.p) \subseteq owners'[r]
        BY <4>1 DEF OwnerInv
      <4>3. SUFFICES ASSUME Text(x.p, "push_key") = <<>> PROVE Known
        BY <4>2
      <4>4. Range(req[r].key) \cup Range(req[r].todo) \cup Tried(r) \subseteq owners[r]
        BY <4>1, <4>3 DEF OwnerInv
      <4>5. CASE req[r].pc = "lookup"
        <5>1. x.todo = req[r].todo /\ x.done = req[r].done /\ Range(<<>>) = {}
              /\ x.key \in {<<>>, Owner(entries, Text(req[r].p, "temp_key")[1])}
              /\ (x.key # <<>> => Len(Text(req[r].p, "temp_key")) = 1)
          BY <2>1, <3>2, <4>1, <4>3, <4>5 DEF Going, Range
        <5>2. Range(x.key) \subseteq owners[r]
          <6> DEFINE a == Text(req[r].p, "temp_key")[1]
          <6>1. CASE x.key = <<>>
            BY <5>1, <6>1
          <6>2. CASE x.key # <<>>
            <7>1. x.key = Owner(entries, a) /\ Len(Text(req[r].p, "temp_key")) = 1
              BY <5>1, <6>2
            <7>2. entries \in Seq(Listing)
              BY DEF TypeOK
            <7>3. PICK i \in DOMAIN entries : a # Blank /\ entries[i].alias = a /\ x.key = <<entries[i].key>>
              BY <6>2, <7>1, <7>2, OwnerIs
            <7>4. a \in Range(Text(req[r].p, "temp_key"))
              <8>1. Text(req[r].p, "temp_key") \in Seq(Parts)
                BY <2>3, ParamIs DEF Progress
              <8>2. QED
                BY <7>1, <8>1 DEF Range
            <7>5. entries[i].key \in Named(entries, x.p)
              BY <4>1, <7>3, <7>4 DEF Named
            <7>6. Range(x.key) = {entries[i].key}
              BY <7>3 DEF Range
            <7>7. QED
              BY <4>1, <4>2, <7>5, <7>6
          <6>3. QED
            BY <6>1, <6>2
        <5>3. QED
          BY <4>1, <4>4, <5>1, <5>2 DEF Tried
      <4>6. CASE req[r].pc = "check"
        <5>1. x.key = req[r].key /\ x.todo \in {req[r].todo, req[r].key} /\ x.done = req[r].done
          BY <2>1, <3>2, <4>6 DEF Going
        <5>2. QED
          BY <4>1, <4>4, <5>1 DEF Tried
      <4>7. CASE req[r].pc = "publish" /\ req[r].todo # <<>>
        <5>1. /\ x.key = req[r].key /\ x.todo = Tail(req[r].todo)
              /\ \/ x.done = req[r].done
                 \/ \E ok \in BOOLEAN : x.done = Append(req[r].done, [key |-> Head(req[r].todo), ok |-> ok])
          BY <2>1, <3>2, <4>7 DEF Going
        <5>2. req[r].todo \in Seq(Targets) /\ req[r].done \in Seq([key : Targets, ok : BOOLEAN])
          BY <2>3 DEF Progress
        <5>3. Range(Tail(req[r].todo)) \subseteq Range(req[r].todo) /\ Head(req[r].todo) \in Range(req[r].todo)
              /\ Head(req[r].todo) \in Targets
          BY <4>7, <5>2, RangeTail
        <5>4. ASSUME NEW ok \in BOOLEAN, x.done = Append(req[r].done, [key |-> Head(req[r].todo), ok |-> ok])
              PROVE  {d.key : d \in Range(x.done)} = Tried(r) \cup {Head(req[r].todo)}
          BY <5>2, <5>3, <5>4, TriedMore DEF Tried
        <5>5. {d.key : d \in Range(x.done)} \subseteq owners[r]
          BY <4>4, <5>1, <5>3, <5>4 DEF Tried
        <5>6. QED
          BY <4>1, <4>4, <5>1, <5>3, <5>5
      <4>8. CASE req[r].pc = "publish" /\ req[r].todo = <<>>
        <5>1. x.key = req[r].key /\ x.todo = req[r].todo /\ x.done = req[r].done
          BY <2>1, <3>2, <4>8 DEF Going
        <5>2. QED
          BY <4>1, <4>4, <5>1 DEF Tried
      <4>9. req[r].pc \in {"lookup", "check", "publish"}
        BY <2>1, <2>3, <3>2 DEF Going
      <4>10. QED
        BY <4>5, <4>6, <4>7, <4>8, <4>9
    <3>3. QED
      BY <3>1, <3>2
  <2>5. ASSUME NEW s \in Pushers, req'[s].pc # "idle"
        PROVE  /\ Named(entries', req'[s].p) \subseteq owners'[s]
               /\ Text(req'[s].p, "push_key") = <<>> =>
                    Range(req'[s].key) \cup Range(req'[s].todo) \cup {d.key : d \in Range(req'[s].done)} \subseteq owners'[s]
    <3>1. CASE s = r
      BY <2>2, <2>4, <2>5, <3>1 DEF TypeOK
    <3>2. CASE s # r
      <4>1. req'[s] = req[s] /\ owners'[s] = owners[s] /\ entries' = entries
        BY <2>2, <3>2 DEF TypeOK
      <4>2. QED
        BY <2>5, <4>1 DEF OwnerInv, Tried
    <3>3. QED
      BY <3>1, <3>2
  <2>6. QED
    BY <2>5 DEF OwnerInv, Tried
<1>4. QED
  BY <1>1, <1>2, <1>3, StepKinds DEF vars, panel, seen


LEMMA NamesOf ==
  ASSUME NEW d, NEW e, d.key # e.key, d.alias = Blank \/ d.alias # e.alias
  PROVE  Names(d) \cap Names(e) = {}
<1>1. <<"key", d.key>> # <<"key", e.key>> /\ <<"key", d.key>> # <<"alias", e.alias>> /\ <<"alias", d.alias>> # <<"key", e.key>>
  OBVIOUS
<1>2. d.alias # Blank => <<"alias", d.alias>> # <<"alias", e.alias>>
  OBVIOUS
<1>3. QED
  BY <1>1, <1>2 DEF Names

\* With more names overlapped, what was apart stays so.
LEMMA ApartMore ==
  ASSUME NEW list, NEW over, NEW more, Apart(list, over), over \subseteq more
  PROVE  Apart(list, more)
BY DEF Apart

\* What a list has, or an update is to list.
Carriers(list, ops) == Range(list) \cup UNION {Range(ops[h].add) \cup Range(ops[h].list) : h \in Handlers}

\* What is apart stays so with only the names carried, if all of the list are carriers.
LEMMA ApartCarried ==
  ASSUME NEW s, NEW names, NEW list, NEW ops, NEW over, Carried(names, list, ops) \subseteq over,
         Apart(s, names), Range(s) \subseteq Carriers(list, ops)
  PROVE  Apart(s, over)
<1>1. ASSUME NEW i \in DOMAIN s, NEW j \in DOMAIN s, i # j, NEW n \in Names(s[i]) \cap Names(s[j])
      PROVE  n \in over
  <2>1. n \in names
    BY <1>1 DEF Apart
  <2>2. s[i] \in Carriers(list, ops)
    BY DEF Range
  <2>3. QED
    BY <1>1, <2>1, <2>2 DEF Carried, Carriers
<1>2. QED
  BY <1>1 DEF Apart

\* A step of one update keeps the entries apart when they come from the list and from what
\* that update was to list, and no name is forgotten that is still carried.
LEMMA UpdateTwice ==
  ASSUME TypeOK, TwiceInv, NEW h \in Handlers, NEW u, op' = [op EXCEPT ![h] = u],
         Carried(overlapped, entries', op') \subseteq overlapped', u.pc # "checked",
         entries' \in {entries, op[h].list}, Apart(u.list, overlapped),
         Range(u.add) \cup Range(u.list) \subseteq Range(entries) \cup Brings(h)
  PROVE  TwiceInv'
<1>1. \A g \in Handlers : op'[g] = IF g = h THEN u ELSE op[g]
  BY DEF TypeOK
<1>2. Apart(entries', overlapped) /\ \A g \in Handlers : Apart(op'[g].list, overlapped)
  BY <1>1 DEF TwiceInv
<1>3. Range(entries') \subseteq Range(entries) \cup Brings(h)
  BY DEF Brings
<1>4. Apart(entries', overlapped') /\ \A g \in Handlers : Apart(op'[g].list, overlapped')
  <2>1. Range(entries') \subseteq Carriers(entries', op')
    BY DEF Carriers
  <2>2. \A g \in Handlers : Range(op'[g].list) \subseteq Carriers(entries', op')
    BY DEF Carriers
  <2>3. QED
    BY <1>2, <2>1, <2>2, ApartCarried
<1>5. ASSUME NEW g \in Handlers, op'[g].pc = "checked",
             NEW e \in Range(entries') \cup UNION {Range(op'[f].add) \cup Range(op'[f].list) : f \in Handlers \ {g}},
             NEW n \in Names(e) \cap Names(Head(op'[g].add))
      PROVE  n \in overlapped'
  <2>1. g # h /\ op'[g] = op[g]
    BY <1>1, <1>5
  <2>2. e \in Range(entries) \cup UNION {Brings(f) : f \in Handlers \ {g}}
    <3>1. CASE e \in Range(entries')
      BY <1>3, <2>1, <3>1
    <3>2. CASE e \notin Range(entries')
      <4>1. PICK f \in Handlers \ {g} : e \in Range(op'[f].add) \cup Range(op'[f].list)
        BY <1>5, <3>2
      <4>2. CASE f = h
        BY <1>1, <2>1, <4>1, <4>2
      <4>3. CASE f # h
        BY <1>1, <4>1, <4>3 DEF Brings
      <4>4. QED
        BY <4>2, <4>3
    <3>3. QED
      BY <3>1, <3>2
  <2>3. n \in overlapped
    BY <1>5, <2>1, <2>2 DEF TwiceInv
  <2>4. e \in Carriers(entries', op')
    BY DEF Carriers
  <2>5. QED
    BY <2>3, <2>4 DEF Carried, Carriers
<1>6. QED
  BY <1>4, <1>5 DEF TwiceInv, Apart, Brings

LEMMA DraftTwice ==
  ASSUME TypeOK, TwiceInv, NEW h \in Handlers, NEW list, NEW add, NEW del, Draft(h, list, add, del),
         Apart(list, overlapped), Range(add) \cup Range(list) \subseteq Range(entries) \cup Brings(h)
  PROVE  TwiceInv'
<1> DEFINE u == [pc |-> "draft", add |-> add, del |-> del, list |-> list]
<1>1. u.pc # "checked" /\ u.add = add /\ u.list = list
  OBVIOUS
<1>2. op' = [op EXCEPT ![h] = u] /\ UNCHANGED <<entries, overlapped>>
  BY DEF Draft
<1> HIDE DEF u
<1>3. Carried(overlapped, entries', op') \subseteq overlapped'
  BY <1>2 DEF Carried
<1>4. QED
  BY <1>1, <1>2, <1>3, UpdateTwice

\* The checked entry has no name that is listed, and overlaps what the other updates are to
\* list.
LEMMA CheckTwice ==
  ASSUME TypeOK, TwiceInv, NEW h \in Handlers, NEW k \in Keys, NEW a \in Aliases \cup {Blank},
         CheckEntry(h, k, a)
  PROVE  TwiceInv'
<1> DEFINE u == [Resting EXCEPT !.pc = "checked", !.add = <<Entry(k, a)>>]
           new == Entry(k, a)
<1>0. entries \in Seq(Listing)
  BY DEF TypeOK
<1>1. new.key = k /\ new.alias = a
  BY DEF Entry
<1>2. u.add = <<new>> /\ u.list = <<>> /\ Range(u.add) = {new} /\ Range(u.list) = {} /\ Head(u.add) = new
  BY DEF Resting, Range
<1>3. /\ k \notin Listed /\ Owner(entries, a) = <<>> /\ UNCHANGED entries
      /\ op' = [op EXCEPT ![h] = u]
      /\ overlapped' = overlapped \cup
           {n \in Names(new) : \E g \in Handlers \ {h} : \E e \in Brings(g) : n \in Names(e)}
  BY DEF CheckEntry
<1> HIDE DEF u, new
<1>4. \A g \in Handlers : op'[g] = IF g = h THEN u ELSE op[g]
  BY <1>3 DEF TypeOK
<1>5. a # Blank => \A i \in DOMAIN entries : entries[i].alias # a
  <2>1. \/ a # Blank => \A i \in DOMAIN entries : entries[i].alias # a
        \/ \E i \in DOMAIN entries : Owner(entries, a) = <<entries[i].key>>
    BY <1>0, OwnerIs
  <2>2. ASSUME NEW i \in DOMAIN entries PROVE Owner(entries, a) # <<entries[i].key>>
    BY <1>3
  <2>3. QED
    BY <2>1, <2>2
<1>6. ASSUME NEW e \in Range(entries) PROVE Names(e) \cap Names(new) = {}
  <2>1. PICK i \in DOMAIN entries : e = entries[i]
    BY DEF Range
  <2>2. e.key # k /\ (e.alias = Blank \/ e.alias # a)
    BY <1>3, <1>5, <2>1 DEF Listed
  <2>3. QED
    BY <1>1, <2>2, NamesOf
<1>7. ASSUME NEW g \in Handlers \ {h}, NEW e \in Brings(g) PROVE Names(e) \cap Names(new) \subseteq overlapped'
  BY <1>3
<1>8. overlapped \subseteq overlapped'
  BY <1>3
<1>9. Apart(entries, overlapped') /\ \A g \in Handlers : Apart(op'[g].list, overlapped')
  <2>1. Apart(<<>>, overlapped')
    BY DEF Apart
  <2>2. QED
    BY <1>2, <1>4, <1>8, <2>1, ApartMore DEF TwiceInv
<1>10. ASSUME NEW g \in Handlers, op'[g].pc = "checked",
              NEW e \in Range(entries) \cup UNION {Range(op'[f].add) \cup Range(op'[f].list) : f \in Handlers \ {g}}
       PROVE  Names(e) \cap Names(Head(op'[g].add)) \subseteq overlapped'
  <2>1. CASE g = h
    <3>1. CASE e \in Range(entries)
      BY <1>2, <1>4, <1>6, <2>1, <3>1
    <3>2. CASE e \notin Range(entries)
      <4>1. PICK f \in Handlers \ {h} : e \in Range(op'[f].add) \cup Range(op'[f].list)
        BY <1>10, <2>1, <3>2
      <4>2. e \in Brings(f)
        BY <1>4, <4>1 DEF Brings
      <4>3. QED
        BY <1>2, <1>4, <1>7, <2>1, <4>2
    <3>3. QED
      BY <3>1, <3>2
  <2>2. CASE g # h
    <3>1. op'[g] = op[g] /\ op[g].pc = "checked"
      BY <1>4, <1>10, <2>2
    <3>2. CASE e \in Range(entries) \cup UNION {Brings(f) : f \in Handlers \ {g}}
      BY <1>8, <3>1, <3>2 DEF TwiceInv
    <3>3. CASE e \notin Range(entries) \cup UNION {Brings(f) : f \in Handlers \ {g}}
      <4>1. PICK f \in Handlers \ {g} : e \in Range(op'[f].add) \cup Range(op'[f].list)
        BY <1>10, <3>3
      <4>2. f = h
        BY <1>4, <3>3, <4>1 DEF Brings
      <4>3. e = new
        BY <1>2, <1>4, <4>1, <4>2
      <4>4. Head(op[g].add) \in Brings(g)
        BY <3>1, AddedIs DEF Brings
      <4>5. Names(Head(op[g].add)) \cap Names(new) \subseteq overlapped'
        BY <1>7, <2>2, <4>4
      <4>6. QED
        BY <3>1, <4>3, <4>5
    <3>4. QED
      BY <3>2, <3>3
  <2>3. QED
    BY <2>1, <2>2
<1>11. QED
  BY <1>3, <1>9, <1>10 DEF TwiceInv, Apart, Brings

LEMMA PanelTwice ==
  ASSUME TypeOK, TwiceInv, NEW h \in Handlers, PanelStep(h)
  PROVE  TwiceInv'
<1>0. /\ entries \in Seq(Listing) /\ DOMAIN entries = 1..Len(entries) /\ Len(entries) \in Nat
      /\ Apart(entries, overlapped) /\ Apart(op[h].list, overlapped) /\ Range(<<>>) = {}
  BY DEF TypeOK, TwiceInv, Range
<1>1. ASSUME NEW k \in Keys, NEW a \in Aliases \cup {Blank}, CheckEntry(h, k, a) PROVE TwiceInv'
  BY <1>1, CheckTwice
<1>2. ASSUME NEW k \in Keys, DraftDelete(h, k) PROVE TwiceInv'
  <2> DEFINE list == Retain(entries, {e \in Range(entries) : e.key # k})
  <2>1. PICK f \in [1..Len(list) -> 1..Len(entries)] :
          /\ \A i, j \in 1..Len(list) : i < j => f[i] < f[j]
          /\ \A i \in 1..Len(list) : list[i] = entries[f[i]]
    BY DeletedIs
  <2>2. Range(list) \subseteq Range(entries) /\ list \in Seq(Listing)
    BY DeletedIs
  <2>3. Draft(h, list, <<>>, {k})
    BY <1>2 DEF DraftDelete
  <2> HIDE DEF list
  <2>4. DOMAIN list = 1..Len(list) /\ Len(list) \in Nat
    BY <2>2
  <2>5. ASSUME NEW i \in DOMAIN list, NEW j \in DOMAIN list, i # j
        PROVE  Names(list[i]) \cap Names(list[j]) \subseteq overlapped
    <3>1. i < j \/ j < i
      BY <2>4, <2>5
    <3>2. f[i] \in 1..Len(entries) /\ f[j] \in 1..Len(entries) /\ (f[i] < f[j] \/ f[j] < f[i])
      BY <2>1, <2>4, <3>1
    <3>3. f[i] # f[j]
      BY <3>2
    <3>4. QED
      BY <1>0, <2>1, <2>4, <3>2, <3>3 DEF Apart
  <2>6. Apart(list, overlapped)
    BY <2>5 DEF Apart
  <2>7. QED
    BY <1>0, <2>2, <2>3, <2>6, DraftTwice
<1>3. CASE DraftEntry(h)
  <2>1. PICK e \in Listing :
           /\ Head(op[h].add) = e /\ Range(op[h].add) = {e}
           /\ entries \o op[h].add = Append(entries, e) /\ Range(Append(entries, e)) = Range(entries) \cup {e}
    BY <1>3, AddedIs DEF DraftEntry
  <2> DEFINE list == Append(entries, e)
             n == Len(entries)
  <2>2. /\ DOMAIN list = 1..n + 1 /\ list[n + 1] = e /\ \A i \in 1..n : list[i] = entries[i]
        /\ \A i \in 1..n + 1 : i = n + 1 \/ i \in 1..n
    BY <1>0
  <2>3. \A i \in 1..n : Names(entries[i]) \cap Names(e) \subseteq overlapped
    <3>1. \A i \in 1..n : entries[i] \in Range(entries)
      BY <1>0 DEF Range
    <3>2. QED
      BY <1>3, <2>1, <3>1 DEF DraftEntry, TwiceInv
  <2> HIDE DEF list
  <2>4. ASSUME NEW i \in DOMAIN list, NEW j \in DOMAIN list, i # j
        PROVE  Names(list[i]) \cap Names(list[j]) \subseteq overlapped
    <3>1. CASE i = n + 1
      BY <2>2, <2>3, <2>4, <3>1
    <3>2. CASE j = n + 1
      BY <2>2, <2>3, <2>4, <3>2
    <3>3. CASE i \in 1..n /\ j \in 1..n
      BY <1>0, <2>2, <2>4, <3>3 DEF Apart
    <3>4. QED
      BY <2>2, <3>1, <3>2, <3>3
  <2>5. Apart(list, overlapped)
    BY <2>4 DEF Apart
  <2>6. Draft(h, list, op[h].add, {})
    BY <1>3, <2>1 DEF DraftEntry, list
  <2>7. Range(op[h].add) \cup Range(list) \subseteq Range(entries) \cup Brings(h)
    BY <2>1 DEF list, Brings
  <2>8. QED
    BY <2>5, <2>6, <2>7, DraftTwice
<1>4. CASE DraftOther(h)
  BY <1>0, <1>4, DraftTwice DEF DraftOther
<1>5. CASE Save(h) \/ SaveFails(h)
  <2>1. /\ op' = [op EXCEPT ![h] = Resting] /\ overlapped' = Carried(overlapped, entries', op')
        /\ entries' \in {entries, op[h].list}
    BY <1>5 DEF Save, SaveFails
  <2>2. Apart(Resting.list, overlapped)
    BY RestingIs DEF Apart
  <2>3. QED
    BY <2>1, <2>2, RestingIs, UpdateTwice
<1>6. QED
  BY <1>1, <1>2, <1>3, <1>4, <1>5 DEF PanelStep

LEMMA PanelKeepsReq == ASSUME NEW h \in Handlers, PanelStep(h) PROVE UNCHANGED req
BY DEF PanelStep, CheckEntry, DraftDelete, DraftEntry, DraftOther, Draft, Save, SaveFails

LEMMA StepTwice == TypeOK /\ TwiceInv /\ [Next]_vars => TwiceInv'
<1> SUFFICES ASSUME TypeOK, TwiceInv, [Next]_vars PROVE TwiceInv'
  OBVIOUS
<1>1. CASE UNCHANGED <<entries, op, overlapped>>
  BY <1>1 DEF TwiceInv, Apart, Brings
<1>2. CASE \E h \in Handlers : PanelStep(h)
  BY <1>2, PanelTwice
<1>3. CASE \E r \in Pushers, x \in Progress : Going(r, x)
  <2>1. PICK r \in Pushers, x \in Progress : Going(r, x)
    BY <1>3
  <2>2. UNCHANGED panel
    BY <2>1 DEF Going
  <2>3. QED
    BY <1>1, <2>2 DEF panel
<1>4. QED
  BY <1>1, <1>2, <1>3, StepKinds DEF vars, panel

\* api_keys_add lists a key or an alias twice only if it was checked while another update
\* had it in its clone or was to add it, whatever is deleted, put back by a stale clone and
\* added again in between, and since which it has been listed, or about to be, all the time.
THEOREM TwiceOnlyOverlapped == Spec => []TwiceOnlyIfOverlapped
<1>1. Init => TwiceInv
  <2> SUFFICES ASSUME Init PROVE TwiceInv
    OBVIOUS
  <2>1. \A h \in Handlers : op[h] = Resting
    BY DEF Init
  <2>2. \A i, j \in DOMAIN entries : i = j
    <3>1. entries = <<>> \/ \E e : entries = <<e>>
      BY DEF Init
    <3>2. QED
      BY <3>1
  <2>3. QED
    BY <2>1, <2>2, RestingIs DEF TwiceInv, Apart
<1>2. TwiceInv => TwiceOnlyIfOverlapped
  BY DEF TwiceInv, Apart, TwiceOnlyIfOverlapped
<1>3. QED
  BY <1>1, <1>2, StepTwice, TypeCorrect, PTL DEF Spec

----------------------------------------------------------------------------
(* Replies *)

\* Of a request that publishes: the keys tried are those before the keys to do.
Position(x) == Len(x.key) - Len(x.todo)
Published(x) == [i \in DOMAIN x.done |-> x.done[i].key]

Done(x) ==
  /\ Len(x.todo) <= Len(x.key) /\ x.reply \in {"success", "failed"}
  /\ \A i \in 1..Len(x.todo) : x.todo[i] = x.key[Position(x) + i]
  /\ Published(x) = Sift(x.key, Range(x.key) \ {Blank})[Position(x)]
  /\ Len(x.key) = 1 => /\ x.key[1] # Blank
                       /\ x.reply = "success" <=> (x.todo # <<>> \/ x.done[1].ok)

Answered(x) ==
  IF x.reply \in Refusals THEN x.done = <<>>
  ELSE /\ Published(x) = Retain(x.key, Range(x.key) \ {Blank})
       /\ Len(x.key) = 1 => (x.reply = "success" <=> x.done[1].ok)

\* A record of progress is one that has not started, one that publishes, or an answer.
Sound(x) ==
  /\ x.pc = "idle" => x = Idle
  /\ x.pc \in {"idle", "lookup", "check"} => x.done = <<>> /\ x.todo = <<>> /\ x.reply = ""
  /\ x.pc = "publish" => Done(x)
  /\ x.pc = "answered" => Answered(x)

ReplyInv == \A r \in Pushers : Sound(req[r])

\* The first key to do is the next one.
LEMMA NextKey ==
  ASSUME NEW key \in Seq(Targets), NEW todo \in Seq(Targets), Len(todo) <= Len(key), todo # <<>>,
         \A i \in 1..Len(todo) : todo[i] = key[Len(key) - Len(todo) + i]
  PROVE  /\ Len(Tail(todo)) = Len(todo) - 1 /\ Len(Tail(todo)) <= Len(key)
         /\ Len(key) - Len(Tail(todo)) = Len(key) - Len(todo) + 1
         /\ Len(key) - Len(todo) + 1 \in 1..Len(key)
         /\ Head(todo) = key[Len(key) - Len(todo) + 1]
         /\ \A i \in 1..Len(Tail(todo)) : Tail(todo)[i] = key[Len(key) - Len(Tail(todo)) + i]
<1>1. /\ Len(key) \in Nat /\ Len(todo) \in Nat /\ Len(todo) > 0 /\ Head(todo) = todo[1]
      /\ Len(Tail(todo)) = Len(todo) - 1
      /\ \A i \in 1..Len(todo) - 1 : Tail(todo)[i] = todo[i + 1]
  OBVIOUS
<1>2. ASSUME NEW i \in 1..Len(todo) - 1 PROVE Tail(todo)[i] = key[Len(key) - Len(Tail(todo)) + i]
  <2>1. i + 1 \in 1..Len(todo) /\ Len(key) - Len(todo) + (i + 1) = Len(key) - Len(Tail(todo)) + i
    BY <1>1
  <2>2. todo[i + 1] = key[Len(key) - Len(todo) + (i + 1)]
    BY <2>1
  <2>3. QED
    BY <1>1, <2>1, <2>2
<1>3. QED
  BY <1>1, <1>2

\* What is tried of a key's place in the parameter.
LEMMA SiftNext ==
  ASSUME NEW key \in Seq(Targets), NEW m \in Nat, m + 1 \in 1..Len(key)
  PROVE  Sift(key, Range(key) \ {Blank})[m + 1] =
           IF key[m + 1] = Blank THEN Sift(key, Range(key) \ {Blank})[m]
           ELSE Append(Sift(key, Range(key) \ {Blank})[m], key[m + 1])
<1>1. key[m + 1] \in Range(key) /\ m + 1 - 1 = m
  BY DEF Range
<1>2. QED
  BY <1>1, SiftIs

LEMMA ProgressIs ==
  ASSUME NEW x \in Progress
  PROVE  /\ x.key \in Seq(Targets) /\ x.todo \in Seq(Targets) /\ x.done \in Seq([key : Targets, ok : BOOLEAN])
         /\ Len(x.key) \in Nat /\ Len(x.todo) \in Nat
<1>1. x.key \in Seq(Targets) /\ x.todo \in Seq(Targets) /\ x.done \in Seq([key : Targets, ok : BOOLEAN])
  BY DEF Progress
<1>2. QED
  BY <1>1

LEMMA PublishedMore ==
  ASSUME NEW x \in Progress, NEW y \in Progress, NEW k \in Targets, NEW ok \in BOOLEAN,
         y.done = Append(x.done, [key |-> k, ok |-> ok])
  PROVE  Published(y) = Append(Published(x), k)
<1> DEFINE D == [key : Targets, ok : BOOLEAN]
           d == x.done
           n == Len(d)
           e == [key |-> k, ok |-> ok]
           P == [i \in 1..n |-> d[i].key]
<1>1. d \in Seq(D) /\ e \in D /\ e.key = k /\ y.done = Append(d, e)
  BY ProgressIs
<1>a. \A z \in D : z.key \in Targets
  OBVIOUS
<1> HIDE DEF e, D, d
<1>2. /\ n \in Nat /\ DOMAIN d = 1..n /\ DOMAIN y.done = 1..n + 1 /\ y.done[n + 1] = e
      /\ \A i \in 1..n : y.done[i] = d[i] /\ d[i] \in D
  <2>1. n \in Nat /\ DOMAIN d = 1..n /\ \A i \in 1..n : d[i] \in D
    BY <1>1
  <2>2. DOMAIN y.done = 1..n + 1 /\ y.done[n + 1] = e
    BY <1>1
  <2>3. \A i \in 1..n : y.done[i] = d[i]
    BY <1>1
  <2>4. QED
    BY <2>1, <2>2, <2>3
<1>3. Published(x) = P
  BY <1>2 DEF Published, d
<1>4. P \in Seq(Targets) /\ Len(P) = n
  <2>1. \A i \in 1..n : d[i].key \in Targets
    BY <1>2, <1>a
  <2>2. P \in [1..n -> Targets]
    BY <2>1
  <2>3. QED
    BY <1>2, <2>2
<1>5. Published(y) = [i \in 1..n + 1 |-> IF i = n + 1 THEN k ELSE d[i].key]
  <2>1. \A i \in 1..n + 1 : y.done[i].key = IF i = n + 1 THEN k ELSE d[i].key
    BY <1>1, <1>2
  <2>2. QED
    BY <1>2, <2>1 DEF Published
<1>6. Append(P, k) = [i \in 1..n + 1 |-> IF i = n + 1 THEN k ELSE d[i].key]
  <2>1. \A i \in 1..n : P[i] = d[i].key
    OBVIOUS
  <2> HIDE DEF P
  <2>2. /\ Append(P, k) \in Seq(Targets) /\ Len(Append(P, k)) = n + 1
        /\ Append(P, k)[n + 1] = k /\ \A i \in 1..n : Append(P, k)[i] = d[i].key
    BY <1>4, <2>1
  <2>3. DOMAIN Append(P, k) = 1..n + 1 /\ \A i \in 1..n + 1 : i = n + 1 \/ i \in 1..n
    BY <1>2, <2>2
  <2> DEFINE A == Append(P, k)
  <2> HIDE DEF A
  <2>4. A = [i \in 1..n + 1 |-> A[i]]
    <3>1. A \in Seq(Targets) /\ Len(A) = n + 1
      BY <2>2 DEF A
    <3> HIDE DEF n
    <3>2. QED
      BY <3>1
  <2>5. \A i \in 1..n + 1 : A[i] = IF i = n + 1 THEN k ELSE d[i].key
    BY <2>2, <2>3 DEF A
  <2>6. QED
    BY <2>4, <2>5 DEF A
<1>7. QED
  BY <1>3, <1>5, <1>6

LEMMA NoneLeft == ASSUME NEW s \in Seq(Targets), Len(s) = 0 PROVE s = <<>>
OBVIOUS

LEMMA NoElement == ASSUME NEW d \in Seq([key : Targets, ok : BOOLEAN]), DOMAIN d = {} PROVE d = <<>>
<1>1. DOMAIN d = 1..Len(d) /\ Len(d) \in Nat
  OBVIOUS
<1>2. Len(d) = 0
  <2>1. 1 \notin 1..Len(d)
    BY <1>1
  <2>2. QED
    BY <1>1, <2>1
<1>3. QED
  BY <1>2

\* It starts,
LEMMA Starts ==
  ASSUME NEW x \in Progress, x.key # <<>>, x.key # <<Blank>>, x.todo = x.key, x.done = <<>>, x.reply = "success"
  PROVE  Done(x)
<1>1. x.key \in Seq(Targets) /\ Len(x.key) \in Nat
  BY ProgressIs
<1>2. Position(x) = 0 /\ Len(x.todo) <= Len(x.key)
  BY <1>1 DEF Position
<1>3. \A i \in 1..Len(x.todo) : x.todo[i] = x.key[Position(x) + i]
  BY <1>1, <1>2
<1>4. Published(x) = <<>>
  <2>1. Published(x) = [i \in DOMAIN <<>> |-> x.done[i].key]
    BY DEF Published
  <2>2. DOMAIN <<>> = {}
    OBVIOUS
  <2>3. QED
    BY <2>1, <2>2
<1>5. Sift(x.key, Range(x.key) \ {Blank})[0] = <<>>
  BY <1>1, SiftIs
<1>6. ASSUME Len(x.key) = 1 PROVE x.key[1] # Blank
  <2>1. x.key = <<x.key[1]>>
    BY <1>1, <1>6
  <2>2. QED
    BY <2>1
<1>7. x.todo # <<>>
  OBVIOUS
<1>8. QED
  BY <1>2, <1>3, <1>4, <1>5, <1>6, <1>7 DEF Done

\* goes on by a key,
LEMMA Advances ==
  ASSUME NEW x \in Progress, NEW y \in Progress, Done(y), y.todo # <<>>, x.key = y.key, x.todo = Tail(y.todo),
         \/ Head(y.todo) = Blank /\ x.done = y.done /\ x.reply = y.reply
         \/ /\ Head(y.todo) # Blank
            /\ \E ok \in BOOLEAN : /\ x.done = Append(y.done, [key |-> Head(y.todo), ok |-> ok])
                                   /\ x.reply = IF ~ok /\ Len(y.key) = 1 THEN "failed" ELSE y.reply
  PROVE  Done(x)
<1> DEFINE f == Sift(y.key, Range(y.key) \ {Blank})
           m == Len(y.key) - Len(y.todo)
<1>1. y.key \in Seq(Targets) /\ y.todo \in Seq(Targets) /\ Len(y.key) \in Nat /\ Len(y.todo) \in Nat
      /\ x.todo \in Seq(Targets) /\ y.done \in Seq([key : Targets, ok : BOOLEAN])
  BY ProgressIs
<1>2. /\ Len(y.todo) <= Len(y.key) /\ y.reply \in {"success", "failed"} /\ Position(y) = m
      /\ \A i \in 1..Len(y.todo) : y.todo[i] = y.key[m + i]
      /\ Published(y) = f[m]
      /\ Len(y.key) = 1 => y.key[1] # Blank
  BY DEF Done, Position
<1>3. /\ Len(x.todo) = Len(y.todo) - 1 /\ Len(x.todo) <= Len(y.key)
      /\ Len(y.key) - Len(x.todo) = m + 1 /\ m + 1 \in 1..Len(y.key)
      /\ Head(y.todo) = y.key[m + 1]
      /\ \A i \in 1..Len(x.todo) : x.todo[i] = y.key[Len(y.key) - Len(x.todo) + i]
  <2>1. \A i \in 1..Len(y.todo) : y.todo[i] = y.key[Len(y.key) - Len(y.todo) + i]
    BY <1>2
  <2>2. /\ Len(Tail(y.todo)) = Len(y.todo) - 1 /\ Len(Tail(y.todo)) <= Len(y.key)
        /\ Len(y.key) - Len(Tail(y.todo)) = Len(y.key) - Len(y.todo) + 1
        /\ Len(y.key) - Len(y.todo) + 1 \in 1..Len(y.key)
        /\ Head(y.todo) = y.key[Len(y.key) - Len(y.todo) + 1]
        /\ \A i \in 1..Len(Tail(y.todo)) : Tail(y.todo)[i] = y.key[Len(y.key) - Len(Tail(y.todo)) + i]
    <3> DEFINE key == y.key
               todo == y.todo
    <3>1. key \in Seq(Targets) /\ todo \in Seq(Targets) /\ Len(todo) <= Len(key) /\ todo # <<>>
          /\ \A i \in 1..Len(todo) : todo[i] = key[Len(key) - Len(todo) + i]
      BY <1>1, <1>2, <2>1
    <3> HIDE DEF key, todo, m
    <3>2. /\ Len(Tail(todo)) = Len(todo) - 1 /\ Len(Tail(todo)) <= Len(key)
          /\ Len(key) - Len(Tail(todo)) = Len(key) - Len(todo) + 1
          /\ Len(key) - Len(todo) + 1 \in 1..Len(key)
          /\ Head(todo) = key[Len(key) - Len(todo) + 1]
          /\ \A i \in 1..Len(Tail(todo)) : Tail(todo)[i] = key[Len(key) - Len(Tail(todo)) + i]
      BY <3>1, NextKey
    <3>3. QED
      BY <3>2 DEF key, todo
  <2>3. QED
    BY <2>2
<1>4. Position(x) = m + 1 /\ m \in Nat /\ m + 1 - 1 = m
  <2>1. Position(x) = Len(y.key) - Len(x.todo)
    BY DEF Position
  <2>2. Len(y.key) \in Nat /\ Len(y.todo) \in Nat /\ Len(y.todo) <= Len(y.key)
    BY <1>1, <1>2
  <2>3. m \in Nat
    BY <2>2
  <2> HIDE DEF m
  <2>4. m + 1 - 1 = m
    BY <2>3
  <2>5. QED
    BY <1>3, <2>1, <2>3, <2>4
<1>5. Head(y.todo) \in Targets
  BY <1>1
<1>6. f[m + 1] = IF y.key[m + 1] = Blank THEN f[m] ELSE Append(f[m], y.key[m + 1])
  <2>1. y.key \in Seq(Targets) /\ m \in Nat /\ m + 1 \in 1..Len(y.key)
    BY <1>1, <1>3, <1>4
  <2> HIDE DEF m
  <2>2. QED
    BY <2>1, SiftNext, Zenon
<1> HIDE DEF f
<1>7. Published(x) = f[m + 1]
  <2>1. CASE Head(y.todo) = Blank
    <3>1. Published(x) = Published(y)
      BY <2>1 DEF Published
    <3>2. QED
      BY <1>2, <1>3, <1>6, <2>1, <3>1
  <2>2. CASE Head(y.todo) # Blank
    <3>1. Published(x) = Append(Published(y), Head(y.todo))
      BY <1>5, <2>2, PublishedMore
    <3>2. QED
      BY <1>2, <1>3, <1>6, <2>2, <3>1
  <2>3. QED
    BY <2>1, <2>2
<1>8. x.reply \in {"success", "failed"}
  BY <1>2
<1>9. ASSUME Len(x.key) = 1
      PROVE  /\ x.key[1] # Blank
             /\ x.reply = "success" <=> (x.todo # <<>> \/ x.done[1].ok)
  <2>1. y.key[1] # Blank /\ Len(y.key) = 1
    BY <1>2, <1>9
  <2>2. m + 1 = 1 /\ m = 0 /\ Len(x.todo) = 0
    <3>1. m + 1 = 1
      BY <1>3, <2>1
    <3>2. m = 0
      BY <1>4, <3>1
    <3>3. Len(x.todo) = 0
      BY <1>1, <1>3, <2>1, <3>2
    <3>4. QED
      BY <3>1, <3>2, <3>3
  <2>3. x.todo = <<>>
    BY <1>1, <2>2, NoneLeft
  <2>4. Head(y.todo) # Blank
    BY <1>3, <2>1, <2>2
  <2>5. PICK ok \in BOOLEAN : /\ x.done = Append(y.done, [key |-> Head(y.todo), ok |-> ok])
                              /\ x.reply = IF ~ok THEN "failed" ELSE y.reply
    BY <2>1, <2>4
  <2>6. y.done = <<>>
    <3>1. f[0] = <<>>
      BY <1>1, SiftIs DEF f
    <3>2. Published(y) = <<>>
      BY <1>2, <2>2, <3>1
    <3>3. DOMAIN Published(y) = DOMAIN y.done /\ DOMAIN <<>> = {}
      BY DEF Published
    <3>4. DOMAIN y.done = {}
      BY <3>2, <3>3
    <3>5. QED
      BY <1>1, <3>4, NoElement
  <2>7. x.done[1].ok = ok
    <3>1. x.done = <<[key |-> Head(y.todo), ok |-> ok]>>
      BY <2>5, <2>6
    <3>2. QED
      BY <3>1
  <2>8. y.reply = "success"
    BY <2>1 DEF Done
  <2>9. x.reply = "success" <=> ok
    BY <2>5, <2>8
  <2>10. QED
    BY <2>1, <2>3, <2>7, <2>9
<1>10. Published(x) = Sift(x.key, Range(x.key) \ {Blank})[Position(x)]
  BY <1>4, <1>7 DEF f
<1>11. Len(x.todo) <= Len(x.key) /\ \A i \in 1..Len(x.todo) : x.todo[i] = x.key[Position(x) + i]
  BY <1>3, <1>4
<1>12. QED
  BY <1>8, <1>9, <1>10, <1>11 DEF Done

\* and ends.
LEMMA Ends ==
  ASSUME NEW x \in Progress, NEW y \in Progress, Done(y), y.todo = <<>>,
         x.key = y.key, x.done = y.done, x.reply = y.reply
  PROVE  Answered(x)
<1>1. Len(y.key) \in Nat
  BY ProgressIs
<1>2. Len(y.todo) = 0
  OBVIOUS
<1>3. Position(y) = Len(y.key)
  BY <1>1, <1>2 DEF Position
<1>4. Published(x) = Published(y)
  BY DEF Published
<1>5. Published(y) = Sift(y.key, Range(y.key) \ {Blank})[Position(y)]
  BY DEF Done
<1>6. Published(x) = Retain(x.key, Range(x.key) \ {Blank})
  BY <1>3, <1>4, <1>5 DEF Retain
<1>7. x.reply \notin Refusals
  <2>1. x.reply = "success" \/ x.reply = "failed"
    BY DEF Done
  <2>2. "success" \notin Refusals /\ "failed" \notin Refusals
    BY DEF Refusals
  <2>3. QED
    BY <2>1, <2>2
<1>8. Len(x.key) = 1 => (x.reply = "success" <=> x.done[1].ok)
  BY DEF Done
<1>9. QED
  BY <1>6, <1>7, <1>8 DEF Answered

LEMMA GoingSound ==
  ASSUME TypeOK, NEW r \in Pushers, NEW x \in Progress, Going(r, x), Sound(req[r])
  PROVE  Sound(x)
<1>0. req[r] \in Progress
  BY DEF TypeOK
<1>1. Idle.pc = "idle" /\ Idle.done = <<>> /\ Idle.todo = <<>> /\ Idle.reply = ""
  BY DEF Idle
<1>2. CASE req[r].pc = "lookup"
  <2>1. x.pc = "check" /\ x.todo = <<>> /\ x.done = <<>> /\ x.reply = ""
    BY <1>2 DEF Going, Sound
  <2>2. QED
    BY <2>1 DEF Sound
<1>3. CASE req[r].pc = "check" /\ x.pc = "answered"
  <2>1. x.done = <<>> /\ \E i \in 1..7 : x.reply = Checks(r)[i].reply
    BY <1>3 DEF Going, Sound
  <2>2. x.reply \in Refusals
    BY <2>1, RefusalIs
  <2>3. QED
    BY <1>3, <2>1, <2>2 DEF Sound, Answered
<1>4. CASE req[r].pc = "check" /\ x.pc = "publish"
  <2>1. /\ x.key = req[r].key /\ x.todo = req[r].key /\ x.done = <<>> /\ x.reply = "success"
        /\ \A i \in 1..7 : ~Checks(r)[i].bad
    BY <1>4 DEF Going, Sound
  <2>2. req[r].key # <<>> /\ req[r].key # <<Blank>>
    BY <2>1, AcceptedIs
  <2>3. Done(x)
    BY <2>1, <2>2, Starts
  <2>4. QED
    BY <1>4, <2>3 DEF Sound
<1>5. CASE req[r].pc = "publish" /\ req[r].todo # <<>>
  <2>1. /\ Done(req[r]) /\ x.pc = "publish" /\ x.key = req[r].key /\ x.todo = Tail(req[r].todo)
        /\ \/ Head(req[r].todo) = Blank /\ x.done = req[r].done /\ x.reply = req[r].reply
           \/ /\ Head(req[r].todo) # Blank
              /\ \E ok \in BOOLEAN :
                   /\ x.done = Append(req[r].done, [key |-> Head(req[r].todo), ok |-> ok])
                   /\ x.reply = IF ~ok /\ Len(req[r].key) = 1 THEN "failed" ELSE req[r].reply
    BY <1>5 DEF Going, Sound
  <2>2. Done(x)
    BY <1>0, <1>5, <2>1, Advances
  <2>3. QED
    BY <2>1, <2>2 DEF Sound
<1>6. CASE req[r].pc = "publish" /\ req[r].todo = <<>>
  <2>1. Done(req[r]) /\ x.pc = "answered" /\ x.key = req[r].key /\ x.done = req[r].done /\ x.reply = req[r].reply
    BY <1>6 DEF Going, Sound
  <2>2. Answered(x)
    BY <1>0, <1>6, <2>1, Ends
  <2>3. QED
    BY <2>1, <2>2 DEF Sound
<1>7. CASE req[r].pc = "answered"
  <2>1. x = Idle
    BY <1>7 DEF Going
  <2>2. QED
    BY <1>1, <2>1 DEF Sound
<1>8. CASE req[r].pc = "idle"
  <2>1. x.pc = "lookup" /\ x.todo = <<>> /\ x.done = <<>> /\ x.reply = ""
    BY <1>8 DEF Going
  <2>2. QED
    BY <2>1 DEF Sound
<1>9. req[r].pc = "check" => x.pc \in {"answered", "publish"}
  BY DEF Going
<1>10. req[r].pc \in {"idle", "lookup", "check", "publish", "answered"}
  BY <1>0 DEF Progress
<1>11. QED
  BY <1>2, <1>3, <1>4, <1>5, <1>6, <1>7, <1>8, <1>9, <1>10

LEMMA RepliesCorrect == Spec => []ReplyInv
<1>1. Init => ReplyInv
  <2>1. Idle.pc = "idle" /\ Idle.done = <<>> /\ Idle.todo = <<>> /\ Idle.reply = ""
    BY DEF Idle
  <2>2. Sound(Idle)
    BY <2>1 DEF Sound
  <2>3. QED
    BY <2>2 DEF Init, ReplyInv
<1>2. TypeOK /\ ReplyInv /\ [Next]_vars => ReplyInv'
  <2> SUFFICES ASSUME TypeOK, ReplyInv, [Next]_vars PROVE ReplyInv'
    OBVIOUS
  <2>1. CASE UNCHANGED req
    BY <2>1 DEF ReplyInv
  <2>2. CASE \E r \in Pushers, x \in Progress : Going(r, x)
    <3>1. PICK r \in Pushers, x \in Progress : Going(r, x)
      BY <2>2
    <3>2. Sound(x)
      BY <3>1, GoingSound DEF ReplyInv
    <3>3. req' = [req EXCEPT ![r] = x]
      BY <3>1 DEF Going
    <3>4. QED
      BY <3>2, <3>3 DEF ReplyInv, TypeOK
  <2>3. (\E h \in Handlers : PanelStep(h)) => UNCHANGED req
    BY PanelKeepsReq
  <2>4. QED
    BY <2>1, <2>2, <2>3, StepKinds DEF vars
<1>3. QED
  BY <1>1, <1>2, TypeCorrect, PTL DEF Spec

\* A refused push publishes to no key, not even to those before the one it is refused for;
\* an accepted one tries each that is not empty, in its order and however often it stands
\* there; and the answer to a single key is success only if it was published.
THEOREM RepliesTrue == Spec => []RepliesAreTrue
<1>1. ReplyInv => RepliesAreTrue
  BY DEF ReplyInv, Sound, Answered, Published, RepliesAreTrue
<1>2. QED
  BY <1>1, RepliesCorrect, PTL

\* A request by alias publishes to no key but one that the alias has named since the
\* request came, though the list changes between find_by_temp_key and the check.
THEOREM AliasReaches == Spec => []AliasReachesOwner
<1>1. Init => OwnerInv
  <2>1. Idle.pc = "idle"
    BY DEF Idle
  <2>2. QED
    BY <2>1 DEF Init, OwnerInv
<1>2. TypeOK /\ OwnerInv /\ ReplyInv => AliasReachesOwner
  <2> SUFFICES ASSUME TypeOK, OwnerInv, ReplyInv, NEW r \in Pushers, Text(req[r].p, "push_key") = <<>>
               PROVE  Tried(r) \subseteq owners[r]
    BY DEF AliasReachesOwner
  <2>1. CASE req[r].pc = "idle"
    <3>1. req[r].done = <<>>
      BY <2>1 DEF ReplyInv, Sound
    <3>2. QED
      BY <3>1 DEF Tried, Range
  <2>2. QED
    BY <2>1 DEF OwnerInv
<1>3. QED
  BY <1>1, <1>2, StepOwner, TypeCorrect, RepliesCorrect, PTL DEF Spec


----------------------------------------------------------------------------
(* Webhooks *)

\* A body of a documented kind with its text in place is given words.
LEMMA HookSays ==
  ASSUME NEW p, NEW words, KnownHook(p), {"root", "content"} \subseteq words
  PROVE  Said(p, words, "content") = <<Words>>
<1> DEFINE Feishus  == {"text", "post", "share_chat", "image", "interactive"}
           Weidings == {"text", "markdown", "image", "news", "file", "template_card", "link", "actionCard", "feedCard"}
<1>1. \A t \in Feishus : "content" \in Feishu(t, words)
  BY DEF Feishu
<1>2. \A t \in Weidings : "content" \in Weiding(t, words)
  BY DEF Weiding
<1>3. CASE \E t \in Feishus : Text(p, "msg_type") = <<t>>
  <2>1. PICK t \in Feishus : Text(p, "msg_type") = <<t>>
    BY <1>3
  <2>2. p["msg_type"] = <<t>> /\ <<t>> # <<>> /\ Head(<<t>>) = t
    BY <2>1 DEF Text
  <2>3. Detect(p, words) = Feishu(t, words)
    <3> HIDE DEF Feishus
    <3>1. QED
      BY <2>1, <2>2 DEF Detect
  <2>4. QED
    BY <1>1, <2>3 DEF Said
<1>4. CASE Text(p, "msg_type") = <<>> /\ \E t \in Weidings : Text(p, "msgtype") = <<t>>
  <2>1. PICK t \in Weidings : Text(p, "msgtype") = <<t>>
    BY <1>4
  <2>2. p["msgtype"] = <<t>> /\ <<t>> # <<>> /\ Head(<<t>>) = t
    BY <2>1 DEF Text
  <2>3. Detect(p, words) = Weiding(t, words)
    <3> HIDE DEF Weidings
    <3>1. QED
      BY <1>4, <2>1, <2>2 DEF Detect
  <2>4. QED
    BY <1>2, <2>3 DEF Said
<1>5. QED
  BY <1>3, <1>4 DEF KnownHook

Hook(x) == KnownHook(x.p) /\ {"root", "content"} \subseteq x.words /\ ~IsObject(x.p, "title")

HookInv == \A r \in Pushers : Hook(req[r]) => req[r].reply # "bad format"

\* The format check refuses none of them.
LEMMA FormatPasses ==
  ASSUME NEW r, Hook(req[r]), NEW i \in 1..7, Checks(r)[i].bad
  PROVE  Checks(r)[i].reply # "bad format"
<1>1. Said(req[r].p, req[r].words, "content") # <<>>
  BY HookSays DEF Hook
<1>2. ~BadFormat(req[r].p, Said(req[r].p, req[r].words, "content"), "content")
  BY <1>1 DEF BadFormat
<1>3. ~BadFormat(req[r].p, Said(req[r].p, req[r].words, "title"), "title")
  BY DEF BadFormat, Hook
<1>4. Checks(r)[4].bad = (\/ BadFormat(req[r].p, Said(req[r].p, req[r].words, "title"), "title")
                          \/ BadFormat(req[r].p, Said(req[r].p, req[r].words, "content"), "content"))
  BY DEF Checks
<1>5. i # 4
  BY <1>2, <1>3, <1>4
<1>6. i = 1 \/ i = 2 \/ i = 3 \/ i = 5 \/ i = 6 \/ i = 7
  BY <1>5
<1>7. QED
  BY <1>6, RepliesAre

LEMMA GoingHook ==
  ASSUME TypeOK, NEW r \in Pushers, NEW x \in Progress, Going(r, x), Hook(x),
         Hook(req[r]) => req[r].reply # "bad format"
  PROVE  x.reply # "bad format"
<1>1. Idle.reply = ""
  BY DEF Idle
<1>2. CASE x.p = req[r].p /\ x.words = req[r].words
  <2>1. Hook(req[r])
    BY <1>2 DEF Hook
  <2>2. CASE req[r].pc = "check"
    <3>1. x.reply = "success" \/ \E i \in 1..7 : Checks(r)[i].bad /\ x.reply = Checks(r)[i].reply
      BY <2>2 DEF Going
    <3>2. QED
      BY <2>1, <3>1, FormatPasses
  <2>3. CASE req[r].pc # "check"
    <3>1. x.reply \in {"", "failed"} \/ x.reply = req[r].reply
      BY <1>1, <2>3 DEF Going
    <3>2. QED
      BY <2>1, <3>1
  <2>4. QED
    BY <2>2, <2>3
<1>3. CASE x.reply = ""
  BY <1>3
<1>4. QED
  BY <1>1, <1>2, <1>3 DEF Going

\* A webhook body of a documented kind that has a text in its place is never refused for
\* its format, and what is published has words.
THEOREM HooksGoOut == Spec => []HooksComeThrough
<1>1. Init => HookInv
  <2>1. Idle.reply = ""
    BY DEF Idle
  <2>2. QED
    BY <2>1 DEF Init, HookInv
<1>2. TypeOK /\ HookInv /\ [Next]_vars => HookInv'
  <2> SUFFICES ASSUME TypeOK, HookInv, [Next]_vars PROVE HookInv'
    OBVIOUS
  <2>1. CASE UNCHANGED req
    BY <2>1 DEF HookInv, Hook
  <2>2. CASE \E r \in Pushers, x \in Progress : Going(r, x)
    <3>1. PICK r \in Pushers, x \in Progress : Going(r, x)
      BY <2>2
    <3>2. Hook(x) => x.reply # "bad format"
      BY <3>1, GoingHook DEF HookInv
    <3>3. req' = [req EXCEPT ![r] = x]
      BY <3>1 DEF Going
    <3>4. \A s \in Pushers : req'[s] = IF s = r THEN x ELSE req[s]
      BY <3>3 DEF TypeOK
    <3>5. ASSUME NEW s \in Pushers, Hook(req'[s]) PROVE req'[s].reply # "bad format"
      BY <3>2, <3>4, <3>5 DEF HookInv
    <3>6. QED
      BY <3>5 DEF HookInv, Hook
  <2>3. (\E h \in Handlers : PanelStep(h)) => UNCHANGED req
    BY PanelKeepsReq
  <2>4. QED
    BY <2>1, <2>2, <2>3, StepKinds DEF vars
<1>3. HookInv => HooksComeThrough
  BY HookSays DEF HookInv, Hook, HooksComeThrough
<1>4. QED
  BY <1>1, <1>2, <1>3, TypeCorrect, PTL DEF Spec

=============================================================================
