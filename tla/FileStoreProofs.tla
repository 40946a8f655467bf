-------------------------- MODULE FileStoreProofs --------------------------
(***************************************************************************)
(* Proofs about the file store, for any processes, keys and programs whose *)
(* deletions find their key (Tidy): killed or not, processes see a store   *)
(* of atomic calls, and when none is killed the count in the file is that  *)
(* of the processes that use it.                                           *)
(*                                                                         *)
(* The argument.  What the log says after an entry is appended is what it  *)
(* said before with that entry applied (UpdateAppend), so that a process   *)
(* that holds the lock over a scan writes on the contents it has read      *)
(* (Cached).  The count is the number of those that joined and did not     *)
(* leave, a process that is killed included; so the file goes only with    *)
(* the last of them (Counting), and a key that a process has set stays     *)
(* until that process deletes it (Deletable): no scan fails.               *)
(***************************************************************************)
EXTENDS FileStore, FiniteSetTheorems, SequenceTheorems, WellFoundedInduction, TLAPS

USE FileStoreAssumption, PlansAssumption

\* The plans the theorems are about.
TidyPlans == \A p \in Plans : p.signals \subseteq {"kill"} => Tidy(p.calls)

Values  == Int \cup {Empty}
Entries == [key : Names, value : Int, delete : {FALSE}]
           \cup [key : Names, value : Values, delete : {TRUE}]
Scans   == [ok : BOOLEAN, contents : [Names -> Values]]
Labels  == {"start", "join", "ready", "add", "compare_set", "exit", "unwound",
            "remove", "gone", "caught", "holding"}
Holding == {"join", "add", "compare_set", "remove", "holding"}

Typed ==
  /\ exists \in BOOLEAN
  /\ log \in Seq(Entries) /\ (~ exists => log = <<>>)
  /\ lock \in Clients \cup {Nobody}
  /\ pc \in [Clients -> Labels]
  /\ calls \in [Clients -> Seq(StoreCall)]
  /\ cache \in [Clients -> [Names -> Values]]
  /\ answers \in [Clients -> Seq(Values)]
  /\ counted \in SUBSET Clients

\* A process holds the lock where the code is between a scan and what it writes then,
\* and when it has caught the error of a get, ...
Locked == \A c \in Clients : lock = c <=> pc[c] \in Holding

\* ... in the call it makes, ...
AtHand == \A c \in Clients : pc[c] \in {"add", "compare_set"} =>
            calls[c] # <<>> /\ Head(calls[c]).op = pc[c]

\* ... and what it has read is still what the file says.
Cached == \A c \in Clients : pc[c] \in {"join", "add", "compare_set"} => cache[c] = Contents

\* The count is that of the processes that joined and did not leave; the last one
\* is taken off it before the file is removed.
Removing == \E c \in Clients : pc[c] = "remove"

Counting ==
  /\ Number(Contents[Cnt]) = Cardinality(counted) - (IF Removing THEN 1 ELSE 0)
  /\ \A c \in Clients :
       /\ pc[c] \notin {"unwound", "caught", "holding"}
       /\ pc[c] \in {"start", "join"} => c \notin counted
       /\ c \in Using => c \in counted
       /\ pc[c] = "remove" => counted = {c}

\* A deletion to come finds its key: the process sets it first, or has set it.
Deletable ==
  /\ \A c, d \in Clients : c # d => \A i \in DOMAIN calls[c], j \in DOMAIN calls[d] :
       ~ (calls[c][i].op = "delete" /\ Deletes(calls[d][j], calls[c][i].key))
  /\ \A c \in Clients : pc[c] \in {"start", "join", "ready", "add", "compare_set"} =>
       \A i \in DOMAIN calls[c] : calls[c][i].op = "delete" =>
         \/ SetBefore(calls[c], i, calls[c][i].key)
         \/ /\ pc[c] \notin {"start", "join"} /\ Contents[calls[c][i].key] # Empty
            /\ \A m \in 1 .. (i - 1) : ~ Deletes(calls[c][m], calls[c][i].key)

IInv == /\ Typed /\ Locked /\ AtHand /\ Cached
        /\ Promised => Counting /\ Deletable /\ Readable

\* No process is one too many, ...
Room == WorldSize \notin 0 .. (Cardinality(Clients) - 1)

\* ... so that when none is stopped all that are counted are there, and the file only
\* while there are some.
Present == signals = {} => /\ counted \subseteq Using
                           /\ lock = Nobody /\ exists => counted # {}

-----------------------------------------------------------------------------
(* The scan of the file.                                                   *)

LEMMA LeastOf ==
  ASSUME NEW T \in SUBSET Nat, T # {}
  PROVE  \E x \in T : \A y \in T : x <= y
<1> DEFINE R == OpToRel(<, Nat)
<1>1. IsWellFoundedOn(R, Nat)  BY NatLessThanWellFounded
<1>2. \A x, y \in Nat : y < x => <<y, x>> \in R  BY DEF OpToRel
<1> HIDE DEF R
<1>3. PICK x \in T : \A y \in T : ~ (<<y, x>> \in R)  BY <1>1, WFMin
<1>4. \A y \in T : ~ (y < x)  BY <1>2, <1>3
<1> QED  BY <1>4

First == [ok |-> TRUE, contents |-> Blank]

\* What _update has found after n entries, from what it had found before.
Body(l, f, n) == IF n = 0 THEN First
                 ELSE IF f[n - 1].ok THEN Apply(f[n - 1], l[n]) ELSE f[n - 1]

LEMMA ApplyProperties ==
  ASSUME NEW s \in Scans, NEW e \in Entries
  PROVE  /\ Apply(s, e) \in Scans
         /\ e.delete /\ s.contents[e.key] = Empty => Apply(s, e).ok = FALSE
         /\ ~ (e.delete /\ s.contents[e.key] = Empty) =>
              /\ Apply(s, e).ok = s.ok
              /\ Apply(s, e).contents = [s.contents EXCEPT ![e.key] = e.value]
<1>1. e.key \in Names /\ e.value \in Values  BY DEF Entries, Values
<1>2. s.contents \in [Names -> Values] /\ s.ok \in BOOLEAN  BY DEF Scans
<1>3. CASE e.delete /\ s.contents[e.key] = Empty
  <2>1. Apply(s, e) = [s EXCEPT !.ok = FALSE]  BY <1>3 DEF Apply
  <2> QED  BY <1>2, <1>3, <2>1 DEF Scans
<1>4. CASE ~ (e.delete /\ s.contents[e.key] = Empty)
  <2>1. Apply(s, e) = [s EXCEPT !.contents[e.key] = e.value]  BY <1>4 DEF Apply
  <2> QED  BY <1>1, <1>2, <1>4, <2>1 DEF Scans
<1> QED  BY <1>3, <1>4

LEMMA FirstType == First \in Scans /\ Blank \in [Names -> Values]
BY DEF First, Blank, Scans, Values

\* f is the scan of the first m entries of l.
Follows(l, m, f) == \A n \in 0 .. m : f[n] = Body(l, f, n)

Scanned(l, m, f) == f \in [0 .. m -> Scans] /\ Follows(l, m, f)

LEMMA ScanExists ==
  ASSUME NEW l \in Seq(Entries), NEW n \in 0 .. Len(l)
  PROVE  \E f : Scanned(l, n, f)
<1> SUFFICES ASSUME ~ \E f : Scanned(l, n, f) PROVE FALSE  OBVIOUS
<1>1. PICK T : T = {m \in Nat : m <= Len(l) /\ ~ \E f : Scanned(l, m, f)}  OBVIOUS
<1>2. Len(l) \in Nat  OBVIOUS
<1>3. n \in T /\ T \in SUBSET Nat  BY <1>1, <1>2
<1>4. PICK m \in T : \A y \in T : m <= y  BY <1>3, LeastOf
<1>5. m \in Nat /\ m <= Len(l) /\ ~ \E f : Scanned(l, m, f)  BY <1>1, <1>4
<1>6. CASE m = 0
  <2>1. PICK f : f = [i \in 0 .. m |-> First]  OBVIOUS
  <2>2. \A i \in 0 .. m : f[i] = Body(l, f, i)  BY <1>6, <2>1 DEF Body
  <2> QED  BY <1>5, <2>1, <2>2, FirstType DEF Scanned, Follows
<1>7. CASE m # 0
  <2>1. m - 1 \in Nat /\ ~ (m <= m - 1) /\ m - 1 <= Len(l)  BY <1>2, <1>5, <1>7
  <2>2. PICK g : Scanned(l, m - 1, g)  BY <1>1, <1>4, <2>1
  <2>3. PICK f : f = [i \in 0 .. m |-> IF i = m THEN Body(l, g, m) ELSE g[i]]  OBVIOUS
  <2>4. l[m] \in Entries  BY <1>2, <1>5, <1>7
  <2>5. g[m - 1] \in Scans  BY <2>1, <2>2 DEF Scanned, Follows
  <2>6. Body(l, g, m) \in Scans  BY <1>7, <2>4, <2>5, ApplyProperties DEF Body
  <2>7. f \in [0 .. m -> Scans]
    <3>1. \A i \in 0 .. m : i # m => i \in 0 .. (m - 1)  BY <1>5, <2>1
    <3> QED  BY <2>2, <2>3, <2>6, <3>1 DEF Scanned, Follows
  <2>8. ASSUME NEW i \in 0 .. m PROVE f[i] = Body(l, f, i)
    <3>1. i # 0 => i - 1 \in 0 .. m /\ i - 1 # m /\ f[i - 1] = g[i - 1]  BY <1>5, <2>3
    <3>2. CASE i = m  BY <2>3, <3>1, <3>2 DEF Body
    <3>3. CASE i # m
      <4>1. i \in 0 .. (m - 1)  BY <1>5, <3>3
      <4>2. f[i] = g[i] /\ g[i] = Body(l, g, i)  BY <2>2, <2>3, <3>3, <4>1 DEF Scanned, Follows
      <4> QED  BY <3>1, <4>2 DEF Body
    <3> QED  BY <3>2, <3>3
  <2>9. Scanned(l, m, f)  BY <2>7, <2>8 DEF Scanned, Follows
  <2> QED  BY <1>5, <2>9
<1> QED  BY <1>6, <1>7

\* Two scans find the same as long as they read the same entries.
SameEntries(a, b, m) == \A i \in 1 .. m : a[i] = b[i]

LEMMA ScansAgree ==
  ASSUME NEW a \in Seq(Entries), NEW b \in Seq(Entries), NEW m \in Nat, NEW u, NEW v,
         SameEntries(a, b, m),
         Follows(a, m, u), Follows(b, m, v)
  PROVE  u[m] = v[m]
<1> SUFFICES ASSUME u[m] # v[m] PROVE FALSE  OBVIOUS
<1>1. PICK T : T = {j \in Nat : j <= m /\ u[j] # v[j]}  OBVIOUS
<1>2. m \in T /\ T \in SUBSET Nat  BY <1>1
<1>3. PICK j \in T : \A y \in T : j <= y  BY <1>2, LeastOf
<1>4. j \in Nat /\ j <= m /\ u[j] # v[j]  BY <1>1, <1>3
<1>5. u[j] = Body(a, u, j) /\ v[j] = Body(b, v, j)  BY <1>4 DEF Follows
<1>6. CASE j = 0  BY <1>4, <1>5, <1>6 DEF Body
<1>7. CASE j # 0
  <2>1. j - 1 \in Nat /\ j - 1 <= m /\ ~ (j <= j - 1) /\ j \in 1 .. m  BY <1>4, <1>7
  <2>2. u[j - 1] = v[j - 1]  BY <1>1, <1>3, <2>1
  <2>3. a[j] = b[j]  BY <2>1 DEF SameEntries
  <2> QED  BY <1>4, <1>5, <1>7, <2>2, <2>3 DEF Body
<1> QED  BY <1>6, <1>7

LEMMA UpdateScans ==
  ASSUME NEW l \in Seq(Entries)
  PROVE  \E f : Scanned(l, Len(l), f) /\ Update(l) = f[Len(l)]
<1>1. Len(l) \in Nat /\ Len(l) \in 0 .. Len(l)  OBVIOUS
<1>2. PICK g : Scanned(l, Len(l), g)  BY <1>1, ScanExists
<1>3. PICK D : D = 0 .. Len(l)  OBVIOUS
<1>4. g = [n \in D |-> Body(l, g, n)]
  <2>1. g = [n \in D |-> g[n]]  BY <1>2, <1>3 DEF Scanned, Follows
  <2> QED  BY <1>2, <1>3, <2>1 DEF Scanned, Follows
<1>5. PICK f : f = CHOOSE h : h = [n \in D |-> Body(l, h, n)]  OBVIOUS
<1>6. f = [n \in D |-> Body(l, f, n)]  BY <1>4, <1>5
<1>7. Update(l) = f[Len(l)]  BY <1>3, <1>5 DEF Update, Body, First
<1>8. Follows(l, Len(l), f)  BY <1>3, <1>6 DEF Follows
<1>9. Follows(l, Len(l), g)  BY <1>2 DEF Scanned
<1>10. SameEntries(l, l, Len(l))  BY DEF SameEntries
<1>11. f[Len(l)] = g[Len(l)]  BY <1>1, <1>8, <1>9, <1>10, ScansAgree
<1> QED  BY <1>2, <1>7, <1>11

LEMMA UpdateType ==
  ASSUME NEW l \in Seq(Entries)
  PROVE  Update(l) \in Scans
<1>1. PICK f : Scanned(l, Len(l), f) /\ Update(l) = f[Len(l)]  BY UpdateScans
<1>2. Len(l) \in 0 .. Len(l)  OBVIOUS
<1> QED  BY <1>1, <1>2 DEF Scanned, Follows

LEMMA UpdateEmpty == Update(<<>>) = First
<1>1. <<>> \in Seq(Entries) /\ Len(<<>>) = 0  OBVIOUS
<1>2. PICK f : Scanned(<<>>, 0, f) /\ Update(<<>>) = f[0]  BY <1>1, UpdateScans
<1> QED  BY <1>2 DEF Scanned, Follows, Body

\* A scan of a file that has grown by an entry.
LEMMA UpdateAppend ==
  ASSUME NEW l \in Seq(Entries), NEW e \in Entries, Update(l).ok
  PROVE  Update(Append(l, e)) = Apply(Update(l), e)
<1>1. PICK n, k : n = Len(l) /\ k = Append(l, e)  OBVIOUS
<1>1a. n \in Nat /\ k \in Seq(Entries) /\ Len(k) = n + 1 /\ k[n + 1] = e
  BY <1>1
<1>1b. SameEntries(k, l, n)
  BY <1>1 DEF SameEntries
<1>2. PICK f : Scanned(l, n, f) /\ Update(l) = f[n]  BY <1>1, UpdateScans
<1>3. PICK g : Scanned(k, n + 1, g) /\ Update(k) = g[n + 1]  BY <1>1a, UpdateScans
<1>4. Follows(k, n, g) /\ Follows(l, n, f)
  BY <1>1a, <1>2, <1>3 DEF Scanned, Follows
<1>5. f[n] = g[n]  BY <1>1a, <1>1b, <1>4, ScansAgree
<1>6. g[n + 1] = Body(k, g, n + 1) /\ n + 1 # 0 /\ (n + 1) - 1 = n
  BY <1>1a, <1>3 DEF Scanned, Follows
<1> QED  BY <1>1, <1>1a, <1>2, <1>3, <1>5, <1>6 DEF Body

-----------------------------------------------------------------------------
(* The contents, and what writing to the file does to them.                *)

LEMMA ContentsType ==
  ASSUME Typed
  PROVE  Contents \in [Names -> Values] /\ Contents[Cnt] \in Values /\ Readable \in BOOLEAN
<1>1. Update(log) \in Scans  BY UpdateType DEF Typed
<1>2. Cnt \in Names  BY DEF Names
<1> QED  BY <1>1, <1>2 DEF Contents, Readable, Scans

LEMMA Unwritten == log' = log => Contents' = Contents /\ Readable' = Readable
BY DEF Contents, Readable

LEMMA Erased == log' = <<>> => Contents' = Blank /\ Readable'
BY UpdateEmpty DEF Contents, Readable, First

LEMMA Written ==
  ASSUME Typed, Readable, NEW e \in Entries, log' = Append(log, e),
         ~ (e.delete /\ Contents[e.key] = Empty)
  PROVE  Readable' /\ Contents' = [Contents EXCEPT ![e.key] = e.value]
<1>1. log \in Seq(Entries) /\ Update(log).ok  BY DEF Typed, Readable
<1>2. Update(log) \in Scans  BY <1>1, UpdateType
<1>3. Update(log') = Apply(Update(log), e)  BY <1>1, UpdateAppend
<1>4. Apply(Update(log), e).ok = Update(log).ok
      /\ Apply(Update(log), e).contents = [Update(log).contents EXCEPT ![e.key] = e.value]
  BY <1>2, ApplyProperties DEF Contents
<1> QED  BY <1>1, <1>3, <1>4 DEF Contents, Readable

LEMMA EntryTypes ==
  /\ Cnt \in Names /\ Keys \subseteq Names
  /\ \A k \in Names, v \in Int : Entry(k, v) \in Entries
  /\ \A k \in Keys : Deletion(k) \in Entries
BY DEF Names, Entry, Deletion, Entries, Values

LEMMA NumberType == \A v \in Values : Number(v) \in Int
BY DEF Number, Values

LEMMA CallTypes ==
  ASSUME Typed, NEW c \in Clients, calls[c] # <<>>
  PROVE  /\ Head(calls[c]) \in StoreCall /\ Head(calls[c]).key \in Keys
         /\ Head(calls[c]).value \in Int /\ Head(calls[c]).expected \in Values
         /\ Tail(calls[c]) \in Seq(StoreCall)
<1>1. calls[c] \in Seq(StoreCall)  BY DEF Typed
<1>2. Head(calls[c]) \in StoreCall /\ Tail(calls[c]) \in Seq(StoreCall)
  BY <1>1, HeadTailProperties
<1> QED  BY <1>2 DEF StoreCall, Values

-----------------------------------------------------------------------------
(* Types.                                                                  *)

\* The parts of Typed that a call, a write and a scan change.
LEMMA FinishTyped ==
  ASSUME Typed, NEW c \in Clients, calls[c] # <<>>, NEW a \in Values, Finish(c, a)
  PROVE  calls' \in [Clients -> Seq(StoreCall)] /\ answers' \in [Clients -> Seq(Values)]
<1>1. calls' = [calls EXCEPT ![c] = Tail(calls[c])] /\ answers' = [answers EXCEPT ![c] = Append(answers[c], a)]
  BY DEF Finish
<1>2. Tail(calls[c]) \in Seq(StoreCall)  BY CallTypes
<1>3. Append(answers[c], a) \in Seq(Values)  BY DEF Typed
<1> QED  BY <1>1, <1>2, <1>3 DEF Typed

LEMMA WriteTyped ==
  ASSUME Typed, NEW e \in Entries, Write(e)
  PROVE  exists' \in BOOLEAN /\ log' \in Seq(Entries) /\ (~ exists' => log' = <<>>)
BY DEF Typed, Write

LEMMA ScanTyped ==
  ASSUME Typed, NEW c \in Clients, Scan(c)
  PROVE  /\ exists' \in BOOLEAN /\ log' \in Seq(Entries) /\ (~ exists' => log' = <<>>)
         /\ cache' \in [Clients -> [Names -> Values]]
BY ContentsType DEF Typed, Scan

LEMMA InitTyped == Init => Typed
<1> SUFFICES ASSUME Init PROVE Typed  OBVIOUS
<1>1. PICK p \in Plans : calls = p.calls /\ signals = p.signals
        /\ pc = [c \in Clients |-> IF c \in p.clients THEN "start" ELSE "gone"]
  BY DEF Init
<1>2. Blank \in [Names -> Values]  BY FirstType
<1>3. <<>> \in Seq(Entries) /\ <<>> \in Seq(Values)  OBVIOUS
<1> QED  BY <1>1, <1>2, <1>3 DEF Init, Typed, Labels

LEMMA GotoTyped ==
  ASSUME Typed, NEW c \in Clients, NEW label \in Labels, Goto(c, label)
  PROVE  pc' \in [Clients -> Labels]
BY DEF Typed, Goto

LEMMA LabelNames ==
  \A label \in {"start", "join", "ready", "caught", "holding", "add", "compare_set", "exit",
                "unwound", "remove", "gone"} : label \in Labels
BY DEF Labels

LEMMA StepTyped ==
  ASSUME Typed, AtHand, NEW c \in Clients, Step(c)
  PROVE  Typed'
<1>1. CASE JoinRead(c)
  BY <1>1, ScanTyped, GotoTyped, LabelNames DEF JoinRead, Typed
<1>2. CASE JoinWrite(c)
  <2>1. cache[c][Cnt] \in Values  BY EntryTypes DEF Typed
  <2>2. Entry(Cnt, Number(cache[c][Cnt]) + 1) \in Entries  BY <2>1, EntryTypes, NumberType
  <2>3. PICK label \in Labels : Goto(c, label)  BY <1>2, LabelNames DEF JoinWrite
  <2> QED  BY <1>2, <2>2, <2>3, WriteTyped, GotoTyped DEF JoinWrite, Typed
<1>3. CASE Set(c)
  <2>1. calls[c] # <<>>  BY <1>3 DEF Set, Calling
  <2>2. Entry(Head(calls[c]).key, Head(calls[c]).value) \in Entries  BY <2>1, CallTypes, EntryTypes
  <2>3. Empty \in Values  BY DEF Values
  <2> QED  BY <1>3, <2>1, <2>2, <2>3, WriteTyped, FinishTyped DEF Set, Typed
<1>4. CASE DeleteKey(c)
  <2>1. calls[c] # <<>>  BY <1>4 DEF DeleteKey, Calling
  <2>2. Deletion(Head(calls[c]).key) \in Entries  BY <2>1, CallTypes, EntryTypes
  <2>3. Empty \in Values  BY DEF Values
  <2> QED  BY <1>4, <2>1, <2>2, <2>3, WriteTyped, FinishTyped DEF DeleteKey, Typed
<1>5. CASE Get(c)
  <2>1. calls[c] # <<>> /\ Scan(c)  BY <1>5 DEF Get, Calling
  <2>2. Contents[Head(calls[c]).key] \in Values
    BY <2>1, CallTypes, EntryTypes, ContentsType
  <2>3. calls' \in [Clients -> Seq(StoreCall)] /\ answers' \in [Clients -> Seq(Values)]
    BY <1>5, <2>1, <2>2, FinishTyped DEF Get, Typed
  <2> QED  BY <1>5, <2>1, <2>3, ScanTyped DEF Get, Typed
<1>6. CASE Wait(c)
  <2>1. calls[c] # <<>> /\ Scan(c)  BY <1>6 DEF Wait, Calling
  <2>2. Empty \in Values  BY DEF Values
  <2>3. calls' \in [Clients -> Seq(StoreCall)] /\ answers' \in [Clients -> Seq(Values)]
    BY <1>6, <2>1, <2>2, FinishTyped DEF Wait, Typed
  <2> QED  BY <1>6, <2>1, <2>3, ScanTyped DEF Wait, Typed
<1>7. CASE AddRead(c)
  BY <1>7, ScanTyped, GotoTyped, LabelNames DEF AddRead, Typed
<1>8. CASE AddWrite(c)
  <2>1. calls[c] # <<>>  BY <1>8 DEF AddWrite, AtHand
  <2> DEFINE sum == Number(cache[c][Head(calls[c]).key]) + Head(calls[c]).value
  <2>2. cache[c][Head(calls[c]).key] \in Values  BY <2>1, CallTypes, EntryTypes DEF Typed
  <2>3. sum \in Int /\ sum \in Values
    <3>1. Number(cache[c][Head(calls[c]).key]) \in Int  BY <2>2, NumberType
    <3>2. Head(calls[c]).value \in Int  BY <2>1, CallTypes
    <3> QED  BY <3>1, <3>2 DEF Values
  <2>4. Entry(Head(calls[c]).key, sum) \in Entries  BY <2>1, <2>3, CallTypes, EntryTypes
  <2>5. Write(Entry(Head(calls[c]).key, sum)) /\ Finish(c, sum)  BY <1>8 DEF AddWrite
  <2> HIDE DEF sum
  <2> QED  BY <1>8, <2>1, <2>3, <2>4, <2>5, WriteTyped, FinishTyped, GotoTyped, LabelNames
             DEF AddWrite, Typed
<1>9. CASE CompareSetRead(c)
  BY <1>9, ScanTyped, GotoTyped, LabelNames DEF CompareSetRead, Typed
<1>10. CASE CompareSetWrite(c)
  <2>1. calls[c] # <<>>  BY <1>10 DEF CompareSetWrite, AtHand
  <2>2. cache[c][Head(calls[c]).key] \in Values  BY <2>1, CallTypes, EntryTypes DEF Typed
  <2>3. Entry(Head(calls[c]).key, Head(calls[c]).value) \in Entries  BY <2>1, CallTypes, EntryTypes
  <2>4. PICK a \in Values : Finish(c, a)
    BY <1>10, <2>1, <2>2, CallTypes DEF CompareSetWrite, Values
  <2>5. exists' \in BOOLEAN /\ log' \in Seq(Entries) /\ (~ exists' => log' = <<>>)
    BY <1>10, <2>3, WriteTyped DEF CompareSetWrite, Typed
  <2> QED  BY <1>10, <2>1, <2>4, <2>5, FinishTyped, GotoTyped, LabelNames
             DEF CompareSetWrite, Typed
<1>11. CASE Cleanup(c)
  <2>1. Entry(Cnt, Number(Contents[Cnt]) - 1) \in Entries
    BY ContentsType, EntryTypes, NumberType
  <2>2. PICK label \in Labels : Goto(c, label)  BY <1>11, LabelNames DEF Cleanup
  <2>3. exists' = exists /\ log' \in Seq(Entries) /\ (~ exists' => log' = <<>>)
    <3>1. exists' = exists  BY <1>11 DEF Cleanup
    <3>2. CASE exists
      <4>1. log' = Append(log, Entry(Cnt, Number(Contents[Cnt]) - 1))  BY <1>11, <3>2 DEF Cleanup
      <4> QED  BY <2>1, <3>1, <3>2, <4>1 DEF Typed
    <3>3. CASE ~ exists
      <4>1. log' = log  BY <1>11, <3>3 DEF Cleanup
      <4> QED  BY <3>1, <4>1 DEF Typed
    <3> QED  BY <3>2, <3>3
  <2>4. cache' \in [Clients -> [Names -> Values]]
    BY <1>11, ContentsType DEF Cleanup, Typed
  <2>5. lock' \in Clients \cup {Nobody} /\ counted' \in SUBSET Clients
    BY <1>11 DEF Cleanup, LockAfter, Typed
  <2> QED  BY <1>11, <2>2, <2>3, <2>4, <2>5, GotoTyped DEF Cleanup, Typed
<1>12. CASE RemoveFile(c)
  <2>1. exists' \in BOOLEAN /\ log' \in Seq(Entries) /\ (~ exists' => log' = <<>>)
    <3>1. exists' = FALSE /\ log' = <<>>  BY <1>12 DEF RemoveFile
    <3>2. <<>> \in Seq(Entries)  OBVIOUS
    <3> QED  BY <3>1, <3>2
  <2>2. lock' \in Clients \cup {Nobody} /\ counted' \in SUBSET Clients
    BY <1>12 DEF RemoveFile, Typed
  <2>3. pc' \in [Clients -> Labels]  BY <1>12, GotoTyped, LabelNames DEF RemoveFile
  <2> QED  BY <1>12, <2>1, <2>2, <2>3 DEF RemoveFile, Typed
<1>13. CASE ScanFails(c)
  BY <1>13, GotoTyped, LabelNames DEF ScanFails, LockAfter, Typed
<1>14. CASE ScanCaught(c)
  <2>1. PICK label \in Labels : Goto(c, label)  BY <1>14, LabelNames DEF ScanCaught
  <2>2. calls' \in [Clients -> Seq(StoreCall)]
    <3>1. calls[c] \in Seq(StoreCall) /\ calls[c] # <<>>  BY <1>14 DEF ScanCaught, Typed
    <3>2. Tail(calls[c]) \in Seq(StoreCall)  BY <3>1
    <3> QED  BY <1>14, <3>2 DEF ScanCaught, Typed
  <2>3. lock' \in Clients \cup {Nobody}  BY <1>14 DEF ScanCaught, Kept, Typed
  <2> QED  BY <1>14, <2>1, <2>2, <2>3, GotoTyped DEF ScanCaught, Typed
<1> QED  BY <1>1, <1>2, <1>3, <1>4, <1>5, <1>6, <1>7, <1>8, <1>9, <1>10, <1>11, <1>12, <1>13, <1>14
        DEF Step

LEMMA OtherTyped ==
  ASSUME Typed, NEW c \in Clients, Timeout(c) \/ Interrupt(c)
  PROVE  Typed'
<1>1. CASE Timeout(c)  BY <1>1, GotoTyped, LabelNames DEF Timeout, Typed
<1>2. CASE Kill(c)  BY <1>2, GotoTyped, LabelNames DEF Kill, LockAfter, Typed
<1>3. ASSUME NEW s, Signal(c, s) PROVE Typed'
  <2>1. Entry(Cnt, Number(Contents[Cnt]) - 1) \in Entries
    BY ContentsType, EntryTypes, NumberType
  <2>2. PICK label \in Labels : Goto(c, label)  BY <1>3, LabelNames DEF Signal
  <2>3. exists' \in BOOLEAN /\ log' \in Seq(Entries) /\ (~ exists' => log' = <<>>)
    BY <1>3, <2>1 DEF Signal, Typed
  <2>4. cache' \in [Clients -> [Names -> Values]]
    BY <1>3, ContentsType DEF Signal, Typed
  <2> QED  BY <1>3, <2>2, <2>3, <2>4, GotoTyped DEF Signal, Typed
<1>4. CASE SignalFails(c)  BY <1>4, GotoTyped, LabelNames DEF SignalFails, LockAfter, Typed
<1> QED  BY <1>1, <1>2, <1>3, <1>4 DEF Interrupt

-----------------------------------------------------------------------------
(* The lock, and what is read under it.                                    *)

\* A step of c leaves the others where they are, ...
Own(c) == \A d \in Clients \ {c} :
  pc'[d] = pc[d] /\ calls'[d] = calls[d] /\ cache'[d] = cache[d]

\* ... takes the lock when it is free, keeps it or gives it back, ...
Locks(c) ==
  \/ lock' = lock /\ (pc'[c] \in Holding <=> pc[c] \in Holding)
  \/ lock = Nobody /\ lock' = c /\ pc'[c] \in Holding
  \/ lock \in {c, Nobody} /\ lock' = Nobody /\ pc'[c] \notin Holding

\* ... changes the file under the lock only, and in between has read it.
Accesses(c) ==
  /\ log' = log \/ lock \in {c, Nobody}
  /\ pc'[c] \in {"add", "compare_set"} => calls'[c] # <<>> /\ Head(calls'[c]).op = pc'[c]
  /\ pc'[c] \in {"join", "add", "compare_set"} => cache'[c] = Contents /\ log' = log

LEMMA GotoMoves ==
  ASSUME Typed, NEW c \in Clients, NEW label, Goto(c, label)
  PROVE  pc'[c] = label /\ \A d \in Clients \ {c} : pc'[d] = pc[d]
BY DEF Typed, Goto

LEMMA FinishMoves ==
  ASSUME Typed, NEW c \in Clients, NEW a, Finish(c, a)
  PROVE  calls'[c] = Tail(calls[c]) /\ \A d \in Clients \ {c} : calls'[d] = calls[d]
BY DEF Typed, Finish

LEMMA ScanReads ==
  ASSUME Typed, NEW c \in Clients, Scan(c)
  PROVE  log' = log /\ cache'[c] = Contents /\ \A d \in Clients \ {c} : cache'[d] = cache[d]
BY DEF Typed, Scan

LEMMA ReadAccesses ==
  ASSUME Typed, Locked, NEW c \in Clients, JoinRead(c) \/ AddRead(c) \/ CompareSetRead(c)
  PROVE  Own(c) /\ Locks(c) /\ Accesses(c)
<1>1. Scan(c) /\ lock \in {Nobody, c} /\ lock' = c /\ calls' = calls
  BY DEF JoinRead, AddRead, CompareSetRead, Acquirable
<1>2. log' = log /\ cache'[c] = Contents /\ \A d \in Clients \ {c} : cache'[d] = cache[d]
  BY <1>1, ScanReads
<1>3. PICK label \in {"join", "add", "compare_set"} :
        /\ Goto(c, label)
        /\ label # "join" => calls[c] # <<>> /\ Head(calls[c]).op = label
  BY DEF JoinRead, AddRead, CompareSetRead, Calling
<1>4. pc'[c] = label /\ \A d \in Clients \ {c} : pc'[d] = pc[d]  BY <1>3, GotoMoves
<1>5. Own(c)  BY <1>1, <1>2, <1>4 DEF Own
<1>6. Locks(c)
  <2>1. pc'[c] \in Holding  BY <1>3, <1>4 DEF Holding
  <2>2. lock = c => pc[c] \in Holding  BY DEF Locked
  <2> QED  BY <1>1, <2>1, <2>2 DEF Locks
<1>7. Accesses(c)  BY <1>1, <1>2, <1>3, <1>4 DEF Accesses
<1> QED  BY <1>5, <1>6, <1>7

LEMMA WriteAccesses ==
  ASSUME Typed, Locked, NEW c \in Clients,
         JoinWrite(c) \/ AddWrite(c) \/ CompareSetWrite(c) \/ RemoveFile(c)
  PROVE  Own(c) /\ Locks(c) /\ Accesses(c)
<1>1. pc[c] \in Holding /\ lock' = Nobody /\ cache' = cache
  BY DEF JoinWrite, AddWrite, CompareSetWrite, RemoveFile, Holding
<1>2. lock = c  BY <1>1 DEF Locked
<1>3. calls' = calls \/ \E a : Finish(c, a)
  BY DEF JoinWrite, AddWrite, CompareSetWrite, RemoveFile
<1>4. PICK label \in {"ready", "gone"} : Goto(c, label)
  BY DEF JoinWrite, AddWrite, CompareSetWrite, RemoveFile
<1>5. pc'[c] = label /\ \A d \in Clients \ {c} : pc'[d] = pc[d]  BY <1>4, GotoMoves
<1>6. \A d \in Clients \ {c} : calls'[d] = calls[d]  BY <1>3, FinishMoves
<1>7. Own(c)  BY <1>1, <1>5, <1>6 DEF Own
<1>8. Locks(c)  BY <1>1, <1>2, <1>5 DEF Locks, Holding
<1>9. Accesses(c)  BY <1>2, <1>5 DEF Accesses
<1> QED  BY <1>7, <1>8, <1>9

LEMMA CallAccesses ==
  ASSUME Typed, Locked, NEW c \in Clients, Set(c) \/ DeleteKey(c) \/ Get(c) \/ Wait(c)
  PROVE  Own(c) /\ Locks(c) /\ Accesses(c)
<1>1. pc[c] \in {"ready", "caught", "holding"} /\ pc' = pc /\ lock \in {Nobody, c} /\ lock' = lock
  BY DEF Set, DeleteKey, Get, Wait, Calling, Ready, Acquirable
<1>2. calls' = calls \/ \E a : Finish(c, a)
  BY DEF Set, DeleteKey, Get, Wait
<1>3. cache' = cache \/ Scan(c)  BY DEF Set, DeleteKey, Get, Wait
<1>4. \A d \in Clients \ {c} : calls'[d] = calls[d]  BY <1>2, FinishMoves
<1>5. \A d \in Clients \ {c} : cache'[d] = cache[d]  BY <1>3, ScanReads
<1>6. Own(c)  BY <1>1, <1>4, <1>5 DEF Own
<1>7. Locks(c)  BY <1>1 DEF Locks
<1>8. Accesses(c)  BY <1>1 DEF Accesses
<1> QED  BY <1>6, <1>7, <1>8

LEMMA LeaveAccesses ==
  ASSUME Typed, Locked, NEW c \in Clients,
         \/ Cleanup(c) \/ ScanFails(c) \/ SignalFails(c) \/ Timeout(c) \/ Kill(c)
         \/ \E s : Signal(c, s)
  PROVE  Own(c) /\ Locks(c) /\ Accesses(c)
<1>1. calls' = calls
  BY DEF Cleanup, ScanFails, SignalFails, Timeout, Kill, Signal
<1>2. cache' = cache \/ cache' = [cache EXCEPT ![c] = Contents]
  BY DEF Cleanup, ScanFails, SignalFails, Timeout, Kill, Signal
<1>3. \A d \in Clients \ {c} : cache'[d] = cache[d]  BY <1>2 DEF Typed
<1>4. PICK label \in {"remove", "gone", "exit", "unwound"} : Goto(c, label)
  BY DEF Cleanup, ScanFails, SignalFails, Timeout, Kill, Signal
<1>5. pc'[c] = label /\ \A d \in Clients \ {c} : pc'[d] = pc[d]  BY <1>4, GotoMoves
<1>6. Own(c)  BY <1>1, <1>3, <1>5 DEF Own
<1>7. Accesses(c)
  <2>1. log' = log \/ lock \in {c, Nobody}
    BY DEF Cleanup, ScanFails, SignalFails, Timeout, Kill, Signal, Acquirable
  <2> QED  BY <1>5, <2>1 DEF Accesses
<1>8. Locks(c)
  <2>1. CASE Cleanup(c) \/ ScanFails(c) \/ SignalFails(c)
    <3>1. /\ lock \in {Nobody, c}
          /\ (label = "remove" /\ lock' = c) \/ (label = "gone" /\ lock' = LockAfter(c))
      BY <1>4, <1>5, <2>1, GotoMoves DEF Cleanup, ScanFails, SignalFails, Acquirable
    <3>2. lock = c => pc[c] \in Holding  BY DEF Locked
    <3>3. lock = Nobody => pc[c] \notin Holding  BY DEF Locked
    <3> QED  BY <1>5, <3>1, <3>2, <3>3 DEF Locks, Holding, LockAfter
  <2>2. CASE Timeout(c)
    <3>1. lock = Nobody /\ lock' = lock /\ label = "exit"
      BY <1>5, <2>2, GotoMoves DEF Timeout
    <3>2. pc[c] \notin Holding  BY <3>1 DEF Locked
    <3> QED  BY <1>5, <3>1, <3>2 DEF Locks, Holding
  <2>3. CASE Kill(c)
    <3>1. lock' = (IF lock = c THEN Nobody ELSE lock) /\ label = "gone"
      BY <1>5, <2>3, GotoMoves DEF Kill, LockAfter
    <3>2. CASE lock = c  BY <1>5, <3>1, <3>2 DEF Locks, Holding
    <3>3. CASE lock # c
      <4>1. pc[c] \notin Holding  BY <3>3 DEF Locked
      <4> QED  BY <1>5, <3>1, <3>3, <4>1 DEF Locks, Holding
    <3> QED  BY <3>2, <3>3
  <2>4. ASSUME NEW s, Signal(c, s) PROVE Locks(c)
    <3>1. lock \in {Nobody, c} /\ lock' = Nobody  BY <2>4 DEF Signal
    <3>2. label \in {"unwound", "gone"}  BY <1>5, <2>4, GotoMoves DEF Signal
    <3> QED  BY <1>5, <3>1, <3>2 DEF Locks, Holding
  <2> QED  BY <2>1, <2>2, <2>3, <2>4
<1> QED  BY <1>6, <1>7, <1>8

\* A caught error keeps the lock when it is get's, or was kept before.
LEMMA CaughtAccesses ==
  ASSUME Typed, Locked, NEW c \in Clients, ScanCaught(c)
  PROVE  Own(c) /\ Locks(c) /\ Accesses(c)
<1>1. /\ pc[c] \in {"ready", "caught", "holding"} /\ lock \in {Nobody, c}
      /\ calls' = [calls EXCEPT ![c] = Tail(@)] /\ cache' = cache /\ log' = log
  BY DEF ScanCaught, Ready, Acquirable
<1>2. PICK op : /\ lock' = Kept(c, op)
                /\ Goto(c, IF op = "get" \/ pc[c] = "holding" THEN "holding" ELSE "caught")
  BY DEF ScanCaught
<1>3. /\ pc'[c] = IF op = "get" \/ pc[c] = "holding" THEN "holding" ELSE "caught"
      /\ \A d \in Clients \ {c} : pc'[d] = pc[d]
  BY <1>2, GotoMoves
<1>4. Own(c)  BY <1>1, <1>3 DEF Own, Typed
<1>5. Locks(c)
  <2>1. lock = c <=> pc[c] = "holding"  BY <1>1 DEF Locked, Holding
  <2>2. lock' = IF op = "get" THEN c ELSE lock  BY <1>2 DEF Kept
  <2> QED  BY <1>1, <1>3, <2>1, <2>2 DEF Locks, Holding
<1>6. Accesses(c)  BY <1>1, <1>3 DEF Accesses
<1> QED  BY <1>4, <1>5, <1>6

LEMMA LockStep ==
  ASSUME Typed, Locked, AtHand, Cached, NEW c \in Clients, Own(c), Locks(c), Accesses(c)
  PROVE  Locked' /\ AtHand' /\ Cached'
<1>1. ASSUME NEW d \in Clients PROVE (lock' = d <=> pc'[d] \in Holding)
  <2>1. lock = d <=> pc[d] \in Holding  BY DEF Locked
  <2>2. CASE d = c  BY <2>1, <2>2 DEF Locks
  <2>3. CASE d # c
    <3>1. pc'[d] = pc[d]  BY <2>3 DEF Own
    <3>2. lock' = d <=> lock = d  BY <2>3 DEF Locks
    <3> QED  BY <2>1, <3>1, <3>2
  <2> QED  BY <2>2, <2>3
<1>2. ASSUME NEW d \in Clients, pc'[d] \in {"add", "compare_set"}
      PROVE  calls'[d] # <<>> /\ Head(calls'[d]).op = pc'[d]
  BY <1>2 DEF Own, Accesses, AtHand
<1>3. ASSUME NEW d \in Clients, pc'[d] \in {"join", "add", "compare_set"}
      PROVE  cache'[d] = Contents'
  <2>1. CASE d = c
    <3>1. cache'[c] = Contents /\ log' = log  BY <1>3, <2>1 DEF Accesses
    <3> QED  BY <2>1, <3>1, Unwritten
  <2>2. CASE d # c
    <3>1. pc'[d] = pc[d] /\ cache'[d] = cache[d]  BY <2>2 DEF Own
    <3>2. lock = d  BY <1>3, <3>1 DEF Locked, Holding
    <3>3. log' = log  BY <2>2, <3>2 DEF Accesses
    <3> QED  BY <1>3, <3>1, <3>3, Unwritten DEF Cached
  <2> QED  BY <2>1, <2>2
<1> QED  BY <1>1, <1>2, <1>3 DEF Locked, AtHand, Cached

\* Every step of a process is one of those above.
LEMMA AnyAccess ==
  ASSUME Typed, Locked, NEW c \in Clients, Step(c) \/ Timeout(c) \/ Interrupt(c)
  PROVE  Own(c) /\ Locks(c) /\ Accesses(c)
BY ReadAccesses, WriteAccesses, CallAccesses, LeaveAccesses, CaughtAccesses DEF Step, Interrupt

-----------------------------------------------------------------------------
(* The count.                                                              *)

InUse == {"ready", "caught", "holding", "add", "compare_set", "exit", "remove"}

LEMMA InUseUsing == \A c \in Clients : c \in Using <=> pc[c] \in InUse
BY DEF Using, Ready, InUse

\* Where every deletion finds its key no call raises.
LEMMA OnlyReady ==
  ASSUME Counting, NEW c \in Clients
  PROVE  Ready(c) <=> pc[c] = "ready"
BY DEF Counting, Ready

LEMMA FreeToOthers ==
  ASSUME Locked, NEW c \in Clients, Acquirable(c), pc[c] \notin Holding
  PROVE  lock = Nobody
BY DEF Locked, Acquirable

LEMMA CountedFinite ==
  ASSUME Typed
  PROVE  IsFiniteSet(counted) /\ Cardinality(counted) \in Nat
<1>1. IsFiniteSet(counted)  BY FS_Subset DEF Typed
<1> QED  BY <1>1, FS_CardinalityType

\* While the lock is free or held in another place, the file is not about to go, ...
LEMMA NotRemoving ==
  ASSUME Locked, \/ lock = Nobody
                 \/ \E c \in Clients : lock = c /\ pc[c] # "remove"
  PROVE  ~ Removing
BY DEF Locked, Removing, Holding

LEMMA BlankCount == Number(Blank[Cnt]) = 0
BY EntryTypes DEF Blank, Number

\* ... and there is a file as long as some process counts.
LEMMA CountedExists ==
  ASSUME Typed, Locked, Counting, lock = Nobody, counted # {}
  PROVE  exists /\ Contents[Cnt] = Cardinality(counted) /\ Contents[Cnt] \in Nat \ {0}
<1>1. Number(Contents[Cnt]) = Cardinality(counted)
  <2>1. ~ Removing  BY NotRemoving
  <2> QED  BY <2>1, CountedFinite DEF Counting
<1>2. Cardinality(counted) \in Nat \ {0}
  BY CountedFinite, FS_EmptySet
<1>3. Contents[Cnt] # Empty  BY <1>1, <1>2 DEF Number
<1>4. log # <<>>
  <2>1. log = <<>> => Contents = Blank  BY UpdateEmpty DEF Contents, First
  <2> QED  BY <1>3, <2>1, EntryTypes DEF Blank
<1> QED  BY <1>1, <1>2, <1>3, <1>4 DEF Typed, Number

\* What a step of c does to the count: nothing, ...
CountKept(c) ==
  /\ counted' = counted /\ Contents'[Cnt] = Contents[Cnt]
  /\ pc[c] # "remove" /\ pc'[c] \notin {"remove", "unwound", "caught", "holding"}
  /\ pc'[c] \in {"start", "join"} => pc[c] \in {"start", "join"}
  /\ pc'[c] \in InUse => pc[c] \in InUse

\* ... or it counts c in, ...
CountIn(c) ==
  /\ lock = c /\ pc[c] = "join" /\ pc'[c] \in {"ready", "gone"}
  /\ counted' = counted \cup {c} /\ Contents'[Cnt] = Number(Contents[Cnt]) + 1

\* ... or out; the last process counts itself out in the file before it removes it.
CountOut(c) ==
  /\ lock = Nobody /\ c \in counted /\ pc'[c] = "gone"
  /\ counted' = counted \ {c} /\ Contents'[Cnt] = Number(Contents[Cnt]) - 1

CountLast(c) ==
  /\ lock = Nobody /\ c \in counted /\ pc'[c] = "remove"
  /\ counted' = counted /\ Number(Contents[Cnt]) = 1 /\ Contents'[Cnt] = 0

CountEnds(c) ==
  /\ pc[c] = "remove" /\ pc'[c] = "gone"
  /\ counted' = counted \ {c} /\ Number(Contents'[Cnt]) = 0

Counts(c) == CountKept(c) \/ CountIn(c) \/ CountOut(c) \/ CountLast(c) \/ CountEnds(c)

LEMMA CountStep ==
  ASSUME Typed, Typed', Locked, Locked', Counting, NEW c \in Clients, Own(c), Counts(c)
  PROVE  Counting'
<1>0. \A d \in Clients : d \in Using <=> pc[d] \in InUse  BY InUseUsing
<1>1. \A d \in Clients : d \in Using' <=> pc'[d] \in InUse  BY DEF Using, Ready, InUse
<1>2. \A d \in Clients : d # c => pc'[d] = pc[d]  BY DEF Own
<1>3. CASE CountKept(c)
  <2>1. Removing' <=> Removing  BY <1>2, <1>3 DEF Removing, CountKept
  <2>2. ASSUME NEW d \in Clients
        PROVE  /\ pc'[d] \notin {"unwound", "caught", "holding"}
               /\ pc'[d] \in {"start", "join"} => d \notin counted'
               /\ pc'[d] \in InUse => d \in counted'
               /\ pc'[d] = "remove" => counted' = {d}
    BY <1>0, <1>2, <1>3 DEF CountKept, Counting
  <2> QED  BY <1>1, <1>3, <2>1, <2>2 DEF CountKept, Counting
<1>4. CASE CountIn(c)
  <2>1. ~ Removing  BY <1>4, NotRemoving DEF CountIn
  <2>2. ~ Removing'  BY <1>2, <1>4, <2>1 DEF CountIn, Removing
  <2>3. c \notin counted  BY <1>4 DEF CountIn, Counting
  <2>4. Cardinality(counted') = Cardinality(counted) + 1
    BY <1>4, <2>3, CountedFinite, FS_AddElement DEF CountIn
  <2>5. Number(Contents[Cnt]) = Cardinality(counted)  BY <2>1, CountedFinite DEF Counting
  <2>6. Number(Contents'[Cnt]) = Cardinality(counted')
    BY <1>4, <2>4, <2>5, CountedFinite DEF CountIn, Number
  <2>7. ASSUME NEW d \in Clients
        PROVE  /\ pc'[d] \notin {"unwound", "caught", "holding"}
               /\ pc'[d] \in {"start", "join"} => d \notin counted'
               /\ pc'[d] \in InUse => d \in counted'
               /\ pc'[d] # "remove"
    BY <1>0, <1>2, <1>4, <2>1 DEF CountIn, Counting, Removing
  <2>8. Number(Contents[Cnt])' = Cardinality(counted)' - 0  BY <2>6, CountedFinite, <2>4
  <2> QED  BY <1>1, <2>2, <2>7, <2>8 DEF Counting
<1>5. CASE CountOut(c)
  <2>1. ~ Removing  BY <1>5, NotRemoving DEF CountOut
  <2>2. ~ Removing'  BY <1>2, <1>5, <2>1 DEF CountOut, Removing
  <2>3. Cardinality(counted') = Cardinality(counted) - 1
    BY <1>5, CountedFinite, FS_RemoveElement DEF CountOut
  <2>4. Number(Contents[Cnt]) = Cardinality(counted)  BY <2>1, CountedFinite DEF Counting
  <2>5. Number(Contents'[Cnt]) = Cardinality(counted')
    BY <1>5, <2>3, <2>4, CountedFinite DEF CountOut, Number
  <2>6. ASSUME NEW d \in Clients
        PROVE  /\ pc'[d] \notin {"unwound", "caught", "holding"}
               /\ pc'[d] \in {"start", "join"} => d \notin counted'
               /\ pc'[d] \in InUse => d \in counted'
               /\ pc'[d] # "remove"
    BY <1>0, <1>2, <1>5, <2>1 DEF CountOut, Counting, Removing, InUse
  <2>7. Number(Contents[Cnt])' = Cardinality(counted)' - 0  BY <2>5, CountedFinite, <2>3
  <2> QED  BY <1>1, <2>2, <2>6, <2>7 DEF Counting
<1>6. CASE CountLast(c)
  <2>1. ~ Removing  BY <1>6, NotRemoving DEF CountLast
  <2>2. Removing'  BY <1>6 DEF CountLast, Removing
  <2>3. Cardinality(counted) = 1  BY <1>6, <2>1, CountedFinite DEF Counting, CountLast
  <2>4. counted = {c}
    <3>1. Cardinality(counted \ {c}) = 0 /\ IsFiniteSet(counted \ {c})
      BY <1>6, <2>3, CountedFinite, FS_RemoveElement DEF CountLast
    <3>2. counted \ {c} = {}  BY <3>1, FS_EmptySet
    <3> QED  BY <1>6, <3>2 DEF CountLast
  <2>5. Number(Contents'[Cnt]) = Cardinality(counted') - 1
    BY <1>6, <2>3 DEF CountLast, Number
  <2>6. ASSUME NEW d \in Clients
        PROVE  /\ pc'[d] \notin {"unwound", "caught", "holding"}
               /\ pc'[d] \in {"start", "join"} => d \notin counted'
               /\ pc'[d] \in InUse => d \in counted'
               /\ pc'[d] = "remove" => counted' = {d}
    BY <1>0, <1>2, <1>6, <2>1, <2>4 DEF CountLast, Counting, Removing, InUse
  <2> QED  BY <1>1, <2>2, <2>5, <2>6 DEF Counting
<1>7. CASE CountEnds(c)
  <2>1. counted = {c} /\ counted' = {}  BY <1>7 DEF CountEnds, Counting
  <2>2. \A d \in Clients : d # c => pc[d] # "remove"
    BY <1>7 DEF CountEnds, Locked, Holding
  <2>3. ~ Removing'  BY <1>2, <1>7, <2>2 DEF CountEnds, Removing
  <2>4. Number(Contents'[Cnt]) = Cardinality(counted') - 0
    <3>1. Number(Contents'[Cnt]) = 0  BY <1>7 DEF CountEnds
    <3>2. Cardinality(counted') = 0  BY <2>1, FS_EmptySet
    <3> QED  BY <3>1, <3>2
  <2>5. ASSUME NEW d \in Clients
        PROVE  /\ pc'[d] \notin {"unwound", "caught", "holding"}
               /\ pc'[d] \in {"start", "join"} => d \notin counted'
               /\ pc'[d] \in InUse => d \in counted'
               /\ pc'[d] # "remove"
    BY <1>0, <1>2, <1>7, <2>1, <2>2 DEF CountEnds, Counting, InUse
  <2> QED  BY <1>1, <2>3, <2>4, <2>5 DEF Counting
<1> QED  BY <1>3, <1>4, <1>5, <1>6, <1>7 DEF Counts

-----------------------------------------------------------------------------
(* What a step does to the keys, when processes are at most killed.        *)

Held == [k \in Keys |-> Contents[k]]

Active == {"ready", "add", "compare_set"}

\* Nothing that the others could see, ...
Unseen(c) ==
  /\ Held' = Held /\ UNCHANGED <<counted, calls, answers>>
  /\ pc'[c] \in Active => pc[c] \in Active
  /\ pc'[c] \in {"start", "join"} => pc[c] \in {"start", "join"}

\* ... or a new client, ...
Joins(c) ==
  /\ c \notin counted /\ counted' = counted \cup {c}
  /\ Held' = Held /\ UNCHANGED <<calls, answers>>
  /\ pc[c] = "join"

\* ... or one less, with which the file may go, ...
Leaves(c) ==
  /\ c \in counted /\ counted' = counted \ {c}
  /\ Held' = Held \/ (counted' = {} /\ Held' = [k \in Keys |-> Empty])
  /\ UNCHANGED <<calls, answers>>
  /\ pc'[c] = "gone"

\* ... or a call that takes effect.
Called(c) ==
  LET call == Head(calls[c])
      held == Held[call.key]
  IN  /\ c \in counted /\ calls[c] # <<>> /\ pc[c] \in Active /\ pc'[c] = "ready"
      /\ Store!Possible(call, held)
      /\ Held' = [Held EXCEPT ![call.key] = Store!After(call, held)]
      /\ answers' = [answers EXCEPT ![c] = Append(@, Store!Result(call, held))]
      /\ calls' = [calls EXCEPT ![c] = Tail(@)]
      /\ UNCHANGED counted

Effect(c) == Readable' /\ Counts(c) /\ (Unseen(c) \/ Joins(c) \/ Leaves(c) \/ Called(c))

Good == Typed /\ Locked /\ AtHand /\ Cached /\ Counting /\ Deletable /\ Readable /\ Promised

LEMMA SameContents ==
  ASSUME Readable, log' = log
  PROVE  Readable' /\ Held' = Held /\ Contents'[Cnt] = Contents[Cnt]
BY Unwritten DEF Held

\* What a step writes: a count, ...
LEMMA CountWritten ==
  ASSUME Typed, Readable, NEW n \in Int, log' = Append(log, Entry(Cnt, n))
  PROVE  Readable' /\ Held' = Held /\ Contents'[Cnt] = n
<1>1. Entry(Cnt, n) \in Entries /\ Entry(Cnt, n).key = Cnt /\ Entry(Cnt, n).value = n
      /\ ~ Entry(Cnt, n).delete
  BY EntryTypes DEF Entry
<1>2. Readable' /\ Contents' = [Contents EXCEPT ![Cnt] = n]  BY <1>1, Written
<1> QED  BY <1>2, ContentsType, EntryTypes DEF Held

\* ... a value, ...
LEMMA ValueWritten ==
  ASSUME Typed, Readable, NEW k \in Keys, NEW v \in Int, log' = Append(log, Entry(k, v))
  PROVE  Readable' /\ Held' = [Held EXCEPT ![k] = v] /\ Contents'[Cnt] = Contents[Cnt]
<1>1. Entry(k, v) \in Entries /\ Entry(k, v).key = k /\ Entry(k, v).value = v
      /\ ~ Entry(k, v).delete
  BY EntryTypes DEF Entry
<1>2. Readable' /\ Contents' = [Contents EXCEPT ![k] = v]  BY <1>1, Written
<1> QED  BY <1>2, ContentsType, EntryTypes DEF Held

\* ... or a deletion.
LEMMA DeletionWritten ==
  ASSUME Typed, Readable, NEW k \in Keys, Contents[k] # Empty, log' = Append(log, Deletion(k))
  PROVE  Readable' /\ Held' = [Held EXCEPT ![k] = Empty] /\ Contents'[Cnt] = Contents[Cnt]
<1>1. Deletion(k) \in Entries /\ Deletion(k).key = k /\ Deletion(k).value = Empty
  BY EntryTypes DEF Deletion
<1>2. Readable' /\ Contents' = [Contents EXCEPT ![k] = Empty]  BY <1>1, Written
<1> QED  BY <1>2, ContentsType, EntryTypes DEF Held

LEMMA HeldAt == \A k \in Keys : Held[k] = Contents[k]
BY DEF Held

LEMMA ActiveUses ==
  ASSUME Counting, NEW c \in Clients, pc[c] \in Active \cup {"exit"}
  PROVE  c \in counted
<1>1. c \in Using  BY DEF Using, Ready, Active
<1> QED  BY <1>1 DEF Counting

\* The deletion a process makes next finds its key.
LEMMA DeletionFindsKey ==
  ASSUME Good, NEW c \in Clients, pc[c] \in Active, calls[c] # <<>>, Head(calls[c]).op = "delete"
  PROVE  Contents[Head(calls[c]).key] # Empty
<1>1. calls[c] \in Seq(StoreCall) /\ Len(calls[c]) \in Nat /\ Len(calls[c]) # 0
  BY DEF Good, Typed
<1>2. 1 \in DOMAIN calls[c] /\ calls[c][1] = Head(calls[c])  BY <1>1
<1>3. ~ SetBefore(calls[c], 1, Head(calls[c]).key)  BY DEF SetBefore
<1>4. Deletable  BY DEF Good
<1> QED  BY <1>2, <1>3, <1>4 DEF Deletable, Active

LEMMA JoinReadEffect ==
  ASSUME Good, NEW c \in Clients, JoinRead(c) \/ AddRead(c) \/ CompareSetRead(c)
  PROVE  Effect(c)
<1>1. Scan(c) /\ UNCHANGED <<calls, answers, counted>>  BY DEF JoinRead, AddRead, CompareSetRead
<1>2. Readable' /\ Held' = Held /\ Contents'[Cnt] = Contents[Cnt]
  BY <1>1, SameContents DEF Good, Scan
<1>3. \/ pc[c] = "start" /\ pc'[c] = "join"
      \/ pc[c] = "ready" /\ pc'[c] \in {"add", "compare_set"}
  BY GotoMoves, OnlyReady DEF JoinRead, AddRead, CompareSetRead, Calling, Good
<1>4. CountKept(c)  BY <1>1, <1>2, <1>3 DEF CountKept, InUse
<1>5. Unseen(c)  BY <1>1, <1>2, <1>3 DEF Unseen, Active
<1> QED  BY <1>2, <1>4, <1>5 DEF Effect, Counts

LEMMA JoinWriteEffect ==
  ASSUME Good, NEW c \in Clients, JoinWrite(c)
  PROVE  Effect(c)
<1>1. pc[c] = "join" /\ c \notin counted /\ lock = c
  BY DEF JoinWrite, Good, Counting, Locked, Holding
<1>2. cache[c] = Contents  BY <1>1 DEF Good, Cached
<1> DEFINE n == Number(Contents[Cnt]) + 1
<1>3. n \in Int  BY ContentsType, NumberType DEF Good
<1>4. log' = Append(log, Entry(Cnt, n))  BY <1>2 DEF JoinWrite, Write
<1>5. Readable' /\ Held' = Held /\ Contents'[Cnt] = n
  <2> HIDE DEF n
  <2> QED  BY <1>3, <1>4, CountWritten DEF Good
<1>6. counted' = counted \cup {c} /\ UNCHANGED <<calls, answers>> /\ pc'[c] \in {"ready", "gone"}
  BY GotoMoves DEF JoinWrite, Good
<1>7. CountIn(c)  BY <1>1, <1>5, <1>6 DEF CountIn
<1>8. Joins(c)  BY <1>1, <1>5, <1>6 DEF Joins
<1> QED  BY <1>5, <1>7, <1>8 DEF Effect, Counts

\* A call that takes effect changes neither the count nor who is counted.
LEMMA CallCounts ==
  ASSUME Good, NEW c \in Clients, pc[c] \in Active, pc'[c] = "ready",
         counted' = counted, Contents'[Cnt] = Contents[Cnt]
  PROVE  Counts(c) /\ c \in counted
<1>1. CountKept(c)  BY DEF CountKept, InUse, Active
<1>2. c \in counted  BY ActiveUses DEF Good
<1> QED  BY <1>1, <1>2 DEF Counts

LEMMA SetEffect ==
  ASSUME Good, NEW c \in Clients, Set(c)
  PROVE  Effect(c)
<1> DEFINE call == Head(calls[c])
<1>1. pc[c] = "ready" /\ pc'[c] = "ready" /\ calls[c] # <<>> /\ call.op = "set" /\ counted' = counted
  BY OnlyReady DEF Set, Calling, Good
<1>2. call.key \in Keys /\ call.value \in Int  BY <1>1, CallTypes DEF Good
<1>3. log' = Append(log, Entry(call.key, call.value)) /\ Finish(c, Empty)  BY DEF Set, Write
<1> HIDE DEF call
<1>4. Readable' /\ Held' = [Held EXCEPT ![call.key] = call.value] /\ Contents'[Cnt] = Contents[Cnt]
  BY <1>2, <1>3, ValueWritten DEF Good
<1>5. Counts(c) /\ c \in counted  BY <1>1, <1>4, CallCounts DEF Active
<1>6. /\ Store!Possible(call, Held[call.key])
      /\ Store!After(call, Held[call.key]) = call.value
      /\ Store!Result(call, Held[call.key]) = Empty
  BY <1>1 DEF Store!Possible, Store!After, Store!Result
<1>7. Called(c)
  BY <1>1, <1>3, <1>4, <1>5, <1>6 DEF Called, Finish, Active, call
<1> QED  BY <1>4, <1>5, <1>7 DEF Effect

LEMMA DeleteEffect ==
  ASSUME Good, NEW c \in Clients, DeleteKey(c)
  PROVE  Effect(c)
<1> DEFINE call == Head(calls[c])
<1>1. pc[c] = "ready" /\ pc'[c] = "ready" /\ calls[c] # <<>> /\ call.op = "delete" /\ counted' = counted
  BY OnlyReady DEF DeleteKey, Calling, Good
<1>2. call.key \in Keys /\ Contents[call.key] # Empty
  BY <1>1, CallTypes, DeletionFindsKey DEF Good, Active
<1>3. log' = Append(log, Deletion(call.key)) /\ Finish(c, Empty)  BY DEF DeleteKey, Write
<1> HIDE DEF call
<1>4. Readable' /\ Held' = [Held EXCEPT ![call.key] = Empty] /\ Contents'[Cnt] = Contents[Cnt]
  BY <1>2, <1>3, DeletionWritten DEF Good
<1>5. Counts(c) /\ c \in counted  BY <1>1, <1>4, CallCounts DEF Active
<1>6. /\ Store!Possible(call, Held[call.key])
      /\ Store!After(call, Held[call.key]) = Empty
      /\ Store!Result(call, Held[call.key]) = Empty
  BY <1>1 DEF Store!Possible, Store!After, Store!Result
<1>7. Called(c)
  BY <1>1, <1>3, <1>4, <1>5, <1>6 DEF Called, Finish, Active, call
<1> QED  BY <1>4, <1>5, <1>7 DEF Effect

\* get and wait: a round that finds its key, or one more that does not.
LEMMA PollEffect ==
  ASSUME Good, NEW c \in Clients, Get(c) \/ Wait(c)
  PROVE  Effect(c)
<1> DEFINE call == Head(calls[c])
<1>1. /\ pc[c] = "ready" /\ pc'[c] = "ready" /\ calls[c] # <<>> /\ call.op \in {"get", "wait"}
      /\ counted' = counted /\ Scan(c)
  BY OnlyReady DEF Get, Wait, Calling, Good
<1>2. call.key \in Keys  BY <1>1, CallTypes DEF Good
<1>3. Held[call.key] = Contents[call.key]  BY <1>2, HeldAt
<1>4. \/ UNCHANGED <<calls, answers>>
      \/ /\ Contents[call.key] # Empty
         /\ Finish(c, IF call.op = "get" THEN Contents[call.key] ELSE Empty)
  BY DEF Get, Wait, Calling
<1> HIDE DEF call
<1>5. Readable' /\ Held' = Held /\ Contents'[Cnt] = Contents[Cnt]
  BY <1>1, SameContents DEF Good, Scan
<1>6. Counts(c) /\ c \in counted  BY <1>1, <1>5, CallCounts DEF Active
<1>7. CASE UNCHANGED <<calls, answers>>
  <2>1. Unseen(c)  BY <1>1, <1>5, <1>7 DEF Unseen, Active
  <2> QED  BY <1>5, <1>6, <2>1 DEF Effect
<1>8. CASE /\ Contents[call.key] # Empty
           /\ Finish(c, IF call.op = "get" THEN Contents[call.key] ELSE Empty)
  <2>1. Store!Possible(call, Held[call.key]) /\ Store!After(call, Held[call.key]) = Held[call.key]
    BY <1>1, <1>3, <1>8 DEF Store!Possible, Store!After
  <2>2. Store!Result(call, Held[call.key]) = (IF call.op = "get" THEN Contents[call.key] ELSE Empty)
    BY <1>1, <1>3 DEF Store!Result
  <2>3. Held' = [Held EXCEPT ![call.key] = Store!After(call, Held[call.key])]
    BY <1>5, <2>1 DEF Held
  <2>4. Called(c)  BY <1>1, <1>6, <1>8, <2>1, <2>2, <2>3 DEF Called, Finish, Active, call
  <2> QED  BY <1>5, <1>6, <2>4 DEF Effect
<1> QED  BY <1>4, <1>7, <1>8

LEMMA AddEffect ==
  ASSUME Good, NEW c \in Clients, AddWrite(c)
  PROVE  Effect(c)
<1> DEFINE call == Head(calls[c])
           sum  == Number(Contents[call.key]) + call.value
<1>1. pc[c] = "add" /\ pc'[c] = "ready" /\ counted' = counted
  BY GotoMoves DEF AddWrite, Good
<1>2. calls[c] # <<>> /\ call.op = "add" /\ cache[c] = Contents
  BY <1>1 DEF Good, AtHand, Cached
<1>3. call.key \in Keys /\ call.value \in Int  BY <1>2, CallTypes DEF Good
<1>4. sum \in Int
  <2>1. Contents[call.key] \in Values  BY <1>3, ContentsType, EntryTypes DEF Good
  <2>2. Number(Contents[call.key]) \in Int  BY <2>1, NumberType
  <2> QED  BY <1>3, <2>2
<1>5. log' = Append(log, Entry(call.key, sum)) /\ Finish(c, sum)
  BY <1>2 DEF AddWrite, Write
<1>6. Held[call.key] = Contents[call.key]  BY <1>3, HeldAt
<1>7. /\ Store!Possible(call, Held[call.key])
      /\ Store!After(call, Held[call.key]) = sum
      /\ Store!Result(call, Held[call.key]) = sum
  BY <1>2, <1>6 DEF Store!Possible, Store!After, Store!Result, Store!Sum, Number
<1> HIDE DEF call, sum
<1>8. Readable' /\ Held' = [Held EXCEPT ![call.key] = sum] /\ Contents'[Cnt] = Contents[Cnt]
  BY <1>3, <1>4, <1>5, ValueWritten DEF Good
<1>9. Counts(c) /\ c \in counted  BY <1>1, <1>8, CallCounts DEF Active
<1>10. Called(c)
  BY <1>1, <1>2, <1>5, <1>7, <1>8, <1>9 DEF Called, Finish, Active, call
<1> QED  BY <1>8, <1>9, <1>10 DEF Effect

LEMMA CompareSetEffect ==
  ASSUME Good, NEW c \in Clients, CompareSetWrite(c)
  PROVE  Effect(c)
<1> DEFINE call == Head(calls[c])
           held == Contents[call.key]
           answer == IF held = call.expected THEN call.value
                     ELSE IF held = Empty THEN call.expected ELSE held
<1>1. pc[c] = "compare_set" /\ pc'[c] = "ready" /\ counted' = counted
  BY GotoMoves DEF CompareSetWrite, Good
<1>2. calls[c] # <<>> /\ call.op = "compare_set" /\ cache[c] = Contents
  BY <1>1 DEF Good, AtHand, Cached
<1>3. call.key \in Keys /\ call.value \in Int  BY <1>2, CallTypes DEF Good
<1>4. Held[call.key] = held  BY <1>3, HeldAt
<1>5. Finish(c, answer) /\ IF held = call.expected THEN log' = Append(log, Entry(call.key, call.value))
                           ELSE log' = log
  BY <1>2 DEF CompareSetWrite, Write, Matches
<1>6. /\ Store!Possible(call, Held[call.key])
      /\ Store!After(call, Held[call.key]) = IF held = call.expected THEN call.value ELSE held
      /\ Store!Result(call, Held[call.key]) = answer
  BY <1>2, <1>4 DEF Store!Possible, Store!After, Store!Result
<1> HIDE DEF call, held, answer
<1>7. /\ Readable' /\ Contents'[Cnt] = Contents[Cnt]
      /\ Held' = [Held EXCEPT ![call.key] = Store!After(call, Held[call.key])]
  <2>1. CASE held = call.expected
    BY <1>3, <1>5, <1>6, <2>1, ValueWritten DEF Good
  <2>2. CASE held # call.expected
    <3>1. Readable' /\ Held' = Held /\ Contents'[Cnt] = Contents[Cnt]
      BY <1>5, <2>2, SameContents DEF Good
    <3>2. Store!After(call, Held[call.key]) = Held[call.key]  BY <1>4, <1>6, <2>2
    <3>3. Held = [Held EXCEPT ![call.key] = Held[call.key]]  BY DEF Held
    <3> QED  BY <3>1, <3>2, <3>3
  <2> QED  BY <2>1, <2>2
<1>8. Counts(c) /\ c \in counted  BY <1>1, <1>7, CallCounts DEF Active
<1>9. Called(c)
  BY <1>1, <1>2, <1>5, <1>6, <1>7, <1>8 DEF Called, Finish, Active, call
<1> QED  BY <1>7, <1>8, <1>9 DEF Effect

LEMMA CleanupEffect ==
  ASSUME Good, NEW c \in Clients, Cleanup(c)
  PROVE  Effect(c)
<1> DEFINE rest == Number(Contents[Cnt]) - 1
<1>0. Exiting(c) /\ Acquirable(c) /\ UNCHANGED <<calls, answers>>
  BY DEF Cleanup
<1>2. pc[c] \in {"ready", "exit"}
  BY <1>0, OnlyReady DEF Exiting, Good, Counting
<1>1. lock = Nobody
  BY <1>0, <1>2, FreeToOthers DEF Holding, Good
<1>3. c \in counted  BY <1>2, ActiveUses DEF Good, Active
<1>4. exists /\ Number(Contents[Cnt]) \in Int
  BY <1>1, <1>3, CountedExists, ContentsType, NumberType DEF Good
<1>5. log' = Append(log, Entry(Cnt, rest)) /\ rest \in Int
  BY <1>4 DEF Cleanup
<1>6. Readable' /\ Held' = Held /\ Contents'[Cnt] = rest
  <2> HIDE DEF rest
  <2> QED  BY <1>5, CountWritten DEF Good
<1>7. CASE rest = 0
  <2>1. pc'[c] = "remove" /\ counted' = counted  BY <1>4, <1>7, GotoMoves DEF Cleanup, Good
  <2>2. CountLast(c)  BY <1>1, <1>3, <1>4, <1>6, <1>7, <2>1 DEF CountLast
  <2>3. Unseen(c)  BY <1>0, <1>6, <2>1 DEF Unseen, Active
  <2> QED  BY <1>6, <2>2, <2>3 DEF Effect, Counts
<1>8. CASE rest # 0
  <2>1. pc'[c] = "gone" /\ counted' = counted \ {c}  BY <1>4, <1>8, GotoMoves DEF Cleanup, Good
  <2>2. CountOut(c)  BY <1>1, <1>3, <1>6, <2>1 DEF CountOut
  <2>3. Leaves(c)  BY <1>0, <1>3, <1>6, <2>1 DEF Leaves
  <2> QED  BY <1>6, <2>2, <2>3 DEF Effect, Counts
<1> QED  BY <1>7, <1>8

LEMMA RemoveEffect ==
  ASSUME Good, NEW c \in Clients, RemoveFile(c)
  PROVE  Effect(c)
<1>1. pc[c] = "remove" /\ pc'[c] = "gone" /\ log' = <<>> /\ counted' = counted \ {c}
      /\ UNCHANGED <<calls, answers>>
  BY GotoMoves DEF RemoveFile, Good
<1>2. counted = {c}  BY <1>1 DEF Good, Counting
<1>3. Contents' = Blank /\ Readable'  BY <1>1, Erased
<1>4. Held' = [k \in Keys |-> Empty]  BY <1>3, EntryTypes DEF Held, Blank
<1>5. CountEnds(c)  BY <1>1, <1>3, BlankCount DEF CountEnds
<1>6. Leaves(c)  BY <1>1, <1>2, <1>4 DEF Leaves
<1> QED  BY <1>3, <1>5, <1>6 DEF Effect, Counts

LEMMA KillEffect ==
  ASSUME Good, NEW c \in Clients, Kill(c)
  PROVE  Effect(c)
<1>1. pc'[c] = "gone" /\ log' = log /\ UNCHANGED <<calls, answers>>
  BY GotoMoves DEF Kill, Good
<1>2. Readable' /\ Held' = Held /\ Contents'[Cnt] = Contents[Cnt]
  BY <1>1, SameContents DEF Good
<1>3. CASE pc[c] = "remove"
  <2>1. counted = {c} /\ counted' = counted \ {c}  BY <1>3 DEF Good, Counting, Kill
  <2>2. Number(Contents[Cnt]) = 0
    <3>1. Removing  BY <1>3 DEF Removing
    <3>2. Cardinality(counted) = 1  BY <2>1, FS_Singleton
    <3> QED  BY <3>1, <3>2 DEF Good, Counting
  <2>3. CountEnds(c)  BY <1>1, <1>2, <1>3, <2>1, <2>2 DEF CountEnds
  <2>4. Leaves(c)  BY <1>1, <1>2, <2>1 DEF Leaves
  <2> QED  BY <1>2, <2>3, <2>4 DEF Effect, Counts
<1>4. CASE pc[c] # "remove"
  <2>1. counted' = counted  BY <1>4 DEF Kill
  <2>2. CountKept(c)  BY <1>1, <1>2, <1>4, <2>1 DEF CountKept, InUse
  <2>3. Unseen(c)  BY <1>1, <1>2, <2>1 DEF Unseen, Active
  <2> QED  BY <1>2, <2>2, <2>3 DEF Effect, Counts
<1> QED  BY <1>3, <1>4

LEMMA TimeoutEffect ==
  ASSUME Good, NEW c \in Clients, Timeout(c)
  PROVE  Effect(c)
<1>1. /\ pc[c] = "ready" /\ pc'[c] = "exit" /\ log' = log
      /\ UNCHANGED <<counted, calls, answers>>
  BY GotoMoves, OnlyReady DEF Timeout, Good, Calling
<1>2. Readable' /\ Held' = Held /\ Contents'[Cnt] = Contents[Cnt]
  BY <1>1, SameContents DEF Good
<1>3. CountKept(c)  BY <1>1, <1>2 DEF CountKept, InUse
<1>4. Unseen(c)  BY <1>1, <1>2 DEF Unseen, Active
<1> QED  BY <1>2, <1>3, <1>4 DEF Effect, Counts

LEMMA AnyEffect ==
  ASSUME Good, NEW c \in Clients, Step(c) \/ Timeout(c) \/ Interrupt(c)
  PROVE  Effect(c)
<1>1. Readable /\ signals \subseteq {"kill"}  BY DEF Good, Promised
<1>2. ~ ScanFails(c) /\ ~ ScanCaught(c)  BY <1>1 DEF ScanFails, ScanCaught
<1>3. Interrupt(c) => Kill(c)  BY <1>1 DEF Interrupt
<1> QED
  BY <1>2, <1>3, JoinReadEffect, JoinWriteEffect, SetEffect, DeleteEffect, PollEffect, AddEffect,
     CompareSetEffect, CleanupEffect, RemoveEffect, KillEffect, TimeoutEffect DEF Step

-----------------------------------------------------------------------------
(* No deletion misses its key.                                             *)

\* The calls that are left after one.
LEMMA TailElements ==
  ASSUME NEW S, NEW s \in Seq(S), s # <<>>, NEW i \in DOMAIN Tail(s)
  PROVE  i \in Nat \ {0} /\ i + 1 \in DOMAIN s /\ Tail(s)[i] = s[i + 1] /\ s[1] = Head(s)
<1>1. Tail(s) \in Seq(S) /\ Len(Tail(s)) = Len(s) - 1 /\ Len(s) \in Nat \ {0}
  OBVIOUS
<1>2. i \in 1 .. (Len(s) - 1)  BY <1>1
<1> QED  BY <1>1, <1>2

\* Only a deletion leaves a key empty that was not.
LEMMA HeldStays ==
  ASSUME Good, NEW c \in Clients, Called(c), NEW k \in Keys, ~ Deletes(Head(calls[c]), k),
         Contents[k] # Empty
  PROVE  Contents'[k] # Empty
<1> DEFINE call == Head(calls[c])
<1>1. /\ Held' = [Held EXCEPT ![call.key] = Store!After(call, Held[call.key])]
      /\ call \in StoreCall /\ call.key \in Keys /\ call.value \in Int
  BY CallTypes DEF Called, Good
<1>2. Held'[k] = Contents'[k] /\ Held[k] = Contents[k]  BY DEF Held
<1> HIDE DEF call
<1>3. CASE call.key # k  BY <1>1, <1>2, <1>3 DEF Held
<1>4. CASE call.key = k
  <2>1. Held'[k] = Store!After(call, Contents[k])  BY <1>1, <1>2, <1>4 DEF Held
  <2>2. Contents[k] \in Int  BY ContentsType, EntryTypes DEF Good, Values
  <2>3. call.op # "delete"  BY <1>4 DEF Deletes, call
  <2>4. Store!After(call, Contents[k]) \in Int
    <3>1. Store!Sum(Contents[k], call.value) \in Int  BY <1>1, <2>2 DEF Store!Sum
    <3> QED  BY <1>1, <2>2, <2>3, <3>1 DEF Store!After
  <2> QED  BY <1>2, <2>1, <2>4
<1> QED  BY <1>3, <1>4

\* A call keeps the deletions of another process possible, ...
LEMMA CalledByAnother ==
  ASSUME Good, NEW c \in Clients, Called(c), NEW d \in Clients \ {c},
         NEW i \in DOMAIN calls[d], calls[d][i].op = "delete", calls[d][i].key \in Keys,
         Contents[calls[d][i].key] # Empty
  PROVE  Contents'[calls[d][i].key] # Empty
<1>1. calls[c] # <<>> /\ calls[c] \in Seq(StoreCall)  BY DEF Called, Good, Typed
<1>2. 1 \in DOMAIN calls[c] /\ Head(calls[c]) = calls[c][1]  BY <1>1
<1>3. ~ Deletes(Head(calls[c]), calls[d][i].key)
  BY <1>2 DEF Good, Deletable
<1> QED  BY <1>3, HeldStays

\* ... and its own.
LEMMA CalledItself ==
  ASSUME Good, NEW c \in Clients, Called(c), NEW i \in DOMAIN Tail(calls[c]),
         Tail(calls[c])[i].op = "delete"
  PROVE  LET rest == Tail(calls[c])
             k    == rest[i].key
         IN  \/ SetBefore(rest, i, k)
             \/ Contents'[k] # Empty /\ \A m \in 1 .. (i - 1) : ~ Deletes(rest[m], k)
<1> DEFINE rest == Tail(calls[c])
           k    == rest[i].key
<1>1. calls[c] # <<>> /\ calls[c] \in Seq(StoreCall)  BY DEF Called, Good, Typed
<1>2. /\ i \in Nat \ {0} /\ i + 1 \in DOMAIN calls[c] /\ rest[i] = calls[c][i + 1]
      /\ calls[c][1] = Head(calls[c])
  BY <1>1, TailElements
<1>3. \A m \in 1 .. i : rest[m] = calls[c][m + 1]
  <2> SUFFICES ASSUME NEW m \in 1 .. i PROVE rest[m] = calls[c][m + 1]  OBVIOUS
  <2>1. m \in DOMAIN Tail(calls[c])
    <3>1. Tail(calls[c]) \in Seq(StoreCall)  BY <1>1
    <3> QED  BY <1>2, <3>1
  <2> QED  BY <1>1, <2>1, TailElements
<1>4. k \in Keys
  <2>1. calls[c][i + 1] \in StoreCall  BY <1>1, <1>2
  <2> QED  BY <1>2, <2>1 DEF StoreCall
<1>5. calls[c][i + 1].op = "delete" /\ calls[c][i + 1].key = k  BY <1>2
<1>6. pc[c] \in Active /\ pc[c] \notin {"start", "join"}  BY DEF Called, Active
<1> HIDE DEF rest, k
<1>7. \/ SetBefore(calls[c], i + 1, k)
      \/ Contents[k] # Empty /\ \A m \in 1 .. i : ~ Deletes(calls[c][m], k)
  <2>1. Deletable  BY DEF Good
  <2>2. (i + 1) - 1 = i  BY <1>2
  <2> QED  BY <1>2, <1>5, <1>6, <2>1, <2>2 DEF Deletable, Active
<1>8. CASE SetBefore(calls[c], i + 1, k)
  <2>1. PICK j \in 1 .. i : /\ calls[c][j].op = "set" /\ calls[c][j].key = k
                            /\ \A m \in j .. i : ~ Deletes(calls[c][m], k)
    <3>1. (i + 1) - 1 = i  BY <1>2
    <3> QED  BY <1>8, <3>1 DEF SetBefore
  <2>2. CASE j = 1
    <3>1. Head(calls[c]).op = "set" /\ Head(calls[c]).key = k  BY <1>2, <2>1, <2>2
    <3>2. Contents'[k] # Empty
      <4>1. Head(calls[c]).value \in Int  BY <1>1, CallTypes DEF Good
      <4>2. Store!After(Head(calls[c]), Held[k]) = Head(calls[c]).value
        BY <3>1 DEF Store!After
      <4>3. Held'[k] = Head(calls[c]).value  BY <1>4, <3>1, <4>2 DEF Called, Held
      <4>4. Held'[k] = Contents'[k]  BY <1>4 DEF Held
      <4> QED  BY <4>1, <4>3, <4>4
    <3>3. ASSUME NEW m \in 1 .. (i - 1) PROVE ~ Deletes(rest[m], k)
      <4>1. m \in 1 .. i /\ m + 1 \in j .. i  BY <1>2, <2>2
      <4> QED  BY <1>3, <2>1, <4>1
    <3> QED  BY <3>2, <3>3 DEF rest, k
  <2>3. CASE j # 1
    <3>1. j - 1 \in 1 .. (i - 1) /\ j - 1 \in 1 .. i /\ (j - 1) + 1 = j  BY <1>2, <2>1, <2>3
    <3>2. rest[j - 1].op = "set" /\ rest[j - 1].key = k  BY <1>3, <2>1, <3>1
    <3>3. ASSUME NEW m \in (j - 1) .. (i - 1) PROVE ~ Deletes(rest[m], k)
      <4>1. m \in 1 .. i /\ m + 1 \in j .. i  BY <1>2, <3>1
      <4> QED  BY <1>3, <2>1, <4>1
    <3>4. SetBefore(rest, i, k)  BY <3>1, <3>2, <3>3 DEF SetBefore
    <3> QED  BY <3>4 DEF rest, k
  <2> QED  BY <2>2, <2>3
<1>9. CASE Contents[k] # Empty /\ \A m \in 1 .. i : ~ Deletes(calls[c][m], k)
  <2>1. ~ Deletes(Head(calls[c]), k)  BY <1>2, <1>9
  <2>2. Contents'[k] # Empty  BY <1>4, <1>9, <2>1, HeldStays
  <2>3. ASSUME NEW m \in 1 .. (i - 1) PROVE ~ Deletes(rest[m], k)
    <3>1. m \in 1 .. i /\ m + 1 \in 1 .. i  BY <1>2
    <3> QED  BY <1>3, <1>9, <3>1
  <2> QED  BY <2>2, <2>3 DEF rest, k
<1> QED  BY <1>7, <1>8, <1>9

Ongoing == {"start", "join"} \cup Active

\* What Deletable says of the i-th call of d, if it is a deletion.
Possible(d, i) ==
  LET k == calls[d][i].key
  IN  \/ SetBefore(calls[d], i, k)
      \/ /\ pc[d] \notin {"start", "join"} /\ Contents[k] # Empty
         /\ \A m \in 1 .. (i - 1) : ~ Deletes(calls[d][m], k)

OneDeleter == \A c, d \in Clients : c # d => \A i \in DOMAIN calls[c], j \in DOMAIN calls[d] :
                ~ (calls[c][i].op = "delete" /\ Deletes(calls[d][j], calls[c][i].key))

LEMMA DeletableParts ==
  Deletable <=> /\ OneDeleter
                /\ \A d \in Clients : pc[d] \in Ongoing =>
                     \A i \in DOMAIN calls[d] : calls[d][i].op = "delete" => Possible(d, i)
BY DEF Deletable, OneDeleter, Possible, Ongoing, Active

LEMMA OneDeleterStep ==
  ASSUME Good, NEW c \in Clients, Own(c), Effect(c)
  PROVE  OneDeleter'
<1>1. OneDeleter  BY DeletableParts DEF Good
<1>2. ASSUME NEW d \in Clients, NEW i \in DOMAIN calls'[d]
      PROVE  \E j \in DOMAIN calls[d] : calls'[d][i] = calls[d][j]
  <2>1. CASE calls'[d] = calls[d]  BY <2>1
  <2>2. CASE calls'[d] # calls[d]
    <3>1. d = c /\ Called(c)
      BY <2>2 DEF Own, Effect, Unseen, Joins, Leaves
    <3>2. calls'[c] = Tail(calls[c]) /\ calls[c] # <<>> /\ calls[c] \in Seq(StoreCall)
      BY <3>1 DEF Called, Good, Typed
    <3>3. i + 1 \in DOMAIN calls[c] /\ calls'[c][i] = calls[c][i + 1]
      BY <3>1, <3>2, TailElements
    <3> QED  BY <3>1, <3>3
  <2> QED  BY <2>1, <2>2
<1>3. ASSUME NEW a \in Clients, NEW d \in Clients, a # d,
             NEW i \in DOMAIN calls'[a], NEW j \in DOMAIN calls'[d]
      PROVE  ~ (calls'[a][i].op = "delete" /\ Deletes(calls'[d][j], calls'[a][i].key))
  <2>1. PICK k \in DOMAIN calls[a] : calls'[a][i] = calls[a][k]  BY <1>2
  <2>2. PICK m \in DOMAIN calls[d] : calls'[d][j] = calls[d][m]  BY <1>2
  <2>3. ~ (calls[a][k].op = "delete" /\ Deletes(calls[d][m], calls[a][k].key))
    BY <1>1, <1>3 DEF OneDeleter
  <2> QED  BY <2>1, <2>2, <2>3
<1> QED  BY <1>3 DEF OneDeleter, Deletes

LEMMA DeletableStep ==
  ASSUME Good, Counting', NEW c \in Clients, Own(c), Effect(c)
  PROVE  Deletable'
<1>1. \A d \in Clients : pc[d] \in Ongoing =>
        \A i \in DOMAIN calls[d] : calls[d][i].op = "delete" => Possible(d, i)
  BY DeletableParts DEF Good
<1>2. ASSUME NEW d \in Clients, pc'[d] \in Ongoing,
             NEW i \in DOMAIN calls'[d], calls'[d][i].op = "delete"
      PROVE  Possible(d, i)'
  <2> DEFINE k == calls'[d][i].key
  <2>1. CASE d = c /\ Called(c)
    <3>1. calls'[d] = Tail(calls[c])  BY <2>1 DEF Called, Good, Typed
    <3>2. \/ SetBefore(calls'[d], i, k)
          \/ Contents'[k] # Empty /\ \A m \in 1 .. (i - 1) : ~ Deletes(calls'[d][m], k)
      BY <1>2, <2>1, <3>1, CalledItself
    <3>3. pc'[d] = "ready"  BY <2>1 DEF Called
    <3> QED  BY <3>2, <3>3 DEF Possible, SetBefore, Deletes
  <2>2. CASE ~ (d = c /\ Called(c))
    <3>1. calls'[d] = calls[d]
      BY <2>2 DEF Own, Effect, Unseen, Joins, Leaves
    <3>2. pc[d] \in Ongoing /\ (pc'[d] \in {"start", "join"} => pc[d] \in {"start", "join"})
      <4>1. CASE d # c  BY <1>2, <4>1 DEF Own
      <4>2. CASE d = c /\ Unseen(c)  BY <1>2, <4>2 DEF Unseen, Ongoing
      <4>3. CASE d = c /\ Joins(c)  BY <4>3 DEF Joins, Ongoing
      <4>4. CASE d = c /\ Leaves(c)  BY <1>2, <4>4 DEF Leaves, Ongoing, Active
      <4> QED  BY <2>2, <4>1, <4>2, <4>3, <4>4 DEF Effect
    <3>3. i \in DOMAIN calls[d] /\ calls[d][i].op = "delete" /\ k = calls[d][i].key
      BY <1>2, <3>1
    <3>4. Possible(d, i)  BY <1>1, <3>2, <3>3
    <3>5. k \in Keys
      <4>1. calls[d] \in Seq(StoreCall)  BY DEF Good, Typed
      <4>2. calls[d][i] \in StoreCall  BY <3>3, <4>1
      <4> QED  BY <3>3, <4>2 DEF StoreCall
    <3> HIDE DEF k
    <3>6. CASE SetBefore(calls[d], i, k)
      BY <3>1, <3>3, <3>6 DEF Possible, SetBefore, Deletes
    <3>7. CASE /\ pc[d] \notin {"start", "join"} /\ Contents[k] # Empty
               /\ \A m \in 1 .. (i - 1) : ~ Deletes(calls[d][m], k)
      <4>1. pc'[d] \notin {"start", "join"}  BY <3>2, <3>7
      <4>2. Contents'[k] # Empty
        <5>1. CASE Held' = Held  BY <3>5, <3>7, <5>1 DEF Held
        <5>2. CASE Called(c)
          <6>1. d \in Clients \ {c}  BY <2>2, <5>2
          <6> QED  BY <3>3, <3>5, <3>7, <5>2, <6>1, CalledByAnother
        <5>3. CASE counted' = {}
          <6>1. pc'[d] \in Active  BY <1>2, <4>1 DEF Ongoing
          <6>2. d \in Using'  BY <6>1 DEF Using, Ready, Active
          <6> QED  BY <5>3, <6>2 DEF Counting
        <5> QED  BY <5>1, <5>2, <5>3 DEF Effect, Unseen, Joins, Leaves
      <4> QED  BY <3>1, <3>3, <3>7, <4>1, <4>2 DEF Possible, Deletes
    <3> QED  BY <3>3, <3>4, <3>6, <3>7 DEF Possible
  <2> QED  BY <2>1, <2>2
<1>3. OneDeleter'  BY OneDeleterStep
<1>4. \A d \in Clients : pc'[d] \in Ongoing' =>
        \A i \in DOMAIN calls'[d] : calls'[d][i].op = "delete" => Possible(d, i)'
  BY <1>2 DEF Ongoing, Active
<1> QED  BY <1>3, <1>4 DEF Deletable, OneDeleter, Possible, Ongoing, Active

-----------------------------------------------------------------------------
(* The invariant.                                                          *)

LEMMA InitInvariant ==
  ASSUME TidyPlans
  PROVE  Init => IInv
<1> SUFFICES ASSUME Init PROVE IInv  OBVIOUS
<1>1. PICK p \in Plans : calls = p.calls /\ signals = p.signals
        /\ pc = [c \in Clients |-> IF c \in p.clients THEN "start" ELSE "gone"]
  BY DEF Init
<1>2. Typed  BY InitTyped
<1>3. \A c \in Clients : pc[c] \in {"start", "gone"}  BY <1>1
<1>4. lock = Nobody /\ log = <<>> /\ counted = {}  BY DEF Init
<1>5. Locked /\ AtHand /\ Cached  BY <1>3, <1>4 DEF Locked, AtHand, Cached, Holding
<1>6. Contents = Blank /\ Readable  BY <1>4, UpdateEmpty DEF Contents, Readable, First
<1>7. Counting
  <2>1. ~ Removing  BY <1>3 DEF Removing
  <2>2. Number(Contents[Cnt]) = Cardinality(counted) - 0
    <3>1. Number(Contents[Cnt]) = 0  BY <1>6, BlankCount
    <3>2. Cardinality(counted) = 0  BY <1>4, FS_EmptySet
    <3> QED  BY <3>1, <3>2
  <2>3. \A c \in Clients : /\ pc[c] \notin {"unwound", "caught", "holding"}
                           /\ pc[c] # "remove" /\ c \notin Using /\ c \notin counted
    BY <1>3, <1>4 DEF Using, Ready
  <2> QED  BY <2>1, <2>2, <2>3 DEF Counting
<1>8. ASSUME Promised PROVE Deletable
  <2>1. Tidy(calls)  BY <1>1, <1>8 DEF Promised, TidyPlans
  <2>2. OneDeleter  BY <2>1 DEF Tidy, OneDeleter
  <2>3. \A d \in Clients : \A i \in DOMAIN calls[d] : calls[d][i].op = "delete" => Possible(d, i)
    BY <2>1 DEF Tidy, Possible
  <2> QED  BY <2>2, <2>3, DeletableParts
<1> QED  BY <1>2, <1>5, <1>6, <1>7, <1>8 DEF IInv

LEMMA NextSteps ==
  ASSUME Next
  PROVE  signals' = signals /\ \E c \in Clients : Step(c) \/ Timeout(c) \/ Interrupt(c)
BY DEF Next, Step

LEMMA GoodParts == IInv /\ Promised => Good
BY DEF IInv, Good

LEMMA StepInvariant == IInv /\ [Next]_vars => IInv'
<1> SUFFICES ASSUME IInv, [Next]_vars PROVE IInv'  OBVIOUS
<1>1. ASSUME NEW c \in Clients, Step(c) \/ Timeout(c) \/ Interrupt(c), signals' = signals
      PROVE  IInv'
  <2>1. Typed /\ Locked /\ AtHand /\ Cached  BY DEF IInv
  <2>2. Typed'  BY <1>1, <2>1, StepTyped, OtherTyped
  <2>3. Own(c) /\ Locks(c) /\ Accesses(c)  BY <1>1, <2>1, AnyAccess
  <2>4. Locked' /\ AtHand' /\ Cached'  BY <2>1, <2>3, LockStep
  <2>5. ASSUME Promised' PROVE Counting' /\ Deletable' /\ Readable'
    <3>1. Promised  BY <1>1, <2>5 DEF Promised
    <3>2. Good  BY <3>1, GoodParts
    <3>3. Effect(c)  BY <1>1, <3>2, AnyEffect
    <3>4. Counting'  BY <2>1, <2>2, <2>3, <2>4, <3>2, <3>3, CountStep DEF Effect, Good
    <3>5. Deletable'  BY <2>3, <3>2, <3>3, <3>4, DeletableStep
    <3> QED  BY <3>3, <3>4, <3>5 DEF Effect
  <2> QED  BY <2>2, <2>4, <2>5 DEF IInv
<1>2. CASE UNCHANGED vars
  BY <1>2 DEF vars, IInv, Typed, Locked, AtHand, Cached, Promised, Counting, Removing, Using, Ready,
              Deletable, Readable, Contents
<1> QED  BY <1>1, <1>2, NextSteps

\* In every behaviour of tidy programs.
THEOREM StoreInvariant ==
  ASSUME TidyPlans
  PROVE  Spec => []IInv
<1>1. Init => IInv  BY InitInvariant
<1> QED  BY <1>1, StepInvariant, PTL DEF Spec

-----------------------------------------------------------------------------
(* The count of the clients.                                               *)

LEMMA PresentSteps ==
  ASSUME Room, Good, Counting', Typed', Locked', NEW c \in Clients, Step(c) \/ Timeout(c)
  PROVE  /\ pc'[c] \in InUse \/ c \notin counted'
         /\ counted' \ {c} \subseteq counted
         /\ \/ counted' # {} \/ lock' # Nobody \/ ~ exists'
            \/ UNCHANGED <<exists, counted>> /\ lock = Nobody
<1>1. Effect(c)  BY AnyEffect
<1>2. counted' \ {c} \subseteq counted  BY <1>1 DEF Effect, Unseen, Joins, Leaves, Called
<1>4. CASE JoinRead(c)
  <2>1. c \notin counted /\ counted' = counted  BY <1>4 DEF JoinRead, Good, Counting
  <2>2. lock' # Nobody  BY <1>4 DEF JoinRead
  <2> QED  BY <1>2, <2>1, <2>2
<1>5. CASE JoinWrite(c)
  <2>1. pc[c] = "join" /\ lock = c /\ c \notin counted /\ cache[c] = Contents
    BY <1>5 DEF JoinWrite, Good, Counting, Locked, Cached, Holding
  <2>2. Number(Contents[Cnt]) = Cardinality(counted)
    <3>1. ~ Removing  BY <2>1, NotRemoving DEF Good
    <3> QED  BY <3>1, CountedFinite DEF Good, Counting
  <2>3. Cardinality(counted) + 1 <= Cardinality(Clients) /\ Cardinality(Clients) \in Nat
    <3>1. counted \cup {c} \in SUBSET Clients  BY DEF Good, Typed
    <3>2. Cardinality(counted \cup {c}) <= Cardinality(Clients)  BY <3>1, FS_Subset
    <3>3. Cardinality(counted \cup {c}) = Cardinality(counted) + 1
      BY <2>1, CountedFinite, FS_AddElement DEF Good
    <3> QED  BY <3>2, <3>3, FS_CardinalityType
  <2>4. WorldSize \notin 0 .. ((Number(cache[c][Cnt]) + 1) - 1)
    <3>1. Cardinality(counted) \in Nat  BY CountedFinite DEF Good
    <3> DEFINE n == Cardinality(counted)
               m == Cardinality(Clients)
    <3>2. n \in Nat /\ m \in Nat /\ n + 1 <= m /\ (Number(cache[c][Cnt]) + 1) - 1 = n
      BY <2>1, <2>2, <2>3, <3>1
    <3> HIDE DEF n
    <3>3. 0 .. n \subseteq 0 .. (m - 1)
      <4> HIDE DEF m
      <4> QED  BY <3>2
    <3>4. WorldSize \notin 0 .. (m - 1)  BY DEF Room
    <3> QED  BY <3>2, <3>3, <3>4
  <2>5. pc'[c] = "ready"  BY <1>5, <2>4, GotoMoves DEF JoinWrite, Good
  <2>6. c \in counted'  BY <1>5 DEF JoinWrite
  <2> QED  BY <1>2, <2>5, <2>6 DEF InUse
<1>6. CASE Set(c) \/ DeleteKey(c) \/ Get(c) \/ Wait(c) \/ AddRead(c) \/ CompareSetRead(c)
  <2>1. pc[c] = "ready" /\ counted' = counted
    BY <1>6, OnlyReady DEF Set, DeleteKey, Get, Wait, AddRead, CompareSetRead, Calling, Good
  <2>2. c \in counted  BY <2>1, ActiveUses DEF Good, Active
  <2>3. pc'[c] \in InUse
    BY <1>6, <2>1, GotoMoves DEF Set, DeleteKey, Get, Wait, AddRead, CompareSetRead, InUse, Good
  <2> QED  BY <1>2, <2>1, <2>2, <2>3
<1>7. CASE AddWrite(c) \/ CompareSetWrite(c)
  <2>1. pc[c] \in Active /\ counted' = counted
    BY <1>7 DEF AddWrite, CompareSetWrite, Active
  <2>2. c \in counted  BY <2>1, ActiveUses DEF Good
  <2>3. pc'[c] \in InUse  BY <1>7, GotoMoves DEF AddWrite, CompareSetWrite, InUse, Good
  <2> QED  BY <1>2, <2>1, <2>2, <2>3
<1>8. CASE Cleanup(c)
  <2>0. Exiting(c) /\ Acquirable(c)  BY <1>8 DEF Cleanup
  <2>2. pc[c] \in {"ready", "exit"}
    BY <2>0, OnlyReady DEF Exiting, Good, Counting
  <2>1. lock = Nobody  BY <2>0, <2>2, FreeToOthers DEF Holding, Good
  <2>3. c \in counted  BY <2>2, ActiveUses DEF Good, Active
  <2>4. exists /\ Contents[Cnt] = Cardinality(counted) /\ Contents[Cnt] \in Nat \ {0}
    BY <2>1, <2>3, CountedExists DEF Good
  <2>5. CASE Number(Contents[Cnt]) - 1 = 0
    <3>1. lock' = c /\ pc'[c] = "remove"  BY <1>8, <2>4, <2>5, GotoMoves DEF Cleanup, Good
    <3> QED  BY <1>2, <3>1 DEF InUse
  <2>6. CASE Number(Contents[Cnt]) - 1 # 0
    <3>1. counted' = counted \ {c} /\ c \notin counted'
      BY <1>8, <2>4, <2>6, GotoMoves DEF Cleanup, Good
    <3>2. Cardinality(counted') = Cardinality(counted) - 1
      BY <2>3, <3>1, CountedFinite, FS_RemoveElement DEF Good
    <3>3. Cardinality(counted) # 1
      BY <2>4, <2>6 DEF Number
    <3>4. counted' # {}
      <4>1. Cardinality(counted) \in Nat  BY CountedFinite DEF Good
      <4>2. Cardinality(counted') # 0  BY <3>2, <3>3, <4>1
      <4> QED  BY <4>2, FS_EmptySet
    <3> QED  BY <1>2, <3>1, <3>4
  <2> QED  BY <2>5, <2>6
<1>9. CASE RemoveFile(c)
  BY <1>2, <1>9 DEF RemoveFile
<1>10. CASE Timeout(c)
  <2>1. pc'[c] = "exit" /\ counted' = counted /\ exists' = exists /\ lock = Nobody
    BY <1>10, GotoMoves DEF Timeout, Good, Acquirable
  <2> QED  BY <1>2, <2>1 DEF InUse
<1>11. ~ ScanFails(c) /\ ~ ScanCaught(c)  BY DEF ScanFails, ScanCaught, Good
<1> QED  BY <1>4, <1>5, <1>6, <1>7, <1>8, <1>9, <1>10, <1>11 DEF Step

LEMMA PresentStep ==
  ASSUME Room
  PROVE  IInv /\ IInv' /\ Present /\ [Next]_vars => Present'
<1> SUFFICES ASSUME IInv, IInv', Present, [Next]_vars, signals' = {} PROVE Present'
  BY DEF Present
<1>1. CASE UNCHANGED vars  BY <1>1 DEF vars, Present, Using, Ready
<1>2. ASSUME NEW c \in Clients, Step(c) \/ Timeout(c) \/ Interrupt(c), signals' = signals
      PROVE  Present'
  <2>1. signals = {} /\ Promised /\ Promised'  BY <1>2 DEF Promised
  <2>2. ~ Interrupt(c)  BY <2>1 DEF Interrupt
  <2>3. Good /\ Counting' /\ Typed' /\ Locked'  BY <2>1, GoodParts DEF IInv
  <2>4. /\ pc'[c] \in InUse \/ c \notin counted'
        /\ counted' \ {c} \subseteq counted
        /\ \/ counted' # {} \/ lock' # Nobody \/ ~ exists'
           \/ UNCHANGED <<exists, counted>> /\ lock = Nobody
    BY <1>2, <2>2, <2>3, PresentSteps
  <2>5. \A d \in Clients : d # c => pc'[d] = pc[d]
    BY <1>2, <2>3, AnyAccess DEF Own, Good
  <2>6. counted' \subseteq Using'
    <3> SUFFICES ASSUME NEW d \in counted' PROVE d \in Using'  OBVIOUS
    <3>1. d \in Clients  BY <2>3 DEF Typed
    <3>2. CASE d = c  BY <2>4, <3>1, <3>2 DEF Using, Ready, InUse
    <3>3. CASE d # c
      <4>1. d \in counted  BY <2>4, <3>3
      <4>2. d \in Using  BY <2>1, <4>1 DEF Present
      <4> QED  BY <2>5, <3>1, <3>3, <4>2 DEF Using, Ready
    <3> QED  BY <3>2, <3>3
  <2>7. lock' = Nobody /\ exists' => counted' # {}  BY <2>1, <2>4 DEF Present
  <2> QED  BY <2>6, <2>7 DEF Present
<1> QED  BY <1>1, <1>2, NextSteps

LEMMA PresentCounts ==
  ASSUME IInv, Present
  PROVE  CountsClients
<1> SUFFICES ASSUME signals = {} PROVE
      /\ lock = Nobody /\ Using # {} => exists
      /\ lock = Nobody /\ exists => Contents[Cnt] = Cardinality(Using)
      /\ (\A c \in Clients : pc[c] = "gone") => ~exists
  BY DEF CountsClients
<1>1. Promised  BY DEF Promised
<1>2. Good  BY <1>1, GoodParts
<1>3. Using = counted
  <2>1. Using \subseteq counted  BY <1>2 DEF Good, Counting, Using
  <2> QED  BY <2>1 DEF Present
<1>4. ASSUME lock = Nobody, Using # {} PROVE exists
  BY <1>2, <1>3, <1>4, CountedExists DEF Good
<1>5. ASSUME lock = Nobody, exists PROVE Contents[Cnt] = Cardinality(Using)
  BY <1>2, <1>3, <1>5, CountedExists DEF Good, Present
<1>6. ASSUME \A c \in Clients : pc[c] = "gone" PROVE ~ exists
  <2>1. lock = Nobody
    <3>1. lock \in Clients \cup {Nobody}  BY DEF IInv, Typed
    <3>2. \A c \in Clients : lock # c  BY <1>6 DEF IInv, Locked, Holding
    <3> QED  BY <3>1, <3>2
  <2>2. counted = {}  BY <1>3, <1>6 DEF Using, Ready
  <2> QED  BY <2>1, <2>2 DEF Present
<1> QED  BY <1>4, <1>5, <1>6

\* When no process is stopped the internal entry is the number of the processes that
\* use the store, there is a file as long as some do, and the last one removes it.
THEOREM ClientsAreCounted ==
  ASSUME TidyPlans, Room
  PROVE  Spec => []CountsClients
<1>1. Init => Present  BY DEF Init, Present
<1>2. IInv /\ Present => CountsClients  BY PresentCounts
<1> QED  BY <1>1, <1>2, PresentStep, StoreInvariant, PTL DEF Spec

-----------------------------------------------------------------------------
(* The refinement.                                                         *)

\* What the abstract store is to be seen as, when processes are at most killed.
LEMMA Mapped ==
  Promised =>
    /\ (IF Promised THEN counted ELSE {}) = counted
    /\ (LET held == Contents IN [k \in Keys |-> IF Promised THEN held[k] ELSE Empty]) = Held
    /\ (IF Promised THEN calls ELSE (CHOOSE p \in Plans : TRUE).calls) = calls
    /\ (IF Promised THEN answers ELSE [c \in Clients |-> <<>>]) = answers
BY DEF Held

LEMMA InitMapped ==
  Init => Store!Init
<1> SUFFICES ASSUME Init PROVE Store!Init  OBVIOUS
<1>1. PICK p \in Plans : calls = p.calls  BY DEF Init
<1>2. calls \in {q.calls : q \in Plans} /\ (CHOOSE q \in Plans : TRUE).calls \in {q.calls : q \in Plans}
  BY <1>1
<1>3. Contents = Blank /\ counted = {} /\ answers = [c \in Clients |-> <<>>]
  BY UpdateEmpty DEF Init, Contents, First
<1>4. \A k \in Keys : Contents[k] = Empty  BY <1>3, EntryTypes DEF Blank
<1> QED  BY <1>2, <1>3, <1>4 DEF Store!Init, Store!Nothing

LEMMA StepMapped ==
  IInv /\ IInv' /\ [Next]_vars => [Store!Next]_(Store!vars)
<1> SUFFICES ASSUME IInv, IInv', [Next]_vars PROVE [Store!Next]_(Store!vars)
  OBVIOUS
<1>1. CASE UNCHANGED vars
  BY <1>1 DEF vars, Store!vars, Promised, Contents
<1>2. ASSUME NEW c \in Clients, Step(c) \/ Timeout(c) \/ Interrupt(c), signals' = signals
      PROVE  [Store!Next]_(Store!vars)
  <2>1. CASE ~ Promised
    <3>1. ~ Promised'  BY <1>2, <2>1 DEF Promised
    <3> QED  BY <2>1, <3>1 DEF Store!vars
  <2>2. CASE Promised
    <3>1. Promised'  BY <1>2, <2>2 DEF Promised
    <3>2. Effect(c)  BY <1>2, <2>2, GoodParts, AnyEffect
    <3>3. CASE Unseen(c)
      <4>1. UNCHANGED <<counted, calls, answers>> /\ Held' = Held  BY <3>3 DEF Unseen
      <4> QED  BY <2>2, <3>1, <4>1, Mapped DEF Store!vars, Held
    <3>4. CASE Joins(c)
      <4>1. Store!Join(c)  BY <2>2, <3>1, <3>4 DEF Joins, Store!Join, Held
      <4> QED  BY <4>1 DEF Store!Next
    <3>5. CASE Leaves(c)
      <4>1. Store!Leave(c)  BY <2>2, <3>1, <3>5 DEF Leaves, Store!Leave, Store!Nothing, Held
      <4> QED  BY <4>1 DEF Store!Next
    <3>6. CASE Called(c)
      <4>1. Store!Call(c)  BY <2>2, <3>1, <3>6 DEF Called, Store!Call, Held
      <4> QED  BY <4>1 DEF Store!Next
    <3> QED  BY <3>2, <3>3, <3>4, <3>5, <3>6 DEF Effect
  <2> QED  BY <2>1, <2>2
<1> QED  BY <1>1, <1>2, NextSteps

\* The log in a file implements the store of atomic calls, also when processes are
\* killed at any time: what is read under the lock is what the last calls left.
THEOREM Refinement ==
  ASSUME TidyPlans
  PROVE  Spec => StoreSpec
<1> QED  BY InitMapped, StepMapped, StoreInvariant, PTL DEF Spec, StoreSpec, Store!Spec

============================================================================
