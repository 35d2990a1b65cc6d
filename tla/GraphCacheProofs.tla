--------------------------- MODULE GraphCacheProofs ---------------------------
(***************************************************************************)
(* Proofs about GraphCache, for any number of threads, any timestamps,     *)
(* caps and batches, and any number of commits and replaced files: what    *)
(* the cache holds, what a request is answered from, and who has the locks *)
(* meanwhile; and, in the end, about Api.                                  *)
(***************************************************************************)
EXTENDS Api, ListProofs

(* A thread takes up work that needs nothing of the cache, as the requests  *)
(* for other routes do in Api.                                              *)
Rest(t) ==
  /\ pc[t] \in {"idle", "answered", "failed"}
  /\ pc' = [pc EXCEPT ![t] = "idle"]
  /\ want' = [want EXCEPT ![t] = Now] /\ ev' = [ev EXCEPT ![t] = <<>>]
  /\ due' = [due EXCEPT ![t] = {}] /\ asked' = [asked EXCEPT ![t] = 0]
  /\ UNCHANGED <<store, cache, slice, cacheLock, buildLock, top, low, seen, torn>>

(* What the invariants are shown to be preserved by: any step of Spec and of *)
(* LoadSpec, and the cache's part of any step of ApiSpec.                    *)
Step == Next \/ \E t \in Thread : Rest(t)

-----------------------------------------------------------------------------
(* The inductive invariant. *)

(* A row is stamped with its file and its place in it.                      *)
LogInv ==
  /\ (log = <<>> /\ lowest = 1) \/ lowest \in 1..Len(log)
  /\ \A s \in 1..Len(log) : log[s].gen = gen /\ log[s].seq = s

NoneOfTheFuture(es) == \A i \in DOMAIN es : es[i].gen <= gen

(* Nothing anyone holds is from a file, or due from a place, yet to come.   *)
GenInv ==
  /\ NoneOfTheFuture(cache.events) /\ NoneOfTheFuture(slice.events)
  /\ \A t \in Thread :
       /\ NoneOfTheFuture(seen[t].events) /\ NoneOfTheFuture(ev[t])
       /\ asked[t] <= gen
       /\ \A e \in due[t] : e.gen <= gen /\ (e.gen = gen => e.seq <= Len(log))

Locked == {"retop", "low", "check", "read", "rebuild"}

(* A lock is held by the thread in the block it guards, and by no other.    *)
LockInv ==
  \A t \in Thread :
    /\ buildLock = t <=> pc[t] \in Locked
    /\ cacheLock = t <=> pc[t] = "slice"

PastOnly(es, w) == \A i \in DOMAIN es : es[i].ts <= w

(* The slice is the past of the position it is kept under; a thread that    *)
(* slices was asked about a past.                                           *)
SliceInv ==
  /\ slice.as_of # Now => PastOnly(slice.events, slice.as_of)
  /\ \A t \in Thread : pc[t] \in {"view", "slice"} => want[t] # Now
  /\ \A t \in Thread : pc[t] = "answered" /\ want[t] # Now => PastOnly(ev[t], want[t])

NotCut == torn \subseteq {"grown"}
NotReplaced == "replaced" \notin torn

(* es holds every stored row up to the seq last, none further to the front  *)
(* than a trim of the rows from min on allows for.                          *)
Holds(es, last, min) ==
  \A s \in lowest..Len(log) : s <= last =>
    \E i \in DOMAIN es : es[i] = log[s] /\ i >= s - min + 1

AllOfThisFile(es) == \A i \in DOMAIN es : es[i].gen = gen

(* The cache between builds.                                                *)
CacheInv ==
  cache.built =>
    /\ NotReplaced /\ ~AllOfThisFile(cache.events) => Len(log) < cache.last_seq
    /\ NotCut =>
         /\ cache.events = <<>> => cache.last_seq = 0 /\ cache.min_seq = 0
         /\ AllOfThisFile(cache.events) =>
              /\ cache.last_seq <= Len(log) /\ cache.min_seq <= lowest
              /\ Holds(cache.events, cache.last_seq, cache.min_seq)

(* What a build has read so far.                                            *)
BuildInv ==
  \A t \in Thread :
    /\ pc[t] \in {"low", "check", "read"} /\ NotReplaced => top[t] <= Len(log)
    /\ pc[t] \in {"check", "read"} /\ NotCut =>
         (low[t] = lowest /\ lowest <= Len(log)) \/ (low[t] = 0 /\ top[t] = 0)
    /\ pc[t] = "read" => seen[t] = cache /\ ~UpToDate(t)
    /\ pc[t] = "rebuild" =>
         /\ seen[t] = cache
         /\ NotReplaced => AllOfThisFile(ev[t])
         /\ NotCut => /\ top[t] <= Len(log) /\ low[t] <= lowest
                      /\ Holds(ev[t], top[t], low[t])
                      /\ ev[t] = <<>> => top[t] = 0 /\ low[t] = 0

Asking == {"hot", "lock", "retop", "low", "check"}

(* What a request is due, between its first read and its answer: the top it *)
(* goes by is past every row it is due, and no cache that is up to date by  *)
(* it is older than the request.                                            *)
DueInv ==
  \A t \in Thread :
    /\ pc[t] \in Asking \cup {"read", "rebuild"} =>
         /\ \A s \in lowest..Len(log) : log[s] \in due[t] => s <= top[t]
         /\ top[t] <= Len(log) \/ \A e \in due[t] : e.gen < gen
    /\ pc[t] \in Asking /\ NotReplaced /\ cache.built /\ top[t] >= cache.last_seq =>
         \A i \in DOMAIN cache.events : cache.events[i].gen >= asked[t]
    /\ pc[t] = "answered" /\ want[t] = Now =>
         /\ NotCut => \A s \in lowest..Len(log) : log[s] \in due[t] =>
                        \E i \in DOMAIN ev[t] : ev[t][i] = log[s]
         /\ NotReplaced => \A i \in DOMAIN ev[t] : ev[t][i].gen >= asked[t]

RowsBetween(min, last) == SubSeq(log, IF min = 0 THEN 1 ELSE min, last)

InOrder(min, last) == (min = 0 /\ last = 0) \/ (1 <= min /\ min <= last)

(* With no commit between the reads of a build, what each of them finds.    *)
ExactInv ==
  torn = {} =>
    /\ cache.built /\ AllOfThisFile(cache.events) =>
         /\ InOrder(cache.min_seq, cache.last_seq)
         /\ cache.events = RowsBetween(cache.min_seq, cache.last_seq)
    /\ \A t \in Thread :
         /\ pc[t] \in {"low", "check", "read"} => top[t] = MaxSeq
         /\ pc[t] \in {"check", "read"} => low[t] = MinSeq
         /\ pc[t] = "rebuild" =>
              InOrder(low[t], top[t]) /\ ev[t] = RowsBetween(low[t], top[t])

-----------------------------------------------------------------------------
(* UpTo picks elements of the list it is given, those not after w.          *)
LEMMA UpToProperties ==
  ASSUME NEW S, NEW es \in Seq(S), NEW w
  PROVE  /\ UpTo(es, w) \in Seq(S)
         /\ \A i \in DOMAIN UpTo(es, w) : UpTo(es, w)[i].ts <= w
         /\ \A i \in DOMAIN UpTo(es, w) : \E j \in DOMAIN es : UpTo(es, w)[i] = es[j]
<1> DEFINE I == {i \in DOMAIN es : es[i].ts <= w}
           past == Keep(es, I)
<1>1. UpTo(es, w) = past
  BY DEF UpTo
<1>2. past \in Seq(S) /\ Elements(past) = {es[i] : i \in I \cap (1..Len(es))}
  <2> HIDE DEF I
  <2>q. QED BY KeepElements
<1>3. \A i \in DOMAIN past : past[i] \in {es[j] : j \in I \cap (1..Len(es))}
  <2> HIDE DEF past, I
  <2>q. QED BY <1>2 DEF Elements
<1>4. \A e \in {es[j] : j \in I \cap (1..Len(es))} : e.ts <= w /\ \E j \in DOMAIN es : e = es[j]
  OBVIOUS
<1> HIDE DEF past, I
<1>q. QED BY <1>1, <1>2, <1>3, <1>4

-----------------------------------------------------------------------------
(* Type correctness. *)

(* A commit adds rows of this file at the end, and evicts from the front.    *)
LEMMA CommitAdds ==
  ASSUME TypeOK, CommitBatch
  PROVE  /\ log' \in Seq(Event) /\ Len(log') > Len(log) /\ Len(log) \in Nat /\ Len(log') \in Nat
         /\ \A s \in 1..Len(log) : log'[s] = log[s]
         /\ \A s \in (Len(log) + 1)..Len(log') : log'[s].gen = gen /\ log'[s].seq = s
         /\ lowest' \in Nat /\ lowest' >= lowest
         /\ lowest' = lowest \/ lowest' <= Len(log')
         /\ gen' = gen
<1>0. PICK n \in 1..BatchMax : \E ts \in [1..n -> Ts] :
        log' = log \o [i \in 1..n |-> [gen |-> gen, seq |-> Len(log) + i, ts |-> ts[i]]]
  BY DEF CommitBatch
<1>1. PICK ts \in [1..n -> Ts] :
        log' = log \o [i \in 1..n |-> [gen |-> gen, seq |-> Len(log) + i, ts |-> ts[i]]]
  BY <1>0
<1> DEFINE new == [i \in 1..n |-> [gen |-> gen, seq |-> Len(log) + i, ts |-> ts[i]]]
<1>2. n \in Nat /\ n >= 1 /\ log \in Seq(Event) /\ Len(log) \in Nat /\ gen \in Nat /\ lowest \in Nat
  BY CacheAssumption DEF TypeOK
<1>3. new \in Seq(Event) /\ Len(new) = n
  <2>1. \A i \in 1..n : [gen |-> gen, seq |-> Len(log) + i, ts |-> ts[i]] \in Event
    BY <1>2 DEF Event
  <2>2. new \in [1..n -> Event]
    BY <2>1
  <2>q. QED BY <1>2, <2>2
<1>4. \A i \in 1..n : new[i].gen = gen /\ new[i].seq = Len(log) + i
  OBVIOUS
<1>5. log' = log \o new
  BY <1>1
<1>6. /\ log' \in Seq(Event) /\ Len(log') = Len(log) + n
      /\ \A i \in 1..(Len(log) + n) : log'[i] = IF i <= Len(log) THEN log[i] ELSE new[i - Len(log)]
  <2> HIDE DEF new
  <2>q. QED BY <1>2, <1>3, <1>5, ConcatProperties
<1>7. \A s \in (Len(log) + 1)..Len(log') : log'[s].gen = gen /\ log'[s].seq = s
  <2> HIDE DEF new
  <2> TAKE s \in (Len(log) + 1)..Len(log')
  <2>1. s - Len(log) \in 1..n /\ log'[s] = new[s - Len(log)] /\ Len(log) + (s - Len(log)) = s
    <3>1. s \in 1..(Len(log) + n) /\ ~(s <= Len(log)) /\ s - Len(log) \in 1..n
      BY <1>2, <1>6
    <3>2. log'[s] = new[s - Len(log)]
      BY <1>6, <3>1, Zenon
    <3>q. QED BY <1>2, <3>1, <3>2
  <2>q. QED BY <1>4, <2>1
<1>8. /\ lowest' = IF Len(log') - MaxRows >= lowest THEN (Len(log') - MaxRows) + 1 ELSE lowest
      /\ gen' = gen /\ MaxRows \in Nat /\ MaxRows >= 1
  BY CacheAssumption DEF CommitBatch
<1> HIDE DEF new
<1>q. QED BY <1>2, <1>6, <1>7, <1>8

(* The parts of TypeOK that the recorder's steps can disturb.               *)
LEMMA RecorderTypes ==
  ASSUME TypeOK, CommitBatch \/ ReplaceFile
  PROVE  TypeOK'
<1>1. log' \in Seq(Event) /\ lowest' \in Nat /\ gen' \in Nat
  <2>1. CASE CommitBatch
    BY <2>1, CommitAdds DEF TypeOK
  <2>2. CASE ReplaceFile
    BY <2>2, EmptySeq DEF ReplaceFile, TypeOK
  <2>q. QED BY <2>1, <2>2
<1>2. torn' \subseteq {"grown", "cut", "replaced"}
  BY DEF CommitBatch, ReplaceFile, Tear, TypeOK
<1>3. /\ cache' = cache /\ slice' = slice /\ cacheLock' = cacheLock /\ buildLock' = buildLock
      /\ pc' = pc /\ want' = want /\ top' = top /\ low' = low /\ seen' = seen /\ ev' = ev
      /\ due' = due /\ asked' = asked
  BY DEF CommitBatch, ReplaceFile, locals
<1>q. QED BY <1>1, <1>2, <1>3, Zenon DEF TypeOK

(* What the reads return.                                                   *)
LEMMA ReadsReturn ==
  ASSUME TypeOK, LogInv
  PROVE  /\ MaxSeq \in Nat /\ MinSeq \in Nat
         /\ ReadEvents \in Seq(Event) /\ Len(ReadEvents) = Len(log) - lowest + 1
         /\ \A i \in 1..Len(ReadEvents) : ReadEvents[i] = log[lowest + i - 1]
         /\ Len(log) \in Nat /\ lowest \in 1..(Len(log) + 1)
<1>1. log \in Seq(Event) /\ Len(log) \in Nat /\ lowest \in Nat
  BY DEF TypeOK
<1>2. lowest \in 1..(Len(log) + 1)
  BY <1>1 DEF LogInv
<1>3. \A i \in lowest..Len(log) : log[i] \in Event
  BY <1>1, <1>2, ElementOfSeq
<1>4. /\ ReadEvents \in Seq(Event) /\ Len(ReadEvents) = Len(log) - lowest + 1
      /\ \A i \in 1..(Len(log) - lowest + 1) : ReadEvents[i] = log[lowest + i - 1]
  BY <1>1, <1>2, <1>3, SubSeqProperties DEF ReadEvents
<1>q. QED BY <1>1, <1>2, <1>4 DEF MaxSeq, MinSeq

LEMMA SinceReturns ==
  ASSUME TypeOK, LogInv, NEW after \in Nat, NEW from \in Nat,
         from = IF after + 1 > lowest THEN after + 1 ELSE lowest
  PROVE  /\ ReadEventsSince(after) \in Seq(Event)
         /\ Len(ReadEventsSince(after)) = IF from <= Len(log) THEN Len(log) - from + 1 ELSE 0
         /\ \A i \in 1..Len(ReadEventsSince(after)) : ReadEventsSince(after)[i] = log[from + i - 1]
<1>1. log \in Seq(Event) /\ Len(log) \in Nat /\ lowest \in Nat /\ lowest >= 1
  BY ReadsReturn DEF TypeOK
<1>2. \A i \in from..Len(log) : log[i] \in Event
  BY <1>1, ElementOfSeq
<1>3. ReadEventsSince(after) = SubSeq(log, from, Len(log))
  BY DEF ReadEventsSince
<1>q. QED BY <1>1, <1>2, <1>3, SubSeqProperties

LEMMA DropReturns ==
  ASSUME NEW S, NEW es \in Seq(S), NEW n \in Nat
  PROVE  /\ DropFront(es, n) \in Seq(S)
         /\ Len(DropFront(es, n)) = IF n < Len(es) THEN Len(es) - n ELSE 0
         /\ \A i \in 1..Len(DropFront(es, n)) : DropFront(es, n)[i] = es[n + i]
<1>1. Len(es) \in Nat /\ \A i \in (n + 1)..Len(es) : es[i] \in S
  <2>1. Len(es) \in Nat /\ \A i \in 1..Len(es) : es[i] \in S
    BY LenProperties, ElementOfSeq
  <2>2. \A i \in (n + 1)..Len(es) : i \in 1..Len(es)
    BY <2>1
  <2>q. QED BY <2>1, <2>2
<1>2. /\ DropFront(es, n) \in Seq(S)
      /\ Len(DropFront(es, n)) = IF n + 1 <= Len(es) THEN Len(es) - (n + 1) + 1 ELSE 0
      /\ \A i \in 1..(Len(es) - (n + 1) + 1) : DropFront(es, n)[i] = es[(n + 1) + i - 1]
  BY <1>1, SubSeqProperties DEF DropFront
<1>q. QED BY <1>1, <1>2

(* The list a build makes: everything, or the cached rows that are left     *)
(* after the trim and the rows since.                                       *)
Trim(t) == IF low[t] > seen[t].min_seq THEN low[t] - seen[t].min_seq ELSE 0
Kept(t) == DropFront(seen[t].events, Trim(t))
Fresh(t) == ReadEventsSince(seen[t].last_seq)

LEMMA BuildReturns ==
  ASSUME TypeOK, LogInv, NEW t \in Thread, ReadRows(t)
  PROVE  /\ ev' = [ev EXCEPT ![t] = IF Reset(t) THEN ReadEvents ELSE Kept(t) \o Fresh(t)]
         /\ Trim(t) \in Nat /\ Kept(t) \in Seq(Event) /\ Fresh(t) \in Seq(Event)
         /\ Kept(t) \o Fresh(t) \in Seq(Event)
         /\ Len(Kept(t) \o Fresh(t)) = Len(Kept(t)) + Len(Fresh(t))
         /\ \A i \in 1..(Len(Kept(t)) + Len(Fresh(t))) :
              (Kept(t) \o Fresh(t))[i] = IF i <= Len(Kept(t)) THEN Kept(t)[i]
                                          ELSE Fresh(t)[i - Len(Kept(t))]
<1>1. /\ seen[t].events \in Seq(Event) /\ seen[t].last_seq \in Nat /\ seen[t].min_seq \in Nat
      /\ low[t] \in Nat
  BY DEF TypeOK, CacheRecord
<1>2. Trim(t) \in Nat
  BY <1>1 DEF Trim
<1>3. Kept(t) \in Seq(Event)
  BY <1>1, <1>2, DropReturns DEF Kept
<1>4. Fresh(t) \in Seq(Event)
  <2>1. lowest \in Nat
    BY DEF TypeOK
  <2>2. (IF seen[t].last_seq + 1 > lowest THEN seen[t].last_seq + 1 ELSE lowest) \in Nat
    BY <1>1, <2>1
  <2>q. QED BY <1>1, <2>2, SinceReturns DEF Fresh
<1>5. ev' = [ev EXCEPT ![t] = IF Reset(t) THEN ReadEvents ELSE Kept(t) \o Fresh(t)]
  BY DEF ReadRows, Kept, Fresh, Trim
<1>q. QED BY <1>2, <1>3, <1>4, <1>5, ConcatProperties

PC == {"idle", "top", "hot", "lock", "retop", "low", "check", "read", "rebuild",
       "view", "slice", "answered", "failed"}

LEMMA EmptyCacheType == EmptyCache \in CacheRecord /\ NoSlice \in [as_of : AsOf \cup {Now}, events : Seq(Event)]
<1>1. <<>> \in Seq(Event)
  BY EmptySeq
<1>2. NoSlice \in [as_of : AsOf \cup {Now}, events : Seq(Event)]
  BY <1>1 DEF NoSlice
<1>q. QED BY <1>1, <1>2 DEF EmptyCache, CacheRecord

LEMMA LoadedTypes ==
  ASSUME TypeOK, NEW t \in Thread, NEW es \in Seq(Event), Loaded(t, es)
  PROVE  /\ pc' \in [Thread -> PC] /\ want' \in [Thread -> AsOf \cup {Now}]
         /\ top' \in [Thread -> Nat] /\ low' \in [Thread -> Nat]
         /\ seen' \in [Thread -> CacheRecord] /\ ev' \in [Thread -> Seq(Event)]
         /\ torn' \subseteq {"grown", "cut", "replaced"}
         /\ due' \in [Thread -> SUBSET Event] /\ asked' \in [Thread -> Nat]
<1>1. pc' \in [Thread -> PC]
  BY DEF Loaded, Goto, TypeOK, PC
<1>2. top' \in [Thread -> Nat] /\ low' \in [Thread -> Nat] /\ ev' \in [Thread -> Seq(Event)]
  BY DEF Loaded, TypeOK
<1>3. seen' \in [Thread -> CacheRecord]
  BY EmptyCacheType DEF Loaded, TypeOK
<1>q. QED BY <1>1, <1>2, <1>3, Zenon DEF Loaded, history, TypeOK

(* A thread's step leaves the database alone.                                *)
LEMMA ThreadTypes ==
  ASSUME TypeOK, LogInv, NEW t \in Thread, AnyRequest(t) \/ Serve(t) \/ Rest(t)
  PROVE  TypeOK'
<1>0. /\ log \in Seq(Event) /\ lowest \in Nat /\ gen \in Nat
      /\ cache \in CacheRecord
      /\ slice \in [as_of : AsOf \cup {Now}, events : Seq(Event)]
      /\ cacheLock \in Thread \cup {NoThread}
      /\ buildLock \in Thread \cup {NoThread}
      /\ pc \in [Thread -> PC]
      /\ want \in [Thread -> AsOf \cup {Now}]
      /\ top \in [Thread -> Nat] /\ low \in [Thread -> Nat]
      /\ seen \in [Thread -> CacheRecord]
      /\ ev \in [Thread -> Seq(Event)]
      /\ torn \subseteq {"grown", "cut", "replaced"}
      /\ due \in [Thread -> SUBSET Event] /\ asked \in [Thread -> Nat]
  BY DEF TypeOK, PC
<1> DEFINE Typed ==
      /\ cache' \in CacheRecord
      /\ slice' \in [as_of : AsOf \cup {Now}, events : Seq(Event)]
      /\ cacheLock' \in Thread \cup {NoThread}
      /\ buildLock' \in Thread \cup {NoThread}
      /\ pc' \in [Thread -> PC]
      /\ want' \in [Thread -> AsOf \cup {Now}]
      /\ top' \in [Thread -> Nat] /\ low' \in [Thread -> Nat]
      /\ seen' \in [Thread -> CacheRecord]
      /\ ev' \in [Thread -> Seq(Event)]
      /\ torn' \subseteq {"grown", "cut", "replaced"}
      /\ due' \in [Thread -> SUBSET Event] /\ asked' \in [Thread -> Nat]
<1>1. UNCHANGED store
  BY DEF AnyRequest, Request, Serve, Load, ReadTop, HotPath, TakeBuildLock, RereadTop, ReadLow,
         Check, ReadRows, Publish, Fail, View, Slice, Rest
<1>2. \A l \in PC : [pc EXCEPT ![t] = l] \in [Thread -> PC]
  BY <1>0
<1>3. \A e \in Seq(Event) : [ev EXCEPT ![t] = e] \in [Thread -> Seq(Event)]
  BY <1>0
<1>4. /\ [seen EXCEPT ![t] = EmptyCache] \in [Thread -> CacheRecord]
      /\ [seen EXCEPT ![t] = cache] \in [Thread -> CacheRecord]
  BY <1>0, EmptyCacheType
<1>5. \A n \in Nat : [top EXCEPT ![t] = n] \in [Thread -> Nat] /\ [low EXCEPT ![t] = n] \in [Thread -> Nat]
                    /\ [asked EXCEPT ![t] = n] \in [Thread -> Nat]
  BY <1>0
<1>6. {"idle", "top", "hot", "lock", "retop", "low", "check", "read", "rebuild",
       "view", "slice", "answered", "failed"} \subseteq PC
  BY DEF PC
<1>7. MaxSeq \in Nat /\ MinSeq \in Nat /\ 0 \in Nat
  BY ReadsReturn
<1>8. cache.events \in Seq(Event) /\ slice.events \in Seq(Event) /\ <<>> \in Seq(Event)
  BY <1>0, EmptySeq DEF CacheRecord
<1>9. ev[t] \in Seq(Event) /\ want[t] \in AsOf \cup {Now}
  BY <1>0
<1>10. ASSUME AnyRequest(t) PROVE Typed
  <2>1. PICK w \in AsOf \cup {Now} : Request(t, w)
    BY <1>10 DEF AnyRequest
  <2>2. want' \in [Thread -> AsOf \cup {Now}]
    BY <1>0, <2>1 DEF Request
  <2>3. due' \in [Thread -> SUBSET Event]
    <3>1. {e \in Rows : w # Now => e.ts <= w} \subseteq Event
      <4>1. \A s \in lowest..Len(log) : log[s] \in Event
        BY <1>0, ReadsReturn, ElementOfSeq
      <4>q. QED BY <4>1 DEF Rows
    <3>2. due' = [due EXCEPT ![t] = {e \in Rows : w # Now => e.ts <= w}]
      BY <2>1 DEF Request
    <3> DEFINE D == {e \in Rows : w # Now => e.ts <= w}
    <3> HIDE DEF D
    <3>q. QED BY <1>0, <3>1, <3>2
  <2>4. pc' \in [Thread -> PC] /\ ev' \in [Thread -> Seq(Event)] /\ asked' \in [Thread -> Nat]
    BY <1>0, <1>2, <1>3, <1>5, <1>6, <1>8, <2>1 DEF Request, Goto
  <2>q. QED BY <1>0, <2>1, <2>2, <2>3, <2>4, Zenon DEF Request
<1>11. ASSUME Rest(t) PROVE Typed
  <2>1. want' \in [Thread -> AsOf \cup {Now}] /\ due' \in [Thread -> SUBSET Event]
    BY <1>0, <1>11 DEF Rest
  <2>2. pc' \in [Thread -> PC] /\ ev' \in [Thread -> Seq(Event)] /\ asked' \in [Thread -> Nat]
    <3>1. /\ pc' = [pc EXCEPT ![t] = "idle"] /\ ev' = [ev EXCEPT ![t] = <<>>]
          /\ asked' = [asked EXCEPT ![t] = 0]
      BY <1>11 DEF Rest
    <3>2. <<>> \in Seq(Event) /\ 0 \in Nat
      BY EmptySeq
    <3>q. QED BY <1>0, <1>6, <1>8, <3>1, <3>2
  <2>3. UNCHANGED <<store, cache, slice, cacheLock, buildLock, top, low, seen, torn>>
    BY <1>11 DEF Rest
  <2>4. /\ cache' = cache /\ slice' = slice /\ cacheLock' = cacheLock /\ buildLock' = buildLock
        /\ top' = top /\ low' = low /\ seen' = seen /\ torn' = torn
    BY <2>3
  <2>5. /\ cache' \in CacheRecord /\ slice' \in [as_of : AsOf \cup {Now}, events : Seq(Event)]
        /\ cacheLock' \in Thread \cup {NoThread} /\ buildLock' \in Thread \cup {NoThread}
    BY <1>0, <2>4
  <2>6. /\ top' \in [Thread -> Nat] /\ low' \in [Thread -> Nat]
        /\ seen' \in [Thread -> CacheRecord] /\ torn' \subseteq {"grown", "cut", "replaced"}
    BY <1>0, <2>4
  <2>q. QED BY <2>1, <2>2, <2>5, <2>6
<1>12. ASSUME ReadTop(t) \/ RereadTop(t) \/ ReadLow(t) \/ TakeBuildLock(t) PROVE Typed
  <2>1. pc' \in [Thread -> PC]
    <3>1. CASE ReadTop(t)
      BY <1>0, <1>2, <1>6, <3>1 DEF ReadTop, Goto
    <3>2. CASE RereadTop(t)
      BY <1>0, <1>2, <1>6, <3>2 DEF RereadTop, Goto
    <3>3. CASE ReadLow(t)
      BY <1>0, <1>2, <1>6, <3>3 DEF ReadLow, Goto
    <3>4. CASE TakeBuildLock(t)
      BY <1>0, <1>2, <1>6, <3>4 DEF TakeBuildLock, Goto
    <3>q. QED BY <1>12, <3>1, <3>2, <3>3, <3>4
  <2>2. top' \in [Thread -> Nat] /\ low' \in [Thread -> Nat]
    <3>1. top' = top \/ top' = [top EXCEPT ![t] = MaxSeq]
      BY <1>12 DEF ReadTop, RereadTop, ReadLow, TakeBuildLock, locals
    <3>2. low' = low \/ low' = [low EXCEPT ![t] = MinSeq]
      BY <1>12 DEF ReadTop, RereadTop, ReadLow, TakeBuildLock, locals
    <3>3. [top EXCEPT ![t] = MaxSeq] \in [Thread -> Nat] /\ [low EXCEPT ![t] = MinSeq] \in [Thread -> Nat]
      BY <1>5, <1>7
    <3>4. top \in [Thread -> Nat] /\ low \in [Thread -> Nat]
      BY <1>0
    <3>q. QED BY <3>1, <3>2, <3>3, <3>4
  <2>3. UNCHANGED <<cache, slice, cacheLock, want, seen, ev, torn, due, asked>>
    BY <1>12 DEF ReadTop, RereadTop, ReadLow, TakeBuildLock, locals, history
  <2>4. buildLock' \in Thread \cup {NoThread}
    BY <1>0, <1>12 DEF ReadTop, RereadTop, ReadLow, TakeBuildLock
  <2>q. QED BY <1>0, <2>1, <2>2, <2>3, <2>4, Zenon
<1>13. ASSUME HotPath(t) \/ Check(t) PROVE Typed
  <2>1. CASE Loaded(t, cache.events)
    <3>1. buildLock' \in Thread \cup {NoThread}
      BY <1>0, <1>13 DEF HotPath, Check
    <3>q. QED BY <1>0, <1>8, <1>13, <2>1, <3>1, LoadedTypes, Zenon DEF HotPath, Check
  <2>2. CASE ~Loaded(t, cache.events)
    <3>0. /\ pc' = [pc EXCEPT ![t] = "lock"] \/ pc' = [pc EXCEPT ![t] = "read"]
          /\ seen' = seen \/ seen' = [seen EXCEPT ![t] = cache]
      BY <1>13, <2>2 DEF HotPath, Check, Goto, locals
    <3>1. pc' \in [Thread -> PC] /\ seen' \in [Thread -> CacheRecord]
      <4>1. [pc EXCEPT ![t] = "lock"] \in [Thread -> PC] /\ [pc EXCEPT ![t] = "read"] \in [Thread -> PC]
        BY <1>2, <1>6
      <4>2. seen \in [Thread -> CacheRecord]
        BY <1>0
      <4>q. QED BY <1>4, <3>0, <4>1, <4>2
    <3>2. UNCHANGED <<cache, slice, cacheLock, buildLock, want, top, low, ev, torn, due, asked>>
      BY <1>13, <2>2 DEF HotPath, Check, locals, history
    <3>q. QED BY <1>0, <3>1, <3>2, Zenon
  <2>q. QED BY <2>1, <2>2
<1>14. ASSUME ReadRows(t) PROVE Typed
  <2>1. pc' \in [Thread -> PC]
    BY <1>0, <1>2, <1>6, <1>14 DEF ReadRows, Goto
  <2>2. ev' \in [Thread -> Seq(Event)]
    BY <1>3, <1>14, BuildReturns, ReadsReturn
  <2>q. QED BY <1>0, <1>14, <2>1, <2>2, Zenon DEF ReadRows, history
<1>15. ASSUME Publish(t) PROVE Typed
  <2>1. top[t] \in Nat /\ low[t] \in Nat
    BY <1>0
  <2>2. cache' \in CacheRecord
    BY <1>9, <1>15, <2>1 DEF Publish, CacheRecord
  <2>3. slice' \in [as_of : AsOf \cup {Now}, events : Seq(Event)]
    BY <1>0, <1>15, EmptyCacheType DEF Publish
  <2>4. cacheLock' = cacheLock /\ buildLock' = NoThread /\ Loaded(t, ev[t])
    BY <1>15 DEF Publish
  <2>q. QED BY <1>0, <1>9, <2>2, <2>3, <2>4, LoadedTypes
<1>16. ASSUME Fail(t) PROVE Typed
  <2>1. pc' \in [Thread -> PC] /\ top' \in [Thread -> Nat] /\ low' \in [Thread -> Nat]
        /\ seen' \in [Thread -> CacheRecord] /\ asked' \in [Thread -> Nat]
    BY <1>0, <1>2, <1>4, <1>5, <1>6, <1>7, <1>16 DEF Fail, Goto
  <2>2. /\ due' \in [Thread -> SUBSET Event] /\ buildLock' \in Thread \cup {NoThread}
        /\ cacheLock' \in Thread \cup {NoThread}
    BY <1>0, <1>16 DEF Fail
  <2>3. ev' \in [Thread -> Seq(Event)]
    BY <1>3, <1>8, <1>16 DEF Fail
  <2>q. QED BY <1>0, <1>16, <2>1, <2>2, <2>3, Zenon DEF Fail
<1>17. ASSUME View(t) PROVE Typed
  <2>1. pc' \in [Thread -> PC] /\ ev' \in [Thread -> Seq(Event)]
    <3>1. /\ pc' = [pc EXCEPT ![t] = "answered"] \/ pc' = [pc EXCEPT ![t] = "slice"]
          /\ ev' = ev \/ ev' = [ev EXCEPT ![t] = slice.events]
      BY <1>17 DEF View, Goto
    <3>2. pc' \in [Thread -> PC]
      BY <1>2, <1>6, <3>1
    <3>3. ev' \in [Thread -> Seq(Event)]
      BY <1>0, <1>3, <1>8, <3>1
    <3>q. QED BY <3>2, <3>3
  <2>2. cacheLock' \in Thread \cup {NoThread}
    BY <1>0, <1>17 DEF View
  <2>q. QED BY <1>0, <1>17, <2>1, <2>2, Zenon DEF View, history
<1>18. ASSUME Slice(t) PROVE Typed
  <2>1. UpTo(ev[t], want[t]) \in Seq(Event)
    BY <1>9, UpToProperties
  <2>2. pc' \in [Thread -> PC] /\ ev' \in [Thread -> Seq(Event)]
    BY <1>0, <1>2, <1>3, <1>6, <1>18, <2>1 DEF Slice, Goto
  <2>3. slice' \in [as_of : AsOf \cup {Now}, events : Seq(Event)]
    BY <1>9, <1>18, <2>1 DEF Slice
  <2>q. QED BY <1>0, <1>18, <2>2, <2>3, Zenon DEF Slice, history
<1>19. Typed
  <2> HIDE DEF Typed
  <2>q. QED BY <1>10, <1>11, <1>12, <1>13, <1>14, <1>15, <1>16, <1>17, <1>18 DEF Serve, Load
<1>20. log' \in Seq(Event) /\ lowest' \in Nat /\ gen' \in Nat
  BY <1>0, <1>1 DEF store
<1>q. QED BY <1>19, <1>20, Zenon DEF TypeOK, PC

-----------------------------------------------------------------------------
(* What a step leaves alone. *)

LEMMA TypeInitially == Init => TypeOK
<1>1. <<>> \in Seq(Event)
  BY EmptySeq
<1>2. EmptyCache \in CacheRecord /\ NoSlice \in [as_of : AsOf \cup {Now}, events : Seq(Event)]
  BY EmptyCacheType
<1>q. QED BY <1>1, <1>2 DEF Init, TypeOK

LEMMA RecorderKeeps ==
  ASSUME CommitBatch \/ ReplaceFile
  PROVE  /\ cache' = cache /\ slice' = slice /\ cacheLock' = cacheLock /\ buildLock' = buildLock
         /\ pc' = pc /\ want' = want /\ top' = top /\ low' = low /\ seen' = seen /\ ev' = ev
         /\ due' = due /\ asked' = asked
BY DEF CommitBatch, ReplaceFile, locals

LEMMA ReplaceEmpties ==
  ASSUME TypeOK, ReplaceFile
  PROVE  log' = <<>> /\ Len(log') = 0 /\ lowest' = 1 /\ gen' = gen + 1 /\ gen \in Nat
BY EmptySeq DEF ReplaceFile, TypeOK

(* A thread's step is no step of another one.                                *)
Others(t) ==
  \A u \in Thread \ {t} :
    /\ pc'[u] = pc[u] /\ want'[u] = want[u] /\ top'[u] = top[u] /\ low'[u] = low[u]
    /\ seen'[u] = seen[u] /\ ev'[u] = ev[u] /\ due'[u] = due[u] /\ asked'[u] = asked[u]

LEMMA OthersKeep ==
  ASSUME TypeOK, NEW t \in Thread, AnyRequest(t) \/ Serve(t) \/ Rest(t)
  PROVE  Others(t) /\ log' = log /\ lowest' = lowest /\ gen' = gen /\ torn' = torn
<1>1. CASE AnyRequest(t)
  <2>1. PICK w \in AsOf \cup {Now} : Request(t, w)
    BY <1>1 DEF AnyRequest
  <2>q. QED BY <2>1 DEF Request, Goto, Others, store, TypeOK
<1>2. CASE Rest(t)
  BY <1>2 DEF Rest, Others, store, TypeOK
<1>3. CASE ReadTop(t) \/ RereadTop(t) \/ ReadLow(t) \/ TakeBuildLock(t)
  BY <1>3 DEF ReadTop, RereadTop, ReadLow, TakeBuildLock, Goto, Others, store, locals, history, TypeOK
<1>4. CASE HotPath(t)
  BY <1>4 DEF HotPath, Loaded, Goto, Others, store, locals, history, TypeOK
<1>5. CASE Check(t)
  BY <1>5 DEF Check, Loaded, Goto, Others, store, locals, history, TypeOK
<1>6. CASE ReadRows(t)
  BY <1>6 DEF ReadRows, Goto, Others, store, locals, history, TypeOK
<1>7. CASE Publish(t)
  BY <1>7 DEF Publish, Loaded, Goto, Others, store, locals, history, TypeOK
<1>8. CASE Fail(t)
  BY <1>8 DEF Fail, Goto, Others, store, locals, history, TypeOK
<1>9. CASE View(t)
  BY <1>9 DEF View, Goto, Others, store, locals, history, TypeOK
<1>10. CASE Slice(t)
  BY <1>10 DEF Slice, Goto, Others, store, locals, history, TypeOK
<1>q. QED BY <1>1, <1>2, <1>3, <1>4, <1>5, <1>6, <1>7, <1>8, <1>9, <1>10 DEF Serve, Load

(* Where an answered load leaves the thread.                                 *)
LEMMA LoadedLeaves ==
  ASSUME TypeOK, NEW t \in Thread, NEW es, Loaded(t, es)
  PROVE  /\ pc'[t] = IF want[t] = Now THEN "answered" ELSE "view"
         /\ ev'[t] = es /\ want'[t] = want[t] /\ due'[t] = due[t] /\ asked'[t] = asked[t]
BY DEF Loaded, Goto, history, TypeOK

-----------------------------------------------------------------------------
(* The locks. *)

LEMMA LockStep ==
  ASSUME TypeOK, LockInv, [Step]_vars
  PROVE  LockInv'
<1>1. CASE UNCHANGED vars
  BY <1>1 DEF vars, LockInv
<1>2. CASE CommitBatch \/ ReplaceFile
  BY <1>2, RecorderKeeps DEF LockInv
<1>3. ASSUME NEW t \in Thread, AnyRequest(t) \/ Serve(t) \/ Rest(t) PROVE LockInv'
  <2>0. Others(t)
    BY <1>3, OthersKeep
  <2>1. CASE AnyRequest(t) \/ Rest(t)
    <3>1. UNCHANGED <<cacheLock, buildLock>> /\ pc'[t] \in {"top", "idle"}
          /\ pc[t] \in {"idle", "answered", "failed"}
      BY <2>1 DEF AnyRequest, Request, Rest, Goto, TypeOK
    <3>q. QED BY <2>0, <3>1 DEF LockInv, Locked, Others
  <2>2. CASE ReadTop(t) \/ HotPath(t)
    <3>1. UNCHANGED <<cacheLock, buildLock>> /\ pc[t] \in {"top", "hot"}
          /\ pc'[t] \in {"hot", "lock", "answered", "view"}
      BY <2>2, LoadedLeaves DEF ReadTop, HotPath, Goto, TypeOK
    <3>q. QED BY <2>0, <3>1 DEF LockInv, Locked, Others
  <2>3. CASE TakeBuildLock(t)
    <3>1. cacheLock' = cacheLock /\ buildLock = NoThread /\ buildLock' = t
          /\ pc[t] = "lock" /\ pc'[t] = "retop"
      BY <2>3 DEF TakeBuildLock, Goto, TypeOK
    <3>q. QED BY <2>0, <3>1, CacheAssumption DEF LockInv, Locked, Others
  <2>4. CASE RereadTop(t) \/ ReadLow(t) \/ ReadRows(t) \/ (Check(t) /\ ~UpToDate(t))
    <3>1. UNCHANGED <<cacheLock, buildLock>> /\ pc[t] \in Locked /\ pc'[t] \in Locked
          /\ pc[t] # "slice" /\ pc'[t] # "slice"
      BY <2>4 DEF RereadTop, ReadLow, ReadRows, Check, Goto, TypeOK, Locked
    <3>q. QED BY <2>0, <3>1 DEF LockInv, Others
  <2>5. CASE Publish(t) \/ (Check(t) /\ UpToDate(t))
    <3>1. cacheLock' = cacheLock /\ buildLock' = NoThread /\ pc[t] \in {"check", "rebuild"}
          /\ pc'[t] \in {"answered", "view"}
      BY <2>5, LoadedLeaves DEF Publish, Check, TypeOK
    <3>q. QED BY <2>0, <3>1, CacheAssumption DEF LockInv, Locked, Others
  <2>6. CASE Fail(t)
    <3>1. /\ cacheLock' = (IF cacheLock = t THEN NoThread ELSE cacheLock)
          /\ buildLock' = (IF buildLock = t THEN NoThread ELSE buildLock)
          /\ pc'[t] = "failed"
      BY <2>6 DEF Fail, Goto, TypeOK
    <3>q. QED BY <2>0, <3>1, CacheAssumption DEF LockInv, Locked, Others
  <2>7. CASE View(t)
    <3>1. /\ buildLock' = buildLock /\ cacheLock = NoThread /\ pc[t] = "view"
          /\ \/ cacheLock' = cacheLock /\ pc'[t] = "answered"
             \/ cacheLock' = t /\ pc'[t] = "slice"
      BY <2>7 DEF View, Goto, TypeOK
    <3>q. QED BY <2>0, <3>1, CacheAssumption DEF LockInv, Locked, Others
  <2>8. CASE Slice(t)
    <3>1. buildLock' = buildLock /\ cacheLock' = NoThread /\ pc[t] = "slice" /\ pc'[t] = "answered"
      BY <2>8 DEF Slice, Goto, TypeOK
    <3>q. QED BY <2>0, <3>1, CacheAssumption DEF LockInv, Locked, Others
  <2>q. QED BY <1>3, <2>1, <2>2, <2>3, <2>4, <2>5, <2>6, <2>7, <2>8 DEF Serve, Load
<1>q. QED BY <1>1, <1>2, <1>3 DEF Step, Next

-----------------------------------------------------------------------------
(* The slice. *)

LEMMA SliceStep ==
  ASSUME TypeOK, LogInv, SliceInv, [Step]_vars
  PROVE  SliceInv'
<1>1. CASE UNCHANGED vars
  BY <1>1 DEF vars, locals, SliceInv, PastOnly
<1>2. CASE CommitBatch \/ ReplaceFile
  BY <1>2, RecorderKeeps DEF SliceInv, PastOnly
<1>3. ASSUME NEW t \in Thread, AnyRequest(t) \/ Serve(t) \/ Rest(t) PROVE SliceInv'
  <2>0. Others(t)
    BY <1>3, OthersKeep
  <2>1. ASSUME slice' = slice, pc'[t] \notin {"view", "slice", "answered"} PROVE SliceInv'
    BY <2>0, <2>1 DEF SliceInv, Others
  <2>2. ASSUME slice' = slice \/ slice' = NoSlice, NEW es, Loaded(t, es) PROVE SliceInv'
    <3>1. want'[t] = want[t] /\ pc'[t] = IF want[t] = Now THEN "answered" ELSE "view"
      BY <2>2, LoadedLeaves
    <3>2. slice'.as_of # Now => PastOnly(slice'.events, slice'.as_of)
      BY <2>2 DEF SliceInv, NoSlice
    <3>q. QED BY <2>0, <3>1, <3>2 DEF SliceInv, Others
  <2>3. CASE AnyRequest(t) \/ Rest(t) \/ ReadTop(t) \/ TakeBuildLock(t) \/ RereadTop(t)
             \/ ReadLow(t) \/ ReadRows(t) \/ Fail(t)
    <3>1. slice' = slice /\ pc'[t] \in {"idle", "top", "hot", "retop", "low", "check", "rebuild", "failed"}
      BY <2>3 DEF AnyRequest, Request, Rest, ReadTop, TakeBuildLock, RereadTop, ReadLow, ReadRows,
                  Fail, Goto, TypeOK
    <3>q. QED BY <2>1, <3>1
  <2>4. CASE HotPath(t) \/ Check(t)
    <3>1. slice' = slice /\ (Loaded(t, cache.events) \/ pc'[t] \in {"lock", "read"})
      BY <2>4 DEF HotPath, Check, Goto, TypeOK
    <3>q. QED BY <2>1, <2>2, <3>1
  <2>5. CASE Publish(t)
    <3>1. Loaded(t, ev[t]) /\ (slice' = slice \/ slice' = NoSlice)
      BY <2>5 DEF Publish
    <3>q. QED BY <2>2, <3>1
  <2>6. CASE View(t)
    <3>1. slice' = slice /\ want'[t] = want[t] /\ pc[t] = "view"
          /\ \/ pc'[t] = "answered" /\ ev'[t] = slice.events /\ slice.as_of = want[t]
             \/ pc'[t] = "slice"
      BY <2>6 DEF View, Goto, TypeOK
    <3>q. QED BY <2>0, <3>1 DEF SliceInv, Others
  <2>7. CASE Slice(t)
    <3>1. /\ slice'.as_of = want[t] /\ slice'.events = UpTo(ev[t], want[t])
          /\ ev'[t] = UpTo(ev[t], want[t]) /\ want'[t] = want[t] /\ pc'[t] = "answered"
      BY <2>7 DEF Slice, Goto, TypeOK
    <3>2. PastOnly(UpTo(ev[t], want[t]), want[t])
      <4>1. ev[t] \in Seq(Event)
        BY DEF TypeOK
      <4>q. QED BY <4>1, UpToProperties DEF PastOnly
    <3>q. QED BY <2>0, <3>1, <3>2 DEF SliceInv, Others
  <2>q. QED BY <1>3, <2>3, <2>4, <2>5, <2>6, <2>7 DEF Serve, Load
<1>q. QED BY <1>1, <1>2, <1>3 DEF Step, Next

-----------------------------------------------------------------------------
(* The log, and that nothing is of the future. *)

LEMMA LogStep ==
  ASSUME TypeOK, LogInv, [Step]_vars
  PROVE  LogInv'
<1>1. CASE UNCHANGED vars
  BY <1>1 DEF vars, store, LogInv
<1>2. CASE CommitBatch
  <2>1. lowest \in 1..(Len(log) + 1) /\ Len(log) \in Nat
    BY ReadsReturn
  <2>2. lowest' \in 1..Len(log')
    BY <1>2, <2>1, CommitAdds
  <2>3. \A s \in 1..Len(log') : log'[s].gen = gen' /\ log'[s].seq = s
    <3> TAKE s \in 1..Len(log')
    <3>1. CASE s \in 1..Len(log)
      BY <1>2, <3>1, CommitAdds DEF LogInv
    <3>2. CASE s \in (Len(log) + 1)..Len(log')
      BY <1>2, <3>2, CommitAdds
    <3>q. QED BY <1>2, <2>1, <3>1, <3>2, CommitAdds
  <2>q. QED BY <2>2, <2>3 DEF LogInv
<1>3. CASE ReplaceFile
  BY <1>3, ReplaceEmpties DEF LogInv
<1>4. ASSUME NEW t \in Thread, AnyRequest(t) \/ Serve(t) \/ Rest(t) PROVE LogInv'
  BY <1>4, OthersKeep DEF LogInv
<1>q. QED BY <1>1, <1>2, <1>3, <1>4 DEF Step, Next
LEMMA FutureKept ==
  ASSUME NEW es, gen \in Nat, gen' = gen \/ gen' = gen + 1, NoneOfTheFuture(es),
         es \in Seq(Event)
  PROVE  \A i \in DOMAIN es : es[i].gen <= gen'
<1>1. \A i \in DOMAIN es : es[i] \in Event
  BY LenProperties, ElementOfSeq
<1>2. \A e \in Event : e.gen \in Nat
  BY DEF Event
<1>3. \A i \in DOMAIN es : es[i].gen \in Nat /\ es[i].gen <= gen
  BY <1>1, <1>2, Zenon DEF NoneOfTheFuture
<1>4. \A x \in Nat : x <= gen => x <= gen'
  OBVIOUS
<1>q. QED BY <1>3, <1>4, Zenon

(* The lists a build makes are of rows there are and rows that were cached.  *)
LEMMA BuildGens ==
  ASSUME TypeOK, LogInv, GenInv, NEW t \in Thread, ReadRows(t)
  PROVE  /\ NoneOfTheFuture(ev'[t])
         /\ (Reset(t) \/ AllOfThisFile(seen[t].events)) => AllOfThisFile(ev'[t])
<1>0. gen \in Nat /\ seen[t].events \in Seq(Event) /\ seen[t].last_seq \in Nat /\ lowest \in Nat
  BY DEF TypeOK, CacheRecord
<1>1. AllOfThisFile(ReadEvents)
  <2>1. DOMAIN ReadEvents = 1..Len(ReadEvents)
    BY ReadsReturn, LenProperties
  <2>2. ASSUME NEW i \in 1..Len(ReadEvents) PROVE ReadEvents[i].gen = gen
    <3>1. lowest + i - 1 \in 1..Len(log) /\ ReadEvents[i] = log[lowest + i - 1]
      BY ReadsReturn
    <3>q. QED BY <3>1 DEF LogInv
  <2>q. QED BY <2>1, <2>2 DEF AllOfThisFile
<1>2. AllOfThisFile(Fresh(t))
  <2> DEFINE from == IF seen[t].last_seq + 1 > lowest THEN seen[t].last_seq + 1 ELSE lowest
  <2>0. from \in Nat /\ from >= 1 /\ Len(log) \in Nat
    <3>1. lowest >= 1 /\ Len(log) \in Nat
      BY ReadsReturn
    <3>q. QED BY <1>0, <3>1
  <2>1. /\ Fresh(t) \in Seq(Event)
        /\ Len(Fresh(t)) = IF from <= Len(log) THEN Len(log) - from + 1 ELSE 0
        /\ \A i \in 1..Len(Fresh(t)) : Fresh(t)[i] = log[from + i - 1]
    BY <1>0, <2>0, SinceReturns DEF Fresh
  <2>2. ASSUME NEW i \in 1..Len(Fresh(t)) PROVE Fresh(t)[i].gen = gen
    <3>1. from + i - 1 \in 1..Len(log) /\ Fresh(t)[i] = log[from + i - 1]
      <4> DEFINE n == Len(Fresh(t))
                 m == Len(log)
      <4>1. /\ n = IF from <= m THEN m - from + 1 ELSE 0
            /\ Fresh(t)[i] = log[from + i - 1] /\ i \in 1..n
        BY <2>1
      <4>2. from \in Nat /\ from >= 1 /\ m \in Nat
        BY <2>0
      <4> HIDE DEF from, n, m
      <4>3. from <= m
        BY <4>1
      <4>4. from + i - 1 \in 1..m
        BY <4>1, <4>2, <4>3
      <4>q. QED BY <4>1, <4>4 DEF m
    <3>q. QED BY <3>1 DEF LogInv
  <2>3. DOMAIN Fresh(t) = 1..Len(Fresh(t))
    BY <2>1, LenProperties
  <2>q. QED BY <2>2, <2>3 DEF AllOfThisFile
<1>3. /\ Kept(t) \in Seq(Event) /\ Len(Kept(t)) \in Nat
      /\ \A i \in 1..Len(Kept(t)) : \E j \in DOMAIN seen[t].events : Kept(t)[i] = seen[t].events[j]
  <2>1. Trim(t) \in Nat
    BY BuildReturns
  <2>2. /\ Kept(t) \in Seq(Event)
        /\ Len(Kept(t)) = IF Trim(t) < Len(seen[t].events) THEN Len(seen[t].events) - Trim(t) ELSE 0
        /\ \A i \in 1..Len(Kept(t)) : Kept(t)[i] = seen[t].events[Trim(t) + i]
    BY <1>0, <2>1, DropReturns DEF Kept
  <2>3. Len(seen[t].events) \in Nat /\ DOMAIN seen[t].events = 1..Len(seen[t].events)
    BY <1>0, LenProperties
  <2>4. ASSUME NEW i \in 1..Len(Kept(t)) PROVE Trim(t) + i \in DOMAIN seen[t].events
    BY <2>1, <2>2, <2>3
  <2>q. QED BY <2>2, <2>3, <2>4, LenProperties
<1>4. DOMAIN (Kept(t) \o Fresh(t)) = 1..(Len(Kept(t)) + Len(Fresh(t)))
      /\ Len(Fresh(t)) \in Nat /\ DOMAIN Fresh(t) = 1..Len(Fresh(t))
  BY BuildReturns, LenProperties
<1>5. ASSUME NEW i \in DOMAIN (Kept(t) \o Fresh(t))
      PROVE  \/ (Kept(t) \o Fresh(t))[i].gen = gen
             \/ \E j \in DOMAIN seen[t].events : (Kept(t) \o Fresh(t))[i] = seen[t].events[j]
  <2>1. CASE i <= Len(Kept(t))
    <3>1. i \in 1..Len(Kept(t)) /\ (Kept(t) \o Fresh(t))[i] = Kept(t)[i]
      BY <1>3, <1>4, <2>1, BuildReturns
    <3>q. QED BY <1>3, <3>1
  <2>2. CASE ~(i <= Len(Kept(t)))
    <3>1. i - Len(Kept(t)) \in DOMAIN Fresh(t)
      BY <1>3, <1>4, <2>2
    <3>2. (Kept(t) \o Fresh(t))[i] = Fresh(t)[i - Len(Kept(t))]
      BY <1>3, <1>4, <2>2, BuildReturns
    <3>q. QED BY <1>2, <3>1, <3>2 DEF AllOfThisFile
  <2>q. QED BY <2>1, <2>2
<1>6. ev'[t] = IF Reset(t) THEN ReadEvents ELSE Kept(t) \o Fresh(t)
  <2>1. ev' = [ev EXCEPT ![t] = IF Reset(t) THEN ReadEvents ELSE Kept(t) \o Fresh(t)]
    BY BuildReturns, Zenon
  <2>2. ev \in [Thread -> Seq(Event)]
    BY DEF TypeOK
  <2>q. QED BY <2>1, <2>2
<1>7. NoneOfTheFuture(ReadEvents)
  BY <1>0, <1>1 DEF AllOfThisFile, NoneOfTheFuture
<1>8. NoneOfTheFuture(Kept(t) \o Fresh(t))
  <2>1. \A j \in DOMAIN seen[t].events : seen[t].events[j].gen <= gen
    BY DEF GenInv, NoneOfTheFuture
  <2>2. ASSUME NEW i \in DOMAIN (Kept(t) \o Fresh(t)) PROVE (Kept(t) \o Fresh(t))[i].gen <= gen
    <3>1. CASE (Kept(t) \o Fresh(t))[i].gen = gen
      BY <1>0, <3>1
    <3>2. CASE \E j \in DOMAIN seen[t].events : (Kept(t) \o Fresh(t))[i] = seen[t].events[j]
      BY <2>1, <3>2, Zenon
    <3>q. QED BY <1>5, <3>1, <3>2
  <2>q. QED BY <2>2 DEF NoneOfTheFuture
<1>9. AllOfThisFile(seen[t].events) => AllOfThisFile(Kept(t) \o Fresh(t))
  BY <1>5 DEF AllOfThisFile
<1>q. QED BY <1>1, <1>6, <1>7, <1>8, <1>9
LEMMA GenStep ==
  ASSUME TypeOK, LogInv, GenInv, [Step]_vars
  PROVE  GenInv'
<1>0. /\ gen \in Nat /\ Len(log) \in Nat /\ cache.events \in Seq(Event) /\ slice.events \in Seq(Event)
      /\ \A u \in Thread : /\ seen[u].events \in Seq(Event) /\ ev[u] \in Seq(Event)
                           /\ asked[u] \in Nat /\ due[u] \subseteq Event
  BY ReadsReturn DEF TypeOK, CacheRecord
<1>00. \A e \in Event : e.gen \in Nat /\ e.seq \in Nat
  BY DEF Event
<1>1. CASE UNCHANGED vars
  BY <1>1 DEF vars, store, locals, history, GenInv, NoneOfTheFuture
<1>2. CASE CommitBatch \/ ReplaceFile
  <2>1. gen' = gen \/ gen' = gen + 1
    BY <1>2, CommitAdds, ReplaceEmpties
  <2>2. \A es \in Seq(Event) : NoneOfTheFuture(es) => \A i \in DOMAIN es : es[i].gen <= gen'
    BY <1>0, <2>1, FutureKept
  <2>3. /\ cache' = cache /\ slice' = slice /\ seen' = seen /\ ev' = ev /\ asked' = asked /\ due' = due
    BY <1>2, RecorderKeeps
  <2>4. ASSUME NEW u \in Thread PROVE asked'[u] <= gen'
    <3>1. asked[u] <= gen
      BY DEF GenInv
    <3>q. QED BY <1>0, <2>1, <2>3, <3>1
  <2>5. ASSUME NEW u \in Thread, NEW e \in due'[u]
        PROVE  e.gen <= gen' /\ (e.gen = gen' => e.seq <= Len(log'))
    <3>1. e \in due[u] /\ e.gen \in Nat /\ e.seq \in Nat
      BY <1>0, <1>00, <2>3
    <3>2. e.gen <= gen /\ (e.gen = gen => e.seq <= Len(log))
      BY <3>1 DEF GenInv
    <3>3. CASE CommitBatch
      <4>1. Len(log') \in Nat /\ Len(log') > Len(log) /\ gen' = gen
        BY <3>3, CommitAdds
      <4>q. QED BY <1>0, <3>1, <3>2, <4>1
    <3>4. CASE ReplaceFile
      <4>1. gen' = gen + 1
        BY <3>4, ReplaceEmpties
      <4>q. QED BY <1>0, <3>1, <3>2, <4>1
    <3>q. QED BY <1>2, <3>3, <3>4
  <2>6. /\ \A i \in DOMAIN cache.events : cache.events[i].gen <= gen'
        /\ \A i \in DOMAIN slice.events : slice.events[i].gen <= gen'
        /\ \A u \in Thread : /\ \A i \in DOMAIN seen[u].events : seen[u].events[i].gen <= gen'
                             /\ \A i \in DOMAIN ev[u] : ev[u][i].gen <= gen'
    BY <1>0, <2>2, Zenon DEF GenInv
  <2>q. QED BY <2>3, <2>4, <2>5, <2>6, Zenon DEF GenInv, NoneOfTheFuture
<1>3. ASSUME NEW t \in Thread, AnyRequest(t) \/ Serve(t) \/ Rest(t) PROVE GenInv'
  <2>0. Others(t) /\ log' = log /\ gen' = gen
    BY <1>3, OthersKeep
  <2>1. ASSUME NoneOfTheFuture(cache'.events), NoneOfTheFuture(slice'.events),
               NoneOfTheFuture(seen'[t].events), NoneOfTheFuture(ev'[t]), asked'[t] <= gen,
               \A e \in due'[t] : e.gen <= gen /\ (e.gen = gen => e.seq <= Len(log))
        PROVE  GenInv'
    <3>1. ASSUME NEW u \in Thread
          PROVE  /\ NoneOfTheFuture(seen'[u].events) /\ NoneOfTheFuture(ev'[u]) /\ asked'[u] <= gen
                 /\ \A e \in due'[u] : e.gen <= gen /\ (e.gen = gen => e.seq <= Len(log))
      <4>1. CASE u = t
        BY <2>1, <4>1
      <4>2. CASE u # t
        <5>1. seen'[u] = seen[u] /\ ev'[u] = ev[u] /\ asked'[u] = asked[u] /\ due'[u] = due[u]
          BY <2>0, <4>2 DEF Others
        <5>q. QED BY <5>1 DEF GenInv
      <4>q. QED BY <4>1, <4>2
    <3>q. QED BY <2>0, <2>1, <3>1, Zenon DEF GenInv, NoneOfTheFuture
  <2>2. /\ NoneOfTheFuture(cache.events) /\ NoneOfTheFuture(slice.events)
        /\ NoneOfTheFuture(seen[t].events) /\ NoneOfTheFuture(ev[t]) /\ asked[t] <= gen
        /\ \A e \in due[t] : e.gen <= gen /\ (e.gen = gen => e.seq <= Len(log))
        /\ 0 <= gen /\ gen <= gen
    BY <1>0 DEF GenInv
  <2>3. /\ NoneOfTheFuture(<<>>) /\ NoneOfTheFuture(EmptyCache.events)
        /\ NoneOfTheFuture(NoSlice.events)
    BY DEF NoneOfTheFuture, EmptyCache, NoSlice
  <2>4. CASE AnyRequest(t)
    <3>1. PICK w \in AsOf \cup {Now} : Request(t, w)
      BY <2>4 DEF AnyRequest
    <3>2. /\ cache' = cache /\ slice' = slice /\ seen' = seen /\ ev'[t] = <<>> /\ asked'[t] = gen
          /\ due'[t] \subseteq Rows
      BY <3>1 DEF Request, TypeOK
    <3>3. \A e \in Rows : e.gen = gen /\ e.seq <= Len(log)
      <4>1. \A s \in lowest..Len(log) : s \in 1..Len(log)
        BY ReadsReturn
      <4>q. QED BY <1>0, <4>1 DEF Rows, LogInv
    <3>q. QED BY <2>1, <2>2, <2>3, <3>2, <3>3
  <2>5. CASE Rest(t) \/ Fail(t)
    <3>1. /\ cache' = cache /\ slice' = slice /\ asked'[t] = 0 /\ due'[t] = {}
          /\ seen'[t] = seen[t] \/ seen'[t] = EmptyCache
          /\ ev'[t] = ev[t] \/ ev'[t] = <<>>
      BY <2>5 DEF Rest, Fail, TypeOK
    <3>q. QED BY <2>1, <2>2, <2>3, <3>1
  <2>6. CASE ReadTop(t) \/ TakeBuildLock(t) \/ RereadTop(t) \/ ReadLow(t)
    <3>1. /\ cache' = cache /\ slice' = slice /\ asked'[t] = asked[t] /\ due'[t] = due[t]
          /\ seen'[t] = seen[t] /\ ev'[t] = ev[t]
      BY <2>6 DEF ReadTop, TakeBuildLock, RereadTop, ReadLow, locals, history
    <3>q. QED BY <2>1, <2>2, <3>1
  <2>7. CASE HotPath(t) \/ Check(t)
    <3>1. /\ cache' = cache /\ slice' = slice /\ asked'[t] = asked[t] /\ due'[t] = due[t]
          /\ seen'[t] = seen[t] \/ seen'[t] = EmptyCache \/ seen'[t] = cache
          /\ ev'[t] = ev[t] \/ ev'[t] = cache.events
      BY <2>7 DEF HotPath, Check, Loaded, locals, history, TypeOK
    <3>q. QED BY <2>1, <2>2, <2>3, <3>1
  <2>8. CASE ReadRows(t)
    <3>1. cache' = cache /\ slice' = slice /\ asked' = asked /\ due' = due /\ seen' = seen
      BY <2>8 DEF ReadRows, history
    <3>q. QED BY <2>1, <2>2, <2>8, <3>1, BuildGens
  <2>9. CASE Publish(t)
    <3>1. /\ cache'.events = ev[t]
          /\ slice' = slice \/ slice' = NoSlice
          /\ asked'[t] = asked[t] /\ due'[t] = due[t] /\ seen'[t] = EmptyCache /\ ev'[t] = ev[t]
      BY <2>9 DEF Publish, Loaded, history, TypeOK
    <3>q. QED BY <2>1, <2>2, <2>3, <3>1
  <2>10. CASE View(t)
    <3>1. /\ cache' = cache /\ slice' = slice /\ asked' = asked /\ due' = due /\ seen' = seen
          /\ ev'[t] = ev[t] \/ ev'[t] = slice.events
      BY <2>10 DEF View, history, TypeOK
    <3>q. QED BY <2>1, <2>2, <3>1
  <2>11. CASE Slice(t)
    <3>1. /\ cache' = cache /\ asked' = asked /\ due' = due /\ seen' = seen
          /\ ev'[t] = UpTo(ev[t], want[t]) /\ slice'.events = UpTo(ev[t], want[t])
      BY <2>11 DEF Slice, history, TypeOK
    <3>2. NoneOfTheFuture(UpTo(ev[t], want[t]))
      <4>1. \A i \in DOMAIN UpTo(ev[t], want[t]) : \E j \in DOMAIN ev[t] : UpTo(ev[t], want[t])[i] = ev[t][j]
        BY <1>0, UpToProperties
      <4>q. QED BY <2>2, <4>1, Zenon DEF NoneOfTheFuture
    <3>q. QED BY <2>1, <2>2, <3>1, <3>2
  <2>q. QED BY <1>3, <2>4, <2>5, <2>6, <2>7, <2>8, <2>9, <2>10, <2>11 DEF Serve, Load
<1>q. QED BY <1>1, <1>2, <1>3 DEF Step, Next
-----------------------------------------------------------------------------
(* The cache and the builds of it. *)

LEMMA TornGrows ==
  ASSUME CommitBatch \/ ReplaceFile
  PROVE  /\ torn \subseteq torn'
         /\ Reading => "grown" \in torn'
         /\ Reading /\ lowest' > lowest => "cut" \in torn'
         /\ Building /\ gen' # gen => "replaced" \in torn'
         /\ StaleCache' /\ Len(log') >= cache.last_seq => "replaced" \in torn'
<1>1. Tear
  BY DEF CommitBatch, ReplaceFile
<1>2. torn' = torn \cup (IF Reading THEN {"grown"} ELSE {})
               \cup (IF Reading /\ lowest' > lowest THEN {"cut"} ELSE {})
               \cup (IF \/ Building /\ gen' # gen
                        \/ StaleCache' /\ Len(log') >= cache.last_seq
                       THEN {"replaced"} ELSE {})
  BY <1>1 DEF Tear
<1>q. QED BY <1>2, Zenon

LEMMA StaleIs == StaleCache <=> ~AllOfThisFile(cache.events)
BY DEF StaleCache, EventsOf, AllOfThisFile

LEMMA NotCutNotReplaced == NotCut => NotReplaced
BY DEF NotCut, NotReplaced

(* A list that holds the rows up to last goes on to when rows are added.    *)
LEMMA HoldsKept ==
  ASSUME TypeOK, LogInv, CommitBatch, NEW es, NEW last \in Nat, NEW min \in Nat,
         last <= Len(log), Holds(es, last, min)
  PROVE  \A s \in lowest'..Len(log') : s <= last =>
           \E i \in DOMAIN es : es[i] = log'[s] /\ i >= s - min + 1
<1> TAKE s \in lowest'..Len(log')
<1> HAVE s <= last
<1>1. /\ lowest' >= lowest /\ lowest' \in Nat /\ lowest \in Nat /\ lowest >= 1
      /\ Len(log) \in Nat /\ Len(log') \in Nat
  <2>1. lowest' >= lowest /\ lowest' \in Nat /\ Len(log) \in Nat /\ Len(log') \in Nat
    BY CommitAdds
  <2>2. lowest \in 1..(Len(log) + 1)
    BY ReadsReturn
  <2>q. QED BY <2>1, <2>2
<1>2. s \in lowest..Len(log) /\ s \in 1..Len(log)
  BY <1>1
<1>3. log'[s] = log[s]
  BY <1>2, CommitAdds
<1>q. QED BY <1>2, <1>3 DEF Holds

LEMMA CacheCommit ==
  ASSUME TypeOK, LogInv, GenInv, CacheInv, CommitBatch
  PROVE  CacheInv'
<1>0. /\ cache' = cache /\ gen' = gen /\ torn \subseteq torn' /\ lowest' >= lowest
      /\ Len(log) \in Nat /\ Len(log') \in Nat /\ Len(log') > Len(log)
      /\ lowest \in Nat /\ lowest' \in Nat
  BY RecorderKeeps, CommitAdds, TornGrows DEF TypeOK
<1>1. cache.last_seq \in Nat /\ cache.min_seq \in Nat
  BY DEF TypeOK, CacheRecord
<1> SUFFICES ASSUME cache.built PROVE CacheInv'
  BY <1>0 DEF CacheInv
<1>2. (NotReplaced /\ ~AllOfThisFile(cache.events))' => Len(log') < cache.last_seq
  <2>1. StaleCache' <=> (~AllOfThisFile(cache.events))'
    BY DEF StaleCache, EventsOf, AllOfThisFile
  <2>q. QED BY <1>0, <1>1, <2>1, TornGrows DEF NotReplaced
<1>3. NotCut' => NotCut /\ (cache.events = <<>> => cache.last_seq = 0 /\ cache.min_seq = 0)
  BY <1>0 DEF NotCut, CacheInv
<1>4. ASSUME NotCut, AllOfThisFile(cache.events)
      PROVE  /\ cache.last_seq <= Len(log') /\ cache.min_seq <= lowest'
             /\ \A s \in lowest'..Len(log') : s <= cache.last_seq =>
                  \E i \in DOMAIN cache.events : cache.events[i] = log'[s] /\ i >= s - cache.min_seq + 1
  <2>1. /\ cache.last_seq <= Len(log) /\ cache.min_seq <= lowest
        /\ Holds(cache.events, cache.last_seq, cache.min_seq)
    BY <1>4 DEF CacheInv
  <2>2. \A s \in lowest'..Len(log') : s <= cache.last_seq =>
          \E i \in DOMAIN cache.events : cache.events[i] = log'[s] /\ i >= s - cache.min_seq + 1
    <3> DEFINE es == cache.events
               last == cache.last_seq
               min == cache.min_seq
    <3>1. last \in Nat /\ min \in Nat /\ last <= Len(log) /\ Holds(es, last, min)
      BY <1>1, <2>1
    <3> HIDE DEF es, last, min
    <3>2. \A s \in lowest'..Len(log') : s <= last =>
            \E i \in DOMAIN es : es[i] = log'[s] /\ i >= s - min + 1
      BY <3>1, HoldsKept
    <3>q. QED BY <3>2 DEF es, last, min
  <2>q. QED BY <1>0, <1>1, <2>1, <2>2
<1>5. (AllOfThisFile(cache.events))' = AllOfThisFile(cache.events)
  BY <1>0 DEF AllOfThisFile
<1>q. QED BY <1>0, <1>2, <1>3, <1>4, <1>5 DEF CacheInv, Holds

(* The cache has no row of a file that is new.                               *)
LEMMA OfANewFile ==
  ASSUME TypeOK, GenInv, \A i \in DOMAIN cache.events : cache.events[i].gen = gen + 1
  PROVE  cache.events = <<>>
<1>0. gen \in Nat /\ cache.events \in Seq(Event)
  BY DEF TypeOK, CacheRecord
<1>1. \A i \in DOMAIN cache.events : FALSE
  <2> TAKE i \in DOMAIN cache.events
  <2>1. cache.events[i].gen <= gen /\ cache.events[i].gen = gen + 1
    BY DEF GenInv, NoneOfTheFuture
  <2>q. QED BY <1>0, <2>1
<1>2. Len(cache.events) \in Nat /\ DOMAIN cache.events = 1..Len(cache.events)
  BY <1>0, LenProperties
<1>3. Len(cache.events) = 0
  <2>1. 1 \notin DOMAIN cache.events
    BY <1>1, Zenon
  <2>q. QED BY <1>2, <2>1
<1>q. QED BY <1>0, <1>3, EmptySeq

LEMMA CacheReplace ==
  ASSUME TypeOK, LogInv, GenInv, CacheInv, ReplaceFile
  PROVE  CacheInv'
<1>0. /\ cache' = cache /\ gen' = gen + 1 /\ gen \in Nat /\ torn \subseteq torn'
      /\ Len(log') = 0 /\ lowest' = 1
  BY RecorderKeeps, ReplaceEmpties, TornGrows
<1>1. cache.last_seq \in Nat /\ cache.min_seq \in Nat /\ cache.events \in Seq(Event)
  BY DEF TypeOK, CacheRecord
<1> SUFFICES ASSUME cache.built PROVE CacheInv'
  BY <1>0 DEF CacheInv
<1>2. (NotReplaced /\ ~AllOfThisFile(cache.events))' => Len(log') < cache.last_seq
  <2>1. StaleCache' <=> (~AllOfThisFile(cache.events))'
    BY DEF StaleCache, EventsOf, AllOfThisFile
  <2>q. QED BY <1>0, <1>1, <2>1, TornGrows DEF NotReplaced
<1>3. NotCut' => NotCut /\ (cache.events = <<>> => cache.last_seq = 0 /\ cache.min_seq = 0)
  BY <1>0 DEF NotCut, CacheInv
<1>4. (AllOfThisFile(cache.events))' => cache.events = <<>>
  BY <1>0, OfANewFile DEF AllOfThisFile
<1>5. NotCut' /\ (AllOfThisFile(cache.events))' =>
        /\ cache.last_seq <= 0 /\ cache.min_seq <= 1
        /\ \A s \in 1..0 : s <= cache.last_seq =>
             \E i \in DOMAIN cache.events : cache.events[i] = log'[s] /\ i >= s - cache.min_seq + 1
  BY <1>1, <1>3, <1>4
<1>q. QED BY <1>0, <1>2, <1>3, <1>5 DEF CacheInv, Holds

(* Under a commit and under a new file, the builds go on as before, or are   *)
(* torn by it.                                                               *)
LEMMA BuildRecorder ==
  ASSUME TypeOK, LogInv, LockInv, BuildInv, CommitBatch \/ ReplaceFile
  PROVE  BuildInv'
<1>0. /\ cache' = cache /\ pc' = pc /\ top' = top /\ low' = low /\ seen' = seen /\ ev' = ev
      /\ buildLock' = buildLock /\ torn \subseteq torn'
  BY RecorderKeeps, TornGrows
<1> SUFFICES ASSUME NEW u \in Thread
             PROVE  /\ pc[u] \in {"low", "check", "read"} /\ NotReplaced' => top[u] <= Len(log')
                    /\ pc[u] \in {"check", "read"} /\ NotCut' =>
                         \/ low[u] = lowest' /\ lowest' <= Len(log')
                         \/ low[u] = 0 /\ top[u] = 0
                    /\ pc[u] = "read" => seen[u] = cache /\ ~UpToDate(u)
                    /\ pc[u] = "rebuild" =>
                         /\ seen[u] = cache
                         /\ NotReplaced' => \A i \in DOMAIN ev[u] : ev[u][i].gen = gen'
                         /\ NotCut' =>
                              /\ top[u] <= Len(log') /\ low[u] <= lowest'
                              /\ \A s \in lowest'..Len(log') : s <= top[u] =>
                                   \E i \in DOMAIN ev[u] : ev[u][i] = log'[s] /\ i >= s - low[u] + 1
                              /\ ev[u] = <<>> => top[u] = 0 /\ low[u] = 0
  BY <1>0, Zenon DEF BuildInv, UpToDate, AllOfThisFile, Holds
<1>1. /\ pc[u] = "read" => seen[u] = cache /\ ~UpToDate(u)
      /\ pc[u] = "rebuild" => seen[u] = cache
      /\ pc[u] \in {"low", "check", "read"} /\ NotReplaced => top[u] <= Len(log)
      /\ pc[u] \in {"check", "read"} /\ NotCut =>
           (low[u] = lowest /\ lowest <= Len(log)) \/ (low[u] = 0 /\ top[u] = 0)
      /\ pc[u] = "rebuild" /\ NotReplaced => AllOfThisFile(ev[u])
      /\ pc[u] = "rebuild" /\ NotCut =>
           /\ top[u] <= Len(log) /\ low[u] <= lowest
           /\ Holds(ev[u], top[u], low[u])
           /\ ev[u] = <<>> => top[u] = 0 /\ low[u] = 0
  BY DEF BuildInv
<1>2. NotCut' => NotCut /\ NotReplaced' /\ NotReplaced
  BY <1>0 DEF NotCut, NotReplaced
<1>3. NotReplaced' => NotReplaced
  BY <1>0 DEF NotReplaced
<1>4. /\ pc[u] \in {"low", "check", "read"} => Reading /\ Building
      /\ pc[u] = "rebuild" => Building
  BY DEF LockInv, Locked, Reading, Building
<1>5. top[u] \in Nat /\ low[u] \in Nat /\ lowest \in Nat /\ Len(log) \in Nat
  BY ReadsReturn DEF TypeOK
<1>6. CASE CommitBatch
  <2>1. /\ Len(log') \in Nat /\ Len(log') > Len(log) /\ gen' = gen /\ lowest' \in Nat
        /\ lowest' >= lowest
    BY <1>6, CommitAdds
  <2>2. pc[u] \in {"low", "check", "read"} /\ NotCut' => lowest' = lowest
    <3>1. Reading /\ lowest' > lowest => ~NotCut'
      BY TornGrows DEF NotCut
    <3>q. QED BY <1>4, <1>5, <2>1, <3>1
  <2>3. pc[u] \in {"low", "check", "read"} /\ NotReplaced' => top[u] <= Len(log')
    BY <1>1, <1>3, <1>5, <2>1
  <2>4. pc[u] \in {"check", "read"} /\ NotCut' =>
          (low[u] = lowest' /\ lowest' <= Len(log')) \/ (low[u] = 0 /\ top[u] = 0)
    BY <1>1, <1>2, <1>5, <2>1, <2>2
  <2>5. pc[u] = "rebuild" /\ NotReplaced' => \A i \in DOMAIN ev[u] : ev[u][i].gen = gen'
    BY <1>1, <1>3, <2>1 DEF AllOfThisFile
  <2>6. ASSUME pc[u] = "rebuild", NotCut'
        PROVE  \A s \in lowest'..Len(log') : s <= top[u] =>
                 \E i \in DOMAIN ev[u] : ev[u][i] = log'[s] /\ i >= s - low[u] + 1
    <3>1. top[u] <= Len(log) /\ Holds(ev[u], top[u], low[u])
      BY <1>1, <1>2, <2>6
    <3>q. QED BY <1>5, <1>6, <3>1, HoldsKept, Zenon
  <2>7. pc[u] = "rebuild" /\ NotCut' =>
          /\ top[u] <= Len(log') /\ low[u] <= lowest'
          /\ ev[u] = <<>> => top[u] = 0 /\ low[u] = 0
    BY <1>1, <1>2, <1>5, <2>1
  <2>q. QED BY <1>1, <2>3, <2>4, <2>5, <2>6, <2>7
<1>7. CASE ReplaceFile
  <2>1. gen' # gen
    BY <1>7, ReplaceEmpties
  <2>2. Building => ~NotReplaced'
    BY <2>1, TornGrows DEF NotReplaced
  <2>q. QED BY <1>1, <1>2, <1>4, <2>2
<1>q. QED BY <1>6, <1>7

(* A build that does not start over found a cache of this file, older than   *)
(* the top it goes by.                                                       *)
LEMMA ReadRowsFinds ==
  ASSUME TypeOK, LogInv, CacheInv, BuildInv, NEW t \in Thread, ReadRows(t)
  PROVE  /\ top[t] \in Nat /\ low[t] \in Nat /\ lowest \in Nat /\ lowest >= 1 /\ Len(log) \in Nat
         /\ cache.events \in Seq(Event) /\ cache.last_seq \in Nat /\ cache.min_seq \in Nat
         /\ seen[t] = cache
         /\ NotReplaced => top[t] <= Len(log)
         /\ NotCut => (low[t] = lowest /\ lowest <= Len(log)) \/ (low[t] = 0 /\ top[t] = 0)
         /\ ev'[t] = IF Reset(t) THEN ReadEvents ELSE Kept(t) \o Fresh(t)
         /\ ~Reset(t) /\ NotReplaced =>
              cache.built /\ cache.last_seq < top[t] /\ AllOfThisFile(cache.events)
<1>0. /\ top[t] \in Nat /\ low[t] \in Nat /\ lowest \in Nat
      /\ cache.events \in Seq(Event) /\ cache.last_seq \in Nat /\ cache.min_seq \in Nat
  BY DEF TypeOK, CacheRecord
<1>1. lowest \in 1..(Len(log) + 1) /\ Len(log) \in Nat
  BY ReadsReturn
<1>2. pc[t] = "read"
  BY DEF ReadRows
<1>3. /\ seen[t] = cache /\ ~UpToDate(t)
      /\ NotReplaced => top[t] <= Len(log)
      /\ NotCut => (low[t] = lowest /\ lowest <= Len(log)) \/ (low[t] = 0 /\ top[t] = 0)
  BY <1>2 DEF BuildInv
<1>4. ev'[t] = IF Reset(t) THEN ReadEvents ELSE Kept(t) \o Fresh(t)
  <2>1. ev' = [ev EXCEPT ![t] = IF Reset(t) THEN ReadEvents ELSE Kept(t) \o Fresh(t)]
    BY BuildReturns, Zenon
  <2>2. ev \in [Thread -> Seq(Event)]
    BY DEF TypeOK
  <2>q. QED BY <2>1, <2>2
<1>5. ASSUME ~Reset(t), NotReplaced
      PROVE  cache.built /\ cache.last_seq < top[t] /\ AllOfThisFile(cache.events)
  <2>1. cache.built /\ cache.last_seq <= top[t] /\ cache.last_seq # top[t]
    BY <1>0, <1>3, <1>5 DEF Reset, UpToDate
  <2>2. ~(Len(log) < cache.last_seq)
    BY <1>0, <1>1, <1>3, <1>5, <2>1
  <2>3. AllOfThisFile(cache.events)
    BY <1>5, <2>1, <2>2 DEF CacheInv
  <2>q. QED BY <1>0, <2>1, <2>3
<1>q. QED BY <1>0, <1>1, <1>3, <1>4, <1>5

(* The seq of the first row such a build reads.                              *)
From == IF cache.last_seq + 1 > lowest THEN cache.last_seq + 1 ELSE lowest

LEMMA AppendBuild ==
  ASSUME TypeOK, LogInv, CacheInv, BuildInv, NEW t \in Thread, ReadRows(t), NotCut, ~Reset(t)
  PROVE  /\ top[t] <= Len(log) /\ low[t] = lowest /\ lowest <= Len(log) /\ cache.last_seq < top[t]
         /\ cache.built /\ AllOfThisFile(cache.events)
         /\ cache.min_seq <= lowest /\ Holds(cache.events, cache.last_seq, cache.min_seq)
         /\ From \in Nat /\ From >= lowest /\ From > cache.last_seq /\ From <= Len(log)
         /\ From = lowest \/ (From = cache.last_seq + 1 /\ cache.last_seq >= lowest)
         /\ Trim(t) = lowest - cache.min_seq /\ Trim(t) \in Nat
         /\ Len(cache.events) \in Nat /\ DOMAIN cache.events = 1..Len(cache.events)
         /\ Len(Kept(t)) = (IF Trim(t) < Len(cache.events) THEN Len(cache.events) - Trim(t) ELSE 0)
         /\ \A i \in 1..Len(Kept(t)) : Kept(t)[i] = cache.events[Trim(t) + i]
         /\ Len(Kept(t)) \in Nat
         /\ Len(Fresh(t)) = Len(log) - From + 1 /\ Len(Fresh(t)) \in Nat
         /\ \A i \in 1..Len(Fresh(t)) : Fresh(t)[i] = log[From + i - 1]
         /\ ev'[t] = Kept(t) \o Fresh(t) /\ ev'[t] \in Seq(Event)
         /\ Len(ev'[t]) = Len(Kept(t)) + Len(Fresh(t))
         /\ \A i \in 1..Len(ev'[t]) :
              ev'[t][i] = IF i <= Len(Kept(t)) THEN Kept(t)[i] ELSE Fresh(t)[i - Len(Kept(t))]
<1>0. /\ top[t] \in Nat /\ low[t] \in Nat /\ lowest \in Nat /\ lowest >= 1 /\ Len(log) \in Nat
      /\ cache.events \in Seq(Event) /\ cache.last_seq \in Nat /\ cache.min_seq \in Nat
      /\ seen[t] = cache /\ ev'[t] = Kept(t) \o Fresh(t)
  BY ReadRowsFinds
<1>1. /\ cache.built /\ cache.last_seq < top[t] /\ AllOfThisFile(cache.events) /\ top[t] <= Len(log)
      /\ (low[t] = lowest /\ lowest <= Len(log)) \/ (low[t] = 0 /\ top[t] = 0)
  BY ReadRowsFinds, NotCutNotReplaced
<1>2. low[t] = lowest /\ lowest <= Len(log)
  BY <1>0, <1>1
<1>3. cache.min_seq <= lowest /\ Holds(cache.events, cache.last_seq, cache.min_seq)
  BY <1>1 DEF CacheInv
<1>4. Trim(t) = lowest - cache.min_seq /\ Trim(t) \in Nat
  BY <1>0, <1>2, <1>3 DEF Trim
<1>5. Len(cache.events) \in Nat /\ DOMAIN cache.events = 1..Len(cache.events)
  BY <1>0, LenProperties
<1>6. /\ Len(Kept(t)) = (IF Trim(t) < Len(cache.events) THEN Len(cache.events) - Trim(t) ELSE 0)
      /\ \A i \in 1..Len(Kept(t)) : Kept(t)[i] = cache.events[Trim(t) + i]
  <2>1. Kept(t) = DropFront(cache.events, Trim(t))
    BY <1>0 DEF Kept
  <2>2. Trim(t) \in Nat /\ cache.events \in Seq(Event)
    BY <1>0, <1>4
  <2>3. /\ Len(DropFront(cache.events, Trim(t)))
             = (IF Trim(t) < Len(cache.events) THEN Len(cache.events) - Trim(t) ELSE 0)
        /\ \A i \in 1..Len(DropFront(cache.events, Trim(t))) :
             DropFront(cache.events, Trim(t))[i] = cache.events[Trim(t) + i]
    BY <2>2, DropReturns
  <2>q. QED BY <2>1, <2>3
<1>7. /\ From \in Nat /\ From >= lowest /\ From > cache.last_seq /\ From <= Len(log)
      /\ From = lowest \/ (From = cache.last_seq + 1 /\ cache.last_seq >= lowest)
  BY <1>0, <1>1, <1>2 DEF From
<1>8. /\ Len(Fresh(t)) = Len(log) - From + 1
      /\ \A i \in 1..Len(Fresh(t)) : Fresh(t)[i] = log[From + i - 1]
  <2>1. Fresh(t) = ReadEventsSince(cache.last_seq)
    BY <1>0 DEF Fresh
  <2>2. From = IF cache.last_seq + 1 > lowest THEN cache.last_seq + 1 ELSE lowest
    BY DEF From
  <2>3. /\ Len(ReadEventsSince(cache.last_seq)) = IF From <= Len(log) THEN Len(log) - From + 1 ELSE 0
        /\ \A i \in 1..Len(ReadEventsSince(cache.last_seq)) :
             ReadEventsSince(cache.last_seq)[i] = log[From + i - 1]
    <3>1. From \in Nat /\ cache.last_seq \in Nat
      BY <1>0, <1>7
    <3>q. QED BY <3>1, <2>2, SinceReturns
  <2>4. From <= Len(log)
    BY <1>7
  <2>q. QED BY <2>1, <2>3, <2>4
<1>9. Kept(t) \in Seq(Event) /\ Fresh(t) \in Seq(Event)
  BY BuildReturns
<1>10. Len(Kept(t)) \in Nat /\ Len(Fresh(t)) \in Nat
  BY <1>9, LenProperties
<1>11. /\ ev'[t] \in Seq(Event) /\ Len(ev'[t]) = Len(Kept(t)) + Len(Fresh(t))
       /\ \A i \in 1..Len(ev'[t]) :
            ev'[t][i] = IF i <= Len(Kept(t)) THEN Kept(t)[i] ELSE Fresh(t)[i - Len(Kept(t))]
  BY <1>0, <1>9, ConcatProperties
<1>q. QED BY <1>0, <1>1, <1>2, <1>3, <1>4, <1>5, <1>6, <1>7, <1>8, <1>10, <1>11

(* The rows a build reads: all of them, or what the trim left of the cached  *)
(* ones and every row since, in either case all that its top covers.         *)
LEMMA ReadRowsBuilds ==
  ASSUME TypeOK, LogInv, GenInv, CacheInv, BuildInv, NEW t \in Thread, ReadRows(t)
  PROVE  /\ NotReplaced => AllOfThisFile(ev'[t])
         /\ NotCut => /\ top[t] <= Len(log) /\ low[t] <= lowest
                      /\ Holds(ev'[t], top[t], low[t])
                      /\ (ev'[t] = <<>> => top[t] = 0 /\ low[t] = 0)
<1>0. /\ top[t] \in Nat /\ low[t] \in Nat /\ lowest \in Nat /\ lowest >= 1 /\ Len(log) \in Nat
      /\ cache.events \in Seq(Event) /\ cache.last_seq \in Nat /\ cache.min_seq \in Nat
  BY ReadRowsFinds
<1>1. /\ NotReplaced => top[t] <= Len(log)
      /\ NotCut => (low[t] = lowest /\ lowest <= Len(log)) \/ (low[t] = 0 /\ top[t] = 0)
  BY ReadRowsFinds
<1>2. NotReplaced => AllOfThisFile(ev'[t])
  BY ReadRowsFinds, BuildGens
<1>3. ASSUME NotCut, Reset(t)
      PROVE  Holds(ev'[t], top[t], low[t]) /\ (ev'[t] = <<>> => top[t] = 0 /\ low[t] = 0)
  <2>1. /\ ev'[t] = ReadEvents /\ DOMAIN ReadEvents = 1..Len(ReadEvents)
        /\ Len(ReadEvents) = Len(log) - lowest + 1
        /\ \A i \in 1..Len(ReadEvents) : ReadEvents[i] = log[lowest + i - 1]
    BY <1>3, ReadRowsFinds, ReadsReturn, LenProperties
  <2>2. ASSUME NEW s \in lowest..Len(log), s <= top[t]
        PROVE  \E i \in DOMAIN ReadEvents : ReadEvents[i] = log[s] /\ i >= s - low[t] + 1
    <3>1. s \in Nat /\ s - lowest + 1 \in 1..Len(ReadEvents) /\ lowest + (s - lowest + 1) - 1 = s
      BY <1>0, <2>1
    <3>2. ReadEvents[s - lowest + 1] = log[s]
      BY <2>1, <3>1
    <3>3. s - lowest + 1 >= s - low[t] + 1
      BY <1>0, <1>1, <1>3, <2>2
    <3>q. QED BY <2>1, <3>1, <3>2, <3>3
  <2>3. ReadEvents = <<>> => top[t] = 0 /\ low[t] = 0
    <3> HAVE ReadEvents = <<>>
    <3>1. Len(log) - lowest + 1 = 0
      BY <2>1, EmptySeq
    <3>q. QED BY <1>0, <1>1, <1>3, <3>1
  <2>q. QED BY <2>1, <2>2, <2>3 DEF Holds
<1>4. ASSUME NotCut, ~Reset(t)
      PROVE  Holds(ev'[t], top[t], low[t]) /\ (ev'[t] = <<>> => top[t] = 0 /\ low[t] = 0)
  <2>1. /\ top[t] <= Len(log) /\ low[t] = lowest /\ lowest <= Len(log) /\ cache.last_seq < top[t]
        /\ From \in Nat /\ From >= lowest /\ From > cache.last_seq /\ From <= Len(log)
        /\ From = lowest \/ (From = cache.last_seq + 1 /\ cache.last_seq >= lowest)
        /\ cache.min_seq <= lowest /\ Trim(t) = lowest - cache.min_seq /\ Trim(t) \in Nat
        /\ Len(cache.events) \in Nat /\ DOMAIN cache.events = 1..Len(cache.events)
        /\ Len(Kept(t)) \in Nat /\ Len(Fresh(t)) \in Nat
        /\ Len(Kept(t)) = (IF Trim(t) < Len(cache.events) THEN Len(cache.events) - Trim(t) ELSE 0)
        /\ Len(Fresh(t)) = Len(log) - From + 1
        /\ Len(ev'[t]) = Len(Kept(t)) + Len(Fresh(t))
    BY <1>4, AppendBuild
  <2>2. /\ Holds(cache.events, cache.last_seq, cache.min_seq)
        /\ \A i \in 1..Len(Kept(t)) : Kept(t)[i] = cache.events[Trim(t) + i]
        /\ \A i \in 1..Len(Fresh(t)) : Fresh(t)[i] = log[From + i - 1]
        /\ \A i \in 1..Len(ev'[t]) :
             ev'[t][i] = IF i <= Len(Kept(t)) THEN Kept(t)[i] ELSE Fresh(t)[i - Len(Kept(t))]
    BY <1>4, AppendBuild
  <2>3. ev'[t] \in Seq(Event) /\ DOMAIN ev'[t] = 1..Len(ev'[t])
    BY <1>4, AppendBuild, LenProperties
  <2>4. ASSUME NEW s \in lowest..Len(log), s <= cache.last_seq
        PROVE  \E i \in 1..Len(Kept(t)) : Kept(t)[i] = log[s] /\ i >= s - lowest + 1
    <3>1. PICK i \in DOMAIN cache.events : cache.events[i] = log[s] /\ i >= s - cache.min_seq + 1
      BY <2>2, <2>4 DEF Holds
    <3>2. i \in Nat /\ s \in Nat /\ i <= Len(cache.events) /\ i >= s - cache.min_seq + 1
      BY <1>0, <2>1, <3>1
    <3>3. i > Trim(t)
      BY <1>0, <2>1, <3>2
    <3>4. Len(Kept(t)) = Len(cache.events) - Trim(t)
      BY <2>1, <3>2, <3>3
    <3>5. i - Trim(t) >= s - lowest + 1
      <4>1. lowest \in Nat /\ cache.min_seq \in Nat /\ Trim(t) = lowest - cache.min_seq
        BY <1>0, <2>1
      <4>q. QED BY <4>1, <3>2
    <3>6. i - Trim(t) \in 1..Len(Kept(t)) /\ Trim(t) + (i - Trim(t)) = i
      <4>1. Trim(t) \in Nat /\ Len(cache.events) \in Nat
        BY <2>1
      <4>q. QED BY <4>1, <3>2, <3>3, <3>4
    <3>7. Kept(t)[i - Trim(t)] = log[s]
      BY <2>2, <3>1, <3>6
    <3>q. QED BY <3>5, <3>6, <3>7
  <2>5. Len(Kept(t)) >= From - lowest
    <3>0. Len(Kept(t)) \in Nat /\ lowest \in Nat /\ cache.last_seq \in Nat
      BY <1>0, <2>1
    <3>1. CASE From = lowest
      BY <3>0, <3>1
    <3>2. CASE From = cache.last_seq + 1 /\ cache.last_seq >= lowest
      <4>1. cache.last_seq \in lowest..Len(log) /\ cache.last_seq <= cache.last_seq
        <5>1. From <= Len(log) /\ Len(log) \in Nat
          BY <1>0, <2>1
        <5>q. QED BY <5>1, <3>0, <3>2
      <4>2. PICK i \in 1..Len(Kept(t)) : i >= cache.last_seq - lowest + 1
        BY <2>4, <4>1
      <4>q. QED BY <3>0, <3>2, <4>2
    <3>3. From = lowest \/ (From = cache.last_seq + 1 /\ cache.last_seq >= lowest)
      BY <2>1
    <3>q. QED BY <3>1, <3>2, <3>3
  <2>6. ASSUME NEW s \in lowest..Len(log), s <= top[t]
        PROVE  \E i \in 1..Len(ev'[t]) : ev'[t][i] = log[s] /\ i >= s - low[t] + 1
    <3>1. CASE s <= cache.last_seq
      <4>1. PICK i \in 1..Len(Kept(t)) : Kept(t)[i] = log[s] /\ i >= s - lowest + 1
        BY <2>4, <3>1
      <4>2. i \in 1..Len(ev'[t]) /\ i <= Len(Kept(t)) /\ i >= s - low[t] + 1
        <5>1. /\ Len(Kept(t)) \in Nat /\ Len(Fresh(t)) \in Nat /\ low[t] = lowest
              /\ Len(ev'[t]) = Len(Kept(t)) + Len(Fresh(t))
          BY <2>1
        <5>q. QED BY <5>1, <4>1
      <4>3. ev'[t][i] = log[s]
        BY <2>2, <4>1, <4>2
      <4>q. QED BY <4>2, <4>3
    <3>2. CASE ~(s <= cache.last_seq)
      <4> DEFINE j == s - From + 1
                 i == Len(Kept(t)) + j
      <4>0. s >= From /\ s \in Nat
        <5>1. lowest \in Nat /\ Len(log) \in Nat /\ cache.last_seq \in Nat
          BY <1>0
        <5>2. s \in Nat /\ s >= lowest /\ s > cache.last_seq
          BY <5>1, <3>2
        <5>3. From = lowest \/ From = cache.last_seq + 1
          BY <2>1
        <5>q. QED BY <5>1, <5>2, <5>3
      <4>1. j \in 1..Len(Fresh(t)) /\ From + j - 1 = s
        BY <1>0, <2>1, <4>0
      <4>2. i \in 1..Len(ev'[t]) /\ ~(i <= Len(Kept(t))) /\ i - Len(Kept(t)) = j
        <5>1. /\ Len(Kept(t)) \in Nat /\ Len(Fresh(t)) \in Nat
              /\ Len(ev'[t]) = Len(Kept(t)) + Len(Fresh(t))
          BY <2>1
        <5> HIDE DEF j
        <5>q. QED BY <5>1, <4>1
      <4>3. i >= s - low[t] + 1
        BY <1>0, <2>1, <2>5, <4>0
      <4> HIDE DEF i, j
      <4>4. ev'[t][i] = Fresh(t)[j]
        BY <2>2, <4>2
      <4>5. Fresh(t)[j] = log[s]
        BY <2>2, <4>1
      <4>q. QED BY <4>2, <4>3, <4>4, <4>5
    <3>q. QED BY <3>1, <3>2
  <2>7. ev'[t] # <<>>
    <3>1. Len(ev'[t]) # 0
      BY <1>0, <2>1
    <3>q. QED BY <3>1, EmptySeq
  <2>q. QED BY <2>3, <2>6, <2>7 DEF Holds
<1>5. NotCut => top[t] <= Len(log) /\ low[t] <= lowest
  BY <1>0, <1>1, NotCutNotReplaced
<1>q. QED BY <1>2, <1>3, <1>4, <1>5

LEMMA CacheThread ==
  ASSUME TypeOK, CacheInv, BuildInv, NEW t \in Thread, AnyRequest(t) \/ Serve(t) \/ Rest(t)
  PROVE  CacheInv'
<1>0. log' = log /\ lowest' = lowest /\ gen' = gen /\ torn' = torn
  BY OthersKeep
<1>1. CASE Publish(t)
  <2>1. /\ pc[t] = "rebuild"
        /\ cache'.built /\ cache'.events = ev[t] /\ cache'.last_seq = top[t] /\ cache'.min_seq = low[t]
    BY <1>1 DEF Publish
  <2>2. /\ NotReplaced => AllOfThisFile(ev[t])
        /\ NotCut => /\ top[t] <= Len(log) /\ low[t] <= lowest
                     /\ Holds(ev[t], top[t], low[t])
                     /\ (ev[t] = <<>> => top[t] = 0 /\ low[t] = 0)
    BY <2>1 DEF BuildInv
  <2>3. NotReplaced' = NotReplaced /\ NotCut' = NotCut
    BY <1>0 DEF NotReplaced, NotCut
  <2>4. (AllOfThisFile(cache.events))' = AllOfThisFile(ev[t])
    BY <1>0, <2>1 DEF AllOfThisFile
  <2>5. (Holds(cache.events, cache.last_seq, cache.min_seq))' = Holds(ev[t], top[t], low[t])
    BY <1>0, <2>1, Zenon DEF Holds
  <2>q. QED BY <1>0, <2>1, <2>2, <2>3, <2>4, <2>5, Zenon DEF CacheInv
<1>2. CASE ~Publish(t)
  <2>1. cache' = cache
    BY <1>2 DEF AnyRequest, Request, Serve, Load, ReadTop, HotPath, TakeBuildLock, RereadTop, ReadLow,
                Check, ReadRows, Fail, View, Slice, Rest
  <2>q. QED BY <1>0, <2>1, Zenon DEF CacheInv, NotReplaced, NotCut, AllOfThisFile, Holds
<1>q. QED BY <1>1, <1>2

LEMMA BuildThread ==
  ASSUME TypeOK, LogInv, GenInv, LockInv, CacheInv, BuildInv,
         NEW t \in Thread, AnyRequest(t) \/ Serve(t) \/ Rest(t)
  PROVE  BuildInv'
<1> DEFINE After(u) ==
      /\ pc'[u] \in {"low", "check", "read"} /\ NotReplaced => top'[u] <= Len(log)
      /\ pc'[u] \in {"check", "read"} /\ NotCut =>
           (low'[u] = lowest /\ lowest <= Len(log)) \/ (low'[u] = 0 /\ top'[u] = 0)
      /\ pc'[u] = "read" => seen'[u] = cache' /\ ~(cache'.built /\ top'[u] = cache'.last_seq)
      /\ pc'[u] = "rebuild" =>
           /\ seen'[u] = cache'
           /\ NotReplaced => AllOfThisFile(ev'[u])
           /\ NotCut => /\ top'[u] <= Len(log) /\ low'[u] <= lowest
                        /\ Holds(ev'[u], top'[u], low'[u])
                        /\ (ev'[u] = <<>> => top'[u] = 0 /\ low'[u] = 0)
<1>0. Others(t) /\ log' = log /\ lowest' = lowest /\ gen' = gen /\ torn' = torn
  BY OthersKeep
<1>1. cache' = cache \/ (Publish(t) /\ pc[t] = "rebuild")
  BY DEF AnyRequest, Request, Serve, Load, ReadTop, HotPath, TakeBuildLock, RereadTop, ReadLow,
         Check, ReadRows, Publish, Fail, View, Slice, Rest
<1>2. ASSUME NEW u \in Thread, u # t PROVE After(u)
  <2>1. /\ pc[u] \in {"low", "check", "read"} /\ NotReplaced => top[u] <= Len(log)
        /\ pc[u] \in {"check", "read"} /\ NotCut =>
             (low[u] = lowest /\ lowest <= Len(log)) \/ (low[u] = 0 /\ top[u] = 0)
        /\ pc[u] = "read" => seen[u] = cache /\ ~(cache.built /\ top[u] = cache.last_seq)
        /\ pc[u] = "rebuild" =>
             /\ seen[u] = cache
             /\ NotReplaced => AllOfThisFile(ev[u])
             /\ NotCut => /\ top[u] <= Len(log) /\ low[u] <= lowest
                          /\ Holds(ev[u], top[u], low[u])
                          /\ (ev[u] = <<>> => top[u] = 0 /\ low[u] = 0)
    BY Zenon DEF BuildInv, UpToDate
  <2>2. /\ pc'[u] = pc[u] /\ top'[u] = top[u] /\ low'[u] = low[u] /\ seen'[u] = seen[u] /\ ev'[u] = ev[u]
    BY <1>0, <1>2 DEF Others
  <2>3. CASE cache' = cache
    BY <2>1, <2>2, <2>3, Zenon
  <2>4. CASE pc[t] = "rebuild"
    <3>1. pc[u] \notin {"low", "check", "read", "rebuild"}
      BY <1>2, <2>4 DEF LockInv, Locked
    <3>q. QED BY <2>2, <3>1
  <2>q. QED BY <1>1, <2>3, <2>4
<1>3. ASSUME pc'[t] \notin {"low", "check", "read", "rebuild"} PROVE After(t)
  BY <1>3
<1>4. ASSUME AnyRequest(t) \/ Rest(t) \/ ReadTop(t) \/ HotPath(t) \/ TakeBuildLock(t) \/ Fail(t) PROVE After(t)
  <2>1. pc'[t] \in {"top", "idle", "hot", "answered", "view", "lock", "retop", "failed"}
    BY <1>4, LoadedLeaves DEF AnyRequest, Request, Rest, ReadTop, HotPath, TakeBuildLock, Fail, Goto, TypeOK
  <2>2. pc'[t] \notin {"low", "check", "read", "rebuild"}
    BY <2>1
  <2> HIDE DEF After
  <2>q. QED BY <1>3, <2>2
<1>5. ASSUME View(t) \/ Slice(t) \/ Publish(t) PROVE After(t)
  <2>1. pc'[t] \in {"answered", "view", "slice"}
    BY <1>5, LoadedLeaves DEF View, Slice, Publish, Goto, TypeOK
  <2>2. pc'[t] \notin {"low", "check", "read", "rebuild"}
    BY <2>1
  <2> HIDE DEF After
  <2>q. QED BY <1>3, <2>2
<1>6. ASSUME RereadTop(t) PROVE After(t)
  <2>1. pc'[t] = "low" /\ top'[t] = MaxSeq
    BY <1>6 DEF RereadTop, Goto, TypeOK
  <2>2. MaxSeq <= Len(log)
    BY ReadsReturn DEF MaxSeq
  <2>q. QED BY <2>1, <2>2
<1>7. ASSUME ReadLow(t) PROVE After(t)
  <2>1. pc[t] = "low" /\ pc'[t] = "check" /\ top'[t] = top[t] /\ low'[t] = MinSeq
    BY <1>7 DEF ReadLow, Goto, TypeOK
  <2>2. NotReplaced => top[t] <= Len(log)
    BY <2>1 DEF BuildInv
  <2>3. NotCut => (MinSeq = lowest /\ lowest <= Len(log)) \/ (MinSeq = 0 /\ top[t] = 0)
    <3>1. lowest \in 1..(Len(log) + 1) /\ Len(log) \in Nat /\ (lowest > Len(log) => Len(log) = 0)
      BY ReadsReturn, EmptySeq DEF LogInv
    <3>2. top[t] \in Nat
      BY DEF TypeOK
    <3>q. QED BY <2>2, <3>1, <3>2, NotCutNotReplaced DEF MinSeq
  <2>q. QED BY <2>1, <2>2, <2>3
<1>8. ASSUME Check(t) PROVE After(t)
  <2>1. CASE Loaded(t, cache.events)
    <3>1. pc'[t] \in {"answered", "view"}
      BY <2>1, LoadedLeaves
    <3>2. pc'[t] \notin {"low", "check", "read", "rebuild"}
      BY <3>1
    <3> HIDE DEF After
    <3>q. QED BY <1>3, <3>2
  <2>2. CASE ~Loaded(t, cache.events)
    <3>1. /\ pc[t] = "check" /\ pc'[t] = "read" /\ top' = top /\ low'[t] = low[t] /\ seen'[t] = cache
          /\ cache' = cache /\ ~UpToDate(t)
      BY <1>8, <2>2 DEF Check, Goto, TypeOK
    <3>2. /\ NotReplaced => top[t] <= Len(log)
          /\ NotCut => (low[t] = lowest /\ lowest <= Len(log)) \/ (low[t] = 0 /\ top[t] = 0)
      BY <3>1 DEF BuildInv
    <3>3. ~(cache'.built /\ top'[t] = cache'.last_seq)
      BY <3>1 DEF UpToDate
    <3>q. QED BY <3>1, <3>2, <3>3
  <2>q. QED BY <2>1, <2>2
<1>9. ASSUME ReadRows(t) PROVE After(t)
  <2>1. /\ pc[t] = "read" /\ pc'[t] = "rebuild" /\ top' = top /\ low' = low /\ seen' = seen /\ cache' = cache
    BY <1>9 DEF ReadRows, Goto, TypeOK
  <2>2. seen[t] = cache
    BY <2>1 DEF BuildInv
  <2>3. /\ NotReplaced => AllOfThisFile(ev'[t])
        /\ NotCut => /\ top[t] <= Len(log) /\ low[t] <= lowest
                     /\ Holds(ev'[t], top[t], low[t])
                     /\ (ev'[t] = <<>> => top[t] = 0 /\ low[t] = 0)
    BY <1>9, ReadRowsBuilds
  <2>4. pc'[t] \notin {"low", "check", "read"}
    BY <2>1
  <2>q. QED BY <2>1, <2>2, <2>3, <2>4, Zenon
<1>10. After(t)
  <2> HIDE DEF After
  <2>q. QED BY <1>4, <1>5, <1>6, <1>7, <1>8, <1>9 DEF Serve, Load
<1>11. \A u \in Thread : After(u)
  <2> HIDE DEF After
  <2>q. QED BY <1>2, <1>10, Zenon
<1>q. QED BY <1>0, <1>11, Zenon DEF BuildInv, UpToDate, NotReplaced, NotCut, AllOfThisFile, Holds
-----------------------------------------------------------------------------
(* What a request is due. *)

(* A row that came after the request is not due to it.                       *)
LEMMA NewRowsNotDue ==
  ASSUME TypeOK, LogInv, GenInv, CommitBatch, NEW u \in Thread,
         NEW s \in lowest'..Len(log'), log'[s] \in due[u]
  PROVE  s \in lowest..Len(log) /\ log'[s] = log[s]
<1>1. /\ Len(log) \in Nat /\ Len(log') \in Nat /\ lowest \in Nat /\ lowest >= 1
      /\ lowest' \in Nat /\ lowest' >= lowest
  <2>1. lowest \in 1..(Len(log) + 1) /\ Len(log) \in Nat
    BY ReadsReturn
  <2>2. lowest' \in Nat /\ lowest' >= lowest /\ Len(log') \in Nat
    BY CommitAdds
  <2>q. QED BY <2>1, <2>2
<1>2. CASE s <= Len(log)
  <2>1. s \in 1..Len(log) /\ s \in lowest..Len(log)
    BY <1>1, <1>2
  <2>q. QED BY <2>1, CommitAdds
<1>3. CASE ~(s <= Len(log))
  <2>1. s \in (Len(log) + 1)..Len(log')
    BY <1>1, <1>3
  <2>2. log'[s].gen = gen /\ log'[s].seq = s
    BY <2>1, CommitAdds
  <2>3. s <= Len(log)
    BY <2>2 DEF GenInv
  <2>q. QED BY <1>3, <2>3
<1>q. QED BY <1>2, <1>3

LEMMA DueRecorder ==
  ASSUME TypeOK, LogInv, GenInv, DueInv, CommitBatch \/ ReplaceFile
  PROVE  DueInv'
<1>0. /\ cache' = cache /\ pc' = pc /\ top' = top /\ want' = want /\ ev' = ev /\ due' = due
      /\ asked' = asked /\ torn \subseteq torn'
  BY RecorderKeeps, TornGrows
<1>1. (NotCut' => NotCut) /\ (NotReplaced' => NotReplaced)
  BY <1>0 DEF NotCut, NotReplaced
<1>2. ASSUME NEW u \in Thread
      PROVE  /\ \A s \in lowest'..Len(log') : log'[s] \in due[u] => s \in lowest..Len(log) /\ log'[s] = log[s]
             /\ (top[u] <= Len(log) \/ \A e \in due[u] : e.gen < gen) =>
                  (top[u] <= Len(log') \/ \A e \in due[u] : e.gen < gen')
  <2>0. top[u] \in Nat /\ Len(log) \in Nat /\ gen \in Nat
    BY ReadsReturn DEF TypeOK
  <2>1. CASE CommitBatch
    <3>1. gen' = gen /\ Len(log') \in Nat /\ Len(log') > Len(log)
      BY <2>1, CommitAdds
    <3>2. top[u] <= Len(log) => top[u] <= Len(log')
      BY <2>0, <3>1
    <3>q. QED BY <2>1, <3>1, <3>2, NewRowsNotDue
  <2>2. CASE ReplaceFile
    <3>1. gen' = gen + 1 /\ lowest' = 1 /\ Len(log') = 0
      BY <2>2, ReplaceEmpties
    <3>2. \A e \in due[u] : e.gen \in Nat /\ e.gen <= gen
      <4>1. due[u] \subseteq Event
        BY DEF TypeOK
      <4>2. \A e \in Event : e.gen \in Nat
        BY DEF Event
      <4>q. QED BY <4>1, <4>2 DEF GenInv
    <3>3. \A e \in due[u] : e.gen < gen'
      BY <2>0, <3>1, <3>2
    <3>q. QED BY <3>1, <3>3
  <2>q. QED BY <2>1, <2>2
<1>3. ASSUME NEW u \in Thread
      PROVE  /\ pc[u] \in Asking \cup {"read", "rebuild"} =>
                  /\ \A s \in lowest'..Len(log') : log'[s] \in due[u] => s <= top[u]
                  /\ top[u] <= Len(log') \/ \A e \in due[u] : e.gen < gen'
             /\ pc[u] \in Asking /\ NotReplaced' /\ cache.built /\ top[u] >= cache.last_seq =>
                  \A i \in DOMAIN cache.events : cache.events[i].gen >= asked[u]
             /\ pc[u] = "answered" /\ want[u] = Now =>
                  /\ NotCut' => \A s \in lowest'..Len(log') : log'[s] \in due[u] =>
                                 \E i \in DOMAIN ev[u] : ev[u][i] = log'[s]
                  /\ NotReplaced' => \A i \in DOMAIN ev[u] : ev[u][i].gen >= asked[u]
  BY <1>1, <1>2, Zenon DEF DueInv
<1>q. QED BY <1>0, <1>3, Zenon DEF DueInv

(* The cache is up to date by the top a request read: it is what is due.     *)
LEMMA UpToDateServes ==
  ASSUME TypeOK, LogInv, GenInv, CacheInv, DueInv, NEW t \in Thread,
         pc[t] \in Asking, UpToDate(t)
  PROVE  /\ NotCut => \A s \in lowest..Len(log) : log[s] \in due[t] =>
                         \E i \in DOMAIN cache.events : cache.events[i] = log[s]
         /\ NotReplaced => \A i \in DOMAIN cache.events : cache.events[i].gen >= asked[t]
<1>0. cache.built /\ top[t] = cache.last_seq /\ top[t] \in Nat /\ Len(log) \in Nat /\ gen \in Nat
      /\ lowest \in 1..(Len(log) + 1)
  BY ReadsReturn DEF UpToDate, TypeOK
<1>1. NotReplaced => \A i \in DOMAIN cache.events : cache.events[i].gen >= asked[t]
  BY <1>0 DEF DueInv
<1>2. ASSUME NotCut, NEW s \in lowest..Len(log), log[s] \in due[t]
      PROVE  \E i \in DOMAIN cache.events : cache.events[i] = log[s]
  <2>1. s <= cache.last_seq
    BY <1>0, <1>2 DEF DueInv
  <2>2. AllOfThisFile(cache.events)
    <3> SUFFICES ASSUME ~AllOfThisFile(cache.events) PROVE FALSE
      OBVIOUS
    <3>1. Len(log) < top[t]
      BY <1>0, <1>2, NotCutNotReplaced DEF CacheInv
    <3>2. \A e \in due[t] : e.gen < gen
      BY <1>0, <3>1 DEF DueInv
    <3>3. log[s].gen = gen
      BY <1>0 DEF LogInv
    <3>q. QED BY <1>0, <1>2, <3>2, <3>3
  <2>3. Holds(cache.events, cache.last_seq, cache.min_seq)
    BY <1>0, <1>2, <2>2 DEF CacheInv
  <2>q. QED BY <2>1, <2>3 DEF Holds
<1>q. QED BY <1>1, <1>2

LEMMA DueThread ==
  ASSUME TypeOK, LogInv, GenInv, SliceInv, CacheInv, BuildInv, DueInv,
         NEW t \in Thread, AnyRequest(t) \/ Serve(t) \/ Rest(t)
  PROVE  DueInv'
<1> DEFINE Covered(d, n) ==
             /\ \A s \in lowest..Len(log) : log[s] \in d => s <= n
             /\ n <= Len(log) \/ \A e \in d : e.gen < gen
           NotOlder(c, n, a) ==
             NotReplaced /\ c.built /\ n >= c.last_seq => \A i \in DOMAIN c.events : c.events[i].gen >= a
           Answers(es, d, a) ==
             /\ NotCut => \A s \in lowest..Len(log) : log[s] \in d => \E i \in DOMAIN es : es[i] = log[s]
             /\ NotReplaced => \A i \in DOMAIN es : es[i].gen >= a
           After(u) ==
             /\ pc'[u] \in Asking \cup {"read", "rebuild"} => Covered(due'[u], top'[u])
             /\ pc'[u] \in Asking => NotOlder(cache', top'[u], asked'[u])
             /\ pc'[u] = "answered" /\ want'[u] = Now => Answers(ev'[u], due'[u], asked'[u])
<1>0. Others(t) /\ log' = log /\ lowest' = lowest /\ gen' = gen /\ torn' = torn
  BY OthersKeep
<1>1. ASSUME NEW u \in Thread
      PROVE  /\ pc[u] \in Asking \cup {"read", "rebuild"} => Covered(due[u], top[u])
             /\ pc[u] \in Asking => NotOlder(cache, top[u], asked[u])
             /\ pc[u] = "answered" /\ want[u] = Now => Answers(ev[u], due[u], asked[u])
  BY DEF DueInv
<1>2. gen \in Nat /\ \A u \in Thread : asked[u] \in Nat /\ asked[u] <= gen
  BY DEF TypeOK, GenInv
<1>3. \A es : \A u \in Thread : AllOfThisFile(es) => \A i \in DOMAIN es : es[i].gen >= asked[u]
  BY <1>2 DEF AllOfThisFile
<1>4. ASSUME NEW u \in Thread, u # t PROVE After(u)
  <2>1. /\ pc'[u] = pc[u] /\ want'[u] = want[u] /\ top'[u] = top[u] /\ ev'[u] = ev[u]
        /\ due'[u] = due[u] /\ asked'[u] = asked[u]
    BY <1>0, <1>4 DEF Others
  <2>2. NotOlder(cache, top[u], asked[u]) => NotOlder(cache', top[u], asked[u])
    <3>1. CASE Publish(t)
      <4>1. pc[t] = "rebuild" /\ cache'.events = ev[t]
        BY <3>1 DEF Publish
      <4>2. NotReplaced => AllOfThisFile(ev[t])
        BY <4>1 DEF BuildInv
      <4>q. QED BY <1>3, <4>1, <4>2
    <3>2. CASE ~Publish(t)
      <4>1. cache' = cache
        BY <3>2 DEF AnyRequest, Request, Serve, Load, ReadTop, HotPath, TakeBuildLock, RereadTop, ReadLow,
                    Check, ReadRows, Fail, View, Slice, Rest
      <4>q. QED BY <4>1
    <3>q. QED BY <3>1, <3>2
  <2> HIDE DEF Covered, NotOlder, Answers
  <2>q. QED BY <1>1, <2>1, <2>2
<1>5. ASSUME pc'[t] \notin Asking \cup {"read", "rebuild", "answered"} PROVE After(t)
  <2> HIDE DEF Covered, NotOlder, Answers
  <2>q. QED BY <1>5 DEF Asking
<1>6. ASSUME NEW es, Loaded(t, es), Answers(es, due[t], asked[t]) PROVE After(t)
  <2>1. /\ pc'[t] \in {"answered", "view"} /\ want'[t] = want[t] /\ ev'[t] = es
        /\ due'[t] = due[t] /\ asked'[t] = asked[t]
    BY <1>6, LoadedLeaves
  <2> HIDE DEF Covered, NotOlder, Answers
  <2>q. QED BY <1>6, <2>1 DEF Asking
<1>7. ASSUME pc[t] \in Asking, pc'[t] \in Asking \cup {"read"}, top'[t] = top[t],
             cache' = cache, due'[t] = due[t], asked'[t] = asked[t]
      PROVE  After(t)
  <2> HIDE DEF Covered, NotOlder, Answers
  <2>q. QED BY <1>1, <1>7 DEF Asking
<1>8. ASSUME AnyRequest(t) \/ Rest(t) \/ Fail(t) PROVE After(t)
  <2>1. pc'[t] \in {"top", "idle", "failed"}
    BY <1>8 DEF AnyRequest, Request, Rest, Fail, Goto, TypeOK
  <2>2. pc'[t] \notin Asking \cup {"read", "rebuild", "answered"}
    BY <2>1 DEF Asking
  <2> HIDE DEF After
  <2>q. QED BY <1>5, <2>2
<1>9. ASSUME View(t) \/ Slice(t) PROVE After(t)
  <2>1. pc[t] \in {"view", "slice"} /\ pc'[t] \in {"answered", "slice"} /\ want'[t] = want[t]
    BY <1>9 DEF View, Slice, Goto, TypeOK
  <2>2. want[t] # Now
    BY <2>1 DEF SliceInv
  <2> HIDE DEF Covered, NotOlder, Answers
  <2>q. QED BY <2>1, <2>2 DEF Asking
<1>10. ASSUME ReadTop(t) \/ RereadTop(t) PROVE After(t)
  <2>1. /\ pc'[t] \in {"hot", "low"} /\ top'[t] = MaxSeq /\ cache' = cache /\ due'[t] = due[t] /\ asked'[t] = asked[t]
    BY <1>10 DEF ReadTop, RereadTop, Goto, history, TypeOK
  <2>2. /\ MaxSeq \in Nat /\ MaxSeq <= Len(log) /\ Len(log) \in Nat
        /\ \A s \in lowest..Len(log) : s <= MaxSeq
    BY ReadsReturn DEF MaxSeq
  <2>3. Covered(due[t], MaxSeq)
    BY <2>2
  <2>4. NotOlder(cache, MaxSeq, asked[t])
    <3> SUFFICES ASSUME NotReplaced, cache.built, MaxSeq >= cache.last_seq
                 PROVE  \A i \in DOMAIN cache.events : cache.events[i].gen >= asked[t]
      OBVIOUS
    <3>1. cache.last_seq \in Nat
      BY DEF TypeOK, CacheRecord
    <3>2. ~(Len(log) < cache.last_seq)
      BY <2>2, <3>1
    <3>3. AllOfThisFile(cache.events)
      BY <3>2 DEF CacheInv
    <3>q. QED BY <1>3, <3>3
  <2> HIDE DEF Covered, NotOlder, Answers
  <2>q. QED BY <2>1, <2>3, <2>4 DEF Asking
<1>11. ASSUME TakeBuildLock(t) \/ ReadLow(t) PROVE After(t)
  <2>1. /\ pc[t] \in Asking /\ pc'[t] \in Asking \cup {"read"} /\ top'[t] = top[t] /\ cache' = cache
        /\ due'[t] = due[t] /\ asked'[t] = asked[t]
    BY <1>11 DEF TakeBuildLock, ReadLow, Goto, locals, history, TypeOK, Asking
  <2> HIDE DEF After
  <2>q. QED BY <1>7, <2>1
<1>12. ASSUME HotPath(t) \/ Check(t) PROVE After(t)
  <2>0. pc[t] \in Asking
    BY <1>12 DEF HotPath, Check, Asking
  <2>1. CASE UpToDate(t)
    <3>1. Loaded(t, cache.events)
      BY <1>12, <2>1 DEF HotPath, Check
    <3>2. Answers(cache.events, due[t], asked[t])
      BY <2>0, <2>1, UpToDateServes
    <3> HIDE DEF After, Answers
    <3>q. QED BY <1>6, <3>1, <3>2
  <2>2. CASE ~UpToDate(t)
    <3>1. /\ pc'[t] \in Asking \cup {"read"} /\ top'[t] = top[t] /\ cache' = cache
          /\ due'[t] = due[t] /\ asked'[t] = asked[t]
      BY <1>12, <2>2 DEF HotPath, Check, Goto, locals, history, TypeOK, Asking
    <3> HIDE DEF After
    <3>q. QED BY <1>7, <2>0, <3>1
  <2>q. QED BY <2>1, <2>2
<1>13. ASSUME ReadRows(t) PROVE After(t)
  <2>1. pc[t] = "read" /\ pc'[t] = "rebuild" /\ top' = top /\ due' = due
    BY <1>13 DEF ReadRows, Goto, history, TypeOK
  <2> HIDE DEF Covered, NotOlder, Answers
  <2>q. QED BY <1>1, <2>1 DEF Asking
<1>14. ASSUME Publish(t) PROVE After(t)
  <2>1. pc[t] = "rebuild" /\ Loaded(t, ev[t])
    BY <1>14 DEF Publish
  <2>2. /\ NotReplaced => AllOfThisFile(ev[t])
        /\ NotCut => Holds(ev[t], top[t], low[t])
        /\ Covered(due[t], top[t])
    BY <1>1, <2>1 DEF BuildInv
  <2>3. Answers(ev[t], due[t], asked[t])
    BY <1>3, <2>2 DEF Holds
  <2> HIDE DEF After, Answers
  <2>q. QED BY <1>6, <2>1, <2>3
<1>15. \A u \in Thread : After(u)
  <2>1. After(t)
    <3> HIDE DEF After
    <3>q. QED BY <1>8, <1>9, <1>10, <1>11, <1>12, <1>13, <1>14 DEF Serve, Load
  <2> HIDE DEF After
  <2>q. QED BY <1>4, <2>1, Zenon
<1>16. ASSUME NEW u \in Thread
       PROVE  /\ pc'[u] \in Asking \cup {"read", "rebuild"} =>
                   /\ \A s \in lowest..Len(log) : log[s] \in due'[u] => s <= top'[u]
                   /\ top'[u] <= Len(log) \/ \A e \in due'[u] : e.gen < gen
              /\ pc'[u] \in Asking /\ NotReplaced /\ cache'.built /\ top'[u] >= cache'.last_seq =>
                   \A i \in DOMAIN cache'.events : cache'.events[i].gen >= asked'[u]
              /\ pc'[u] = "answered" /\ want'[u] = Now =>
                   /\ NotCut => \A s \in lowest..Len(log) : log[s] \in due'[u] =>
                                 \E i \in DOMAIN ev'[u] : ev'[u][i] = log[s]
                   /\ NotReplaced => \A i \in DOMAIN ev'[u] : ev'[u][i].gen >= asked'[u]
  <2>1. After(u)
    <3> HIDE DEF After
    <3>q. QED BY <1>15
  <2>q. QED BY <2>1
<1>17. (NotReplaced' <=> NotReplaced) /\ (NotCut' <=> NotCut)
  BY <1>0 DEF NotReplaced, NotCut
<1>q. QED BY <1>0, <1>16, <1>17, SMT DEF DueInv
-----------------------------------------------------------------------------
(* What the cache holds as long as no build is torn. *)

(* A stretch of the log.                                                     *)
LEMMA BetweenReturns ==
  ASSUME TypeOK, NEW a \in Nat, a >= 1, NEW b \in Nat, b <= Len(log)
  PROVE  /\ SubSeq(log, a, b) \in Seq(Event)
         /\ Len(SubSeq(log, a, b)) = IF a <= b THEN b - a + 1 ELSE 0
         /\ \A i \in 1..Len(SubSeq(log, a, b)) : SubSeq(log, a, b)[i] = log[a + i - 1]
<1>1. log \in Seq(Event) /\ Len(log) \in Nat
  BY DEF TypeOK
<1>2. \A i \in a..b : log[i] \in Event
  BY <1>1, ElementOfSeq
<1>q. QED BY <1>1, <1>2, SubSeqProperties

(* With no commit since its first read, a build makes the stretch of the log *)
(* that is in the store, exactly: the cached rows that are left after the    *)
(* trim end where the rows since begin.                                      *)
LEMMA ReadRowsExact ==
  ASSUME TypeOK, LogInv, CacheInv, BuildInv, ExactInv, NEW t \in Thread, ReadRows(t), torn = {}
  PROVE  InOrder(low[t], top[t]) /\ ev'[t] = RowsBetween(low[t], top[t])
<1>0. /\ top[t] \in Nat /\ low[t] \in Nat /\ lowest \in Nat /\ lowest >= 1 /\ Len(log) \in Nat
      /\ cache.events \in Seq(Event) /\ cache.last_seq \in Nat /\ cache.min_seq \in Nat
  BY ReadRowsFinds
<1>1. top[t] = MaxSeq /\ low[t] = MinSeq /\ NotCut
  BY DEF ReadRows, ExactInv, NotCut
<1>2. CASE Reset(t)
  <2>1. ev'[t] = SubSeq(log, lowest, Len(log))
    BY <1>2, ReadRowsFinds DEF ReadEvents
  <2>2. CASE lowest > Len(log)
    <3>1. lowest = 1 /\ Len(log) = 0
      BY <1>0, <2>2, EmptySeq DEF LogInv
    <3>2. top[t] = 0 /\ low[t] = 0
      BY <1>1, <2>2 DEF MaxSeq, MinSeq
    <3>q. QED BY <2>1, <3>1, <3>2 DEF InOrder, RowsBetween
  <2>3. CASE ~(lowest > Len(log))
    <3>1. top[t] = Len(log) /\ low[t] = lowest
      BY <1>1, <2>3 DEF MaxSeq, MinSeq
    <3>2. InOrder(low[t], top[t]) /\ low[t] # 0
      BY <1>0, <2>3, <3>1 DEF InOrder
    <3>q. QED BY <2>1, <3>1, <3>2 DEF RowsBetween
  <2>q. QED BY <2>2, <2>3
<1>3. CASE ~Reset(t)
  <2> DEFINE m == IF cache.min_seq = 0 THEN 1 ELSE cache.min_seq
             last == cache.last_seq
  <2>1. /\ low[t] = lowest /\ lowest <= Len(log) /\ last < top[t]
        /\ cache.built /\ AllOfThisFile(cache.events) /\ cache.min_seq <= lowest
    BY <1>1, <1>3, AppendBuild
  <2>2. top[t] = Len(log)
    BY <1>0, <1>1, <2>1 DEF MaxSeq
  <2>3. InOrder(cache.min_seq, last) /\ cache.events = SubSeq(log, m, last)
    BY <2>1 DEF ExactInv, RowsBetween
  <2>4. m \in Nat /\ m >= 1 /\ m <= lowest /\ last \in Nat /\ last < Len(log) /\ last + 1 >= m
    <3>1. m \in Nat /\ m >= 1 /\ m <= lowest
      BY <1>0, <2>1
    <3>2. last + 1 >= m
      BY <1>0, <2>3 DEF InOrder
    <3>q. QED BY <1>0, <2>1, <2>2, <3>1, <3>2
  <2>5. Len(cache.events) = last - m + 1
    <3> HIDE DEF m, last
    <3>1. Len(cache.events) = IF m <= last THEN last - m + 1 ELSE 0
      <4>1. last <= Len(log)
        BY <1>0, <2>4
      <4>q. QED BY <2>3, <2>4, <4>1, BetweenReturns
    <3>q. QED BY <2>4, <3>1
  <2>6. \A i \in 1..Len(cache.events) : cache.events[i] = log[m + i - 1]
    <3> HIDE DEF m, last
    <3>1. last <= Len(log)
      BY <1>0, <2>4
    <3>q. QED BY <2>3, <2>4, <3>1, BetweenReturns
  <2>7. Len(Kept(t)) = From - lowest
    <3>1. /\ Len(Kept(t)) = (IF Trim(t) < Len(cache.events) THEN Len(cache.events) - Trim(t) ELSE 0)
          /\ Trim(t) = lowest - cache.min_seq
      BY <1>1, <1>3, AppendBuild
    <3>2. From = IF last + 1 > lowest THEN last + 1 ELSE lowest
      BY DEF From
    <3>3. CASE cache.min_seq = 0
      <4>1. last = 0 /\ m = 1
        BY <2>3, <3>3 DEF InOrder
      <4>q. QED BY <1>0, <2>5, <3>1, <3>2, <3>3, <4>1
    <3>4. CASE cache.min_seq # 0
      <4>1. m = cache.min_seq /\ cache.min_seq <= lowest
        BY <2>4, <3>4
      <4>2. Len(cache.events) = last - cache.min_seq + 1
        BY <2>5, <4>1
      <4>3. last \in Nat /\ lowest \in Nat /\ cache.min_seq \in Nat
        BY <1>0
      <4> HIDE DEF m, last
      <4>4. CASE last < lowest
        <5>1. From = lowest /\ ~(Trim(t) < Len(cache.events))
          BY <3>1, <3>2, <4>2, <4>3, <4>4
        <5>q. QED BY <3>1, <4>3, <5>1
      <4>5. CASE ~(last < lowest)
        <5>1. From = last + 1 /\ Trim(t) < Len(cache.events)
          BY <3>1, <3>2, <4>2, <4>3, <4>5
        <5>q. QED BY <3>1, <4>2, <4>3, <5>1
      <4>q. QED BY <4>4, <4>5
    <3>q. QED BY <3>3, <3>4
  <2>8. \A i \in 1..Len(Kept(t)) : Kept(t)[i] = log[lowest + i - 1]
    <3> TAKE i \in 1..Len(Kept(t))
    <3>1. /\ Kept(t)[i] = cache.events[Trim(t) + i] /\ Trim(t) = lowest - cache.min_seq
          /\ Trim(t) \in Nat /\ Len(cache.events) \in Nat /\ Len(Kept(t)) \in Nat
          /\ Len(Kept(t)) = (IF Trim(t) < Len(cache.events) THEN Len(cache.events) - Trim(t) ELSE 0)
      BY <1>1, <1>3, AppendBuild
    <3>2. Trim(t) + i \in 1..Len(cache.events) /\ i \in Nat
      BY <3>1
    <3>3. cache.min_seq # 0
      <4> SUFFICES ASSUME cache.min_seq = 0 PROVE FALSE
        OBVIOUS
      <4>1. last = 0 /\ m = 1
        BY <2>3 DEF InOrder
      <4>2. Len(cache.events) = 0
        BY <2>5, <4>1
      <4>q. QED BY <3>1, <3>2, <4>2
    <3>4. m + (Trim(t) + i) - 1 = lowest + i - 1
      <4>1. m = cache.min_seq /\ Trim(t) = lowest - cache.min_seq
        BY <1>0, <3>1, <3>3
      <4>2. m \in Nat /\ lowest \in Nat /\ Trim(t) \in Nat /\ i \in Nat
        BY <1>0, <3>1, <3>2, <4>1
      <4>q. QED BY <4>1, <4>2
    <3>q. QED BY <2>6, <3>1, <3>2, <3>4
  <2>9. /\ ev'[t] \in Seq(Event) /\ Len(ev'[t]) = Len(log) - lowest + 1
        /\ \A i \in 1..Len(ev'[t]) : ev'[t][i] = log[lowest + i - 1]
    <3>1. /\ From \in Nat /\ From >= lowest /\ From <= Len(log)
          /\ Len(Fresh(t)) = Len(log) - From + 1
          /\ Len(ev'[t]) = Len(Kept(t)) + Len(Fresh(t))
      BY <1>1, <1>3, AppendBuild
    <3>2. Len(ev'[t]) = Len(log) - lowest + 1
      BY <1>0, <2>7, <3>1
    <3>3. ASSUME NEW i \in 1..Len(ev'[t]) PROVE ev'[t][i] = log[lowest + i - 1]
      <4>0. ev'[t][i] = IF i <= Len(Kept(t)) THEN Kept(t)[i] ELSE Fresh(t)[i - Len(Kept(t))]
        BY <1>1, <1>3, AppendBuild
      <4>1. CASE i <= From - lowest
        <5>1. i \in 1..Len(Kept(t))
          BY <1>0, <2>7, <3>1, <4>1
        <5>q. QED BY <2>8, <4>0, <5>1
      <4>2. CASE ~(i <= From - lowest)
        <5> DEFINE j == i - (From - lowest)
        <5>1. j \in 1..Len(Fresh(t)) /\ From + j - 1 = lowest + i - 1
          BY <1>0, <3>1, <3>2, <4>2
        <5>2. ev'[t][i] = Fresh(t)[j]
          BY <2>7, <4>0, <4>2
        <5> HIDE DEF j
        <5>3. Fresh(t)[j] = log[From + j - 1]
          BY <1>1, <1>3, <5>1, AppendBuild
        <5>q. QED BY <5>1, <5>2, <5>3
      <4>q. QED BY <4>1, <4>2
    <3>4. ev'[t] \in Seq(Event)
      BY <1>1, <1>3, AppendBuild
    <3>q. QED BY <3>2, <3>3, <3>4
  <2>10. /\ SubSeq(log, lowest, Len(log)) \in Seq(Event)
         /\ Len(SubSeq(log, lowest, Len(log))) = Len(log) - lowest + 1
         /\ \A i \in 1..Len(SubSeq(log, lowest, Len(log))) :
              SubSeq(log, lowest, Len(log))[i] = log[lowest + i - 1]
    <3>1. Len(log) <= Len(log)
      BY <1>0
    <3>2. Len(SubSeq(log, lowest, Len(log))) = IF lowest <= Len(log) THEN Len(log) - lowest + 1 ELSE 0
      BY <1>0, <3>1, BetweenReturns
    <3>q. QED BY <1>0, <2>1, <3>1, <3>2, BetweenReturns
  <2>11. ev'[t] = SubSeq(log, lowest, Len(log))
    <3> DEFINE rows == SubSeq(log, lowest, Len(log))
    <3>1. \A i \in 1..Len(ev'[t]) : ev'[t][i] = rows[i]
      BY <2>9, <2>10
    <3>2. Len(ev'[t]) = Len(rows)
      BY <2>9, <2>10
    <3> HIDE DEF rows
    <3>3. rows \in Seq(Event)
      BY <2>10 DEF rows
    <3>4. ev'[t] = rows
      BY <2>9, <3>1, <3>2, <3>3, SeqEqual
    <3>q. QED BY <3>4 DEF rows
  <2>12. InOrder(low[t], top[t]) /\ low[t] # 0
    BY <1>0, <2>1, <2>2 DEF InOrder
  <2>q. QED BY <2>1, <2>2, <2>11, <2>12 DEF RowsBetween
<1>q. QED BY <1>2, <1>3

(* A commit leaves what was in the log as it is.                             *)
LEMMA BetweenKept ==
  ASSUME TypeOK, CommitBatch, NEW a \in Nat, a >= 1, NEW b \in Nat, b <= Len(log)
  PROVE  SubSeq(log', a, b) = SubSeq(log, a, b)
<1>1. /\ log \in Seq(Event) /\ log' \in Seq(Event) /\ Len(log) \in Nat /\ Len(log') \in Nat
      /\ Len(log') > Len(log)
  BY CommitAdds DEF TypeOK
<1>2. \A i \in a..b : log'[i] = log[i]
  <2> TAKE i \in a..b
  <2>1. i \in 1..Len(log)
    BY <1>1
  <2>q. QED BY <2>1, CommitAdds
<1> DEFINE old == SubSeq(log, a, b)
           new == SubSeq(log', a, b)
<1>3. /\ old \in Seq(Event) /\ Len(old) = IF a <= b THEN b - a + 1 ELSE 0
      /\ \A i \in 1..Len(old) : old[i] = log[a + i - 1]
  BY BetweenReturns
<1>4. /\ new \in Seq(Event) /\ Len(new) = IF a <= b THEN b - a + 1 ELSE 0
      /\ \A i \in 1..(b - a + 1) : new[i] = log'[a + i - 1]
  <2>1. \A i \in a..b : log'[i] \in Event
    BY <1>1, ElementOfSeq
  <2>q. QED BY <1>1, <2>1, SubSeqProperties
<1>5. \A i \in 1..Len(old) : old[i] = new[i]
  <2> TAKE i \in 1..Len(old)
  <2> HIDE DEF old, new
  <2>1. i \in 1..(b - a + 1) /\ a + i - 1 \in a..b
    BY <1>3
  <2>q. QED BY <1>2, <1>3, <1>4, <2>1
<1>6. old = new
  <2> HIDE DEF old, new
  <2>q. QED BY <1>3, <1>4, <1>5, SeqEqual
<1>q. QED BY <1>6

LEMMA ExactRecorder ==
  ASSUME TypeOK, LogInv, GenInv, LockInv, CacheInv, BuildInv, ExactInv, CommitBatch \/ ReplaceFile
  PROVE  ExactInv'
<1>0. /\ cache' = cache /\ pc' = pc /\ top' = top /\ low' = low /\ ev' = ev
      /\ torn \subseteq torn'
  BY RecorderKeeps, TornGrows
<1> SUFFICES ASSUME torn' = {} PROVE ExactInv'
  BY DEF ExactInv
<1>1. torn = {} /\ NotCut /\ NotReplaced
  BY <1>0 DEF NotCut, NotReplaced
<1>2. ~Reading /\ (Building => gen' = gen)
  BY TornGrows
<1>3. \A u \in Thread : pc[u] \notin {"low", "check", "read"}
  BY <1>2 DEF Reading, LockInv, Locked
<1>4. CASE CommitBatch
  <2>1. gen' = gen
    BY <1>4, CommitAdds
  <2>2. ASSUME NEW min \in Nat, NEW last \in Nat, InOrder(min, last), last <= Len(log)
        PROVE  SubSeq(log', IF min = 0 THEN 1 ELSE min, last) = RowsBetween(min, last)
    <3>1. (IF min = 0 THEN 1 ELSE min) \in Nat /\ (IF min = 0 THEN 1 ELSE min) >= 1
      BY <2>2
    <3>q. QED BY <1>4, <2>2, <3>1, BetweenKept DEF RowsBetween
  <2>3. ASSUME cache.built, AllOfThisFile(cache.events)
        PROVE  /\ InOrder(cache.min_seq, cache.last_seq)
               /\ cache.events = SubSeq(log', IF cache.min_seq = 0 THEN 1 ELSE cache.min_seq, cache.last_seq)
    <3>1. cache.min_seq \in Nat /\ cache.last_seq \in Nat
      BY DEF TypeOK, CacheRecord
    <3>2. /\ InOrder(cache.min_seq, cache.last_seq)
          /\ cache.events = RowsBetween(cache.min_seq, cache.last_seq)
      BY <1>1, <2>3 DEF ExactInv
    <3>3. cache.last_seq <= Len(log)
      BY <1>1, <2>3 DEF CacheInv
    <3>q. QED BY <2>2, <3>1, <3>2, <3>3
  <2>4. ASSUME NEW u \in Thread, pc[u] = "rebuild"
        PROVE  InOrder(low[u], top[u]) /\ ev[u] = SubSeq(log', IF low[u] = 0 THEN 1 ELSE low[u], top[u])
    <3>1. low[u] \in Nat /\ top[u] \in Nat
      BY DEF TypeOK
    <3>2. InOrder(low[u], top[u]) /\ ev[u] = RowsBetween(low[u], top[u])
      BY <1>1, <2>4 DEF ExactInv
    <3>3. top[u] <= Len(log)
      BY <1>1, <2>4 DEF BuildInv
    <3>q. QED BY <2>2, <3>1, <3>2, <3>3
  <2>q. QED BY <1>0, <1>3, <2>1, <2>3, <2>4, Zenon DEF ExactInv, RowsBetween, AllOfThisFile
<1>5. CASE ReplaceFile
  <2>1. gen' = gen + 1 /\ gen \in Nat /\ log' = <<>>
    BY <1>5, ReplaceEmpties
  <2>2. ~Building
    BY <1>2, <2>1
  <2>3. \A u \in Thread : pc[u] # "rebuild"
    BY <2>2 DEF Building
  <2>4. ASSUME cache.built, \A i \in DOMAIN cache.events : cache.events[i].gen = gen'
        PROVE  /\ InOrder(cache.min_seq, cache.last_seq)
               /\ cache.events = SubSeq(log', IF cache.min_seq = 0 THEN 1 ELSE cache.min_seq, cache.last_seq)
    <3>1. cache.events = <<>>
      BY <1>5, <2>1, <2>4, OfANewFile
    <3>2. cache.min_seq = 0 /\ cache.last_seq = 0
      BY <1>1, <2>4, <3>1 DEF CacheInv
    <3>3. SubSeq(<<>>, 1, 0) = <<>>
      BY SubSeqEmpty, EmptySeq
    <3>q. QED BY <2>1, <3>1, <3>2, <3>3 DEF InOrder
  <2>q. QED BY <1>0, <1>3, <2>3, <2>4, Zenon DEF ExactInv, RowsBetween, AllOfThisFile
<1>q. QED BY <1>4, <1>5

LEMMA ExactThread ==
  ASSUME TypeOK, LogInv, LockInv, CacheInv, BuildInv, ExactInv,
         NEW t \in Thread, AnyRequest(t) \/ Serve(t) \/ Rest(t)
  PROVE  ExactInv'
<1> DEFINE After(u) ==
      /\ pc'[u] \in {"low", "check", "read"} => top'[u] = MaxSeq
      /\ pc'[u] \in {"check", "read"} => low'[u] = MinSeq
      /\ pc'[u] = "rebuild" => InOrder(low'[u], top'[u]) /\ ev'[u] = RowsBetween(low'[u], top'[u])
<1>0. Others(t) /\ log' = log /\ lowest' = lowest /\ gen' = gen /\ torn' = torn
  BY OthersKeep
<1> SUFFICES ASSUME torn = {} PROVE ExactInv'
  BY <1>0 DEF ExactInv
<1>1. ASSUME NEW u \in Thread
      PROVE  /\ pc[u] \in {"low", "check", "read"} => top[u] = MaxSeq
             /\ pc[u] \in {"check", "read"} => low[u] = MinSeq
             /\ pc[u] = "rebuild" => InOrder(low[u], top[u]) /\ ev[u] = RowsBetween(low[u], top[u])
  BY DEF ExactInv
<1>2. ASSUME NEW u \in Thread, u # t PROVE After(u)
  <2>1. pc'[u] = pc[u] /\ top'[u] = top[u] /\ low'[u] = low[u] /\ ev'[u] = ev[u]
    BY <1>0, <1>2 DEF Others
  <2>q. QED BY <1>1, <2>1
<1>3. ASSUME pc'[t] \notin {"low", "check", "read", "rebuild"} PROVE After(t)
  BY <1>3
<1>4. ASSUME AnyRequest(t) \/ Rest(t) \/ ReadTop(t) \/ HotPath(t) \/ TakeBuildLock(t) \/ Fail(t) PROVE After(t)
  <2>1. pc'[t] \in {"top", "idle", "hot", "answered", "view", "lock", "retop", "failed"}
    BY <1>4, LoadedLeaves DEF AnyRequest, Request, Rest, ReadTop, HotPath, TakeBuildLock, Fail, Goto, TypeOK
  <2>2. pc'[t] \notin {"low", "check", "read", "rebuild"}
    BY <2>1
  <2> HIDE DEF After
  <2>q. QED BY <1>3, <2>2
<1>5. ASSUME View(t) \/ Slice(t) \/ Publish(t) PROVE After(t)
  <2>1. pc'[t] \in {"answered", "view", "slice"}
    BY <1>5, LoadedLeaves DEF View, Slice, Publish, Goto, TypeOK
  <2>2. pc'[t] \notin {"low", "check", "read", "rebuild"}
    BY <2>1
  <2> HIDE DEF After
  <2>q. QED BY <1>3, <2>2
<1>6. ASSUME RereadTop(t) PROVE After(t)
  <2>1. pc'[t] = "low" /\ top'[t] = MaxSeq
    BY <1>6 DEF RereadTop, Goto, TypeOK
  <2>q. QED BY <2>1
<1>7. ASSUME ReadLow(t) PROVE After(t)
  <2>1. pc[t] = "low" /\ pc'[t] = "check" /\ top'[t] = top[t] /\ low'[t] = MinSeq
    BY <1>7 DEF ReadLow, Goto, TypeOK
  <2>q. QED BY <1>1, <2>1
<1>8. ASSUME Check(t) PROVE After(t)
  <2>1. CASE Loaded(t, cache.events)
    <3>1. pc'[t] \in {"answered", "view"}
      BY <2>1, LoadedLeaves
    <3>2. pc'[t] \notin {"low", "check", "read", "rebuild"}
      BY <3>1
    <3> HIDE DEF After
    <3>q. QED BY <1>3, <3>2
  <2>2. CASE ~Loaded(t, cache.events)
    <3>1. pc[t] = "check" /\ pc'[t] = "read" /\ top' = top /\ low'[t] = low[t]
      BY <1>8, <2>2 DEF Check, Goto, TypeOK
    <3>q. QED BY <1>1, <3>1
  <2>q. QED BY <2>1, <2>2
<1>9. ASSUME ReadRows(t) PROVE After(t)
  <2>1. pc'[t] = "rebuild" /\ top' = top /\ low' = low
    BY <1>9 DEF ReadRows, Goto, TypeOK
  <2>2. InOrder(low[t], top[t]) /\ ev'[t] = RowsBetween(low[t], top[t])
    BY <1>9, ReadRowsExact
  <2>q. QED BY <2>1, <2>2
<1>10. \A u \in Thread : After(u)
  <2>1. After(t)
    <3> HIDE DEF After
    <3>q. QED BY <1>4, <1>5, <1>6, <1>7, <1>8, <1>9 DEF Serve, Load
  <2> HIDE DEF After
  <2>q. QED BY <1>2, <2>1, Zenon
<1>11. cache'.built /\ AllOfThisFile(cache'.events) =>
         /\ InOrder(cache'.min_seq, cache'.last_seq)
         /\ cache'.events = RowsBetween(cache'.min_seq, cache'.last_seq)
  <2>1. CASE Publish(t)
    <3>1. /\ pc[t] = "rebuild"
          /\ cache'.built /\ cache'.events = ev[t] /\ cache'.last_seq = top[t] /\ cache'.min_seq = low[t]
      BY <2>1 DEF Publish
    <3>q. QED BY <1>1, <3>1
  <2>2. CASE ~Publish(t)
    <3>1. cache' = cache
      BY <2>2 DEF AnyRequest, Request, Serve, Load, ReadTop, HotPath, TakeBuildLock, RereadTop, ReadLow,
                  Check, ReadRows, Fail, View, Slice, Rest
    <3>q. QED BY <3>1 DEF ExactInv
  <2>q. QED BY <2>1, <2>2
<1>12. ASSUME NEW u \in Thread
       PROVE  /\ pc'[u] \in {"low", "check", "read"} => top'[u] = MaxSeq
              /\ pc'[u] \in {"check", "read"} => low'[u] = MinSeq
              /\ pc'[u] = "rebuild" => InOrder(low'[u], top'[u]) /\ ev'[u] = RowsBetween(low'[u], top'[u])
  BY <1>10
<1>q. QED BY <1>0, <1>11, <1>12, Zenon DEF ExactInv, AllOfThisFile, InOrder, RowsBetween, MaxSeq, MinSeq

-----------------------------------------------------------------------------
(* The theorems. *)

IInv ==
  /\ TypeOK /\ LogInv /\ GenInv /\ LockInv /\ SliceInv
  /\ CacheInv /\ BuildInv /\ DueInv /\ ExactInv

LEMMA Initially == Init => IInv
<1> SUFFICES ASSUME Init PROVE IInv
  OBVIOUS
<1>1. TypeOK
  BY TypeInitially
<1>2. /\ log = <<>> /\ lowest = 1 /\ gen = 0 /\ cache = EmptyCache /\ slice = NoSlice
      /\ cacheLock = NoThread /\ buildLock = NoThread
      /\ \A t \in Thread : /\ pc[t] = "idle" /\ seen[t] = EmptyCache /\ ev[t] = <<>>
                           /\ due[t] = {} /\ asked[t] = 0
  BY DEF Init
<1>3. Len(log) = 0 /\ Len(<<>>) = 0 /\ DOMAIN <<>> = {}
  BY <1>2, EmptySeq
<1>4. LogInv
  BY <1>2, <1>3 DEF LogInv
<1>5. GenInv
  BY <1>2, <1>3 DEF GenInv, NoneOfTheFuture, EmptyCache, NoSlice
<1>6. LockInv
  BY <1>2, CacheAssumption DEF LockInv, Locked
<1>7. SliceInv
  BY <1>2 DEF SliceInv, NoSlice
<1>8. ~cache.built
  BY <1>2 DEF EmptyCache
<1>9. CacheInv /\ BuildInv /\ DueInv /\ ExactInv
  BY <1>2, <1>8 DEF CacheInv, BuildInv, DueInv, Asking, ExactInv
<1>q. QED BY <1>1, <1>4, <1>5, <1>6, <1>7, <1>9 DEF IInv

LEMMA StepKeeps == IInv /\ [Step]_vars => IInv'
<1> SUFFICES ASSUME IInv, [Step]_vars PROVE IInv'
  OBVIOUS
<1>0. /\ TypeOK /\ LogInv /\ GenInv /\ LockInv /\ SliceInv
      /\ CacheInv /\ BuildInv /\ DueInv /\ ExactInv
  BY DEF IInv
<1>1. LogInv' /\ GenInv' /\ LockInv' /\ SliceInv'
  BY <1>0, LogStep, GenStep, LockStep, SliceStep
<1>2. CASE UNCHANGED vars
  <2>1. TypeOK'
    BY <1>0, <1>2 DEF vars, store, locals, history, TypeOK
  <2>2. CacheInv'
    BY <1>0, <1>2 DEF vars, store, locals, history, CacheInv, NotReplaced, NotCut, AllOfThisFile, Holds
  <2>3. BuildInv'
    BY <1>0, <1>2 DEF vars, store, locals, history, BuildInv, NotReplaced, NotCut, AllOfThisFile, Holds, UpToDate
  <2>4. DueInv'
    BY <1>0, <1>2 DEF vars, store, locals, history, DueInv, NotReplaced, NotCut
  <2>5. ExactInv'
    BY <1>0, <1>2 DEF vars, store, locals, history, ExactInv, AllOfThisFile, RowsBetween, InOrder, MaxSeq, MinSeq
  <2>q. QED BY <1>1, <2>1, <2>2, <2>3, <2>4, <2>5 DEF IInv
<1>3. ASSUME CommitBatch \/ ReplaceFile PROVE IInv'
  <2>1. TypeOK' /\ CacheInv' /\ BuildInv'
    BY <1>0, <1>3, RecorderTypes, CacheCommit, CacheReplace, BuildRecorder
  <2>2. DueInv' /\ ExactInv'
    BY <1>0, <1>3, DueRecorder, ExactRecorder
  <2>q. QED BY <1>1, <2>1, <2>2 DEF IInv
<1>4. ASSUME NEW t \in Thread, AnyRequest(t) \/ Serve(t) \/ Rest(t) PROVE IInv'
  <2>1. TypeOK' /\ CacheInv' /\ BuildInv'
    BY <1>0, <1>4, ThreadTypes, CacheThread, BuildThread
  <2>2. DueInv' /\ ExactInv'
    BY <1>0, <1>4, DueThread, ExactThread
  <2>q. QED BY <1>1, <2>1, <2>2 DEF IInv
<1>q. QED BY <1>2, <1>3, <1>4 DEF Step, Next

(* What the invariant says of the cache, of an answer about now and of one   *)
(* about the past.                                                           *)
LEMMA IInvImplies ==
  ASSUME IInv
  PROVE  NoRowMissed /\ Freshness /\ AnswerIsInThePast /\ ExactMirror
<1>0. TypeOK /\ LogInv /\ SliceInv /\ CacheInv /\ DueInv /\ ExactInv
  BY DEF IInv
<1>1. NoRowMissed
  <2> SUFFICES ASSUME NotCut, cache.built, ~StaleCache,
                      NEW s \in lowest..Len(log), s <= cache.last_seq
               PROVE  log[s] \in EventsOf(cache.events)
    BY DEF NoRowMissed, NotCut
  <2>1. Holds(cache.events, cache.last_seq, cache.min_seq)
    BY <1>0, StaleIs DEF CacheInv
  <2>q. QED BY <2>1 DEF Holds, EventsOf
<1>2. Freshness
  <2> SUFFICES ASSUME NEW t \in Thread, pc[t] = "answered", want[t] = Now
               PROVE  /\ NotCut => due[t] \cap Rows \subseteq EventsOf(ev[t])
                      /\ NotReplaced => \A e \in EventsOf(ev[t]) : e.gen >= asked[t]
    BY DEF Freshness, NotCut, NotReplaced
  <2>q. QED BY <1>0 DEF DueInv, Rows, EventsOf
<1>3. AnswerIsInThePast
  BY <1>0 DEF AnswerIsInThePast, SliceInv, PastOnly, EventsOf
<1>4. ExactMirror
  BY <1>0, StaleIs DEF ExactMirror, ExactInv, RowsBetween
<1>q. QED BY <1>1, <1>2, <1>3, <1>4

(* The invariant of the cache, its log and its threads holds however the     *)
(* requests, commits and replaced files interleave (_load, _view).           *)
THEOREM Invariance == Spec => []IInv
<1>1. IInv /\ [Next]_vars => IInv'
  BY StepKeeps DEF Step
<1>q. QED BY Initially, <1>1, PTL DEF Spec

(* Requests about now alone are behaviours of all the requests.              *)
THEOREM LoadsAreRequests == LoadSpec => Spec
<1>1. LoadNext => Next
  BY DEF LoadNext, Next, AnyRequest, Serve
<1>2. [LoadNext]_vars => [Next]_vars
  BY <1>1
<1>q. QED BY <1>2, PTL DEF LoadSpec, Spec

(* No row or slice is indexed outside its list, and a thread is where _load  *)
(* and _view can be.                                                         *)
THEOREM TypeCorrect == Spec => []TypeOK
<1>1. IInv => TypeOK
  BY DEF IInv
<1>q. QED BY Invariance, <1>1, PTL

(* A lock is taken by the thread that is in the block it guards, only: a     *)
(* request that was answered or failed has left neither behind, and no two   *)
(* threads build, or slice, at once.                                         *)
THEOREM LocksHold == Spec => []LockInv
<1>1. IInv => LockInv
  BY DEF IInv
<1>q. QED BY Invariance, <1>1, PTL

(* _load's append path: no row is lost between two incremental builds,       *)
(* however the recorder commits; not said once an eviction or a new file     *)
(* has torn a build, or while the cache is of a file since replaced.  And    *)
(* the same of a server that is only asked about now.                        *)
THEOREM NoRowMissedHolds == (Spec => []NoRowMissed) /\ (LoadSpec => []NoRowMissed)
<1>1. IInv => NoRowMissed
  BY IInvImplies
<1>q. QED BY Invariance, LoadsAreRequests, <1>1, PTL

(* No answer misses what was committed before the request and is still       *)
(* there (unless an eviction or a new file has torn a build), or is of a     *)
(* file replaced before it (unless the new file had caught up with it).      *)
THEOREM FreshnessHolds == (Spec => []Freshness) /\ (LoadSpec => []Freshness)
<1>1. IInv => Freshness
  BY IInvImplies
<1>q. QED BY Invariance, LoadsAreRequests, <1>1, PTL

(* Left alone between its reads, a build mirrors the table exactly.          *)
THEOREM ExactMirrorHolds == (Spec => []ExactMirror) /\ (LoadSpec => []ExactMirror)
<1>1. IInv => ExactMirror
  BY IInvImplies
<1>q. QED BY Invariance, LoadsAreRequests, <1>1, PTL

(* The timeline never shows what comes after the moment it is set to.        *)
THEOREM AnswerIsInThePastHolds == Spec => []AnswerIsInThePast
<1>1. IInv => AnswerIsInThePast
  BY IInvImplies
<1>q. QED BY Invariance, <1>1, PTL

-----------------------------------------------------------------------------
(* The handler (Api): its requests are requests to the cache, whatever else *)
(* it serves on the same threads, and what it says of a process that it does *)
(* not find is true.                                                         *)


(* What a thread has in hand, and where it is in the cache meanwhile: only a *)
(* view that is still owed an answer is at work there, and 400 is what a     *)
(* view of no events is answered with.                                       *)
CallInv ==
  /\ call \in [Thread -> Calls \cup {NoCall}]
  /\ status \in [Thread -> Int]
  /\ \A t \in Thread :
       /\ call[t] = NoCall => pc[t] = "idle"
       /\ call[t] # NoCall /\ call[t].route \notin ViewRoutes => pc[t] = "idle"
       /\ call[t] # NoCall /\ status[t] # 0 => pc[t] \in {"idle", "answered", "failed"}
       /\ call[t] # NoCall /\ call[t].route \in {"graph", "proc"} /\ status[t] = 400 =>
            pc[t] = "answered" /\ ev[t] = <<>>

ApiInv == IInv /\ CallInv

(* A thread that is free has left the cache, and so has one that never       *)
(* needed it.                                                                *)
LEMMA FreeIsOut ==
  ASSUME CallInv, NEW t \in Thread, Free(t)
  PROVE  pc[t] \in {"idle", "answered", "failed"}
BY DEF CallInv, Free

LEMMA ServedIsView ==
  ASSUME CallInv, NEW t \in Thread, Serve(t)
  PROVE  call[t] # NoCall /\ call[t].route \in ViewRoutes /\ status[t] = 0
<1>1. pc[t] \notin {"idle", "answered", "failed"}
  BY DEF Serve, Load, ReadTop, HotPath, TakeBuildLock, RereadTop, ReadLow, Check, ReadRows, Publish,
         Fail, View, Slice
<1>q. QED BY <1>1 DEF CallInv

(* The cache's part of a step of the handler.                                *)
LEMMA ApiStepIsStep ==
  ASSUME CallInv, [ApiNext]_<<vars, apiVars>>
  PROVE  [Step]_vars
<1>1. ASSUME NEW t \in Thread, Accept(t) PROVE Step
  <2>1. PICK c \in Calls : IF c.route \in ViewRoutes THEN Request(t, c.as_of) ELSE NoView(t)
    BY <1>1 DEF Accept
  <2>2. CASE Request(t, c.as_of)
    <3>1. c.as_of \in AsOf \cup {Now}
      BY ApiAssumption
    <3>q. QED BY <2>2, <3>1 DEF Step, Next, AnyRequest
  <2>3. CASE NoView(t)
    <3>1. pc[t] \in {"idle", "answered", "failed"}
      BY <1>1, FreeIsOut DEF Accept
    <3>q. QED BY <2>3, <3>1 DEF Step, Rest, NoView
  <2>q. QED BY <2>1, <2>2, <2>3
<1>2. ASSUME NEW t \in Thread, ApiServe(t) \/ PidReused(t) PROVE [Step]_vars
  BY <1>2 DEF ApiServe, Respond, RespondView, Meta, Window, Kill, PidReused, Step, Next
<1>q. QED BY <1>1, <1>2 DEF ApiNext, Step, Next

LEMMA CallKept ==
  ASSUME TypeOK, CallInv, [ApiNext]_<<vars, apiVars>>
  PROVE  CallInv'
<1> DEFINE After(u) ==
      /\ call'[u] = NoCall => pc'[u] = "idle"
      /\ call'[u] # NoCall /\ call'[u].route \notin ViewRoutes => pc'[u] = "idle"
      /\ call'[u] # NoCall /\ status'[u] # 0 => pc'[u] \in {"idle", "answered", "failed"}
      /\ call'[u] # NoCall /\ call'[u].route \in {"graph", "proc"} /\ status'[u] = 400 =>
           pc'[u] = "answered" /\ ev'[u] = <<>>
<1>0. /\ call \in [Thread -> Calls \cup {NoCall}] /\ status \in [Thread -> Int]
      /\ pc \in [Thread -> PC] /\ ev \in [Thread -> Seq(Event)]
  BY DEF CallInv, TypeOK, PC
<1>1. ASSUME NEW u \in Thread, call'[u] = call[u], status'[u] = status[u], pc'[u] = pc[u], ev'[u] = ev[u]
      PROVE  After(u)
  BY <1>1 DEF CallInv
<1>2. CASE UNCHANGED <<vars, apiVars>> \/ ((CommitBatch \/ ReplaceFile) /\ UNCHANGED apiVars)
  <2>1. call' = call /\ status' = status /\ pc' = pc /\ ev' = ev
    BY <1>2, RecorderKeeps DEF vars, apiVars, locals
  <2>q. QED BY <2>1 DEF CallInv
<1>3. ASSUME NEW t \in Thread, Accept(t) PROVE CallInv'
  <2>1. PICK c \in Calls :
          /\ call' = [call EXCEPT ![t] = c]
          /\ IF c.route \in ViewRoutes THEN Request(t, c.as_of) ELSE NoView(t)
          /\ \E s \in AtOnce(c) : Send(t, s)
    BY <1>3 DEF Accept
  <2>2. PICK s \in AtOnce(c) : status' = [status EXCEPT ![t] = s]
    BY <2>1 DEF Send
  <2>3. s \in Int /\ (c.route \in ViewRoutes \cup {"graph", "proc"} => s = 0)
    BY <2>2 DEF AtOnce, Dropped, ViewRoutes
  <2>4. call'[t] = c /\ c # NoCall /\ status'[t] = s
    BY <1>0, <2>1, <2>2, ApiAssumption
  <2>5. \A u \in Thread \ {t} : call'[u] = call[u] /\ status'[u] = status[u] /\ pc'[u] = pc[u] /\ ev'[u] = ev[u]
    BY <1>0, <2>1, <2>2 DEF Request, NoView, Goto
  <2>6. c.route \notin ViewRoutes => pc'[t] = "idle"
    BY <1>0, <2>1 DEF NoView
  <2>7. After(t)
    BY <2>3, <2>4, <2>6
  <2>8. \A u \in Thread : After(u)
    <3> HIDE DEF After
    <3>q. QED BY <1>1, <2>5, <2>7
  <2>9. call' \in [Thread -> Calls \cup {NoCall}] /\ status' \in [Thread -> Int]
    BY <1>0, <2>1, <2>2, <2>3
  <2>q. QED BY <2>8, <2>9 DEF CallInv
<1>4. ASSUME NEW t \in Thread, Serve(t), UNCHANGED apiVars PROVE CallInv'
  <2>1. call' = call /\ status' = status
    BY <1>4 DEF apiVars
  <2>2. call[t] # NoCall /\ call[t].route \in ViewRoutes /\ status[t] = 0
    BY <1>4, ServedIsView
  <2>3. \A u \in Thread \ {t} : pc'[u] = pc[u] /\ ev'[u] = ev[u]
    BY <1>4, OthersKeep DEF Others
  <2>4. \A u \in Thread : After(u)
    BY <1>1, <2>1, <2>2, <2>3
  <2>q. QED BY <1>0, <2>1, <2>4 DEF CallInv
<1>5. ASSUME NEW t \in Thread, Respond(t) PROVE CallInv'
  <2>1. call' = call /\ pc' = pc /\ ev' = ev /\ call[t] # NoCall
    BY <1>5 DEF Respond, RespondView, Meta, Window, Kill, vars, locals, At
  <2>2. PICK s \in Int : status' = [status EXCEPT ![t] = s]
    BY <1>5 DEF Respond, RespondView, Meta, Window, Kill, Send, Dropped
  <2>3. CASE RespondView(t)
    <3>1. call[t].route \in ViewRoutes /\ pc[t] \in {"answered", "failed"}
      BY <2>3 DEF RespondView, At
    <3>2. status'[t] = 400 /\ call[t].route \in {"graph", "proc"} => pc[t] = "answered" /\ ev[t] = <<>>
      BY <1>0, <2>3 DEF RespondView, Send
    <3>3. After(t)
      BY <2>1, <3>1, <3>2
    <3>4. \A u \in Thread : After(u)
      BY <1>0, <1>1, <2>1, <2>2, <3>3
    <3>q. QED BY <1>0, <2>1, <2>2, <3>4 DEF CallInv
  <2>4. CASE Meta(t) \/ Window(t) \/ Kill(t)
    <3>1. call[t].route \notin ViewRoutes /\ call[t].route \notin {"graph", "proc"}
      BY <2>4 DEF Meta, Window, Kill, At, ViewRoutes
    <3>2. pc[t] = "idle"
      BY <2>1, <3>1 DEF CallInv
    <3>3. After(t)
      BY <2>1, <3>1, <3>2
    <3>4. \A u \in Thread : After(u)
      BY <1>0, <1>1, <2>1, <2>2, <3>3
    <3>q. QED BY <1>0, <2>1, <2>2, <3>4 DEF CallInv
  <2>q. QED BY <1>5, <2>3, <2>4 DEF Respond
<1>6. ASSUME NEW t \in Thread, PidReused(t) PROVE CallInv'
  BY <1>6 DEF PidReused, CallInv, vars, locals
<1>q. QED BY <1>2, <1>3, <1>4, <1>5, <1>6 DEF ApiNext, ApiServe

-----------------------------------------------------------------------------

(* Everything shown of the cache holds of it under the handler.              *)
THEOREM ApiInvariance == ApiSpec => []ApiInv
<1>1. ApiInit => ApiInv
  <2> SUFFICES ASSUME ApiInit PROVE ApiInv
    OBVIOUS
  <2>1. IInv
    BY Initially DEF ApiInit
  <2>2. CallInv
    BY DEF ApiInit, Init, CallInv
  <2>q. QED BY <2>1, <2>2 DEF ApiInv
<1>2. ApiInv /\ [ApiNext]_<<vars, apiVars>> => ApiInv'
  <2> SUFFICES ASSUME ApiInv, [ApiNext]_<<vars, apiVars>> PROVE ApiInv'
    OBVIOUS
  <2>1. IInv'
    BY ApiStepIsStep, StepKeeps DEF ApiInv
  <2>2. CallInv'
    BY CallKept DEF ApiInv, IInv
  <2>q. QED BY <2>1, <2>2 DEF ApiInv
<1>q. QED BY <1>1, <1>2, PTL DEF ApiSpec

(* The state of the cache is of its types under the handler, too, which      *)
(* also takes up requests that need nothing of it (do_GET, do_POST).         *)
THEOREM ApiTypeCorrect == ApiSpec => []TypeOK
<1>1. ApiInv => TypeOK
  BY DEF ApiInv, IInv
<1>q. QED BY ApiInvariance, <1>1, PTL

(* The timeline of the handler: an answer about the past is from the past.   *)
THEOREM TimelineIsInThePast == ApiSpec => []AnswerIsInThePast
<1>1. ApiInv => AnswerIsInThePast
  BY IInvImplies DEF ApiInv
<1>q. QED BY ApiInvariance, <1>1, PTL

(* A view is answered as if the cache had been read at once, with every row  *)
(* that was there when the request began and is there still, unless an       *)
(* eviction or a new file has torn a build; and from no row of a file that   *)
(* had been replaced when it began, unless the new one had caught up with    *)
(* it or a build met both (torn).                                            *)
THEOREM ViewsAreFresh == ApiSpec => []Freshness
<1>1. ApiInv => Freshness
  BY IInvImplies DEF ApiInv
<1>q. QED BY ApiInvariance, <1>1, PTL

(* graph_payload's and proc_detail's "no process with pid ...": never said   *)
(* because a step failed, and of now never of a process that was there,      *)
(* unless an eviction or a new file has torn a build.                        *)
THEOREM AbsentMeansAbsentHolds == ApiSpec => []AbsentMeansAbsent
<1>1. ApiInv => AbsentMeansAbsent
  <2> SUFFICES ASSUME ApiInv, NotCut, NEW t \in Thread,
                      call[t] # NoCall, call[t].route \in {"graph", "proc"}, status[t] = 400
               PROVE  pc[t] = "answered" /\ (want[t] = Now => due[t] \cap Rows = {})
    BY DEF AbsentMeansAbsent, NotCut
  <2>1. pc[t] = "answered" /\ ev[t] = <<>>
    BY DEF ApiInv, CallInv
  <2>2. ASSUME want[t] = Now, NEW s \in lowest..Len(log), log[s] \in due[t] PROVE FALSE
    <3>1. \E i \in DOMAIN ev[t] : ev[t][i] = log[s]
      BY <2>1, <2>2 DEF ApiInv, IInv, DueInv
    <3>q. QED BY <2>1, <3>1, EmptySeq
  <2>q. QED BY <2>1, <2>2 DEF Rows
<1>q. QED BY ApiInvariance, <1>1, PTL
=============================================================================
