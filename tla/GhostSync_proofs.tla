-------------------------- MODULE GhostSync_proofs --------------------------
(***************************************************************************)
(* Proofs about GhostSync, for any files, any contents and any number of   *)
(* changes: ghost keeps both directories the same but for the files whose  *)
(* copy failed, and ignores the copies that it counts as done.             *)
(***************************************************************************)
EXTENDS GhostSync, SequenceTheorems, FiniteSetTheorems, TLAPS

(***************************************************************************)
(* The events on their way, and those of a kind that are about dst.        *)
(***************************************************************************)
AnyEvent ==
  {e \in [of : {"src", "dst", "stale"}, kind : Kinds \cup {"ignored"}, name : Names \cup {None}] :
     e.kind \in Kinds => e.name \in Names}
EventsTyped == queue \in Seq(AnyEvent) /\ batch \in Seq(AnyEvent)
Typed == TypeOK /\ EventsTyped

OfKind(q, k) == {i \in 1 .. Len(q) : q[i].of = "dst" /\ q[i].kind = k}
Count(q, k) == Cardinality(OfKind(q, k))

(***************************************************************************)
(* The watch of dst: ghost believes in it from add_watch until it handles  *)
(* the one event that tells that the kernel has dropped it.  It is not     *)
(* there while a re-mount is under way, and before it neither is src's.    *)
(***************************************************************************)
Dropped == wd_dst # None /\ ~alive
Told == Count(batch, "ignored") + Count(queue, "ignored") = IF Dropped THEN 1 ELSE 0
Watched == alive => wd_dst # None /\ Folder(wd_dst)
Remounting ==
  /\ phase # "none" => wd_dst = None
  /\ phase \in {"start", "look", "sync"} => ~wd_src
EmptyBefore == \A s \in Storages : ~dir[s] => \A f \in Names : dst[s][f] = None
WatchInv == Told /\ Watched /\ Remounting /\ EmptyBefore

(***************************************************************************)
(* The events of src: while src is not watched there are none, and the     *)
(* last one of a file tells whether the file is there.                     *)
(***************************************************************************)
About(e, f) == e.of = "src" /\ e.name = f
Has(q, f) == \E i \in 1 .. Len(q) : About(q[i], f)
Newest(q, i, f) == About(q[i], f) /\ \A j \in i + 1 .. Len(q) : ~About(q[j], f)
Tells(files_, e) == e.kind = IF files_[e.name] = None THEN "delete" ELSE "close"

Unwatched == ~wd_src => \A f : ~Has(queue, f) /\ ~Has(batch, f)
QueueTells ==
  \A f : \A i \in 1 .. Len(queue) : Newest(queue, i, f) => Tells(src, queue[i])
BatchTells ==
  \A f : ~Has(queue, f) =>
    \A i \in 1 .. Len(batch) : Newest(batch, i, f) => Tells(src, batch[i])
SrcInv == Unwatched /\ QueueTells /\ BatchTells

(***************************************************************************)
(* InSync on the way: a file is the same in both places, or an event of    *)
(* src is still to be handled, or someone else changed it, or its last     *)
(* copy failed, or a re-mount will still copy it.                          *)
(***************************************************************************)
Known(f) == dst[path][f] = src[f] \/ Has(batch, f) \/ Has(queue, f)
ToCopy(f) ==
  phase = "sync" =>
    Folder(path) /\ (f \in restore <=> (dst[path][f] # None /\ src[f] = None))
SyncInv ==
  /\ \A f \in Names \ (missed \cup failed) :
       /\ (phase = "none" /\ alive /\ wd_dst = path) => Known(f)
       /\ (phase \in {"watch", "made"} /\ Folder(path)) => Known(f)
  /\ \A f \in Names \ missed : ToCopy(f)

EchoInv == \A k \in Kinds : Count(batch, k) + Count(queue, k) <= drops[k] + unlisted[k]

SameInv == Typed /\ WatchInv /\ SrcInv /\ SyncInv
-----------------------------------------------------------------------------
(***************************************************************************)
(* How events are counted and found in a sequence.                         *)
(***************************************************************************)
LEMMA CountNat ==
  ASSUME NEW q \in Seq(AnyEvent), NEW k
  PROVE  IsFiniteSet(OfKind(q, k)) /\ Count(q, k) \in Nat
<1>1. OfKind(q, k) \subseteq 1 .. Len(q) /\ IsFiniteSet(1 .. Len(q))
  BY LenProperties, FS_Interval DEF OfKind
<1>2. IsFiniteSet(OfKind(q, k))
  BY <1>1, FS_Subset
<1> QED
  BY <1>2, FS_CardinalityType DEF Count

LEMMA CountNone ==
  ASSUME NEW q, NEW k, \A i \in 1 .. Len(q) : ~(q[i].of = "dst" /\ q[i].kind = k)
  PROVE  Count(q, k) = 0
<1>1. OfKind(q, k) = {}
  BY DEF OfKind
<1> QED
  BY <1>1, FS_EmptySet DEF Count

LEMMA CountSome ==
  ASSUME NEW q \in Seq(AnyEvent), NEW k,
         NEW i \in 1 .. Len(q), q[i].of = "dst", q[i].kind = k
  PROVE  Count(q, k) >= 1
<1>1. i \in OfKind(q, k)
  BY DEF OfKind
<1>2. Cardinality(OfKind(q, k)) # 0
  BY <1>1, CountNat, FS_EmptySet
<1> QED
  BY <1>2, CountNat DEF Count

Counts(e, k) == IF e.of = "dst" /\ e.kind = k THEN 1 ELSE 0

LEMMA CountAppend ==
  ASSUME NEW q \in Seq(AnyEvent), NEW e \in AnyEvent, NEW k
  PROVE  Count(Append(q, e), k) = Count(q, k) + Counts(e, k)
<1> DEFINE n == Len(q) + 1
<1>1. /\ Len(q) \in Nat /\ Len(Append(q, e)) = n
      /\ \A i \in 1 .. Len(q) : Append(q, e)[i] = q[i]
      /\ Append(q, e)[n] = e
  BY LenProperties, AppendProperties
<1>2. n \notin OfKind(q, k)
  BY <1>1 DEF OfKind
<1>3. CASE e.of = "dst" /\ e.kind = k
  <2>1. OfKind(Append(q, e), k) = OfKind(q, k) \cup {n}
    BY <1>1, <1>3 DEF OfKind
  <2> QED
    BY <1>2, <1>3, <2>1, CountNat, FS_AddElement DEF Count, Counts
<1>4. CASE ~(e.of = "dst" /\ e.kind = k)
  <2>1. OfKind(Append(q, e), k) = OfKind(q, k)
    BY <1>1, <1>4 DEF OfKind
  <2> QED
    BY <1>4, <2>1, CountNat DEF Count, Counts
<1> QED
  BY <1>3, <1>4

LEMMA CountTail ==
  ASSUME NEW q \in Seq(AnyEvent), q # <<>>, NEW k
  PROVE  Count(q, k) = Count(Tail(q), k) + Counts(Head(q), k)
<1>1. /\ Len(q) \in Nat /\ Len(q) > 0 /\ Tail(q) \in Seq(AnyEvent)
      /\ Len(Tail(q)) = Len(q) - 1 /\ Head(q) = q[1]
      /\ \A i \in 1 .. Len(Tail(q)) : Tail(q)[i] = q[i + 1]
  BY HeadTailProperties, EmptySeq, LenProperties
<1> DEFINE T == OfKind(Tail(q), k)
           S == OfKind(q, k) \ {1}
           down == [i \in S |-> i - 1]
<1>2. \A i \in S : i \in 2 .. Len(q) /\ i - 1 \in T
  BY <1>1 DEF OfKind
<1>3. \A j \in T : j + 1 \in S /\ j \in 1 .. Len(q) - 1
  BY <1>1 DEF OfKind
<1>4. down \in Bijection(S, T)
  <2>1. down \in [S -> T]
    BY <1>2
  <2>2. \A i, j \in S : down[i] = down[j] => i = j
    BY <1>2
  <2>3. \A j \in T : \E i \in S : down[i] = j
    <3> SUFFICES ASSUME NEW j \in T PROVE \E i \in S : down[i] = j
      OBVIOUS
    <3>1. j + 1 \in S /\ down[j + 1] = j
      BY <1>3
    <3> QED
      BY <3>1
  <2> QED
    BY <2>1, <2>2, <2>3 DEF Bijection, Injection, Surjection, IsInjective
<1>5. IsFiniteSet(S) /\ Cardinality(S) = Cardinality(OfKind(q, k)) - Counts(Head(q), k)
  <2>1. 1 \in OfKind(q, k) <=> Head(q).of = "dst" /\ Head(q).kind = k
    BY <1>1 DEF OfKind
  <2>2. /\ IsFiniteSet(S)
        /\ Cardinality(S) = IF 1 \in OfKind(q, k) THEN Cardinality(OfKind(q, k)) - 1
                                                  ELSE Cardinality(OfKind(q, k))
    BY CountNat, FS_RemoveElement
  <2> QED
    BY <2>1, <2>2, CountNat DEF Counts, Count
<1>6. Cardinality(T) = Cardinality(S)
  BY <1>4, <1>5, FS_Bijection DEF ExistsBijection
<1> QED
  BY <1>1, <1>5, <1>6, CountNat DEF Count, Counts

LEMMA AboutTail ==
  ASSUME NEW q \in Seq(AnyEvent), q # <<>>, NEW f
  PROVE  /\ Head(q) \in AnyEvent /\ Tail(q) \in Seq(AnyEvent)
         /\ Has(q, f) <=> About(Head(q), f) \/ Has(Tail(q), f)
         /\ (About(Head(q), f) /\ ~Has(Tail(q), f)) => Newest(q, 1, f) /\ 1 \in 1 .. Len(q)
                                                       /\ q[1] = Head(q)
         /\ \A i \in 1 .. Len(Tail(q)) :
              Newest(Tail(q), i, f) => /\ Newest(q, i + 1, f) /\ i + 1 \in 1 .. Len(q)
                                       /\ Tail(q)[i] = q[i + 1]
<1>1. /\ Len(q) \in Nat /\ Len(q) > 0 /\ Tail(q) \in Seq(AnyEvent) /\ Head(q) \in AnyEvent
      /\ Len(Tail(q)) = Len(q) - 1 /\ Head(q) = q[1]
      /\ \A i \in 1 .. Len(Tail(q)) : Tail(q)[i] = q[i + 1]
  BY HeadTailProperties, EmptySeq, LenProperties
<1>2. \A j \in 2 .. Len(q) : j - 1 \in 1 .. Len(Tail(q)) /\ Tail(q)[j - 1] = q[j]
  BY <1>1
<1>3. \A i \in 1 .. Len(Tail(q)) : i + 1 \in 2 .. Len(q)
  BY <1>1
<1>4. Has(q, f) <=> About(Head(q), f) \/ Has(Tail(q), f)
  <2>1. ASSUME Has(q, f) PROVE About(Head(q), f) \/ Has(Tail(q), f)
    <3>1. PICK i \in 1 .. Len(q) : About(q[i], f)
      BY <2>1 DEF Has
    <3>2. i = 1 \/ i \in 2 .. Len(q)
      BY <1>1
    <3> QED
      BY <1>1, <1>2, <3>1, <3>2 DEF Has
  <2>2. ASSUME About(Head(q), f) \/ Has(Tail(q), f) PROVE Has(q, f)
    BY <1>1, <1>3, <2>2 DEF Has
  <2> QED
    BY <2>1, <2>2
<1>5. ASSUME About(Head(q), f), ~Has(Tail(q), f) PROVE Newest(q, 1, f)
  <2>1. \A j \in 1 + 1 .. Len(q) : j \in 2 .. Len(q)
    BY <1>1
  <2>2. \A j \in 1 + 1 .. Len(q) : ~About(q[j], f)
    BY <1>2, <1>5, <2>1 DEF Has
  <2> QED
    BY <1>1, <1>5, <2>2 DEF Newest
<1>6. ASSUME NEW i \in 1 .. Len(Tail(q)), Newest(Tail(q), i, f) PROVE Newest(q, i + 1, f)
  <2>1. About(q[i + 1], f)
    BY <1>1, <1>6 DEF Newest
  <2>2. ASSUME NEW j \in i + 2 .. Len(q) PROVE ~About(q[j], f)
    <3>1. j - 1 \in i + 1 .. Len(Tail(q)) /\ j \in 2 .. Len(q)
      BY <1>1
    <3> QED
      BY <1>2, <1>6, <3>1 DEF Newest
  <2> QED
    BY <2>1, <2>2 DEF Newest
<1> QED
  BY <1>1, <1>3, <1>4, <1>5, <1>6

\* What a removed watch leaves of the events.
LEMMA StaleEvents ==
  ASSUME NEW q \in Seq(AnyEvent)
  PROVE  /\ Stale(q) \in Seq(AnyEvent)
         /\ \A k : Count(Stale(q), k) = 0
         /\ \A f : ~Has(Stale(q), f)
<1>1. Len(q) \in Nat /\ \A i \in 1 .. Len(q) : q[i] \in AnyEvent
  BY LenProperties
<1>2. \A i \in 1 .. Len(q) :
        [q[i] EXCEPT !.of = "stale"] \in AnyEvent /\ [q[i] EXCEPT !.of = "stale"].of = "stale"
  BY <1>1 DEF AnyEvent
<1>3. Stale(q) \in [1 .. Len(q) -> AnyEvent]
  BY <1>2 DEF Stale
<1>4. Stale(q) \in Seq(AnyEvent)
  BY <1>1, <1>3, SeqDef
<1>5. Len(Stale(q)) = Len(q)
  BY <1>1, <1>3, <1>4, LenProperties
<1>6. \A i \in 1 .. Len(Stale(q)) : Stale(q)[i].of = "stale"
  BY <1>2, <1>5 DEF Stale
<1>7. \A k : Count(Stale(q), k) = 0
  BY <1>6, CountNone
<1> QED
  BY <1>4, <1>6, <1>7 DEF Has, About

\* A new event, or one that is merged with the last unread one.
LEMMA PushEvents ==
  ASSUME queue \in Seq(AnyEvent), NEW e \in AnyEvent
  PROVE  /\ Push(e) \in Seq(AnyEvent)
         /\ \A k : /\ Count(Push(e), k) \in {Count(queue, k), Count(queue, k) + Counts(e, k)}
                   /\ Count(queue, k) \in Nat /\ Counts(e, k) \in {0, 1}
                   /\ Counts(e, k) = 1 => Count(Push(e), k) >= 1
         /\ \A f : Has(Push(e), f) <=> Has(queue, f) \/ About(e, f)
         /\ \A f : \A i \in 1 .. Len(Push(e)) :
              Newest(Push(e), i, f) =>
                \/ About(e, f) /\ Push(e)[i] = e
                \/ /\ ~About(e, f) /\ i \in 1 .. Len(queue)
                   /\ Push(e)[i] = queue[i] /\ Newest(queue, i, f)
<1>1. Len(queue) \in Nat
  BY LenProperties
<1>2. \A k : Count(queue, k) \in Nat /\ Counts(e, k) \in {0, 1}
  BY CountNat DEF Counts
<1>3. CASE queue # <<>> /\ queue[Len(queue)] = e
  <2>1. Push(e) = queue /\ Len(queue) \in 1 .. Len(queue)
    BY <1>1, <1>3, EmptySeq DEF Push
  <2>2. ASSUME NEW k, Counts(e, k) = 1 PROVE Count(queue, k) >= 1
    BY <1>3, <2>1, <2>2, CountSome DEF Counts
  <2>3. ASSUME NEW f, About(e, f) PROVE Has(queue, f)
    BY <1>3, <2>1, <2>3 DEF Has
  <2>4. ASSUME NEW f, NEW i \in 1 .. Len(queue), Newest(queue, i, f), About(e, f)
        PROVE  queue[i] = e
    <3>1. i = Len(queue) \/ Len(queue) \in i + 1 .. Len(queue)
      BY <1>1
    <3> QED
      BY <1>3, <2>4, <3>1 DEF Newest
  <2> QED
    BY <1>2, <2>1, <2>2, <2>3, <2>4
<1>4. CASE ~(queue # <<>> /\ queue[Len(queue)] = e)
  <2> DEFINE p == Append(queue, e)
             n == Len(queue) + 1
  <2>1. /\ Push(e) = p /\ p \in Seq(AnyEvent) /\ Len(p) = n
        /\ \A i \in 1 .. Len(queue) : p[i] = queue[i]
        /\ p[n] = e
    BY <1>1, <1>4, AppendProperties DEF Push
  <2>2. n \in 1 .. n /\ \A i \in 1 .. n : i = n \/ i \in 1 .. Len(queue)
    BY <1>1
  <2>3. \A i \in 1 .. Len(queue) : i \in 1 .. n /\ i + 1 .. Len(queue) \subseteq i + 1 .. n
                                   /\ n \in i + 1 .. n /\ i + 1 .. Len(queue) \subseteq 1 .. Len(queue)
    BY <1>1
  <2> HIDE DEF p, n
  <2>4. \A k : Count(p, k) = Count(queue, k) + Counts(e, k)
    BY CountAppend DEF p
  <2>5. \A f : Has(p, f) <=> Has(queue, f) \/ About(e, f)
    BY <2>1, <2>2, <2>3 DEF Has
  <2>6. ASSUME NEW f, NEW i \in 1 .. n, Newest(p, i, f)
        PROVE  \/ About(e, f) /\ p[i] = e
               \/ ~About(e, f) /\ i \in 1 .. Len(queue) /\ p[i] = queue[i] /\ Newest(queue, i, f)
    <3>1. CASE i = n
      BY <2>1, <2>6, <3>1 DEF Newest
    <3>2. CASE i \in 1 .. Len(queue)
      <4>1. ~About(e, f)
        BY <2>1, <2>3, <2>6, <3>2 DEF Newest
      <4>2. Newest(queue, i, f)
        BY <2>1, <2>3, <2>6, <3>2 DEF Newest
      <4> QED
        BY <2>1, <3>2, <4>1, <4>2
    <3> QED
      BY <2>2, <3>1, <3>2
  <2> QED
    BY <1>2, <2>1, <2>4, <2>5, <2>6
<1> QED
  BY <1>3, <1>4
-----------------------------------------------------------------------------
(***************************************************************************)
(* What a step may do, in terms of the events and files it changes.        *)
(***************************************************************************)
FilesTyped ==
  /\ src \in Contents /\ dst \in [Storages -> Contents]
  /\ dir \in [Storages -> BOOLEAN] /\ mounted \in [Storages -> BOOLEAN]
WatchTyped ==
  /\ path \in Storages /\ wd_src \in BOOLEAN /\ wd_dst \in Storages \cup {None}
  /\ alive \in BOOLEAN
StateTyped ==
  /\ lock \in {"free", "monitor", "server"} /\ asked \in Storages \cup {None}
  /\ phase \in {"start", "look", "sync", "watch", "made", "none"} /\ restore \subseteq Names
  /\ changes \in 0 .. Changes /\ missed \subseteq Names /\ failed \subseteq Names
  /\ failing \in BOOLEAN /\ unlisted \in [Kinds -> Nat]
DropsTyped == drops \in [Kinds -> Nat]

LEMMA TypedParts ==
  /\ Typed <=> FilesTyped /\ WatchTyped /\ StateTyped /\ DropsTyped /\ EventsTyped
  /\ Typed' <=> FilesTyped' /\ WatchTyped' /\ StateTyped' /\ DropsTyped' /\ EventsTyped'
BY DEF Typed, TypeOK, FilesTyped, WatchTyped, StateTyped, DropsTyped

Put(s, f, v) == [dst EXCEPT ![s][f] = v]

LEMMA PutFile ==
  ASSUME dst \in [Storages -> Contents], NEW s \in Storages, NEW f, NEW v,
         f \in Names => v \in Content
  PROVE  /\ Put(s, f, v) \in [Storages -> Contents]
         /\ \A t \in Storages, g \in Names :
              Put(s, f, v)[t][g] = IF t = s /\ g = f THEN v ELSE dst[t][g]
<1>1. dst[s] \in [Names -> Content]
  BY DEF Contents
<1> DEFINE new == [dst[s] EXCEPT ![f] = v]
<1>2. /\ new \in Contents
      /\ \A g \in Names : new[g] = IF g = f THEN v ELSE dst[s][g]
  BY <1>1 DEF Contents
<1>3. Put(s, f, v) = [dst EXCEPT ![s] = new]
  BY DEF Put
<1> HIDE DEF new
<1>4. /\ [dst EXCEPT ![s] = new] \in [Storages -> Contents]
      /\ \A t \in Storages : [dst EXCEPT ![s] = new][t] = IF t = s THEN new ELSE dst[t]
  BY <1>2
<1>5. ASSUME NEW t \in Storages, NEW g \in Names
      PROVE  [dst EXCEPT ![s] = new][t][g] = IF t = s /\ g = f THEN v ELSE dst[t][g]
  <2>1. [dst EXCEPT ![s] = new][t] = IF t = s THEN new ELSE dst[t]
    BY <1>4
  <2>2. new[g] = IF g = f THEN v ELSE dst[s][g]
    BY <1>2
  <2> QED
    BY <2>1, <2>2
<1> QED
  BY <1>3, <1>4, <1>5

\* The monitor handles e: the files and events it changes.
Entry(e) == e.of = "dst" /\ drops[e.kind] > 0
Changed(e) ==
  /\ \/ dst' = dst
     \/ Folder(path) /\ \E v \in {src[e.name], None, Short} : dst' = Put(path, e.name, v)
  /\ failed' \in {failed, failed \cup {e.name}, failed \ {e.name}}
Counted(e) ==
  \/ UNCHANGED <<queue, drops>> /\ unlisted' = Without(e)
  \/ /\ \E k \in Kinds : /\ queue' \in {queue, Push(Event("dst", k, e.name))}
                         /\ drops' = [drops EXCEPT ![k] = @ + 1]
     /\ unlisted' = Without(e)
  \/ /\ queue' \in {queue, Push(Event("dst", "close", e.name))} /\ UNCHANGED drops
     /\ unlisted' = With(Without(e), "close")
Handles(e) ==
  /\ batch # <<>> /\ e = Head(batch) /\ e \in AnyEvent /\ e.kind \in Kinds /\ batch' = Tail(batch)
  /\ phase = "none" /\ lock' \in {"free", "monitor"}
  /\ UNCHANGED <<src, dir, mounted, failing, path, watches, remount, asked, changes, missed>>
  /\ Changed(e)
  /\ \/ /\ Entry(e) /\ UNCHANGED <<queue, unlisted>>
        /\ drops' = [drops EXCEPT ![e.kind] = @ - 1]
     \/ ~Entry(e) /\ Counted(e)

LEMMA CopyEffect ==
  ASSUME NEW e, CopyToDst(e) \/ DeleteFromDst(e)
  PROVE  Changed(e) /\ Counted(e)
<1>1. CASE CopyToDst(e)
  <2>1. Changed(e)
    BY <1>1 DEF CopyToDst, Changed, Replace, Put, NothingDone
  <2>2. "close" \in Kinds
    BY DEF Kinds
  <2>3. Counted(e)
    BY <1>1, <2>2 DEF CopyToDst, Counted, Echo, DropAdd, Cut, Empty, NothingDone
  <2> QED
    BY <2>1, <2>3
<1>2. CASE DeleteFromDst(e)
  <2>1. Changed(e)
    BY <1>2 DEF DeleteFromDst, Changed, Replace, Put, NothingDone
  <2>2. "delete" \in Kinds
    BY DEF Kinds
  <2>3. Counted(e)
    BY <1>2, <2>2 DEF DeleteFromDst, Counted, Echo, DropAdd, NothingDone
  <2> QED
    BY <2>1, <2>3
<1> QED
  BY <1>1, <1>2

LEMMA HandleEffect ==
  ASSUME Typed, Handle
  PROVE  Handles(Head(batch))
<1> DEFINE e == Head(batch)
<1>1. batch # <<>> /\ batch \in Seq(AnyEvent)
  BY DEF Handle, Typed, EventsTyped
<1>2. e \in AnyEvent /\ e.kind \in Kinds
  <2>1. Head(batch) \in AnyEvent
    BY <1>1, HeadTailProperties
  <2>2. Head(batch).kind # "ignored"
    BY DEF Handle
  <2> QED
    BY <2>1, <2>2 DEF AnyEvent
<1>3. /\ batch' = Tail(batch) /\ phase = "none" /\ lock' \in {"free", "monitor"}
      /\ UNCHANGED <<src, dir, mounted, failing, path, watches, remount, asked, changes, missed>>
  BY DEF Handle
<1>4. \/ e.of = "src" /\ OfSrc(e)
      \/ e.of = "dst" /\ OfDst(e)
      \/ e.of = "stale" /\ NothingDone /\ UNCHANGED <<failed, unlisted>>
  BY DEF Handle
<1> HIDE DEF e
<1>5. CASE (CopyToDst(e) \/ DeleteFromDst(e)) /\ ~Entry(e)
  <2>1. Changed(e) /\ Counted(e)
    BY <1>5, CopyEffect
  <2> QED
    BY <1>1, <1>2, <1>3, <1>5, <2>1 DEF Handles, e
<1>6. CASE NothingDone /\ UNCHANGED <<failed, unlisted>> /\ e.of # "dst"
  <2>1. Changed(e) /\ Counted(e) /\ ~Entry(e)
    BY <1>6 DEF Changed, Counted, Entry, NothingDone, Without
  <2> QED
    BY <1>1, <1>2, <1>3, <2>1 DEF Handles, e
<1>7. CASE /\ Entry(e) /\ drops' = [drops EXCEPT ![e.kind] = @ - 1]
           /\ UNCHANGED <<dst, queue, failed, unlisted>>
  <2>1. Changed(e)
    BY <1>7 DEF Changed
  <2> QED
    BY <1>1, <1>2, <1>3, <1>7, <2>1 DEF Handles, e
<1>8. CASE e.of = "src" /\ OfSrc(e)
  <2>1. \/ NothingDone /\ UNCHANGED <<failed, unlisted>>
        \/ CopyToDst(e) \/ DeleteFromDst(e)
    BY <1>2, <1>8 DEF OfSrc, Kinds
  <2>2. e.of # "dst" /\ ~Entry(e)
    BY <1>8 DEF Entry
  <2> QED
    BY <1>5, <1>6, <2>1, <2>2
<1>9. CASE e.of = "dst" /\ OfDst(e)
  <2>1. \/ /\ InDropList(e.kind) /\ drops' = [drops EXCEPT ![e.kind] = @ - 1]
           /\ UNCHANGED <<dst, queue, failed, unlisted>>
        \/ ~InDropList(e.kind) /\ (CopyToDst(e) \/ DeleteFromDst(e))
    BY <1>9 DEF OfDst
  <2>2. Entry(e) <=> InDropList(e.kind)
    BY <1>9 DEF Entry, InDropList
  <2> QED
    BY <1>5, <1>7, <2>1, <2>2
<1> QED
  BY <1>4, <1>6, <1>8, <1>9

LEMMA EventType ==
  ASSUME NEW o \in {"src", "dst", "stale"}, NEW k \in Kinds, NEW n \in Names
  PROVE  /\ Event(o, k, n) \in AnyEvent
         /\ Event(o, k, n).of = o /\ Event(o, k, n).kind = k /\ Event(o, k, n).name = n
BY DEF Event, AnyEvent

LEMMA IgnoredType ==
  /\ Event("dst", "ignored", None) \in AnyEvent
  /\ Event("dst", "ignored", None).of = "dst" /\ Event("dst", "ignored", None).kind = "ignored"
BY DEF Event, AnyEvent, Kinds

\* The unlisted events, without one that is handled and with one that comes.
LEMMA UnlistedType ==
  ASSUME unlisted \in [Kinds -> Nat], NEW e, e.kind \in Kinds, NEW k \in Kinds
  PROVE  /\ Without(e) \in [Kinds -> Nat]
         /\ Without(e)[k] = IF e.of = "dst" /\ ~InDropList(e.kind) /\ unlisted[k] > 0 /\ k = e.kind
                            THEN unlisted[k] - 1 ELSE unlisted[k]
         /\ \A u \in [Kinds -> Nat], c \in Kinds :
              /\ With(u, c) \in [Kinds -> Nat]
              /\ With(u, c)[k] = IF queue' # queue /\ k = c THEN u[k] + 1 ELSE u[k]
<1>1. unlisted[e.kind] \in Nat
  OBVIOUS
<1>2. /\ Without(e) \in [Kinds -> Nat]
      /\ Without(e)[k] = IF e.of = "dst" /\ ~InDropList(e.kind) /\ unlisted[k] > 0 /\ k = e.kind
                            THEN unlisted[k] - 1 ELSE unlisted[k]
  <2>1. CASE e.of = "dst" /\ ~InDropList(e.kind) /\ unlisted[e.kind] > 0
    <3>1. Without(e) = [unlisted EXCEPT ![e.kind] = @ - 1] /\ unlisted[e.kind] - 1 \in Nat
      BY <1>1, <2>1 DEF Without
    <3> QED
      BY <2>1, <3>1
  <2>2. CASE ~(e.of = "dst" /\ ~InDropList(e.kind) /\ unlisted[e.kind] > 0)
    BY <2>2 DEF Without
  <2> QED
    BY <2>1, <2>2
<1>3. ASSUME NEW u \in [Kinds -> Nat], NEW c \in Kinds
      PROVE  /\ With(u, c) \in [Kinds -> Nat]
             /\ With(u, c)[k] = IF queue' # queue /\ k = c THEN u[k] + 1 ELSE u[k]
  BY DEF With
<1> QED
  BY <1>2, <1>3
-----------------------------------------------------------------------------
(***************************************************************************)
(* The types.                                                              *)
(***************************************************************************)
LEMMA RemoveWatchTyped ==
  ASSUME Typed, RemoveWatch
  PROVE  /\ EventsTyped' /\ wd_src' = FALSE /\ wd_dst' = None /\ alive' = FALSE
         /\ \A k : Count(queue', k) = 0 /\ Count(batch', k) = 0
         /\ \A f : ~Has(queue', f) /\ ~Has(batch', f)
<1>1. /\ queue' = Stale(queue) /\ batch' = Stale(batch)
      /\ wd_src' = FALSE /\ wd_dst' = None /\ alive' = FALSE
  BY DEF RemoveWatch
<1>2. queue \in Seq(AnyEvent) /\ batch \in Seq(AnyEvent)
  BY DEF Typed, EventsTyped
<1> QED
  BY <1>1, <1>2, StaleEvents DEF EventsTyped

\* What copying does to a file that it copies whole.
LEMMA PastedFile ==
  ASSUME NEW from \in Content, NEW to \in Content, NEW o \in Outcomes
  PROVE  /\ Pasted(from, to, o) \in Content
         /\ o = "whole" /\ from # None => Pasted(from, to, o) = from
         /\ from = None => Pasted(from, to, o) = to
<1>1. None \in Content /\ Short \in Content /\ o \in {"whole", "short", "none"}
  BY DEF Content, Outcomes
<1>2. CASE from = None
  BY <1>2 DEF Pasted
<1>3. CASE from # None /\ o = "whole"
  BY <1>3 DEF Pasted
<1>4. CASE from # None /\ o = "short"
  BY <1>1, <1>4 DEF Pasted
<1>5. CASE from # None /\ o = "none"
  BY <1>5 DEF Pasted
<1> QED
  BY <1>1, <1>2, <1>3, <1>4, <1>5

LEMMA CopiedDir ==
  ASSUME NEW from \in Contents, NEW to \in Contents, NEW o \in [Names -> Outcomes]
  PROVE  /\ CopyDir(from, to, o) \in Contents
         /\ \A f \in Names : f \notin NotCopied(from, o) =>
              CopyDir(from, to, o)[f] = IF from[f] # None THEN from[f] ELSE to[f]
<1>1. ASSUME NEW f \in Names
      PROVE  /\ CopyDir(from, to, o)[f] = Pasted(from[f], to[f], o[f])
             /\ from[f] \in Content /\ to[f] \in Content /\ o[f] \in Outcomes
  BY DEF CopyDir, Contents
<1>2. ASSUME NEW f \in Names PROVE Pasted(from[f], to[f], o[f]) \in Content
  BY <1>1, PastedFile
<1>3. CopyDir(from, to, o) \in Contents
  BY <1>2 DEF CopyDir, Contents
<1>4. ASSUME NEW f \in Names, f \notin NotCopied(from, o)
      PROVE  CopyDir(from, to, o)[f] = IF from[f] # None THEN from[f] ELSE to[f]
  <2>1. from[f] = None \/ o[f] = "whole"
    BY <1>4 DEF NotCopied
  <2> QED
    BY <1>1, <2>1, PastedFile
<1> QED
  BY <1>3, <1>4

\* A new folder holds what src does, but for the files that were not copied.
LEMMA FolderMade ==
  ASSUME FilesTyped, path \in Storages, NewFolder
  PROVE  /\ dir' = [dir EXCEPT ![path] = TRUE] /\ dst' \in [Storages -> Contents]
         /\ \A s \in Storages : s # path => dst'[s] = dst[s]
         /\ missed' = {} /\ failed' \subseteq Names
         /\ \A f \in Names \ failed' :
              dst'[path][f] = IF src[f] # None THEN src[f] ELSE dst[path][f]
<1>1. PICK o \in [Names -> Outcomes] :
        /\ dir' = [dir EXCEPT ![path] = TRUE]
        /\ dst' = [dst EXCEPT ![path] = CopyDir(src, @, o)]
        /\ missed' = {} /\ failed' = NotCopied(src, o)
  BY DEF NewFolder
<1>2. src \in Contents /\ dst \in [Storages -> Contents] /\ dst[path] \in Contents
  BY DEF FilesTyped
<1>3. /\ CopyDir(src, dst[path], o) \in Contents
      /\ \A f \in Names : f \notin NotCopied(src, o) =>
           CopyDir(src, dst[path], o)[f] = IF src[f] # None THEN src[f] ELSE dst[path][f]
  BY <1>2, CopiedDir
<1>4. NotCopied(src, o) \subseteq Names
  BY DEF NotCopied
<1>5. /\ dst' \in [Storages -> Contents] /\ dst'[path] = CopyDir(src, dst[path], o)
      /\ \A s \in Storages : s # path => dst'[s] = dst[s]
  BY <1>1, <1>2, <1>3
<1> QED
  BY <1>1, <1>3, <1>4, <1>5

LEMMA HandleTyped ==
  ASSUME Typed, Handle
  PROVE  Typed'
<1> DEFINE e == Head(batch)
<1>0. Handles(e) /\ FilesTyped /\ WatchTyped /\ StateTyped
  BY HandleEffect, TypedParts
<1> HIDE DEF e
<1>1. e.name \in Names /\ e.kind \in Kinds
  BY <1>0 DEF Handles, AnyEvent
<1>2. FilesTyped'
  <2>1. UNCHANGED <<src, dir, mounted>> /\ path \in Storages /\ dst \in [Storages -> Contents]
    BY <1>0 DEF Handles, WatchTyped, FilesTyped
  <2>2. \A v \in {src[e.name], None, Short} : v \in Content
    BY <1>0, <1>1 DEF FilesTyped, Contents, Content
  <2>3. dst' \in [Storages -> Contents]
    BY <1>0, <2>1, <2>2, PutFile DEF Handles, Changed
  <2> QED
    BY <1>0, <2>1, <2>3 DEF FilesTyped
<1>3. WatchTyped'
  BY <1>0 DEF Handles, WatchTyped, watches
<1>4. DropsTyped'
  <2>1. drops \in [Kinds -> Nat]
    BY TypedParts DEF DropsTyped
  <2>2. CASE drops' = drops
    BY <2>1, <2>2 DEF DropsTyped
  <2>3. CASE drops[e.kind] > 0 /\ drops' = [drops EXCEPT ![e.kind] = @ - 1]
    BY <1>1, <2>1, <2>3 DEF DropsTyped
  <2>4. CASE \E k \in Kinds : drops' = [drops EXCEPT ![k] = @ + 1]
    BY <2>1, <2>4 DEF DropsTyped
  <2> QED
    BY <1>0, <2>2, <2>3, <2>4 DEF Handles, Entry, Counted
<1>5. EventsTyped'
  <2>1. queue \in Seq(AnyEvent) /\ batch \in Seq(AnyEvent)
    BY DEF Typed, EventsTyped
  <2>2. batch' \in Seq(AnyEvent)
    BY <1>0, <2>1, HeadTailProperties DEF Handles
  <2>3. "close" \in Kinds
    BY DEF Kinds
  <2>4. queue' \in Seq(AnyEvent)
    BY <1>0, <1>1, <2>1, <2>3, EventType, PushEvents DEF Handles, Counted
  <2> QED
    BY <2>2, <2>4 DEF EventsTyped
<1>6. StateTyped'
  <2>1. unlisted \in [Kinds -> Nat] /\ "close" \in Kinds
    BY <1>0 DEF StateTyped, Kinds
  <2>2. Without(e) \in [Kinds -> Nat] /\ With(Without(e), "close") \in [Kinds -> Nat]
    BY <1>1, <2>1, UnlistedType
  <2>3. unlisted' \in [Kinds -> Nat]
    BY <1>0, <2>1, <2>2 DEF Handles, Counted
  <2>4. failed' \subseteq Names
    BY <1>0, <1>1 DEF Handles, Changed, StateTyped
  <2> QED
    BY <1>0, <2>3, <2>4 DEF Handles, StateTyped, remount
<1> QED
  BY <1>2, <1>3, <1>4, <1>5, <1>6, TypedParts

\* What a re-mount leaves of the files.
LEMMA SyncFiles ==
  ASSUME FilesTyped, path \in Storages, Sync
  PROVE  /\ src' \in Contents /\ dst' \in [Storages -> Contents] /\ failed' \subseteq Names \cup restore
         /\ dst' = dst \/ (Folder(path) /\ \A s \in Storages : s # path => dst'[s] = dst[s])
         /\ Folder(path) =>
              \A f \in Names \ failed' :
                /\ src'[f] = IF f \in restore /\ dst[path][f] # None THEN dst[path][f] ELSE src[f]
                /\ dst'[path][f] = IF src'[f] # None THEN src'[f] ELSE dst[path][f]
<1> DEFINE Both(r) == [f \in Names |-> IF f \in restore /\ Folder(path)
                                       THEN Pasted(dst[path][f], src[f], r[f]) ELSE src[f]]
<1>1. PICK r \in [Names -> Outcomes], o \in [Names -> Outcomes] :
        /\ src' = Both(r)
        /\ dst' = IF Folder(path) THEN [dst EXCEPT ![path] = CopyDir(Both(r), @, o)] ELSE dst
        /\ failed' = NotCopied(Both(r), o) \cup {f \in restore : r[f] # "whole"}
  BY DEF Sync
<1> DEFINE both == Both(r)
<1>2. /\ src \in Contents /\ dst \in [Storages -> Contents] /\ dst[path] \in Contents
      /\ \A f \in Names : src[f] \in Content /\ dst[path][f] \in Content /\ r[f] \in Outcomes
  BY DEF FilesTyped, Contents
<1>3. ASSUME NEW f \in Names
      PROVE  /\ both[f] = IF f \in restore /\ Folder(path)
                          THEN Pasted(dst[path][f], src[f], r[f]) ELSE src[f]
             /\ both[f] \in Content
             /\ (f \in restore => r[f] = "whole") /\ Folder(path) =>
                  both[f] = IF f \in restore /\ dst[path][f] # None THEN dst[path][f] ELSE src[f]
  <2>1. both[f] = IF f \in restore /\ Folder(path)
                  THEN Pasted(dst[path][f], src[f], r[f]) ELSE src[f]
    OBVIOUS
  <2> HIDE DEF both
  <2>2. /\ Pasted(dst[path][f], src[f], r[f]) \in Content
        /\ r[f] = "whole" /\ dst[path][f] # None => Pasted(dst[path][f], src[f], r[f]) = dst[path][f]
        /\ dst[path][f] = None => Pasted(dst[path][f], src[f], r[f]) = src[f]
    BY <1>2, PastedFile
  <2> QED
    BY <1>2, <2>1, <2>2
<1>4. both \in Contents
  BY <1>3 DEF Contents
<1>5. src' = both
  BY <1>1
<1>6. /\ dst' = IF Folder(path) THEN [dst EXCEPT ![path] = CopyDir(both, @, o)] ELSE dst
      /\ failed' = NotCopied(both, o) \cup {f \in restore : r[f] # "whole"}
  BY <1>1
<1> HIDE DEF both
<1>7. /\ CopyDir(both, dst[path], o) \in Contents
      /\ \A f \in Names : f \notin NotCopied(both, o) =>
           CopyDir(both, dst[path], o)[f] = IF both[f] # None THEN both[f] ELSE dst[path][f]
  BY <1>2, <1>4, CopiedDir
<1>8. NotCopied(both, o) \subseteq Names
  BY DEF NotCopied
<1>9. /\ dst' \in [Storages -> Contents]
      /\ dst' = dst \/ (Folder(path) /\ \A s \in Storages : s # path => dst'[s] = dst[s])
      /\ Folder(path) => dst'[path] = CopyDir(both, dst[path], o)
  BY <1>2, <1>6, <1>7
<1>10. ASSUME Folder(path), NEW f \in Names \ failed'
       PROVE  /\ src'[f] = IF f \in restore /\ dst[path][f] # None THEN dst[path][f] ELSE src[f]
              /\ dst'[path][f] = IF src'[f] # None THEN src'[f] ELSE dst[path][f]
  <2>1. f \notin NotCopied(both, o) /\ (f \in restore => r[f] = "whole")
    BY <1>6, <1>10
  <2>2. both[f] = IF f \in restore /\ dst[path][f] # None THEN dst[path][f] ELSE src[f]
    BY <1>3, <1>10, <2>1
  <2>3. dst'[path][f] = IF both[f] # None THEN both[f] ELSE dst[path][f]
    BY <1>7, <1>9, <1>10, <2>1
  <2> QED
    BY <1>5, <2>2, <2>3
<1> QED
  BY <1>4, <1>5, <1>6, <1>8, <1>9, <1>10

\* The steps of a re-mount.
LEMMA RemountTyped ==
  ASSUME Typed, MonitorStart \/ Look \/ Sync \/ MakeFolder \/ Watch
  PROVE  Typed'
<1>0. FilesTyped /\ WatchTyped /\ StateTyped /\ DropsTyped /\ EventsTyped /\ path \in Storages
  BY TypedParts DEF WatchTyped
<1>1. CASE MonitorStart \/ Look \/ Watch
  <2>1. UNCHANGED <<files, failing, path, events, asked, changes, failed, unlisted>>
    BY <1>1 DEF MonitorStart, Look, Watch, history
  <2>2. /\ wd_src' \in {wd_src, TRUE, FALSE} /\ wd_dst' \in {wd_dst, path, None}
        /\ alive' \in {alive, TRUE, FALSE}
    BY <1>1 DEF MonitorStart, Look, Watch, AddWatch, watches
  <2>3. /\ lock' \in {lock, "free", "monitor"} /\ phase' \in {"look", "none", "sync", "watch"}
        /\ restore' \subseteq Names /\ missed' \in {missed, {}}
    BY <1>0, <1>1 DEF MonitorStart, Look, Watch, history, StateTyped
  <2>4. WatchTyped'
    BY <1>0, <2>1, <2>2 DEF WatchTyped
  <2>5. StateTyped'
    BY <1>0, <2>1, <2>3 DEF StateTyped
  <2>6. FilesTyped' /\ DropsTyped' /\ EventsTyped'
    BY <1>0, <2>1 DEF FilesTyped, DropsTyped, EventsTyped, files, events
  <2> QED
    BY <2>4, <2>5, <2>6, TypedParts
<1>2. CASE Sync
  <2>1. /\ UNCHANGED <<dir, mounted, failing, path, watches, events, lock, asked, changes, missed, unlisted>>
        /\ phase' = "watch" /\ restore' = {}
    BY <1>2 DEF Sync
  <2>2. src' \in Contents /\ dst' \in [Storages -> Contents] /\ failed' \subseteq Names \cup restore
    BY <1>0, <1>2, SyncFiles
  <2>3. FilesTyped'
    BY <1>0, <2>1, <2>2 DEF FilesTyped
  <2>4. WatchTyped' /\ DropsTyped' /\ EventsTyped'
    BY <1>0, <2>1 DEF WatchTyped, DropsTyped, EventsTyped, watches, events
  <2>5. StateTyped'
    BY <1>0, <2>1, <2>2 DEF StateTyped
  <2> QED
    BY <2>3, <2>4, <2>5, TypedParts
<1>3. CASE MakeFolder
  <2>1. /\ RemoveWatch /\ phase' = "made"
        /\ NewFolder \/ UNCHANGED <<dir, dst, missed, failed>>
        /\ UNCHANGED <<src, mounted, failing, path, drops, lock, restore, asked, changes>>
    BY <1>3 DEF MakeFolder
  <2>2. /\ dir' = dir \/ dir' = [dir EXCEPT ![path] = TRUE]
        /\ dst' \in [Storages -> Contents] /\ missed' \subseteq Names /\ failed' \subseteq Names
    BY <1>0, <2>1, FolderMade DEF FilesTyped, StateTyped
  <2>3. FilesTyped'
    BY <1>0, <2>1, <2>2 DEF FilesTyped
  <2>4. EventsTyped' /\ wd_src' = FALSE /\ wd_dst' = None /\ alive' = FALSE
    BY <2>1, RemoveWatchTyped
  <2>5. unlisted' \in [Kinds -> Nat]
    BY <2>1 DEF RemoveWatch
  <2>6. WatchTyped' /\ StateTyped' /\ DropsTyped'
    BY <1>0, <2>1, <2>2, <2>4, <2>5 DEF WatchTyped, StateTyped, DropsTyped
  <2> QED
    BY <2>3, <2>4, <2>6, TypedParts
<1> QED
  BY <1>1, <1>2, <1>3

LEMMA ReadTyped ==
  ASSUME Typed, Read
  PROVE  Typed'
<1>0. FilesTyped /\ WatchTyped /\ StateTyped /\ DropsTyped /\ EventsTyped
  BY TypedParts
<1>1. /\ batch = <<>> /\ batch' = queue /\ queue' = <<>>
      /\ UNCHANGED <<files, failing, path, watches, drops, lock, remount, asked, changes, history>>
  BY DEF Read
<1>2. EventsTyped'
  BY <1>0, <1>1, EmptySeq DEF EventsTyped
<1>3. FilesTyped' /\ WatchTyped' /\ StateTyped' /\ DropsTyped'
  BY <1>0, <1>1 DEF FilesTyped, WatchTyped, StateTyped, DropsTyped, files, watches, remount, history
<1> QED
  BY <1>2, <1>3, TypedParts

LEMMA IgnoredTyped ==
  ASSUME Typed, HandleIgnored
  PROVE  Typed'
<1>0. FilesTyped /\ WatchTyped /\ StateTyped /\ DropsTyped /\ EventsTyped /\ path \in Storages
  BY TypedParts DEF WatchTyped
<1>1. /\ batch # <<>> /\ batch' = Tail(batch) /\ wd_dst' \in {None, wd_dst}
      /\ (NewFolder \/ UNCHANGED <<dir, dst, missed, failed>>)
      /\ phase' \in {phase, "watch"} /\ lock' \in {"free", "monitor"}
      /\ UNCHANGED <<src, mounted, failing, path, wd_src, alive, queue, drops, restore, asked, changes,
                     unlisted>>
  BY DEF HandleIgnored
<1>2. /\ dir' = dir \/ dir' = [dir EXCEPT ![path] = TRUE]
      /\ dst' \in [Storages -> Contents] /\ missed' \subseteq Names /\ failed' \subseteq Names
  BY <1>0, <1>1, FolderMade DEF FilesTyped, StateTyped
<1>3. FilesTyped'
  BY <1>0, <1>1, <1>2 DEF FilesTyped
<1>4. EventsTyped'
  BY <1>0, <1>1, HeadTailProperties DEF EventsTyped
<1>5. WatchTyped' /\ StateTyped' /\ DropsTyped'
  BY <1>0, <1>1, <1>2 DEF WatchTyped, StateTyped, DropsTyped
<1> QED
  BY <1>3, <1>4, <1>5, TypedParts

\* What the service thread, applications and the storages do.
LEMMA OutsideTyped ==
  ASSUME Typed, Connect \/ AskMount \/ Mount \/ AppChange \/ Tamper \/ RemoveFolder \/ Plug \/ Fail
  PROVE  Typed'
<1>0. FilesTyped /\ WatchTyped /\ StateTyped /\ DropsTyped /\ EventsTyped
  BY TypedParts
<1>1. CASE Mount
  <2>1. /\ path' = asked /\ asked \in Storages /\ asked' = None /\ missed' = Names
        /\ lock' = "server" /\ phase' = "look"
        /\ RemoveWatch /\ UNCHANGED <<files, failing, drops, restore, changes, failed>>
    BY <1>0, <1>1 DEF Mount, StateTyped
  <2>2. EventsTyped' /\ wd_src' = FALSE /\ wd_dst' = None /\ alive' = FALSE
    BY <2>1, RemoveWatchTyped
  <2>3. unlisted' \in [Kinds -> Nat]
    BY <2>1 DEF RemoveWatch
  <2> QED
    BY <1>0, <2>1, <2>2, <2>3, TypedParts
       DEF FilesTyped, WatchTyped, StateTyped, DropsTyped, files
<1>2. CASE Connect \/ AskMount \/ AppChange \/ Tamper \/ RemoveFolder \/ Plug \/ Fail
  <2>0. changes' \in 0 .. Changes
    <3>1. Act /\ Changes \in Nat
      BY <1>2, GhostSyncAssumption DEF Connect, AskMount, AppChange, Tamper, RemoveFolder, Plug, Fail
    <3> QED
      BY <1>0, <3>1 DEF Act, StateTyped
  <2>1. CASE Connect \/ AskMount \/ Fail
    <3>1. /\ path' \in Storages /\ missed' \in {Names, missed} /\ failing' \in BOOLEAN
          /\ asked' \in Storages \cup {None}
          /\ UNCHANGED <<files, watches, events, lock, remount, failed, unlisted>>
      BY <1>0, <2>1 DEF Connect, AskMount, Fail, Selected, Storages, None, StateTyped, WatchTyped, history
    <3> QED
      BY <1>0, <2>0, <3>1, TypedParts
         DEF FilesTyped, WatchTyped, StateTyped, DropsTyped, EventsTyped, files, watches, events, remount
  <2>2. CASE AppChange
    <3>1. PICK f \in Names, v \in Data \cup {None} :
            /\ src' = [src EXCEPT ![f] = v]
            /\ queue' \in {queue, Push(Event("src", IF v = None THEN "delete" ELSE "close", f))}
            /\ missed' \in {missed, missed \cup {f}}
      BY <2>2 DEF AppChange
    <3>2. UNCHANGED <<dst, dir, mounted, failing, path, watches, batch, drops, lock, remount, asked,
                      failed, unlisted>>
      BY <2>2 DEF AppChange
    <3>3. queue' \in Seq(AnyEvent)
      BY <1>0, <3>1, EventType, PushEvents DEF EventsTyped, Kinds
    <3>4. FilesTyped'
      BY <1>0, <3>1, <3>2 DEF FilesTyped, Contents, Content
    <3>5. WatchTyped' /\ StateTyped' /\ DropsTyped' /\ EventsTyped'
      BY <1>0, <2>0, <3>1, <3>2, <3>3
         DEF WatchTyped, StateTyped, DropsTyped, EventsTyped, watches, remount
    <3> QED
      BY <3>4, <3>5, TypedParts
  <2>3. CASE Tamper
    <3>1. PICK s \in Storages, f \in Names, v \in Data \cup {None}, k \in Kinds :
            /\ dst' = [dst EXCEPT ![s][f] = v]
            /\ queue' \in {queue, Push(Event("dst", k, f))}
            /\ unlisted' = With(unlisted, k) /\ missed' = missed \cup {f}
      BY <2>3 DEF Tamper, Kinds
    <3>2. UNCHANGED <<src, dir, mounted, failing, path, watches, batch, drops, lock, remount, asked, failed>>
      BY <2>3 DEF Tamper
    <3>3. queue' \in Seq(AnyEvent)
      BY <1>0, <3>1, EventType, PushEvents DEF EventsTyped
    <3>4. dst' \in [Storages -> Contents]
      BY <1>0, <3>1, PutFile DEF FilesTyped, Put, Content
    <3>5. unlisted' \in [Kinds -> Nat]
      BY <1>0, <3>1 DEF StateTyped, With
    <3>6. FilesTyped' /\ WatchTyped' /\ StateTyped' /\ DropsTyped' /\ EventsTyped'
      BY <1>0, <2>0, <3>1, <3>2, <3>3, <3>4, <3>5
         DEF FilesTyped, WatchTyped, StateTyped, DropsTyped, EventsTyped, watches, remount
    <3> QED
      BY <3>6, TypedParts
  <2>4. CASE RemoveFolder \/ Plug
    <3>1. /\ \E s \in Storages : \/ dir' = [dir EXCEPT ![s] = FALSE] /\ mounted' = mounted
                                 \/ mounted' = [mounted EXCEPT ![s] = ~@] /\ dir' = dir
          /\ queue' \in {queue, Push(Event("dst", "ignored", None))} /\ alive' \in {alive, FALSE}
          /\ missed' \in {missed, Names}
          /\ UNCHANGED <<src, dst, failing, path, wd_src, wd_dst, batch, drops, lock, remount, asked,
                         failed, unlisted>>
      BY <2>4 DEF RemoveFolder, Plug, Lost
    <3>2. queue' \in Seq(AnyEvent)
      BY <1>0, <3>1, IgnoredType, PushEvents DEF EventsTyped
    <3>3. FilesTyped'
      BY <1>0, <3>1 DEF FilesTyped
    <3>4. WatchTyped' /\ StateTyped' /\ DropsTyped' /\ EventsTyped'
      BY <1>0, <2>0, <3>1, <3>2 DEF WatchTyped, StateTyped, DropsTyped, EventsTyped, remount
    <3> QED
      BY <3>3, <3>4, TypedParts
  <2> QED
    BY <1>2, <2>1, <2>2, <2>3, <2>4
<1> QED
  BY <1>1, <1>2

LEMMA TypeInductive ==
  /\ Init => Typed
  /\ Typed /\ [Next]_vars => Typed'
<1>1. ASSUME Init PROVE Typed
  <2>1. <<>> \in Seq(AnyEvent) /\ Changes \in Nat
    BY EmptySeq, GhostSyncAssumption
  <2>2. Before \cup {None} \subseteq Content
    BY DEF Content
  <2>3. FilesTyped
    <3>1. src \in [Names -> Before \cup {None}] /\ dst \in [Storages -> [Names -> Before \cup {None}]]
      BY <1>1 DEF Init
    <3>2. [Names -> Before \cup {None}] \subseteq Contents
      BY <2>2 DEF Contents
    <3> QED
      BY <1>1, <3>1, <3>2 DEF Init, FilesTyped
  <2>4. WatchTyped
    BY <1>1 DEF Init, WatchTyped, Storages
  <2>5. StateTyped
    <3>1. unlisted \in [Kinds -> Nat] /\ missed \subseteq Names /\ failed \subseteq Names
      BY <1>1 DEF Init
    <3>2. changes \in 0 .. Changes
      BY <1>1, <2>1 DEF Init
    <3> QED
      BY <1>1, <3>1, <3>2 DEF Init, StateTyped
  <2>6. DropsTyped /\ EventsTyped
    BY <1>1, <2>1 DEF Init, DropsTyped, EventsTyped
  <2> QED
    BY <2>3, <2>4, <2>5, <2>6, TypedParts
<1>2. ASSUME Typed, UNCHANGED vars PROVE Typed'
  <2>1. FilesTyped /\ WatchTyped /\ StateTyped /\ DropsTyped /\ EventsTyped
    BY <1>2, TypedParts
  <2> QED
    BY <1>2, <2>1, TypedParts
       DEF FilesTyped, WatchTyped, StateTyped, DropsTyped, EventsTyped, vars, files, watches,
           events, remount, history
<1>3. ASSUME Typed, Next PROVE Typed'
  BY <1>3, RemountTyped, ReadTyped, HandleTyped, IgnoredTyped, OutsideTyped DEF Next, Ghost
<1> QED
  BY <1>1, <1>2, <1>3

(***************************************************************************)
(* TypeOK: every state of ghost is one of its variables' types; no drop    *)
(* list entry is taken that is not there.                                  *)
(***************************************************************************)
THEOREM TypeCorrect == Spec => []TypeOK
<1>1. Typed => TypeOK
  BY DEF Typed
<1> QED
  BY <1>1, TypeInductive, PTL DEF Spec
-----------------------------------------------------------------------------
(***************************************************************************)
(* Ghost's own changes: each event of dst on its way has an entry in the   *)
(* drop list, or came without one.                                         *)
(***************************************************************************)
LEMMA CountsNat ==
  ASSUME Typed, NEW k
  PROVE  Count(batch, k) \in Nat /\ Count(queue, k) \in Nat
BY CountNat DEF Typed, EventsTyped

\* What an event of dst adds to the unread ones.
LEMMA EchoCount ==
  ASSUME queue \in Seq(AnyEvent), NEW c \in Kinds, NEW n \in Names, NEW k,
         queue' \in {queue, Push(Event("dst", c, n))}
  PROVE  Count(queue', k) \in {Count(queue, k), Count(queue, k) + (IF k = c THEN 1 ELSE 0)}
<1> DEFINE x == Event("dst", c, n)
<1>1. x \in AnyEvent /\ x.of = "dst" /\ x.kind = c
  BY EventType
<1>2. Counts(x, k) = IF k = c THEN 1 ELSE 0
  BY <1>1 DEF Counts
<1>3. Count(Push(x), k) \in {Count(queue, k), Count(queue, k) + Counts(x, k)} /\ Count(queue, k) \in Nat
  BY <1>1, PushEvents
<1>4. queue' \in {queue, Push(x)}
  OBVIOUS
<1> HIDE DEF x
<1> QED
  BY <1>2, <1>3, <1>4

LEMMA HandleKeepsEcho ==
  ASSUME Typed, EchoInv, Handle
  PROVE  EchoInv'
<1> DEFINE e == Head(batch)
<1>0. Handles(e)
  BY HandleEffect
<1>1. /\ batch' = Tail(batch) /\ batch # <<>> /\ batch \in Seq(AnyEvent) /\ queue \in Seq(AnyEvent)
      /\ e.name \in Names /\ e.kind \in Kinds
  BY <1>0 DEF Typed, EventsTyped, Handles, AnyEvent
<1>2. \A k : Count(batch, k) = Count(batch', k) + Counts(e, k)
  BY <1>1, CountTail
<1>3. \A k : Counts(e, k) \in {0, 1}
  BY DEF Counts
<1>4. drops \in [Kinds -> Nat] /\ unlisted \in [Kinds -> Nat] /\ "close" \in Kinds
  BY TypedParts DEF DropsTyped, StateTyped, Kinds
<1> HIDE DEF e
<1>5. Typed'
  BY HandleTyped
<1> SUFFICES ASSUME NEW k \in Kinds
             PROVE  Count(batch', k) + Count(queue', k) <= drops'[k] + unlisted'[k]
  BY DEF EchoInv, Count, OfKind
<1>6. /\ Count(batch, k) \in Nat /\ Count(queue, k) \in Nat /\ Count(batch', k) \in Nat
      /\ Count(queue', k) \in Nat /\ drops[k] \in Nat /\ unlisted[k] \in Nat
      /\ Count(batch, k) + Count(queue, k) <= drops[k] + unlisted[k]
  BY <1>4, <1>5, CountsNat, CountNat DEF EchoInv, Typed, EventsTyped
<1>7. Count(batch, k) = Count(batch', k) + Counts(e, k) /\ Counts(e, k) \in {0, 1}
  BY <1>2, <1>3
<1>8. CASE /\ Entry(e) /\ UNCHANGED <<queue, unlisted>>
           /\ drops' = [drops EXCEPT ![e.kind] = @ - 1]
  <2>1. drops'[k] = IF k = e.kind THEN drops[k] - 1 ELSE drops[k]
    BY <1>1, <1>4, <1>8
  <2>2. k = e.kind => Counts(e, k) = 1
    BY <1>8 DEF Counts, Entry
  <2>3. Count(queue', k) = Count(queue, k) /\ unlisted'[k] = unlisted[k]
    BY <1>8
  <2> QED
    BY <1>6, <1>7, <2>1, <2>2, <2>3
<1>9. CASE ~Entry(e) /\ Counted(e)
  \* An event that has no entry in the drop list is one of the unlisted.
  <2>1. /\ Without(e) \in [Kinds -> Nat]
        /\ Without(e)[k] = IF e.of = "dst" /\ ~InDropList(e.kind) /\ unlisted[k] > 0 /\ k = e.kind
                            THEN unlisted[k] - 1 ELSE unlisted[k]
        /\ With(Without(e), "close")[k] =
             IF queue' # queue /\ k = "close" THEN Without(e)[k] + 1 ELSE Without(e)[k]
    BY <1>1, <1>4, UnlistedType
  <2>2. Counts(e, k) = 1 => e.of = "dst" /\ k = e.kind /\ ~InDropList(e.kind)
    BY <1>9 DEF Counts, Entry, InDropList
  <2>3. Counts(e, k) = 0 => ~(e.of = "dst" /\ k = e.kind)
    BY DEF Counts
  <2>4. ~InDropList(k) => drops[k] = 0
    BY <1>6 DEF InDropList
  <2>5. /\ Counts(e, k) = 1 => unlisted[k] > 0 /\ Without(e)[k] = unlisted[k] - 1
        /\ Counts(e, k) = 0 => Without(e)[k] = unlisted[k]
    <3>1. ASSUME Counts(e, k) = 1 PROVE unlisted[k] > 0
      <4>1. drops[k] = 0
        BY <2>2, <2>4, <3>1
      <4> QED
        BY <1>6, <1>7, <3>1, <4>1
    <3> QED
      BY <2>1, <2>2, <2>3, <3>1
  <2>6. Without(e)[k] \in Nat /\ Count(batch', k) + Count(queue, k) <= drops[k] + Without(e)[k]
    <3>1. Without(e)[k] \in Nat
      BY <2>1
    <3>2. CASE Counts(e, k) = 1
      BY <1>6, <1>7, <2>5, <3>1, <3>2
    <3>3. CASE Counts(e, k) = 0
      BY <1>6, <1>7, <2>5, <3>1, <3>3
    <3> QED
      BY <1>7, <3>1, <3>2, <3>3
  <2>7. CASE UNCHANGED <<queue, drops>> /\ unlisted' = Without(e)
    BY <2>6, <2>7
  <2>8. CASE /\ \E c \in Kinds : /\ queue' \in {queue, Push(Event("dst", c, e.name))}
                               /\ drops' = [drops EXCEPT ![c] = @ + 1]
             /\ unlisted' = Without(e)
    <3>1. PICK c \in Kinds : /\ queue' \in {queue, Push(Event("dst", c, e.name))}
                             /\ drops' = [drops EXCEPT ![c] = @ + 1]
      BY <2>8
    <3>2. Count(queue', k) \in {Count(queue, k), Count(queue, k) + (IF k = c THEN 1 ELSE 0)}
      BY <1>1, <3>1, EchoCount
    <3>3. drops'[k] = IF k = c THEN drops[k] + 1 ELSE drops[k]
      BY <1>4, <3>1
    <3> QED
      BY <1>6, <2>6, <2>8, <3>2, <3>3
  <2>9. CASE /\ queue' \in {queue, Push(Event("dst", "close", e.name))} /\ UNCHANGED drops
             /\ unlisted' = With(Without(e), "close")
    <3>1. /\ Count(queue', k) \in {Count(queue, k), Count(queue, k) + (IF k = "close" THEN 1 ELSE 0)}
          /\ queue' = queue => Count(queue', k) = Count(queue, k)
      BY <1>1, <1>4, <2>9, EchoCount
    <3>2. unlisted'[k] = IF queue' # queue /\ k = "close" THEN Without(e)[k] + 1 ELSE Without(e)[k]
      BY <2>1, <2>9
    <3>3. drops'[k] = drops[k]
      BY <2>9
    <3>4. CASE queue' = queue
      BY <2>6, <3>1, <3>2, <3>3, <3>4
    <3>5. CASE queue' # queue
      BY <1>6, <2>6, <3>1, <3>2, <3>3, <3>5
    <3> QED
      BY <3>4, <3>5
  <2> QED
    BY <1>9, <2>7, <2>8, <2>9 DEF Counted
<1> QED
  BY <1>0, <1>8, <1>9 DEF Handles

LEMMA OthersKeepEcho ==
  ASSUME Typed, EchoInv, [Next]_vars, ~Handle
  PROVE  EchoInv'
<1>0. /\ queue \in Seq(AnyEvent) /\ batch \in Seq(AnyEvent)
      /\ drops \in [Kinds -> Nat] /\ unlisted \in [Kinds -> Nat]
  BY TypedParts DEF EventsTyped, DropsTyped, StateTyped
<1> SUFFICES ASSUME NEW k \in Kinds
             PROVE  Count(batch', k) + Count(queue', k) <= drops'[k] + unlisted'[k]
  BY DEF EchoInv, Count, OfKind
<1>1. /\ Count(batch, k) \in Nat /\ Count(queue, k) \in Nat
      /\ drops[k] \in Nat /\ unlisted[k] \in Nat
      /\ Count(batch, k) + Count(queue, k) <= drops[k] + unlisted[k] /\ k # "ignored"
  BY <1>0, CountsNat DEF EchoInv, Kinds
<1>2. CASE \/ MonitorStart \/ Look \/ Sync \/ Watch \/ Connect \/ AskMount \/ Fail
           \/ UNCHANGED vars
  <2>1. UNCHANGED <<queue, batch, drops, unlisted>>
    BY <1>2 DEF MonitorStart, Look, Sync, Watch, Connect, AskMount, Fail, vars, events, history
  <2> QED
    BY <1>1, <2>1
<1>3. CASE MakeFolder \/ Mount
  <2>1. RemoveWatch /\ UNCHANGED drops
    BY <1>3 DEF MakeFolder, Mount
  <2>2. unlisted'[k] = 0
    BY <2>1 DEF RemoveWatch
  <2>3. Count(batch', k) = 0 /\ Count(queue', k) = 0
    BY <2>1, RemoveWatchTyped
  <2> QED
    BY <1>1, <2>1, <2>2, <2>3
<1>4. CASE Read
  <2>1. batch = <<>> /\ batch' = queue /\ queue' = <<>> /\ UNCHANGED <<drops, unlisted>>
    BY <1>4 DEF Read, history
  <2>2. Count(<<>>, k) = 0
    BY CountNone
  <2> QED
    BY <1>1, <2>1, <2>2
<1>5. CASE HandleIgnored
  <2>1. batch # <<>> /\ batch' = Tail(batch) /\ UNCHANGED <<queue, drops, unlisted>>
    BY <1>5 DEF HandleIgnored
  <2>2. Count(batch, k) = Count(batch', k) + Counts(Head(batch), k) /\ Count(batch', k) \in Nat
    BY <1>0, <2>1, CountTail, CountNat, HeadTailProperties
  <2>3. Counts(Head(batch), k) \in {0, 1}
    BY DEF Counts
  <2> QED
    BY <1>0, <1>1, <2>1, <2>2, <2>3
<1>6. CASE AppChange
  <2>1. PICK f \in Names, c \in {"close", "delete"} : queue' \in {queue, Push(Event("src", c, f))}
    BY <1>6 DEF AppChange
  <2>2. UNCHANGED <<batch, drops, unlisted>>
    BY <1>6 DEF AppChange
  <2> DEFINE x == Event("src", c, f)
  <2>3. x \in AnyEvent /\ x.of = "src"
    BY EventType DEF Kinds
  <2>4. Counts(x, k) = 0
    BY <2>3 DEF Counts
  <2>5. Count(Push(x), k) = Count(queue, k)
    BY <1>0, <1>1, <2>3, <2>4, PushEvents
  <2> QED
    BY <1>1, <2>1, <2>2, <2>5
<1>7. CASE Tamper
  <2>1. PICK f \in Names, c \in Kinds :
          queue' \in {queue, Push(Event("dst", c, f))} /\ unlisted' = With(unlisted, c)
    BY <1>7 DEF Tamper, Kinds
  <2>2. UNCHANGED <<batch, drops>>
    BY <1>7 DEF Tamper
  <2>3. /\ Count(queue', k) \in {Count(queue, k), Count(queue, k) + (IF k = c THEN 1 ELSE 0)}
        /\ queue' = queue => Count(queue', k) = Count(queue, k)
    BY <1>0, <2>1, EchoCount
  <2>4. unlisted'[k] = IF queue' # queue /\ k = c THEN unlisted[k] + 1 ELSE unlisted[k]
    BY <1>0, <2>1 DEF With
  <2>5. CASE queue' = queue
    BY <1>1, <2>2, <2>3, <2>4, <2>5
  <2>6. CASE queue' # queue
    BY <1>1, <2>2, <2>3, <2>4, <2>6
  <2> QED
    BY <2>5, <2>6
<1>8. CASE RemoveFolder \/ Plug
  <2> DEFINE x == Event("dst", "ignored", None)
  <2>1. queue' \in {queue, Push(x)} /\ UNCHANGED <<batch, drops, unlisted>>
    BY <1>8 DEF RemoveFolder, Plug, Lost
  <2>2. x \in AnyEvent /\ x.kind = "ignored"
    BY IgnoredType
  <2>3. Counts(x, k) = 0
    BY <1>1, <2>2 DEF Counts
  <2>4. Count(Push(x), k) = Count(queue, k)
    BY <1>0, <1>1, <2>2, <2>3, PushEvents
  <2> QED
    BY <1>1, <2>1, <2>4
<1> QED
  BY <1>2, <1>3, <1>4, <1>5, <1>6, <1>7, <1>8 DEF Next, Ghost

(***************************************************************************)
(* EchoesDropped: ghost never takes a copy that it counts as done, whole   *)
(* or cut short, for a change of someone else: an event of dst without an  *)
(* entry in the drop list is someone else's change, or comes of a copy     *)
(* that failed before its first block.                                     *)
(***************************************************************************)
THEOREM EchoesCorrect == Spec => []EchoesDropped
<1>1. Init => EchoInv
  <2>1. \A k : Count(<<>>, k) = 0
    BY CountNone
  <2> QED
    BY <2>1 DEF Init, EchoInv
<1>2. Typed /\ EchoInv /\ [Next]_vars => EchoInv'
  BY HandleKeepsEcho, OthersKeepEcho
<1>3. EchoInv => EchoesDropped
  BY DEF EchoInv, EchoesDropped, Pending, Count, OfKind
<1> QED
  BY <1>1, <1>2, <1>3, TypeInductive, PTL DEF Spec
-----------------------------------------------------------------------------
(***************************************************************************)
(* The watch of dst.                                                       *)
(***************************************************************************)
LEMMA PushKeepsCount ==
  ASSUME queue \in Seq(AnyEvent), NEW e \in AnyEvent, NEW k, Counts(e, k) = 0
  PROVE  Count(Push(e), k) = Count(queue, k)
BY PushEvents

LEMMA HandleKeepsWatch ==
  ASSUME Typed, WatchInv, Handle
  PROVE  WatchInv'
<1> DEFINE e == Head(batch)
<1>0. Handles(e)
  BY HandleEffect
<1>1. /\ batch' = Tail(batch) /\ batch # <<>> /\ batch \in Seq(AnyEvent) /\ queue \in Seq(AnyEvent)
      /\ e.name \in Names /\ e.kind \in Kinds
      /\ UNCHANGED <<dir, mounted, wd_src, wd_dst, alive, phase>>
  BY <1>0 DEF Typed, EventsTyped, Handles, AnyEvent, watches, remount
<1>2. Count(batch, "ignored") = Count(batch', "ignored") + Counts(e, "ignored")
  BY <1>1, CountTail
<1>3. Counts(e, "ignored") = 0
  BY <1>1 DEF Counts, Kinds
<1> HIDE DEF e
<1>4. Count(queue', "ignored") = Count(queue, "ignored")
  <2>1. CASE queue' = queue
    BY <2>1
  <2>2. CASE \E k \in Kinds : queue' = Push(Event("dst", k, e.name))
    <3>1. PICK k \in Kinds : queue' = Push(Event("dst", k, e.name))
      BY <2>2
    <3> DEFINE x == Event("dst", k, e.name)
    <3>2. x \in AnyEvent /\ x.kind = k
      BY <1>1, EventType
    <3>3. Counts(x, "ignored") = 0
      BY <3>2 DEF Counts, Kinds
    <3> QED
      BY <1>1, <3>1, <3>2, <3>3, PushKeepsCount
  <2>3. "close" \in Kinds
    BY DEF Kinds
  <2> QED
    BY <1>0, <2>1, <2>2, <2>3 DEF Handles, Counted
<1>5. Told'
  <2>1. Count(batch', "ignored") \in Nat /\ Count(queue, "ignored") \in Nat
    BY <1>1, CountNat, HeadTailProperties
  <2>2. Count(batch', "ignored") = Count(batch, "ignored")
    BY <1>2, <1>3, <2>1
  <2>3. Count(batch', "ignored") + Count(queue', "ignored")
          = Count(batch, "ignored") + Count(queue, "ignored")
    BY <1>4, <2>2
  <2>4. Told
    BY DEF WatchInv
  <2> QED
    BY <1>1, <2>3, <2>4 DEF Told, Dropped, Count, OfKind
<1>6. Watched' /\ Remounting'
  BY <1>1 DEF WatchInv, Watched, Remounting, Folder
<1>7. EmptyBefore'
  <2>1. CASE dst' = dst
    BY <1>1, <2>1 DEF WatchInv, EmptyBefore
  <2>2. CASE Folder(path) /\ \E v \in {src[e.name], None, Short} : dst' = Put(path, e.name, v)
    <3>1. /\ path \in Storages /\ dir[path]
          /\ \A s \in Storages : s # path => dst'[s] = dst[s]
      BY <2>2, TypedParts DEF Folder, WatchTyped, FilesTyped, Put
    <3> QED
      BY <1>1, <3>1 DEF WatchInv, EmptyBefore
  <2> QED
    BY <1>0, <2>1, <2>2 DEF Handles, Changed
<1> QED
  BY <1>5, <1>6, <1>7 DEF WatchInv

LEMMA MadeFilled ==
  ASSUME Typed, WatchInv, NewFolder
  PROVE  EmptyBefore'
<1>1. FilesTyped /\ path \in Storages
  BY TypedParts DEF WatchTyped
<1>2. dir' = [dir EXCEPT ![path] = TRUE] /\ \A s \in Storages : s # path => dst'[s] = dst[s]
  BY <1>1, FolderMade
<1> QED
  BY <1>1, <1>2 DEF WatchInv, EmptyBefore, FilesTyped

LEMMA IgnoredKeepsWatch ==
  ASSUME Typed, WatchInv, HandleIgnored
  PROVE  /\ WatchInv'
         /\ Head(batch).of = "dst" => ~alive
<1> DEFINE e == Head(batch)
           again == e.of = "dst" /\ mounted[path] /\ ~dir[path]
<1>1. /\ batch' = Tail(batch) /\ batch # <<>> /\ batch \in Seq(AnyEvent) /\ queue \in Seq(AnyEvent)
      /\ e.kind = "ignored" /\ phase = "none"
      /\ wd_dst' = IF e.of = "dst" THEN None ELSE wd_dst
      /\ \/ again /\ NewFolder /\ phase' = "watch"
         \/ UNCHANGED <<dir, dst, phase>>
      /\ UNCHANGED <<mounted, wd_src, alive, queue>>
  BY DEF HandleIgnored, Typed, EventsTyped
<1> HIDE DEF e
<1>2. /\ Count(batch, "ignored") = Count(batch', "ignored") + Counts(e, "ignored")
      /\ Count(batch', "ignored") \in Nat /\ Count(queue, "ignored") \in Nat
  BY <1>1, CountTail, CountNat, HeadTailProperties DEF e
<1>3. Counts(e, "ignored") = IF e.of = "dst" THEN 1 ELSE 0
  BY <1>1 DEF Counts
<1>4. Count(batch, "ignored") + Count(queue, "ignored") = IF Dropped THEN 1 ELSE 0
  BY DEF WatchInv, Told
<1>5. e.of = "dst" => ~alive
  BY <1>2, <1>3, <1>4 DEF Dropped
<1>6. Told'
  <2>1. CASE e.of = "dst"
    <3>1. ~Dropped'
      BY <1>1, <2>1 DEF Dropped
    <3>2. Count(batch', "ignored") + Count(queue, "ignored") = 0
      BY <1>2, <1>3, <1>4, <2>1 DEF Dropped
    <3> QED
      BY <1>1, <3>1, <3>2 DEF Told, Count, OfKind
  <2>2. CASE e.of # "dst"
    <3>1. Dropped' <=> Dropped
      BY <1>1, <2>2 DEF Dropped
    <3>2. Count(batch', "ignored") = Count(batch, "ignored")
      BY <1>2, <1>3, <2>2
    <3> QED
      BY <1>1, <1>4, <3>1, <3>2 DEF Told, Count, OfKind
  <2> QED
    BY <2>1, <2>2
<1>7. Watched' /\ Remounting'
  <2>1. CASE e.of = "dst"
    BY <1>1, <1>5, <2>1 DEF Watched, Remounting
  <2>2. CASE e.of # "dst"
    BY <1>1, <2>2 DEF WatchInv, Watched, Remounting, Folder
  <2> QED
    BY <2>1, <2>2
<1>8. EmptyBefore'
  BY <1>1, MadeFilled DEF WatchInv, EmptyBefore
<1> QED
  BY <1>5, <1>6, <1>7, <1>8 DEF WatchInv, e

LEMMA RemountKeepsWatch ==
  ASSUME Typed, WatchInv, MonitorStart \/ Look \/ Sync \/ MakeFolder \/ Watch
  PROVE  WatchInv'
<1>0. FilesTyped /\ WatchTyped
  BY TypedParts
<1>1. CASE MonitorStart \/ Look \/ Sync
  <2>1. /\ UNCHANGED <<queue, batch, dir, mounted, wd_src, wd_dst, alive>>
        /\ phase \in {"start", "look", "sync"} /\ phase' \in {"look", "sync", "watch", "none"}
        /\ dst' = dst \/ (Folder(path) /\ \A s \in Storages : s # path => dst'[s] = dst[s])
    <3>1. CASE MonitorStart \/ Look
      BY <3>1 DEF MonitorStart, Look, files, watches, events
    <3>2. CASE Sync
      BY <1>0, <3>2, SyncFiles DEF Sync, watches, events, WatchTyped
    <3> QED
      BY <1>1, <3>1, <3>2
  <2>2. Told'
    BY <2>1 DEF WatchInv, Told, Dropped, Count, OfKind
  <2>3. Watched' /\ Remounting'
    BY <2>1 DEF WatchInv, Watched, Remounting, Folder
  <2>4. EmptyBefore'
    BY <1>0, <2>1 DEF WatchInv, EmptyBefore, Folder, WatchTyped
  <2> QED
    BY <2>2, <2>3, <2>4 DEF WatchInv
<1>2. CASE MakeFolder
  <2>1. /\ phase' = "made" /\ RemoveWatch
        /\ NewFolder \/ UNCHANGED <<dir, dst>>
    BY <1>2 DEF MakeFolder
  <2>2. /\ wd_dst' = None /\ alive' = FALSE
        /\ Count(queue', "ignored") = 0 /\ Count(batch', "ignored") = 0
    BY <2>1, RemoveWatchTyped
  <2>3. EmptyBefore'
    BY <2>1, MadeFilled DEF WatchInv, EmptyBefore
  <2> QED
    BY <2>1, <2>2, <2>3 DEF WatchInv, Told, Dropped, Count, OfKind, Watched, Remounting
<1>3. CASE Watch
  <2>1. /\ phase # "none" /\ phase' = "none" /\ alive' = (wd_dst' # None)
        /\ wd_dst' = None \/ (wd_dst' = path /\ Folder(path))
        /\ UNCHANGED <<dst, dir, mounted, queue, batch>>
    BY <1>3 DEF Watch, AddWatch, files, events
  <2>2. ~Dropped /\ ~Dropped'
    BY <2>1 DEF WatchInv, Remounting, Dropped
  <2>3. Watched'
    BY <1>0, <2>1 DEF Watched, Folder
  <2> QED
    BY <2>1, <2>2, <2>3 DEF WatchInv, Told, Count, OfKind, Remounting, EmptyBefore
<1> QED
  BY <1>1, <1>2, <1>3

LEMMA OutsideKeepsWatch ==
  ASSUME Typed, WatchInv,
         \/ Read \/ Connect \/ AskMount \/ Mount
         \/ AppChange \/ Tamper \/ RemoveFolder \/ Plug \/ Fail
  PROVE  WatchInv'
<1>0. /\ FilesTyped /\ WatchTyped /\ queue \in Seq(AnyEvent) /\ batch \in Seq(AnyEvent)
      /\ Count(batch, "ignored") \in Nat /\ Count(queue, "ignored") \in Nat
  BY TypedParts, CountsNat DEF EventsTyped
<1>1. CASE Read
  <2>1. batch = <<>> /\ batch' = queue /\ queue' = <<>> /\ UNCHANGED <<files, watches, phase>>
    BY <1>1 DEF Read, remount
  <2>2. Count(<<>>, "ignored") = 0
    BY CountNone
  <2>3. Count(batch', "ignored") + Count(queue', "ignored")
          = Count(batch, "ignored") + Count(queue, "ignored")
    BY <1>0, <2>1, <2>2
  <2>4. Told'
    BY <2>1, <2>3 DEF WatchInv, Told, Dropped, Count, OfKind, watches
  <2> QED
    BY <2>1, <2>4 DEF WatchInv, Watched, Folder, Remounting, EmptyBefore, files, watches
<1>2. CASE Connect \/ AskMount \/ Fail
  <2>1. UNCHANGED <<files, watches, queue, batch, phase>>
    BY <1>2 DEF Connect, AskMount, Fail, events, remount
  <2> QED
    BY <2>1 DEF WatchInv, Told, Dropped, Count, OfKind, Watched, Folder, Remounting, EmptyBefore,
                files, watches
<1>3. CASE Mount
  <2>1. phase' = "look" /\ RemoveWatch /\ UNCHANGED files
    BY <1>3 DEF Mount
  <2>2. /\ wd_dst' = None /\ alive' = FALSE /\ wd_src' = FALSE
        /\ Count(queue', "ignored") = 0 /\ Count(batch', "ignored") = 0
    BY <2>1, RemoveWatchTyped
  <2> QED
    BY <2>1, <2>2 DEF WatchInv, Told, Dropped, Count, OfKind, Watched, Remounting, EmptyBefore, files
<1>4. CASE AppChange
  <2>1. PICK f \in Names, c \in Kinds : queue' \in {queue, Push(Event("src", c, f))}
    BY <1>4 DEF AppChange, Kinds
  <2>2. UNCHANGED <<dst, dir, mounted, watches, batch, phase>>
    BY <1>4 DEF AppChange, remount
  <2> DEFINE x == Event("src", c, f)
  <2>3. x \in AnyEvent /\ x.of = "src"
    BY EventType
  <2>4. Counts(x, "ignored") = 0
    BY <2>3 DEF Counts
  <2>5. Count(queue', "ignored") = Count(queue, "ignored")
    BY <1>0, <2>1, <2>3, <2>4, PushKeepsCount
  <2>6. Told'
    BY <2>2, <2>5 DEF WatchInv, Told, Dropped, Count, OfKind, watches
  <2> QED
    BY <2>2, <2>6 DEF WatchInv, Watched, Folder, Remounting, EmptyBefore, watches
<1>5. CASE Tamper
  <2>1. PICK s \in Storages, f \in Names, v \in Data \cup {None}, c \in Kinds :
          /\ Folder(s) /\ dst' = [dst EXCEPT ![s][f] = v]
          /\ queue' \in {queue, Push(Event("dst", c, f))}
    BY <1>5 DEF Tamper, Kinds
  <2>2. UNCHANGED <<dir, mounted, watches, batch, phase>>
    BY <1>5 DEF Tamper, remount
  <2> DEFINE x == Event("dst", c, f)
  <2>3. x \in AnyEvent /\ x.kind = c
    BY EventType
  <2>4. Counts(x, "ignored") = 0
    BY <2>3 DEF Counts, Kinds
  <2>5. Count(queue', "ignored") = Count(queue, "ignored")
    BY <1>0, <2>1, <2>3, <2>4, PushKeepsCount
  <2>6. Told'
    BY <2>2, <2>5 DEF WatchInv, Told, Dropped, Count, OfKind, watches
  <2>7. dir[s] /\ \A t \in Storages : t # s => dst'[t] = dst[t]
    BY <1>0, <2>1 DEF Folder, FilesTyped
  <2>8. EmptyBefore'
    BY <2>2, <2>7 DEF WatchInv, EmptyBefore
  <2> QED
    BY <2>2, <2>6, <2>8 DEF WatchInv, Watched, Folder, Remounting, watches
<1>6. CASE RemoveFolder \/ Plug
  <2> DEFINE x == Event("dst", "ignored", None)
  <2>1. PICK s \in Storages :
          /\ \/ /\ dir' = [dir EXCEPT ![s] = FALSE] /\ mounted' = mounted /\ Lost(s)
                /\ \A f \in Names : dst[s][f] = None
             \/ /\ mounted' = [mounted EXCEPT ![s] = ~@] /\ dir' = dir
                /\ IF mounted[s] THEN Lost(s) ELSE UNCHANGED <<alive, queue>>
    BY <1>6 DEF RemoveFolder, Plug
  <2>2. UNCHANGED <<dst, wd_src, wd_dst, batch, phase>>
    BY <1>6 DEF RemoveFolder, Plug, remount
  <2>3. x \in AnyEvent /\ x.of = "dst" /\ x.kind = "ignored"
    BY IgnoredType
  <2>4. /\ Counts(x, "ignored") = 1
        /\ Count(Push(x), "ignored") \in {Count(queue, "ignored"), Count(queue, "ignored") + 1}
        /\ Count(Push(x), "ignored") >= 1
    <3>1. Counts(x, "ignored") = 1
      BY <2>3 DEF Counts
    <3> QED
      BY <1>0, <2>3, <3>1, PushEvents
  <2>5. \/ alive /\ wd_dst = s /\ alive' = FALSE /\ queue' = Push(x)
        \/ /\ UNCHANGED <<alive, queue>>
           /\ alive => wd_dst # s
    BY <1>0, <2>1 DEF Lost, WatchInv, Watched, Folder, FilesTyped
  <2> HIDE DEF x
  <2>6. Told'
    <3>1. CASE alive /\ wd_dst = s /\ alive' = FALSE /\ queue' = Push(x)
      <4>1. ~Dropped /\ Dropped'
        BY <2>2, <3>1 DEF Dropped, Storages, None
      <4>2. Count(batch, "ignored") = 0 /\ Count(queue, "ignored") = 0
        BY <1>0, <4>1 DEF WatchInv, Told
      <4>3. Count(batch', "ignored") + Count(queue', "ignored") = 1
        BY <1>0, <2>2, <2>4, <3>1, <4>2
      <4> QED
        BY <4>1, <4>3 DEF Told, Count, OfKind
    <3>2. CASE UNCHANGED <<alive, queue>>
      BY <2>2, <3>2 DEF WatchInv, Told, Dropped, Count, OfKind
    <3> QED
      BY <2>5, <3>1, <3>2
  <2>7. Watched'
    BY <1>0, <2>1, <2>2, <2>5 DEF WatchInv, Watched, Folder, FilesTyped, WatchTyped
  <2>8. EmptyBefore'
    BY <1>0, <2>1, <2>2 DEF WatchInv, EmptyBefore, FilesTyped
  <2> QED
    BY <2>2, <2>6, <2>7, <2>8 DEF WatchInv, Remounting
<1> QED
  BY <1>1, <1>2, <1>3, <1>4, <1>5, <1>6

LEMMA WatchInductive ==
  /\ Init => WatchInv
  /\ Typed /\ WatchInv /\ [Next]_vars => WatchInv'
<1>1. ASSUME Init PROVE WatchInv
  <2>1. \A k : Count(<<>>, k) = 0
    BY CountNone
  <2>2. Told /\ Watched /\ Remounting
    BY <1>1, <2>1 DEF Init, Told, Dropped, Watched, Remounting
  <2>3. EmptyBefore
    BY <1>1 DEF Init, EmptyBefore
  <2> QED
    BY <2>2, <2>3 DEF WatchInv
<1>2. ASSUME WatchInv, UNCHANGED vars PROVE WatchInv'
  BY <1>2 DEF WatchInv, Told, Dropped, Count, OfKind, Watched, Folder, Remounting, EmptyBefore,
              vars, files, watches, events, remount
<1>3. ASSUME Typed, WatchInv, Next PROVE WatchInv'
  BY <1>3, HandleKeepsWatch, IgnoredKeepsWatch, RemountKeepsWatch, OutsideKeepsWatch
     DEF Next, Ghost
<1> QED
  BY <1>1, <1>2, <1>3
-----------------------------------------------------------------------------
(***************************************************************************)
(* The events of src.                                                      *)
(***************************************************************************)
LEMMA NewestHas ==
  ASSUME NEW q, NEW i \in 1 .. Len(q), NEW f, Newest(q, i, f)
  PROVE  Has(q, f)
BY DEF Newest, Has

\* No events of src: nothing to tell.
LEMMA NoneTells ==
  ASSUME \A f : ~Has(queue', f) /\ ~Has(batch', f)
  PROVE  SrcInv'
<1>1. Unwatched'
  BY DEF Unwatched, Has
<1>2. QueueTells'
  BY NewestHas DEF QueueTells, Has, Newest
<1>3. BatchTells'
  BY NewestHas DEF BatchTells, Has, Newest
<1> QED
  BY <1>1, <1>2, <1>3 DEF SrcInv

\* Events of dst come, and one of a batch is handled.
LEMMA QuietKeepsSrc ==
  ASSUME Typed, SrcInv, UNCHANGED <<src, wd_src>>,
         batch' = batch \/ (batch # <<>> /\ batch' = Tail(batch)),
         queue' = queue \/ \E e \in AnyEvent : e.of = "dst" /\ queue' = Push(e)
  PROVE  SrcInv'
<1>0. queue \in Seq(AnyEvent) /\ batch \in Seq(AnyEvent)
  BY DEF Typed, EventsTyped
<1>1. /\ \A f : Has(queue', f) <=> Has(queue, f)
      /\ \A f : \A i \in 1 .. Len(queue') :
           Newest(queue', i, f) => i \in 1 .. Len(queue) /\ queue'[i] = queue[i] /\ Newest(queue, i, f)
  <2>1. CASE queue' = queue
    BY <2>1
  <2>2. CASE \E e \in AnyEvent : e.of = "dst" /\ queue' = Push(e)
    <3>1. PICK e \in AnyEvent : e.of = "dst" /\ queue' = Push(e)
      BY <2>2
    <3>2. \A f : ~About(e, f)
      BY <3>1 DEF About
    <3> QED
      BY <1>0, <3>1, <3>2, PushEvents
  <2> QED
    BY <2>1, <2>2
<1>2. /\ \A f : Has(batch', f) => Has(batch, f)
      /\ \A f : \A i \in 1 .. Len(batch') :
           Newest(batch', i, f) =>
             \E j \in 1 .. Len(batch) : batch'[i] = batch[j] /\ Newest(batch, j, f)
  <2>1. CASE batch' = batch
    BY <2>1
  <2>2. CASE batch # <<>> /\ batch' = Tail(batch)
    BY <1>0, <2>2, AboutTail
  <2> QED
    BY <2>1, <2>2
<1>3. Unwatched'
  BY <1>1, <1>2 DEF SrcInv, Unwatched, Has
<1>4. QueueTells'
  BY <1>1 DEF SrcInv, QueueTells, Newest
<1>5. BatchTells'
  <2>1. ASSUME NEW f, ~Has(queue', f), NEW i \in 1 .. Len(batch'), Newest(batch', i, f)
        PROVE  Tells(src', batch'[i])
    <3>1. PICK j \in 1 .. Len(batch) : batch'[i] = batch[j] /\ Newest(batch, j, f)
      BY <1>2, <2>1
    <3>2. Tells(src, batch[j])
      BY <1>1, <2>1, <3>1 DEF SrcInv, BatchTells
    <3> QED
      BY <3>1, <3>2
  <2> QED
    BY <2>1 DEF BatchTells
<1> QED
  BY <1>3, <1>4, <1>5 DEF SrcInv

LEMMA ChangeKeepsSrc ==
  ASSUME Typed, SrcInv, AppChange
  PROVE  SrcInv'
<1>0. queue \in Seq(AnyEvent) /\ batch \in Seq(AnyEvent) /\ src \in Contents
  BY TypedParts DEF EventsTyped, FilesTyped
<1> PICK f \in Names, v \in Data \cup {None} :
      /\ src' = [src EXCEPT ![f] = v]
      /\ queue' = IF wd_src THEN Push(Event("src", IF v = None THEN "delete" ELSE "close", f))
                            ELSE queue
  BY DEF AppChange
<1>1. batch' = batch /\ wd_src' = wd_src
  BY DEF AppChange, watches
<1> DEFINE x == Event("src", IF v = None THEN "delete" ELSE "close", f)
<1>2. /\ x \in AnyEvent /\ x.of = "src" /\ x.name = f
      /\ x.kind = IF v = None THEN "delete" ELSE "close"
  BY EventType DEF Kinds
<1>3. src'[f] = v /\ \A g : g # f => src'[g] = src[g]
  BY <1>0 DEF Contents
<1>4. \A g : About(x, g) <=> g = f
  BY <1>2 DEF About
<1>5. Tells(src', x)
  BY <1>2, <1>3 DEF Tells
<1>6. ASSUME NEW e, NEW g, About(e, g), g # f, Tells(src, e) PROVE Tells(src', e)
  BY <1>3, <1>6 DEF Tells, About
<1>7. ~wd_src => queue' = queue
  OBVIOUS
<1>8. wd_src => queue' = Push(x)
  OBVIOUS
<1> HIDE DEF x
<1>9. CASE ~wd_src
  <2>1. \A g : ~Has(queue', g) /\ ~Has(batch', g)
    BY <1>1, <1>7, <1>9 DEF SrcInv, Unwatched
  <2> QED
    BY <2>1, NoneTells
<1>10. CASE wd_src
  <2>1. /\ \A g : Has(queue', g) <=> Has(queue, g) \/ About(x, g)
        /\ \A g : \A i \in 1 .. Len(queue') :
             Newest(queue', i, g) =>
               \/ About(x, g) /\ queue'[i] = x
               \/ /\ ~About(x, g) /\ i \in 1 .. Len(queue)
                  /\ queue'[i] = queue[i] /\ Newest(queue, i, g)
    BY <1>0, <1>2, <1>8, <1>10, PushEvents
  <2>2. ASSUME NEW g, NEW i \in 1 .. Len(queue'), Newest(queue', i, g)
        PROVE  Tells(src', queue'[i])
    <3>1. CASE About(x, g) /\ queue'[i] = x
      BY <1>5, <3>1
    <3>2. CASE ~About(x, g) /\ i \in 1 .. Len(queue) /\ queue'[i] = queue[i] /\ Newest(queue, i, g)
      <4>1. Tells(src, queue[i]) /\ About(queue[i], g) /\ g # f
        BY <1>4, <3>2 DEF SrcInv, QueueTells, Newest
      <4> QED
        BY <1>6, <3>2, <4>1
    <3> QED
      BY <2>1, <2>2, <3>1, <3>2
  <2>3. ASSUME NEW g, ~Has(queue', g), NEW i \in 1 .. Len(batch), Newest(batch, i, g)
        PROVE  Tells(src', batch[i])
    <3>1. ~Has(queue, g) /\ g # f
      BY <1>4, <2>1, <2>3
    <3>2. Tells(src, batch[i]) /\ About(batch[i], g)
      BY <2>3, <3>1 DEF SrcInv, BatchTells, Newest
    <3> QED
      BY <1>6, <3>1, <3>2
  <2>4. QueueTells'
    BY <2>2 DEF QueueTells
  <2>5. BatchTells'
    BY <1>1, <2>3 DEF BatchTells
  <2>6. Unwatched'
    BY <1>1, <1>10 DEF Unwatched
  <2> QED
    BY <2>4, <2>5, <2>6 DEF SrcInv
<1> QED
  BY <1>9, <1>10

LEMMA SrcInductive ==
  /\ Init => SrcInv
  /\ Typed /\ WatchInv /\ SrcInv /\ [Next]_vars => SrcInv'
<1>1. ASSUME Init PROVE SrcInv
  <2>1. queue = <<>> /\ batch = <<>> /\ wd_src = FALSE
    BY <1>1 DEF Init
  <2>2. Len(<<>>) = 0 /\ 1 .. 0 = {}
    BY EmptySeq
  <2>3. \A f : ~Has(<<>>, f)
    BY <2>2 DEF Has
  <2> QED
    BY <2>1, <2>2, <2>3 DEF SrcInv, Unwatched, QueueTells, BatchTells
<1>2. ASSUME Typed, WatchInv, SrcInv, [Next]_vars PROVE SrcInv'
  <2>0. queue \in Seq(AnyEvent) /\ batch \in Seq(AnyEvent)
    BY <1>2 DEF Typed, EventsTyped
  <2>1. CASE MonitorStart \/ Look \/ Connect \/ AskMount \/ Fail \/ UNCHANGED vars
    <3>1. UNCHANGED <<src, wd_src, queue, batch>>
      BY <2>1 DEF MonitorStart, Look, Connect, AskMount, Fail, vars, files, watches, events
    <3> QED
      BY <1>2, <3>1, QuietKeepsSrc
  <2>2. CASE Sync
    <3>1. UNCHANGED <<queue, batch>> /\ ~wd_src
      BY <1>2, <2>2 DEF Sync, events, WatchInv, Remounting
    <3>2. \A f : ~Has(queue', f) /\ ~Has(batch', f)
      BY <1>2, <3>1 DEF SrcInv, Unwatched
    <3> QED
      BY <3>2, NoneTells
  <2>3. CASE MakeFolder \/ Mount
    <3>1. RemoveWatch
      BY <2>3 DEF MakeFolder, Mount
    <3>2. \A f : ~Has(queue', f) /\ ~Has(batch', f)
      BY <1>2, <3>1, RemoveWatchTyped
    <3> QED
      BY <3>2, NoneTells
  <2>4. CASE Watch
    <3>1. UNCHANGED <<src, queue, batch>> /\ (~wd_src' => ~wd_src)
      BY <2>4 DEF Watch, AddWatch, files, events
    <3> QED
      BY <1>2, <3>1 DEF SrcInv, Unwatched, QueueTells, BatchTells
  <2>5. CASE Read
    <3>1. batch' = queue /\ queue' = <<>> /\ batch = <<>> /\ UNCHANGED <<src, wd_src>>
      BY <2>5 DEF Read, files, watches
    <3>2. Len(<<>>) = 0 /\ 1 .. 0 = {}
      BY EmptySeq
    <3>3. \A f : ~Has(<<>>, f)
      BY <3>2 DEF Has
    <3>4. Unwatched'
      BY <1>2, <3>1, <3>3 DEF SrcInv, Unwatched
    <3>5. QueueTells'
      BY <3>1, <3>2 DEF QueueTells
    <3>6. BatchTells'
      BY <1>2, <3>1 DEF SrcInv, QueueTells, BatchTells
    <3> QED
      BY <3>4, <3>5, <3>6 DEF SrcInv
  <2>6. CASE Handle
    <3> DEFINE e == Head(batch)
    <3>1. Handles(e)
      BY <1>2, <2>6, HandleEffect
    <3>2. \A k \in Kinds : Event("dst", k, e.name) \in AnyEvent /\ Event("dst", k, e.name).of = "dst"
      <4>1. e.name \in Names
        BY <3>1 DEF Handles, AnyEvent
      <4> QED
        BY <4>1, EventType
    <3> HIDE DEF e
    <3>3. UNCHANGED <<src, wd_src>> /\ batch # <<>> /\ batch' = Tail(batch)
      BY <3>1 DEF Handles, watches
    <3>4. queue' = queue \/ \E y \in AnyEvent : y.of = "dst" /\ queue' = Push(y)
      BY <3>1, <3>2 DEF Handles, Counted, Kinds
    <3> QED
      BY <1>2, <3>3, <3>4, QuietKeepsSrc
  <2>7. CASE HandleIgnored
    <3>1. UNCHANGED <<src, wd_src, queue>> /\ batch # <<>> /\ batch' = Tail(batch)
      BY <2>7 DEF HandleIgnored
    <3> QED
      BY <1>2, <3>1, QuietKeepsSrc
  <2>8. CASE AppChange
    BY <1>2, <2>8, ChangeKeepsSrc
  <2>9. CASE Tamper
    <3>1. UNCHANGED <<src, wd_src, batch>>
      BY <2>9 DEF Tamper, watches
    <3>2. queue' = queue \/ \E k \in Kinds, f \in Names : queue' = Push(Event("dst", k, f))
      BY <2>9 DEF Tamper, Kinds
    <3>3. queue' = queue \/ \E y \in AnyEvent : y.of = "dst" /\ queue' = Push(y)
      BY <3>2, EventType
    <3> QED
      BY <1>2, <3>1, <3>3, QuietKeepsSrc
  <2>10. CASE RemoveFolder \/ Plug
    <3>1. UNCHANGED <<src, wd_src, batch>>
      BY <2>10 DEF RemoveFolder, Plug
    <3>2. queue' = queue \/ queue' = Push(Event("dst", "ignored", None))
      BY <2>10 DEF RemoveFolder, Plug, Lost
    <3>3. Event("dst", "ignored", None) \in AnyEvent /\ Event("dst", "ignored", None).of = "dst"
      BY IgnoredType
    <3> QED
      BY <1>2, <3>1, <3>2, <3>3, QuietKeepsSrc
  <2> QED
    BY <1>2, <2>1, <2>2, <2>3, <2>4, <2>5, <2>6, <2>7, <2>8, <2>9, <2>10 DEF Next, Ghost
<1> QED
  BY <1>1, <1>2
-----------------------------------------------------------------------------
(***************************************************************************)
(* Both directories.                                                       *)
(***************************************************************************)
\* A copy or deletion that did not fail.
LEMMA CopyExact ==
  ASSUME FilesTyped, WatchTyped, NEW e, e.name \in Names, e.name \notin failed'
  PROVE  LET f == e.name
         IN  /\ CopyToDst(e) =>
                  \/ dst'[path][f] = src[f]
                  \/ dst' = dst /\ f \notin failed /\ ~(src[f] # None /\ Folder(path))
             /\ DeleteFromDst(e) =>
                  \/ dst'[path][f] = None
                  \/ dst' = dst /\ f \notin failed /\ ~(Folder(path) /\ dst[path][f] # None)
<1> DEFINE f == e.name
<1>1. path \in Storages /\ dst \in [Storages -> Contents] /\ src[f] \in Content /\ None \in Content
  BY DEF FilesTyped, WatchTyped, Contents, Content
<1>2. ASSUME NEW v \in Content PROVE Put(path, f, v)[path][f] = v
  BY <1>1, PutFile
<1>3. Put(path, f, src[f])[path][f] = src[f] /\ Put(path, f, None)[path][f] = None
  BY <1>1, <1>2
<1>4. ASSUME CopyToDst(e)
      PROVE  \/ dst'[path][f] = src[f]
             \/ dst' = dst /\ f \notin failed /\ ~(src[f] # None /\ Folder(path))
  <2>1. \/ dst' = Put(path, f, src[f])
        \/ failed' = failed \cup {f}
        \/ dst' = dst /\ failed' = failed /\ ~(src[f] # None /\ Folder(path))
    BY <1>4 DEF CopyToDst, Replace, Put, NothingDone
  <2> QED
    BY <1>3, <2>1
<1>5. ASSUME DeleteFromDst(e)
      PROVE  \/ dst'[path][f] = None
             \/ dst' = dst /\ f \notin failed /\ ~(Folder(path) /\ dst[path][f] # None)
  <2>1. \/ dst' = Put(path, f, None)
        \/ failed' = failed \cup {f}
        \/ dst' = dst /\ failed' = failed /\ ~(Folder(path) /\ dst[path][f] # None)
    BY <1>5 DEF DeleteFromDst, Replace, Put, NothingDone
  <2> QED
    BY <1>3, <2>1
<1> QED
  BY <1>4, <1>5

\* What handling an event does to a file.
LEMMA HandleCopies ==
  ASSUME Typed, Handle, NEW f \in Names, f \notin failed'
  PROVE  LET e == Head(batch)
         IN  /\ ~About(e, f) => \/ dst'[path][f] = src[f]
                                \/ dst'[path][f] = dst[path][f] /\ f \notin failed
             /\ (About(e, f) /\ Tells(src, e) /\ wd_dst # None /\ Folder(path)) =>
                  dst'[path][f] = src[f]
<1> DEFINE e == Head(batch)
<1>0. Handles(e) /\ FilesTyped /\ WatchTyped
  BY HandleEffect, TypedParts
<1>1. \/ e.of = "src" /\ OfSrc(e)
      \/ e.of = "dst" /\ OfDst(e)
      \/ e.of = "stale" /\ dst' = dst /\ failed' = failed
  BY DEF Handle, NothingDone
<1>2. path \in Storages /\ e.name \in Names /\ e.kind \in Kinds
  BY <1>0 DEF WatchTyped, Handles, AnyEvent
<1> HIDE DEF e
<1>3. ASSUME e.name # f PROVE dst'[path][f] = dst[path][f] /\ f \notin failed
  <2>1. f \notin failed
    BY <1>0, <1>3 DEF Handles, Changed
  <2>2. CASE dst' = dst
    BY <2>1, <2>2
  <2>3. CASE \E v \in {src[e.name], None, Short} : dst' = Put(path, e.name, v)
    <3>1. PICK v \in {src[e.name], None, Short} : dst' = Put(path, e.name, v)
      BY <2>3
    <3>2. dst \in [Storages -> Contents] /\ v \in Content
      BY <1>0, <1>2 DEF FilesTyped, Contents, Content
    <3>3. Put(path, e.name, v)[path][f] = dst[path][f]
      BY <1>2, <1>3, <3>2, PutFile
    <3> QED
      BY <2>1, <3>1, <3>3
  <2> QED
    BY <1>0, <2>2, <2>3 DEF Handles, Changed
<1>4. ASSUME e.name = f, e.of # "src"
      PROVE  dst'[path][f] = src[f] \/ (dst'[path][f] = dst[path][f] /\ f \notin failed)
  <2>1. CASE dst' = dst /\ failed' = failed
    BY <2>1
  <2>2. CASE CopyToDst(e)
    BY <1>0, <1>4, <2>2, CopyExact
  <2>3. CASE DeleteFromDst(e) /\ src[f] = None
    BY <1>0, <1>4, <2>3, CopyExact
  <2>4. CASE OfDst(e)
    <3>1. \/ dst' = dst /\ failed' = failed
          \/ CopyToDst(e)
          \/ DeleteFromDst(e) /\ src[f] = None
      BY <1>4, <2>4 DEF OfDst
    <3> QED
      BY <2>1, <2>2, <2>3, <3>1
  <2> QED
    BY <1>1, <1>4, <2>1, <2>4
<1>5. ASSUME e.name = f, e.of = "src", Tells(src, e), wd_dst # None, Folder(path)
      PROVE  dst'[path][f] = src[f]
  <2>1. e.kind \in {"close", "delete"}
    BY <1>2 DEF Kinds
  <2>2. CASE e.kind = "delete"
    <3>1. src[f] = None /\ DeleteFromDst(e)
      BY <1>1, <1>5, <2>2 DEF OfSrc, Tells
    <3> QED
      BY <1>0, <1>5, <3>1, CopyExact
  <2>3. CASE e.kind = "close"
    <3>1. src[f] # None /\ CopyToDst(e)
      BY <1>1, <1>5, <2>3 DEF OfSrc, Tells
    <3> QED
      BY <1>0, <1>5, <3>1, CopyExact
  <2> QED
    BY <2>1, <2>2, <2>3
<1> QED
  BY <1>3, <1>4, <1>5 DEF About, e

\* An event that leaves the batch was not the last one, or it has told.
LEMMA LastTells ==
  ASSUME Typed, SrcInv, batch # <<>>, NEW f, About(Head(batch), f),
         ~Has(Tail(batch), f), ~Has(queue, f)
  PROVE  Tells(src, Head(batch))
<1>1. Newest(batch, 1, f) /\ 1 \in 1 .. Len(batch) /\ batch[1] = Head(batch)
  BY AboutTail DEF Typed, EventsTyped
<1> QED
  BY <1>1 DEF SrcInv, BatchTells

LEMMA NewFolderSame ==
  ASSUME Typed, WatchInv, ~dir[path], NewFolder
  PROVE  \A f \in Names \ failed' : dst'[path][f] = src[f]
<1>1. FilesTyped /\ path \in Storages
  BY TypedParts DEF WatchTyped
<1>2. \A f \in Names : dst[path][f] = None
  BY <1>1 DEF WatchInv, EmptyBefore
<1>3. \A f \in Names \ failed' : dst'[path][f] = IF src[f] # None THEN src[f] ELSE dst[path][f]
  BY <1>1, FolderMade
<1> QED
  BY <1>2, <1>3

LEMMA HandleKeepsSync ==
  ASSUME Typed, WatchInv, SrcInv, SyncInv, Handle
  PROVE  SyncInv'
<1> DEFINE e == Head(batch)
<1>0. Handles(e)
  BY HandleEffect
<1>1. /\ phase = "none" /\ batch # <<>> /\ batch' = Tail(batch)
      /\ UNCHANGED <<src, dir, mounted, path, alive, wd_dst, phase, missed>>
  BY <1>0 DEF Handles, watches, remount
<1>2. ASSUME NEW f \in Names \ (missed \cup failed'), alive, wd_dst = path PROVE Known(f)'
  <2>1. (f \notin failed => Known(f)) /\ wd_dst # None /\ Folder(path)
    BY <1>1, <1>2 DEF SyncInv, WatchInv, Watched
  <2>2. Has(batch, f) <=> About(e, f) \/ Has(batch', f)
    BY <1>1, AboutTail DEF Typed, EventsTyped
  <2>3. Has(queue, f) => Has(queue', f)
    <3>1. e.name \in Names /\ queue \in Seq(AnyEvent)
      BY <1>0 DEF Handles, AnyEvent, Typed, EventsTyped
    <3>2. \A k \in Kinds : Event("dst", k, e.name) \in AnyEvent
      BY <3>1, EventType
    <3> HIDE DEF e
    <3>3. queue' = queue \/ \E y \in AnyEvent : queue' = Push(y)
      BY <1>0, <3>2 DEF Handles, Counted, Kinds
    <3> QED
      BY <3>1, <3>3, PushEvents
  <2>4. CASE Has(batch', f) \/ Has(queue, f)
    BY <2>3, <2>4 DEF Known, Has
  <2>5. CASE ~Has(batch', f) /\ ~Has(queue, f)
    <3>1. CASE About(e, f)
      <4>1. Tells(src, e)
        BY <1>1, <2>5, <3>1, LastTells
      <4> QED
        BY <1>1, <1>2, <2>1, <3>1, <4>1, HandleCopies DEF Known
    <3>2. CASE ~About(e, f)
      <4>1. f \notin failed => dst[path][f] = src[f]
        BY <2>1, <2>2, <2>5, <3>2 DEF Known
      <4> QED
        BY <1>1, <1>2, <3>2, <4>1, HandleCopies DEF Known
    <3> QED
      BY <3>1, <3>2
  <2> QED
    BY <2>4, <2>5
<1> QED
  BY <1>1, <1>2 DEF SyncInv, ToCopy

LEMMA IgnoredKeepsSync ==
  ASSUME Typed, WatchInv, SrcInv, SyncInv, HandleIgnored
  PROVE  SyncInv'
<1> DEFINE e == Head(batch)
<1>1. /\ batch # <<>> /\ phase = "none" /\ e.kind = "ignored" /\ batch' = Tail(batch)
      /\ wd_dst' = (IF e.of = "dst" THEN None ELSE wd_dst)
      /\ \/ ~dir[path] /\ NewFolder /\ phase' = "watch"
         \/ UNCHANGED <<dir, dst, phase, missed, failed>>
      /\ UNCHANGED <<src, mounted, path, alive, queue>>
  BY DEF HandleIgnored
<1>2. /\ FilesTyped /\ path \in Storages /\ e.of \in {"src", "dst", "stale"}
      /\ path # None
  <2>1. e \in AnyEvent
    BY <1>1, HeadTailProperties DEF Typed, EventsTyped
  <2> QED
    BY <2>1, TypedParts DEF AnyEvent, WatchTyped, Storages, None
<1>3. CASE ~dir[path] /\ NewFolder /\ phase' = "watch"
  <2>1. \A f \in Names \ failed' : dst'[path][f] = src[f]
    BY <1>3, NewFolderSame
  <2>2. \A f \in Names \ failed' : Known(f)'
    BY <1>1, <2>1 DEF Known
  <2> QED
    BY <1>3, <2>2 DEF SyncInv, ToCopy
<1>4. CASE UNCHANGED <<dir, dst, phase, missed, failed>>
  <2>1. ASSUME NEW f \in Names \ (missed \cup failed), alive, wd_dst' = path PROVE Known(f)'
    <3>1. wd_dst = path /\ e.of # "dst" /\ Known(f)
      BY <1>1, <1>2, <2>1 DEF SyncInv
    <3>2. Has(batch, f) <=> About(e, f) \/ Has(batch', f)
      BY <1>1, AboutTail DEF Typed, EventsTyped
    <3>3. About(e, f) => Has(batch', f) \/ Has(queue, f)
      <4> SUFFICES ASSUME About(e, f), ~Has(batch', f), ~Has(queue, f) PROVE FALSE
        OBVIOUS
      <4>1. Tells(src, e)
        BY <1>1, LastTells
      <4> QED
        BY <1>1, <4>1 DEF Tells
    <3> QED
      BY <1>1, <1>4, <3>1, <3>2, <3>3 DEF Known, Has
  <2> QED
    BY <1>1, <1>4, <2>1 DEF SyncInv, ToCopy
<1> QED
  BY <1>1, <1>3, <1>4

LEMMA SyncCopies ==
  ASSUME Typed, SyncInv, Sync, NEW f \in Names \ (missed \cup failed')
  PROVE  dst'[path][f] = src'[f]
<1>1. FilesTyped /\ path \in Storages /\ phase = "sync"
  BY TypedParts DEF WatchTyped, Sync
<1>2. Folder(path) /\ (f \in restore <=> (dst[path][f] # None /\ src[f] = None))
  BY <1>1 DEF SyncInv, ToCopy
<1>3. /\ src'[f] = IF f \in restore /\ dst[path][f] # None THEN dst[path][f] ELSE src[f]
      /\ dst'[path][f] = IF src'[f] # None THEN src'[f] ELSE dst[path][f]
  BY <1>1, <1>2, SyncFiles
<1> QED
  BY <1>2, <1>3

LEMMA RemountKeepsSync ==
  ASSUME Typed, WatchInv, SyncInv, MonitorStart \/ Look \/ Sync \/ MakeFolder \/ Watch
  PROVE  SyncInv'
<1>0. FilesTyped /\ WatchTyped /\ path \in Storages
  BY TypedParts DEF WatchTyped
<1>1. CASE MonitorStart
  BY <1>1 DEF MonitorStart, watches, WatchInv, Watched, Remounting, SyncInv, ToCopy, history
<1>2. CASE Look
  <2>1. UNCHANGED <<src, dst, dir, mounted, path>>
    BY <1>2 DEF Look, files
  <2>2. \/ /\ Folder(path) /\ phase' = "sync"
           /\ restore' = {f \in Names : dst[path][f] # None /\ src[f] = None}
        \/ ~Folder(path) /\ phase' = "watch"
    BY <1>2 DEF Look
  <2> QED
    BY <2>1, <2>2 DEF SyncInv, ToCopy, Folder
<1>3. CASE Sync
  <2>1. phase' = "watch" /\ path' = path /\ missed' = missed
    BY <1>3 DEF Sync
  <2>2. \A f \in Names \ (missed \cup failed') : Known(f)'
    BY <1>3, <2>1, SyncCopies DEF Known
  <2> QED
    BY <2>1, <2>2 DEF SyncInv, ToCopy
<1>4. CASE MakeFolder
  <2>1. /\ phase' = "made" /\ UNCHANGED <<src, mounted, path>>
        /\ (~dir[path] /\ NewFolder) \/ (~Folder(path) /\ UNCHANGED dir)
    BY <1>4 DEF MakeFolder, Folder
  <2>2. CASE ~dir[path] /\ NewFolder
    <3>1. \A f \in Names \ failed' : dst'[path][f] = src[f]
      BY <2>2, NewFolderSame
    <3>2. \A f \in Names \ failed' : Known(f)'
      BY <2>1, <3>1 DEF Known
    <3> QED
      BY <2>1, <3>2 DEF SyncInv, ToCopy
  <2>3. CASE ~Folder(path) /\ UNCHANGED dir
    BY <2>1, <2>3 DEF SyncInv, ToCopy, Folder
  <2> QED
    BY <2>1, <2>2, <2>3
<1>5. CASE Watch
  <2>1. /\ phase \in {"watch", "made"} /\ phase' = "none"
        /\ wd_dst' = None \/ (wd_dst' = path /\ Folder(path))
        /\ UNCHANGED <<src, dst, path, queue, batch, missed, failed>>
    BY <1>5 DEF Watch, AddWatch, files, events, history
  <2>2. path # None
    BY <1>0 DEF Storages, None
  <2> QED
    BY <2>1, <2>2 DEF SyncInv, ToCopy, Known, Has
<1> QED
  BY <1>1, <1>2, <1>3, <1>4, <1>5

LEMMA OutsideKeepsSync ==
  ASSUME Typed, WatchInv, SyncInv,
         \/ Read \/ Connect \/ AskMount \/ Mount
         \/ AppChange \/ Tamper \/ RemoveFolder \/ Plug \/ Fail
  PROVE  SyncInv'
<1>0. FilesTyped /\ WatchTyped /\ StateTyped /\ queue \in Seq(AnyEvent) /\ batch \in Seq(AnyEvent)
  BY TypedParts DEF EventsTyped
<1>1. CASE missed' = Names
  BY <1>1 DEF SyncInv, ToCopy
<1>2. CASE Read
  <2>1. /\ batch = <<>> /\ batch' = queue
        /\ UNCHANGED <<src, dst, dir, mounted, path, wd_dst, alive, phase, restore, missed, failed>>
    BY <1>2 DEF Read, files, watches, remount, history
  <2>2. \A f : ~Has(<<>>, f)
    BY EmptySeq DEF Has
  <2>3. \A f : Known(f) => Known(f)'
    BY <2>1, <2>2 DEF Known, Has
  <2> QED
    BY <2>1, <2>3 DEF SyncInv, ToCopy, Folder
<1>3. CASE (Connect /\ path' = path) \/ AskMount \/ Fail
  <2>1. UNCHANGED <<src, dst, dir, mounted, path, wd_dst, alive, phase, restore, missed, failed, queue, batch>>
    BY <1>3 DEF Connect, AskMount, Fail, files, watches, remount, events, history
  <2> QED
    BY <2>1 DEF SyncInv, ToCopy, Folder, Known, Has
<1>4. CASE AppChange
  <2>1. PICK f \in Names, v \in Data \cup {None}, c \in Kinds :
          /\ src' = [src EXCEPT ![f] = v]
          /\ queue' = IF wd_src THEN Push(Event("src", c, f)) ELSE queue
          /\ missed' = IF wd_src THEN missed ELSE missed \cup {f}
    BY <1>4 DEF AppChange, Kinds
  <2>2. UNCHANGED <<dst, dir, mounted, path, wd_dst, alive, phase, restore, batch, failed>>
    BY <1>4 DEF AppChange, watches, remount
  <2> DEFINE x == Event("src", c, f)
  <2>3. x \in AnyEvent /\ About(x, f)
    BY EventType DEF About
  <2>4. \A g : Has(Push(x), g) <=> Has(queue, g) \/ About(x, g)
    BY <1>0, <2>3, PushEvents
  <2>5. \A g \in Names : g # f => src'[g] = src[g]
    BY <1>0, <2>1 DEF FilesTyped, Contents
  <2>6. (wd_src => queue' = Push(x)) /\ (~wd_src => queue' = queue)
    BY <2>1
  <2> HIDE DEF x
  <2>7. ASSUME NEW g \in Names \ missed', Known(g) PROVE Known(g)'
    <3>1. Has(queue, g) => Has(queue', g)
      BY <2>4, <2>6
    <3>2. CASE g = f
      <4>1. wd_src
        BY <2>1, <2>7, <3>2
      <4>2. Has(queue', g)
        BY <2>3, <2>4, <2>6, <3>2, <4>1
      <4> QED
        BY <4>2 DEF Known, Has
    <3>3. CASE g # f
      BY <2>2, <2>5, <2>7, <3>1, <3>3 DEF Known, Has
    <3> QED
      BY <3>2, <3>3
  <2>8. ASSUME NEW g \in Names \ missed', phase = "sync" PROVE g # f
    BY <2>1, <2>8 DEF WatchInv, Remounting
  <2>9. Names \ missed' \subseteq Names \ missed
    BY <2>1
  <2> QED
    BY <2>2, <2>5, <2>7, <2>8, <2>9 DEF SyncInv, ToCopy, Folder
<1>5. CASE Tamper
  <2>1. PICK s \in Storages, f \in Names, v \in Content, c \in Kinds :
          /\ dst' = [dst EXCEPT ![s][f] = v] /\ missed' = missed \cup {f}
          /\ queue' \in {queue, Push(Event("dst", c, f))}
    BY <1>5 DEF Tamper, Kinds, Content
  <2>2. UNCHANGED <<src, dir, mounted, path, wd_dst, alive, phase, restore, batch, failed>>
    BY <1>5 DEF Tamper, watches, remount
  <2>3. \A g : Has(queue, g) => Has(queue', g)
    BY <1>0, <2>1, EventType, PushEvents
  <2>4. \A g \in Names \ missed' : g \notin missed /\ dst'[path][g] = dst[path][g]
    <3>1. path \in Storages /\ dst \in [Storages -> Contents]
      BY <1>0 DEF FilesTyped, WatchTyped
    <3>2. \A t \in Storages, g \in Names :
            Put(s, f, v)[t][g] = IF t = s /\ g = f THEN v ELSE dst[t][g]
      BY <3>1, PutFile
    <3> QED
      BY <2>1, <3>1, <3>2 DEF Put
  <2>5. ASSUME NEW g \in Names \ missed', Known(g) PROVE Known(g)'
    BY <2>2, <2>3, <2>4, <2>5 DEF Known, Has
  <2> QED
    BY <2>2, <2>4, <2>5 DEF SyncInv, ToCopy, Folder
<1>6. CASE Plug /\ phase = "none"
  <2>1. /\ UNCHANGED <<src, dst, dir, path, wd_dst, phase, restore, missed, failed, batch>>
        /\ alive' => alive
        /\ queue' \in {queue, Push(Event("dst", "ignored", None))}
    BY <1>6 DEF Plug, Lost, remount
  <2>2. Event("dst", "ignored", None) \in AnyEvent
    BY IgnoredType
  <2>3. \A g : Has(queue, g) => Has(queue', g)
    BY <1>0, <2>1, <2>2, PushEvents
  <2>4. \A g : Known(g) => Known(g)'
    BY <2>1, <2>3 DEF Known, Has
  <2> QED
    BY <1>6, <2>1, <2>4 DEF SyncInv, ToCopy
<1>7. \/ missed' = Names \/ Read \/ (Connect /\ path' = path) \/ AskMount \/ Fail \/ AppChange
      \/ Tamper \/ (Plug /\ phase = "none")
  BY DEF Connect, Mount, RemoveFolder, Plug
<1> QED
  BY <1>1, <1>2, <1>3, <1>4, <1>5, <1>6, <1>7

LEMMA SyncInductive ==
  /\ Init => SyncInv
  /\ Typed /\ WatchInv /\ SrcInv /\ SyncInv /\ [Next]_vars => SyncInv'
<1>1. ASSUME Init PROVE SyncInv
  BY <1>1 DEF Init, SyncInv, ToCopy
<1>2. ASSUME SyncInv, UNCHANGED vars PROVE SyncInv'
  BY <1>2 DEF SyncInv, ToCopy, Known, Has, Folder, vars, files, watches, events, remount, history
<1>3. ASSUME Typed, WatchInv, SrcInv, SyncInv, Next PROVE SyncInv'
  BY <1>3, HandleKeepsSync, IgnoredKeepsSync, RemountKeepsSync, OutsideKeepsSync DEF Next, Ghost
<1> QED
  BY <1>1, <1>2, <1>3

(***************************************************************************)
(* InSync: when nothing is on its way, both directories hold the same, but *)
(* for what nobody watched, what others changed in dst, and the files      *)
(* whose last copy or deletion failed.                                     *)
(***************************************************************************)
THEOREM InSyncCorrect == Spec => []InSync
<1>1. Typed /\ WatchInv /\ SyncInv => InSync
  <2> SUFFICES ASSUME Typed, WatchInv, SyncInv, Settled, wd_dst = path,
                      NEW f \in Names \ (missed \cup failed)
               PROVE  dst[path][f] = src[f]
    BY DEF InSync
  <2>1. queue = <<>> /\ batch = <<>> /\ phase = "none"
    BY DEF Settled
  <2>2. (\A k : Count(<<>>, k) = 0) /\ \A g : ~Has(<<>>, g)
    BY CountNone, EmptySeq DEF Has
  <2>3. alive
    <3>1. wd_dst # None
      BY TypedParts DEF WatchTyped, Storages, None
    <3> QED
      BY <2>1, <2>2, <3>1 DEF WatchInv, Told, Dropped
  <2>4. Known(f)
    BY <2>1, <2>3 DEF SyncInv
  <2> QED
    BY <2>1, <2>2, <2>4 DEF Known
<1> QED
  BY <1>1, TypeInductive, WatchInductive, SrcInductive, SyncInductive, PTL DEF Spec
=============================================================================
