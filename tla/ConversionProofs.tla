-------------------------- MODULE ConversionProofs --------------------------
(***************************************************************************)
(* Theorems about the conversion transaction, for every set of sources,    *)
(* tools and identities, every number of extents and chunks, and every     *)
(* number of kills, power losses, edits and pending directory operations;  *)
(* and about the writers of sources, for every shape of the bounded source *)
(* and of the synthetic model, and every number of kills.                  *)
(***************************************************************************)
EXTENDS Conversion, ReferenceSources, SequenceTheorems, WellFoundedInduction, TLAPS

-----------------------------------------------------------------------------
(* What a power loss may bring back: the disks before each of the          *)
(* directory operations that are still pending.                            *)

Disk(p, o, l) == [partial |-> p, output |-> o, ledger |-> l]

\* A ledger names a prefix of the extents, with the bytes of its source.
IsTrue(l) ==
  /\ Len(l.completed) <= Extents
  /\ \A i \in 1..Len(l.completed) : l.completed[i] = Entry(i, Content(l.source, i))

\* No power loss takes from f an extent that l names.
Covers(f, l) ==
  /\ Len(l.completed) <= f.synced
  /\ \A i \in 1..Len(l.completed) : f.body[i].chunks = Content(l.source, i)

Fits(f) == f.synced <= Len(f.body) /\ Len(f.body) <= Extents + 1

\* A finished file: it opens, holds its source and is on the disk for good.
Whole(f) ==
  /\ Opens(f) /\ f.synced = Len(f.body) /\ f.durable = f.super
  /\ Directory(f).config = f.super.source
  /\ \A i \in 1..Extents : f.body[i].chunks = Content(f.super.source, i)

Describes(l, f) == f.super.uuid = l.uuid /\ f.super.source = l.source

Disks == [partial : Files \cup {None}, output : Files \cup {None}, ledger : Ledgers \cup {None}]

Sound(d) ==
  /\ d.partial # None => Fits(d.partial)
  /\ d.output # None => Whole(d.output)
  /\ d.ledger # None => IsTrue(d.ledger)
  /\ d.ledger # None /\ d.partial # None => Covers(d.partial, d.ledger)
  /\ d.ledger # None /\ d.partial = None => d.output # None /\ Describes(d.ledger, d.output)

SoundDisks == {d \in Disks : Sound(d)}

\* The disk before the operation op that led to d.
Undone(d, op) ==
  Disk(IF op.kind = "create" THEN None ELSE IF op.kind = "publish" THEN d.output ELSE d.partial,
       IF op.kind = "publish" THEN op.was ELSE d.output,
       IF op.kind = "ledger" THEN op.was ELSE d.ledger)

\* The partial file of d is still that of e, whose ledger names no fewer extents.
Follows(d, e) ==
  /\ d.partial = e.partial
  /\ d.partial # None /\ d.ledger # None =>
       e.ledger # None /\ Len(d.ledger.completed) <= Len(e.ledger.completed)

\* Only the ledger is replaced between the disks k and m.
SameFile(u, k, m) == \A j \in k..(m - 1) : u[j].kind = "ledger"

\* One more operation is pending, the first ones may be on the disk.
Shifted(u, op, v) ==
  /\ v \in Seq(Operations)
  /\ \E n \in {0, 1} :
       /\ Len(v) = Len(u) + 1 - n
       /\ \A k \in 1..Len(v) : v[k] = IF k + n <= Len(u) THEN u[k + n] ELSE op

\* The disks that the pending operations u led through, the last one is now.
IsHistory(h, u, now) ==
  /\ h \in [1..(Len(u) + 1) -> SoundDisks]
  /\ h[Len(u) + 1] = now
  /\ \A k \in 1..Len(u) : h[k] = Undone(h[k + 1], u[k])
  /\ \A k, m \in 1..(Len(u) + 1) : k <= m /\ SameFile(u, k, m) => Follows(h[k], h[m])

\* The types of the constants that the proofs use.
LEMMA ConversionFacts ==
  /\ Extents \in Nat /\ Chunks \in Nat /\ Chunks # 0
  /\ MaxKills \in Nat /\ MaxLosses \in Nat /\ MaxPending \in Nat /\ MaxEdits \in Nat
  /\ Data \in [Sources -> [1..Extents -> STRING]]
  /\ None \notin Files /\ None \notin Ledgers /\ None \notin Sources /\ None \notin Uuids
  /\ None \notin Superblocks /\ Junk \notin Superblocks
  BY ConversionAssumption

-----------------------------------------------------------------------------
(* Histories.                                                              *)

\* The first n members of a sequence.
LEMMA FirstMembers ==
  ASSUME NEW S, NEW s \in Seq(S), NEW n \in 0..Len(s)
  PROVE  /\ SubSeq(s, 1, n) \in Seq(S) /\ Len(SubSeq(s, 1, n)) = n
         /\ \A i \in 1..n : SubSeq(s, 1, n)[i] = s[i]
<1>1. Len(s) \in Nat /\ \A i \in 1..Len(s) : s[i] \in S
  BY LenProperties, ElementOfSeq
<1>2. n \in Int /\ 1 \in Int /\ \A i \in 1..n : s[i] \in S
  BY <1>1
<1>3. /\ SubSeq(s, 1, n) \in Seq(S)
      /\ Len(SubSeq(s, 1, n)) = IF 1 <= n THEN n - 1 + 1 ELSE 0
      /\ \A i \in 1..(n - 1 + 1) : SubSeq(s, 1, n)[i] = s[1 + i - 1]
  BY <1>2, SubSeqProperties
<1> QED BY <1>1, <1>3

\* Pending adds an operation at the end and may drop the first.
LEMMA PendingShifts ==
  ASSUME NEW u, u \in Seq(Operations), NEW op \in Operations,
         NEW v, v = IF Len(Append(u, op)) > MaxPending THEN Tail(Append(u, op)) ELSE Append(u, op)
  PROVE  Shifted(u, op, v)
<1> DEFINE all == Append(u, op)
<1>1. all \in Seq(Operations) /\ Len(all) = Len(u) + 1
      /\ \A k \in 1..Len(all) : all[k] = IF k <= Len(u) THEN u[k] ELSE op
  BY AppendProperties
<1>2. all # <<>>
  BY <1>1
<1>3. Tail(all) \in Seq(Operations) /\ Len(Tail(all)) = Len(all) - 1
      /\ \A k \in 1..Len(Tail(all)) : Tail(all)[k] = all[k + 1]
  BY <1>1, <1>2, HeadTailProperties
<1>4. v = all \/ v = Tail(all)
  OBVIOUS
<1>5. Len(u) \in Nat
  BY LenProperties
<1> HIDE DEF all
<1>6. CASE v = all
  <2>1. Len(v) = Len(u) + 1 - 0
        /\ \A k \in 1..Len(v) : v[k] = IF k + 0 <= Len(u) THEN u[k + 0] ELSE op
    BY <1>1, <1>5, <1>6
  <2> QED BY <2>1, <1>1, <1>6 DEF Shifted
<1>7. CASE v = Tail(all)
  <2>1. Len(v) = Len(u) + 1 - 1
        /\ \A k \in 1..Len(v) : v[k] = IF k + 1 <= Len(u) THEN u[k + 1] ELSE op
    BY <1>1, <1>3, <1>5, <1>7
  <2> QED BY <2>1, <1>3, <1>7 DEF Shifted
<1> QED BY <1>4, <1>6, <1>7

\* An operation leads to one more disk.
LEMMA HistoryGrows ==
  ASSUME NEW u, u \in Seq(Operations), NEW now, NEW h, IsHistory(h, u, now),
         NEW op \in Operations, NEW new \in SoundDisks, now = Undone(new, op),
         op.kind = "ledger" => \A d \in SoundDisks : Follows(d, now) => Follows(d, new),
         NEW v, Shifted(u, op, v)
  PROVE  \E g : IsHistory(g, v, new)
<1>1. v \in Seq(Operations)
  BY DEF Shifted
<1>2. PICK n \in {0, 1} :
        /\ Len(v) = Len(u) + 1 - n
        /\ \A k \in 1..Len(v) : v[k] = IF k + n <= Len(u) THEN u[k + n] ELSE op
  BY DEF Shifted
<1>3. Len(u) \in Nat /\ Len(v) \in Nat
  BY <1>1, LenProperties
<1> DEFINE last == Len(u) + 1
           g == [k \in 1..(Len(v) + 1) |-> IF k + n <= last THEN h[k + n] ELSE new]
<1>4. /\ h \in [1..last -> SoundDisks] /\ h[last] = now
      /\ \A k \in 1..Len(u) : h[k] = Undone(h[k + 1], u[k])
      /\ \A k, m \in 1..last : k <= m /\ SameFile(u, k, m) => Follows(h[k], h[m])
  BY DEF IsHistory
<1>5. last \in Nat /\ Len(v) + 1 + n = last + 1
  BY <1>2, <1>3
<1>6. /\ \A k \in 1..(Len(v) + 1) : g[k] = IF k + n <= last THEN h[k + n] ELSE new
      /\ DOMAIN g = 1..(Len(v) + 1)
      /\ g = [k \in 1..(Len(v) + 1) |-> g[k]]
  OBVIOUS
<1> HIDE DEF g, last
<1>7. g \in [1..(Len(v) + 1) -> SoundDisks]
  <2>1. \A k \in 1..(Len(v) + 1) : g[k] \in SoundDisks
    BY <1>2, <1>3, <1>4, <1>5, <1>6
  <2> QED BY <2>1, <1>6
<1>8. g[Len(v) + 1] = new
  BY <1>2, <1>3, <1>5, <1>6
<1>9. \A k \in 1..Len(v) : g[k] = Undone(g[k + 1], v[k])
  <2> SUFFICES ASSUME NEW k \in 1..Len(v) PROVE g[k] = Undone(g[k + 1], v[k])
    OBVIOUS
  <2>1. k \in 1..(Len(v) + 1) /\ k + 1 \in 1..(Len(v) + 1)
    BY <1>3
  <2>2. CASE k + n <= Len(u)
    <3>1. k + n \in 1..Len(u) /\ k + n + 1 = (k + 1) + n /\ k + n <= last /\ (k + 1) + n <= last
      BY <2>2, <1>2, <1>3 DEF last
    <3>2. g[k] = h[k + n] /\ g[k + 1] = h[k + n + 1] /\ v[k] = u[k + n]
      BY <3>1, <2>1, <2>2, <1>2, <1>3, <1>6
    <3> QED BY <3>1, <3>2, <1>4
  <2>3. CASE ~(k + n <= Len(u))
    <3>1. k + n = last /\ ~((k + 1) + n <= last)
      BY <2>3, <1>2, <1>3 DEF last
    <3>2. g[k] = now /\ g[k + 1] = new /\ v[k] = op
      BY <3>1, <2>1, <2>3, <1>2, <1>3, <1>4, <1>6
    <3> QED BY <3>2
  <2> QED BY <2>2, <2>3
<1>10. \A k, m \in 1..(Len(v) + 1) : k <= m /\ SameFile(v, k, m) => Follows(g[k], g[m])
  <2> SUFFICES ASSUME NEW k \in 1..(Len(v) + 1), NEW m \in 1..(Len(v) + 1),
                      k <= m, SameFile(v, k, m)
               PROVE  Follows(g[k], g[m])
    OBVIOUS
  <2>1. \A j \in k..(m - 1) : v[j].kind = "ledger"
    BY DEF SameFile
  <2>2. CASE m + n <= last
    <3>1. k + n \in 1..last /\ m + n \in 1..last /\ k + n <= m + n
      BY <2>2, <1>2, <1>3, <1>5
    <3>2. SameFile(u, k + n, m + n)
      <4> SUFFICES ASSUME NEW j \in (k + n)..(m + n - 1) PROVE u[j].kind = "ledger"
        BY DEF SameFile
      <4>1. j - n \in k..(m - 1) /\ j - n \in 1..Len(v) /\ (j - n) + n = j /\ j <= Len(u)
        BY <2>2, <1>2, <1>3 DEF last
      <4>2. v[j - n] = u[j]
        BY <4>1, <1>2
      <4> QED BY <4>1, <4>2, <2>1
    <3>3. g[k] = h[k + n] /\ g[m] = h[m + n]
      BY <3>1, <1>2, <1>3, <1>6
    <3> QED BY <3>1, <3>2, <3>3, <1>4
  <2>3. CASE ~(m + n <= last) /\ k = m
    BY <2>3, <1>2, <1>3, <1>5, <1>6, <1>7 DEF Follows, SoundDisks, Disks, Ledgers, last
  <2>4. CASE ~(m + n <= last) /\ k # m
    <3>1. m = Len(v) + 1 /\ k + n \in 1..last /\ m - 1 \in 1..Len(v) /\ (m - 1) + n = last
      BY <2>4, <1>2, <1>3, <1>5
    <3>2. v[m - 1] = op /\ op.kind = "ledger"
      <4>1. v[m - 1] = op
        BY <3>1, <1>2, <1>3 DEF last
      <4>2. m - 1 \in k..(m - 1)
        BY <2>4, <1>3
      <4> QED BY <4>1, <4>2, <2>1
    <3>3. SameFile(u, k + n, last)
      <4> SUFFICES ASSUME NEW j \in (k + n)..(last - 1) PROVE u[j].kind = "ledger"
        BY DEF SameFile
      <4>1. j - n \in k..(m - 1) /\ j - n \in 1..Len(v) /\ (j - n) + n = j /\ j <= Len(u)
        BY <3>1, <1>2, <1>3 DEF last
      <4>2. v[j - n] = u[j]
        BY <4>1, <1>2
      <4> QED BY <4>1, <4>2, <2>1
    <3>4. last \in 1..last /\ k + n <= last
      BY <3>1, <1>3 DEF last
    <3>5. Follows(h[k + n], now) /\ h[k + n] \in SoundDisks
      BY <3>1, <3>3, <3>4, <1>4
    <3>6. g[k] = h[k + n] /\ g[m] = new
      BY <3>1, <2>4, <1>2, <1>3, <1>6
    <3> QED BY <3>2, <3>5, <3>6
  <2> QED BY <2>2, <2>3, <2>4
<1>11. IsHistory(g, v, new)
  BY <1>7, <1>8, <1>9, <1>10 DEF IsHistory
<1> QED BY <1>11

\* Losing the last operation leads one disk back.
LEMMA HistoryShrinks ==
  ASSUME NEW u, u \in Seq(Operations), u # <<>>, NEW now, NEW h, IsHistory(h, u, now)
  PROVE  /\ SubSeq(u, 1, Len(u) - 1) \in Seq(Operations)
         /\ \E g : IsHistory(g, SubSeq(u, 1, Len(u) - 1), Undone(now, u[Len(u)]))
<1> DEFINE v == SubSeq(u, 1, Len(u) - 1)
           g == [k \in 1..Len(u) |-> h[k]]
<1>1. Len(u) \in Nat /\ Len(u) # 0
  BY LenProperties, EmptySeq
<1>2. v \in Seq(Operations) /\ Len(v) = Len(u) - 1 /\ \A k \in 1..Len(v) : v[k] = u[k]
  <2>1. Len(u) - 1 \in 0..Len(u)
    BY <1>1
  <2> QED BY <2>1, FirstMembers, Zenon
<1>3. /\ h \in [1..(Len(u) + 1) -> SoundDisks] /\ h[Len(u) + 1] = now
      /\ \A k \in 1..Len(u) : h[k] = Undone(h[k + 1], u[k])
      /\ \A k, m \in 1..(Len(u) + 1) : k <= m /\ SameFile(u, k, m) => Follows(h[k], h[m])
  BY DEF IsHistory
<1>4. g \in [1..Len(u) -> SoundDisks] /\ \A k \in 1..Len(u) : g[k] = h[k]
  BY <1>1, <1>3
<1> HIDE DEF v, g
<1>5. g \in [1..(Len(v) + 1) -> SoundDisks]
  BY <1>1, <1>2, <1>4
<1>6. g[Len(v) + 1] = Undone(now, u[Len(u)])
  <2>1. Len(u) \in 1..Len(u) /\ Len(v) + 1 = Len(u)
    BY <1>1, <1>2
  <2> QED BY <2>1, <1>3, <1>4
<1>7. \A k \in 1..Len(v) : g[k] = Undone(g[k + 1], v[k])
  BY <1>1, <1>2, <1>3, <1>4
<1>8. \A k, m \in 1..(Len(v) + 1) : k <= m /\ SameFile(v, k, m) => Follows(g[k], g[m])
  <2> SUFFICES ASSUME NEW k \in 1..(Len(v) + 1), NEW m \in 1..(Len(v) + 1),
                      k <= m, SameFile(v, k, m)
               PROVE  Follows(g[k], g[m])
    OBVIOUS
  <2>1. SameFile(u, k, m)
    BY <1>1, <1>2, SMTT(20) DEF SameFile
  <2> QED BY <2>1, <1>1, <1>2, <1>3, <1>4
<1>9. IsHistory(g, v, Undone(now, u[Len(u)]))
  BY <1>5, <1>6, <1>7, <1>8 DEF IsHistory
<1> QED BY <1>2, <1>9 DEF v

\* After a boot nothing is pending.
LEMMA HistoryForgotten ==
  ASSUME NEW u, u \in Seq(Operations), NEW now, NEW h, IsHistory(h, u, now)
  PROVE  now \in SoundDisks /\ \E g : IsHistory(g, <<>>, now)
<1>1. now \in SoundDisks
  BY LenProperties DEF IsHistory
<1>2. now.ledger # None => Len(now.ledger.completed) \in Nat
  BY <1>1, LenProperties DEF SoundDisks, Disks, Ledgers
<1>3. Follows(now, now)
  BY <1>2 DEF Follows
<1> DEFINE g == [k \in 1..1 |-> now]
<1>4. IsHistory(g, <<>>, now)
  BY <1>1, <1>3 DEF IsHistory, SameFile
<1> QED BY <1>1, <1>4

\* A file may be changed in place as long as it covers what it covered.
LEMMA HistoryRewritten ==
  ASSUME NEW u, u \in Seq(Operations), NEW h, NEW p, NEW o, NEW l,
         IsHistory(h, u, Disk(p, o, l)), p # None, NEW q \in Files, q # None, Fits(q),
         \A x \in Ledgers :
            l # None /\ Len(x.completed) <= Len(l.completed) /\ Covers(p, x) => Covers(q, x)
  PROVE  \E g : IsHistory(g, u, Disk(q, o, l))
<1> DEFINE last == Len(u) + 1
           At(k) == SameFile(u, k, last)
           g == [k \in 1..last |->
                   Disk(IF At(k) THEN q ELSE h[k].partial, h[k].output, h[k].ledger)]
<1>1. Len(u) \in Nat
  BY LenProperties
<1>2. /\ h \in [1..last -> SoundDisks] /\ h[last] = Disk(p, o, l)
      /\ \A k \in 1..Len(u) : h[k] = Undone(h[k + 1], u[k])
      /\ \A k, m \in 1..last : k <= m /\ SameFile(u, k, m) => Follows(h[k], h[m])
  BY DEF IsHistory
<1>3. \A k \in 1..last :
         g[k] = Disk(IF At(k) THEN q ELSE h[k].partial, h[k].output, h[k].ledger)
  OBVIOUS
<1>4. \A k \in 1..last : g[k] \in SoundDisks
  <2> SUFFICES ASSUME NEW k \in 1..last PROVE g[k] \in SoundDisks
    OBVIOUS
  <2>1. h[k] \in Disks /\ Sound(h[k])
    BY <1>2 DEF SoundDisks
  <2>2. CASE At(k)
    <3>1. Follows(h[k], h[last])
      BY <1>1, <1>2, <2>2
    <3>2. h[k].partial = p
          /\ (h[k].ledger # None =>
                l # None /\ Len(h[k].ledger.completed) <= Len(l.completed))
      BY <3>1, <1>2 DEF Follows, Disk
    <3>3. h[k].ledger # None => Covers(q, h[k].ledger)
      BY <3>2, <2>1 DEF Sound, Disks
    <3>4. g[k].partial = q /\ g[k].output = h[k].output /\ g[k].ledger = h[k].ledger
          /\ g[k] \in Disks
      BY <1>3, <2>1, <2>2 DEF Disk, Disks
    <3>5. Sound(g[k])
      BY <3>3, <3>4, <2>1 DEF Sound
    <3> QED BY <3>4, <3>5 DEF SoundDisks
  <2>3. CASE ~At(k)
    <3>1. g[k] = h[k]
      BY <1>3, <2>1, <2>3 DEF Disk, Disks
    <3> QED BY <3>1, <1>2
  <2> QED BY <2>2, <2>3
<1>5. At(last)
  BY <1>1 DEF SameFile
<1>6. g[last] = Disk(q, o, l)
  BY <1>1, <1>2, <1>3, <1>5 DEF Disk
<1>7. \A k \in 1..Len(u) : g[k] = Undone(g[k + 1], u[k])
  <2> SUFFICES ASSUME NEW k \in 1..Len(u) PROVE g[k] = Undone(g[k + 1], u[k])
    OBVIOUS
  <2>1. k \in 1..last /\ k + 1 \in 1..last
    BY <1>1
  <2>2. h[k] = Undone(h[k + 1], u[k])
    BY <1>2
  <2>3. CASE u[k].kind = "ledger"
    <3>1. At(k) <=> At(k + 1)
      BY <1>1, <2>3 DEF SameFile
    <3> QED BY <3>1, <2>1, <2>2, <2>3, <1>3 DEF Undone, Disk
  <2>4. CASE u[k].kind # "ledger"
    <3>1. ~At(k)
      BY <1>1, <2>4 DEF SameFile
    <3>2. u[k].kind \in {"create", "publish"}
      BY <2>4, ElementOfSeq DEF Operations
    <3> QED BY <3>1, <3>2, <2>1, <2>2, <1>3 DEF Undone, Disk
  <2> QED BY <2>3, <2>4
<1>8. \A k, m \in 1..last : k <= m /\ SameFile(u, k, m) => Follows(g[k], g[m])
  <2> SUFFICES ASSUME NEW k \in 1..last, NEW m \in 1..last, k <= m, SameFile(u, k, m)
               PROVE  Follows(g[k], g[m])
    OBVIOUS
  <2>1. Follows(h[k], h[m])
    BY <1>2
  <2>2. At(k) <=> At(m)
    BY <1>1 DEF SameFile
  <2>3. CASE At(m)
    <3>1. Follows(h[m], h[last])
      BY <1>1, <1>2, <2>3
    <3>2. h[m].partial # None
      BY <3>1, <1>2 DEF Follows, Disk
    <3> QED BY <3>2, <2>1, <2>2, <2>3, <1>3 DEF Follows, Disk
  <2>4. CASE ~At(m)
    BY <2>1, <2>2, <2>4, <1>3 DEF Follows, Disk
  <2> QED BY <2>3, <2>4
<1>9. g \in [1..last -> SoundDisks]
  BY <1>4
<1>10. IsHistory(g, u, Disk(q, o, l))
  BY <1>6, <1>7, <1>8, <1>9 DEF IsHistory
<1> QED BY <1>10

-----------------------------------------------------------------------------
(* The inductive invariant.                                                *)

Now == Disk(partial, output, ledger)

\* A run of the converter, and one that has its ledger and its partial file.
Running == run.pc \notin {"idle", "down"}
Writing == run.pc \in {"copy", "record", "directories", "root", "publish"}

LastPiece == [id |-> 0, records |-> run.done, config |-> run.src, chunks |-> <<>>]
Block(root) ==
  [state |-> 1, uuid |-> run.uuid, source |-> run.src, length |-> Extents + 1,
   directory |-> LastPiece, root |-> root]

\* How far a run is: its source has not changed, its ledger names the extents
\* done, and the partial file holds them, synced, and what comes next.
Chunked(n) == [c \in 1..n |-> Data[run.src][Following]]
LedgerStage ==
  ledger = None /\ partial # None /\ partial.body = <<>> /\ partial.synced = 0 /\ run.done = <<>>
WritingStage ==
  /\ ledger # None /\ partial # None
  /\ ledger.source = run.src /\ ledger.uuid = run.uuid /\ ledger.completed = run.done
CopyStage ==
  /\ partial.synced = Len(run.done)
  /\ \/ Len(partial.body) = Len(run.done)
     \/ /\ Following <= Extents /\ Len(partial.body) = Following
        /\ \E n \in 0..Chunks : partial.body[Following].chunks = Chunked(n)
RecordStage ==
  /\ Following <= Extents /\ Len(partial.body) = Following /\ partial.synced = Following
  /\ partial.body[Following].chunks = Chunked(Chunks)
DirectoryStage(root) ==
  /\ Len(run.done) = Extents /\ Len(partial.body) = Extents + 1
  /\ Directory(partial) = LastPiece /\ partial.super = Block(root)
PublishStage == Whole(partial) /\ Describes(ledger, partial)

RunInv ==
  /\ Running => run.src = source
  /\ Running /\ run.pc # "open" => run.uuid \in Uuids
  /\ run.pc = "open" => run.done = <<>>
  /\ run.pc = "ledger" => LedgerStage
  /\ Writing => WritingStage
  /\ run.pc = "copy" => CopyStage
  /\ run.pc = "record" => RecordStage
  /\ run.pc = "directories" => DirectoryStage(None)
  /\ run.pc = "root" => DirectoryStage(partial.body)
  /\ run.pc = "publish" => PublishStage
  /\ run.pc = "unlink" => partial = None

Runs ==
  [pc : Steps, src : Sources \cup {None}, uuid : Uuids \cup {None},
   done : Seq(Entries), new : Nat, stop : 0..Extents]

WorldOK ==
  /\ source \in Sources /\ tool \in Tools /\ run \in Runs
  /\ kills \in 0..MaxKills /\ losses \in 0..MaxLosses /\ edits \in 0..MaxEdits

HasHistory == undo \in Seq(Operations) /\ \E h : IsHistory(h, undo, Now)

Inv == WorldOK /\ HasHistory /\ RunInv /\ RefusesOnlyChangedInput

\* Nobody edits the source while a run is under way, and no tensor is empty.
QuietRun == QuietSource /\ Empty = {}

-----------------------------------------------------------------------------
(* What is on the disk now.                                                *)

LEMMA CurrentDisk ==
  ASSUME HasHistory
  PROVE  /\ Now \in SoundDisks
         /\ partial \in Files \cup {None} /\ output \in Files \cup {None}
         /\ ledger \in Ledgers \cup {None}
         /\ partial # None => Fits(partial)
         /\ output # None => Whole(output)
         /\ ledger # None => IsTrue(ledger)
         /\ ledger # None /\ partial # None => Covers(partial, ledger)
         /\ ledger # None /\ partial = None => output # None /\ Describes(ledger, output)
<1>1. Now \in SoundDisks
  BY HistoryForgotten DEF HasHistory
<1>2. Now.partial = partial /\ Now.output = output /\ Now.ledger = ledger
  BY DEF Now, Disk
<1>3. Now \in Disks /\ Sound(Now)
  BY <1>1 DEF SoundDisks
<1>4. /\ partial \in Files \cup {None} /\ output \in Files \cup {None}
      /\ ledger \in Ledgers \cup {None}
  BY <1>2, <1>3 DEF Disks
<1> QED BY <1>1, <1>2, <1>3, <1>4 DEF Sound

\* A disk is sound when its parts are.
LEMMA SoundDisk ==
  ASSUME NEW p \in Files \cup {None}, NEW o \in Files \cup {None},
         NEW l \in Ledgers \cup {None},
         p # None => Fits(p), o # None => Whole(o), l # None => IsTrue(l),
         l # None /\ p # None => Covers(p, l),
         l # None /\ p = None => o # None /\ Describes(l, o)
  PROVE  Disk(p, o, l) \in SoundDisks
<1> DEFINE d == Disk(p, o, l)
<1>1. d \in Disks /\ d.partial = p /\ d.output = o /\ d.ledger = l
  BY DEF Disk, Disks
<1> HIDE DEF d
<1>2. Sound(d)
  BY <1>1 DEF Sound
<1>3. d \in SoundDisks
  BY <1>1, <1>2 DEF SoundDisks
<1> QED BY <1>3 DEF d

LEMMA TypesFollow ==
  ASSUME WorldOK, HasHistory
  PROVE  TypeOK
<1>1. \A f \in Files : Len(f.body) \in Nat /\ f.synced \in Nat
  BY LenProperties DEF Files
<1>2. partial \in Files \cup {None} /\ FileOK(partial)
  BY <1>1, CurrentDisk DEF FileOK, Fits
<1>3. output \in Files \cup {None} /\ FileOK(output)
  <2>1. output # None => Len(output.body) = Extents + 1
    BY CurrentDisk DEF Whole, Opens
  <2> QED BY <2>1, <1>1, CurrentDisk, ConversionFacts DEF FileOK, Whole
<1>4. ledger \in Ledgers \cup {None} /\ Len(Completed) <= Extents
  <2>1. Len(<<>>) = 0
    OBVIOUS
  <2> QED BY <2>1, CurrentDisk, ConversionFacts DEF Completed, IsTrue
<1> QED BY <1>2, <1>3, <1>4 DEF TypeOK, WorldOK, Runs, HasHistory

-----------------------------------------------------------------------------
(* How a step changes what is on the disk.                                 *)

LEMMA OperationStep ==
  ASSUME HasHistory, NEW op \in Operations, NEW p, NEW o, NEW l,
         Disk(p, o, l) \in SoundDisks,
         Now = Undone(Disk(p, o, l), op),
         op.kind = "ledger" =>
           \A d \in SoundDisks : Follows(d, Now) => Follows(d, Disk(p, o, l)),
         undo' = Pending(op.kind, op.was),
         partial' = p, output' = o, ledger' = l
  PROVE  HasHistory'
<1>1. PICK h : IsHistory(h, undo, Now)
  BY DEF HasHistory
<1>2. op = [kind |-> op.kind, was |-> op.was]
  BY DEF Operations
<1>3. undo' = IF Len(Append(undo, op)) > MaxPending
              THEN Tail(Append(undo, op)) ELSE Append(undo, op)
  BY <1>2 DEF Pending
<1>4. undo \in Seq(Operations)
  BY DEF HasHistory
<1>5. Shifted(undo, op, undo')
  BY <1>3, <1>4, PendingShifts
<1>6. \E g : IsHistory(g, undo', Disk(p, o, l))
  BY <1>1, <1>4, <1>5, HistoryGrows
<1>7. undo' \in Seq(Operations)
  BY <1>5 DEF Shifted
<1>8. Now' = Disk(p, o, l)
  BY DEF Now
<1> QED BY <1>6, <1>7, <1>8 DEF HasHistory

LEMMA RewriteStep ==
  ASSUME HasHistory, partial # None, NEW q \in Files, Fits(q),
         \A x \in Ledgers :
            ledger # None /\ Len(x.completed) <= Len(ledger.completed) /\ Covers(partial, x)
            => Covers(q, x),
         partial' = q, UNCHANGED <<output, ledger, undo>>
  PROVE  HasHistory'
<1>1. PICK h : IsHistory(h, undo, Now)
  BY DEF HasHistory
<1>2. q # None
  BY ConversionFacts
<1>3. undo \in Seq(Operations)
  BY DEF HasHistory
<1>4. \E g : IsHistory(g, undo, Disk(q, output, ledger))
  BY <1>1, <1>2, <1>3, HistoryRewritten DEF Now
<1>5. Now' = Disk(q, output, ledger)
  BY DEF Now
<1> QED BY <1>3, <1>4, <1>5 DEF HasHistory

LEMMA SameDiskStep ==
  ASSUME HasHistory, UNCHANGED disk
  PROVE  HasHistory'
<1>1. Now' = Now /\ undo' = undo
  BY DEF disk, Now
<1> QED BY <1>1 DEF HasHistory

-----------------------------------------------------------------------------
(* Contents.                                                               *)

LEMMA Repeats ==
  ASSUME NEW n \in Nat, NEW x \in Texts
  PROVE  /\ [c \in 1..n |-> x] \in Seq(Texts) /\ Len([c \in 1..n |-> x]) = n
         /\ Append([c \in 1..n |-> x], x) = [c \in 1..(n + 1) |-> x]
         /\ n # 0 => [c \in 1..n |-> x] # <<>>
<1> DEFINE s == [c \in 1..n |-> x]
           t == [c \in 1..(n + 1) |-> x]
<1>1. s \in Seq(Texts) /\ Len(s) = n /\ \A i \in 1..n : s[i] = x
  OBVIOUS
<1>2. t \in Seq(Texts) /\ Len(t) = n + 1 /\ \A i \in 1..(n + 1) : t[i] = x
  OBVIOUS
<1> HIDE DEF s, t
<1>3. /\ Append(s, x) \in Seq(Texts) /\ Len(Append(s, x)) = n + 1
      /\ \A i \in 1..(n + 1) : Append(s, x)[i] = x
  BY <1>1, AppendProperties
<1>4. Append(s, x) = t
  BY <1>2, <1>3, SeqEqual
<1>5. n # 0 => s # <<>>
  BY <1>1
<1> QED BY <1>1, <1>4, <1>5 DEF s, t

LEMMA Contents ==
  ASSUME QuietRun, NEW s \in Sources, NEW i \in 1..Extents
  PROVE  /\ Data[s][i] \in Texts
         /\ Content(s, i) = [c \in 1..Chunks |-> Data[s][i]]
         /\ Content(s, i) \in Seq(Texts) /\ Content(s, i) # <<>>
<1>1. Data[s][i] \in Texts
  BY ConversionFacts DEF Texts
<1>2. Content(s, i) = [c \in 1..Chunks |-> Data[s][i]]
  BY DEF Content, QuietRun
<1>3. /\ [c \in 1..Chunks |-> Data[s][i]] \in Seq(Texts)
      /\ [c \in 1..Chunks |-> Data[s][i]] # <<>>
  BY <1>1, ConversionFacts, Repeats, ZenonT(40)
<1> QED BY <1>1, <1>2, <1>3

\* A power loss takes nothing from a finished file.
LEMMA WholeRemains ==
  ASSUME NEW f \in Files, Whole(f), NEW g \in Remains(f)
  PROVE  g = f
<1>1. f.synced = Len(f.body) /\ f.durable = f.super /\ Len(f.body) \in Nat
  BY LenProperties DEF Whole, Files
<1>2. f.body = [k \in 1..Len(f.body) |-> f.body[k]]
  BY DEF Files
<1>3. f = [super |-> f.super, durable |-> f.durable, body |-> f.body, synced |-> f.synced]
  BY DEF Files
<1>4. PICK block \in {f.super, f.durable} \cup {Junk : x \in {f.super} \ {f.durable}},
           n \in f.synced..Len(f.body), intact \in BOOLEAN :
         g = Remnant(f, block, n, intact)
  <2>1. f # None
    BY ConversionFacts
  <2> QED BY <2>1 DEF Remains
<1>5. block = f.super /\ n = Len(f.body)
  BY <1>1, <1>4
<1>6. [k \in 1..n |-> IF k <= f.synced \/ intact THEN f.body[k]
                      ELSE [id |-> f.body[k].id, chunks |-> <<Junk>>]] = f.body
  <2>1. \A k \in 1..n : k <= f.synced
    BY <1>1, <1>5
  <2>2. [k \in 1..n |-> IF k <= f.synced \/ intact THEN f.body[k]
                        ELSE [id |-> f.body[k].id, chunks |-> <<Junk>>]]
        = [k \in 1..n |-> f.body[k]]
    BY <2>1
  <2> QED BY <2>2, <1>2, <1>5
<1>7. g = [f EXCEPT !.super = f.super, !.durable = f.super, !.synced = f.synced, !.body = f.body]
  BY <1>1, <1>4, <1>5, <1>6 DEF Remnant
<1> QED BY <1>1, <1>3, <1>7

\* It takes from no file what was synced.
LEMMA SyncedRemains ==
  ASSUME NEW f \in Files, Fits(f), NEW g \in Remains(f)
  PROVE  g \in Files /\ Fits(g) /\ \A x \in Ledgers : Covers(f, x) => Covers(g, x)
<1>1. f.synced \in Nat /\ f.body \in Seq(Pieces) /\ Len(f.body) \in Nat
      /\ f.super \in Blocks /\ f.durable \in Blocks /\ Junk \in Blocks
  BY LenProperties DEF Files, Blocks
<1>2. PICK block \in {f.super, f.durable} \cup {Junk : x \in {f.super} \ {f.durable}},
           n \in f.synced..Len(f.body), intact \in BOOLEAN :
         g = Remnant(f, block, n, intact)
  <2>1. f # None
    BY ConversionFacts
  <2> QED BY <2>1 DEF Remains
<1> DEFINE b == [k \in 1..n |-> IF k <= f.synced \/ intact THEN f.body[k]
                               ELSE [id |-> f.body[k].id, chunks |-> <<Junk>>]]
<1>3. block \in Blocks /\ n \in Nat /\ f.synced <= n /\ n <= Len(f.body)
  BY <1>1, <1>2
<1>4. g = [super |-> block, durable |-> block, body |-> b, synced |-> n]
  BY <1>2 DEF Remnant, Files
<1>5. \A k \in 1..n : b[k] \in Pieces
  <2> SUFFICES ASSUME NEW k \in 1..n PROVE b[k] \in Pieces
    OBVIOUS
  <2>1. f.body[k] \in Pieces
    BY <1>1, <1>3, ElementOfSeq
  <2>2. f.body[k].id \in 0..Extents
    BY <2>1, ConversionFacts DEF Pieces
  <2>3. <<Junk>> \in Seq(Texts)
    BY DEF Texts
  <2>4. [id |-> f.body[k].id, chunks |-> <<Junk>>] \in Pieces
    BY <2>2, <2>3 DEF Pieces
  <2> QED BY <2>1, <2>4
<1>6. b \in Seq(Pieces) /\ Len(b) = n
  BY <1>3, <1>5
<1>7. \A k \in 1..f.synced : b[k] = f.body[k]
  BY <1>1, <1>3
<1> HIDE DEF b
<1>8. g \in Files /\ g.body = b /\ g.synced = n
  BY <1>3, <1>4, <1>6 DEF Files
<1>9. Fits(g)
  BY <1>1, <1>3, <1>6, <1>8, ConversionFacts DEF Fits
<1>10. \A x \in Ledgers : Covers(f, x) => Covers(g, x)
  <2> SUFFICES ASSUME NEW x \in Ledgers, Covers(f, x) PROVE Covers(g, x)
    OBVIOUS
  <2>1. Len(x.completed) \in Nat
    BY LenProperties DEF Ledgers
  <2> QED BY <2>1, <1>1, <1>3, <1>7, <1>8 DEF Covers
<1> QED BY <1>8, <1>9, <1>10

-----------------------------------------------------------------------------
(* The invariant holds at the start; steps that begin or end a run, and    *)
(* those of the world.                                                     *)

LEMMA Begins == ASSUME Init PROVE Inv
<1>1. WorldOK
  BY ConversionFacts DEF Init, WorldOK, Runs, Idle, Steps
<1>2. HasHistory
  <2>1. undo = <<>> /\ undo \in Seq(Operations) /\ Now = Disk(None, None, None)
    BY DEF Init, Now
  <2>2. Now \in SoundDisks
    BY <2>1, SoundDisk
  <2>3. Follows(Now, Now)
    BY <2>1 DEF Follows, Disk
  <2> DEFINE g == [k \in 1..1 |-> Now]
  <2>4. IsHistory(g, <<>>, Now)
    BY <2>2, <2>3 DEF IsHistory, SameFile
  <2> QED BY <2>1, <2>4 DEF HasHistory
<1>3. RunInv
  BY DEF Init, Idle, RunInv, Running, Writing
<1>4. RefusesOnlyChangedInput
  BY DEF Init, RefusesOnlyChangedInput
<1> QED BY <1>1, <1>2, <1>3, <1>4 DEF Inv

LEMMA RunTyped ==
  ASSUME NEW pc \in Steps, NEW src \in Sources \cup {None}, NEW uuid \in Uuids \cup {None},
         NEW done \in Seq(Entries), NEW new \in Nat, NEW stop \in 0..Extents
  PROVE  [pc |-> pc, src |-> src, uuid |-> uuid, done |-> done, new |-> new, stop |-> stop] \in Runs
  BY DEF Runs

\* A run that is over leaves nothing to say.
LEMMA NoRun ==
  ASSUME run' = Idle \/ run' = [Idle EXCEPT !.pc = "down"]
  PROVE  run' \in Runs /\ RunInv'
<1>1. run'.pc \in {"idle", "down"}
  BY DEF Idle
<1>2. run' \in Runs
  <2>1. run' = [pc |-> run'.pc, src |-> None, uuid |-> None, done |-> <<>>, new |-> 0,
                stop |-> 0]
    BY DEF Idle
  <2>2. run'.pc \in Steps /\ <<>> \in Seq(Entries) /\ 0 \in 0..Extents
    BY <1>1, ConversionFacts DEF Steps
  <2>3. [pc |-> run'.pc, src |-> None, uuid |-> None, done |-> <<>>, new |-> 0,
         stop |-> 0] \in Runs
    BY <2>2, RunTyped
  <2> QED BY <2>1, <2>3, Zenon
<1>3. RunInv'
  BY <1>1 DEF RunInv, Running, Writing
<1> QED BY <1>2, <1>3

LEMMA StartKeeps == ASSUME Inv, Start \/ DryRun PROVE Inv'
<1>1. HasHistory'
  BY SameDiskStep DEF Start, DryRun, Inv
<1>2. WorldOK' /\ RunInv' /\ RefusesOnlyChangedInput'
  <2>1. CASE Start
    <3>1. PICK stop \in 0..Extents : run' = [Idle EXCEPT !.pc = "open", !.src = source, !.stop = stop]
      BY <2>1 DEF Start
    <3>2. run' = [pc |-> "open", src |-> source, uuid |-> None, done |-> <<>>, new |-> 0,
                  stop |-> stop]
      BY <3>1 DEF Idle
    <3>3. source' = source /\ source \in Sources
      BY <2>1 DEF Start, world, Inv, WorldOK
    <3>4. run' \in Runs
      <4>1. "open" \in Steps /\ <<>> \in Seq(Entries)
        BY DEF Steps
      <4> QED BY <4>1, <3>2, <3>3, RunTyped
    <3>5. WorldOK'
      BY <2>1, <3>4 DEF Start, world, Inv, WorldOK
    <3>6. RunInv'
      BY <3>2, <3>3 DEF RunInv, Running, Writing
    <3> QED BY <2>1, <3>5, <3>6 DEF Start, RefusesOnlyChangedInput
  <2>2. CASE DryRun
    <3>1. UNCHANGED <<world, disk, run>> /\ result' = "planned"
      BY <2>2 DEF DryRun
    <3>2. WorldOK'
      BY <3>1 DEF world, Inv, WorldOK
    <3>3. RunInv'
      BY <2>2 DEF DryRun, RunInv, Running, Writing
    <3> QED BY <3>1, <3>2, <3>3 DEF RefusesOnlyChangedInput
  <2> QED BY <2>1, <2>2
<1> QED BY <1>1, <1>2 DEF Inv

\* A ledger of this source passes every check of resume.
LEMMA LedgerPasses ==
  ASSUME Inv, QuietRun, run.pc = "open", ledger # None, ledger.source = run.src
  PROVE  ExtentsFollowPlan(ledger.completed) /\ ExtentsMatchSource(ledger.completed)
<1>1. ledger \in Ledgers /\ IsTrue(ledger)
  BY CurrentDisk DEF Inv
<1>2. ledger.source = source /\ source \in Sources
  BY DEF Inv, RunInv, Running, WorldOK
<1>3. Len(ledger.completed) \in Nat
  BY <1>1, LenProperties DEF Ledgers
<1>4. \A i \in 1..Len(ledger.completed) :
         /\ i \in 1..Extents
         /\ ledger.completed[i] = Entry(i, Content(source, i))
  BY <1>1, <1>2, <1>3, ConversionFacts DEF IsTrue
<1>5. \A i \in 1..Len(ledger.completed) :
         /\ ledger.completed[i].id = i /\ ledger.completed[i].pos = i
         /\ ledger.completed[i].crc = Content(source, i)
         /\ ledger.completed[i].crc # <<>>
  <2> SUFFICES ASSUME NEW i \in 1..Len(ledger.completed)
               PROVE  /\ ledger.completed[i].id = i /\ ledger.completed[i].pos = i
                      /\ ledger.completed[i].crc = Content(source, i)
                      /\ ledger.completed[i].crc # <<>>
    OBVIOUS
  <2>1. Content(source, i) # <<>>
    BY <1>2, <1>4, Contents
  <2>2. ledger.completed[i] = Entry(i, Content(source, i))
    BY <1>4
  <2> QED BY <2>1, <2>2 DEF Entry
<1> QED BY <1>1, <1>5 DEF ExtentsFollowPlan, ExtentsMatchSource, IsTrue

LEMMA EndKeeps == ASSUME Inv, QuietRun, Refuse \/ Kill PROVE Inv'
<1>1. HasHistory'
  BY SameDiskStep DEF Refuse, Kill, Inv
<1>2. run' = Idle
  BY DEF Refuse, Kill, Finish
<1>3. run' \in Runs /\ RunInv'
  BY <1>2, NoRun
<1>4. kills \in 0..MaxKills /\ MaxKills \in Nat
  BY ConversionFacts DEF Inv, WorldOK
<1>5. WorldOK'
  BY <1>3, <1>4 DEF Refuse, Kill, world, Inv, WorldOK
<1>6. RefusesOnlyChangedInput'
  <2>1. CASE Kill
    BY <2>1 DEF Kill, Finish, RefusesOnlyChangedInput
  <2>2. CASE Refuse
    <3>1. run.pc = "open" /\ ledger # None /\ Refusal # "none" /\ result' = Refusal
      BY <2>2 DEF Refuse, LedgerAccepted, Finish
    <3>2. CASE ledger.source # run.src
      BY <3>1, <3>2 DEF Refusal, RefusesOnlyChangedInput, Refusals
    <3>3. CASE ledger.source = run.src /\ ledger.tool # tool
      BY <3>1, <3>3 DEF Refusal, RefusesOnlyChangedInput, Refusals
    <3>4. CASE ledger.source = run.src /\ ledger.tool = tool
      <4>1. ExtentsFollowPlan(ledger.completed) /\ ExtentsMatchSource(ledger.completed)
        BY <3>1, <3>4, LedgerPasses
      <4>2. Refusal = "none"
        BY <3>4, <4>1 DEF Refusal
      <4> QED BY <3>1, <4>2
    <3> QED BY <3>2, <3>3, <3>4
  <2> QED BY <2>1, <2>2
<1> QED BY <1>1, <1>3, <1>5, <1>6 DEF Inv

LEMMA EditKeeps == ASSUME Inv, QuietRun, EditSource \/ UpgradeTool PROVE Inv'
<1>1. HasHistory'
  BY SameDiskStep DEF EditSource, UpgradeTool, Inv
<1>2. run.pc = "idle" /\ UNCHANGED <<disk, run, result>>
  BY DEF EditSource, UpgradeTool, QuietRun
<1>3. edits \in 0..MaxEdits /\ MaxEdits \in Nat
  BY ConversionFacts DEF Inv, WorldOK
<1>4. WorldOK'
  BY <1>2, <1>3 DEF EditSource, UpgradeTool, Inv, WorldOK
<1>5. RunInv'
  BY <1>2 DEF RunInv, Running, Writing
<1>6. RefusesOnlyChangedInput'
  BY <1>2 DEF Inv, RefusesOnlyChangedInput
<1> QED BY <1>1, <1>4, <1>5, <1>6 DEF Inv

LEMMA BootKeeps == ASSUME Inv, Boot PROVE Inv'
<1>1. HasHistory'
  <2>1. undo' = <<>> /\ undo' \in Seq(Operations)
    BY DEF Boot
  <2>2. Now' = Now
    BY DEF Boot, Now
  <2>3. \E g : IsHistory(g, <<>>, Now)
    BY HistoryForgotten DEF Inv, HasHistory
  <2> QED BY <2>1, <2>2, <2>3 DEF HasHistory
<1>2. run' = Idle
  BY DEF Boot
<1>3. run' \in Runs /\ RunInv'
  BY <1>2, NoRun
<1>4. WorldOK' /\ RefusesOnlyChangedInput'
  BY <1>3 DEF Boot, world, Inv, WorldOK, RefusesOnlyChangedInput
<1> QED BY <1>1, <1>3, <1>4 DEF Inv

LEMMA LossKeeps == ASSUME Inv, PowerLoss PROVE Inv'
<1>1. HasHistory /\ UNCHANGED <<ledger, undo>>
      /\ partial' \in Remains(partial) /\ output' \in Remains(output)
  BY DEF PowerLoss, Inv
<1>2. output' = output
  <2>1. CASE output = None
    BY <1>1, <2>1 DEF Remains
  <2>2. CASE output # None
    BY <1>1, <2>2, CurrentDisk, WholeRemains
  <2> QED BY <2>1, <2>2
<1>3. HasHistory'
  <2>1. CASE partial = None
    <3>1. partial' = partial
      BY <1>1, <2>1 DEF Remains
    <3> QED BY <1>1, <1>2, <3>1, SameDiskStep DEF disk
  <2>2. CASE partial # None
    <3>1. partial \in Files /\ Fits(partial)
      BY <1>1, <2>2, CurrentDisk
    <3>2. /\ partial' \in Files /\ Fits(partial')
          /\ \A x \in Ledgers : Covers(partial, x) => Covers(partial', x)
      BY <1>1, <3>1, SyncedRemains
    <3> QED BY <1>1, <1>2, <2>2, <3>2, RewriteStep
  <2> QED BY <2>1, <2>2
<1>4. run' \in Runs /\ RunInv'
  BY NoRun DEF PowerLoss
<1>5. losses \in 0..MaxLosses /\ MaxLosses \in Nat
  BY ConversionFacts DEF Inv, WorldOK
<1>6. WorldOK' /\ RefusesOnlyChangedInput'
  BY <1>4, <1>5 DEF PowerLoss, Inv, WorldOK, RefusesOnlyChangedInput
<1> QED BY <1>3, <1>4, <1>6 DEF Inv

LEMMA LoseKeeps == ASSUME Inv, LoseOperation PROVE Inv'
<1>1. undo \in Seq(Operations) /\ undo # <<>> /\ run.pc = "down"
      /\ undo' = SubSeq(undo, 1, Len(undo) - 1)
  BY DEF LoseOperation, Inv, HasHistory
<1>2. PICK h : IsHistory(h, undo, Now)
  BY DEF Inv, HasHistory
<1>3. Now' = Undone(Now, LastPending)
  BY DEF LoseOperation, Now, Undone, Disk
<1>4. undo' \in Seq(Operations) /\ \E g : IsHistory(g, undo', Undone(Now, LastPending))
  BY <1>1, <1>2, HistoryShrinks DEF LastPending
<1>5. HasHistory'
  BY <1>3, <1>4 DEF HasHistory
<1>6. UNCHANGED <<world, run, result>>
  BY DEF LoseOperation
<1>7. WorldOK' /\ RefusesOnlyChangedInput'
  BY <1>6 DEF world, Inv, WorldOK, RefusesOnlyChangedInput
<1>8. RunInv'
  BY <1>1, <1>6 DEF RunInv, Running, Writing
<1> QED BY <1>5, <1>7, <1>8 DEF Inv

-----------------------------------------------------------------------------
(* The steps of convert up to the first extent.                            *)

LEMMA WorldSame == ASSUME WorldOK, run' \in Runs, UNCHANGED world PROVE WorldOK'
  BY DEF WorldOK, world

LEMMA LedgerRemoved ==
  ASSUME HasHistory, partial = None, UNCHANGED <<partial, output>>, ledger' = None,
         undo' = Pending("ledger", ledger)
  PROVE  HasHistory'
<1> DEFINE op == [kind |-> "ledger", was |-> ledger]
           new == Disk(None, output, None)
<1>1. op \in Operations /\ op.kind = "ledger" /\ op.was = ledger
  BY CurrentDisk DEF Operations
<1>2. new \in SoundDisks
  BY CurrentDisk, SoundDisk
<1>3. Now = Undone(new, op)
  BY DEF Now, Undone, Disk
<1>4. \A d \in SoundDisks : Follows(d, Now) => Follows(d, new)
  BY DEF Follows, Now, Disk
<1> HIDE DEF op, new
<1> QED BY <1>1, <1>2, <1>3, <1>4, OperationStep DEF new

LEMMA AcceptKeeps == ASSUME Inv, QuietRun, AcceptFinished PROVE Inv'
<1>1. HasHistory /\ WorldOK
  BY DEF Inv
<1>2. run.pc = "open" /\ partial = None /\ ledger # None /\ ledger.source = run.src
      /\ UNCHANGED world
  BY DEF AcceptFinished, LedgerAccepted, Refusal
<1>3. output # None /\ IsFinishedBy(output, run.src)
  BY <1>1, <1>2, CurrentDisk DEF Describes, Whole, IsFinishedBy
<1>4. ledger' = None /\ undo' = Pending("ledger", ledger) /\ UNCHANGED <<partial, output>>
      /\ Finish("finalized")
  BY <1>3 DEF AcceptFinished
<1>5. HasHistory'
  BY <1>1, <1>2, <1>4, LedgerRemoved
<1>6. run' \in Runs /\ RunInv'
  BY <1>4, NoRun DEF Finish
<1>7. WorldOK'
  BY <1>1, <1>2, <1>6, WorldSame
<1>8. RefusesOnlyChangedInput'
  BY <1>4 DEF Finish, RefusesOnlyChangedInput
<1> QED BY <1>5, <1>6, <1>7, <1>8 DEF Inv

LEMMA ResumeKeeps == ASSUME Inv, QuietRun, Resume PROVE Inv'
<1>1. HasHistory /\ WorldOK /\ RunInv /\ RefusesOnlyChangedInput
  BY DEF Inv
<1>2. run.pc = "open" /\ partial # None /\ ledger # None /\ ledger.source = run.src
      /\ UNCHANGED world
  BY DEF Resume, LedgerAccepted, Refusal
<1>3. /\ partial \in Files /\ ledger \in Ledgers /\ Fits(partial) /\ IsTrue(ledger)
      /\ Covers(partial, ledger)
  BY <1>1, <1>2, CurrentDisk
<1> DEFINE kept == Len(ledger.completed)
<1>4. /\ kept \in Nat /\ partial.synced \in Nat /\ Len(partial.body) \in Nat
      /\ partial.body \in Seq(Pieces)
  BY <1>3, LenProperties DEF Files, Ledgers
<1>5. /\ kept <= partial.synced /\ partial.synced <= Len(partial.body)
      /\ \A i \in 1..kept : partial.body[i].chunks = Content(ledger.source, i)
      /\ \A i \in 1..kept : ledger.completed[i] = Entry(i, Content(ledger.source, i))
  BY <1>3 DEF Covers, Fits, IsTrue
<1>6. HasExtents(partial, ledger.completed)
  <2>1. \A i \in 1..kept : i <= Len(partial.body)
    BY <1>4, <1>5
  <2>2. \A i, c : Entry(i, c).crc = c
    BY DEF Entry
  <2>3. \A i \in 1..kept : partial.body[i].chunks = ledger.completed[i].crc
    BY <1>5, <2>2
  <2> QED BY <2>1, <2>3 DEF HasExtents
<1>7. /\ run' = [run EXCEPT !.pc = "copy", !.uuid = ledger.uuid, !.done = ledger.completed]
      /\ UNCHANGED <<output, ledger, undo, result>>
      /\ partial' = IF Len(partial.body) > kept
                    THEN [partial EXCEPT !.body = SubSeq(@, 1, kept), !.synced = kept,
                                         !.durable = partial.super]
                    ELSE partial
  BY <1>6 DEF Resume
<1>8. run' \in Runs
  BY <1>1, <1>3, <1>7 DEF WorldOK, Runs, Steps, Ledgers
<1>9. WorldOK' /\ RefusesOnlyChangedInput'
  BY <1>1, <1>2, <1>7, <1>8, WorldSame DEF RefusesOnlyChangedInput
<1>10. HasHistory' /\ partial' # None /\ partial'.synced = kept /\ Len(partial'.body) = kept
  <2>1. CASE Len(partial.body) > kept
    <3> DEFINE b == SubSeq(partial.body, 1, kept)
               q == [partial EXCEPT !.body = b, !.synced = kept, !.durable = partial.super]
    <3>1. kept \in 0..Len(partial.body)
      BY <1>4, <2>1
    <3>2. b \in Seq(Pieces) /\ Len(b) = kept /\ \A i \in 1..kept : b[i] = partial.body[i]
      BY <3>1, <1>4, FirstMembers
    <3> HIDE DEF b
    <3>3. q \in Files /\ q.body = b /\ q.synced = kept
      BY <3>2, <1>3, <1>4 DEF Files
    <3>4. partial' = q
      BY <1>7, <2>1 DEF b
    <3> HIDE DEF q
    <3>5. Fits(q)
      BY <3>2, <3>3, <1>3, <1>4, <2>1, ConversionFacts DEF Fits
    <3>6. \A x \in Ledgers :
             Len(x.completed) <= kept /\ Covers(partial, x) => Covers(q, x)
      <4> SUFFICES ASSUME NEW x \in Ledgers, Len(x.completed) <= kept, Covers(partial, x)
                   PROVE  Covers(q, x)
        OBVIOUS
      <4>1. Len(x.completed) \in Nat
        BY LenProperties DEF Ledgers
      <4> QED BY <4>1, <3>2, <3>3, <1>4 DEF Covers
    <3>7. HasHistory'
      BY <3>3, <3>4, <3>5, <3>6, <1>1, <1>2, <1>7, RewriteStep
    <3>8. q # None
      BY <3>3, ConversionFacts
    <3> QED BY <3>2, <3>3, <3>4, <3>7, <3>8
  <2>2. CASE ~(Len(partial.body) > kept)
    <3>1. partial' = partial
      BY <1>7, <2>2
    <3>2. HasHistory'
      BY <3>1, <1>1, <1>7, SameDiskStep DEF disk
    <3> QED BY <3>1, <3>2, <1>2, <1>4, <1>5, <2>2
  <2> QED BY <2>1, <2>2
<1>11. RunInv'
  <2>1. run'.pc = "copy" /\ run'.src = run.src /\ run'.uuid = ledger.uuid
        /\ run'.done = ledger.completed
    BY <1>1, <1>7 DEF WorldOK, Runs
  <2>2. run'.src = source' /\ run'.uuid \in Uuids
    BY <2>1, <1>1, <1>2, <1>3 DEF RunInv, Running, world, Ledgers
  <2>3. WritingStage'
    BY <2>1, <1>2, <1>7, <1>10 DEF WritingStage
  <2>4. CopyStage'
    BY <2>1, <1>10 DEF CopyStage
  <2> QED BY <2>1, <2>2, <2>3, <2>4 DEF RunInv, Running, Writing
<1> QED BY <1>9, <1>10, <1>11 DEF Inv

LEMMA CreatePartialKeeps == ASSUME Inv, CreatePartial PROVE Inv'
<1> DEFINE fresh == [super |-> None, durable |-> None, body |-> <<>>, synced |-> 0]
<1>1. HasHistory /\ WorldOK /\ RunInv /\ RefusesOnlyChangedInput
  BY DEF Inv
<1>2. PICK uuid \in Uuids : run' = [run EXCEPT !.pc = "ledger", !.uuid = uuid]
  BY DEF CreatePartial
<1>3. /\ run.pc = "open" /\ ledger = None /\ partial' = fresh
      /\ undo' = IF partial = None THEN Pending("create", None) ELSE undo
      /\ UNCHANGED <<world, output, ledger, result>>
  BY DEF CreatePartial
<1>4. fresh \in Files /\ fresh.body = <<>> /\ fresh.synced = 0
  BY DEF Files, Blocks
<1> HIDE DEF fresh
<1>5. Fits(fresh) /\ fresh # None
  BY <1>4, ConversionFacts DEF Fits
<1>6. HasHistory'
  <2>1. CASE partial = None
    <3> DEFINE op == [kind |-> "create", was |-> None]
               new == Disk(fresh, output, ledger)
    <3>1. op \in Operations /\ op.kind = "create" /\ op.was = None
      BY DEF Operations
    <3>2. new \in SoundDisks
      BY <1>1, <1>3, <1>4, <1>5, CurrentDisk, SoundDisk
    <3>3. Now = Undone(new, op)
      BY <2>1 DEF Now, Undone, Disk
    <3> HIDE DEF op, new
    <3> QED BY <3>1, <3>2, <3>3, <2>1, <1>1, <1>3, OperationStep DEF new
  <2>2. CASE partial # None
    BY <2>2, <1>1, <1>3, <1>4, <1>5, RewriteStep
  <2> QED BY <2>1, <2>2
<1>7. run' \in Runs
  BY <1>1, <1>2 DEF WorldOK, Runs, Steps
<1>8. WorldOK' /\ RefusesOnlyChangedInput'
  BY <1>1, <1>3, <1>7, WorldSame DEF RefusesOnlyChangedInput
<1>9. RunInv'
  <2>1. run'.pc = "ledger" /\ run'.src = run.src /\ run'.uuid = uuid /\ run'.done = run.done
    BY <1>1, <1>2 DEF WorldOK, Runs
  <2>2. run'.src = source' /\ run'.done = <<>>
    BY <2>1, <1>1, <1>3 DEF RunInv, Running, world
  <2>3. LedgerStage'
    BY <2>1, <2>2, <1>3, <1>4, <1>5 DEF LedgerStage
  <2> QED BY <2>1, <2>2, <2>3 DEF RunInv, Running, Writing
<1> QED BY <1>6, <1>8, <1>9 DEF Inv

-----------------------------------------------------------------------------
(* The steps of convert that write extents.                                *)

\* A ledger that names more extents of the partial file.
LEMMA LedgerWritten ==
  ASSUME HasHistory, partial # None, NEW new \in Ledgers, IsTrue(new), Covers(partial, new),
         ledger # None => Len(ledger.completed) <= Len(new.completed),
         ledger' = new, undo' = Pending("ledger", ledger), UNCHANGED <<partial, output>>
  PROVE  HasHistory'
<1> DEFINE op == [kind |-> "ledger", was |-> ledger]
           d2 == Disk(partial, output, new)
<1>1. op \in Operations /\ op.kind = "ledger" /\ op.was = ledger
  BY CurrentDisk DEF Operations
<1>2. d2 \in SoundDisks
  BY CurrentDisk, SoundDisk
<1>3. Now = Undone(d2, op)
  BY DEF Now, Undone, Disk
<1>4. \A d \in SoundDisks : Follows(d, Now) => Follows(d, d2)
  <2> SUFFICES ASSUME NEW d \in SoundDisks, Follows(d, Now) PROVE Follows(d, d2)
    OBVIOUS
  <2>1. /\ Now.partial = partial /\ Now.ledger = ledger
        /\ d2.partial = partial /\ d2.ledger = new
    BY DEF Now, Disk
  <2>2. d \in Disks
    BY DEF SoundDisks
  <2>3. d.ledger # None => Len(d.ledger.completed) \in Nat
    BY <2>2, LenProperties DEF Disks, Ledgers
  <2>4. ledger # None => Len(ledger.completed) \in Nat
    BY CurrentDisk, LenProperties DEF Ledgers
  <2>5. new # None /\ Len(new.completed) \in Nat
    BY ConversionFacts, LenProperties DEF Ledgers
  <2> QED BY <2>1, <2>3, <2>4, <2>5 DEF Follows
<1> HIDE DEF op, d2
<1> QED BY <1>1, <1>2, <1>3, <1>4, OperationStep DEF d2

LEMMA CreateLedgerKeeps == ASSUME Inv, CreateLedger PROVE Inv'
<1>1. HasHistory /\ WorldOK /\ RunInv /\ RefusesOnlyChangedInput
  BY DEF Inv
<1>2. /\ run.pc = "ledger" /\ run' = [run EXCEPT !.pc = "copy"]
      /\ UNCHANGED <<world, partial, output, result>>
      /\ ledger' = [source |-> run.src, tool |-> tool, uuid |-> run.uuid, completed |-> <<>>]
      /\ undo' = Pending("ledger", ledger)
  BY DEF CreateLedger, WriteLedger
<1>3. LedgerStage /\ run.src = source /\ run.uuid \in Uuids
  BY <1>1, <1>2 DEF RunInv, Running
<1>4. /\ ledger' \in Ledgers /\ ledger'.completed = <<>> /\ ledger'.source = run.src
      /\ ledger'.uuid = run.uuid /\ Len(<<>>) = 0
  BY <1>1, <1>2, <1>3 DEF Ledgers, WorldOK
<1>5. IsTrue(ledger') /\ Covers(partial, ledger')
  BY <1>3, <1>4, ConversionFacts DEF IsTrue, Covers, LedgerStage
<1>6. HasHistory'
  BY <1>1, <1>2, <1>3, <1>4, <1>5, LedgerWritten DEF LedgerStage
<1>7. run' \in Runs
  BY <1>1, <1>2 DEF WorldOK, Runs, Steps
<1>8. WorldOK' /\ RefusesOnlyChangedInput'
  BY <1>1, <1>2, <1>7, WorldSame DEF RefusesOnlyChangedInput
<1>9. RunInv'
  <2>1. run'.pc = "copy" /\ run'.src = run.src /\ run'.uuid = run.uuid /\ run'.done = run.done
    BY <1>1, <1>2 DEF WorldOK, Runs
  <2>2. run'.src = source' /\ run'.done = <<>>
    BY <2>1, <1>2, <1>3 DEF world, LedgerStage
  <2>3. ledger' # None
    BY <1>4, ConversionFacts
  <2>4. WritingStage'
    BY <2>1, <2>2, <2>3, <1>2, <1>3, <1>4 DEF WritingStage, LedgerStage
  <2>5. CopyStage'
    BY <2>2, <1>2, <1>3, <1>4 DEF CopyStage, LedgerStage
  <2> QED BY <2>1, <2>2, <2>4, <2>5, <1>3 DEF RunInv, Running, Writing
<1> QED BY <1>6, <1>8, <1>9 DEF Inv

\* What every step of a run that writes can rely on.
LEMMA WritingFacts ==
  ASSUME Inv, Writing
  PROVE  /\ HasHistory /\ WorldOK /\ RunInv /\ RefusesOnlyChangedInput
         /\ run.src = source /\ run.src \in Sources /\ run.uuid \in Uuids /\ run \in Runs
         /\ ledger # None /\ partial # None
         /\ ledger.source = run.src /\ ledger.uuid = run.uuid /\ ledger.completed = run.done
         /\ partial \in Files /\ ledger \in Ledgers
         /\ Fits(partial) /\ IsTrue(ledger) /\ Covers(partial, ledger)
         /\ Len(run.done) \in Nat /\ Len(run.done) <= Extents /\ run.done \in Seq(Entries)
         /\ Len(partial.body) \in Nat /\ partial.body \in Seq(Pieces)
         /\ partial.synced \in Nat
<1>1. HasHistory /\ WorldOK /\ RunInv /\ RefusesOnlyChangedInput
  BY DEF Inv
<1>2. run.src = source /\ run.uuid \in Uuids /\ WritingStage
  BY <1>1 DEF RunInv, Running, Writing
<1>3. /\ ledger # None /\ partial # None /\ ledger.source = run.src
      /\ ledger.uuid = run.uuid /\ ledger.completed = run.done
  BY <1>2 DEF WritingStage
<1>4. /\ partial \in Files /\ ledger \in Ledgers
      /\ Fits(partial) /\ IsTrue(ledger) /\ Covers(partial, ledger)
  BY <1>1, <1>3, CurrentDisk
<1>5. run \in Runs /\ source \in Sources
  BY <1>1 DEF WorldOK
<1>6. run.done \in Seq(Entries) /\ partial.body \in Seq(Pieces) /\ partial.synced \in Nat
  BY <1>4, <1>5 DEF Runs, Files
<1>7. Len(run.done) \in Nat /\ Len(partial.body) \in Nat
  BY <1>6, LenProperties
<1>8. Len(run.done) <= Extents
  BY <1>3, <1>4 DEF IsTrue
<1> QED BY <1>1, <1>2, <1>3, <1>4, <1>5, <1>6, <1>7, <1>8

\* The partial file is changed behind the extents that are done.
LEMMA FileWritten ==
  ASSUME Inv, Writing, NEW q \in Files, Fits(q), Len(run.done) <= q.synced,
         \A i \in 1..Len(run.done) : q.body[i] = partial.body[i],
         partial' = q, UNCHANGED <<output, ledger, undo>>
  PROVE  HasHistory'
<1>1. /\ HasHistory /\ partial # None /\ ledger # None /\ ledger.completed = run.done
      /\ Len(run.done) \in Nat /\ q.synced \in Nat
  BY WritingFacts DEF Files
<1>2. \A x \in Ledgers :
         Len(x.completed) <= Len(ledger.completed) /\ Covers(partial, x) => Covers(q, x)
  <2> SUFFICES ASSUME NEW x \in Ledgers, Len(x.completed) <= Len(run.done), Covers(partial, x)
               PROVE  Covers(q, x)
    BY <1>1
  <2>1. Len(x.completed) \in Nat
    BY LenProperties DEF Ledgers
  <2> QED BY <2>1, <1>1 DEF Covers
<1> QED BY <1>1, <1>2, RewriteStep

\* What has been copied of the next extent.
LEMMA CopiedSoFar ==
  ASSUME Inv, run.pc = "copy", Following <= Extents
  PROVE  /\ Following \in 1..Extents /\ Data[run.src][Following] \in Texts
         /\ \E n \in 0..Chunks :
              /\ Copied = Chunked(n) /\ Len(Copied) = n
              /\ n # 0 => Len(partial.body) = Following
<1>1. /\ CopyStage /\ Len(run.done) \in Nat /\ run.src \in Sources
      /\ Len(partial.body) \in Nat
  BY WritingFacts DEF Writing, Inv, RunInv
<1>2. Following \in 1..Extents
  BY <1>1, ConversionFacts DEF Following
<1>3. Data[run.src][Following] \in Texts
  BY <1>1, <1>2, ConversionFacts DEF Texts
<1>4. \A n \in 0..Chunks : Len(Chunked(n)) = n
  BY <1>3, ConversionFacts, Repeats DEF Chunked
<1>5. CASE Len(partial.body) = Len(run.done)
  <2>1. Copied = <<>>
    BY <1>1, <1>5 DEF Copied, Following
  <2>2. Chunked(0) = <<>>
    BY DEF Chunked
  <2> QED BY <2>1, <2>2, <1>2, <1>3, <1>4, ConversionFacts
<1>6. CASE Len(partial.body) = Following
          /\ \E n \in 0..Chunks : partial.body[Following].chunks = Chunked(n)
  <2>1. Copied = partial.body[Following].chunks
    BY <1>1, <1>6 DEF Copied, Following
  <2> QED BY <2>1, <1>2, <1>3, <1>4, <1>6
<1> QED BY <1>1, <1>5, <1>6 DEF CopyStage

LEMMA CopyChunkKeeps == ASSUME Inv, CopyChunk PROVE Inv'
<1>1. run.pc = "copy" /\ Writing /\ Following <= Extents
      /\ Len(Copied) < Chunks /\ UNCHANGED <<world, output, ledger, undo, run, result>>
  BY DEF CopyChunk, Writing
<1>2. /\ WorldOK /\ RunInv /\ RefusesOnlyChangedInput /\ CopyStage
      /\ run.src = source /\ partial \in Files /\ Fits(partial)
      /\ Len(run.done) \in Nat /\ Len(partial.body) \in Nat /\ partial.body \in Seq(Pieces)
  BY <1>1, WritingFacts DEF RunInv
<1>3. Following \in 1..Extents /\ Data[run.src][Following] \in Texts
  BY <1>1, CopiedSoFar
<1>4. PICK n \in 0..Chunks :
        /\ Copied = Chunked(n) /\ Len(Copied) = n /\ (n # 0 => Len(partial.body) = Following)
  BY <1>1, CopiedSoFar
<1> DEFINE piece == [id |-> Following, chunks |-> Append(Copied, Data[source][Following])]
           done == SubSeq(partial.body, 1, Len(run.done))
           b == Append(done, piece)
           q == [partial EXCEPT !.body = b]
<1>5. n \in Nat /\ n + 1 \in 0..Chunks
  BY <1>1, <1>4, ConversionFacts
<1>6. Append(Copied, Data[source][Following]) = Chunked(n + 1)
      /\ Append(Copied, Data[source][Following]) \in Seq(Texts)
  <2>1. Append(Chunked(n), Data[run.src][Following]) = Chunked(n + 1)
    BY <1>3, <1>5, Repeats DEF Chunked
  <2>2. Chunked(n + 1) \in Seq(Texts)
    BY <1>3, <1>5, Repeats DEF Chunked
  <2> QED BY <2>1, <2>2, <1>2, <1>4
<1>7. piece \in Pieces /\ piece.chunks = Chunked(n + 1)
  BY <1>3, <1>6, ConversionFacts DEF Pieces
<1>8. Len(run.done) \in 0..Len(partial.body)
  BY <1>2 DEF CopyStage, Following
<1>9. /\ done \in Seq(Pieces) /\ Len(done) = Len(run.done)
      /\ \A i \in 1..Len(run.done) : done[i] = partial.body[i]
  BY <1>2, <1>8, FirstMembers
<1> HIDE DEF piece, done
<1>10. /\ b \in Seq(Pieces) /\ Len(b) = Following /\ b[Following] = piece
       /\ \A i \in 1..Len(run.done) : b[i] = partial.body[i]
  BY <1>2, <1>7, <1>9, AppendProperties DEF Following
<1> HIDE DEF b
<1>11. q \in Files /\ q.body = b /\ q.synced = Len(run.done)
  BY <1>2, <1>10 DEF Files, CopyStage
<1>12. partial' = q
  BY DEF CopyChunk, q, b, done, piece
<1> HIDE DEF q
<1>13. Fits(q)
  BY <1>2, <1>3, <1>10, <1>11, ConversionFacts DEF Fits, Following
<1>14. HasHistory'
  BY <1>1, <1>2, <1>10, <1>11, <1>12, <1>13, FileWritten
<1>15. WorldOK' /\ RefusesOnlyChangedInput'
  BY <1>1, <1>2 DEF WorldOK, world, RefusesOnlyChangedInput
<1>16. RunInv'
  <2>1. run' = run /\ source' = source /\ ledger' = ledger
    BY <1>1 DEF world
  <2>2. q # None
    BY <1>11, ConversionFacts
  <2>3. WritingStage'
    BY <2>1, <2>2, <1>1, <1>2, <1>12 DEF RunInv, WritingStage
  <2>4. Following' = Following /\ Chunked(n + 1)' = Chunked(n + 1)
    BY <2>1 DEF Following, Chunked
  <2>5. partial'.body[Following].chunks = Chunked(n + 1)
    BY <1>7, <1>10, <1>11, <1>12
  <2>6. CopyStage'
    BY <2>1, <2>4, <2>5, <1>1, <1>5, <1>10, <1>11, <1>12 DEF CopyStage, Following, Chunked
  <2> QED BY <2>1, <2>3, <2>6, <1>1, <1>2 DEF RunInv, Running, Writing
<1> QED BY <1>14, <1>15, <1>16 DEF Inv

LEMMA SyncExtentKeeps == ASSUME Inv, QuietRun, SyncExtent PROVE Inv'
<1>1. /\ run.pc = "copy" /\ Writing /\ Following <= Extents /\ Len(Copied) = Chunks
      /\ UNCHANGED <<world, output, ledger, undo, result>>
      /\ run' = [run EXCEPT !.pc = "record"]
      /\ partial' = [partial EXCEPT !.body = @, !.synced = Following, !.durable = partial.super]
  BY DEF SyncExtent, Writing, QuietRun
<1>2. /\ WorldOK /\ RunInv /\ RefusesOnlyChangedInput /\ CopyStage
      /\ run.src = source /\ partial \in Files /\ Fits(partial)
      /\ Len(run.done) \in Nat /\ Len(partial.body) \in Nat /\ partial.body \in Seq(Pieces)
      /\ run.uuid \in Uuids /\ run \in Runs
  BY <1>1, WritingFacts DEF RunInv
<1>3. /\ Following \in 1..Extents /\ Copied = Chunked(Chunks)
      /\ Len(partial.body) = Following
  BY <1>1, CopiedSoFar, ConversionFacts
<1>4. partial.body[Following].chunks = Chunked(Chunks)
  BY <1>3 DEF Copied
<1> DEFINE q == [partial EXCEPT !.body = @, !.synced = Following, !.durable = partial.super]
<1>5. q \in Files /\ q.body = partial.body /\ q.synced = Following
  BY <1>2, <1>3, ConversionFacts DEF Files
<1> HIDE DEF q
<1>6. partial' = q
  BY <1>1 DEF q
<1>7. Fits(q) /\ q # None /\ Len(run.done) <= q.synced
  BY <1>2, <1>3, <1>5, ConversionFacts DEF Fits, Following
<1>8. HasHistory'
  BY <1>1, <1>5, <1>6, <1>7, FileWritten
<1>9. run' \in Runs
  BY <1>1, <1>2 DEF Runs, Steps
<1>10. WorldOK' /\ RefusesOnlyChangedInput'
  BY <1>1, <1>2, <1>9, WorldSame DEF RefusesOnlyChangedInput
<1>11. RunInv'
  <2>1. run'.pc = "record" /\ run'.src = run.src /\ run'.uuid = run.uuid /\ run'.done = run.done
        /\ source' = source /\ ledger' = ledger
    BY <1>1, <1>2 DEF Runs, world
  <2>2. WritingStage'
    BY <2>1, <1>1, <1>2, <1>6, <1>7 DEF RunInv, WritingStage
  <2>3. RecordStage'
    BY <2>1, <1>1, <1>3, <1>4, <1>5, <1>6 DEF RecordStage, Following, Chunked
  <2> QED BY <2>1, <2>2, <2>3, <1>2 DEF RunInv, Running, Writing
<1> QED BY <1>8, <1>10, <1>11 DEF Inv

LEMMA RecordExtentKeeps == ASSUME Inv, QuietRun, RecordExtent PROVE Inv'
<1> DEFINE done == Append(run.done, Entry(Following, Copied))
<1>1. run.pc = "record" /\ Writing /\ UNCHANGED <<world, partial, output>>
  BY DEF RecordExtent, Writing
<1>2. /\ ledger' = [source |-> run.src, tool |-> tool, uuid |-> run.uuid, completed |-> done]
      /\ undo' = Pending("ledger", ledger)
  BY DEF RecordExtent, WriteLedger
<1>3. \/ run' = Idle /\ result' = "stopped"
      \/ run' = [run EXCEPT !.pc = "copy", !.done = done, !.new = @ + 1] /\ UNCHANGED result
  BY DEF RecordExtent, Finish
<1>4. /\ HasHistory /\ WorldOK /\ RunInv /\ RefusesOnlyChangedInput /\ RecordStage
      /\ run.src = source /\ run.src \in Sources /\ partial \in Files /\ partial # None
      /\ Fits(partial) /\ Covers(partial, ledger) /\ IsTrue(ledger)
      /\ ledger.source = run.src /\ ledger.completed = run.done
      /\ Len(run.done) \in Nat /\ run.done \in Seq(Entries)
      /\ run.uuid \in Uuids /\ run \in Runs /\ tool \in Tools
  BY <1>1, WritingFacts DEF RunInv, WorldOK
<1>5. Following \in 1..Extents /\ Following = Len(run.done) + 1
  BY <1>4, ConversionFacts DEF RecordStage, Following
<1>6. Copied = Content(run.src, Following) /\ Copied \in Seq(Texts)
  <2>1. Copied = partial.body[Following].chunks
    BY <1>4, <1>5 DEF Copied, RecordStage
  <2>2. partial.body[Following].chunks = Content(run.src, Following)
    BY <1>4, <1>5, Contents DEF RecordStage, Chunked
  <2>3. Content(run.src, Following) \in Seq(Texts)
    BY <1>4, <1>5, Contents
  <2> QED BY <2>1, <2>2, <2>3
<1>7. Entry(Following, Copied) \in Entries
  BY <1>5, <1>6 DEF Entry, Entries
<1>8. /\ done \in Seq(Entries) /\ Len(done) = Following
      /\ done[Following] = Entry(Following, Content(run.src, Following))
      /\ \A i \in 1..Len(run.done) : done[i] = run.done[i]
  BY <1>4, <1>5, <1>6, <1>7, AppendProperties
<1> HIDE DEF done
<1>9. /\ ledger' \in Ledgers /\ ledger'.completed = done /\ ledger'.source = run.src
      /\ ledger'.uuid = run.uuid
  BY <1>2, <1>4, <1>8 DEF Ledgers
<1>10. IsTrue(ledger')
  <2>1. \A i \in 1..Len(done) : done[i] = Entry(i, Content(run.src, i))
    BY <1>4, <1>5, <1>8 DEF IsTrue
  <2> QED BY <2>1, <1>5, <1>8, <1>9 DEF IsTrue
<1>11. Covers(partial, ledger')
  <2>1. partial.body[Following].chunks = Content(run.src, Following)
    BY <1>4, <1>5, Contents DEF RecordStage, Chunked
  <2>2. \A i \in 1..Len(done) : partial.body[i].chunks = Content(run.src, i)
    BY <2>1, <1>4, <1>5, <1>8 DEF Covers
  <2>3. Len(done) <= partial.synced
    BY <1>4, <1>5, <1>8 DEF RecordStage
  <2> QED BY <2>2, <2>3, <1>9 DEF Covers
<1>12. HasHistory'
  <2>1. Len(ledger.completed) <= Len(ledger'.completed)
    BY <1>4, <1>5, <1>8, <1>9
  <2> QED BY <2>1, <1>1, <1>2, <1>4, <1>9, <1>10, <1>11, LedgerWritten
<1>13. CASE run' = Idle /\ result' = "stopped"
  <2>1. run' \in Runs /\ RunInv'
    BY <1>13, NoRun
  <2>2. WorldOK' /\ RefusesOnlyChangedInput'
    BY <2>1, <1>1, <1>4, <1>13, WorldSame DEF RefusesOnlyChangedInput
  <2> QED BY <2>1, <2>2, <1>12 DEF Inv
<1>14. CASE run' = [run EXCEPT !.pc = "copy", !.done = done, !.new = @ + 1] /\ UNCHANGED result
  <2>1. run' \in Runs
    <3>1. run' = [pc |-> "copy", src |-> run.src, uuid |-> run.uuid, done |-> done,
                  new |-> run.new + 1, stop |-> run.stop]
      BY <1>4, <1>14 DEF Runs
    <3>2. /\ run.src \in Sources \cup {None} /\ run.uuid \in Uuids \cup {None}
          /\ run.new + 1 \in Nat /\ run.stop \in 0..Extents /\ "copy" \in Steps
      BY <1>4 DEF Runs, Steps
    <3>3. [pc |-> "copy", src |-> run.src, uuid |-> run.uuid, done |-> done,
           new |-> run.new + 1, stop |-> run.stop] \in Runs
      BY <3>2, <1>8, RunTyped
    <3> QED BY <3>1, <3>3, Zenon
  <2>2. WorldOK' /\ RefusesOnlyChangedInput'
    BY <2>1, <1>1, <1>4, <1>14, WorldSame DEF RefusesOnlyChangedInput
  <2>3. run'.pc = "copy" /\ run'.src = run.src /\ run'.uuid = run.uuid /\ run'.done = done
        /\ source' = source /\ partial' = partial
    BY <1>1, <1>4, <1>14 DEF Runs, world
  <2>4. WritingStage'
    BY <2>3, <1>4, <1>9, ConversionFacts DEF WritingStage
  <2>5. CopyStage'
    BY <2>3, <1>4, <1>5, <1>8 DEF CopyStage, RecordStage
  <2>6. RunInv'
    BY <2>3, <2>4, <2>5, <1>4 DEF RunInv, Running, Writing
  <2> QED BY <2>2, <2>6, <1>12 DEF Inv
<1> QED BY <1>3, <1>13, <1>14

-----------------------------------------------------------------------------
(* The steps of convert that finish and publish the file.                  *)

LEMMA WriteDirectoriesKeeps == ASSUME Inv, WriteDirectories PROVE Inv'
<1> DEFINE b == Append(partial.body, LastPiece)
           q == [partial EXCEPT !.body = b, !.super = Block(None)]
<1>1. /\ run.pc = "copy" /\ Writing /\ Following > Extents
      /\ UNCHANGED <<world, output, ledger, undo, result>>
      /\ run' = [run EXCEPT !.pc = "directories"]
      /\ partial' = q
  BY DEF WriteDirectories, Writing, LastPiece, Block
<1>2. /\ WorldOK /\ RunInv /\ RefusesOnlyChangedInput /\ CopyStage
      /\ run.src = source /\ run.src \in Sources /\ partial \in Files /\ Fits(partial)
      /\ Len(run.done) \in Nat /\ Len(run.done) <= Extents /\ run.done \in Seq(Entries)
      /\ Len(partial.body) \in Nat /\ partial.body \in Seq(Pieces)
      /\ run.uuid \in Uuids /\ run \in Runs
  BY <1>1, WritingFacts DEF RunInv
<1>3. /\ Len(run.done) = Extents /\ Len(partial.body) = Extents /\ partial.synced = Extents
  BY <1>1, <1>2, ConversionFacts DEF CopyStage, Following
<1>4. LastPiece \in Pieces
  BY <1>2, ConversionFacts DEF LastPiece, Pieces
<1>5. /\ b \in Seq(Pieces) /\ Len(b) = Extents + 1 /\ b[Extents + 1] = LastPiece
      /\ \A i \in 1..Extents : b[i] = partial.body[i]
  BY <1>2, <1>3, <1>4, AppendProperties
<1>6. Block(None) \in Superblocks
  BY <1>2, <1>4, ConversionFacts DEF Block, Superblocks
<1> HIDE DEF b
<1>7. q \in Files /\ q.body = b /\ q.synced = Extents /\ q.super = Block(None)
  BY <1>2, <1>3, <1>5, <1>6 DEF Files, Blocks
<1> HIDE DEF q
<1>8. Fits(q) /\ q # None
  BY <1>5, <1>7, ConversionFacts DEF Fits
<1>9. HasHistory'
  BY <1>1, <1>3, <1>5, <1>7, <1>8, FileWritten
<1>10. run' \in Runs
  BY <1>1, <1>2 DEF Runs, Steps
<1>11. WorldOK' /\ RefusesOnlyChangedInput'
  BY <1>1, <1>2, <1>10, WorldSame DEF RefusesOnlyChangedInput
<1>12. RunInv'
  <2>1. run'.pc = "directories" /\ run'.src = run.src /\ run'.uuid = run.uuid
        /\ run'.done = run.done /\ source' = source /\ ledger' = ledger
    BY <1>1, <1>2 DEF Runs, world
  <2>2. WritingStage'
    BY <2>1, <1>1, <1>2, <1>8 DEF RunInv, WritingStage
  <2>3. LastPiece' = LastPiece /\ Block(None)' = Block(None)
    BY <2>1 DEF LastPiece, Block
  <2>4. DirectoryStage(None)'
    BY <2>1, <2>3, <1>1, <1>3, <1>5, <1>7 DEF DirectoryStage, Directory
  <2> QED BY <2>1, <2>2, <2>4, <1>2 DEF RunInv, Running, Writing
<1> QED BY <1>9, <1>11, <1>12 DEF Inv

LEMMA WriteRootKeeps == ASSUME Inv, WriteRoot PROVE Inv'
<1> DEFINE q == [Synced(partial) EXCEPT !.super.root = partial.body]
<1>1. /\ run.pc = "directories" /\ Writing /\ UNCHANGED <<world, output, ledger, undo, result>>
      /\ run' = [run EXCEPT !.pc = "root"] /\ partial' = q
  BY DEF WriteRoot, Writing
<1>2. /\ WorldOK /\ RunInv /\ RefusesOnlyChangedInput /\ DirectoryStage(None)
      /\ run.src = source /\ partial \in Files /\ Fits(partial) /\ run.src \in Sources
      /\ Len(run.done) \in Nat /\ Len(partial.body) \in Nat /\ partial.body \in Seq(Pieces)
      /\ run.uuid \in Uuids /\ run \in Runs /\ run.done \in Seq(Entries)
  BY <1>1, WritingFacts DEF RunInv
<1>3. Block(partial.body) \in Superblocks
  <2>1. LastPiece \in Pieces
    BY <1>2, ConversionFacts DEF LastPiece, Pieces
  <2> QED BY <2>1, <1>2, ConversionFacts DEF Block, Superblocks
<1>4. /\ q \in Files /\ q.body = partial.body /\ q.synced = Len(partial.body)
      /\ q.super = Block(partial.body)
  <2>1. partial.super = Block(None)
    BY <1>2 DEF DirectoryStage
  <2>2. q = [super |-> Block(partial.body), durable |-> partial.super,
             body |-> partial.body, synced |-> Len(partial.body)]
    <3>1. [Block(None) EXCEPT !.root = partial.body] = Block(partial.body)
      BY DEF Block
    <3>2. Synced(partial) = [super |-> partial.super, durable |-> partial.super,
                             body |-> partial.body, synced |-> Len(partial.body)]
      <4>1. partial = [super |-> partial.super, durable |-> partial.durable,
                       body |-> partial.body, synced |-> partial.synced]
        BY <1>2 DEF Files
      <4> DEFINE n == Len(partial.body)
                 block == partial.super
      <4>2. Synced(partial) = [partial EXCEPT !.synced = n, !.durable = block]
        BY DEF Synced
      <4> HIDE DEF n, block
      <4>3. Synced(partial) = [super |-> partial.super, durable |-> block,
                               body |-> partial.body, synced |-> n]
        BY <4>1, <4>2
      <4> QED BY <4>3 DEF n, block
    <3>3. q = [Synced(partial) EXCEPT !.super = [partial.super EXCEPT !.root = partial.body]]
      BY <3>2
    <3> HIDE DEF q
    <3> QED BY <3>1, <3>2, <3>3, <2>1
  <2>3. partial.super \in Blocks
    BY <1>2 DEF Files
  <2> QED BY <2>2, <2>3, <1>2, <1>3 DEF Files, Blocks
<1> HIDE DEF q
<1>5. Fits(q) /\ q # None
  BY <1>2, <1>4, ConversionFacts DEF Fits
<1>6. HasHistory'
  <2>1. Len(run.done) <= q.synced
    BY <1>2, <1>4, ConversionFacts DEF DirectoryStage
  <2> QED BY <2>1, <1>1, <1>4, <1>5, FileWritten
<1>7. run' \in Runs
  BY <1>1, <1>2 DEF Runs, Steps
<1>8. WorldOK' /\ RefusesOnlyChangedInput'
  BY <1>1, <1>2, <1>7, WorldSame DEF RefusesOnlyChangedInput
<1>9. RunInv'
  <2>1. run'.pc = "root" /\ run'.src = run.src /\ run'.uuid = run.uuid
        /\ run'.done = run.done /\ source' = source /\ ledger' = ledger
    BY <1>1, <1>2 DEF Runs, world
  <2>2. WritingStage'
    BY <2>1, <1>1, <1>2, <1>5 DEF RunInv, WritingStage
  <2>3. LastPiece' = LastPiece /\ Block(partial.body)' = Block(partial.body)
    BY <2>1, <1>1, <1>4 DEF LastPiece, Block
  <2>4. DirectoryStage(partial.body)'
    BY <2>1, <2>3, <1>1, <1>2, <1>4 DEF DirectoryStage, Directory
  <2> QED BY <2>1, <2>2, <2>4, <1>2 DEF RunInv, Running, Writing
<1> QED BY <1>6, <1>8, <1>9 DEF Inv

LEMMA SyncRootKeeps == ASSUME Inv, QuietRun, SyncRoot PROVE Inv'
<1> DEFINE q == Synced(partial)
<1>1. /\ run.pc = "root" /\ Writing /\ UNCHANGED <<world, output, ledger, undo, result>>
      /\ run' = [run EXCEPT !.pc = "publish"] /\ partial' = q
  BY DEF SyncRoot, Writing
<1>2. /\ WorldOK /\ RunInv /\ RefusesOnlyChangedInput /\ DirectoryStage(partial.body)
      /\ run.src = source /\ partial \in Files /\ Fits(partial) /\ run.src \in Sources
      /\ Len(run.done) \in Nat /\ Len(partial.body) \in Nat /\ partial.body \in Seq(Pieces)
      /\ run.uuid \in Uuids /\ run \in Runs /\ run.done \in Seq(Entries)
      /\ Covers(partial, ledger) /\ IsTrue(ledger)
      /\ ledger.source = run.src /\ ledger.uuid = run.uuid /\ ledger.completed = run.done
  BY <1>1, WritingFacts DEF RunInv
<1>3. /\ partial.super = Block(partial.body) /\ Directory(partial) = LastPiece
      /\ Len(run.done) = Extents /\ Len(partial.body) = Extents + 1
  BY <1>2 DEF DirectoryStage
<1>4. /\ q \in Files /\ q.body = partial.body /\ q.synced = Len(partial.body)
      /\ q.super = partial.super /\ q.durable = partial.super
  BY <1>2 DEF Synced, Files
<1> HIDE DEF q
<1>5. Fits(q) /\ q # None
  BY <1>2, <1>4, ConversionFacts DEF Fits
<1>6. HasHistory'
  <2>1. Len(run.done) <= q.synced
    BY <1>3, <1>4, ConversionFacts
  <2> QED BY <2>1, <1>1, <1>4, <1>5, FileWritten
<1>7. Directory(q) = LastPiece /\ LastPiece.records = run.done /\ LastPiece.config = run.src
  BY <1>3, <1>4 DEF Directory, LastPiece
<1>8. /\ q.super.state = 1 /\ q.super.uuid = run.uuid /\ q.super.source = run.src
      /\ q.super.length = Extents + 1 /\ q.super.directory = LastPiece
      /\ q.super.root = q.body
  BY <1>3, <1>4 DEF Block
<1>9. \A i \in 1..Extents :
         /\ run.done[i] = Entry(i, Content(run.src, i))
         /\ q.body[i].chunks = Content(run.src, i)
  BY <1>2, <1>3, <1>4 DEF IsTrue, Covers
<1>10. Opens(q)
  <2>1. q.super # None /\ q.super # Junk
    <3>1. Block(partial.body) \in Superblocks
      <4>1. LastPiece \in Pieces
        BY <1>2, ConversionFacts DEF LastPiece, Pieces
      <4> QED BY <4>1, <1>2, ConversionFacts DEF Block, Superblocks
    <3> QED BY <3>1, <1>3, <1>4, ConversionFacts
  <2>2. \A i \in 1..Extents :
           /\ Directory(q).records[i].crc # <<>>
           /\ q.body[Directory(q).records[i].pos].chunks = Directory(q).records[i].crc
    <3> SUFFICES ASSUME NEW i \in 1..Extents
                 PROVE  /\ run.done[i].crc # <<>>
                        /\ q.body[run.done[i].pos].chunks = run.done[i].crc
      BY <1>7
    <3>1. run.done[i].pos = i /\ run.done[i].crc = Content(run.src, i)
      <4>1. \A j, c : Entry(j, c).pos = j /\ Entry(j, c).crc = c
        BY DEF Entry
      <4> QED BY <4>1, <1>9
    <3> QED BY <3>1, <1>2, <1>9, Contents
  <2> QED BY <2>1, <2>2, <1>3, <1>4, <1>7, <1>8 DEF Opens
<1>11. Whole(q)
  BY <1>4, <1>7, <1>8, <1>9, <1>10 DEF Whole
<1>12. run' \in Runs
  BY <1>1, <1>2 DEF Runs, Steps
<1>13. WorldOK' /\ RefusesOnlyChangedInput'
  BY <1>1, <1>2, <1>12, WorldSame DEF RefusesOnlyChangedInput
<1>14. RunInv'
  <2>1. run'.pc = "publish" /\ run'.src = run.src /\ run'.uuid = run.uuid
        /\ run'.done = run.done /\ source' = source /\ ledger' = ledger
    BY <1>1, <1>2 DEF Runs, world
  <2>2. WritingStage'
    BY <2>1, <1>1, <1>2, <1>5 DEF RunInv, WritingStage
  <2>3. Whole(partial)'
    BY <1>1, <1>11 DEF Whole, Opens, Directory, Content
  <2>4. PublishStage'
    BY <2>1, <2>3, <1>1, <1>2, <1>8 DEF PublishStage, Describes
  <2> QED BY <2>1, <2>2, <2>4, <1>2 DEF RunInv, Running, Writing
<1> QED BY <1>6, <1>13, <1>14 DEF Inv

LEMMA PublishKeeps == ASSUME Inv, Publish PROVE Inv'
<1>1. /\ run.pc = "publish" /\ Writing /\ UNCHANGED <<world, ledger, result>>
      /\ output' = partial /\ partial' = None /\ undo' = Pending("publish", output)
      /\ run' = [run EXCEPT !.pc = "unlink"]
  BY DEF Publish, Writing
<1>2. /\ HasHistory /\ WorldOK /\ RunInv /\ RefusesOnlyChangedInput /\ PublishStage
      /\ run.src = source /\ run.uuid \in Uuids /\ run \in Runs
      /\ partial \in Files /\ ledger \in Ledgers /\ IsTrue(ledger)
  BY <1>1, WritingFacts DEF RunInv
<1>3. HasHistory'
  <2> DEFINE op == [kind |-> "publish", was |-> output]
             new == Disk(None, partial, ledger)
  <2>1. op \in Operations /\ op.kind = "publish" /\ op.was = output
    BY <1>2, CurrentDisk DEF Operations
  <2>2. partial # None
    BY <1>2, ConversionFacts
  <2>3. new \in SoundDisks
    BY <2>2, <1>2, SoundDisk DEF PublishStage
  <2>4. Now = Undone(new, op)
    BY DEF Now, Undone, Disk
  <2> HIDE DEF op, new
  <2> QED BY <2>1, <2>3, <2>4, <1>1, <1>2, OperationStep DEF new
<1>4. run' \in Runs
  BY <1>1, <1>2 DEF Runs, Steps
<1>5. WorldOK' /\ RefusesOnlyChangedInput'
  BY <1>1, <1>2, <1>4, WorldSame DEF RefusesOnlyChangedInput
<1>6. RunInv'
  <2>1. run'.pc = "unlink" /\ run'.src = run.src /\ run'.uuid = run.uuid /\ source' = source
    BY <1>1, <1>2 DEF Runs, world
  <2> QED BY <2>1, <1>1, <1>2 DEF RunInv, Running, Writing
<1> QED BY <1>3, <1>5, <1>6 DEF Inv

LEMMA RemoveLedgerKeeps == ASSUME Inv, RemoveLedger PROVE Inv'
<1>1. HasHistory /\ WorldOK /\ partial = None
  BY DEF Inv, RunInv, RemoveLedger
<1>2. /\ ledger' = None /\ undo' = Pending("ledger", ledger) /\ run' = Idle
      /\ result' = "finalized" /\ UNCHANGED <<world, partial, output>>
  BY DEF RemoveLedger, Finish
<1>3. HasHistory'
  BY <1>1, <1>2, LedgerRemoved
<1>4. run' \in Runs /\ RunInv'
  BY <1>2, NoRun
<1>5. WorldOK' /\ RefusesOnlyChangedInput'
  BY <1>1, <1>2, <1>4, WorldSame DEF RefusesOnlyChangedInput
<1> QED BY <1>3, <1>4, <1>5 DEF Inv

-----------------------------------------------------------------------------
(* The theorems.                                                           *)

LEMMA NextKeeps == ASSUME Inv, QuietRun, [Next]_vars PROVE Inv'
<1>1. CASE UNCHANGED vars
  <2>1. HasHistory'
    BY <1>1, SameDiskStep DEF vars, disk, Inv
  <2>2. WorldOK' /\ RefusesOnlyChangedInput'
    BY <1>1 DEF vars, Inv, WorldOK, RefusesOnlyChangedInput
  <2>3. RunInv'
    <3>1. /\ UNCHANGED <<run, source, partial, ledger>>
      BY <1>1 DEF vars
    <3>2. LedgerStage' = LedgerStage /\ WritingStage' = WritingStage
      BY <3>1 DEF LedgerStage, WritingStage
    <3>3. CopyStage' = CopyStage
      BY <3>1 DEF CopyStage, Following, Chunked
    <3>4. RecordStage' = RecordStage
      BY <3>1 DEF RecordStage, Following, Chunked
    <3>5. /\ DirectoryStage(None)' = DirectoryStage(None)
          /\ DirectoryStage(partial.body)' = DirectoryStage(partial.body)
      BY <3>1 DEF DirectoryStage, Directory, LastPiece, Block
    <3>6. PublishStage' = PublishStage
      BY <3>1 DEF PublishStage, Whole, Opens, Directory, Content, Describes
    <3> QED BY <3>1, <3>2, <3>3, <3>4, <3>5, <3>6 DEF Inv, RunInv, Running, Writing
  <2> QED BY <2>1, <2>2, <2>3 DEF Inv
<1>2. CASE Start \/ DryRun
  BY <1>2, StartKeeps
<1>3. CASE Convert
  <2>1. CASE Refuse
    BY <2>1, EndKeeps
  <2>2. CASE AcceptFinished
    BY <2>2, AcceptKeeps
  <2>3. CASE Resume
    BY <2>3, ResumeKeeps
  <2>4. CASE CreatePartial
    BY <2>4, CreatePartialKeeps
  <2>5. CASE CreateLedger
    BY <2>5, CreateLedgerKeeps
  <2>6. CASE CopyChunk
    BY <2>6, CopyChunkKeeps
  <2>7. CASE SyncExtent
    BY <2>7, SyncExtentKeeps
  <2>8. CASE RecordExtent
    BY <2>8, RecordExtentKeeps
  <2>9. CASE WriteDirectories
    BY <2>9, WriteDirectoriesKeeps
  <2>10. CASE WriteRoot
    BY <2>10, WriteRootKeeps
  <2>11. CASE SyncRoot
    BY <2>11, SyncRootKeeps
  <2>12. CASE Publish
    BY <2>12, PublishKeeps
  <2>13. CASE RemoveLedger
    BY <2>13, RemoveLedgerKeeps
  <2> QED BY <1>3, <2>1, <2>2, <2>3, <2>4, <2>5, <2>6, <2>7, <2>8, <2>9, <2>10, <2>11,
             <2>12, <2>13 DEF Convert
<1>4. CASE Boot
  BY <1>4, BootKeeps
<1>5. CASE World
  <2>1. CASE Kill
    BY <2>1, EndKeeps
  <2>2. CASE PowerLoss
    BY <2>2, LossKeeps
  <2>3. CASE LoseOperation
    BY <2>3, LoseKeeps
  <2>4. CASE EditSource \/ UpgradeTool
    BY <2>4, EditKeeps
  <2> QED BY <1>5, <2>1, <2>2, <2>3, <2>4 DEF World
<1> QED BY <1>1, <1>2, <1>3, <1>4, <1>5 DEF Next

LEMMA InvIsSafe == ASSUME Inv PROVE LedgerIsBacked
<1>1. TypeOK /\ RefusesOnlyChangedInput
  BY TypesFollow DEF Inv
<1>2. ExtentsAreBacked
  <2> SUFFICES ASSUME ledger # None, partial # None, NEW i \in 1..Len(ledger.completed)
               PROVE  /\ ledger.completed[i] = Entry(i, Content(ledger.source, i))
                      /\ i <= partial.synced
                      /\ partial.body[i].chunks = ledger.completed[i].crc
    BY DEF ExtentsAreBacked
  <2>1. partial \in Files /\ ledger \in Ledgers /\ IsTrue(ledger) /\ Covers(partial, ledger)
    BY CurrentDisk DEF Inv
  <2>2. partial.synced \in Nat /\ Len(ledger.completed) \in Nat
    BY <2>1, LenProperties DEF Files, Ledgers
  <2>3. ledger.completed[i] = Entry(i, Content(ledger.source, i))
    BY <2>1 DEF IsTrue
  <2>4. i <= partial.synced
    BY <2>1, <2>2 DEF Covers
  <2>5. partial.body[i].chunks = Content(ledger.source, i)
    BY <2>1 DEF Covers
  <2> QED BY <2>3, <2>4, <2>5 DEF Entry
<1>3. LedgerHasItsFile
  BY CurrentDisk DEF Inv, LedgerHasItsFile, Describes
<1>4. PublishedIsWhole
  BY CurrentDisk DEF Inv, PublishedIsWhole, Whole
<1> QED BY <1>1, <1>2, <1>3, <1>4 DEF LedgerIsBacked

\* However often a conversion is killed, stopped or hit by a power loss: an
\* extent the ledger names is synced with the bytes of the ledger's source, a
\* ledger has its file under one of the two names, only changed input is
\* refused, and what is published opens and is whole (convert in writer.py
\* with the ledger of resume.py).
THEOREM Backed == ASSUME QuietRun PROVE Spec => []LedgerIsBacked
<1>1. Init => Inv
  BY Begins
<1>2. Inv /\ [Next]_vars => Inv'
  BY NextKeeps
<1>3. Inv => LedgerIsBacked
  BY InvIsSafe
<1> QED BY <1>1, <1>2, <1>3, PTL DEF Spec

-----------------------------------------------------------------------------
(* A reader of the output name.                                            *)

Renames == {m \in DOMAIN undo : undo[m].kind = "publish"}
Recent == {Published(undo[n].was) : n \in Renames}

\* What is not a rename brings nothing back that was not there.
LEMMA RecentSettles ==
  ASSUME undo \in Seq(Operations), NEW op \in Operations, undo' = Pending(op.kind, op.was)
  PROVE  /\ Recent' \subseteq Recent \cup {Published(op.was)}
         /\ op.kind # "publish" => Recent' \subseteq Recent
<1>1. op = [kind |-> op.kind, was |-> op.was]
  BY DEF Operations
<1>2. undo' = IF Len(Append(undo, op)) > MaxPending
              THEN Tail(Append(undo, op)) ELSE Append(undo, op)
  BY <1>1 DEF Pending
<1>3. Shifted(undo, op, undo')
  BY <1>2, PendingShifts
<1>4. undo' \in Seq(Operations)
  BY <1>3 DEF Shifted
<1>5. PICK n \in {0, 1} :
        /\ Len(undo') = Len(undo) + 1 - n
        /\ \A k \in 1..Len(undo') : undo'[k] = IF k + n <= Len(undo) THEN undo[k + n] ELSE op
  BY <1>3 DEF Shifted
<1>6. Len(undo) \in Nat /\ Len(undo') \in Nat /\ DOMAIN undo = 1..Len(undo)
      /\ DOMAIN undo' = 1..Len(undo')
  BY <1>4, LenProperties
<1>7. \A k \in 1..Len(undo') : undo'[k] = op \/ \E j \in 1..Len(undo) : undo'[k] = undo[j]
  <2> SUFFICES ASSUME NEW k \in 1..Len(undo')
               PROVE  undo'[k] = op \/ \E j \in 1..Len(undo) : undo'[k] = undo[j]
    OBVIOUS
  <2>1. CASE k + n <= Len(undo)
    <3>1. k + n \in 1..Len(undo) /\ undo'[k] = undo[k + n]
      BY <2>1, <1>5, <1>6
    <3> QED BY <3>1
  <2>2. CASE ~(k + n <= Len(undo))
    BY <2>2, <1>5
  <2> QED BY <2>1, <2>2
<1>8. \A k \in Renames' : \/ undo'[k] = op /\ op.kind = "publish"
                         \/ \E j \in Renames : undo'[k] = undo[j]
  BY <1>6, <1>7, SMTT(20) DEF Renames
<1>9. Recent' = {Published(undo'[k].was) : k \in Renames'}
  BY DEF Recent
<1> QED BY <1>8, <1>9 DEF Recent

LEMMA OutputRemains == ASSUME Inv, PowerLoss PROVE output' = output
<1>1. CASE output = None
  BY <1>1 DEF PowerLoss, Remains
<1>2. CASE output # None
  BY <1>2, CurrentDisk, WholeRemains DEF PowerLoss, Inv
<1> QED BY <1>1, <1>2

\* Steps that leave the output name alone.
LEMMA Settles ==
  ASSUME Inv, UNCHANGED output,
         \/ undo' = undo
         \/ \E l \in Ledgers \cup {None} : undo' = Pending("ledger", l)
         \/ undo' = Pending("create", None)
         \/ undo' = <<>>
  PROVE  Published(output') = Published(output) /\ Recent' \subseteq Recent
<1>1. undo \in Seq(Operations)
  BY DEF Inv, HasHistory
<1>2. CASE undo' = undo
  BY <1>2 DEF Recent, Renames
<1>3. CASE \E l \in Ledgers \cup {None} : undo' = Pending("ledger", l)
  <2>1. PICK l \in Ledgers \cup {None} : undo' = Pending("ledger", l)
    BY <1>3
  <2> DEFINE op == [kind |-> "ledger", was |-> l]
  <2>2. op \in Operations /\ op.kind = "ledger" /\ op.was = l
    BY DEF Operations
  <2> HIDE DEF op
  <2> QED BY <2>1, <2>2, <1>1, RecentSettles
<1>4. CASE undo' = Pending("create", None)
  <2> DEFINE op == [kind |-> "create", was |-> None]
  <2>1. op \in Operations /\ op.kind = "create" /\ op.was = None
    BY DEF Operations
  <2> HIDE DEF op
  <2> QED BY <2>1, <1>1, <1>4, RecentSettles
<1>5. CASE undo' = <<>>
  BY <1>5 DEF Recent, Renames
<1> QED BY <1>2, <1>3, <1>4, <1>5

LEMMA PublishPublishes ==
  ASSUME Inv, Publish
  PROVE  /\ Published(output') = source /\ source' = source
         /\ Recent' \subseteq Recent \cup {Published(output)}
<1>1. run.pc = "publish" /\ Writing /\ output' = partial /\ undo' = Pending("publish", output)
      /\ source' = source
  BY DEF Publish, Writing, world
<1>2. /\ partial # None /\ PublishStage /\ ledger.source = run.src /\ run.src = source
  BY <1>1, WritingFacts DEF RunInv
<1>3. Published(partial) = source
  BY <1>2 DEF Published, PublishStage, Whole, Describes
<1> DEFINE op == [kind |-> "publish", was |-> output]
<1>4. op \in Operations /\ op.kind = "publish" /\ op.was = output
  BY CurrentDisk DEF Operations, Inv
<1>5. undo \in Seq(Operations)
  BY DEF Inv, HasHistory
<1> HIDE DEF op
<1> QED BY <1>1, <1>3, <1>4, <1>5, RecentSettles

LEMMA LosingRestores ==
  ASSUME Inv, LoseOperation
  PROVE  /\ Published(output') = Published(output) \/ Published(output') \in Recent
         /\ Recent' \subseteq Recent /\ source' = source
<1>1. /\ undo \in Seq(Operations) /\ undo # <<>> /\ source' = source
      /\ undo' = SubSeq(undo, 1, Len(undo) - 1)
  BY DEF LoseOperation, Inv, HasHistory, world
<1>2. Len(undo) \in Nat /\ Len(undo) # 0 /\ DOMAIN undo = 1..Len(undo)
  BY <1>1, LenProperties, EmptySeq
<1>3. Len(undo) - 1 \in 0..Len(undo)
  BY <1>2
<1>4. /\ undo' \in Seq(Operations) /\ Len(undo') = Len(undo) - 1
      /\ \A k \in 1..(Len(undo) - 1) : undo'[k] = undo[k]
  BY <1>1, <1>3, FirstMembers
<1>5. Recent' \subseteq Recent
  <2>1. DOMAIN undo' = 1..(Len(undo) - 1)
    BY <1>4, LenProperties
  <2>2. \A k \in Renames' : k \in Renames /\ undo'[k] = undo[k]
    BY <2>1, <1>2, <1>4 DEF Renames
  <2>3. Recent' = {Published(undo'[k].was) : k \in Renames'}
    BY DEF Recent
  <2> QED BY <2>2, <2>3 DEF Recent
<1>6. Len(undo) \in DOMAIN undo
  BY <1>2
<1>7. output' = output \/ (Len(undo) \in Renames /\ output' = undo[Len(undo)].was)
  BY <1>6 DEF LoseOperation, LastPending, Renames
<1>8. Published(output') = Published(output) \/ Published(output') \in Recent
  BY <1>7 DEF Recent
<1> QED BY <1>1, <1>5, <1>8

\* A reader of the output name finds nothing or the whole conversion of a
\* source that was asked for, and a power loss brings back only what the name
\* held shortly before (os.replace of a synced file in writer.py): convert
\* implements Publication.
THEOREM Publishes == ASSUME QuietRun PROVE Spec => ImplementsPublication
<1>1. Init => Promise!Init
  <2> SUFFICES ASSUME Init PROVE Promise!Init
    OBVIOUS
  <2>1. source \in Sources /\ output = None /\ undo = <<>>
    BY DEF Init
  <2>2. {m \in DOMAIN undo : undo[m].kind = "publish"} = {}
    BY <2>1
  <2> QED BY <2>1, <2>2 DEF Promise!Init, Published
<1>2. Inv /\ [Next]_vars => [Promise!Next]_(Promise!vars)
  <2> SUFFICES ASSUME Inv, [Next]_vars PROVE [Promise!Next]_(Promise!vars)
    OBVIOUS
  <2> USE DEF Renames, Recent
  <2>1. source \in Sources /\ ledger \in Ledgers \cup {None}
    BY CurrentDisk DEF Inv, WorldOK
  <2> DEFINE Settled == /\ UNCHANGED <<source, output>>
                        /\ Published(output') = Published(output) /\ Recent' \subseteq Recent
  <2>2. ASSUME Settled PROVE Promise!Settle
    BY <2>2 DEF Promise!Settle
  <2>3. CASE UNCHANGED <<source, output, undo>>
    BY <2>3 DEF Promise!vars
  <2>4. CASE Publish
    BY <2>4, PublishPublishes DEF Promise!Next, Promise!Publish
  <2>5. CASE LoseOperation
    BY <2>5, LosingRestores DEF Promise!Next, Promise!Settle, Promise!Restore
  <2>6. CASE EditSource
    <3>1. source' \in Sources /\ UNCHANGED <<output, undo>>
      BY <2>6 DEF EditSource, disk
    <3> QED BY <3>1 DEF Promise!Next, Promise!Edit
  <2>7. CASE PowerLoss
    <3>1. UNCHANGED <<source, output, undo>>
      BY <2>7, OutputRemains DEF PowerLoss
    <3> QED BY <3>1, <2>3
  <2>8. CASE Boot
    <3>1. UNCHANGED <<source, output>> /\ undo' = <<>>
      BY <2>8 DEF Boot, world
    <3>2. Settled
      BY <3>1, Settles
    <3> QED BY <3>2, <2>2 DEF Promise!Next
  <2>9. CASE Convert /\ ~Publish
    <3>1. /\ UNCHANGED <<source, output>>
          /\ \/ undo' = undo
             \/ undo' = Pending("ledger", ledger)
             \/ undo' = Pending("create", None)
      BY <2>9 DEF Convert, Refuse, AcceptFinished, Resume, CreatePartial, CreateLedger,
         CopyChunk, SyncExtent, RecordExtent, WriteDirectories, WriteRoot, SyncRoot,
         RemoveLedger, WriteLedger, world, disk
    <3>2. Settled
      BY <3>1, <2>1, Settles
    <3> QED BY <3>2, <2>2 DEF Promise!Next
  <2>10. CASE Start \/ DryRun \/ Kill \/ UpgradeTool \/ UNCHANGED vars
    <3>1. UNCHANGED <<source, output, undo>>
      BY <2>10 DEF Start, DryRun, Kill, UpgradeTool, vars, world, disk
    <3> QED BY <3>1, <2>3
  <2> QED BY <2>4, <2>5, <2>6, <2>7, <2>8, <2>9, <2>10 DEF Next, World
<1>3. Init => Inv
  BY Begins
<1>4. Inv /\ [Next]_vars => Inv'
  BY NextKeeps
<1> QED BY <1>1, <1>2, <1>3, <1>4, PTL DEF Spec, ImplementsPublication, Promise!Spec

-----------------------------------------------------------------------------
(* Sequences joined.                                                        *)

LEMMA LeastNumber ==
  ASSUME NEW S \in SUBSET Nat, S # {}
  PROVE  \E least \in S : \A n \in S : least <= n
<1> DEFINE R == OpToRel(<, Nat)
<1>1. IsWellFoundedOn(R, Nat)
  BY NatLessThanWellFounded
<1>2. \A m \in Nat, n \in Nat : m < n => <<m, n>> \in R
  BY Zenon DEF OpToRel
<1> HIDE DEF R
<1>3. PICK least \in S : \A n \in S : ~(<<n, least>> \in R)
  BY <1>1, WFMin
<1>4. \A n \in S : ~(n < least)
  BY <1>2, <1>3, Zenon
<1> QED
  BY <1>4

\* joined[i] is the first i sequences of s, one after the other.
Joins(joined, s) ==
  /\ joined[0] = <<>> /\ FlattenSeq(s) = joined[Len(s)]
  /\ \A i \in 1..Len(s) : joined[i] = joined[i - 1] \o s[i]

\* FlattenSeq joins its sequences from the first to the last.
LEMMA FlattenJoins ==
  ASSUME NEW S, NEW s \in Seq(Seq(S))
  PROVE  \E joined \in [0..Len(s) -> Seq(S)] : Joins(joined, s)
<1> DEFINE n == Len(s)
           Value(f, i) == IF i = 1 THEN s[i] ELSE f[i - 1] \o s[i]
           Computes(f, m) == f \in [1..m -> Seq(S)] /\ \A i \in 1..m : f[i] = Value(f, i)
           flatten == CHOOSE f : f = [i \in 1..n |-> Value(f, i)]
<1>1. n \in Nat /\ (n = 0 <=> s = <<>>) /\ <<>> \in Seq(S) /\ \A i \in 1..n : s[i] \in Seq(S)
  BY LenProperties, EmptySeq, ElementOfSeq
<1>2. CASE n = 0
  <2> DEFINE joined == [i \in 0..0 |-> <<>>]
  <2>1. joined \in [0..n -> Seq(S)] /\ joined[0] = <<>>
    BY <1>1, <1>2
  <2>2. FlattenSeq(s) = <<>>
    BY <1>1, <1>2 DEF FlattenSeq
  <2>3. \A i \in 1..n : FALSE
    BY <1>2
  <2> HIDE DEF joined
  <2> QED
    BY <1>2, <2>1, <2>2, <2>3 DEF Joins
<1>3. CASE n # 0
  <2> DEFINE Bad == {m \in 1..n : ~ \E f : Computes(f, m)}
  <2>1. Bad = {}
    <3> SUFFICES ASSUME Bad # {} PROVE FALSE
      OBVIOUS
    <3>0. Bad \in SUBSET Nat
      BY <1>1
    <3>1. PICK m \in Bad : \A k \in Bad : m <= k
      <4> HIDE DEF Bad
      <4> QED BY <3>0, LeastNumber
    <3>2. CASE m = 1
      <4> DEFINE g == [i \in 1..m |-> s[i]]
      <4>1. g \in [1..m -> Seq(S)]
        BY <1>1, <3>1
      <4>2. Computes(g, m)
        BY <3>2, <4>1
      <4> QED
        BY <3>1, <4>2
    <3>3. CASE m # 1
      <4>1. m - 1 \in 1..n /\ m - 1 \notin Bad
        <5>1. m \in 1..n
          BY <3>1
        <5>2. m - 1 \in 1..n /\ ~(m <= m - 1)
          BY <1>1, <3>3, <5>1
        <5> HIDE DEF Bad
        <5> QED BY <3>1, <5>2
      <4>2. PICK f : Computes(f, m - 1)
        BY <4>1
      <4> DEFINE g == [i \in 1..m |-> IF i = m THEN f[m - 1] \o s[m] ELSE f[i]]
      <4>3. f[m - 1] \in Seq(S) /\ s[m] \in Seq(S)
        BY <1>1, <3>1, <4>1, <4>2
      <4>4. f[m - 1] \o s[m] \in Seq(S)
        BY <4>3, ConcatProperties
      <4>5. g \in [1..m -> Seq(S)]
        BY <4>2, <4>4
      <4>6. \A i \in 1..m : g[i] = Value(g, i)
        <5> TAKE i \in 1..m
        <5>1. CASE i = m
          <6>1. m - 1 \in 1..m /\ m - 1 # m
            BY <1>1, <3>1, <4>1
          <6>2. g[m - 1] = f[m - 1]
            BY <6>1
          <6> QED
            BY <3>3, <5>1, <6>2
        <5>2. CASE i # m
          <6>1. i \in 1..(m - 1) /\ (i # 1 => i - 1 \in 1..m /\ i - 1 # m)
            BY <1>1, <3>1, <5>2
          <6>2. g[i] = f[i] /\ (i # 1 => g[i - 1] = f[i - 1])
            BY <5>2, <6>1
          <6>3. f[i] = Value(f, i)
            BY <4>2, <6>1
          <6> QED
            BY <6>2, <6>3
        <5> QED
          BY <5>1, <5>2
      <4>7. Computes(g, m)
        BY <4>5, <4>6
      <4> QED
        BY <3>1, <4>7
    <3> QED
      BY <3>2, <3>3
  <2>2. PICK f : Computes(f, n)
    <3>1. n \in 1..n
      BY <1>1, <1>3
    <3> QED
      BY <2>1, <3>1
  <2>3. f = [i \in 1..n |-> Value(f, i)]
    <3>1. f = [i \in 1..n |-> f[i]]
      BY <2>2
    <3> QED
      BY <2>2, <3>1, Zenon
  <2>4. flatten = [i \in 1..n |-> Value(flatten, i)]
    BY <2>3, Zenon
  <2>5. FlattenSeq(s) = flatten[n]
    BY <1>3 DEF FlattenSeq
  <2> HIDE DEF flatten
  <2>6. \A i \in 1..n : flatten[i] = Value(flatten, i)
    BY <2>4
  <2> DEFINE Wrong == {i \in 1..n : flatten[i] \notin Seq(S)}
  <2>7. Wrong = {}
    <3> SUFFICES ASSUME Wrong # {} PROVE FALSE
      OBVIOUS
    <3>0. Wrong \in SUBSET Nat
      BY <1>1
    <3>1. PICK m \in Wrong : \A k \in Wrong : m <= k
      <4> HIDE DEF Wrong
      <4> QED BY <3>0, LeastNumber
    <3>2. CASE m = 1
      BY <1>1, <2>6, <3>1, <3>2
    <3>3. CASE m # 1
      <4>1. m - 1 \in 1..n /\ m - 1 \notin Wrong
        BY <1>1, <3>1, <3>3
      <4>2. flatten[m - 1] \in Seq(S) /\ s[m] \in Seq(S)
        BY <1>1, <4>1
      <4>3. flatten[m - 1] \o s[m] \in Seq(S)
        BY <4>2, ConcatProperties
      <4> QED
        BY <2>6, <3>1, <3>3, <4>3
    <3> QED
      BY <3>2, <3>3
  <2> DEFINE joined == [i \in 0..n |-> IF i = 0 THEN <<>> ELSE flatten[i]]
  <2>8. joined \in [0..n -> Seq(S)] /\ joined[0] = <<>> /\ FlattenSeq(s) = joined[n]
    BY <1>1, <1>3, <2>5, <2>7
  <2>9. ASSUME NEW i \in 1..n PROVE joined[i] = joined[i - 1] \o s[i]
    <3>1. i \in 0..n /\ i - 1 \in 0..n /\ joined[i] = flatten[i]
      BY <1>1
    <3>2. CASE i = 1
      <4>1. joined[i - 1] = <<>> /\ flatten[i] = s[i]
        BY <2>6, <3>1, <3>2
      <4>2. <<>> \o s[i] = s[i]
        BY <1>1, ConcatEmptySeq
      <4> QED
        BY <3>1, <4>1, <4>2
    <3>3. CASE i # 1
      <4>1. joined[i - 1] = flatten[i - 1]
        BY <1>1, <3>1, <3>3
      <4> HIDE DEF joined
      <4> QED
        BY <2>6, <3>1, <3>3, <4>1
    <3> QED
      BY <3>2, <3>3
  <2> HIDE DEF joined
  <2> QED
    BY <2>8, <2>9 DEF Joins
<1> QED
  BY <1>2, <1>3

LEMMA RestOfPrefix ==
  ASSUME NEW S, NEW t \in Seq(S), NEW m \in 0..Len(t), NEW n \in m..Len(t)
  PROVE  /\ SubSeq(t, 1, m) \in Seq(S) /\ SubSeq(t, m + 1, n) \in Seq(S)
         /\ Len(SubSeq(t, m + 1, n)) = n - m
<1>1. Len(t) \in Nat /\ \A i \in 1..Len(t) : t[i] \in S
  BY LenProperties, ElementOfSeq
<1>2. SubSeq(t, 1, m) \in Seq(S)
  BY <1>1, SubSeqProperties
<1>3. SubSeq(t, m + 1, n) \in Seq(S)
      /\ Len(SubSeq(t, m + 1, n)) = IF m + 1 <= n THEN n - (m + 1) + 1 ELSE 0
  <2>1. m + 1 \in Int /\ n \in Int /\ \A i \in (m + 1)..n : t[i] \in S
    BY <1>1
  <2> QED
    BY <2>1, SubSeqProperties
<1> QED
  BY <1>1, <1>2, <1>3

LEMMA PrefixGrows ==
  \A S : \A s \in Seq(S), t \in Seq(S) : \A m \in 0..Len(t) : \A n \in m..Len(t) :
    (s \o SubSeq(t, 1, m)) \o SubSeq(t, m + 1, n) = s \o SubSeq(t, 1, n)
<1> TAKE S
<1> TAKE s \in Seq(S), t \in Seq(S)
<1> TAKE m \in 0..Len(t)
<1> TAKE n \in m..Len(t)
<1>1. Len(t) \in Nat
  BY LenProperties
<1>2. SubSeq(t, 1, m) \in Seq(S) /\ SubSeq(t, m + 1, n) \in Seq(S)
  BY RestOfPrefix
<1>3. SubSeq(t, 1, m) \o SubSeq(t, m + 1, n) = SubSeq(t, 1, n)
  <2>1. 1 \in 1..(Len(t) + 1) /\ m \in (1 - 1)..Len(t)
    BY <1>1
  <2> QED
    BY <2>1, ConcatAdjacentSubSeq
<1>4. \A u \in Seq(S), v \in Seq(S) : (s \o u) \o v = s \o (u \o v)
  BY ConcatAssociative
<1>5. (s \o SubSeq(t, 1, m)) \o SubSeq(t, m + 1, n) = s \o (SubSeq(t, 1, m) \o SubSeq(t, m + 1, n))
  BY <1>2, <1>4, Zenon
<1> QED
  BY <1>3, <1>5, Zenon

LEMMA EndOfConcat ==
  ASSUME NEW S, NEW s \in Seq(S), NEW t \in Seq(S)
  PROVE  SubSeq(s \o t, Len(s \o t) - Len(t) + 1, Len(s \o t)) = t
<1> DEFINE both == s \o t
           end == SubSeq(both, Len(both) - Len(t) + 1, Len(both))
<1>1. /\ Len(s) \in Nat /\ Len(t) \in Nat
      /\ both \in Seq(S) /\ Len(both) = Len(s) + Len(t)
      /\ \A i \in 1..(Len(s) + Len(t)) : both[i] = IF i <= Len(s) THEN s[i] ELSE t[i - Len(s)]
  BY LenProperties, ConcatProperties
<1> HIDE DEF both
<1>2. \A i \in (Len(both) - Len(t) + 1)..Len(both) : both[i] \in S
  BY <1>1, ElementOfSeq
<1>3. /\ end \in Seq(S)
      /\ Len(end) = IF Len(both) - Len(t) + 1 <= Len(both)
                    THEN Len(both) - (Len(both) - Len(t) + 1) + 1 ELSE 0
      /\ \A i \in 1..(Len(both) - (Len(both) - Len(t) + 1) + 1) :
           end[i] = both[Len(both) - Len(t) + 1 + i - 1]
  <2>1. Len(both) - Len(t) + 1 \in Int /\ Len(both) \in Int
    BY <1>1
  <2> QED
    BY <1>2, <2>1, SubSeqProperties
<1> HIDE DEF end
<1>4. Len(end) = Len(t)
  BY <1>1, <1>3
<1>5. ASSUME NEW i \in 1..Len(end) PROVE end[i] = t[i]
  <2>1. i \in 1..Len(t)
    BY <1>4
  <2>2. /\ Len(both) - Len(t) + 1 + i - 1 = Len(s) + i /\ Len(s) + i \in 1..(Len(s) + Len(t))
        /\ ~(Len(s) + i <= Len(s)) /\ Len(s) + i - Len(s) = i
        /\ i \in 1..(Len(both) - (Len(both) - Len(t) + 1) + 1)
    BY <1>1, <2>1
  <2>3. end[i] = both[Len(s) + i]
    BY <1>3, <2>2
  <2> QED
    BY <1>1, <2>2, <2>3
<1> QED
  BY <1>3, <1>4, <1>5, SeqEqual DEF both, end

-----------------------------------------------------------------------------
(* The bounded source: its inductive invariant.                             *)

ShardBytes == Identities \X Nat \X Nat
Manifests == [id : Identities, source : Seq(ShardBytes), tensors : Seq(Seq(ShardBytes))]
ManifestOf(id) == [id |-> id, source |-> Shard(id), tensors |-> Tensors(id)]
WriterCalls ==
  [pc : {"idle", "tensors", "open", "write", "replace"}, id : Identities \cup {""}, chunk : Nat,
   bytes : Seq(ShardBytes), tensor : Nat, offset : Nat, digests : Seq(Seq(ShardBytes)), file : Nat]

\* What the first t tensors of a shard are joined to.
ShardJoins(joined, id) ==
  joined \in [0..NumTensors -> Seq(ShardBytes)] /\ Joins(joined, Tensors(id))
JoinedOf(id) == CHOOSE joined : ShardJoins(joined, id)

\* Chunk by chunk the bytes are those of the tensors before, and as much of the
\* current one as its offset says.
ShardSoFar(c) ==
  /\ c.id \in Identities /\ c.chunk \in ChunkSizes
  /\ c.tensor \in 1..(NumTensors + 1)
  /\ c.offset <= IF c.tensor <= NumTensors THEN TensorLength[c.tensor] ELSE 0
  /\ c.bytes = JoinedOf(c.id)[c.tensor - 1] \o SubSeq(Tensor(c.id, c.tensor), 1, c.offset)
  /\ c.digests = [t \in 1..(c.tensor - 1) |-> Tensor(c.id, t)]

ShardDone(c) ==
  /\ c.id \in Identities /\ c.bytes = Shard(c.id) /\ c.digests = Tensors(c.id)
  /\ Shard(c.id) \in shards

WriterOk(c) ==
  /\ c.pc = "idle" => c = NotWriting
  /\ c.pc = "tensors" => ShardSoFar(c)
  /\ c.pc \in {"open", "write", "replace"} => ShardDone(c)
  /\ c.pc \in {"write", "replace"} => partialManifest # 0 /\ c.file = partialManifest
  /\ c.pc = "replace" => inode[partialManifest] = <<ManifestOf(c.id)>>

BoundedInv ==
  /\ shards \subseteq {Shard(id) : id \in Identities}
  /\ inode \in Seq(Seq(Manifests))
  /\ partialManifest \in 0..Len(inode) /\ manifest \in 0..Len(inode)
  /\ partialManifest # 0 => partialManifest # manifest
  /\ ManifestIsConsistent
  /\ writer \in [Writers -> WriterCalls]
  /\ \A w \in Writers : WriterOk(writer[w])

-----------------------------------------------------------------------------
(* What a shard consists of.                                                *)

LEMMA ShardFacts ==
  ASSUME NEW id \in Identities
  PROVE  /\ NumTensors \in Nat /\ Tensors(id) \in Seq(Seq(ShardBytes))
         /\ Len(Tensors(id)) = NumTensors
         /\ \A t \in 1..NumTensors :
              /\ TensorLength[t] \in Nat
              /\ Tensor(id, t) \in Seq(ShardBytes) /\ Len(Tensor(id, t)) = TensorLength[t]
         /\ ShardJoins(JoinedOf(id), id)
         /\ Shard(id) \in Seq(ShardBytes)
         /\ ManifestOf(id) \in Manifests
<1>1. NumTensors \in Nat /\ \A t \in 1..NumTensors : TensorLength[t] \in Nat
  BY SourcesAssumption, LenProperties, ElementOfSeq DEF NumTensors
<1>2. ASSUME NEW t \in 1..NumTensors
      PROVE  Tensor(id, t) \in Seq(ShardBytes) /\ Len(Tensor(id, t)) = TensorLength[t]
  <2>1. Tensor(id, t) \in [1..TensorLength[t] -> ShardBytes]
    BY <1>1 DEF Tensor, ShardBytes
  <2> QED
    BY <1>1, <2>1
<1>3. Tensors(id) \in Seq(Seq(ShardBytes)) /\ Len(Tensors(id)) = NumTensors
  <2>1. Tensors(id) \in [1..NumTensors -> Seq(ShardBytes)]
    BY <1>2 DEF Tensors
  <2> QED
    BY <1>1, <2>1
<1>4. ShardJoins(JoinedOf(id), id)
  <2>1. \E joined \in [0..Len(Tensors(id)) -> Seq(ShardBytes)] : Joins(joined, Tensors(id))
    BY <1>3, FlattenJoins
  <2>2. \E joined : ShardJoins(joined, id)
    BY <1>3, <2>1 DEF ShardJoins
  <2> QED
    BY <2>2 DEF JoinedOf
<1>5. Shard(id) \in Seq(ShardBytes)
  BY <1>1, <1>3, <1>4 DEF ShardJoins, Joins, Shard
<1> QED
  BY <1>1, <1>2, <1>3, <1>4, <1>5 DEF ManifestOf, Manifests

\* The tensors joined so far, and the next: the whole shard at the last.
LEMMA JoinedFacts ==
  ASSUME NEW id \in Identities
  PROVE  /\ JoinedOf(id)[0] = <<>> /\ JoinedOf(id)[NumTensors] = Shard(id)
         /\ \A t \in 0..NumTensors : JoinedOf(id)[t] \in Seq(ShardBytes)
         /\ \A t \in 1..NumTensors : JoinedOf(id)[t] = JoinedOf(id)[t - 1] \o Tensor(id, t)
<1>1. ShardJoins(JoinedOf(id), id) /\ Len(Tensors(id)) = NumTensors
  BY ShardFacts
<1>2. \A t \in 1..NumTensors : Tensors(id)[t] = Tensor(id, t)
  BY DEF Tensors
<1> QED
  BY <1>1, <1>2 DEF ShardJoins, Joins, Shard

\* Where a tensor begins there is nothing of it yet.
LEMMA NothingOf ==
  \A id \in Identities : \A t \in 1..(NumTensors + 1) :
    JoinedOf(id)[t - 1] \o SubSeq(Tensor(id, t), 1, 0) = JoinedOf(id)[t - 1]
<1> TAKE id \in Identities
<1> TAKE t \in 1..(NumTensors + 1)
<1>1. t - 1 \in 0..NumTensors
  BY ShardFacts
<1>2. SubSeq(Tensor(id, t), 1, 0) = <<>>
  BY SubSeqEmpty
<1> QED
  BY <1>1, <1>2, JoinedFacts, ConcatEmptySeq

-----------------------------------------------------------------------------
(* The steps of a writer.                                                   *)

\* A writer that is not writing.
LEMMA NotWritingIsCall == NotWriting \in WriterCalls /\ NotWriting.pc = "idle"
<1>1. <<>> \in Seq(ShardBytes) /\ <<>> \in Seq(Seq(ShardBytes))
  BY EmptySeq
<1> QED
  BY <1>1 DEF NotWriting, WriterCalls

LEMMA BoundedInitKeeps == ASSUME BoundedInit PROVE BoundedInv
<1>1. NotWriting \in WriterCalls
  BY NotWritingIsCall
<1>2. writer \in [Writers -> WriterCalls] /\ \A w \in Writers : writer[w] = NotWriting
  BY <1>1 DEF BoundedInit
<1>3. \A w \in Writers : WriterOk(writer[w])
  <2>1. NotWriting.pc = "idle"
    BY NotWritingIsCall
  <2> QED
    BY <1>2, <2>1 DEF WriterOk
<1>4. inode \in Seq(Seq(Manifests)) /\ Len(inode) = 0
  BY EmptySeq DEF BoundedInit
<1> QED
  BY <1>2, <1>3, <1>4 DEF BoundedInit, BoundedInv, ManifestIsConsistent

\* There is one writer: what holds of the call it is left with holds of all.
LEMMA OnlyWriter ==
  ASSUME BoundedInv, NEW w \in Writers, NEW c \in WriterCalls,
         writer' = [writer EXCEPT ![w] = c], WriterOk(c)'
  PROVE  writer' \in [Writers -> WriterCalls] /\ \A v \in Writers : WriterOk(writer[v])'
<1>1. writer' \in [Writers -> WriterCalls] /\ writer'[w] = c
  BY DEF BoundedInv
<1>2. \A v \in Writers : v = w
  BY SourcesAssumption
<1> QED
  BY <1>1, <1>2 DEF WriterOk, ShardSoFar, ShardDone

LEMMA BeginSourceKeeps ==
  ASSUME BoundedInv, NEW w \in Writers, BeginSource(w)
  PROVE  BoundedInv'
<1>1. PICK id \in Identities, chunk \in ChunkSizes :
        writer' = [writer EXCEPT ![w] = [NotWriting EXCEPT !.pc = "tensors", !.id = id,
                                                          !.chunk = chunk, !.tensor = 1]]
  BY DEF BeginSource
<1> DEFINE c == [NotWriting EXCEPT !.pc = "tensors", !.id = id, !.chunk = chunk, !.tensor = 1]
<1>2. UNCHANGED <<shards, inode, partialManifest, manifest>>
  BY DEF BeginSource
<1>3. /\ c \in WriterCalls /\ c.pc = "tensors" /\ c.id = id /\ c.chunk = chunk /\ c.tensor = 1
      /\ c.offset = 0 /\ c.bytes = <<>> /\ c.digests = <<>>
  BY SourcesAssumption, EmptySeq DEF NotWriting, WriterCalls
<1>4. writer' = [writer EXCEPT ![w] = c]
  BY <1>1
<1> HIDE DEF c
<1>5. ShardSoFar(c)
  <2>1. NumTensors \in Nat /\ 1 \in 1..(NumTensors + 1)
    BY ShardFacts
  <2>2. JoinedOf(id)[1 - 1] \o SubSeq(Tensor(id, 1), 1, 0) = JoinedOf(id)[1 - 1]
    BY <2>1, NothingOf, Zenon
  <2>3. JoinedOf(id)[1 - 1] = <<>>
    BY JoinedFacts
  <2>4. 0 <= IF c.tensor <= NumTensors THEN TensorLength[c.tensor] ELSE 0
    BY <1>3, <2>1, ShardFacts
  <2>5. [t \in 1..(1 - 1) |-> Tensor(id, t)] = <<>>
    OBVIOUS
  <2> QED
    BY <1>3, <2>1, <2>2, <2>3, <2>4, <2>5 DEF ShardSoFar
<1>6. WriterOk(c)'
  BY <1>3, <1>5 DEF WriterOk, ShardSoFar
<1>7. writer' \in [Writers -> WriterCalls] /\ \A v \in Writers : WriterOk(writer[v])'
  BY <1>3, <1>4, <1>6, OnlyWriter
<1> QED
  BY <1>2, <1>7 DEF BoundedInv, ManifestIsConsistent

\* The chunk of a call and what is written with it.
LEMMA ChunkFollows ==
  ASSUME NEW c \in WriterCalls, ShardSoFar(c), c.tensor <= NumTensors
  PROVE  /\ c.id \in Identities /\ NumTensors \in Nat /\ c.tensor \in 1..NumTensors
         /\ TensorLength[c.tensor] \in Nat
         /\ Tensor(c.id, c.tensor) \in Seq(ShardBytes)
         /\ Len(Tensor(c.id, c.tensor)) = TensorLength[c.tensor]
         /\ JoinedOf(c.id)[c.tensor - 1] \in Seq(ShardBytes)
         /\ c.offset + Len(Chunk(c)) \in 0..TensorLength[c.tensor]
         /\ c.bytes \o Chunk(c) \in Seq(ShardBytes)
         /\ c.bytes \o Chunk(c) = JoinedOf(c.id)[c.tensor - 1]
                                    \o SubSeq(Tensor(c.id, c.tensor), 1, c.offset + Len(Chunk(c)))
<1>1. PICK id, t, tensor, before :
        id = c.id /\ t = c.tensor /\ tensor = Tensor(id, t) /\ before = JoinedOf(id)[t - 1]
  OBVIOUS
<1>2. /\ id \in Identities /\ NumTensors \in Nat /\ t \in Nat /\ t \in 1..(NumTensors + 1)
      /\ c.offset \in Nat /\ c.chunk \in Nat /\ t <= NumTensors /\ c.offset <= TensorLength[t]
      /\ c.bytes = before \o SubSeq(tensor, 1, c.offset) /\ c.bytes \in Seq(ShardBytes)
  BY <1>1, ShardFacts DEF ShardSoFar, WriterCalls
<1>3. t \in 1..NumTensors /\ t - 1 \in 0..NumTensors
  BY <1>2
<1>4. /\ TensorLength[t] \in Nat /\ tensor \in Seq(ShardBytes) /\ Len(tensor) = TensorLength[t]
      /\ before \in Seq(ShardBytes)
  BY <1>1, <1>2, <1>3, ShardFacts, JoinedFacts
<1>5. PICK count \in Nat : /\ c.offset + count \in c.offset..TensorLength[t]
                           /\ Chunk(c) = SubSeq(tensor, c.offset + 1, c.offset + count)
  <2> DEFINE left == TensorLength[t] - c.offset
             n == IF c.chunk < left THEN c.chunk ELSE left
  <2>1. n \in Nat /\ c.offset + n \in c.offset..TensorLength[t]
    <3>1. left \in Nat /\ c.offset + left = TensorLength[t]
      BY <1>2, <1>4
    <3> HIDE DEF left
    <3> QED
      BY <1>2, <1>4, <3>1
  <2>2. Chunk(c) = SubSeq(tensor, c.offset + 1, c.offset + n)
    BY <1>1 DEF Chunk
  <2> HIDE DEF n
  <2> QED
    BY <2>1, <2>2
<1>6. PICK from, to : from = c.offset /\ to = c.offset + count
  OBVIOUS
<1>7. from \in 0..Len(tensor) /\ to \in from..Len(tensor) /\ to - from = count
      /\ Chunk(c) = SubSeq(tensor, from + 1, to) /\ c.bytes = before \o SubSeq(tensor, 1, from)
  BY <1>2, <1>4, <1>5, <1>6
<1>8. Len(SubSeq(tensor, from + 1, to)) = to - from /\ SubSeq(tensor, from + 1, to) \in Seq(ShardBytes)
  BY <1>4, <1>7, RestOfPrefix
<1>9. (before \o SubSeq(tensor, 1, from)) \o SubSeq(tensor, from + 1, to) = before \o SubSeq(tensor, 1, to)
  BY <1>4, <1>7, PrefixGrows, Zenon
<1>10. Len(Chunk(c)) = count /\ Chunk(c) \in Seq(ShardBytes)
  BY <1>7, <1>8
<1>11. c.offset + Len(Chunk(c)) = to /\ to \in 0..TensorLength[t]
  <2>1. c.offset + Len(Chunk(c)) = to
    BY <1>6, <1>10, Zenon
  <2>2. to \in 0..TensorLength[t]
    BY <1>2, <1>4, <1>5, <1>6
  <2> QED
    BY <2>1, <2>2
<1>12. c.bytes \o Chunk(c) = before \o SubSeq(tensor, 1, to)
  BY <1>7, <1>9, Zenon
<1>13. c.bytes \o Chunk(c) \in Seq(ShardBytes)
  BY <1>2, <1>10, ConcatProperties
<1> QED
  BY <1>1, <1>2, <1>3, <1>4, <1>11, <1>12, <1>13, Zenon

LEMMA WriteChunkKeeps ==
  ASSUME BoundedInv, NEW w \in Writers, WriteChunk(w)
  PROVE  BoundedInv'
<1>1. PICK c, id, t, tensor, offset, bytes :
        /\ c = writer[w] /\ id = c.id /\ t = c.tensor /\ tensor = Tensor(id, t)
        /\ offset = c.offset + Len(Chunk(c)) /\ bytes = c.bytes \o Chunk(c)
  OBVIOUS
<1>2. PICK d :
        d = IF offset < TensorLength[t]
            THEN [c EXCEPT !.bytes = bytes, !.offset = offset]
            ELSE [c EXCEPT !.bytes = bytes, !.offset = 0, !.tensor = @ + 1,
                    !.digests = Append(@, SubSeq(bytes, Len(bytes) - offset + 1, Len(bytes)))]
  OBVIOUS
<1>3. /\ c \in WriterCalls /\ c.pc = "tensors" /\ t <= NumTensors /\ ShardSoFar(c)
      /\ UNCHANGED <<shards, inode, partialManifest, manifest>>
      /\ writer' = [writer EXCEPT ![w] = d]
  BY <1>1, <1>2 DEF WriteChunk, BoundedInv, WriterOk
<1>4. /\ id \in Identities /\ NumTensors \in Nat /\ t \in 1..NumTensors
      /\ TensorLength[t] \in Nat /\ tensor \in Seq(ShardBytes) /\ Len(tensor) = TensorLength[t]
      /\ JoinedOf(id)[t - 1] \in Seq(ShardBytes)
      /\ offset \in 0..TensorLength[t]
      /\ bytes \in Seq(ShardBytes) /\ bytes = JoinedOf(id)[t - 1] \o SubSeq(tensor, 1, offset)
  <2>1. c \in WriterCalls /\ ShardSoFar(c) /\ c.tensor <= NumTensors
    BY <1>1, <1>3, Zenon
  <2>2. /\ c.id \in Identities /\ NumTensors \in Nat /\ c.tensor \in 1..NumTensors
        /\ TensorLength[c.tensor] \in Nat
        /\ Tensor(c.id, c.tensor) \in Seq(ShardBytes)
        /\ Len(Tensor(c.id, c.tensor)) = TensorLength[c.tensor]
        /\ JoinedOf(c.id)[c.tensor - 1] \in Seq(ShardBytes)
        /\ c.offset + Len(Chunk(c)) \in 0..TensorLength[c.tensor]
        /\ c.bytes \o Chunk(c) \in Seq(ShardBytes)
        /\ c.bytes \o Chunk(c) = JoinedOf(c.id)[c.tensor - 1]
                                   \o SubSeq(Tensor(c.id, c.tensor), 1, c.offset + Len(Chunk(c)))
    BY <2>1, ChunkFollows, Zenon
  <2> QED
    BY <1>1, <2>2, Zenon
<1>5. t + 1 \in 1..(NumTensors + 1) /\ t \in 1..(NumTensors + 1) /\ t \in Nat /\ t + 1 \in Nat
  BY <1>4
<1>6. /\ c.digests \in Seq(Seq(ShardBytes)) /\ c.digests = [i \in 1..(t - 1) |-> Tensor(id, i)]
      /\ c.chunk \in ChunkSizes
  BY <1>1, <1>3 DEF ShardSoFar, WriterCalls
<1>7. CASE offset < TensorLength[t]
  <2>1. d = [c EXCEPT !.bytes = bytes, !.offset = offset]
    BY <1>2, <1>7
  <2>2. /\ d \in WriterCalls /\ d.pc = "tensors" /\ d.id = id /\ d.chunk = c.chunk /\ d.tensor = t
        /\ d.offset = offset /\ d.bytes = bytes /\ d.digests = c.digests
    <3>1. offset \in Nat /\ bytes \in Seq(ShardBytes)
      BY <1>4
    <3>2. c \in WriterCalls /\ c.pc = "tensors" /\ c.id = id /\ c.tensor = t
      BY <1>1, <1>3
    <3> QED
      BY <2>1, <3>1, <3>2 DEF WriterCalls
  <2>3. ShardSoFar(d)
    <3>1. offset <= IF t <= NumTensors THEN TensorLength[t] ELSE 0
      BY <1>4
    <3>2. bytes = JoinedOf(id)[t - 1] \o SubSeq(Tensor(id, t), 1, offset)
      BY <1>1, <1>4, Zenon
    <3> QED
      BY <1>4, <1>5, <1>6, <2>2, <3>1, <3>2, Zenon DEF ShardSoFar
  <2>4. WriterOk(d)'
    BY <2>2, <2>3 DEF WriterOk, ShardSoFar
  <2>5. writer' \in [Writers -> WriterCalls] /\ \A v \in Writers : WriterOk(writer[v])'
    BY <1>3, <2>2, <2>4, OnlyWriter
  <2> QED
    BY <1>3, <2>5 DEF BoundedInv, ManifestIsConsistent
<1>8. CASE ~(offset < TensorLength[t])
  <2>1. PICK last, digests :
          /\ last = SubSeq(bytes, Len(bytes) - offset + 1, Len(bytes))
          /\ digests = Append(c.digests, last)
    OBVIOUS
  <2>2. d = [c EXCEPT !.bytes = bytes, !.offset = 0, !.tensor = t + 1, !.digests = digests]
    BY <1>1, <1>2, <1>8, <2>1
  <2>3. offset = Len(tensor)
    BY <1>4, <1>8
  <2>4. bytes = JoinedOf(id)[t - 1] \o tensor
    BY <1>4, <2>3, SubSeqFull
  <2>5. last = tensor
    BY <1>4, <2>1, <2>3, <2>4, EndOfConcat
  <2>6. Len(c.digests) = t - 1 /\ \A i \in 1..(t - 1) : c.digests[i] = Tensor(id, i)
    <3>1. DOMAIN c.digests = 1..(t - 1)
      BY <1>6
    <3> QED
      BY <1>4, <1>6, <3>1, LenProperties
  <2>7. /\ digests \in Seq(Seq(ShardBytes)) /\ Len(digests) = Len(c.digests) + 1
        /\ \A i \in 1..Len(c.digests) : digests[i] = c.digests[i]
        /\ digests[Len(c.digests) + 1] = tensor
    <3>1. tensor \in Seq(ShardBytes) /\ c.digests \in Seq(Seq(ShardBytes))
          /\ digests = Append(c.digests, tensor)
      BY <1>4, <1>6, <2>1, <2>5
    <3> QED
      BY <3>1, AppendProperties
  <2>8. PICK u : u = t + 1
    OBVIOUS
  <2>9. u \in 1..(NumTensors + 1) /\ u \in Nat /\ u - 1 = t
    BY <1>4, <2>8
  <2>10. digests = [i \in 1..(u - 1) |-> Tensor(id, i)]
    <3>1. DOMAIN digests = 1..t /\ digests = [i \in DOMAIN digests |-> digests[i]]
      BY <1>5, <2>6, <2>7, LenProperties
    <3>2. \A i \in 1..t : digests[i] = Tensor(id, i)
      <4> TAKE i \in 1..t
      <4>1. CASE i = t
        <5>1. Len(c.digests) + 1 = i
          BY <1>5, <2>6, <4>1
        <5> QED
          BY <1>1, <2>7, <4>1, <5>1, Zenon
      <4>2. CASE i # t
        <5>1. i \in 1..(t - 1)
          BY <1>5, <4>2
        <5> QED
          BY <2>6, <2>7, <5>1
      <4> QED
        BY <4>1, <4>2
    <3> QED
      BY <2>9, <3>1, <3>2
  <2>11. /\ d \in WriterCalls /\ d.pc = "tensors" /\ d.id = id /\ d.chunk = c.chunk
         /\ d.tensor = u /\ d.offset = 0 /\ d.bytes = bytes /\ d.digests = digests
    BY <1>1, <1>3, <1>4, <1>5, <2>2, <2>7, <2>8, <2>9 DEF WriterCalls
  <2>12. bytes = JoinedOf(id)[u - 1] \o SubSeq(Tensor(id, u), 1, 0)
    <3>1. JoinedOf(id)[u - 1] \o SubSeq(Tensor(id, u), 1, 0) = JoinedOf(id)[u - 1]
      BY <1>4, <2>9, NothingOf, Zenon
    <3>2. JoinedOf(id)[t] = JoinedOf(id)[t - 1] \o Tensor(id, t)
      BY <1>4, JoinedFacts
    <3>3. bytes = JoinedOf(id)[u - 1]
      BY <1>1, <2>4, <2>9, <3>2
    <3> QED
      BY <3>1, <3>3, Zenon
  <2>13. ShardSoFar(d)
    <3>1. 0 <= IF u <= NumTensors THEN TensorLength[u] ELSE 0
      <4>1. u <= NumTensors => u \in 1..NumTensors
        BY <1>4, <2>9
      <4> QED
        BY <1>4, <4>1, ShardFacts
    <3> QED
      BY <1>4, <1>6, <2>9, <2>10, <2>11, <2>12, <3>1, Zenon DEF ShardSoFar
  <2>14. WriterOk(d)'
    BY <2>11, <2>13 DEF WriterOk, ShardSoFar
  <2>15. writer' \in [Writers -> WriterCalls] /\ \A v \in Writers : WriterOk(writer[v])'
    BY <1>3, <2>11, <2>14, OnlyWriter
  <2> QED
    BY <1>3, <2>15 DEF BoundedInv, ManifestIsConsistent
<1> QED
  BY <1>7, <1>8

\* A writer that stops, whatever it leaves.
LEMMA WriterStops ==
  ASSUME BoundedInv, NEW w \in Writers, writer' = [writer EXCEPT ![w] = NotWriting]
  PROVE  writer' \in [Writers -> WriterCalls] /\ \A v \in Writers : WriterOk(writer[v])'
<1>1. NotWriting \in WriterCalls /\ NotWriting.pc = "idle"
  BY NotWritingIsCall
<1>2. WriterOk(NotWriting)'
  BY <1>1 DEF WriterOk
<1> QED
  BY <1>1, <1>2, OnlyWriter

LEMMA KillWriterKeeps ==
  ASSUME BoundedInv, NEW w \in Writers, KillWriter(w)
  PROVE  BoundedInv'
<1>1. writer' = [writer EXCEPT ![w] = NotWriting]
      /\ UNCHANGED <<shards, inode, partialManifest, manifest>>
  BY DEF KillWriter
<1> QED
  BY <1>1, WriterStops DEF BoundedInv, ManifestIsConsistent

LEMMA PublishShardKeeps ==
  ASSUME BoundedInv, NEW w \in Writers, PublishShard(w)
  PROVE  BoundedInv' /\ shards \subseteq shards'
<1>1. PICK c : c = writer[w]
  OBVIOUS
<1>2. /\ c \in WriterCalls /\ c.pc = "tensors" /\ c.tensor > NumTensors /\ ShardSoFar(c)
      /\ UNCHANGED <<inode, partialManifest, manifest>>
  BY <1>1 DEF PublishShard, BoundedInv, WriterOk
<1>3. CASE Len(c.bytes) # Len(Shard(c.id))
  <2>1. writer' = [writer EXCEPT ![w] = NotWriting] /\ shards' = shards
    BY <1>1, <1>3 DEF PublishShard
  <2> QED
    BY <1>2, <2>1, WriterStops DEF BoundedInv, ManifestIsConsistent
<1>4. CASE Len(c.bytes) = Len(Shard(c.id))
  <2>1. PICK d : d = [c EXCEPT !.pc = "open"]
    OBVIOUS
  <2>2. shards' = shards \cup {c.bytes} /\ writer' = [writer EXCEPT ![w] = d]
    BY <1>1, <1>4, <2>1 DEF PublishShard
  <2>3. /\ d \in WriterCalls /\ d.pc = "open" /\ d.id = c.id /\ d.bytes = c.bytes
        /\ d.digests = c.digests
    BY <1>2, <2>1 DEF WriterCalls
  <2>4. c.id \in Identities /\ NumTensors \in Nat /\ c.offset = 0 /\ c.tensor - 1 = NumTensors
        /\ c.tensor \in 1..(NumTensors + 1)
    <3>1. c.id \in Identities /\ c.tensor \in 1..(NumTensors + 1)
      BY <1>2 DEF ShardSoFar
    <3>2. NumTensors \in Nat
      BY <3>1, ShardFacts
    <3>3. c.offset \in Nat
      BY <1>2 DEF WriterCalls
    <3>4. c.offset <= IF c.tensor <= NumTensors THEN TensorLength[c.tensor] ELSE 0
      BY <1>2 DEF ShardSoFar
    <3> QED
      BY <1>2, <3>1, <3>2, <3>3, <3>4
  <2>5. c.bytes = Shard(c.id)
    <3>1. c.bytes = JoinedOf(c.id)[c.tensor - 1] \o SubSeq(Tensor(c.id, c.tensor), 1, 0)
      BY <1>2, <2>4, Zenon DEF ShardSoFar
    <3>2. c.bytes = JoinedOf(c.id)[c.tensor - 1]
      BY <2>4, <3>1, NothingOf, Zenon
    <3>3. JoinedOf(c.id)[NumTensors] = Shard(c.id)
      BY <2>4, JoinedFacts
    <3> QED
      BY <2>4, <3>2, <3>3, Zenon
  <2>6. c.digests = Tensors(c.id)
    BY <1>2, <2>4, Zenon DEF ShardSoFar, Tensors
  <2>7. WriterOk(d)'
    BY <2>2, <2>3, <2>4, <2>5, <2>6 DEF WriterOk, ShardDone
  <2>8. writer' \in [Writers -> WriterCalls] /\ \A v \in Writers : WriterOk(writer[v])'
    BY <2>2, <2>3, <2>7, OnlyWriter
  <2>9. ManifestIsConsistent'
    BY <1>2, <2>2 DEF ManifestIsConsistent, BoundedInv
  <2> QED
    BY <1>2, <2>2, <2>4, <2>5, <2>8, <2>9 DEF BoundedInv
<1> QED
  BY <1>3, <1>4

LEMMA OpenManifestKeeps ==
  ASSUME BoundedInv, NEW w \in Writers, OpenManifest(w)
  PROVE  BoundedInv'
<1>1. PICK c : c = writer[w]
  OBVIOUS
<1>2. /\ c \in WriterCalls /\ c.pc = "open" /\ ShardDone(c)
      /\ UNCHANGED <<shards, manifest>>
      /\ inode \in Seq(Seq(Manifests)) /\ Len(inode) \in Nat
      /\ partialManifest \in 0..Len(inode) /\ manifest \in 0..Len(inode)
      /\ partialManifest # 0 => partialManifest # manifest
  BY <1>1, LenProperties DEF OpenManifest, BoundedInv, WriterOk
<1>3. PICK d : d = [c EXCEPT !.pc = "write", !.file = partialManifest']
  OBVIOUS
<1>4. writer' = [writer EXCEPT ![w] = d]
  BY <1>1, <1>3 DEF OpenManifest
<1>5. /\ partialManifest' \in 1..Len(inode') /\ partialManifest' # manifest /\ partialManifest' \in Nat
      /\ inode' \in Seq(Seq(Manifests)) /\ manifest \in 0..Len(inode')
      /\ manifest # 0 => inode'[manifest] = inode[manifest]
  <2>1. <<>> \in Seq(Manifests)
    BY EmptySeq
  <2>2. CASE partialManifest = 0
    <3>1. inode' = Append(inode, <<>>) /\ partialManifest' = Len(inode) + 1
      BY <2>2 DEF OpenManifest
    <3>2. /\ inode' \in Seq(Seq(Manifests)) /\ Len(inode') = Len(inode) + 1
          /\ \A i \in 1..Len(inode) : inode'[i] = inode[i]
      BY <1>2, <2>1, <3>1, AppendProperties
    <3> QED
      BY <1>2, <3>1, <3>2
  <2>3. CASE partialManifest # 0
    <3>1. inode' = [inode EXCEPT ![partialManifest] = <<>>] /\ partialManifest' = partialManifest
      BY <2>3 DEF OpenManifest
    <3>2. partialManifest \in 1..Len(inode)
      BY <1>2, <2>3
    <3>3. /\ inode' \in Seq(Seq(Manifests)) /\ Len(inode') = Len(inode)
          /\ \A i \in 1..Len(inode) : inode'[i] = IF i = partialManifest THEN <<>> ELSE inode[i]
      BY <1>2, <2>1, <3>1, <3>2, ExceptSeq
    <3> QED
      BY <1>2, <2>3, <3>1, <3>2, <3>3
  <2> QED
    BY <2>2, <2>3
<1>6. /\ d \in WriterCalls /\ d.pc = "write" /\ d.id = c.id /\ d.bytes = c.bytes
      /\ d.digests = c.digests /\ d.file = partialManifest'
  BY <1>2, <1>3, <1>5 DEF WriterCalls
<1>7. WriterOk(d)'
  BY <1>2, <1>5, <1>6 DEF WriterOk, ShardDone
<1>8. writer' \in [Writers -> WriterCalls] /\ \A v \in Writers : WriterOk(writer[v])'
  BY <1>4, <1>6, <1>7, OnlyWriter
<1>9. ManifestIsConsistent'
  BY <1>2, <1>5 DEF ManifestIsConsistent, BoundedInv
<1>10. partialManifest' \in 0..Len(inode')
  BY <1>5
<1> QED
  BY <1>2, <1>5, <1>8, <1>9, <1>10 DEF BoundedInv

LEMMA WriteManifestKeeps ==
  ASSUME BoundedInv, NEW w \in Writers, WriteManifest(w)
  PROVE  BoundedInv'
<1>1. PICK c : c = writer[w]
  OBVIOUS
<1>2. /\ c \in WriterCalls /\ c.pc = "write" /\ ShardDone(c) /\ c.file = partialManifest
      /\ UNCHANGED <<shards, manifest, partialManifest>>
      /\ inode \in Seq(Seq(Manifests)) /\ Len(inode) \in Nat
      /\ partialManifest \in 1..Len(inode) /\ manifest \in 0..Len(inode)
      /\ partialManifest # 0 /\ partialManifest # manifest
  BY <1>1, LenProperties DEF WriteManifest, BoundedInv, WriterOk
<1>3. PICK d : d = [c EXCEPT !.pc = "replace"]
  OBVIOUS
<1>4. writer' = [writer EXCEPT ![w] = d]
  BY <1>1, <1>3 DEF WriteManifest
<1>5. c.id \in Identities /\ ManifestOf(c.id) \in Manifests
  BY <1>2, ShardFacts DEF ShardDone
<1>6. inode' = [inode EXCEPT ![partialManifest] = <<ManifestOf(c.id)>>]
  BY <1>1, <1>2 DEF WriteManifest, ShardDone, ManifestOf
<1>7. <<ManifestOf(c.id)>> \in Seq(Manifests)
  BY <1>5
<1>8. /\ inode' \in Seq(Seq(Manifests)) /\ Len(inode') = Len(inode)
      /\ \A i \in 1..Len(inode) :
           inode'[i] = IF i = partialManifest THEN <<ManifestOf(c.id)>> ELSE inode[i]
  BY <1>2, <1>6, <1>7, ExceptSeq
<1>9. /\ d \in WriterCalls /\ d.pc = "replace" /\ d.id = c.id /\ d.bytes = c.bytes
      /\ d.digests = c.digests /\ d.file = partialManifest
  BY <1>2, <1>3 DEF WriterCalls
<1>10. inode'[partialManifest] = <<ManifestOf(d.id)>>
  BY <1>2, <1>8, <1>9
<1>11. WriterOk(d)'
  BY <1>2, <1>9, <1>10 DEF WriterOk, ShardDone
<1>12. writer' \in [Writers -> WriterCalls] /\ \A v \in Writers : WriterOk(writer[v])'
  BY <1>4, <1>9, <1>11, OnlyWriter
<1>13. ManifestIsConsistent'
  <2>1. manifest # 0 => inode'[manifest] = inode[manifest]
    BY <1>2, <1>8
  <2> QED
    BY <1>2, <2>1 DEF ManifestIsConsistent, BoundedInv
<1> QED
  BY <1>2, <1>8, <1>12, <1>13 DEF BoundedInv

LEMMA ReplaceManifestKeeps ==
  ASSUME BoundedInv, NEW w \in Writers, ReplaceManifest(w)
  PROVE  BoundedInv' /\ (manifest # 0 => manifest' # 0)
<1>1. PICK c : c = writer[w]
  OBVIOUS
<1>2. /\ c \in WriterCalls /\ ShardDone(c) /\ partialManifest # 0
      /\ inode[partialManifest] = <<ManifestOf(c.id)>>
      /\ inode' = inode /\ shards' = shards
      /\ writer' = [writer EXCEPT ![w] = NotWriting]
  BY <1>1 DEF ReplaceManifest, BoundedInv, WriterOk
<1>3. manifest' = partialManifest /\ partialManifest' = 0
  BY <1>2 DEF ReplaceManifest
<1>4. ManifestIsConsistent'
  BY <1>2, <1>3 DEF ManifestIsConsistent, ShardDone, ManifestOf
<1>5. writer' \in [Writers -> WriterCalls] /\ \A v \in Writers : WriterOk(writer[v])'
  BY <1>2, WriterStops
<1>6. inode \in Seq(Seq(Manifests)) /\ Len(inode) \in Nat /\ partialManifest \in 0..Len(inode)
  BY LenProperties DEF BoundedInv
<1> QED
  BY <1>2, <1>3, <1>4, <1>5, <1>6 DEF BoundedInv

LEMMA BoundedNextKeeps ==
  ASSUME BoundedInv, [BoundedNext]_boundedVars
  PROVE  BoundedInv' /\ KeepsPublished
<1>1. CASE UNCHANGED boundedVars
  BY <1>1 DEF boundedVars, BoundedInv, ManifestIsConsistent, WriterOk, ShardSoFar, ShardDone,
              KeepsPublished
<1>2. ASSUME NEW w \in Writers, BeginSource(w) PROVE BoundedInv' /\ KeepsPublished
  BY <1>2, BeginSourceKeeps DEF BeginSource, KeepsPublished
<1>3. ASSUME NEW w \in Writers, WriteChunk(w) PROVE BoundedInv' /\ KeepsPublished
  BY <1>3, WriteChunkKeeps DEF WriteChunk, KeepsPublished
<1>4. ASSUME NEW w \in Writers, PublishShard(w) PROVE BoundedInv' /\ KeepsPublished
  BY <1>4, PublishShardKeeps DEF PublishShard, KeepsPublished
<1>5. ASSUME NEW w \in Writers, OpenManifest(w) PROVE BoundedInv' /\ KeepsPublished
  BY <1>5, OpenManifestKeeps DEF OpenManifest, KeepsPublished
<1>6. ASSUME NEW w \in Writers, WriteManifest(w) PROVE BoundedInv' /\ KeepsPublished
  BY <1>6, WriteManifestKeeps DEF WriteManifest, KeepsPublished
<1>7. ASSUME NEW w \in Writers, ReplaceManifest(w) PROVE BoundedInv' /\ KeepsPublished
  BY <1>7, ReplaceManifestKeeps DEF ReplaceManifest, KeepsPublished
<1>8. ASSUME NEW w \in Writers, KillWriter(w) PROVE BoundedInv' /\ KeepsPublished
  BY <1>8, KillWriterKeeps DEF KillWriter, KeepsPublished
<1>9. CASE BoundedNext
  BY <1>2, <1>3, <1>4, <1>5, <1>6, <1>7, <1>8, <1>9 DEF BoundedNext
<1> QED
  BY <1>1, <1>9

-----------------------------------------------------------------------------
(* What the invariant of the bounded source says.                           *)

LEMMA BoundedInvSays ==
  ASSUME BoundedInv
  PROVE  /\ ManifestIsConsistent /\ ShardIsDetermined
         /\ \A name \in {partialManifest, manifest} : name = 0 \/ name \in DOMAIN inode
         /\ \A w \in Writers :
              /\ writer[w].pc \in {"idle", "tensors", "open", "write", "replace"}
              /\ writer[w].offset >= 0 /\ Len(writer[w].digests) <= NumTensors
<1>1. ManifestIsConsistent /\ ShardIsDetermined
  BY DEF BoundedInv, ShardIsDetermined
<1>2. \A name \in {partialManifest, manifest} : name = 0 \/ name \in DOMAIN inode
  <2>1. DOMAIN inode = 1..Len(inode) /\ Len(inode) \in Nat
    BY LenProperties DEF BoundedInv
  <2> QED
    BY <2>1 DEF BoundedInv
<1>3. ASSUME NEW w \in Writers
      PROVE  /\ writer[w].pc \in {"idle", "tensors", "open", "write", "replace"}
             /\ writer[w].offset >= 0 /\ Len(writer[w].digests) <= NumTensors
  <2>1. PICK c : c = writer[w]
    OBVIOUS
  <2>2. c \in WriterCalls /\ WriterOk(c)
    BY <2>1 DEF BoundedInv
  <2>3. c.pc \in {"idle", "tensors", "open", "write", "replace"} /\ c.offset >= 0
    <3>1. c.pc \in {"idle", "tensors", "open", "write", "replace"} /\ c.offset \in Nat
      BY <2>2, Zenon DEF WriterCalls
    <3> QED
      BY <3>1
  <2>4. Len(c.digests) <= NumTensors
    <3>1. NumTensors \in Nat
      BY SourcesAssumption, LenProperties DEF NumTensors
    <3>2. CASE c.pc = "idle"
      <4>1. c.digests = <<>>
        <5>1. c = NotWriting
          BY <2>2, <3>2 DEF WriterOk
        <5>2. NotWriting.digests = <<>>
          BY DEF NotWriting
        <5> QED
          BY <5>1, <5>2
      <4> QED
        BY <3>1, <4>1, EmptySeq
    <3>3. CASE c.pc = "tensors"
      <4>1. c.tensor \in 1..(NumTensors + 1) /\ c.digests = [t \in 1..(c.tensor - 1) |-> Tensor(c.id, t)]
            /\ c.digests \in Seq(Seq(ShardBytes))
        BY <2>2, <3>3 DEF WriterOk, ShardSoFar, WriterCalls
      <4>2. DOMAIN c.digests = 1..Len(c.digests) /\ Len(c.digests) \in Nat
        BY <4>1, LenProperties
      <4>3. DOMAIN c.digests = 1..(c.tensor - 1)
        BY <4>1
      <4> QED
        BY <3>1, <4>1, <4>2, <4>3
    <3>4. CASE c.pc \notin {"idle", "tensors"}
      <4>1. c.id \in Identities /\ c.digests = Tensors(c.id)
        BY <2>2, <2>3, <3>4 DEF WriterOk, ShardDone
      <4>2. Len(c.digests) = NumTensors
        BY <4>1, ShardFacts
      <4> QED
        BY <3>1, <4>2
    <3> QED
      BY <3>2, <3>3, <3>4
  <2> QED
    BY <2>1, <2>3, <2>4
<1> QED
  BY <1>1, <1>2, <1>3

-----------------------------------------------------------------------------
(* The synthetic source: its inductive invariant.                           *)

FourFiles == {"shard-1", "shard-2", "source-manifest", "golden"}

\* What a generation from seed s writes before the digests.
Work(s, f) ==
  CASE f = "shard-1" -> [n \in ShardNames(1) |-> Weights(s)[n]]
    [] f = "shard-2" -> [n \in ShardNames(2) |-> Weights(s)[n]]
    [] f = "source-manifest" ->
         [seed |-> s, shardOf |-> [n \in ToSet(Draws) |->
            IF n \in ShardNames(1) THEN "shard-1" ELSE "shard-2"]]
    [] f = "golden" -> [model |-> Weights(s)]
WorkOf(s) == [g \in FourFiles |-> Written(Work(s, g))]

SyntheticInv ==
  /\ DOMAIN files = FourFiles \cup {"manifest.sha256"}
  /\ seed \in Seeds /\ next \in 0..5 /\ (open => next # 0)
  /\ \A f \in FourFiles : IsWhole(f) => \E s \in Seeds : files[f] = WorkOf(s)[f]
  /\ \A i \in 1..4 : i < next => files[SyntheticFiles[i]] = WorkOf(seed)[SyntheticFiles[i]]
  /\ IsWhole("manifest.sha256") => \E s \in Seeds : files["manifest.sha256"] = Written(WorkOf(s))

LEMMA SyntheticFilesAre ==
  /\ Len(SyntheticFiles) = 5 /\ ToSet(SyntheticFiles) = FourFiles \cup {"manifest.sha256"}
  /\ SyntheticFiles[5] = "manifest.sha256"
  /\ \A i \in 1..4 : SyntheticFiles[i] \in FourFiles
  /\ \A i, j \in 1..5 : SyntheticFiles[i] = SyntheticFiles[j] => i = j
  /\ \A f \in FourFiles : \E i \in 1..4 : f = SyntheticFiles[i]
<1>1. /\ Len(SyntheticFiles) = 5 /\ DOMAIN SyntheticFiles = 1..5
      /\ SyntheticFiles[1] = "shard-1" /\ SyntheticFiles[2] = "shard-2"
      /\ SyntheticFiles[3] = "source-manifest" /\ SyntheticFiles[4] = "golden"
      /\ SyntheticFiles[5] = "manifest.sha256"
  BY DEF SyntheticFiles
<1>2. 1..4 = {1, 2, 3, 4} /\ 1..5 = {1, 2, 3, 4, 5}
  OBVIOUS
<1>3. \A i, j \in 1..5 : SyntheticFiles[i] = SyntheticFiles[j] => i = j
  BY <1>1, <1>2
<1>4. ToSet(SyntheticFiles) = FourFiles \cup {"manifest.sha256"}
  BY <1>1, <1>2 DEF ToSet, FourFiles
<1>5. \A i \in 1..4 : SyntheticFiles[i] \in FourFiles
  BY <1>1, <1>2 DEF FourFiles
<1>6. \A f \in FourFiles : \E i \in 1..4 : f = SyntheticFiles[i]
  BY <1>1, <1>2 DEF FourFiles
<1> QED
  BY <1>1, <1>3, <1>4, <1>5, <1>6

LEMMA StatesAre ==
  /\ Torn.state # "whole" /\ Absent.state # "whole"
  /\ \A content : /\ Written(content).state = "whole" /\ Written(content).content = content
                  /\ Written(content) # Absent
BY DEF Torn, Absent, Written

LEMMA FileContentIsWork ==
  \A s : \A f \in FourFiles : FileContent(s, f) = Work(s, f)
<1> TAKE s
<1> TAKE f \in FourFiles
<1>1. CASE f = "shard-1"
  BY <1>1 DEF FileContent, Work
<1>2. CASE f = "shard-2"
  BY <1>2 DEF FileContent, Work
<1>3. CASE f = "source-manifest"
  BY <1>3 DEF FileContent, Work
<1>4. CASE f = "golden"
  BY <1>4 DEF FileContent, Work
<1> QED
  BY <1>1, <1>2, <1>3, <1>4 DEF FourFiles

LEMMA SyntheticInitKeeps == ASSUME SyntheticInit PROVE SyntheticInv
<1>1. \A f \in FourFiles \cup {"manifest.sha256"} : ~IsWhole(f)
  BY SyntheticFilesAre, StatesAre DEF SyntheticInit, IsWhole
<1> QED
  BY <1>1, SyntheticFilesAre DEF SyntheticInit, SyntheticInv, FourFiles

LEMMA OpenFileKeeps == ASSUME SyntheticInv, OpenFile PROVE SyntheticInv'
<1>1. PICK f : f = SyntheticFiles[next]
  OBVIOUS
<1>2. next \in 1..5 /\ files' = [files EXCEPT ![f] = Torn] /\ UNCHANGED <<seed, next>>
  BY <1>1 DEF OpenFile, SyntheticInv
<1>3. /\ DOMAIN files' = DOMAIN files
      /\ \A g \in DOMAIN files : files'[g] = IF g = f THEN Torn ELSE files[g]
  BY <1>2
<1>4. DOMAIN files = FourFiles \cup {"manifest.sha256"}
  BY DEF SyntheticInv
<1>5. \A g \in DOMAIN files : IsWhole(g)' => IsWhole(g) /\ files'[g] = files[g]
  BY <1>3, StatesAre DEF IsWhole
<1>6. ASSUME NEW i \in 1..4, i < next PROVE files'[SyntheticFiles[i]] = WorkOf(seed)[SyntheticFiles[i]]
  <2>1. SyntheticFiles[i] \in FourFiles /\ SyntheticFiles[i] # f
    BY <1>1, <1>2, <1>6, SyntheticFilesAre
  <2> QED
    BY <1>3, <1>4, <1>6, <2>1 DEF SyntheticInv
<1>7. \A g \in FourFiles : IsWhole(g)' => \E s \in Seeds : files'[g] = WorkOf(s)[g]
  BY <1>4, <1>5 DEF SyntheticInv
<1>8. IsWhole("manifest.sha256")' => \E s \in Seeds : files'["manifest.sha256"] = Written(WorkOf(s))
  BY <1>4, <1>5 DEF SyntheticInv
<1>9. seed' \in Seeds /\ next' \in 0..5 /\ (open' => next' # 0)
  BY <1>2 DEF SyntheticInv
<1> QED
  BY <1>2, <1>3, <1>4, <1>6, <1>7, <1>8, <1>9 DEF SyntheticInv

LEMMA WriteFileKeeps == ASSUME SyntheticInv, WriteFile PROVE SyntheticInv'
<1>1. PICK f : f = SyntheticFiles[next]
  OBVIOUS
<1>2. PICK content : content = FileContent(seed, f)
  OBVIOUS
<1>3. /\ next \in 1..5 /\ files' = [files EXCEPT ![f] = Written(content)] /\ seed' = seed
      /\ next' = (next + 1) % 6 /\ open' = FALSE
  BY <1>1, <1>2, SyntheticFilesAre DEF WriteFile, SyntheticInv
<1>4. DOMAIN files = FourFiles \cup {"manifest.sha256"} /\ seed \in Seeds
  BY DEF SyntheticInv
<1>5. /\ DOMAIN files' = DOMAIN files
      /\ \A g \in DOMAIN files : files'[g] = IF g = f THEN Written(content) ELSE files[g]
  BY <1>3
<1>6. CASE next = 5
  <2>1. f = "manifest.sha256" /\ next' = 0
    BY <1>1, <1>3, <1>6, SyntheticFilesAre
  <2>2. \A g \in FourFiles : files[g] = WorkOf(seed)[g] /\ g # f
    <3> TAKE g \in FourFiles
    <3>1. PICK i \in 1..4 : g = SyntheticFiles[i]
      BY SyntheticFilesAre
    <3>2. i < next
      BY <1>6
    <3>3. g # "manifest.sha256"
      BY DEF FourFiles
    <3> QED
      BY <2>1, <3>1, <3>2, <3>3 DEF SyntheticInv
  <2>3. \A g \in FourFiles : files[g] # Absent
    BY <2>2, StatesAre DEF WorkOf
  <2>4. {g \in ToSet(SyntheticFiles) : g # f /\ files[g] # Absent} = FourFiles
    BY <2>1, <2>2, <2>3, SyntheticFilesAre
  <2>5. content = [g \in FourFiles |-> files[g]]
    BY <1>2, <2>1, <2>4 DEF FileContent
  <2>6. content = WorkOf(seed)
    <3>1. [g \in FourFiles |-> files[g]] = [g \in FourFiles |-> WorkOf(seed)[g]]
      BY <2>2
    <3>2. [g \in FourFiles |-> WorkOf(seed)[g]] = WorkOf(seed)
      BY DEF WorkOf
    <3> QED
      BY <2>5, <3>1, <3>2
  <2>7. files'["manifest.sha256"] = Written(WorkOf(seed))
    BY <1>4, <1>5, <2>1, <2>6
  <2>8. \A g \in FourFiles : files'[g] = files[g]
    BY <1>4, <1>5, <2>2
  <2>9. \A g \in FourFiles : IsWhole(g)' => \E s \in Seeds : files'[g] = WorkOf(s)[g]
    BY <2>8 DEF SyntheticInv, IsWhole
  <2>10. \A i \in 1..4 : ~(i < next')
    BY <2>1
  <2> QED
    BY <1>3, <1>4, <1>5, <2>1, <2>7, <2>9, <2>10 DEF SyntheticInv
<1>7. CASE next # 5
  <2>1. next \in 1..4 /\ next' = next + 1
    BY <1>3, <1>7
  <2>2. f \in FourFiles /\ f # "manifest.sha256"
    BY <1>1, <2>1, SyntheticFilesAre DEF FourFiles
  <2>3. files'[f] = WorkOf(seed)[f]
    BY <1>2, <1>4, <1>5, <2>2, FileContentIsWork DEF WorkOf
  <2>4. \A g \in FourFiles : IsWhole(g)' => \E s \in Seeds : files'[g] = WorkOf(s)[g]
    <3> TAKE g \in FourFiles
    <3>1. CASE g = f
      BY <1>4, <2>3, <3>1
    <3>2. CASE g # f
      BY <1>4, <1>5, <3>2 DEF SyntheticInv, IsWhole
    <3> QED
      BY <3>1, <3>2
  <2>5. ASSUME NEW i \in 1..4, i < next' PROVE files'[SyntheticFiles[i]] = WorkOf(seed)[SyntheticFiles[i]]
    <3>1. CASE i = next
      BY <1>1, <2>3, <3>1
    <3>2. CASE i # next
      <4>1. i < next /\ SyntheticFiles[i] \in FourFiles /\ SyntheticFiles[i] # f
        BY <1>1, <2>1, <2>5, <3>2, SyntheticFilesAre
      <4> QED
        BY <1>4, <1>5, <4>1 DEF SyntheticInv
    <3> QED
      BY <3>1, <3>2
  <2>6. files'["manifest.sha256"] = files["manifest.sha256"]
    BY <1>4, <1>5, <2>2
  <2>7. IsWhole("manifest.sha256")' => \E s \in Seeds : files'["manifest.sha256"] = Written(WorkOf(s))
    BY <2>6 DEF SyntheticInv, IsWhole
  <2>8. next' \in 0..5
    BY <2>1
  <2> QED
    BY <1>3, <1>4, <1>5, <2>4, <2>5, <2>7, <2>8 DEF SyntheticInv
<1> QED
  BY <1>6, <1>7

LEMMA SyntheticNextKeeps ==
  ASSUME SyntheticInv, [SyntheticNext]_syntheticVars
  PROVE  SyntheticInv'
<1>1. CASE UNCHANGED syntheticVars
  BY <1>1 DEF syntheticVars, SyntheticInv, IsWhole
<1>2. CASE Generate
  <2>1. files' = files /\ seed' \in Seeds /\ next' = 1 /\ ~open'
    BY <1>2 DEF Generate, SyntheticInv
  <2>2. \A i \in 1..4 : ~(i < next')
    BY <2>1
  <2>3. next' \in 0..5
    BY <2>1
  <2> QED
    BY <2>1, <2>2, <2>3 DEF SyntheticInv, IsWhole
<1>3. CASE KillGeneration
  <2>1. files' = files /\ seed' = seed /\ next' = 0 /\ ~open'
    BY <1>3 DEF KillGeneration
  <2>2. \A i \in 1..4 : ~(i < next')
    BY <2>1
  <2>3. next' \in 0..5
    BY <2>1
  <2> QED
    BY <2>1, <2>2, <2>3 DEF SyntheticInv, IsWhole
<1> QED
  BY <1>1, <1>2, <1>3, OpenFileKeeps, WriteFileKeeps DEF SyntheticNext

LEMMA DigestsVouchFollows == ASSUME SyntheticInv PROVE DigestsVouch
<1> DEFINE digests == files["manifest.sha256"].content
<1> SUFFICES ASSUME IsWhole("manifest.sha256"), \A f \in DOMAIN digests : files[f] = digests[f]
             PROVE  /\ \A f \in ToSet(SyntheticFiles) : IsWhole(f)
                    /\ LET s == files["source-manifest"].content.seed
                           both == <<files["shard-1"].content, files["shard-2"].content>>
                       IN  /\ \A i \in 1..2 : \A n \in DOMAIN both[i] : both[i][n] = Weights(s)[n]
                           /\ files["golden"].content.model = Weights(s)
  BY DEF DigestsVouch
<1>1. PICK s \in Seeds : files["manifest.sha256"] = Written(WorkOf(s))
  BY DEF SyntheticInv
<1>2. digests = WorkOf(s)
  BY <1>1, StatesAre
<1>3. DOMAIN digests = FourFiles
  BY <1>2 DEF WorkOf
<1>4. \A f \in FourFiles : files[f] = Written(Work(s, f))
  BY <1>2, <1>3 DEF WorkOf
<1>5. \A f \in FourFiles : IsWhole(f) /\ files[f].content = Work(s, f)
  BY <1>4, StatesAre DEF IsWhole
<1>6. \A f \in ToSet(SyntheticFiles) : IsWhole(f)
  BY <1>5, SyntheticFilesAre
<1>7. /\ files["source-manifest"].content.seed = s
      /\ files["shard-1"].content = [n \in ShardNames(1) |-> Weights(s)[n]]
      /\ files["shard-2"].content = [n \in ShardNames(2) |-> Weights(s)[n]]
      /\ files["golden"].content.model = Weights(s)
  <2>1. Work(s, "source-manifest").seed = s
    BY DEF Work
  <2>2. Work(s, "shard-1") = [n \in ShardNames(1) |-> Weights(s)[n]]
    BY DEF Work
  <2>3. Work(s, "shard-2") = [n \in ShardNames(2) |-> Weights(s)[n]]
    BY DEF Work
  <2>4. Work(s, "golden").model = Weights(s)
    BY DEF Work
  <2>5. "source-manifest" \in FourFiles /\ "shard-1" \in FourFiles /\ "shard-2" \in FourFiles
        /\ "golden" \in FourFiles
    BY DEF FourFiles
  <2> QED
    BY <1>5, <2>1, <2>2, <2>3, <2>4, <2>5
<1> DEFINE both == <<files["shard-1"].content, files["shard-2"].content>>
<1>8. \A i \in 1..2 : \A n \in DOMAIN both[i] : both[i][n] = Weights(s)[n]
  <2> TAKE i \in 1..2
  <2>1. CASE i = 1
    BY <1>7, <2>1
  <2>2. CASE i = 2
    BY <1>7, <2>2
  <2> QED
    BY <2>1, <2>2
<1> QED
  BY <1>6, <1>7, <1>8

-----------------------------------------------------------------------------
(* No draw of the synthetic model is of a tensor already drawn.             *)

OnceEach(s) == \A i, j \in 1..Len(s) : s[i] = s[j] => i = j
Apart(s, t) == \A i \in 1..Len(s), j \in 1..Len(t) : s[i] # t[j]

\* Every element of both is one of s or of t.
OfEither(both, s, t) == \A i \in 1..Len(both) :
  (\E j \in 1..Len(s) : both[i] = s[j]) \/ (\E j \in 1..Len(t) : both[i] = t[j])

LEMMA ConcatOnceEach ==
  \A S : \A s \in Seq(S), t \in Seq(S) :
    OnceEach(s) /\ OnceEach(t) /\ Apart(s, t) =>
      s \o t \in Seq(S) /\ OnceEach(s \o t) /\ OfEither(s \o t, s, t)
<1> TAKE S
<1> TAKE s \in Seq(S), t \in Seq(S)
<1> HAVE OnceEach(s) /\ OnceEach(t) /\ Apart(s, t)
<1>1. PICK both : both = s \o t
  OBVIOUS
<1>2. /\ Len(s) \in Nat /\ Len(t) \in Nat
      /\ both \in Seq(S) /\ Len(both) = Len(s) + Len(t)
      /\ \A i \in 1..(Len(s) + Len(t)) : both[i] = IF i <= Len(s) THEN s[i] ELSE t[i - Len(s)]
  BY <1>1, LenProperties, ConcatProperties
<1>3. ASSUME NEW i \in 1..Len(both), i <= Len(s) PROVE i \in 1..Len(s) /\ both[i] = s[i]
  BY <1>2, <1>3
<1>4. ASSUME NEW i \in 1..Len(both), ~(i <= Len(s))
      PROVE  i - Len(s) \in 1..Len(t) /\ both[i] = t[i - Len(s)]
  BY <1>2, <1>4
<1>5. ASSUME NEW i \in 1..Len(both), NEW j \in 1..Len(both), both[i] = both[j] PROVE i = j
  <2>1. CASE i <= Len(s) /\ j <= Len(s)
    BY <1>3, <1>5, <2>1 DEF OnceEach
  <2>2. CASE i <= Len(s) /\ ~(j <= Len(s))
    BY <1>3, <1>4, <1>5, <2>2 DEF Apart
  <2>3. CASE ~(i <= Len(s)) /\ j <= Len(s)
    BY <1>3, <1>4, <1>5, <2>3 DEF Apart
  <2>4. CASE ~(i <= Len(s)) /\ ~(j <= Len(s))
    <3>1. i - Len(s) = j - Len(s)
      BY <1>4, <1>5, <2>4 DEF OnceEach
    <3> QED
      BY <1>2, <3>1
  <2> QED
    BY <2>1, <2>2, <2>3, <2>4
<1>6. \A i \in 1..Len(both) :
        (\E j \in 1..Len(s) : both[i] = s[j]) \/ (\E j \in 1..Len(t) : both[i] = t[j])
  BY <1>3, <1>4
<1>7. OnceEach(both) /\ OfEither(both, s, t)
  BY <1>5, <1>6 DEF OnceEach, OfEither
<1> QED
  BY <1>1, <1>2, <1>7

\* Sequences without repetition that have nothing in common are flattened to
\* one without repetition.
LEMMA FlattenOnceEach ==
  ASSUME NEW S, NEW s \in Seq(Seq(S)), \A k \in 1..Len(s) : OnceEach(s[k]),
         \A k, l \in 1..Len(s) : k # l => Apart(s[k], s[l])
  PROVE  /\ FlattenSeq(s) \in Seq(S) /\ OnceEach(FlattenSeq(s))
         /\ \A i \in 1..Len(FlattenSeq(s)) :
              \E k \in 1..Len(s) : \E j \in 1..Len(s[k]) : FlattenSeq(s)[i] = s[k][j]
<1>1. PICK joined \in [0..Len(s) -> Seq(S)] : Joins(joined, s)
  BY FlattenJoins
<1>2. Len(s) \in Nat /\ \A k \in 1..Len(s) : s[k] \in Seq(S)
  BY LenProperties, ElementOfSeq
<1> DEFINE From(m, i) == \E k \in 1..m : \E j \in 1..Len(s[k]) : joined[m][i] = s[k][j]
           Good(m) == OnceEach(joined[m]) /\ \A i \in 1..Len(joined[m]) : From(m, i)
           Bad == {m \in 0..Len(s) : ~Good(m)}
<1>3. Bad = {}
  <2> SUFFICES ASSUME Bad # {} PROVE FALSE
    OBVIOUS
  <2>1. Bad \in SUBSET Nat
    BY <1>2
  <2>2. PICK m \in Bad : \A n \in Bad : m <= n
    <3> HIDE DEF Bad
    <3> QED BY <2>1, LeastNumber
  <2>3. CASE m = 0
    <3>1. joined[0] = <<>> /\ Len(joined[0]) = 0
      BY <1>1, EmptySeq DEF Joins
    <3>2. \A i \in 1..Len(joined[0]) : FALSE
      BY <3>1
    <3> QED
      BY <2>2, <2>3, <3>2 DEF OnceEach
  <2>4. CASE m # 0
    <3>1. PICK n : n = m - 1
      OBVIOUS
    <3>2. m \in 1..Len(s) /\ n \in 0..Len(s) /\ n < m /\ m = n + 1 /\ ~(m <= n)
      BY <1>2, <2>2, <2>4, <3>1
    <3>3. Good(n)
      <4>1. n \notin Bad
        <5> HIDE DEF Bad
        <5> QED BY <2>2, <3>2
      <4> QED
        BY <3>2, <4>1
    <3>4. joined[m] = joined[n] \o s[m] /\ joined[n] \in Seq(S) /\ s[m] \in Seq(S)
      BY <1>1, <1>2, <3>1, <3>2 DEF Joins
    <3>5. Apart(joined[n], s[m])
      <4> SUFFICES ASSUME NEW i \in 1..Len(joined[n]), NEW j \in 1..Len(s[m]), joined[n][i] = s[m][j]
                   PROVE  FALSE
        BY DEF Apart
      <4>1. PICK k \in 1..n : \E l \in 1..Len(s[k]) : joined[n][i] = s[k][l]
        BY <3>3
      <4>2. k \in 1..Len(s) /\ k # m
        BY <1>2, <3>2, <4>1
      <4>3. Apart(s[k], s[m])
        BY <3>2, <4>2
      <4> QED
        BY <4>1, <4>3 DEF Apart
    <3>6. OnceEach(s[m])
      BY <3>2
    <3>7. OnceEach(joined[m]) /\ OfEither(joined[m], joined[n], s[m])
      <4>1. OnceEach(joined[n])
        BY <3>3
      <4> QED
        BY <3>4, <3>5, <3>6, <4>1, ConcatOnceEach, Zenon
    <3>8. ASSUME NEW i \in 1..Len(joined[m]) PROVE From(m, i)
      <4>1. CASE \E j \in 1..Len(s[m]) : joined[m][i] = s[m][j]
        <5>1. m \in 1..m
          BY <3>2
        <5> QED
          BY <4>1, <5>1
      <4>2. CASE \E j \in 1..Len(joined[n]) : joined[m][i] = joined[n][j]
        <5>1. PICK j \in 1..Len(joined[n]) : joined[m][i] = joined[n][j]
          BY <4>2
        <5>2. PICK k \in 1..n : \E l \in 1..Len(s[k]) : joined[n][j] = s[k][l]
          BY <3>3
        <5>3. k \in 1..m
          BY <3>2
        <5> QED
          BY <5>1, <5>2, <5>3
      <4> QED
        BY <3>7, <4>1, <4>2 DEF OfEither
    <3> QED
      BY <2>2, <3>7, <3>8
  <2> QED
    BY <2>3, <2>4
<1>4. Good(Len(s)) /\ joined[Len(s)] \in Seq(S)
  <2>1. Len(s) \in 0..Len(s)
    BY <1>2
  <2>2. Good(Len(s))
    BY <1>3, <2>1
  <2> HIDE DEF Good, Bad
  <2> QED
    BY <2>1, <2>2
<1> QED
  BY <1>1, <1>4 DEF Joins

\* The words that names are made of.
Words ==
  {"q_proj", "k_proj", "v_proj", "q_conv", "k_conv", "v_conv", "o_proj",
   "f_a_proj", "f_b_proj", "b_proj", "a_log", "dt_bias", "g_proj", "q_a_proj",
   "q_b_proj", "kv_a_proj", "kv_b_proj", "gate", "up", "down", "router_weight",
   "correction_bias", "routed_down_proj", "routed_up_proj", "shared_gate",
   "shared_up", "shared_down", "attention", "mlp", "embeddings", "lm_head",
   "output_residual", "dense", "expert", "moe", "residual", "model"}

Roles(s) == s \in Seq(Words) /\ OnceEach(s)

LEMMA RolesAreOnceEach ==
  /\ Roles(KdaDraws) /\ Roles(MlaDraws) /\ Roles(ExpertDraws) /\ Roles(MoeDraws)
  /\ Roles(<<"attention", "mlp">>) /\ Roles(<<"embeddings", "lm_head", "output_residual">>)
<1>1. Roles(KdaDraws)
  <2>1. PICK s : s = KdaDraws
    OBVIOUS
  <2>2. /\ Len(s) = 13 /\ DOMAIN s = 1..13 /\ s = [i \in 1..13 |-> s[i]]
        /\ s[1] = "q_proj" /\ s[2] = "k_proj" /\ s[3] = "v_proj" /\ s[4] = "q_conv"
        /\ s[5] = "k_conv" /\ s[6] = "v_conv" /\ s[7] = "o_proj" /\ s[8] = "f_a_proj"
        /\ s[9] = "f_b_proj" /\ s[10] = "b_proj" /\ s[11] = "a_log" /\ s[12] = "dt_bias"
        /\ s[13] = "g_proj"
    BY <2>1 DEF KdaDraws
  <2>3. 1..13 = {1, 2, 3, 4, 5, 6, 7, 8, 9, 10, 11, 12, 13}
    OBVIOUS
  <2>4. OnceEach(s)
    BY <2>2, <2>3 DEF OnceEach
  <2>5. \A i \in 1..13 : s[i] \in Words
    BY <2>2, <2>3 DEF Words
  <2>6. s \in Seq(Words)
    BY <2>2, <2>5
  <2> QED
    BY <2>1, <2>4, <2>6 DEF Roles
<1>2. Roles(MlaDraws)
  <2>1. PICK s : s = MlaDraws
    OBVIOUS
  <2>2. /\ Len(s) = 6 /\ DOMAIN s = 1..6 /\ s = [i \in 1..6 |-> s[i]]
        /\ s[1] = "q_a_proj" /\ s[2] = "q_b_proj" /\ s[3] = "kv_a_proj" /\ s[4] = "kv_b_proj"
        /\ s[5] = "g_proj" /\ s[6] = "o_proj"
    BY <2>1 DEF MlaDraws
  <2>3. 1..6 = {1, 2, 3, 4, 5, 6}
    OBVIOUS
  <2>4. OnceEach(s)
    BY <2>2, <2>3 DEF OnceEach
  <2>5. \A i \in 1..6 : s[i] \in Words
    BY <2>2, <2>3 DEF Words
  <2>6. s \in Seq(Words)
    BY <2>2, <2>5
  <2> QED
    BY <2>1, <2>4, <2>6 DEF Roles
<1>3. Roles(ExpertDraws)
  <2>1. PICK s : s = ExpertDraws
    OBVIOUS
  <2>2. /\ Len(s) = 3 /\ DOMAIN s = 1..3 /\ s = [i \in 1..3 |-> s[i]]
        /\ s[1] = "gate" /\ s[2] = "up" /\ s[3] = "down"
    BY <2>1 DEF ExpertDraws
  <2>3. 1..3 = {1, 2, 3}
    OBVIOUS
  <2>4. OnceEach(s)
    BY <2>2, <2>3 DEF OnceEach
  <2>5. \A i \in 1..3 : s[i] \in Words
    BY <2>2, <2>3 DEF Words
  <2>6. s \in Seq(Words)
    BY <2>2, <2>5
  <2> QED
    BY <2>1, <2>4, <2>6 DEF Roles
<1>4. Roles(MoeDraws)
  <2>1. PICK s : s = MoeDraws
    OBVIOUS
  <2>2. /\ Len(s) = 7 /\ DOMAIN s = 1..7 /\ s = [i \in 1..7 |-> s[i]]
        /\ s[1] = "router_weight" /\ s[2] = "correction_bias" /\ s[3] = "routed_down_proj" /\ s[4] = "routed_up_proj"
        /\ s[5] = "shared_gate" /\ s[6] = "shared_up" /\ s[7] = "shared_down"
    BY <2>1 DEF MoeDraws
  <2>3. 1..7 = {1, 2, 3, 4, 5, 6, 7}
    OBVIOUS
  <2>4. OnceEach(s)
    BY <2>2, <2>3 DEF OnceEach
  <2>5. \A i \in 1..7 : s[i] \in Words
    BY <2>2, <2>3 DEF Words
  <2>6. s \in Seq(Words)
    BY <2>2, <2>5
  <2> QED
    BY <2>1, <2>4, <2>6 DEF Roles
<1>5. Roles(<<"attention", "mlp">>)
  <2>1. PICK s : s = <<"attention", "mlp">>
    OBVIOUS
  <2>2. /\ Len(s) = 2 /\ DOMAIN s = 1..2 /\ s = [i \in 1..2 |-> s[i]]
        /\ s[1] = "attention" /\ s[2] = "mlp"
    BY <2>1
  <2>3. 1..2 = {1, 2}
    OBVIOUS
  <2>4. OnceEach(s)
    BY <2>2, <2>3 DEF OnceEach
  <2>5. \A i \in 1..2 : s[i] \in Words
    BY <2>2, <2>3 DEF Words
  <2>6. s \in Seq(Words)
    BY <2>2, <2>5
  <2> QED
    BY <2>1, <2>4, <2>6 DEF Roles
<1>6. Roles(<<"embeddings", "lm_head", "output_residual">>)
  <2>1. PICK s : s = <<"embeddings", "lm_head", "output_residual">>
    OBVIOUS
  <2>2. /\ Len(s) = 3 /\ DOMAIN s = 1..3 /\ s = [i \in 1..3 |-> s[i]]
        /\ s[1] = "embeddings" /\ s[2] = "lm_head" /\ s[3] = "output_residual"
    BY <2>1
  <2>3. 1..3 = {1, 2, 3}
    OBVIOUS
  <2>4. OnceEach(s)
    BY <2>2, <2>3 DEF OnceEach
  <2>5. \A i \in 1..3 : s[i] \in Words
    BY <2>2, <2>3 DEF Words
  <2>6. s \in Seq(Words)
    BY <2>2, <2>5
  <2> QED
    BY <2>1, <2>4, <2>6 DEF Roles
<1> QED
  BY <1>1, <1>2, <1>3, <1>4, <1>5, <1>6

Names == Nat \X Words \X Nat \X Words

\* Draws of one layer, of the parts given and each of another tensor.
DrawsOf(s, l, parts) ==
  /\ s \in Seq(Names) /\ OnceEach(s)
  /\ \A i \in 1..Len(s) : s[i][1] = l /\ s[i][2] \in parts

\* Draws of one part, and of one expert.
PartOf(s, l, part, e) ==
  DrawsOf(s, l, {part}) /\ \A i \in 1..Len(s) : s[i][3] = e

LEMMA NamedDraws ==
  \A l \in Nat, e \in Nat : \A part \in Words : \A roles :
    Roles(roles) => PartOf(Named(l, part, e, roles), l, part, e)
<1> TAKE l \in Nat, e \in Nat
<1> TAKE part \in Words
<1> TAKE roles
<1> HAVE Roles(roles)
<1>1. PICK s : s = Named(l, part, e, roles)
  OBVIOUS
<1>2. Len(roles) \in Nat /\ DOMAIN roles = 1..Len(roles) /\ \A i \in 1..Len(roles) : roles[i] \in Words
  BY LenProperties, ElementOfSeq DEF Roles
<1>3. s = [i \in 1..Len(roles) |-> <<l, part, e, roles[i]>>]
  BY <1>1, <1>2 DEF Named
<1>4. s \in [1..Len(roles) -> Names]
  BY <1>2, <1>3 DEF Names
<1>5. s \in Seq(Names) /\ Len(s) = Len(roles)
  BY <1>2, <1>4
<1>6. \A i \in 1..Len(s) :
        s[i][1] = l /\ s[i][2] = part /\ s[i][3] = e /\ s[i][4] = roles[i]
  BY <1>3, <1>5
<1>7. OnceEach(s)
  <2> SUFFICES ASSUME NEW i \in 1..Len(s), NEW j \in 1..Len(s), s[i] = s[j] PROVE i = j
    BY DEF OnceEach
  <2>1. roles[i] = roles[j]
    BY <1>6, Zenon
  <2> QED
    BY <1>5, <2>1 DEF Roles, OnceEach
<1>8. DrawsOf(s, l, {part})
  BY <1>5, <1>6, <1>7 DEF DrawsOf
<1> QED
  BY <1>1, <1>6, <1>8, Zenon DEF PartOf

LEMMA ConcatDraws ==
  \A s, t, l, P, Q :
    DrawsOf(s, l, P) /\ DrawsOf(t, l, Q) /\ P \cap Q = {} => DrawsOf(s \o t, l, P \cup Q)
<1> TAKE s, t, l, P, Q
<1> HAVE DrawsOf(s, l, P) /\ DrawsOf(t, l, Q) /\ P \cap Q = {}
<1>1. Apart(s, t)
  BY DEF DrawsOf, Apart
<1>2. s \in Seq(Names) /\ t \in Seq(Names) /\ OnceEach(s) /\ OnceEach(t)
  BY DEF DrawsOf
<1>3. s \o t \in Seq(Names) /\ OnceEach(s \o t) /\ OfEither(s \o t, s, t)
  BY <1>1, <1>2, ConcatOnceEach, Zenon
<1>4. PICK both : both = s \o t
  OBVIOUS
<1>5. \A i \in 1..Len(both) : both[i][1] = l /\ both[i][2] \in P \cup Q
  BY <1>3, <1>4 DEF OfEither, DrawsOf
<1> QED
  BY <1>3, <1>4, <1>5 DEF DrawsOf

LEMMA ExpertTensorsAreDraws ==
  \A l \in Nat : DrawsOf(ExpertTensors(l), l, {"expert"})
<1> TAKE l \in Nat
<1>1. PICK s : s = [e \in 1..SyntheticExperts |-> Named(l, "expert", e, ExpertDraws)]
  OBVIOUS
<1>2. SyntheticExperts \in Nat /\ Roles(ExpertDraws) /\ "expert" \in Words
  BY SourcesAssumption, RolesAreOnceEach DEF Words
<1>3. ASSUME NEW e \in 1..SyntheticExperts
      PROVE  PartOf(s[e], l, "expert", e)
  <2>1. s[e] = Named(l, "expert", e, ExpertDraws) /\ e \in Nat
    BY <1>1, <1>2
  <2> QED
    BY <1>2, <2>1, NamedDraws, Zenon
<1>4. s \in Seq(Seq(Names)) /\ Len(s) = SyntheticExperts
  <2>1. s \in [1..SyntheticExperts -> Seq(Names)]
    BY <1>1, <1>3 DEF DrawsOf, PartOf
  <2> QED
    BY <1>2, <2>1
<1>5. \A k \in 1..Len(s) : OnceEach(s[k])
  BY <1>3, <1>4 DEF DrawsOf, PartOf
<1>6. \A k, m \in 1..Len(s) : k # m => Apart(s[k], s[m])
  <2> SUFFICES ASSUME NEW k \in 1..Len(s), NEW m \in 1..Len(s), k # m,
                      NEW i \in 1..Len(s[k]), NEW j \in 1..Len(s[m]), s[k][i] = s[m][j]
               PROVE  FALSE
    BY DEF Apart
  <2>1. s[k][i][3] = k /\ s[m][j][3] = m
    BY <1>3, <1>4 DEF PartOf
  <2> QED
    BY <2>1
<1>7. PICK all : all = FlattenSeq(s)
  OBVIOUS
<1>8. /\ all \in Seq(Names) /\ OnceEach(all)
      /\ \A i \in 1..Len(all) : \E k \in 1..Len(s) : \E j \in 1..Len(s[k]) : all[i] = s[k][j]
  BY <1>4, <1>5, <1>6, <1>7, FlattenOnceEach
<1>9. ASSUME NEW i \in 1..Len(all) PROVE all[i][1] = l /\ all[i][2] \in {"expert"}
  <2>1. PICK k \in 1..Len(s) : \E j \in 1..Len(s[k]) : all[i] = s[k][j]
    BY <1>8
  <2>2. \A j \in 1..Len(s[k]) : s[k][j][1] = l /\ s[k][j][2] \in {"expert"}
    BY <1>3, <1>4 DEF DrawsOf, PartOf
  <2> QED
    BY <2>1, <2>2, Zenon
<1> QED
  BY <1>1, <1>7, <1>8, <1>9 DEF DrawsOf, ExpertTensors

FeedForwardParts == {"dense", "expert", "moe"}

LEMMA FeedForwardIsDraws ==
  \A l \in Nat : \E P \in SUBSET FeedForwardParts : DrawsOf(FeedForwardDraws(l), l, P)
<1> TAKE l \in Nat
<1>1. CASE l \in SyntheticDense
  <2>1. DrawsOf(Named(l, "dense", 0, ExpertDraws), l, {"dense"})
    <3>1. "dense" \in Words /\ 0 \in Nat
      BY DEF Words
    <3> QED
      BY <3>1, RolesAreOnceEach, NamedDraws, Zenon DEF PartOf
  <2>2. {"dense"} \in SUBSET FeedForwardParts
    BY DEF FeedForwardParts
  <2> QED
    BY <1>1, <2>1, <2>2 DEF FeedForwardDraws
<1>2. CASE l \notin SyntheticDense
  <2>1. DrawsOf(Named(l, "moe", 0, MoeDraws), l, {"moe"})
    <3>1. "moe" \in Words /\ 0 \in Nat
      BY DEF Words
    <3> QED
      BY <3>1, RolesAreOnceEach, NamedDraws, Zenon DEF PartOf
  <2>2. DrawsOf(ExpertTensors(l), l, {"expert"})
    BY ExpertTensorsAreDraws
  <2>3. {"expert"} \cap {"moe"} = {} /\ {"expert"} \cup {"moe"} \in SUBSET FeedForwardParts
    BY DEF FeedForwardParts
  <2>4. DrawsOf(ExpertTensors(l) \o Named(l, "moe", 0, MoeDraws), l, {"expert"} \cup {"moe"})
    BY <2>1, <2>2, <2>3, ConcatDraws, Zenon
  <2>5. FeedForwardDraws(l) = ExpertTensors(l) \o Named(l, "moe", 0, MoeDraws)
    BY <1>2 DEF FeedForwardDraws
  <2> QED
    BY <2>3, <2>4, <2>5, Zenon
<1> QED
  BY <1>1, <1>2

LEMMA LayerIsDraws ==
  \A l \in Nat : \E P : DrawsOf(LayerDraws(l), l, P)
<1> TAKE l \in Nat
<1>1. PICK kind : kind = IF SyntheticKinds[l] = "kda" THEN KdaDraws ELSE MlaDraws
  OBVIOUS
<1>2. Roles(kind) /\ "attention" \in Words /\ "residual" \in Words /\ 0 \in Nat
  BY <1>1, RolesAreOnceEach DEF Words
<1>3. DrawsOf(Named(l, "attention", 0, kind), l, {"attention"})
  BY <1>2, NamedDraws, Zenon DEF PartOf
<1>4. PICK P \in SUBSET FeedForwardParts : DrawsOf(FeedForwardDraws(l), l, P)
  BY FeedForwardIsDraws
<1>5. DrawsOf(Named(l, "residual", 0, <<"attention", "mlp">>), l, {"residual"})
  BY <1>2, RolesAreOnceEach, NamedDraws, Zenon DEF PartOf
<1>6. {"attention"} \cap P = {} /\ ({"attention"} \cup P) \cap {"residual"} = {}
  BY <1>4 DEF FeedForwardParts
<1>7. DrawsOf(Named(l, "attention", 0, kind) \o FeedForwardDraws(l), l, {"attention"} \cup P)
  BY <1>3, <1>4, <1>6, ConcatDraws, Zenon
<1>8. DrawsOf((Named(l, "attention", 0, kind) \o FeedForwardDraws(l))
                \o Named(l, "residual", 0, <<"attention", "mlp">>), l,
              ({"attention"} \cup P) \cup {"residual"})
  BY <1>5, <1>6, <1>7, ConcatDraws, Zenon
<1>9. LayerDraws(l) = (Named(l, "attention", 0, kind) \o FeedForwardDraws(l))
                        \o Named(l, "residual", 0, <<"attention", "mlp">>)
  BY <1>1, Zenon DEF LayerDraws
<1> QED
  BY <1>8, <1>9, Zenon

LEMMA DrawsAreOnceEach == Draws \in Seq(Names) /\ OnceEach(Draws)
<1>1. PICK s : s = [l \in DOMAIN SyntheticKinds |-> LayerDraws(l)]
  OBVIOUS
<1>2. PICK n : n = Len(SyntheticKinds)
  OBVIOUS
<1>3. n \in Nat /\ DOMAIN SyntheticKinds = 1..n
  BY <1>2, SourcesAssumption, LenProperties
<1>4. ASSUME NEW l \in 1..n
      PROVE  /\ s[l] \in Seq(Names) /\ OnceEach(s[l])
             /\ \A i \in 1..Len(s[l]) : s[l][i][1] = l
  <2>1. s[l] = LayerDraws(l) /\ l \in Nat
    BY <1>1, <1>3
  <2> QED
    BY <2>1, LayerIsDraws DEF DrawsOf
<1>5. s \in Seq(Seq(Names)) /\ Len(s) = n
  <2>1. s \in [1..n -> Seq(Names)]
    BY <1>1, <1>3, <1>4
  <2> QED
    BY <1>3, <2>1
<1>6. \A k, m \in 1..Len(s) : k # m => Apart(s[k], s[m])
  BY <1>4, <1>5 DEF Apart
<1>7. PICK layers : layers = FlattenSeq(s)
  OBVIOUS
<1>8. /\ layers \in Seq(Names) /\ OnceEach(layers)
      /\ \A i \in 1..Len(layers) : \E k \in 1..Len(s) : \E j \in 1..Len(s[k]) : layers[i] = s[k][j]
  <2>1. \A k \in 1..Len(s) : OnceEach(s[k])
    BY <1>4, <1>5
  <2> QED
    BY <1>5, <1>6, <1>7, <2>1, FlattenOnceEach
<1>9. PICK model : model = Named(0, "model", 0, <<"embeddings", "lm_head", "output_residual">>)
  OBVIOUS
<1>10. DrawsOf(model, 0, {"model"})
  <2>1. "model" \in Words /\ 0 \in Nat
    BY DEF Words
  <2> QED
    BY <1>9, <2>1, RolesAreOnceEach, NamedDraws, Zenon DEF PartOf
<1>11. Apart(layers, model)
  <2>1. ASSUME NEW i \in 1..Len(layers) PROVE layers[i][1] # 0
    <3>1. PICK k \in 1..Len(s) : \E j \in 1..Len(s[k]) : layers[i] = s[k][j]
      BY <1>8
    <3>2. \A j \in 1..Len(s[k]) : s[k][j][1] = k
      BY <1>4, <1>5
    <3>3. layers[i][1] = k
      BY <3>1, <3>2, Zenon
    <3> QED
      BY <1>3, <1>5, <3>3
  <2> QED
    BY <1>10, <2>1 DEF Apart, DrawsOf
<1>12. layers \o model \in Seq(Names) /\ OnceEach(layers \o model)
  <2>1. model \in Seq(Names) /\ OnceEach(model)
    BY <1>10 DEF DrawsOf
  <2> QED
    BY <1>8, <1>11, <2>1, ConcatOnceEach, Zenon
<1>13. Draws = layers \o model
  BY <1>1, <1>7, <1>9, Zenon DEF Draws
<1> QED
  BY <1>12, <1>13, Zenon

\* The two shards share no tensor and leave none out.
LEMMA ShardNamesSplit ==
  /\ ShardNames(1) \cap ShardNames(2) = {}
  /\ ShardNames(1) \cup ShardNames(2) = ToSet(Draws)
<1>1. PICK n, m : n = Len(Draws) /\ m = Midpoint
  OBVIOUS
<1>2. n \in Nat /\ m \in 0..n /\ DOMAIN Draws = 1..n
  <2>1. n \in Nat /\ DOMAIN Draws = 1..n
    BY <1>1, DrawsAreOnceEach, LenProperties
  <2>2. m = (n + 1) \div 2
    BY <1>1 DEF Midpoint
  <2> QED
    BY <2>1, <2>2
<1>3. \A i \in 1..n : Draws[i] \in Names
  BY <1>1, DrawsAreOnceEach, ElementOfSeq
<1>4. ShardNames(1) = {Draws[i] : i \in 1..m}
  <2>1. PICK half : half = SubSeq(Draws, 1, m)
    OBVIOUS
  <2>2. half \in Seq(Names) /\ Len(half) = m /\ \A i \in 1..m : half[i] = Draws[i]
    <3>1. 1 \in Int /\ m \in Int /\ \A i \in 1..m : Draws[i] \in Names
      BY <1>2, <1>3
    <3>2. /\ half \in Seq(Names) /\ Len(half) = (IF 1 <= m THEN m - 1 + 1 ELSE 0)
          /\ \A i \in 1..(m - 1 + 1) : half[i] = Draws[1 + i - 1]
      BY <2>1, <3>1, SubSeqProperties
    <3> QED
      BY <1>2, <3>2
  <2>3. DOMAIN half = 1..m
    BY <2>2, LenProperties
  <2> QED
    BY <1>1, <2>1, <2>2, <2>3 DEF ShardNames, ToSet
<1>5. ShardNames(2) = {Draws[i] : i \in (m + 1)..n}
  <2>1. PICK half : half = SubSeq(Draws, m + 1, n)
    OBVIOUS
  <2>2. half \in Seq(Names) /\ Len(half) = n - m /\ \A i \in 1..(n - m) : half[i] = Draws[m + i]
    <3>1. m + 1 \in Int /\ n \in Int /\ \A i \in (m + 1)..n : Draws[i] \in Names
      BY <1>2, <1>3
    <3>2. /\ half \in Seq(Names) /\ Len(half) = (IF m + 1 <= n THEN n - (m + 1) + 1 ELSE 0)
          /\ \A i \in 1..(n - (m + 1) + 1) : half[i] = Draws[m + 1 + i - 1]
      BY <2>1, <3>1, SubSeqProperties
    <3> QED
      BY <1>2, <3>2
  <2>3. DOMAIN half = 1..(n - m)
    BY <2>2, LenProperties
  <2>4. ToSet(half) = {Draws[m + i] : i \in 1..(n - m)}
    BY <2>2, <2>3 DEF ToSet
  <2>5. ASSUME NEW i \in (m + 1)..n PROVE \E j \in 1..(n - m) : Draws[i] = Draws[m + j]
    <3>1. i - m \in 1..(n - m) /\ m + (i - m) = i
      BY <1>2
    <3> QED
      BY <3>1
  <2>6. ASSUME NEW j \in 1..(n - m) PROVE m + j \in (m + 1)..n
    BY <1>2
  <2>7. {Draws[m + j] : j \in 1..(n - m)} = {Draws[i] : i \in (m + 1)..n}
    BY <2>5, <2>6
  <2>8. ShardNames(2) = ToSet(half)
    BY <1>1, <2>1 DEF ShardNames
  <2> QED
    BY <2>4, <2>7, <2>8
<1>6. \A i \in 1..m, j \in (m + 1)..n : Draws[i] # Draws[j]
  <2> SUFFICES ASSUME NEW i \in 1..m, NEW j \in (m + 1)..n, Draws[i] = Draws[j] PROVE FALSE
    OBVIOUS
  <2>1. i \in 1..n /\ j \in 1..n /\ i # j
    BY <1>2
  <2> QED
    BY <1>1, <2>1, DrawsAreOnceEach DEF OnceEach
<1>7. \A i \in 1..n : i \in 1..m \/ i \in (m + 1)..n
  BY <1>2
<1>8. 1..m \subseteq 1..n /\ (m + 1)..n \subseteq 1..n
  BY <1>2
<1>9. ToSet(Draws) = {Draws[i] : i \in 1..n}
  BY <1>2 DEF ToSet
<1> QED
  BY <1>4, <1>5, <1>6, <1>7, <1>8, <1>9

LEMMA WeightsDiffer ==
  \A s : /\ DOMAIN Weights(s) = ToSet(Draws)
         /\ \A n, m \in ToSet(Draws) : Weights(s)[n] = Weights(s)[m] => n = m
<1> TAKE s
<1> DEFINE Number(n) == CHOOSE i \in DOMAIN Draws : Draws[i] = n
<1>1. \A n \in ToSet(Draws) : Number(n) \in DOMAIN Draws /\ Draws[Number(n)] = n
  BY DEF ToSet
<1>2. DOMAIN Weights(s) = ToSet(Draws) /\ \A n \in ToSet(Draws) : Weights(s)[n] = <<s, Number(n)>>
  BY DEF Weights
<1> HIDE DEF Number
<1> QED
  BY <1>1, <1>2

LEMMA SourceIsWholeModelFollows == ASSUME SyntheticInv PROVE SourceIsWholeModel
<1> DEFINE first == files["shard-1"].content
           second == files["shard-2"].content
           shardOf == files["source-manifest"].content.shardOf
<1> SUFFICES ASSUME \A f \in {"source-manifest", "shard-1", "shard-2"} : IsWhole(f)
             PROVE  /\ DOMAIN first \cap DOMAIN second = {}
                    /\ DOMAIN first \cup DOMAIN second = ToSet(Draws)
                    /\ \A n \in ToSet(Draws) : n \in DOMAIN files[shardOf[n]].content
                    /\ \A held \in {first, second} :
                         \A n, m \in DOMAIN held : held[n] = held[m] => n = m
  BY DEF SourceIsWholeModel
<1>1. "shard-1" \in FourFiles /\ "shard-2" \in FourFiles /\ "source-manifest" \in FourFiles
  BY DEF FourFiles
<1>2. PICK r, s, t : /\ files["shard-1"] = Written(Work(r, "shard-1"))
                     /\ files["shard-2"] = Written(Work(s, "shard-2"))
                     /\ files["source-manifest"] = Written(Work(t, "source-manifest"))
  BY <1>1 DEF SyntheticInv, WorkOf
<1>3. /\ first = [n \in ShardNames(1) |-> Weights(r)[n]]
      /\ second = [n \in ShardNames(2) |-> Weights(s)[n]]
  BY <1>2, StatesAre DEF Work
<1>4. shardOf = [n \in ToSet(Draws) |-> IF n \in ShardNames(1) THEN "shard-1" ELSE "shard-2"]
  <2>1. files["source-manifest"].content = Work(t, "source-manifest")
    BY <1>2, StatesAre
  <2>2. Work(t, "source-manifest").shardOf
          = [n \in ToSet(Draws) |-> IF n \in ShardNames(1) THEN "shard-1" ELSE "shard-2"]
    BY DEF Work
  <2> QED
    BY <2>1, <2>2
<1>5. DOMAIN first = ShardNames(1) /\ DOMAIN second = ShardNames(2)
  BY <1>3
<1>6. \A n \in ToSet(Draws) : n \in DOMAIN files[shardOf[n]].content
  <2> TAKE n \in ToSet(Draws)
  <2>1. CASE n \in ShardNames(1)
    <3>1. shardOf[n] = "shard-1"
      BY <1>4, <2>1
    <3> QED
      BY <1>5, <2>1, <3>1
  <2>2. CASE n \notin ShardNames(1)
    <3>1. shardOf[n] = "shard-2"
      BY <1>4, <2>2
    <3>2. n \in ShardNames(2)
      BY <2>2, ShardNamesSplit
    <3> QED
      BY <1>5, <3>1, <3>2
  <2> QED
    BY <2>1, <2>2
<1>7. \A n, m \in DOMAIN first : first[n] = first[m] => n = m
  BY <1>3, <1>5, ShardNamesSplit, WeightsDiffer
<1>8. \A n, m \in DOMAIN second : second[n] = second[m] => n = m
  BY <1>3, <1>5, ShardNamesSplit, WeightsDiffer
<1>9. \A held \in {first, second} : \A n, m \in DOMAIN held : held[n] = held[m] => n = m
  BY <1>7, <1>8
<1> HIDE DEF first, second, shardOf
<1> QED
  BY <1>5, <1>6, <1>9, ShardNamesSplit

LEMMA SyntheticInvSays ==
  ASSUME SyntheticInv
  PROVE  /\ DOMAIN files = ToSet(SyntheticFiles)
         /\ next \in 0..Len(SyntheticFiles) /\ (open => next # 0)
BY SyntheticFilesAre DEF SyntheticInv

\* SourcesAreConsistent, for writers and generations that stop anywhere: of a
\* bounded source every manifest is whole and describes the published shard its
\* identity determines, and none is lost; of a synthetic one, digests that
\* verify vouch for one generation, and a whole source has every tensor once.
THEOREM SourcesStayConsistent == BoundedSpec /\ SyntheticSpec => SourcesAreConsistent
<1>1. BoundedInit => BoundedInv
  BY BoundedInitKeeps
<1>2. BoundedInv /\ [BoundedNext]_boundedVars => BoundedInv' /\ KeepsPublished
  BY BoundedNextKeeps
<1>3. SyntheticInit => SyntheticInv
  BY SyntheticInitKeeps
<1>4. SyntheticInv /\ [SyntheticNext]_syntheticVars => SyntheticInv'
  BY SyntheticNextKeeps
<1>5. BoundedInv /\ SyntheticInv => SourcesTypeOK /\ ManifestIsConsistent /\ ShardIsDetermined
  BY BoundedInvSays, SyntheticInvSays DEF SourcesTypeOK
<1>6. SyntheticInv => DigestsVouch /\ SourceIsWholeModel
  BY DigestsVouchFollows, SourceIsWholeModelFollows
<1>7. KeepsPublished => [KeepsPublished]_<<manifest, shards>>
  OBVIOUS
<1> QED
  BY <1>1, <1>2, <1>3, <1>4, <1>5, <1>6, <1>7, PTL DEF BoundedSpec, SyntheticSpec, SourcesAreConsistent
=============================================================================
