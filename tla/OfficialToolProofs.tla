------------------------- MODULE OfficialToolProofs -------------------------
(***************************************************************************)
(* Theorems about the tools of the official checkpoint.                    *)
(*                                                                         *)
(* The three fixture builders, for every trunk, every set of experts, all  *)
(* builds and their routes, and every number of runs, stops and lost       *)
(* objects.                                                                *)
(*                                                                         *)
(* The evidence tools, for every number of processes over a directory, of  *)
(* runs, kills, rebuilds of their inputs and rows: what a run has written  *)
(* and digested at each of its stages is there as it wrote it, a directory *)
(* that verifies is of one run, and a run that ends well vouches for it.   *)
(***************************************************************************)
EXTENDS MoeFixture, LayerFixture, TwoLayerFixture, Evidence, SequenceTheorems,
        WellFoundedInduction, TLAPS

-----------------------------------------------------------------------------
(* The operators.                                                          *)

LEMMA LeastNumber ==
  ASSUME NEW S \in SUBSET Nat, S # {}
  PROVE  \E least \in S : \A n \in S : least <= n
<1> DEFINE R == OpToRel(<, Nat)
<1>1. IsWellFoundedOn(R, Nat)
  BY NatLessThanWellFounded
<1>2. \A m \in Nat, n \in Nat : m < n => <<m, n>> \in R
  BY Zenon DEF OpToRel
<1> HIDE DEF R
<1>3. PICK least \in S : \A n \in S : ~(<<n, least>> \in R)
  BY <1>1, WFMin
<1>4. \A n \in S : ~(n < least)
  BY <1>2, <1>3, Zenon
<1> QED
  BY <1>4

\* Unused is the last value of a function that runs through the experts.
LEMMA UnusedRuns ==
  ASSUME NEW S, NEW experts \in Seq(S), NEW seen
  PROVE  \E upTo : /\ Unused(experts, seen) = upTo[Len(experts)]
                   /\ \A i \in 0..Len(experts) :
                        upTo[i] = IF i = 0 THEN <<>>
                                  ELSE IF experts[i] \in ToSet(seen) THEN upTo[i - 1]
                                  ELSE Append(upTo[i - 1], experts[i])
<1> DEFINE n == Len(experts)
           Value(f, i) == IF i = 0 THEN <<>>
                          ELSE IF experts[i] \in ToSet(seen) THEN f[i - 1]
                          ELSE Append(f[i - 1], experts[i])
           Runs(f, m) == \A i \in 0..m : f[i] = Value(f, i)
           upTo == CHOOSE f : f = [i \in 0..n |-> Value(f, i)]
<1>1. n \in Nat
  OBVIOUS
<1>2. \A m \in 0..n : \E f : Runs(f, m)
  <2>1. SUFFICES ASSUME NEW Bad \in SUBSET Nat, Bad = {m \in 0..n : ~ \E f : Runs(f, m)}, Bad # {}
                 PROVE  FALSE
    <3>1. {m \in 0..n : ~ \E f : Runs(f, m)} \in SUBSET Nat
      BY <1>1
    <3> QED BY <3>1, <2>1, Zenon
  <2>2. PICK m \in Bad : \A k \in Bad : m <= k
    BY <2>1, LeastNumber
  <2>3. m \in 0..n /\ ~ \E f : Runs(f, m)
    BY <2>1
  <2>4. m # 0
    <3>1. Runs([i \in {0} |-> <<>>], 0)
      OBVIOUS
    <3> QED BY <3>1, <2>3, Zenon
  <2>5. m - 1 \in 0..n /\ m - 1 < m
    BY <2>3, <2>4, <1>1
  <2>6. PICK f : Runs(f, m - 1)
    <3>1. m - 1 \notin Bad
      <4> HIDE DEF Runs
      <4> QED BY <2>2, <2>3, <2>5, <1>1
    <3> QED BY <3>1, <2>1, <2>5, Zenon
  <2>7. Runs([i \in 0..m |-> IF i = m THEN Value(f, m) ELSE f[i]], m)
    <3> DEFINE g == [i \in 0..m |-> IF i = m THEN Value(f, m) ELSE f[i]]
    <3>1. m \in 0..m /\ m - 1 \in 0..m /\ m - 1 # m
      BY <2>3, <2>4, <1>1
    <3>2. g[m] = Value(f, m) /\ g[m - 1] = f[m - 1]
      BY <3>1
    <3>3. g[m] = Value(g, m)
      <4> HIDE DEF g
      <4> QED BY <3>2, <2>4
    <3>4. ASSUME NEW j \in 0..(m - 1) PROVE g[j] = Value(g, j)
      <4>1. j \in 0..m /\ j # m /\ g[j] = f[j] /\ f[j] = Value(f, j)
        BY <2>6, <2>3, <1>1
      <4>2. CASE j = 0
        BY <4>1, <4>2, Zenon
      <4>3. CASE j # 0
        <5>1. j - 1 \in 0..m /\ j - 1 # m
          BY <4>3, <2>3, <1>1
        <5>2. g[j - 1] = f[j - 1]
          BY <5>1
        <5> HIDE DEF g
        <5> QED BY <4>1, <4>3, <5>2
      <4> QED BY <4>2, <4>3
    <3>5. \A j \in 0..m : j = m \/ j \in 0..(m - 1)
      BY <2>3, <1>1
    <3>6. \A j \in 0..m : g[j] = Value(g, j)
      <4> HIDE DEF g, Value
      <4> QED BY <3>3, <3>4, <3>5
    <3> QED BY <3>6, Zenon
  <2> QED BY <2>7, <2>3, Zenon
<1>3. PICK f : Runs(f, n)
  BY <1>1, <1>2, SMTT(30)
<1>4. [i \in 0..n |-> f[i]] = [i \in 0..n |-> Value([j \in 0..n |-> f[j]], i)]
  BY <1>1, <1>3
<1>5. upTo = [i \in 0..n |-> Value(upTo, i)]
  <2> HIDE DEF Value
  <2> QED BY <1>4
<1>6. Unused(experts, seen) = upTo[n]
  BY Zenon DEF Unused
<1>7. \A i \in 0..n : upTo[i] = Value(upTo, i)
  <2> HIDE DEF upTo
  <2> QED BY <1>5
<1> HIDE DEF upTo
<1> QED BY <1>6, <1>7, Zenon

LEMMA AppendFresh ==
  ASSUME NEW S, NEW s \in Seq(S), ~Repeats(s), NEW x \in S, x \notin ToSet(s)
  PROVE  /\ Append(s, x) \in Seq(S) /\ ToSet(Append(s, x)) = ToSet(s) \cup {x}
         /\ ~Repeats(Append(s, x))
<1>1. /\ Append(s, x) \in Seq(S) /\ DOMAIN s = 1..Len(s) /\ Len(s) \in Nat
      /\ DOMAIN Append(s, x) = 1..(Len(s) + 1) /\ Append(s, x)[Len(s) + 1] = x
      /\ \A i \in 1..Len(s) : Append(s, x)[i] = s[i]
  BY AppendProperties
<1>2. ToSet(Append(s, x)) = ToSet(s) \cup {x}
  BY <1>1 DEF ToSet
<1>3. ~Repeats(Append(s, x))
  BY <1>1 DEF Repeats, ToSet
<1> QED BY <1>1, <1>2, <1>3

LEMMA UnusedProperties ==
  ASSUME NEW S, NEW experts \in Seq(S), ~Repeats(experts), NEW seen
  PROVE  /\ Unused(experts, seen) \in Seq(S) /\ ~Repeats(Unused(experts, seen))
         /\ ToSet(Unused(experts, seen)) = ToSet(experts) \ ToSet(seen)
<1> DEFINE n == Len(experts)
           First(i) == {experts[j] : j \in 1..i}
           Good(s, i) == s \in Seq(S) /\ ~Repeats(s) /\ ToSet(s) = First(i) \ ToSet(seen)
<1>1. n \in Nat /\ DOMAIN experts = 1..n /\ \A i \in 1..n : experts[i] \in S
  OBVIOUS
<1>2. PICK upTo : /\ Unused(experts, seen) = upTo[n]
                  /\ \A i \in 0..n :
                       upTo[i] = IF i = 0 THEN <<>>
                                 ELSE IF experts[i] \in ToSet(seen) THEN upTo[i - 1]
                                 ELSE Append(upTo[i - 1], experts[i])
  BY UnusedRuns
<1>3. \A i \in 0..n : Good(upTo[i], i)
  <2>1. SUFFICES ASSUME NEW Bad \in SUBSET Nat, Bad = {i \in 0..n : ~Good(upTo[i], i)}, Bad # {}
                 PROVE  FALSE
    <3>1. {i \in 0..n : ~Good(upTo[i], i)} \in SUBSET Nat
      BY <1>1
    <3> HIDE DEF Good
    <3> QED BY <3>1, <2>1
  <2>2. PICK i \in Bad : \A k \in Bad : i <= k
    BY <2>1, LeastNumber
  <2>3. i \in 0..n /\ ~Good(upTo[i], i)
    BY <2>1
  <2>4. i # 0
    <3>1. upTo[0] = <<>>
      BY <1>1, <1>2
    <3>2. <<>> \in Seq(S) /\ ToSet(<<>>) = {} /\ ~Repeats(<<>>)
      BY DEF ToSet, Repeats
    <3>3. First(0) = {}
      OBVIOUS
    <3> HIDE DEF First
    <3>4. Good(<<>>, 0)
      BY <3>2, <3>3
    <3> HIDE DEF Good
    <3> QED BY <3>1, <3>4, <2>3
  <2>5. i \in 1..n /\ i - 1 \in 0..n /\ i - 1 < i
    BY <2>3, <2>4, <1>1
  <2>6. Good(upTo[i - 1], i - 1)
    <3>1. i - 1 \notin Bad
      <4> HIDE DEF Good
      <4> QED BY <2>2, <2>3, <2>5, <1>1
    <3> HIDE DEF Good
    <3> QED BY <3>1, <2>1, <2>5
  <2>7. First(i) = First(i - 1) \cup {experts[i]}
    BY <2>5, <1>1
  <2>8. experts[i] \notin First(i - 1)
    BY <2>5, <1>1 DEF Repeats
  <2>9. CASE experts[i] \in ToSet(seen)
    <3>1. upTo[i] = upTo[i - 1]
      BY <1>2, <2>5, <2>9, <1>1
    <3> HIDE DEF First
    <3> QED BY <3>1, <2>3, <2>6, <2>7, <2>9
  <2>10. CASE experts[i] \notin ToSet(seen)
    <3>1. upTo[i] = Append(upTo[i - 1], experts[i])
      <4>1. i \in 0..n /\ i # 0
        BY <2>3, <2>4
      <4> QED BY <4>1, <1>2, <2>10, Zenon
    <3> HIDE DEF First
    <3>2. experts[i] \in S /\ experts[i] \notin ToSet(upTo[i - 1])
      BY <1>1, <2>5, <2>6, <2>8
    <3>3. /\ upTo[i] \in Seq(S) /\ ~Repeats(upTo[i])
          /\ ToSet(upTo[i]) = ToSet(upTo[i - 1]) \cup {experts[i]}
      BY <3>1, <3>2, <2>6, AppendFresh
    <3> QED BY <3>3, <2>3, <2>6, <2>7, <2>10
  <2> QED BY <2>9, <2>10
<1>4. Good(upTo[n], n)
  <2>1. n \in 0..n
    BY <1>1
  <2> HIDE DEF Good, n
  <2> QED BY <1>3, <2>1
<1>5. First(n) = ToSet(experts)
  BY <1>1 DEF ToSet
<1> HIDE DEF First
<1> QED BY <1>2, <1>4, <1>5

\* Two sequences without repetition, and nothing in both.
LEMMA ConcatFresh ==
  ASSUME NEW S, NEW s \in Seq(S), NEW t \in Seq(S), ~Repeats(s), ~Repeats(t),
         ToSet(s) \cap ToSet(t) = {}
  PROVE  s \o t \in Seq(S) /\ ~Repeats(s \o t) /\ ToSet(s \o t) = ToSet(s) \cup ToSet(t)
<1>1. /\ s \o t \in Seq(S) /\ DOMAIN s = 1..Len(s) /\ DOMAIN t = 1..Len(t)
      /\ Len(s) \in Nat /\ Len(t) \in Nat
      /\ DOMAIN (s \o t) = 1..(Len(s) + Len(t))
      /\ \A i \in 1..(Len(s) + Len(t)) :
           (s \o t)[i] = IF i <= Len(s) THEN s[i] ELSE t[i - Len(s)]
  BY ConcatProperties
<1>2. PICK both : both = s \o t
  OBVIOUS
<1>3. ToSet(both) = ToSet(s) \cup ToSet(t)
  <2>1. \A i \in 1..Len(t) : both[i + Len(s)] = t[i] /\ i + Len(s) \in DOMAIN both
    BY <1>1, <1>2
  <2>2. \A i \in 1..Len(s) : both[i] = s[i] /\ i \in DOMAIN both
    BY <1>1, <1>2
  <2>3. \A i \in DOMAIN both :
           \/ i \in 1..Len(s) /\ both[i] = s[i]
           \/ i - Len(s) \in 1..Len(t) /\ both[i] = t[i - Len(s)]
    BY <1>1, <1>2
  <2> QED BY <1>1, <2>1, <2>2, <2>3 DEF ToSet
<1>4. ~Repeats(both)
  <2> SUFFICES ASSUME NEW i \in DOMAIN both, NEW j \in DOMAIN both, i # j
               PROVE  both[i] # both[j]
    BY DEF Repeats
  <2>1. \A k \in DOMAIN both :
           \/ k \in DOMAIN s /\ both[k] = s[k]
           \/ k - Len(s) \in DOMAIN t /\ both[k] = t[k - Len(s)]
    BY <1>1, <1>2
  <2>2. \A k \in DOMAIN s, l \in DOMAIN t : s[k] # t[l]
    BY DEF ToSet
  <2>3. i \in Nat /\ j \in Nat /\ Len(s) \in Nat
    BY <1>1, <1>2
  <2>4. /\ \A k, l \in DOMAIN s : k # l => s[k] # s[l]
        /\ \A k, l \in DOMAIN t : k # l => t[k] # t[l]
    BY DEF Repeats
  <2>5. CASE i \in DOMAIN s /\ both[i] = s[i]
    <3>1. CASE j \in DOMAIN s /\ both[j] = s[j]
      BY <2>4, <2>5, <3>1, Zenon
    <3>2. CASE j - Len(s) \in DOMAIN t /\ both[j] = t[j - Len(s)]
      BY <2>2, <2>5, <3>2
    <3> QED BY <2>1, <3>1, <3>2
  <2>6. CASE i - Len(s) \in DOMAIN t /\ both[i] = t[i - Len(s)]
    <3>1. CASE j \in DOMAIN s /\ both[j] = s[j]
      BY <2>2, <2>6, <3>1
    <3>2. CASE j - Len(s) \in DOMAIN t /\ both[j] = t[j - Len(s)]
      <4>1. i - Len(s) # j - Len(s)
        BY <2>3
      <4> QED BY <4>1, <2>4, <2>6, <3>2
    <3> QED BY <2>1, <3>1, <3>2
  <2> QED BY <2>1, <2>5, <2>6
<1>5. both \in Seq(S)
  BY <1>1, <1>2
<1> QED BY <1>2, <1>3, <1>4, <1>5, Zenon

LEMMA FirstUseProperties ==
  ASSUME NEW S, NEW one \in Seq(S), NEW other \in Seq(S), ~Repeats(one), ~Repeats(other)
  PROVE  /\ FirstUse(one, other) \in Seq(S) /\ ~Repeats(FirstUse(one, other))
         /\ ToSet(FirstUse(one, other)) = ToSet(one) \cup ToSet(other)
<1>1. /\ Unused(other, one) \in Seq(S) /\ ~Repeats(Unused(other, one))
      /\ ToSet(Unused(other, one)) = ToSet(other) \ ToSet(one)
  BY UnusedProperties
<1>2. FirstUse(one, other) = one \o Unused(other, one)
  BY DEF FirstUse
<1>3. ToSet(one) \cap ToSet(Unused(other, one)) = {}
  BY <1>1
<1>4. /\ one \o Unused(other, one) \in Seq(S) /\ ~Repeats(one \o Unused(other, one))
      /\ ToSet(one \o Unused(other, one)) = ToSet(one) \cup ToSet(Unused(other, one))
  BY <1>1, <1>3, ConcatFresh
<1> QED BY <1>1, <1>2, <1>4

-----------------------------------------------------------------------------
(* What the builders share: the store and the run.                         *)

Stages == {"idle", "trunk", "publish", "experts", "assemble", "describe", "convert", "write",
           "unlink", "verify", "return", "prepare", "trace", "oracle", "layout"}
Fetches == [range : Ranges, reused : BOOLEAN]

\* Types; no run is NoRun.
RunTypes ==
  /\ run \in [pc : Stages, build : Builds \cup {None}, need : Seq(Ranges), got : Seq(Fetches)]
  /\ IF at("idle") THEN run = NoRun ELSE run.build \in Builds

StoreTypes ==
  /\ objects \in SUBSET Ranges /\ downloads \in [Ranges -> Nat]
  /\ losses \in Nat /\ losses <= MaxLosses

\* A transfer stores an object, and only a loss takes one.
TransfersCount ==
  \A r \in Ranges : downloads[r] <= losses + (IF r \in objects THEN 1 ELSE 0)

\* What a run asked for is stored until it ends.
AskedIsStored == ToSet(Asked) \subseteq objects

RunInv == RunTypes /\ StoreTypes /\ TransfersCount /\ AskedIsStored

DiskTypes ==
  /\ files \in [Files -> Builds \cup {None}]
  /\ ledger \in Builds \cup {None} /\ partial \in BOOLEAN
  /\ runs \in Nat /\ stops \in Nat /\ stops <= MaxStops

LEMMA ConstantTypes ==
  /\ None \notin Builds /\ {MaxRuns, MaxStops, MaxLosses} \subseteq Nat
  /\ Trunk \in Seq(Ranges) /\ ~Repeats(Trunk) /\ ToSet(Trunk) \cap Experts = {}
  /\ ToSet(Trunk) \subseteq Ranges /\ Experts \subseteq Ranges
  /\ \A s \in Seq(Experts) : s \in Seq(Ranges)
  /\ \A b \in Builds, i \in {1, 2} : Routes[b][i] \in Seq(Experts) /\ ~Repeats(Routes[b][i])
<1>1. ToSet(Trunk) \subseteq Ranges /\ Experts \subseteq Ranges
  BY DEF Ranges
<1>2. Trunk \in Seq(ToSet(Trunk))
  BY FixtureConstants DEF FixtureAssumption
<1>3. Trunk \in Seq(Ranges) /\ \A s \in Seq(Experts) : s \in Seq(Ranges)
  <2> HIDE DEF Ranges
  <2> QED BY <1>1, <1>2, SeqMonotonic
<1> QED BY <1>1, <1>3, FixtureConstants DEF FixtureAssumption, IsRoute

LEMMA RunInvInit ==
  ASSUME FixtureInit
  PROVE  RunInv /\ DiskTypes
<1>1. RunTypes
  <2>1. <<>> \in Seq(Ranges) /\ <<>> \in Seq(Fetches)
    OBVIOUS
  <2>2. NoRun \in [pc : Stages, build : Builds \cup {None}, need : Seq(Ranges), got : Seq(Fetches)]
    BY <2>1 DEF NoRun, Stages
  <2> QED BY <2>2 DEF FixtureInit, RunTypes, NoRun, at
<1>2. StoreTypes /\ TransfersCount
  BY ConstantTypes DEF FixtureInit, StoreTypes, TransfersCount
<1>3. AskedIsStored
  BY DEF FixtureInit, AskedIsStored, Asked, NoRun, ToSet
<1>4. DiskTypes
  <2>1. files \in [Files -> Builds \cup {None}]
    BY DEF FixtureInit, Files
  <2>2. runs \in Nat /\ stops \in Nat /\ stops <= MaxStops
    BY ConstantTypes DEF FixtureInit
  <2>3. ledger \in Builds \cup {None} /\ partial \in BOOLEAN
    BY DEF FixtureInit
  <2> QED BY <2>1, <2>2, <2>3 DEF DiskTypes
<1> QED BY <1>1, <1>2, <1>3, <1>4 DEF RunInv

LEMMA RangesOf ==
  ASSUME NEW got \in Seq(Fetches)
  PROVE  LET asked == [i \in DOMAIN got |-> got[i].range] IN
         /\ asked \in Seq(Ranges) /\ Len(asked) = Len(got)
         /\ \A i \in 1..Len(got) : asked[i] = got[i].range
<1>1. DOMAIN got = 1..Len(got) /\ Len(got) \in Nat /\ \A i \in 1..Len(got) : got[i] \in Fetches
  OBVIOUS
<1>2. \A i \in 1..Len(got) : got[i].range \in Ranges
  BY <1>1 DEF Fetches
<1> QED BY <1>1, <1>2

LEMMA AskedType ==
  ASSUME RunTypes
  PROVE  /\ Asked \in Seq(Ranges) /\ Len(Asked) = Len(run.got)
         /\ \A i \in 1..Len(run.got) : Asked[i] = run.got[i].range
<1>1. run.got \in Seq(Fetches)
  BY DEF RunTypes
<1> QED BY <1>1, RangesOf DEF Asked

\* A range is asked for once more.
LEMMA FetchAsks ==
  ASSUME RunTypes, NEW pc, Fetch(pc)
  PROVE  /\ Head(run.need) \in Ranges /\ Head(run.need) \in ToSet(run.need)
         /\ run'.pc = run.pc /\ run.pc = pc /\ run'.build = run.build
         /\ run'.need = Tail(run.need) /\ RunTypes'
         /\ Asked' = Append(Asked, Head(run.need))
         /\ Asked' \o run'.need = Asked \o run.need
         /\ ToSet(Asked') = ToSet(Asked) \cup {Head(run.need)}
<1> DEFINE r == Head(run.need)
           entry == [range |-> r, reused |-> r \in objects]
<1>1. /\ run \in [pc : Stages, build : Builds \cup {None}, need : Seq(Ranges), got : Seq(Fetches)]
      /\ run.need # <<>> /\ run.pc = pc
      /\ run' = [run EXCEPT !.need = Tail(@), !.got = Append(@, entry)]
  BY DEF RunTypes, Fetch, at
<1>2. /\ run.need \in Seq(Ranges) /\ Len(run.need) > 0 /\ r \in Ranges
      /\ Tail(run.need) \in Seq(Ranges) /\ run.got \in Seq(Fetches)
      /\ r = run.need[1] /\ 1 \in DOMAIN run.need
  BY <1>1
<1>3. entry \in Fetches /\ entry.range = r
  BY <1>2 DEF Fetches
<1>4. /\ run'.pc = run.pc /\ run'.build = run.build /\ run'.need = Tail(run.need)
      /\ run'.got = Append(run.got, entry)
  BY <1>1
<1>5. r \in ToSet(run.need)
  BY <1>2 DEF ToSet
<1> HIDE DEF entry
<1>6. Append(run.got, entry) \in Seq(Fetches)
  BY <1>2, <1>3
<1>7. RunTypes'
  <2>1. run'.pc # "idle"
    BY <1>1, <1>4 DEF RunTypes, at, NoRun
  <2>2. run' \in [pc : Stages, build : Builds \cup {None}, need : Seq(Ranges), got : Seq(Fetches)]
    BY <1>1, <1>2, <1>6
  <2>3. run'.build \in Builds
    BY <2>1, <1>4 DEF RunTypes, at
  <2> QED BY <2>1, <2>2, <2>3 DEF RunTypes, at
<1>8. Asked' = Append(Asked, r)
  <2>1. /\ Len(run'.got) = Len(run.got) + 1 /\ run'.got[Len(run.got) + 1] = entry
        /\ \A i \in 1..Len(run.got) : run'.got[i] = run.got[i]
    BY <1>2, <1>3, <1>4, AppendProperties
  <2>2. /\ Asked' \in Seq(Ranges) /\ Len(Asked') = Len(run'.got)
        /\ \A i \in 1..Len(run'.got) : Asked'[i] = run'.got[i].range
    <3>1. run'.got \in Seq(Fetches)
      BY <1>4, <1>6
    <3> QED BY <3>1, RangesOf DEF Asked
  <2>3. /\ Asked \in Seq(Ranges) /\ Len(Asked) = Len(run.got)
        /\ \A i \in 1..Len(run.got) : Asked[i] = run.got[i].range
    BY AskedType
  <2>4. /\ Append(Asked, r) \in Seq(Ranges) /\ Len(Append(Asked, r)) = Len(Asked) + 1
        /\ Append(Asked, r)[Len(Asked) + 1] = r
        /\ \A i \in 1..Len(Asked) : Append(Asked, r)[i] = Asked[i]
    BY <2>3, <1>2, AppendProperties
  <2>5. Len(Asked) \in Nat
    BY <2>3
  <2> HIDE DEF r
  <2>6. \A i \in 1..Len(Asked') : Asked'[i] = Append(Asked, r)[i]
    BY <2>1, <2>2, <2>3, <2>4, <2>5, <1>3
  <2>7. Len(Asked') = Len(Append(Asked, r))
    BY <2>1, <2>2, <2>3, <2>4
  <2> QED BY <2>2, <2>4, <2>6, <2>7, SeqEqual
<1>9. Asked' \o run'.need = Asked \o run.need
  <2>1. run.need = <<r>> \o Tail(run.need)
    BY <1>2
  <2>2. Asked \in Seq(Ranges)
    BY AskedType
  <2>3. Append(Asked, r) = Asked \o <<r>>
    BY <2>2, <1>2, AppendIsConcat
  <2> HIDE DEF r
  <2>4. (Asked \o <<r>>) \o Tail(run.need) = Asked \o (<<r>> \o Tail(run.need))
    <3>1. \A a, b, c \in Seq(Ranges) : (a \o b) \o c = a \o (b \o c)
      <4> SUFFICES ASSUME NEW a \in Seq(Ranges), NEW b \in Seq(Ranges), NEW c \in Seq(Ranges)
                   PROVE  (a \o b) \o c = a \o (b \o c)
        OBVIOUS
      <4> QED BY ConcatAssociative, SMT
    <3>2. <<r>> \in Seq(Ranges) /\ Tail(run.need) \in Seq(Ranges)
      BY <1>2
    <3> QED BY <2>2, <3>1, <3>2, Zenon
  <2> QED BY <2>1, <2>3, <2>4, <1>4, <1>8
<1>10. ToSet(Asked') = ToSet(Asked) \cup {r}
  <2>1. /\ Asked \in Seq(Ranges) /\ DOMAIN Asked = 1..Len(Asked) /\ Len(Asked) \in Nat
    BY AskedType
  <2> HIDE DEF r
  <2>2. /\ DOMAIN Append(Asked, r) = 1..(Len(Asked) + 1)
        /\ Append(Asked, r)[Len(Asked) + 1] = r
        /\ \A i \in 1..Len(Asked) : Append(Asked, r)[i] = Asked[i]
    BY <2>1, <1>2, AppendProperties
  <2> QED BY <1>8, <2>1, <2>2 DEF ToSet
<1> QED BY <1>1, <1>2, <1>4, <1>5, <1>7, <1>8, <1>9, <1>10

\* A range that is not stored is downloaded.
LEMMA FetchStores ==
  ASSUME NEW pc, Fetch(pc), Head(run.need) \in Ranges
  PROVE  /\ objects' = objects \cup {Head(run.need)} /\ losses' = losses
         /\ \/ Head(run.need) \in objects /\ downloads' = downloads
            \/ /\ Head(run.need) \notin objects
               /\ downloads' = [downloads EXCEPT ![Head(run.need)] = @ + 1]
         /\ UNCHANGED <<disk, bounds>>
<1> DEFINE r == Head(run.need)
<1>1. CASE r \in objects
  BY <1>1 DEF Fetch, store
<1>2. CASE r \notin objects
  <2>1. /\ Store!Materialize(r) /\ downloads' = [downloads EXCEPT ![r] = @ + 1]
        /\ UNCHANGED <<disk, bounds>>
    BY <1>2 DEF Fetch
  <2>2. losses' = losses
    BY <2>1 DEF Store!Materialize
  <2>3. PICK twins \in SUBSET {y \in Ranges : [s \in Ranges |-> s][y] = [s \in Ranges |-> s][r]} :
           objects' = objects \cup twins /\ twins # {}
    BY <2>1 DEF Store!Materialize, Store!Holds
  <2>4. twins = {r}
    BY <2>3
  <2> QED BY <2>1, <2>2, <2>3, <2>4, <1>2
<1> QED BY <1>1, <1>2

LEMMA FetchKeeps ==
  ASSUME RunInv, NEW pc, Fetch(pc)
  PROVE  RunInv'
<1>1. /\ Head(run.need) \in Ranges /\ RunTypes'
      /\ ToSet(Asked') = ToSet(Asked) \cup {Head(run.need)}
  BY FetchAsks DEF RunInv
<1>2. /\ objects' = objects \cup {Head(run.need)} /\ losses' = losses
      /\ \/ Head(run.need) \in objects /\ downloads' = downloads
         \/ /\ Head(run.need) \notin objects
            /\ downloads' = [downloads EXCEPT ![Head(run.need)] = @ + 1]
  BY <1>1, FetchStores
<1>3. StoreTypes'
  BY <1>1, <1>2 DEF RunInv, StoreTypes
<1>4. TransfersCount'
  BY <1>1, <1>2 DEF RunInv, StoreTypes, TransfersCount
<1>5. AskedIsStored'
  BY <1>1, <1>2 DEF RunInv, AskedIsStored
<1> QED BY <1>1, <1>3, <1>4, <1>5 DEF RunInv

\* A run that begins or ends leaves the store.
LEMMA BoundaryKeeps ==
  ASSUME RunInv, UNCHANGED store,
         \/ run' = NoRun
         \/ \E b \in Builds : run' = [pc |-> "trunk", build |-> b, need |-> Trunk, got |-> <<>>]
  PROVE  RunInv' /\ Asked' = <<>>
<1>1. <<>> \in Seq(Ranges) /\ <<>> \in Seq(Fetches) /\ Trunk \in Seq(Ranges)
  <2>1. <<>> \in Seq(Ranges)
    OBVIOUS
  <2>2. <<>> \in Seq(Fetches)
    OBVIOUS
  <2> QED BY <2>1, <2>2, ConstantTypes
<1>2. RunTypes'
  <2>1. CASE run' = NoRun
    <3>1. NoRun \in [pc : Stages, build : Builds \cup {None}, need : Seq(Ranges), got : Seq(Fetches)]
      BY <1>1 DEF NoRun, Stages
    <3> QED BY <2>1, <3>1 DEF RunTypes, at, NoRun
  <2>2. CASE \E b \in Builds : run' = [pc |-> "trunk", build |-> b, need |-> Trunk, got |-> <<>>]
    <3>1. PICK b \in Builds : run' = [pc |-> "trunk", build |-> b, need |-> Trunk, got |-> <<>>]
      BY <2>2
    <3>2. run' \in [pc : Stages, build : Builds \cup {None}, need : Seq(Ranges), got : Seq(Fetches)]
      BY <1>1, <3>1 DEF Stages
    <3> QED BY <3>1, <3>2 DEF RunTypes, at
  <2> QED BY <2>1, <2>2
<1>3. run'.got = <<>>
  BY DEF NoRun
<1>4. Asked' = <<>>
  <2>1. Asked' \in Seq(Ranges) /\ Len(Asked') = 0
    BY <1>1, <1>3, RangesOf DEF Asked
  <2> QED BY <2>1, EmptySeq
<1>5. AskedIsStored'
  <2>1. ToSet(<<>>) = {}
    BY DEF ToSet
  <2> QED BY <1>4, <2>1 DEF AskedIsStored
<1>6. StoreTypes' /\ TransfersCount'
  BY DEF RunInv, StoreTypes, TransfersCount, store
<1> QED BY <1>2, <1>4, <1>5, <1>6 DEF RunInv

LEMMA StageKeeps ==
  ASSUME RunInv, ~at("idle"), UNCHANGED store,
         NEW pc \in Stages, pc # "idle", NEW need \in Seq(Ranges),
         run' = [run EXCEPT !.pc = pc, !.need = need]
  PROVE  /\ RunInv' /\ Asked' = Asked
         /\ run'.pc = pc /\ run'.need = need /\ run'.build = run.build /\ run'.got = run.got
<1>1. /\ run \in [pc : Stages, build : Builds \cup {None}, need : Seq(Ranges), got : Seq(Fetches)]
      /\ run.build \in Builds
  BY DEF RunInv, RunTypes
<1>2. /\ run'.pc = pc /\ run'.need = need /\ run'.build = run.build /\ run'.got = run.got
      /\ run' \in [pc : Stages, build : Builds \cup {None}, need : Seq(Ranges), got : Seq(Fetches)]
  BY <1>1
<1>3. RunTypes'
  BY <1>1, <1>2 DEF RunTypes, at
<1>4. Asked' = Asked
  BY <1>2 DEF Asked
<1>5. AskedIsStored' /\ StoreTypes' /\ TransfersCount'
  BY <1>4 DEF RunInv, AskedIsStored, StoreTypes, TransfersCount, store
<1> QED BY <1>2, <1>3, <1>4, <1>5 DEF RunInv

LEMMA GotoKeeps ==
  ASSUME RunInv, ~at("idle"), UNCHANGED store, NEW pc \in Stages, pc # "idle", Goto(pc)
  PROVE  /\ RunInv' /\ Asked' = Asked
         /\ run'.pc = pc /\ run'.need = run.need /\ run'.build = run.build /\ run'.got = run.got
<1>1. run \in [pc : Stages, build : Builds \cup {None}, need : Seq(Ranges), got : Seq(Fetches)]
  BY DEF RunInv, RunTypes
<1>2. run.need \in Seq(Ranges) /\ run' = [run EXCEPT !.pc = pc, !.need = run.need]
  BY <1>1 DEF Goto
<1> QED BY <1>2, StageKeeps

\* One object or none is lost, and counted.
LEMMA LoseKeeps ==
  ASSUME RunInv, Lose
  PROVE  RunInv' /\ UNCHANGED <<downloads, disk, run, bounds>>
<1>1. /\ losses' = losses + 1 /\ losses < MaxLosses /\ at("idle")
      /\ UNCHANGED <<downloads, disk, run, bounds>>
      /\ \E lost \in SUBSET objects :
           /\ \A x, y \in lost : [s \in Ranges |-> s][x] = [s \in Ranges |-> s][y]
           /\ objects' = objects \ lost
  BY DEF Lose, Store!Lose, Store!Holds
<1>2. PICK lost \in SUBSET objects :
        /\ \A x, y \in lost : [s \in Ranges |-> s][x] = [s \in Ranges |-> s][y]
        /\ objects' = objects \ lost
  BY <1>1
<1>3. \A x, y \in lost : x = y
  BY <1>2 DEF RunInv, StoreTypes
<1>4. StoreTypes'
  BY <1>1, <1>2, ConstantTypes DEF RunInv, StoreTypes
<1>5. TransfersCount'
  BY <1>1, <1>2 DEF RunInv, StoreTypes, TransfersCount
<1>6. RunTypes'
  BY <1>1 DEF RunInv, RunTypes, at
<1>7. run'.got = <<>>
  BY <1>1 DEF RunInv, RunTypes, NoRun
<1>8. AskedIsStored'
  BY <1>7 DEF AskedIsStored, Asked, ToSet
<1> QED BY <1>1, <1>4, <1>5, <1>6, <1>8 DEF RunInv

LEMMA EndKeeps ==
  ASSUME RunInv, run' = NoRun, UNCHANGED store
  PROVE  RunInv' /\ Asked' = <<>>
BY BoundaryKeeps

LEMMA StartKeeps ==
  ASSUME RunInv, NEW b \in Builds, StartOf(b, "trunk")
  PROVE  /\ RunInv' /\ Asked' = <<>> /\ run'.pc = "trunk" /\ run'.build = b /\ run'.need = Trunk
         /\ UNCHANGED disk /\ UNCHANGED stops /\ runs' = runs + 1
<1>1. run' = [pc |-> "trunk", build |-> b, need |-> Trunk, got |-> <<>>]
  BY DEF StartOf, NoRun
<1>2. UNCHANGED store /\ UNCHANGED disk /\ UNCHANGED stops /\ runs' = runs + 1
  BY DEF StartOf
<1>3. RunInv' /\ Asked' = <<>>
  BY <1>1, <1>2, BoundaryKeeps
<1> QED BY <1>1, <1>2, <1>3

-----------------------------------------------------------------------------
(* The assembly of the source and its conversion.                          *)

Assembled == {"describe", "convert", "write", "unlink", "verify"}

\* What a run has assembled and converted is of its build.
AssemblyFiles ==
  /\ run.pc \in Assembled \cup {"return"} => files.microshard = run.build
  /\ run.pc \in {"convert", "write", "unlink", "verify", "return"} => files.source = run.build
  /\ run.pc \in {"unlink", "verify", "return"} => files.k3x = run.build /\ ~partial
  /\ run.pc \in {"verify", "return"} => ledger = None

LEMMA DifferentFiles ==
  Files = {"routes", "oracle", "microshard", "source", "k3x", "artifact"}
  BY DEF Files

LEMMA FileWritten ==
  ASSUME DiskTypes, NEW f \in Files, NEW b \in Builds \cup {None}
  PROVE  /\ [files EXCEPT ![f] = b] \in [Files -> Builds \cup {None}]
         /\ [files EXCEPT ![f] = b][f] = b
         /\ \A g \in Files : g # f => [files EXCEPT ![f] = b][g] = files[g]
BY DEF DiskTypes

LEMMA AssemblingKeeps ==
  ASSUME RunInv, DiskTypes, AssemblyFiles, Assembling
  PROVE  /\ RunInv' /\ DiskTypes' /\ AssemblyFiles'
         /\ UNCHANGED <<store, bounds>>
         /\ files'.routes = files.routes /\ files'.oracle = files.oracle
         /\ files'.artifact = files.artifact
         /\ run.pc \in {"assemble"} \cup (Assembled \ {"verify"})
         /\ \/ run' = NoRun
            \/ run'.pc \in Assembled /\ run'.build = run.build /\ Asked' = Asked
         /\ files'.k3x # files.k3x => run.pc = "write" /\ files'.k3x = run.build
<1> DEFINE Leads(pc) == /\ RunInv' /\ Asked' = Asked
                       /\ run'.pc = pc /\ run'.build = run.build
<1>1. run.pc # "idle" => run.build \in Builds
  BY DEF RunInv, RunTypes, at
<1>2. ASSUME NEW pc \in Assembled, Goto(pc), UNCHANGED store, run.pc # "idle"
      PROVE  Leads(pc)
  <2>1. pc \in Stages /\ pc # "idle"
    BY DEF Assembled, Stages
  <2> QED BY <1>2, <2>1, GotoKeeps DEF at
<1>3. CASE AssembleMicroshard
  <2>1. /\ run.pc = "assemble" /\ Goto("describe") /\ UNCHANGED <<store, ledger, partial, bounds>>
        /\ files' = [files EXCEPT !.microshard = run.build]
    BY <1>3 DEF AssembleMicroshard, at
  <2>2. Leads("describe")
    BY <2>1, <1>2 DEF Assembled, store
  <2>3. /\ files' \in [Files -> Builds \cup {None}] /\ files'.microshard = run.build
        /\ files'.routes = files.routes /\ files'.oracle = files.oracle
        /\ files'.artifact = files.artifact /\ files'.k3x = files.k3x
    BY <2>1, <1>1, FileWritten, DifferentFiles
  <2> QED BY <2>1, <2>2, <2>3 DEF AssemblyFiles, Assembled, DiskTypes, bounds
<1>4. CASE AssembleManifest
  <2>1. /\ run.pc = "describe" /\ Goto("convert") /\ UNCHANGED <<store, ledger, partial, bounds>>
        /\ files' = [files EXCEPT !.source = run.build]
    BY <1>4 DEF AssembleManifest, at
  <2>2. Leads("convert")
    BY <2>1, <1>2 DEF Assembled, store
  <2>3. /\ files' \in [Files -> Builds \cup {None}] /\ files'.source = run.build
        /\ files'.routes = files.routes /\ files'.oracle = files.oracle
        /\ files'.artifact = files.artifact /\ files'.k3x = files.k3x
        /\ files'.microshard = files.microshard
    BY <2>1, <1>1, FileWritten, DifferentFiles
  <2> QED BY <2>1, <2>2, <2>3 DEF AssemblyFiles, Assembled, DiskTypes, bounds
<1>5. CASE StartConvert
  <2>1. run.pc = "convert" /\ UNCHANGED <<store, files, bounds>>
    BY <1>5 DEF StartConvert, at
  <2>2. \/ ledger' = run.build /\ partial' = TRUE /\ Goto("write")
        \/ UNCHANGED <<ledger, partial>> /\ run' = NoRun
        \/ UNCHANGED <<ledger, partial>> /\ Goto("write")
        \/ UNCHANGED <<ledger, partial>> /\ ~partial /\ files.k3x = run.build /\ Goto("unlink")
    BY <1>5 DEF StartConvert
  <2>3. DiskTypes'
    BY <2>1, <2>2, <1>1 DEF DiskTypes, bounds
  <2>4. CASE run' = NoRun
    <3>1. RunInv' /\ run'.pc = "idle"
      BY <2>1, <2>4, EndKeeps DEF store, NoRun
    <3> QED BY <2>1, <2>3, <2>4, <3>1 DEF AssemblyFiles, Assembled
  <2>5. CASE Goto("write")
    <3>1. Leads("write")
      BY <2>1, <2>5, <1>2 DEF Assembled, store
    <3> QED BY <2>1, <2>3, <3>1 DEF AssemblyFiles, Assembled
  <2>6. CASE UNCHANGED <<ledger, partial>> /\ ~partial /\ files.k3x = run.build /\ Goto("unlink")
    <3>1. Leads("unlink")
      BY <2>1, <2>6, <1>2 DEF Assembled, store
    <3> QED BY <2>1, <2>3, <2>6, <3>1 DEF AssemblyFiles, Assembled
  <2> QED BY <2>2, <2>4, <2>5, <2>6
<1>6. CASE PublishK3x
  <2>1. /\ run.pc = "write" /\ Goto("unlink") /\ UNCHANGED <<store, ledger, bounds>>
        /\ files' = [files EXCEPT !.k3x = run.build] /\ partial' = FALSE
    BY <1>6 DEF PublishK3x, at
  <2>2. Leads("unlink")
    BY <2>1, <1>2 DEF Assembled, store
  <2>3. /\ files' \in [Files -> Builds \cup {None}] /\ files'.k3x = run.build
        /\ files'.routes = files.routes /\ files'.oracle = files.oracle
        /\ files'.artifact = files.artifact /\ files'.source = files.source
        /\ files'.microshard = files.microshard
    BY <2>1, <1>1, FileWritten, DifferentFiles
  <2> QED BY <2>1, <2>2, <2>3 DEF AssemblyFiles, Assembled, DiskTypes, bounds
<1>7. CASE UnlinkLedger
  <2>1. /\ run.pc = "unlink" /\ Goto("verify") /\ UNCHANGED <<store, files, partial, bounds>>
        /\ ledger' = None
    BY <1>7 DEF UnlinkLedger, at
  <2>2. Leads("verify")
    BY <2>1, <1>2 DEF Assembled, store
  <2> QED BY <2>1, <2>2 DEF AssemblyFiles, Assembled, DiskTypes, bounds
<1> QED BY <1>3, <1>4, <1>5, <1>6, <1>7 DEF Assembling

-----------------------------------------------------------------------------
(* The MoE builder.                                                        *)

\* What a run asked for and still wants is what its routes say.
MoeAsked ==
  /\ run.pc = "trunk" => Asked \o run.need = Trunk
  /\ run.pc = "publish" => Asked = Trunk
  /\ run.pc = "experts" => Asked \o run.need = Trunk \o MoeSelected(run.build)
  /\ run.pc \in {"assemble", "return"} \cup Assembled => Asked = Trunk \o MoeSelected(run.build)

\* From the routes to the artifact, the manifest has no artifact.
MoeManifest ==
  run.pc \in {"experts", "assemble"} \cup Assembled =>
    files.artifact = None /\ files.routes = run.build

MoeStages == {"idle", "trunk", "publish", "experts", "assemble", "return"} \cup Assembled

MoeInv ==
  /\ RunInv /\ DiskTypes /\ run.pc \in MoeStages
  /\ AssemblyFiles /\ MoeAsked /\ MoeManifest /\ RecordIsOfOneBuild

\* What a run of the MoE builder asks for.
LEMMA MoeSelection ==
  ASSUME NEW b \in Builds
  PROVE  /\ MoeSelected(b) \in Seq(Experts) /\ MoeSelected(b) \in Seq(Ranges)
         /\ ToSet(MoeSelected(b)) = ToSet(Routes[b][1]) \cup ToSet(Routes[b][2])
         /\ Trunk \o MoeSelected(b) \in Seq(Ranges) /\ ~Repeats(Trunk \o MoeSelected(b))
         /\ ToSet(Trunk \o MoeSelected(b)) = ToSet(Trunk) \cup ToSet(MoeSelected(b))
<1>1. /\ Routes[b][1] \in Seq(Experts) /\ ~Repeats(Routes[b][1])
      /\ Routes[b][2] \in Seq(Experts) /\ ~Repeats(Routes[b][2])
  BY ConstantTypes
<1>2. /\ MoeSelected(b) \in Seq(Experts) /\ ~Repeats(MoeSelected(b))
      /\ ToSet(MoeSelected(b)) = ToSet(Routes[b][1]) \cup ToSet(Routes[b][2])
  BY <1>1, FirstUseProperties DEF MoeSelected
<1>3. ToSet(MoeSelected(b)) \subseteq Experts
  BY <1>2 DEF ToSet
<1>4. MoeSelected(b) \in Seq(Ranges)
  BY <1>2, ConstantTypes
<1>5. /\ Trunk \in Seq(Ranges) /\ ~Repeats(Trunk)
      /\ ToSet(Trunk) \cap ToSet(MoeSelected(b)) = {}
  BY <1>3, ConstantTypes
<1> QED BY <1>2, <1>4, <1>5, ConcatFresh

LEMMA MoeInvInit == MoeInit => MoeInv
<1> SUFFICES ASSUME MoeInit PROVE MoeInv
  OBVIOUS
<1>1. RunInv /\ DiskTypes
  BY RunInvInit DEF MoeInit
<1>2. run.pc = "idle" /\ files.artifact = None
  BY DEF MoeInit, FixtureInit, NoRun
<1> QED BY <1>1, <1>2 DEF MoeInv, MoeStages, AssemblyFiles, MoeAsked, MoeManifest, RecordIsOfOneBuild,
                          Assembled

LEMMA MoeInvStep == MoeInv /\ [MoeNext]_fixtureVars => MoeInv'
<1> SUFFICES ASSUME MoeInv, [MoeNext]_fixtureVars PROVE MoeInv'
  OBVIOUS
<1>1. RunInv /\ DiskTypes /\ (run.pc # "idle" => run.build \in Builds)
  BY DEF MoeInv, RunInv, RunTypes, at
<1>2. CASE UNCHANGED fixtureVars
  <2>1. /\ UNCHANGED <<objects, downloads, losses, files, ledger, partial, run, runs, stops>>
        /\ (Asked)' = Asked
    BY <1>2 DEF fixtureVars, store, disk, bounds, Asked
  <2>2. RunInv'
    BY <2>1, SMTT(30) DEF MoeInv, RunInv, RunTypes, StoreTypes, TransfersCount, AskedIsStored, Asked, at
  <2>3. (DiskTypes /\ AssemblyFiles /\ MoeManifest /\ RecordIsOfOneBuild)'
    BY <2>1, SMTT(30) DEF MoeInv, DiskTypes, AssemblyFiles, MoeManifest, RecordIsOfOneBuild
  <2>4. (run.pc \in MoeStages /\ MoeAsked)'
    BY <2>1, SMTT(30) DEF MoeInv, MoeStages, MoeAsked
  <2> QED BY <2>2, <2>3, <2>4 DEF MoeInv
\* A run that ends, and the run that begins.
<1>3. ASSUME run' = NoRun, UNCHANGED <<store, disk, runs>>, stops' \in Nat, stops' <= MaxStops
      PROVE  MoeInv'
  <2>1. RunInv' /\ run'.pc = "idle"
    BY <1>1, <1>3, EndKeeps DEF NoRun
  <2>2. DiskTypes'
    BY <1>1, <1>3 DEF DiskTypes, disk
  <2> QED BY <1>3, <2>1, <2>2 DEF MoeInv, MoeStages, AssemblyFiles, MoeAsked, MoeManifest,
                                  RecordIsOfOneBuild, Assembled, disk
\* The same when no counter moves.
<1>4. ASSUME run' = NoRun, UNCHANGED <<store, disk, bounds>>
       PROVE  MoeInv'
  BY <1>1, <1>3, <1>4 DEF bounds, DiskTypes
<1>5. ASSUME NEW b \in Builds, MoeStart(b)
      PROVE  MoeInv'
  <2>1. /\ RunInv' /\ Asked' = <<>> /\ run'.pc = "trunk" /\ run'.build = b /\ run'.need = Trunk
        /\ UNCHANGED disk /\ UNCHANGED stops /\ runs' = runs + 1
    BY <1>1, <1>5, StartKeeps DEF MoeStart
  <2>2. DiskTypes'
    BY <1>1, <2>1 DEF DiskTypes, disk
  <2>3. Asked' \o run'.need = Trunk
    BY <2>1, ConstantTypes
  <2> QED BY <2>1, <2>2, <2>3 DEF MoeInv, MoeStages, AssemblyFiles, MoeAsked, MoeManifest,
                                  RecordIsOfOneBuild, Assembled, disk
<1>6. ASSUME NEW pc \in {"trunk", "experts"}, Fetch(pc)
      PROVE  MoeInv'
  <2>1. /\ run'.pc = run.pc /\ run.pc = pc /\ run'.build = run.build
        /\ Asked' \o run'.need = Asked \o run.need /\ Head(run.need) \in Ranges
    BY <1>1, <1>6, FetchAsks DEF RunInv
  <2>2. RunInv' /\ UNCHANGED <<disk, bounds>>
    BY <1>1, <1>6, <2>1, FetchKeeps, FetchStores
  <2> QED BY <1>1, <2>1, <2>2 DEF MoeInv, MoeStages, AssemblyFiles, MoeAsked, MoeManifest,
                                  RecordIsOfOneBuild, Assembled, disk, bounds, DiskTypes
<1>7. ASSUME NEW pc \in {"trunk", "experts"}, Fetched(pc)
      PROVE  Asked = Asked \o run.need /\ run.pc = pc /\ ~at("idle")
  <2>1. Asked \in Seq(Ranges)
    BY <1>1, AskedType DEF RunInv
  <2> QED BY <1>7, <2>1 DEF Fetched, at
<1>8. CASE DeriveMoeRoutes
  <2>1. Fetched("trunk") /\ UNCHANGED <<store, disk, bounds>> /\ (run' = NoRun \/ Goto("publish"))
    BY <1>8 DEF DeriveMoeRoutes
  <2>2. CASE run' = NoRun
    BY <2>1, <2>2, <1>4
  <2>3. CASE Goto("publish")
    <3>1. RunInv' /\ Asked' = Asked /\ run'.pc = "publish" /\ run'.build = run.build
      BY <1>1, <1>7, <2>1, <2>3, GotoKeeps DEF Stages
    <3>2. Asked = Trunk
      BY <1>7, <2>1 DEF MoeInv, MoeAsked
    <3> QED BY <1>1, <2>1, <3>1, <3>2
            DEF MoeInv, MoeStages, AssemblyFiles, MoeAsked, MoeManifest, RecordIsOfOneBuild, Assembled,
                disk, bounds, DiskTypes
  <2> QED BY <2>1, <2>2, <2>3
<1>9. CASE PublishMoeRoutes
  <2>1. /\ run.pc = "publish" /\ ~at("idle") /\ UNCHANGED <<store, ledger, partial, bounds>>
        /\ files' = [files EXCEPT !.routes = run.build, !.artifact = None]
        /\ run' = [run EXCEPT !.pc = "experts", !.need = MoeSelected(run.build)]
    BY <1>9 DEF PublishMoeRoutes, at
  <2>2. MoeSelected(run.build) \in Seq(Ranges)
    BY <1>1, <2>1, MoeSelection
  <2>3. /\ RunInv' /\ Asked' = Asked /\ run'.pc = "experts" /\ run'.build = run.build
        /\ run'.need = MoeSelected(run.build)
    BY <1>1, <2>1, <2>2, StageKeeps DEF Stages
  <2>4. files' \in [Files -> Builds \cup {None}] /\ files'.routes = run.build /\ files'.artifact = None
    BY <1>1, <2>1 DEF DiskTypes, Files
  <2>5. Asked' \o run'.need = Trunk \o MoeSelected(run'.build)
    BY <2>1, <2>3 DEF MoeInv, MoeAsked
  <2> QED BY <1>1, <2>1, <2>3, <2>4, <2>5
          DEF MoeInv, MoeStages, AssemblyFiles, MoeAsked, MoeManifest, RecordIsOfOneBuild, Assembled,
              bounds, DiskTypes
<1>10. CASE LayOutMoe
  <2>1. Fetched("experts") /\ UNCHANGED <<store, disk, bounds>> /\ (run' = NoRun \/ Goto("assemble"))
    BY <1>10 DEF LayOutMoe
  <2>2. CASE run' = NoRun
    BY <2>1, <2>2, <1>4
  <2>3. CASE Goto("assemble")
    <3>1. RunInv' /\ Asked' = Asked /\ run'.pc = "assemble" /\ run'.build = run.build
      BY <1>1, <1>7, <2>1, <2>3, GotoKeeps DEF Stages
    <3>2. Asked = Trunk \o MoeSelected(run.build) /\ run.pc = "experts"
      BY <1>7, <2>1 DEF MoeInv, MoeAsked
    <3> QED BY <1>1, <2>1, <3>1, <3>2
            DEF MoeInv, MoeStages, AssemblyFiles, MoeAsked, MoeManifest, RecordIsOfOneBuild, Assembled,
                disk, bounds, DiskTypes
  <2> QED BY <2>1, <2>2, <2>3
<1>11. CASE Assembling
  <2>1. /\ RunInv' /\ DiskTypes' /\ AssemblyFiles'
        /\ UNCHANGED <<store, bounds>>
        /\ files'.routes = files.routes /\ files'.artifact = files.artifact
        /\ run.pc \in {"assemble"} \cup (Assembled \ {"verify"})
        /\ \/ run' = NoRun
           \/ run'.pc \in Assembled /\ run'.build = run.build /\ Asked' = Asked
    BY <1>1, <1>11, AssemblingKeeps DEF MoeInv
  <2>2. files.artifact = None /\ files.routes = run.build /\ Asked = Trunk \o MoeSelected(run.build)
    BY <2>1 DEF MoeInv, MoeAsked, MoeManifest
  <2>3. CASE run' = NoRun
    <3>1. run'.pc = "idle"
      BY <2>3 DEF NoRun
    <3> QED BY <2>1, <2>2, <3>1 DEF MoeInv, MoeStages, MoeAsked, MoeManifest, RecordIsOfOneBuild, Assembled
  <2>4. CASE run'.pc \in Assembled /\ run'.build = run.build /\ Asked' = Asked
    BY <2>1, <2>2, <2>4 DEF MoeInv, MoeStages, MoeAsked, MoeManifest, RecordIsOfOneBuild, Assembled
  <2> QED BY <2>1, <2>3, <2>4
<1>12. CASE RecordMoe
  <2>1. /\ run.pc = "verify" /\ ~at("idle") /\ Goto("return")
        /\ files' = [files EXCEPT !.routes = run.build, !.artifact = run.build]
        /\ UNCHANGED <<store, ledger, partial, bounds>>
    BY <1>12 DEF RecordMoe, at
  <2>2. RunInv' /\ Asked' = Asked /\ run'.pc = "return" /\ run'.build = run.build
    BY <1>1, <2>1, GotoKeeps DEF Stages
  <2>3. /\ files' \in [Files -> Builds \cup {None}] /\ files'.routes = run.build
        /\ files'.artifact = run.build /\ files'.microshard = files.microshard
        /\ files'.source = files.source /\ files'.k3x = files.k3x
    BY <1>1, <2>1 DEF DiskTypes, Files
  <2> QED BY <1>1, <2>1, <2>2, <2>3
          DEF MoeInv, MoeStages, AssemblyFiles, MoeAsked, MoeManifest, RecordIsOfOneBuild, Assembled,
              bounds, DiskTypes
<1>13. CASE Return
  BY <1>13, <1>4 DEF Return
<1>14. CASE Stop
  BY <1>1, <1>14, <1>3, ConstantTypes DEF Stop, DiskTypes
<1>15. CASE Lose
  <2>1. RunInv' /\ UNCHANGED <<downloads, disk, run, bounds>>
    BY <1>1, <1>15, LoseKeeps
  <2>2. Asked' = Asked
    BY <2>1 DEF Asked
  <2> QED BY <2>1, <2>2
          DEF MoeInv, MoeStages, AssemblyFiles, MoeAsked, MoeManifest, RecordIsOfOneBuild, Assembled,
              disk, bounds, DiskTypes
<1> QED BY <1>2, <1>5, <1>6, <1>8, <1>9, <1>10, <1>11, <1>12, <1>13, <1>14, <1>15
        DEF MoeNext, MoeStep, FetchMoeTrunk, FetchMoeExperts

LEMMA MoeInvAlways == MoeSpec => []MoeInv
<1>1. MoeInit => MoeInv
  BY MoeInvInit
<1>2. MoeInv /\ [MoeNext]_fixtureVars => MoeInv'
  BY MoeInvStep
<1> QED BY <1>1, <1>2, PTL DEF MoeSpec

LEMMA MoeInvImplies == MoeInv => ArtifactIsDescribed
<1> SUFFICES ASSUME MoeInv PROVE MoeTypeOK /\ RecordIsOfOneBuild /\ NothingTwice
  BY DEF ArtifactIsDescribed
<1>1. NothingTwice
  BY DEF MoeInv, RunInv, StoreTypes, TransfersCount, NothingTwice
<1>2. RecordIsOfOneBuild
  BY DEF MoeInv
<1>3. /\ objects \subseteq Ranges /\ losses <= MaxLosses /\ stops <= MaxStops
      /\ DOMAIN files = Files /\ \A f \in Files : files[f] \in Builds \cup {None}
      /\ ledger \in Builds \cup {None} /\ partial \in BOOLEAN
  BY DEF MoeInv, RunInv, StoreTypes, DiskTypes
<1>4. run.build \in Builds \cup {None} /\ (run.build = None <=> at("idle"))
  BY ConstantTypes DEF MoeInv, RunInv, RunTypes, NoRun, at
<1>5. ToSet(run.need) \subseteq Ranges
  BY DEF MoeInv, RunInv, RunTypes, ToSet
<1>6. MoeTypeOK
  BY <1>3, <1>4, <1>5 DEF MoeInv, MoeStages, Assembled, MoeTypeOK, FixtureTypeOK
<1> QED BY <1>1, <1>2, <1>6

\* The artifact recorded in a directory is described by the files there, of
\* one build, and no range is transferred again unless its object was lost.
THEOREM FixtureArtifact == MoeSpec => []ArtifactIsDescribed
BY MoeInvAlways, MoeInvImplies, PTL

LEMMA MoeStepsAreWhole ==
  MoeInv /\ [MoeNext]_fixtureVars =>
    [builder = "moe" => ConvertsWholeSource /\ ExpertsFollowRoutes /\ ReportCountsOnce]_fixtureVars
<1> SUFFICES ASSUME MoeInv, MoeNext
             PROVE  ConvertsWholeSource /\ ExpertsFollowRoutes /\ ReportCountsOnce
  OBVIOUS
<1>1. RunInv /\ DiskTypes /\ (run.pc # "idle" => run.build \in Builds)
  BY DEF MoeInv, RunInv, RunTypes, at
<1>2. files'.k3x = files.k3x \/ Assembling
  BY <1>1 DEF MoeNext, MoeStep, MoeStart, StartOf, FetchMoeTrunk, DeriveMoeRoutes, PublishMoeRoutes,
        FetchMoeExperts, Fetch, LayOutMoe, RecordMoe, Return, Stop, Lose, disk, DiskTypes, Files
<1>3. ConvertsWholeSource
  <2> SUFFICES ASSUME files'.k3x # files.k3x
               PROVE  \A f \in {"routes", "microshard", "source"} : files[f] = files'.k3x
    BY DEF ConvertsWholeSource
  <2>1. run.pc = "write" /\ files'.k3x = run.build
    BY <1>1, <1>2, AssemblingKeeps DEF MoeInv
  <2> QED BY <2>1 DEF MoeInv, MoeManifest, AssemblyFiles, Assembled
<1>4. downloads' = downloads \/ Fetch("trunk") \/ Fetch("experts")
  BY DEF MoeNext, MoeStep, MoeStart, StartOf, FetchMoeTrunk, DeriveMoeRoutes, PublishMoeRoutes,
        FetchMoeExperts, LayOutMoe, RecordMoe, Return, Stop, Lose, store, Assembling,
        AssembleMicroshard, AssembleManifest, StartConvert, PublishK3x, UnlinkLedger
<1>5. ExpertsFollowRoutes
  <2> SUFFICES ASSUME NEW r \in Experts, downloads'[r] # downloads[r]
               PROVE  /\ files.routes = run.build
                      /\ r \in ToSet(Routes[run.build][1]) \cup ToSet(Routes[run.build][2])
    BY DEF ExpertsFollowRoutes
  <2>1. PICK pc \in {"trunk", "experts"} : Fetch(pc)
    BY <1>4
  <2>2. run.pc = pc /\ Head(run.need) \in Ranges /\ Head(run.need) \in ToSet(run.need)
    BY <1>1, <2>1, FetchAsks DEF RunInv
  <2>3. r = Head(run.need)
    <3>1. \/ downloads' = downloads
          \/ downloads' = [downloads EXCEPT ![Head(run.need)] = @ + 1]
      BY <2>1, <2>2, FetchStores
    <3>2. downloads \in [Ranges -> Nat] /\ r \in Ranges
      BY <1>1, ConstantTypes DEF RunInv, StoreTypes
    <3> QED BY <3>1, <3>2
  <2>4. /\ Asked \in Seq(Ranges) /\ run.need \in Seq(Ranges) /\ run.build \in Builds
    BY <1>1, <2>2, AskedType DEF RunInv, RunTypes
  <2>5. r \in ToSet(Asked \o run.need)
    <3>1. PICK i \in 1..Len(run.need) : r = run.need[i]
      BY <2>2, <2>3, <2>4 DEF ToSet
    <3>2. /\ (Asked \o run.need)[i + Len(Asked)] = run.need[i]
          /\ i + Len(Asked) \in DOMAIN (Asked \o run.need)
      BY <2>4, ConcatProperties
    <3> QED BY <3>1, <3>2 DEF ToSet
  <2>6. CASE pc = "trunk"
    <3>1. r \in ToSet(Trunk)
      BY <2>2, <2>5, <2>6 DEF MoeInv, MoeAsked
    <3> QED BY <3>1, ConstantTypes
  <2>7. CASE pc = "experts"
    <3>1. r \in ToSet(Trunk) \cup ToSet(MoeSelected(run.build))
      BY <2>2, <2>4, <2>5, <2>7, MoeSelection DEF MoeInv, MoeAsked
    <3>2. r \in ToSet(Routes[run.build][1]) \cup ToSet(Routes[run.build][2])
      BY <2>4, <3>1, ConstantTypes, MoeSelection
    <3> QED BY <2>2, <2>7, <3>2 DEF MoeInv, MoeManifest
  <2> QED BY <2>6, <2>7
<1>6. ReportCountsOnce
  <2> SUFFICES ASSUME Return
               PROVE  /\ AskedOnce
                      /\ ToSet(Asked) = ToSet(Trunk)
                           \cup UNION {ToSet(Routes[run.build][i]) : i \in {1, 2}}
                      /\ ToSet(Asked) \subseteq objects
    BY DEF ReportCountsOnce
  <2>1. run.pc = "return"
    BY DEF Return, at
  <2>2. Asked = Trunk \o MoeSelected(run.build)
    BY <2>1 DEF MoeInv, MoeAsked
  <2>3. /\ ~Repeats(Asked)
        /\ ToSet(Asked) = ToSet(Trunk) \cup (ToSet(Routes[run.build][1]) \cup ToSet(Routes[run.build][2]))
    BY <1>1, <2>1, <2>2, MoeSelection
  <2>4. UNION {ToSet(Routes[run.build][i]) : i \in {1, 2}}
          = ToSet(Routes[run.build][1]) \cup ToSet(Routes[run.build][2])
    OBVIOUS
  <2> QED BY <1>1, <2>3, <2>4 DEF AskedOnce, RunInv, AskedIsStored
<1> QED BY <1>3, <1>5, <1>6

\* A run converts only a whole source with durable routes, asks for no
\* expert before the routes that select it, and returns a report that counts
\* every range once.
THEOREM FixtureRuns == MoeSpec => RunsAreWhole
<1>1. MoeInv /\ [MoeNext]_fixtureVars =>
        [builder = "moe" => ConvertsWholeSource /\ ExpertsFollowRoutes /\ ReportCountsOnce]_fixtureVars
  BY MoeStepsAreWhole
<1> QED BY <1>1, MoeInvAlways, PTL DEF MoeSpec, RunsAreWhole

-----------------------------------------------------------------------------
(* The layer builder.                                                      *)

\* From the oracle to the artifact, the oracle is of the build of the run.
OracleIsThere ==
  run.pc \in {"publish", "experts", "assemble"} \cup Assembled => files.oracle = run.build

LayerStages == MoeStages \cup {"oracle"}

LayerInv ==
  /\ RunInv /\ DiskTypes /\ run.pc \in LayerStages
  /\ AssemblyFiles /\ OracleIsThere

\* The MoE builder refuses two cases with the same experts; the layer builder
\* does not ask.
RoutesDiffer == \A b \in Builds : ToSet(Routes[b][1]) # ToSet(Routes[b][2])

LEMMA LayerSelection ==
  ASSUME NEW b \in Builds
  PROVE  LayerSelected(b) = MoeSelected(b) /\ LayerSelected(b) \in Seq(Ranges)
<1>1. LayerSelected(b) = MoeSelected(b)
  <2>1. \A other, one : Moe!Unused(other, one) = Unused(other, one)
    BY Zenon DEF Unused, Moe!Unused, ToSet, Moe!ToSet
  <2> QED BY <2>1, Zenon DEF LayerSelected, MoeSelected, FirstUse, Moe!FirstUse
<1> QED BY <1>1, MoeSelection

LEMMA LayerInvInit == LayerInit => LayerInv
<1> SUFFICES ASSUME LayerInit PROVE LayerInv
  OBVIOUS
<1>1. RunInv /\ DiskTypes
  BY RunInvInit DEF LayerInit
<1>2. run.pc = "idle"
  BY DEF LayerInit, FixtureInit, NoRun
<1> QED BY <1>1, <1>2 DEF LayerInv, LayerStages, MoeStages, AssemblyFiles, OracleIsThere, Assembled

LEMMA LayerInvStep == LayerInv /\ [LayerNext]_fixtureVars => LayerInv'
<1> SUFFICES ASSUME LayerInv, [LayerNext]_fixtureVars PROVE LayerInv'
  OBVIOUS
<1>1. RunInv /\ DiskTypes /\ (run.pc # "idle" => run.build \in Builds)
  BY DEF LayerInv, RunInv, RunTypes, at
<1>2. CASE UNCHANGED fixtureVars
  BY <1>2 DEF LayerInv, fixtureVars, store, disk, bounds, RunInv, RunTypes, StoreTypes, TransfersCount,
              AskedIsStored, Asked, at, DiskTypes, AssemblyFiles, OracleIsThere
\* A run that ends, and the run that begins.
<1>3. ASSUME run' = NoRun, UNCHANGED <<store, disk, runs>>, stops' \in Nat, stops' <= MaxStops
      PROVE  LayerInv'
  <2>1. RunInv' /\ run'.pc = "idle"
    BY <1>1, <1>3, EndKeeps DEF NoRun
  <2>2. DiskTypes'
    BY <1>1, <1>3 DEF DiskTypes, disk
  <2> QED BY <1>3, <2>1, <2>2 DEF LayerInv, LayerStages, MoeStages, AssemblyFiles, OracleIsThere,
                                  Assembled, disk
<1>4. ASSUME run' = NoRun, UNCHANGED <<store, disk, bounds>>
      PROVE  LayerInv'
  BY <1>1, <1>3, <1>4 DEF bounds, DiskTypes
<1>5. ASSUME NEW b \in Builds, LayerStart(b)
      PROVE  LayerInv'
  <2>1. /\ RunInv' /\ run'.pc = "trunk"
        /\ UNCHANGED disk /\ UNCHANGED stops /\ runs' = runs + 1
    BY <1>1, <1>5, StartKeeps DEF LayerStart
  <2>2. DiskTypes'
    BY <1>1, <2>1 DEF DiskTypes, disk
  <2> QED BY <2>1, <2>2 DEF LayerInv, LayerStages, MoeStages, AssemblyFiles, OracleIsThere, Assembled
<1>6. ASSUME NEW pc \in {"trunk", "experts"}, Fetch(pc)
      PROVE  LayerInv'
  <2>1. run'.pc = run.pc /\ run'.build = run.build /\ Head(run.need) \in Ranges
    BY <1>1, <1>6, FetchAsks DEF RunInv
  <2>2. RunInv' /\ UNCHANGED <<disk, bounds>>
    BY <1>1, <1>6, <2>1, FetchKeeps, FetchStores
  <2> QED BY <1>1, <2>1, <2>2 DEF LayerInv, AssemblyFiles, OracleIsThere, disk, bounds, DiskTypes
\* A run that goes on with the files as they are.
<1>7. ASSUME NEW pc \in {"oracle", "assemble"}, Goto(pc), ~at("idle"), UNCHANGED <<store, disk, bounds>>,
             pc = "assemble" => run.pc = "experts"
      PROVE  LayerInv'
  <2>1. RunInv' /\ run'.pc = pc /\ run'.build = run.build
    BY <1>1, <1>7, GotoKeeps DEF Stages
  <2> QED BY <1>1, <1>7, <2>1 DEF LayerInv, LayerStages, MoeStages, AssemblyFiles, OracleIsThere,
                                  Assembled, disk, bounds, DiskTypes
<1>8. CASE DeriveLayerRoutes
  BY <1>8, <1>7 DEF DeriveLayerRoutes, Fetched, at
<1>9. CASE IncrementalMismatch
  BY <1>1, <1>9, <1>3, ConstantTypes DEF IncrementalMismatch, DiskTypes
<1>10. CASE PublishLayerOracle
  <2>1. /\ run.pc = "oracle" /\ ~at("idle") /\ Goto("publish")
        /\ files' = [files EXCEPT !.oracle = run.build]
        /\ UNCHANGED <<store, ledger, partial, bounds>>
    BY <1>10 DEF PublishLayerOracle, at
  <2>2. RunInv' /\ run'.pc = "publish" /\ run'.build = run.build
    BY <1>1, <2>1, GotoKeeps DEF Stages
  <2>3. files' \in [Files -> Builds \cup {None}] /\ files'.oracle = run.build
    BY <1>1, <2>1 DEF DiskTypes, Files
  <2> QED BY <1>1, <2>1, <2>2, <2>3 DEF LayerInv, LayerStages, MoeStages, AssemblyFiles, OracleIsThere,
                                        Assembled, bounds, DiskTypes
<1>11. CASE PublishLayerRoutes
  <2>1. /\ run.pc = "publish" /\ ~at("idle") /\ UNCHANGED <<store, ledger, partial, bounds>>
        /\ files' = [files EXCEPT !.routes = run.build, !.artifact = None]
        /\ run' = [run EXCEPT !.pc = "experts", !.need = LayerSelected(run.build)]
    BY <1>11 DEF PublishLayerRoutes, at
  <2>2. LayerSelected(run.build) \in Seq(Ranges)
    BY <1>1, <2>1, LayerSelection
  <2>3. RunInv' /\ run'.pc = "experts" /\ run'.build = run.build
    BY <1>1, <2>1, <2>2, StageKeeps DEF Stages
  <2>4. files' \in [Files -> Builds \cup {None}] /\ files'.oracle = files.oracle
    BY <1>1, <2>1 DEF DiskTypes, Files
  <2> QED BY <1>1, <2>1, <2>3, <2>4 DEF LayerInv, LayerStages, MoeStages, AssemblyFiles, OracleIsThere,
                                        Assembled, bounds, DiskTypes
<1>12. CASE LayOutLayer
  <2>1. Fetched("experts") /\ UNCHANGED <<store, disk, bounds>> /\ (run' = NoRun \/ Goto("assemble"))
    BY <1>12 DEF LayOutLayer
  <2> QED BY <2>1, <1>4, <1>7 DEF Fetched, at
<1>13. CASE Assembling
  <2>1. /\ RunInv' /\ DiskTypes' /\ AssemblyFiles' /\ files'.oracle = files.oracle
        /\ run.pc \in {"assemble"} \cup (Assembled \ {"verify"})
        /\ \/ run' = NoRun
           \/ run'.pc \in Assembled /\ run'.build = run.build
    BY <1>1, <1>13, AssemblingKeeps DEF LayerInv
  <2>2. run'.pc \in {"idle"} \/ (run'.pc \in Assembled /\ run'.build = run.build)
    BY <2>1 DEF NoRun
  <2> QED BY <2>1, <2>2 DEF LayerInv, LayerStages, MoeStages, OracleIsThere, Assembled
<1>14. CASE RecordLayer
  <2>1. /\ run.pc = "verify" /\ ~at("idle") /\ Goto("return")
        /\ files' = [files EXCEPT !.routes = run.build, !.artifact = run.build]
        /\ UNCHANGED <<store, ledger, partial, bounds>>
    BY <1>14 DEF RecordLayer, at
  <2>2. RunInv' /\ run'.pc = "return" /\ run'.build = run.build
    BY <1>1, <2>1, GotoKeeps DEF Stages
  <2>3. /\ files' \in [Files -> Builds \cup {None}] /\ files'.microshard = files.microshard
        /\ files'.source = files.source /\ files'.k3x = files.k3x
    BY <1>1, <2>1 DEF DiskTypes, Files
  <2> QED BY <1>1, <2>1, <2>2, <2>3 DEF LayerInv, LayerStages, MoeStages, AssemblyFiles, OracleIsThere,
                                        Assembled, bounds, DiskTypes
<1>15. CASE Return
  BY <1>15, <1>4 DEF Return
<1>16. CASE Stop
  BY <1>1, <1>16, <1>3, ConstantTypes DEF Stop, DiskTypes
<1>17. CASE Lose
  <2>1. RunInv' /\ UNCHANGED <<downloads, disk, run, bounds>>
    BY <1>1, <1>17, LoseKeeps
  <2> QED BY <2>1 DEF LayerInv, AssemblyFiles, OracleIsThere, disk, bounds, DiskTypes
<1> QED BY <1>2, <1>5, <1>6, <1>8, <1>9, <1>10, <1>11, <1>12, <1>13, <1>14, <1>15, <1>16, <1>17
        DEF LayerNext, LayerStep, FetchLayerTrunk, FetchLayerExperts

LEMMA LayerInvAlways == LayerSpec => []LayerInv
<1>1. LayerInit => LayerInv
  BY LayerInvInit
<1>2. LayerInv /\ [LayerNext]_fixtureVars => LayerInv'
  BY LayerInvStep
<1> QED BY <1>1, <1>2, PTL DEF LayerSpec

\* What the MoE builder is said to see of the state, before and after a step.
SeenFiles == [files EXCEPT !.oracle = None]
SeenRun == IF at("oracle") THEN [run EXCEPT !.pc = "publish"] ELSE run

LEMMA LayerStartsAsMoe == LayerInit => Moe!MoeInit
<1> SUFFICES ASSUME LayerInit PROVE Moe!MoeInit
  OBVIOUS
<1>1. SeenRun = NoRun
  BY DEF LayerInit, FixtureInit, SeenRun, at, NoRun
<1>2. SeenFiles = files
  BY DEF LayerInit, FixtureInit, SeenFiles
<1> QED BY <1>1, <1>2 DEF LayerInit, FixtureInit, Moe!MoeInit, Moe!FixtureInit, SeenRun, SeenFiles, at,
         NoRun, Moe!NoRun, Moe!Ranges, Ranges, ToSet, Moe!ToSet

LEMMA LayerStepsAsMoe ==
  ASSUME RoutesDiffer, LayerInv, LayerNext
  PROVE  [Moe!MoeNext]_(Moe!fixtureVars)
<1>1. RunInv /\ DiskTypes /\ (run.pc # "idle" => run.build \in Builds)
  BY DEF LayerInv, RunInv, RunTypes, at

<1>2. CASE \E b \in Builds : LayerStart(b)
  <2>1. PICK b \in Builds : LayerStart(b)
    BY <1>2
  <2>2. Moe!MoeStart(b)
    BY <2>1 DEF LayerStart, StartOf, Moe!MoeStart, Moe!StartOf, at, Moe!at, NoRun, Moe!NoRun,
         store, Moe!store, disk, Moe!disk
  <2> QED BY <2>1, <2>2 DEF Moe!MoeNext
<1>3. ASSUME NEW pc \in {"trunk", "experts"}, Fetch(pc)
      PROVE  Moe!Fetch(pc)
  <2>1. run.pc = pc /\ run'.pc = pc
    BY <1>1, <1>3, FetchAsks DEF RunInv
  <2> QED BY <1>3, <2>1 DEF Fetch, Moe!Fetch, at, Moe!at, store, Moe!store, disk, Moe!disk, bounds,
            Moe!bounds, Store!Materialize, Store!Holds, Moe!Store!Materialize, Moe!Store!Holds,
            Ranges, Moe!Ranges, ToSet, Moe!ToSet
<1>4. CASE FetchLayerTrunk
  BY <1>4, <1>3 DEF FetchLayerTrunk, Moe!FetchMoeTrunk, Moe!MoeStep, Moe!MoeNext
<1>5. CASE FetchLayerExperts
  BY <1>5, <1>3 DEF FetchLayerExperts, Moe!FetchMoeExperts, Moe!MoeStep, Moe!MoeNext
<1>6. CASE DeriveLayerRoutes
  <2>1. /\ run.pc = "trunk" /\ run.need = <<>> /\ run' = [run EXCEPT !.pc = "oracle"]
        /\ UNCHANGED <<store, disk, bounds>>
    BY <1>6 DEF DeriveLayerRoutes, Fetched, Goto, at
  <2>2. /\ run \in [pc : Stages, build : Builds \cup {None}, need : Seq(Ranges), got : Seq(Fetches)]
    BY <1>1 DEF RunInv, RunTypes
  <2>3. [run' EXCEPT !.pc = "publish"] = [run EXCEPT !.pc = "publish"] /\ run'.pc = "oracle"
    BY <2>1, <2>2
  <2>4. ToSet(Routes[run.build][1]) # ToSet(Routes[run.build][2])
    BY <1>1, <2>1 DEF RoutesDiffer
  <2>5. Moe!DeriveMoeRoutes
    BY <2>1, <2>3, <2>4 DEF Moe!DeriveMoeRoutes, Moe!Fetched, Moe!Goto, at, Moe!at, ToSet, Moe!ToSet,
         store, Moe!store, disk, Moe!disk, bounds, Moe!bounds
  <2> QED BY <2>5 DEF Moe!MoeStep, Moe!MoeNext
<1>7. CASE IncrementalMismatch \/ Stop
  <2>1. run.pc # "idle" /\ stops < MaxStops /\ stops' = stops + 1 /\ run' = NoRun
        /\ UNCHANGED <<store, disk, runs>>
    BY <1>7 DEF IncrementalMismatch, Stop, Fetched, at
  <2>2. Moe!Stop
    BY <1>1, <2>1 DEF Moe!Stop, at, Moe!at, NoRun, Moe!NoRun, store, Moe!store, disk, Moe!disk,
       RunInv, RunTypes
  <2> QED BY <2>2 DEF Moe!MoeNext
<1>8. CASE PublishLayerOracle
  <2>1. /\ run.pc = "oracle" /\ run' = [run EXCEPT !.pc = "publish"]
        /\ files' = [files EXCEPT !.oracle = run.build]
        /\ UNCHANGED <<store, ledger, partial, bounds>>
    BY <1>8 DEF PublishLayerOracle, Goto, at
  <2>2. /\ run \in [pc : Stages, build : Builds \cup {None}, need : Seq(Ranges), got : Seq(Fetches)]
    BY <1>1 DEF RunInv, RunTypes
  <2>3. run'.pc = "publish"
    BY <2>1, <2>2
  <2>4. [files' EXCEPT !.oracle = None] = [files EXCEPT !.oracle = None]
    BY <1>1, <2>1 DEF DiskTypes, Files
  <2>5. UNCHANGED Moe!fixtureVars
    BY <2>1, <2>3, <2>4 DEF Moe!fixtureVars, at, store, Moe!store, disk, Moe!disk, bounds, Moe!bounds
  <2> QED BY <2>5
<1>9. CASE PublishLayerRoutes
  <2>1. /\ run.pc = "publish" /\ run' = [run EXCEPT !.pc = "experts", !.need = LayerSelected(run.build)]
        /\ files' = [files EXCEPT !.routes = run.build, !.artifact = None]
        /\ UNCHANGED <<store, ledger, partial, bounds>>
    BY <1>9 DEF PublishLayerRoutes, at
  <2>2. run \in [pc : Stages, build : Builds \cup {None}, need : Seq(Ranges), got : Seq(Fetches)]
    BY <1>1 DEF RunInv, RunTypes
  <2>3. run'.pc = "experts" /\ run'.pc # "oracle"
    BY <2>1, <2>2
  <2>4. [files' EXCEPT !.oracle = None]
          = [[files EXCEPT !.oracle = None] EXCEPT !.routes = run.build, !.artifact = None]
    BY <1>1, <2>1 DEF DiskTypes, Files
  <2>5. Moe!MoeSelected(run.build) = LayerSelected(run.build)
    BY DEF LayerSelected, Moe!MoeSelected
  <2>6. Moe!PublishMoeRoutes
    BY <2>1, <2>3, <2>4, <2>5 DEF Moe!PublishMoeRoutes, at, Moe!at, store, Moe!store, bounds, Moe!bounds
  <2> QED BY <2>6 DEF Moe!MoeStep, Moe!MoeNext
<1>10. CASE LayOutLayer
  <2>1. /\ run.pc = "experts" /\ run.need = <<>> /\ UNCHANGED <<store, disk, bounds>>
        /\ IF SubSeq(Asked, Len(Trunk) + 1, Len(Asked)) = LayerSelected(run.build)
           THEN run' = [run EXCEPT !.pc = "assemble"] ELSE run' = NoRun
    BY <1>10 DEF LayOutLayer, Fetched, Goto, at
  <2>2. run \in [pc : Stages, build : Builds \cup {None}, need : Seq(Ranges), got : Seq(Fetches)]
    BY <1>1 DEF RunInv, RunTypes
  <2>3. run'.pc # "oracle"
    BY <2>1, <2>2 DEF NoRun
  <2>4. Moe!MoeSelected(run.build) = LayerSelected(run.build)
    BY DEF LayerSelected, Moe!MoeSelected
  <2>5. Moe!Asked = Asked
    BY <2>1 DEF Asked, Moe!Asked, at
  <2>6. Moe!LayOutMoe
    BY <2>1, <2>3, <2>4, <2>5 DEF Moe!LayOutMoe, Moe!Fetched, Moe!Goto, at, Moe!at, NoRun, Moe!NoRun,
       store, Moe!store, disk, Moe!disk, bounds, Moe!bounds
  <2> QED BY <2>6 DEF Moe!MoeStep, Moe!MoeNext
<1>11. CASE RecordLayer
  <2>1. /\ run.pc = "verify" /\ run' = [run EXCEPT !.pc = "return"]
        /\ files' = [files EXCEPT !.routes = run.build, !.artifact = run.build]
        /\ UNCHANGED <<store, ledger, partial, bounds>>
    BY <1>11 DEF RecordLayer, Goto, at
  <2>2. run \in [pc : Stages, build : Builds \cup {None}, need : Seq(Ranges), got : Seq(Fetches)]
    BY <1>1 DEF RunInv, RunTypes
  <2>3. run'.pc # "oracle"
    BY <2>1, <2>2
  <2>4. [files' EXCEPT !.oracle = None]
          = [[files EXCEPT !.oracle = None] EXCEPT !.routes = run.build, !.artifact = run.build]
    BY <1>1, <2>1 DEF DiskTypes, Files
  <2>5. Moe!RecordMoe
    BY <2>1, <2>3, <2>4 DEF Moe!RecordMoe, Moe!Goto, at, Moe!at, store, Moe!store, bounds, Moe!bounds
  <2> QED BY <2>5 DEF Moe!MoeStep, Moe!MoeNext
<1>12. CASE Return
  <2>1. run.pc = "return" /\ run' = NoRun /\ UNCHANGED <<store, disk, bounds>>
    BY <1>12 DEF Return, at
  <2>2. Moe!Return
    BY <2>1 DEF Moe!Return, at, Moe!at, NoRun, Moe!NoRun, store, Moe!store, disk, Moe!disk, bounds,
         Moe!bounds
  <2> QED BY <2>2 DEF Moe!MoeStep, Moe!MoeNext
<1>13. CASE Lose
  <2>1. run.pc = "idle" /\ run' = run
    BY <1>13 DEF Lose, at
  <2>2. Moe!Lose
    BY <1>13, <2>1 DEF Lose, Moe!Lose, at, Moe!at, store, Moe!store, disk, Moe!disk, bounds,
         Moe!bounds, Store!Lose, Store!Holds, Moe!Store!Lose, Moe!Store!Holds,
         Ranges, Moe!Ranges, ToSet, Moe!ToSet
  <2> QED BY <2>2 DEF Moe!MoeNext
<1>14. CASE Assembling
  <2>1. run \in [pc : Stages, build : Builds \cup {None}, need : Seq(Ranges), got : Seq(Fetches)]
    BY <1>1 DEF RunInv, RunTypes
  <2>2. ASSUME NEW pc \in Assembled, Goto(pc)
        PROVE  run'.pc # "oracle" /\ run' = [run EXCEPT !.pc = pc]
    BY <2>1, <2>2 DEF Goto, Assembled
  <2>3. CASE AssembleMicroshard
    <3>1. /\ run.pc = "assemble" /\ run' = [run EXCEPT !.pc = "describe"] /\ run'.pc # "oracle"
          /\ files' = [files EXCEPT !.microshard = run.build]
          /\ UNCHANGED <<store, ledger, partial, bounds>>
      BY <2>2, <2>3 DEF AssembleMicroshard, at, Assembled
    <3>2. [files' EXCEPT !.oracle = None] = [[files EXCEPT !.oracle = None] EXCEPT !.microshard = run.build]
      BY <1>1, <3>1 DEF DiskTypes, Files
    <3>3. Moe!AssembleMicroshard
      BY <3>1, <3>2 DEF Moe!AssembleMicroshard, Moe!Goto, at, Moe!at, store, Moe!store, bounds, Moe!bounds
    <3> QED BY <3>3 DEF Moe!Assembling, Moe!MoeStep, Moe!MoeNext
  <2>4. CASE AssembleManifest
    <3>1. /\ run.pc = "describe" /\ run' = [run EXCEPT !.pc = "convert"] /\ run'.pc # "oracle"
          /\ files' = [files EXCEPT !.source = run.build]
          /\ UNCHANGED <<store, ledger, partial, bounds>>
      BY <2>2, <2>4 DEF AssembleManifest, at, Assembled
    <3>2. [files' EXCEPT !.oracle = None] = [[files EXCEPT !.oracle = None] EXCEPT !.source = run.build]
      BY <1>1, <3>1 DEF DiskTypes, Files
    <3>3. Moe!AssembleManifest
      BY <3>1, <3>2 DEF Moe!AssembleManifest, Moe!Goto, at, Moe!at, store, Moe!store, bounds, Moe!bounds
    <3> QED BY <3>3 DEF Moe!Assembling, Moe!MoeStep, Moe!MoeNext
  <2>5. CASE StartConvert
    <3>1. run.pc = "convert"
      BY <2>5 DEF StartConvert, at
    <3>2. [files EXCEPT !.oracle = None].k3x = files.k3x
      BY <1>1 DEF DiskTypes, Files
    <3>3. run' = NoRun \/ Goto("write") \/ Goto("unlink")
      BY <2>5 DEF StartConvert
    <3>4. run'.pc # "oracle"
      BY <3>3, <2>2 DEF Assembled, NoRun
    <3>5. Moe!StartConvert
      BY <2>5, <3>1, <3>2, <3>4 DEF StartConvert, Moe!StartConvert, Goto, Moe!Goto, at, Moe!at, NoRun,
         Moe!NoRun, store, Moe!store, bounds, Moe!bounds
    <3> QED BY <3>5 DEF Moe!Assembling, Moe!MoeStep, Moe!MoeNext
  <2>6. CASE PublishK3x
    <3>1. /\ run.pc = "write" /\ run' = [run EXCEPT !.pc = "unlink"] /\ run'.pc # "oracle"
          /\ files' = [files EXCEPT !.k3x = run.build] /\ partial' = FALSE
          /\ UNCHANGED <<store, ledger, bounds>>
      BY <2>2, <2>6 DEF PublishK3x, at, Assembled
    <3>2. [files' EXCEPT !.oracle = None] = [[files EXCEPT !.oracle = None] EXCEPT !.k3x = run.build]
      BY <1>1, <3>1 DEF DiskTypes, Files
    <3>3. Moe!PublishK3x
      BY <3>1, <3>2 DEF Moe!PublishK3x, Moe!Goto, at, Moe!at, store, Moe!store, bounds, Moe!bounds
    <3> QED BY <3>3 DEF Moe!Assembling, Moe!MoeStep, Moe!MoeNext
  <2>7. CASE UnlinkLedger
    <3>1. /\ run.pc = "unlink" /\ run' = [run EXCEPT !.pc = "verify"] /\ run'.pc # "oracle"
          /\ ledger' = None /\ UNCHANGED <<store, files, partial, bounds>>
      BY <2>2, <2>7 DEF UnlinkLedger, at, Assembled
    <3>2. Moe!UnlinkLedger
      BY <3>1 DEF Moe!UnlinkLedger, Moe!Goto, at, Moe!at, store, Moe!store, bounds, Moe!bounds
    <3> QED BY <3>2 DEF Moe!Assembling, Moe!MoeStep, Moe!MoeNext
  <2> QED BY <1>14, <2>3, <2>4, <2>5, <2>6, <2>7 DEF Assembling
<1> QED BY <1>2, <1>4, <1>5, <1>6, <1>7, <1>8, <1>9, <1>10, <1>11, <1>12, <1>13, <1>14
        DEF LayerNext, LayerStep

LEMMA LayerOracleStep ==
  ASSUME LayerInv, LayerNext
  PROVE  OracleBeforeArtifact
<1>1. RunInv /\ DiskTypes /\ (run.pc # "idle" => run.build \in Builds)
  BY DEF LayerInv, RunInv, RunTypes, at
<1>2. \/ files'.k3x = files.k3x /\ files'.artifact \in {files.artifact, None}
      \/ Assembling
      \/ RecordLayer
  BY <1>1 DEF LayerNext, LayerStep, LayerStart, StartOf, FetchLayerTrunk, DeriveLayerRoutes,
        IncrementalMismatch, PublishLayerOracle, PublishLayerRoutes, FetchLayerExperts, Fetch,
        LayOutLayer, Return, Stop, Lose, disk, DiskTypes, Files
<1>3. CASE Assembling
  <2>1. /\ files'.artifact = files.artifact
        /\ files'.k3x # files.k3x => run.pc = "write" /\ files'.k3x = run.build
    BY <1>1, <1>3, AssemblingKeeps DEF LayerInv
  <2> QED BY <2>1 DEF LayerInv, OracleIsThere, Assembled, OracleBeforeArtifact
<1>4. CASE RecordLayer
  <2>1. run.pc = "verify" /\ files' = [files EXCEPT !.routes = run.build, !.artifact = run.build]
    BY <1>4 DEF RecordLayer, at
  <2>2. files'.k3x = files.k3x /\ files'.artifact = run.build
    BY <1>1, <2>1 DEF DiskTypes, Files
  <2> QED BY <2>1, <2>2 DEF LayerInv, OracleIsThere, Assembled, OracleBeforeArtifact
<1> QED BY <1>2, <1>3, <1>4 DEF OracleBeforeArtifact

\* The layer builder is the MoE builder with an oracle, where no two cases
\* route alike; it makes a K3X file only beside the oracle of its own build.
THEOREM LayerFixtureIsMoe == RoutesDiffer => (LayerSpec => ImplementsMoe)
<1> SUFFICES ASSUME RoutesDiffer PROVE LayerSpec => ImplementsMoe
  OBVIOUS
<1>1. LayerInit => (builder = "layer" => Moe!MoeInit)
  BY LayerStartsAsMoe
<1>2. LayerInv /\ [LayerNext]_fixtureVars =>
        [builder = "layer" => OracleBeforeArtifact /\ [Moe!MoeNext]_(Moe!fixtureVars)]_fixtureVars
  BY LayerStepsAsMoe, LayerOracleStep
<1> QED BY <1>1, <1>2, LayerInvAlways, PTL DEF LayerSpec, ImplementsMoe

-----------------------------------------------------------------------------
(* The two-layer builder: what the four steps put out.                     *)

\* The states and the outputs of the four steps.
State1 == <<Input("a")>>
Output1 == <<1, State1>>
State2 == <<Output1>>
Output2 == <<2, State2>>
State3 == <<Input("a"), Input("b")>>
Output3 == <<1, State3>>
State4 == <<Output1, Output3>>
Output4 == <<2, State4>>

StepState == <<State1, State2, State3, State4>>
StepOutput == <<Output1, Output2, Output3, Output4>>
StepRoute(i) == WalkRoutes[run.build][StepOrder[i][2]][CaseOf(StepOrder[i][1])]

\* The records of the first n steps, and what the next one finds.
Execution(i) == [output |-> StepOutput[i], state |-> StepState[i], route |-> StepRoute(i)]
Executed(n) == [i \in 1..n |-> Execution(i)]
HiddenAfter(n) ==
  IF n = 0 THEN Input("a") ELSE IF n = 2 THEN Input("b") ELSE StepOutput[n]
StatesAfter(n) ==
  <<IF n = 0 THEN <<>> ELSE IF n \in {1, 2} THEN State1 ELSE State3,
    IF n \in {0, 1} THEN <<>> ELSE IF n \in {2, 3} THEN State2 ELSE State4>>

LEMMA StepOrderIs ==
  /\ Len(StepOrder) = 4 /\ DOMAIN StepOrder = 1..4
  /\ StepOrder[1] = <<"a", 1>> /\ StepOrder[2] = <<"a", 2>>
  /\ StepOrder[3] = <<"b", 1>> /\ StepOrder[4] = <<"b", 2>>
  /\ CaseOf("a") = 1 /\ CaseOf("b") = 2
BY DEF StepOrder, CaseOf

LEMMA WalkTypes ==
  /\ \A b \in Builds, l \in {1, 2}, i \in {1, 2} :
       WalkRoutes[b][l][i] \in Seq(Experts) /\ ~Repeats(WalkRoutes[b][l][i])
  /\ \A b \in Builds, i \in {1, 2}, j \in {1, 2} :
       ToSet(WalkRoutes[b][1][i]) \cap ToSet(WalkRoutes[b][2][j]) = {}
BY WalkConstants DEF WalkAssumption, IsRoute

LEMMA ShortSequences ==
  /\ \A x : SubSeq(<<x>>, 1, 1) = <<x>>
  /\ \A x, y : SubSeq(<<x, y>>, 1, 1) = <<x>> /\ SubSeq(<<x, y>>, 1, 2) = <<x, y>>
  /\ \A x, y : Append(<<x>>, y) = <<x, y>>
  /\ \A x, y, z : [<<x, y>> EXCEPT ![1] = z] = <<z, y>> /\ [<<x, y>> EXCEPT ![2] = z] = <<x, z>>
<1>1. ASSUME NEW x PROVE SubSeq(<<x>>, 1, 1) = <<x>>
  <2>1. <<x>> \in Seq({x}) /\ Len(<<x>>) = 1
    OBVIOUS
  <2> QED BY <2>1, SubSeqFull
<1>2. ASSUME NEW x, NEW y PROVE SubSeq(<<x, y>>, 1, 1) = <<x>> /\ SubSeq(<<x, y>>, 1, 2) = <<x, y>>
  <2>1. <<x, y>> \in Seq({x, y}) /\ Len(<<x, y>>) = 2 /\ <<x>> \in Seq({x, y}) /\ Len(<<x>>) = 1
        /\ <<x, y>>[1] = x /\ <<x>>[1] = x
    OBVIOUS
  <2>2. PICK s \in Seq({x, y}) : s = <<x, y>>
    BY <2>1
  <2>3. SubSeq(s, 1, 2) = s
    BY <2>1, <2>2, SubSeqFull
  <2>4. /\ SubSeq(s, 1, 1) \in Seq({x, y}) /\ Len(SubSeq(s, 1, 1)) = 1
        /\ SubSeq(s, 1, 1)[1] = s[1]
    BY <2>1, <2>2, SubSeqProperties
  <2>5. SubSeq(s, 1, 1) = <<x>>
    <3>1. \A i \in 1..1 : SubSeq(s, 1, 1)[i] = <<x>>[i]
      BY <2>1, <2>2, <2>4
    <3> QED BY <2>1, <2>4, <3>1, SeqEqual
  <2> QED BY <2>2, <2>3, <2>5
<1>3. ASSUME NEW x, NEW y PROVE Append(<<x>>, y) = <<x, y>>
  <2>1. /\ <<x>> \in Seq({x, y}) /\ Len(<<x>>) = 1 /\ <<x>>[1] = x
        /\ <<x, y>> \in Seq({x, y}) /\ Len(<<x, y>>) = 2 /\ <<x, y>>[1] = x /\ <<x, y>>[2] = y
    OBVIOUS
  <2>2. PICK s \in Seq({x, y}) : s = <<x>>
    BY <2>1
  <2>3. PICK t \in Seq({x, y}) : t = <<x, y>>
    BY <2>1
  <2>4. /\ Append(s, y) \in Seq({x, y}) /\ Len(Append(s, y)) = 2
        /\ Append(s, y)[1] = x /\ Append(s, y)[2] = y
    BY <2>1, <2>2, AppendProperties
  <2>5. Append(s, y) = t
    <3>1. \A i \in 1..2 : Append(s, y)[i] = t[i]
      BY <2>1, <2>3, <2>4
    <3> QED BY <2>1, <2>3, <2>4, <3>1, SeqEqual
  <2> QED BY <2>2, <2>3, <2>5
<1>4. ASSUME NEW x, NEW y, NEW z
      PROVE  [<<x, y>> EXCEPT ![1] = z] = <<z, y>> /\ [<<x, y>> EXCEPT ![2] = z] = <<x, z>>
  OBVIOUS
<1> QED BY <1>1, <1>2, <1>3, <1>4

\* The values of the four steps are those of the layers.
LEMMA LayerValues ==
  /\ Layer1(<<"a">>) = Output1 /\ Layer1(<<"a", "b">>) = Output3
  /\ Layer2(<<"a">>) = Output2 /\ Layer2(<<"a", "b">>) = Output4
<1>1. Layer1(<<"a">>) = Output1
  <2>1. [i \in DOMAIN <<"a">> |-> Input(<<"a">>[i])] = <<Input("a")>>
    OBVIOUS
  <2> QED BY <2>1 DEF Layer1, Output1, State1
<1>2. Layer1(<<"a", "b">>) = Output3
  <2>1. [i \in DOMAIN <<"a", "b">> |-> Input(<<"a", "b">>[i])] = <<Input("a"), Input("b")>>
    OBVIOUS
  <2> QED BY <2>1 DEF Layer1, Output3, State3
<1>3. SubSeq(<<"a">>, 1, 1) = <<"a">> /\ SubSeq(<<"a", "b">>, 1, 1) = <<"a">>
      /\ SubSeq(<<"a", "b">>, 1, 2) = <<"a", "b">>
  BY ShortSequences, Zenon
<1>4. Layer2(<<"a">>) = Output2
  <2>1. [i \in DOMAIN <<"a">> |-> Layer1(SubSeq(<<"a">>, 1, i))] = <<Layer1(<<"a">>)>>
    <3> DEFINE f == [i \in {1} |-> Layer1(SubSeq(<<"a">>, 1, i))]
    <3>1. f[1] = Layer1(<<"a">>) /\ DOMAIN f = {1} /\ DOMAIN <<"a">> = {1}
      <4>1. Layer1(SubSeq(<<"a">>, 1, 1)) = Layer1(<<"a">>)
        BY <1>3, Zenon
      <4>2. DOMAIN <<"a">> = {1}
        OBVIOUS
      <4> QED BY <4>1, <4>2, Zenon
    <3>2. f = <<Layer1(<<"a">>)>>
      <4> HIDE DEF f
      <4>1. f = [i \in {1} |-> f[i]]
        BY <3>1 DEF f
      <4> QED BY <3>1, <4>1
    <3> QED BY <3>1, <3>2
  <2> QED BY <1>1, <2>1 DEF Layer2, Output2, State2
<1>5. Layer2(<<"a", "b">>) = Output4
  <2>1. [i \in DOMAIN <<"a", "b">> |-> Layer1(SubSeq(<<"a", "b">>, 1, i))]
          = <<Layer1(<<"a">>), Layer1(<<"a", "b">>)>>
    <3> DEFINE f == [i \in {1, 2} |-> Layer1(SubSeq(<<"a", "b">>, 1, i))]
    <3>1. /\ f[1] = Layer1(<<"a">>) /\ f[2] = Layer1(<<"a", "b">>)
          /\ DOMAIN <<"a", "b">> = {1, 2}
      <4>1. /\ Layer1(SubSeq(<<"a", "b">>, 1, 1)) = Layer1(<<"a">>)
            /\ Layer1(SubSeq(<<"a", "b">>, 1, 2)) = Layer1(<<"a", "b">>)
        BY <1>3, Zenon
      <4>2. DOMAIN <<"a", "b">> = {1, 2}
        OBVIOUS
      <4>3. 1 \in {1, 2} /\ 2 \in {1, 2}
        OBVIOUS
      <4> QED BY <4>1, <4>2, <4>3, Zenon
    <3>2. f = <<Layer1(<<"a">>), Layer1(<<"a", "b">>)>>
      <4>1. f = [i \in {1, 2} |-> f[i]]
        OBVIOUS
      <4> HIDE DEF f
      <4> QED BY <3>1, <4>1
    <3> QED BY <3>1, <3>2
  <2> QED BY <1>1, <1>2, <2>1 DEF Layer2, Output4, State4
<1> QED BY <1>1, <1>2, <1>4, <1>5

\* What a step leaves is what the next one finds.
LEMMA ExecuteStep ==
  ASSUME NEW n \in 1..4
  PROVE  LET result == Execute(HiddenAfter(n - 1), StatesAfter(n - 1), StepOrder[n][2]) IN
         /\ result.states = StatesAfter(n) /\ result.states[StepOrder[n][2]] = StepState[n]
         /\ result.hidden = StepOutput[n]
<1>1. CASE n = 1
  <2>1. Append(<<>>, Input("a")) = State1
    BY DEF State1
  <2> QED BY <1>1, <2>1, StepOrderIs
       DEF Execute, HiddenAfter, StatesAfter, StepState, StepOutput, Output1
<1>2. CASE n = 2
  <2>1. Append(<<>>, Output1) = State2
    BY DEF State2
  <2> QED BY <1>2, <2>1, StepOrderIs
       DEF Execute, HiddenAfter, StatesAfter, StepState, StepOutput, Output2
<1>3. CASE n = 3
  <2>1. Append(State1, Input("b")) = State3
    BY ShortSequences, Zenon DEF State1, State3
  <2>2. /\ HiddenAfter(2) = Input("b") /\ StatesAfter(2) = <<State1, State2>>
        /\ StatesAfter(3) = <<State3, State2>> /\ StepOrder[3][2] = 1
        /\ StepState[3] = State3 /\ StepOutput[3] = <<1, State3>>
    BY StepOrderIs DEF HiddenAfter, StatesAfter, StepState, StepOutput, Output3
  <2>3. Execute(Input("b"), <<State1, State2>>, 1)
          = [hidden |-> <<1, State3>>, states |-> <<State3, State2>>]
    <3>1. <<State1, State2>>[1] = State1
      OBVIOUS
    <3>2. Append(<<State1, State2>>[1], Input("b")) = State3
      BY <2>1, <3>1, Zenon
    <3>3. [<<State1, State2>> EXCEPT ![1] = State3] = <<State3, State2>>
      BY ShortSequences
    <3> QED BY <3>2, <3>3, Zenon DEF Execute
  <2> QED BY <1>3, <2>2, <2>3
<1>4. CASE n = 4
  <2>1. Append(State2, Output3) = State4
    BY ShortSequences, Zenon DEF State2, State4
  <2>2. /\ HiddenAfter(3) = Output3 /\ StatesAfter(3) = <<State3, State2>>
        /\ StatesAfter(4) = <<State3, State4>> /\ StepOrder[4][2] = 2
        /\ StepState[4] = State4 /\ StepOutput[4] = <<2, State4>>
    BY StepOrderIs DEF HiddenAfter, StatesAfter, StepState, StepOutput, Output4
  <2>3. Execute(Output3, <<State3, State2>>, 2)
          = [hidden |-> <<2, State4>>, states |-> <<State3, State4>>]
    <3>1. <<State3, State2>>[2] = State2
      OBVIOUS
    <3>2. Append(<<State3, State2>>[2], Output3) = State4
      BY <2>1, <3>1, Zenon
    <3>3. [<<State3, State2>> EXCEPT ![2] = State4] = <<State3, State4>>
      BY ShortSequences
    <3> QED BY <3>2, <3>3, Zenon DEF Execute
  <2> QED BY <1>4, <2>2, <2>3
<1> QED BY <1>1, <1>2, <1>3, <1>4

LEMMA ExecutedGrows ==
  /\ Executed(0) = <<>>
  /\ \A n \in 1..4 : Append(Executed(n - 1), Execution(n)) = Executed(n)
  /\ \A n \in 0..4 : Len(Executed(n)) = n
<1> DEFINE S == {Execution(i) : i \in 1..4}
<1>1. \A n \in 0..4 : /\ Executed(n) \in Seq(S) /\ Len(Executed(n)) = n
                      /\ \A i \in 1..n : Executed(n)[i] = Execution(i)
  BY DEF Executed
<1>2. Executed(0) = <<>>
  BY <1>1, EmptySeq
<1>3. ASSUME NEW n \in 1..4
      PROVE  Append(Executed(n - 1), Execution(n)) = Executed(n)
  <2>1. /\ n - 1 \in 0..4 /\ n \in 0..4 /\ Execution(n) \in S
    OBVIOUS
  <2> HIDE DEF S
  <2>2. /\ Executed(n - 1) \in Seq(S) /\ Len(Executed(n - 1)) = n - 1
        /\ Executed(n) \in Seq(S) /\ Len(Executed(n)) = n
    BY <1>1, <2>1
  <2>3. /\ Append(Executed(n - 1), Execution(n)) \in Seq(S)
        /\ Len(Append(Executed(n - 1), Execution(n))) = n
        /\ Append(Executed(n - 1), Execution(n))[n] = Execution(n)
        /\ \A i \in 1..(n - 1) : Append(Executed(n - 1), Execution(n))[i] = Executed(n - 1)[i]
    BY <2>1, <2>2, AppendProperties
  <2>4. \A i \in 1..n : Append(Executed(n - 1), Execution(n))[i] = Executed(n)[i]
    <3> TAKE i \in 1..n
    <3>1. Executed(n)[i] = Execution(i)
      BY <1>1, <2>1
    <3>2. i # n => i \in 1..(n - 1) /\ Executed(n - 1)[i] = Execution(i)
      BY <2>1 DEF Executed
    <3> QED BY <2>3, <3>1, <3>2
  <2> QED BY <2>2, <2>3, <2>4, SeqEqual
<1> QED BY <1>1, <1>2, <1>3

\* The steps of the same layer before each step.
LEMMA LastSteps ==
  /\ LastOf(1, 1) = {} /\ LastOf(2, 2) = {} /\ LastOf(3, 1) = {1} /\ LastOf(4, 2) = {2}
  /\ Max({1}) = 1 /\ Max({2}) = 2
<1>1. LastOf(1, 1) = {} /\ LastOf(2, 2) = {} /\ LastOf(3, 1) = {1} /\ LastOf(4, 2) = {2}
  BY StepOrderIs DEF LastOf
<1>2. Max({1}) = 1 /\ Max({2}) = 2
  BY DEF Max
<1> QED BY <1>1, <1>2

\* The trace of the four executions is that of whole sequences, layer by layer.
LEMMA TraceOfExecutions ==
  ASSUME walk.trace = Replay(Executed(4))
  PROVE  TraceIsOfLayers
<1> DEFINE E == Executed(4)
<1>1. DOMAIN E = 1..4 /\ \A i \in 1..4 : E[i].output = StepOutput[i] /\ E[i].state = StepState[i]
  BY DEF Executed, Execution
<1> HIDE DEF E
<1>2. \A i \in 1..4 :
        LET p == StepOrder[i][1]  l == StepOrder[i][2] IN
        /\ walk.trace[i].output = StepOutput[i] /\ walk.trace[i].state = StepState[i]
        /\ walk.trace[i].hidden = IF l = 1 THEN Input(p) ELSE E[i - 1].output
        /\ walk.trace[i].consumes = IF LastOf(i, l) = {} THEN <<>> ELSE E[Max(LastOf(i, l))].state
  <2>1. walk.trace = Replay(E)
    BY DEF E
  <2> TAKE i \in 1..4
  <2> DEFINE p == StepOrder[i][1]
             l == StepOrder[i][2]
             hidden == IF l = 1 THEN Input(p) ELSE E[i - 1].output
             consumes == IF LastOf(i, l) = {} THEN <<>> ELSE E[Max(LastOf(i, l))].state
  <2>2. Replay(E)[i] =
          [position |-> p, layer_id |-> l, hidden |-> hidden, consumes |-> consumes,
           state |-> E[i].state, route |-> E[i].route, output |-> E[i].output]
    BY <1>1, Zenon DEF Replay
  <2> HIDE DEF p, l, hidden, consumes
  <2>3. /\ walk.trace[i].output = StepOutput[i] /\ walk.trace[i].state = StepState[i]
        /\ walk.trace[i].hidden = hidden /\ walk.trace[i].consumes = consumes
    BY <1>1, <2>1, <2>2
  <2> QED BY <2>3 DEF p, l, hidden, consumes
<1>3. /\ walk.trace[1].output = Output1 /\ walk.trace[1].state = State1
      /\ Append(walk.trace[1].consumes, walk.trace[1].hidden) = State1
  <2>1. walk.trace[1].hidden = Input("a") /\ walk.trace[1].consumes = <<>>
    BY <1>2, StepOrderIs, LastSteps
  <2>2. Append(<<>>, Input("a")) = State1
    BY DEF State1
  <2> QED BY <1>2, <2>1, <2>2 DEF StepOutput, StepState
<1>4. /\ walk.trace[2].output = Output2 /\ walk.trace[2].state = State2
      /\ Append(walk.trace[2].consumes, walk.trace[2].hidden) = State2
  <2>1. walk.trace[2].hidden = E[1].output /\ walk.trace[2].consumes = <<>>
    BY <1>2, StepOrderIs, LastSteps
  <2>2. E[1].output = Output1
    BY <1>1 DEF StepOutput
  <2>3. Append(<<>>, Output1) = State2
    BY DEF State2
  <2> QED BY <1>2, <2>1, <2>2, <2>3 DEF StepOutput, StepState
<1>5. /\ walk.trace[3].output = Output3 /\ walk.trace[3].state = State3
      /\ Append(walk.trace[3].consumes, walk.trace[3].hidden) = State3
  <2>1. walk.trace[3].hidden = Input("b") /\ walk.trace[3].consumes = E[1].state
    <3>1. /\ StepOrder[3][1] = "b" /\ StepOrder[3][2] = 1
          /\ LastOf(3, 1) # {} /\ Max(LastOf(3, 1)) = 1
      BY StepOrderIs, LastSteps
    <3> QED BY <1>2, <3>1
  <2>2. E[1].state = State1
    BY <1>1 DEF StepState
  <2>3. Append(State1, Input("b")) = State3
    BY ShortSequences, Zenon DEF State1, State3
  <2> QED BY <1>2, <2>1, <2>2, <2>3 DEF StepOutput, StepState
<1>6. /\ walk.trace[4].output = Output4 /\ walk.trace[4].state = State4
      /\ Append(walk.trace[4].consumes, walk.trace[4].hidden) = State4
  <2>1. walk.trace[4].hidden = E[3].output /\ walk.trace[4].consumes = E[2].state
    <3>1. /\ StepOrder[4][1] = "b" /\ StepOrder[4][2] = 2
          /\ LastOf(4, 2) # {} /\ Max(LastOf(4, 2)) = 2
      BY StepOrderIs, LastSteps
    <3> QED BY <1>2, <3>1
  <2>2. E[3].output = Output3 /\ E[2].state = State2
    BY <1>1 DEF StepState, StepOutput
  <2>3. Append(State2, Output3) = State4
    BY ShortSequences, Zenon DEF State2, State4
  <2> QED BY <1>2, <2>1, <2>2, <2>3 DEF StepOutput, StepState
<1>7. ASSUME NEW i \in 1..4
      PROVE  LET p == StepOrder[i][1]
                 l == StepOrder[i][2]
                 output == IF l = 1 THEN Layer1(Whole(p)) ELSE Layer2(Whole(p))
                 s == walk.trace[i]
             IN /\ s.output = output /\ s.state = output[2]
                /\ Append(s.consumes, s.hidden) = s.state
  <2>1. Output1[2] = State1 /\ Output2[2] = State2 /\ Output3[2] = State3 /\ Output4[2] = State4
    BY DEF Output1, Output2, Output3, Output4
  <2>2. Whole("a") = <<"a">> /\ Whole("b") = <<"a", "b">>
    BY DEF Whole
  <2>3. CASE i = 1
    <3>1. Layer1(Whole("a")) = Output1
      BY <2>2, LayerValues, Zenon
    <3> QED BY <2>1, <2>3, <3>1, <1>3, StepOrderIs, SMTT(30)
  <2>4. CASE i = 2
    <3>1. Layer2(Whole("a")) = Output2
      BY <2>2, LayerValues, Zenon
    <3> QED BY <2>1, <2>4, <3>1, <1>4, StepOrderIs, SMTT(30)
  <2>5. CASE i = 3
    <3>1. Layer1(Whole("b")) = Output3
      BY <2>2, LayerValues, Zenon
    <3> QED BY <2>1, <2>5, <3>1, <1>5, StepOrderIs, SMTT(30)
  <2>6. CASE i = 4
    <3>1. Layer2(Whole("b")) = Output4
      BY <2>2, LayerValues, Zenon
    <3> QED BY <2>1, <2>6, <3>1, <1>6, StepOrderIs, SMTT(30)
  <2> QED BY <2>3, <2>4, <2>5, <2>6, SMTT(30)
<1> QED BY <1>7, StepOrderIs DEF TraceIsOfLayers

-----------------------------------------------------------------------------
(* The two-layer builder: the inductive invariant.                         *)

TwoStages ==
  {"idle", "trunk", "prepare", "experts", "trace", "oracle", "layout", "assemble", "return"}
  \cup Assembled
Walked == {"prepare", "experts", "trace", "oracle", "layout", "assemble", "return"} \cup Assembled
Traced == {"oracle", "layout", "assemble", "return"} \cup Assembled
LaidOut == {"assemble", "return"} \cup Assembled

\* The walk after n steps.
WalkAfter(n, trace) ==
  walk = [step |-> IF n = 4 THEN 4 ELSE n + 1, hidden |-> HiddenAfter(n),
          states |-> StatesAfter(n), chosen |-> walk.chosen, executions |-> Executed(n),
          trace |-> trace]

\* A layer has chosen only experts of its own routes.
ChosenIsRouted ==
  \E one \in Seq(Experts), two \in Seq(Experts) :
    /\ walk.chosen = <<one, two>> /\ ~Repeats(one) /\ ~Repeats(two)
    /\ ToSet(one) \subseteq UNION {ToSet(WalkRoutes[run.build][1][i]) : i \in {1, 2}}
    /\ ToSet(two) \subseteq UNION {ToSet(WalkRoutes[run.build][2][i]) : i \in {1, 2}}

WalkInv ==
  /\ run.pc \in {"idle", "trunk"} => walk = NoWalk
  /\ run.pc \in Walked => ChosenIsRouted
  /\ run.pc \in {"prepare", "experts"} => \E n \in 0..3 : WalkAfter(n, <<>>)
  /\ run.pc = "trace" => WalkAfter(4, <<>>)
  /\ run.pc \in Traced => WalkAfter(4, Replay(Executed(4)))
  /\ run.pc \in LaidOut => \A l \in {1, 2} : walk.chosen[l] = SelectedOf(l)

ChosenRanges == ToSet(Trunk) \cup ToSet(walk.chosen[1]) \cup ToSet(walk.chosen[2])

\* Nothing is asked for twice, nor wanted when it was asked for.
TwoAsked ==
  /\ ~Repeats(Asked \o run.need)
  /\ run.pc = "trunk" => Asked \o run.need = Trunk
  /\ run.pc = "experts" =>
       /\ ToSet(run.need) \subseteq ToSet(route)
       /\ ToSet(Asked \o run.need) = ChosenRanges \cup ToSet(route)
  /\ run.pc \in Walked \ {"experts"} => run.need = <<>> /\ ToSet(Asked) = ChosenRanges

TwoFiles ==
  /\ run.pc \in {"layout", "assemble", "return"} \cup Assembled => files.oracle = run.build
  /\ run.pc = "return" => files.routes = run.build /\ files.artifact = run.build

TwoInv ==
  /\ RunInv /\ DiskTypes /\ run.pc \in TwoStages
  /\ AssemblyFiles /\ WalkInv /\ TwoAsked /\ TwoFiles

LEMMA ChosenFacts ==
  ASSUME ChosenIsRouted, run.build \in Builds
  PROVE  /\ \A l \in {1, 2} : /\ walk.chosen[l] \in Seq(Experts) /\ ~Repeats(walk.chosen[l])
                              /\ ToSet(walk.chosen[l]) \subseteq Experts
                              /\ ToSet(walk.chosen[l])
                                   \subseteq UNION {ToSet(WalkRoutes[run.build][l][i]) : i \in {1, 2}}
         /\ walk.chosen = <<walk.chosen[1], walk.chosen[2]>>
<1>1. PICK one \in Seq(Experts), two \in Seq(Experts) :
        /\ walk.chosen = <<one, two>> /\ ~Repeats(one) /\ ~Repeats(two)
        /\ ToSet(one) \subseteq UNION {ToSet(WalkRoutes[run.build][1][i]) : i \in {1, 2}}
        /\ ToSet(two) \subseteq UNION {ToSet(WalkRoutes[run.build][2][i]) : i \in {1, 2}}
  BY DEF ChosenIsRouted
<1>2. walk.chosen[1] = one /\ walk.chosen[2] = two
  BY <1>1
<1>3. ToSet(one) \subseteq Experts /\ ToSet(two) \subseteq Experts
  BY DEF ToSet
<1> QED BY <1>1, <1>2, <1>3

LEMMA StepFacts ==
  ASSUME run.build \in Builds, ChosenIsRouted, NEW n \in 0..3, WalkAfter(n, <<>>)
  PROVE  /\ walk.step = n + 1 /\ layer = StepOrder[n + 1][2] /\ layer \in {1, 2}
         /\ route = StepRoute(n + 1)
         /\ walk.hidden = HiddenAfter(n) /\ walk.states = StatesAfter(n)
         /\ walk.executions = Executed(n) /\ walk.trace = <<>>
         /\ route \in Seq(Experts) /\ ~Repeats(route)
         /\ ToSet(route) \subseteq UNION {ToSet(WalkRoutes[run.build][layer][i]) : i \in {1, 2}}
         /\ (ToSet(route) \ ToSet(walk.chosen[layer])) \cap ChosenRanges = {}
<1>1. /\ walk.step = n + 1 /\ walk.hidden = HiddenAfter(n) /\ walk.states = StatesAfter(n)
      /\ walk.executions = Executed(n) /\ walk.trace = <<>>
  BY DEF WalkAfter
<1>2. layer = StepOrder[n + 1][2] /\ route = StepRoute(n + 1)
  BY <1>1, Zenon DEF layer, position, route, StepRoute
<1>3. PICK c \in {1, 2} : layer \in {1, 2} /\ route = WalkRoutes[run.build][layer][c]
  <2>1. n + 1 \in {1, 2, 3, 4}
    OBVIOUS
  <2>2. StepOrder[n + 1][2] \in {1, 2} /\ CaseOf(StepOrder[n + 1][1]) \in {1, 2}
    BY <2>1, StepOrderIs
  <2> QED BY <1>2, <2>2 DEF StepRoute
<1>4. route \in Seq(Experts) /\ ~Repeats(route)
  BY <1>3, WalkTypes
<1>5. ToSet(route) \subseteq UNION {ToSet(WalkRoutes[run.build][layer][i]) : i \in {1, 2}}
  BY <1>3
<1>6. ToSet(route) \subseteq Experts
  BY <1>4 DEF ToSet
<1>7. (ToSet(route) \ ToSet(walk.chosen[layer])) \cap ChosenRanges = {}
  <2>1. \A i, j \in {1, 2} :
          ToSet(WalkRoutes[run.build][1][i]) \cap ToSet(WalkRoutes[run.build][2][j]) = {}
    BY WalkTypes
  <2>2. ToSet(route) \cap ToSet(Trunk) = {}
    BY <1>6, ConstantTypes
  <2>3. CASE layer = 1
    <3>1. ToSet(route) \cap ToSet(walk.chosen[2]) = {}
      BY <2>1, <2>3, <1>3, ChosenFacts
    <3> QED BY <2>2, <2>3, <3>1 DEF ChosenRanges
  <2>4. CASE layer = 2
    <3>1. ToSet(route) \cap ToSet(walk.chosen[1]) = {}
      BY <2>1, <2>4, <1>3, ChosenFacts
    <3> QED BY <2>2, <2>4, <3>1 DEF ChosenRanges
  <2> QED BY <1>3, <2>3, <2>4
<1> QED BY <1>1, <1>2, <1>3, <1>4, <1>5, <1>7

\* The experts of a step join those its layer has chosen.
LEMMA ChosenGrows ==
  ASSUME run.build \in Builds, ChosenIsRouted, NEW n \in 0..3, WalkAfter(n, <<>>),
         NEW chosen, chosen = [walk.chosen EXCEPT ![layer] = FirstUse(walk.chosen[layer], route)]
  PROVE  /\ \E one \in Seq(Experts), two \in Seq(Experts) :
              /\ chosen = <<one, two>> /\ ~Repeats(one) /\ ~Repeats(two)
              /\ ToSet(one) \subseteq UNION {ToSet(WalkRoutes[run.build][1][i]) : i \in {1, 2}}
              /\ ToSet(two) \subseteq UNION {ToSet(WalkRoutes[run.build][2][i]) : i \in {1, 2}}
         /\ ToSet(Trunk) \cup ToSet(chosen[1]) \cup ToSet(chosen[2]) = ChosenRanges \cup ToSet(route)
<1> DEFINE one == walk.chosen[1]
           two == walk.chosen[2]
           more == FirstUse(walk.chosen[layer], route)
<1>1. /\ one \in Seq(Experts) /\ ~Repeats(one) /\ two \in Seq(Experts) /\ ~Repeats(two)
      /\ ToSet(one) \subseteq UNION {ToSet(WalkRoutes[run.build][1][i]) : i \in {1, 2}}
      /\ ToSet(two) \subseteq UNION {ToSet(WalkRoutes[run.build][2][i]) : i \in {1, 2}}
      /\ walk.chosen = <<one, two>>
  BY ChosenFacts
<1>2. /\ layer \in {1, 2} /\ route \in Seq(Experts) /\ ~Repeats(route)
      /\ ToSet(route) \subseteq UNION {ToSet(WalkRoutes[run.build][layer][i]) : i \in {1, 2}}
  BY StepFacts
<1>3. /\ more \in Seq(Experts) /\ ~Repeats(more)
      /\ ToSet(more) = ToSet(walk.chosen[layer]) \cup ToSet(route)
  BY <1>1, <1>2, FirstUseProperties
<1> HIDE DEF more, one, two
<1>4. CASE layer = 1
  <2>1. chosen = <<more, two>>
    BY <1>1, <1>4, ShortSequences DEF more
  <2>2. ToSet(more) = ToSet(one) \cup ToSet(route)
    BY <1>3, <1>4 DEF one
  <2>3. chosen[1] = more /\ chosen[2] = two
    BY <2>1
  <2>4. ToSet(more) \subseteq UNION {ToSet(WalkRoutes[run.build][1][i]) : i \in {1, 2}}
    BY <2>2, <1>1, <1>2, <1>4
  <2>5. ToSet(Trunk) \cup ToSet(chosen[1]) \cup ToSet(chosen[2]) = ChosenRanges \cup ToSet(route)
    BY <2>2, <2>3 DEF ChosenRanges, one, two
  <2> QED BY <1>1, <1>3, <2>1, <2>4, <2>5, Zenon
<1>5. CASE layer = 2
  <2>1. chosen = <<one, more>>
    BY <1>1, <1>5, ShortSequences DEF more
  <2>2. ToSet(more) = ToSet(two) \cup ToSet(route)
    BY <1>3, <1>5 DEF two
  <2>3. chosen[1] = one /\ chosen[2] = more
    BY <2>1
  <2>4. ToSet(more) \subseteq UNION {ToSet(WalkRoutes[run.build][2][i]) : i \in {1, 2}}
    BY <2>2, <1>1, <1>2, <1>5
  <2>5. ToSet(Trunk) \cup ToSet(chosen[1]) \cup ToSet(chosen[2]) = ChosenRanges \cup ToSet(route)
    BY <2>2, <2>3 DEF ChosenRanges, one, two
  <2> QED BY <1>1, <1>3, <2>1, <2>4, <2>5, Zenon
<1> QED BY <1>2, <1>4, <1>5

LEMMA TwoInvInit == TwoInit => TwoInv
<1> SUFFICES ASSUME TwoInit PROVE TwoInv
  OBVIOUS
<1>1. RunInv /\ DiskTypes
  BY RunInvInit DEF TwoInit
<1>2. run.pc = "idle" /\ walk = NoWalk /\ run.need = <<>> /\ run.got = <<>>
  BY DEF TwoInit, FixtureInit, NoRun
<1>3. ~Repeats(Asked \o run.need)
  <2>1. Asked = <<>>
    <3>1. Asked \in Seq(Ranges) /\ Len(Asked) = 0
      BY <1>1, <1>2, AskedType DEF RunInv
    <3> QED BY <3>1, EmptySeq
  <2>2. <<>> \o <<>> = <<>>
    OBVIOUS
  <2> QED BY <1>2, <2>1, <2>2 DEF Repeats
<1> QED BY <1>1, <1>2, <1>3 DEF TwoInv, TwoStages, AssemblyFiles, WalkInv, TwoAsked, TwoFiles, Assembled,
                          Walked, Traced, LaidOut

\* A run that ends forgets its walk.
LEMMA TwoEnds ==
  ASSUME TwoInv, run' = NoRun, walk' = NoWalk, UNCHANGED store, DiskTypes'
  PROVE  TwoInv'
<1>1. RunInv' /\ Asked' = <<>>
  BY EndKeeps DEF TwoInv
<1>2. run'.pc = "idle" /\ run'.need = <<>>
  BY DEF NoRun
<1>3. ~Repeats(Asked' \o run'.need)
  <2>1. <<>> \o <<>> = <<>>
    OBVIOUS
  <2> QED BY <1>1, <1>2, <2>1 DEF Repeats
<1> QED BY <1>1, <1>2, <1>3 DEF TwoInv, TwoStages, AssemblyFiles, WalkInv, TwoAsked, TwoFiles,
                                Assembled, Walked, Traced, LaidOut

LEMMA TwoInvFinish ==
  ASSUME TwoInv, Finish
  PROVE  TwoInv'
<1>1. /\ RunInv /\ DiskTypes /\ run.pc = "experts" /\ run.need = <<>> /\ ~at("idle")
      /\ UNCHANGED <<store, disk, bounds>>
  BY DEF TwoInv, Finish, Fetched, at
<1>2. run.build \in Builds
  BY <1>1 DEF RunInv, RunTypes
<1>3. ChosenIsRouted
  BY <1>1 DEF TwoInv, WalkInv, Walked
<1>4. PICK n \in 0..3 : WalkAfter(n, <<>>)
  BY <1>1 DEF TwoInv, WalkInv
<1>5. /\ walk.step = n + 1 /\ layer = StepOrder[n + 1][2] /\ layer \in {1, 2}
      /\ route = StepRoute(n + 1)
      /\ walk.hidden = HiddenAfter(n) /\ walk.states = StatesAfter(n)
      /\ walk.executions = Executed(n) /\ walk.trace = <<>>
  BY <1>2, <1>3, <1>4, StepFacts
<1> DEFINE chosen == FirstUse(walk.chosen[layer], route)
           result == Execute(walk.hidden, walk.states, layer)
           last == walk.step = Len(StepOrder)
           execution == [output |-> result.hidden, state |-> result.states[layer], route |-> route]
           step == IF last THEN walk.step ELSE walk.step + 1
           hidden == IF ~last /\ layer = 2 THEN Input("b") ELSE result.hidden
<1>6. CASE ~(ToSet(route) \subseteq ToSet(chosen) \cap objects)
  <2>1. run' = NoRun /\ walk' = NoWalk
    BY <1>6 DEF Finish
  <2>2. DiskTypes'
    BY <1>1 DEF DiskTypes, disk, bounds
  <2> QED BY <1>1, <2>1, <2>2, TwoEnds
<1>7. CASE ToSet(route) \subseteq ToSet(chosen) \cap objects
  <2>1. /\ walk' = [walk EXCEPT !.chosen[layer] = chosen, !.states = result.states,
                                !.executions = Append(@, execution), !.step = step, !.hidden = hidden]
        /\ Goto(IF last THEN "trace" ELSE "prepare")
    BY <1>7, Zenon DEF Finish
  <2>2. result.states = StatesAfter(n + 1) /\ execution = Execution(n + 1) /\ result.hidden = StepOutput[n + 1]
    <3>1. n + 1 \in 1..4 /\ (n + 1) - 1 = n
      OBVIOUS
    <3>2. LET r == Execute(HiddenAfter(n), StatesAfter(n), StepOrder[n + 1][2]) IN
          /\ r.states = StatesAfter(n + 1) /\ r.states[StepOrder[n + 1][2]] = StepState[n + 1]
          /\ r.hidden = StepOutput[n + 1]
      BY <3>1, ExecuteStep
    <3> QED BY <1>5, <3>2, Zenon DEF Execution
  <2>3. last <=> n = 3
    BY <1>5, StepOrderIs
  <2>4. step = IF n + 1 = 4 THEN 4 ELSE (n + 1) + 1
    BY <1>5, <2>3
  <2>5. hidden = HiddenAfter(n + 1)
    <3>1. n = 0 \/ n = 1 \/ n = 2 \/ n = 3
      OBVIOUS
    <3>2. n = 0 => layer = 1
      BY <1>5, StepOrderIs
    <3>3. n = 1 => layer = 2
      BY <1>5, StepOrderIs
    <3>4. n = 2 => layer = 1
      BY <1>5, StepOrderIs
    <3> HIDE DEF result, last
    <3> QED BY <2>2, <2>3, <3>1, <3>2, <3>3, <3>4 DEF HiddenAfter
  <2>6. Append(walk.executions, execution) = Executed(n + 1)
    <3>1. n + 1 \in 1..4 /\ (n + 1) - 1 = n
      OBVIOUS
    <3> HIDE DEF execution
    <3> QED BY <1>5, <2>2, <3>1, ExecutedGrows
  <2>7. PICK more : more = [walk.chosen EXCEPT ![layer] = chosen]
    OBVIOUS
  <2>8. walk' = [step |-> step, hidden |-> hidden, states |-> result.states, chosen |-> more,
                 executions |-> Append(walk.executions, execution), trace |-> <<>>]
    <3> HIDE DEF step, hidden, result, execution, chosen
    <3> QED BY <1>4, <1>5, <2>1, <2>7 DEF WalkAfter
  <2> HIDE DEF step, hidden, result, execution, chosen
  <2>9. PICK pc \in {"trace", "prepare"} : Goto(pc) /\ (pc = "trace" <=> n = 3)
    BY <2>1, <2>3
  <2>10. RunInv' /\ Asked' = Asked /\ run'.pc = pc /\ run'.need = <<>> /\ run'.build = run.build
    <3>1. pc \in Stages /\ pc # "idle"
      BY DEF Stages
    <3> QED BY <1>1, <2>9, <3>1, GotoKeeps
  <2>11. Executed(n + 1)' = Executed(n + 1)
    BY <2>10 DEF Executed, Execution, StepRoute
  <2>12. WalkAfter(n + 1, <<>>)'
    <3>1. walk'.chosen = more
      BY <2>8
    <3> QED BY <2>2, <2>4, <2>5, <2>6, <2>8, <2>11, <3>1 DEF WalkAfter, HiddenAfter, StatesAfter,
               StepOutput, Output1, Output2, Output3, Output4, State1, State2, State3, State4, Input
  <2>13. /\ ChosenIsRouted'
         /\ ChosenRanges' = ChosenRanges \cup ToSet(route)
    <3>1. /\ \E one \in Seq(Experts), two \in Seq(Experts) :
              /\ more = <<one, two>> /\ ~Repeats(one) /\ ~Repeats(two)
              /\ ToSet(one) \subseteq UNION {ToSet(WalkRoutes[run.build][1][i]) : i \in {1, 2}}
              /\ ToSet(two) \subseteq UNION {ToSet(WalkRoutes[run.build][2][i]) : i \in {1, 2}}
          /\ ToSet(Trunk) \cup ToSet(more[1]) \cup ToSet(more[2]) = ChosenRanges \cup ToSet(route)
      BY <1>2, <1>3, <1>4, <2>7, ChosenGrows DEF chosen
    <3>2. walk'.chosen = more
      BY <2>8
    <3>3. run'.build = run.build
      BY <2>10
    <3>4. ChosenIsRouted'
      BY <3>1, <3>2, <3>3 DEF ChosenIsRouted
    <3>5. ChosenRanges' = ChosenRanges \cup ToSet(route)
      BY <3>1, <3>2 DEF ChosenRanges
    <3> QED BY <3>4, <3>5
  <2>14. ~Repeats(Asked' \o run'.need) /\ ToSet(Asked') = ChosenRanges'
    <3>1. Asked \o <<>> = Asked
      BY <1>1, AskedType DEF RunInv
    <3> QED BY <1>1, <2>10, <2>13, <3>1 DEF TwoInv, TwoAsked
  <2>15. DiskTypes'
    BY <1>1 DEF DiskTypes, disk, bounds
  <2>16. WalkInv'
    <3>1. n + 1 \in 0..3 \/ (n = 3 /\ n + 1 = 4)
      OBVIOUS
    <3> QED BY <2>9, <2>10, <2>12, <2>13, <3>1 DEF WalkInv, Walked, Traced, LaidOut, Assembled
  <2> QED BY <1>1, <2>9, <2>10, <2>14, <2>15, <2>16
          DEF TwoInv, TwoStages, AssemblyFiles, TwoAsked, TwoFiles, Assembled, Walked
<1> QED BY <1>6, <1>7

\* What a step that leaves the walk leaves.
LEMMA WalkStays ==
  ASSUME walk' = walk, run'.build = run.build
  PROVE  /\ ChosenIsRouted => ChosenIsRouted'
         /\ ChosenRanges' = ChosenRanges /\ route' = route
         /\ \A n \in 0..4 : Executed(n)' = Executed(n)
         /\ \A n \in 0..4 : WalkAfter(n, <<>>) => WalkAfter(n, <<>>)'
         /\ WalkAfter(4, Replay(Executed(4))) => WalkAfter(4, Replay(Executed(4)))'
         /\ \A l \in {1, 2} : SelectedOf(l)' = SelectedOf(l)
<1>1. ChosenIsRouted => ChosenIsRouted'
  BY DEF ChosenIsRouted
<1>2. ChosenRanges' = ChosenRanges /\ route' = route
  BY DEF ChosenRanges, route, layer, position
<1>3. \A n \in 0..4 : Executed(n)' = Executed(n)
  BY DEF Executed, Execution, StepRoute
<1>4. \A n \in 0..4 : StatesAfter(n)' = StatesAfter(n) /\ HiddenAfter(n)' = HiddenAfter(n)
  BY DEF StatesAfter, HiddenAfter, StepOutput, Output1, Output2, Output3, Output4, State1, State2,
         State3, State4, Input
<1>5. \A n \in 0..4 : WalkAfter(n, <<>>) => WalkAfter(n, <<>>)'
  BY <1>3, <1>4 DEF WalkAfter
<1>6. WalkAfter(4, Replay(Executed(4))) => WalkAfter(4, Replay(Executed(4)))'
  <2>1. Replay(Executed(4))' = Replay(Executed(4))
    BY <1>3 DEF Replay, Input
  <2> QED BY <1>3, <1>4, <2>1 DEF WalkAfter
<1>7. \A l \in {1, 2} : SelectedOf(l)' = SelectedOf(l)
  BY DEF SelectedOf, TraceStep
<1> QED BY <1>1, <1>2, <1>3, <1>5, <1>6, <1>7

\* A run that has walked its four steps goes on with the walk as it is.
LEMMA TwoGoesOn ==
  ASSUME TwoInv, walk' = walk, run'.build = run.build, RunInv', Asked' = Asked, run'.need = run.need,
         run.pc \in Traced, run'.pc \in Traced,
         run'.pc \in LaidOut => \A l \in {1, 2} : walk.chosen[l] = SelectedOf(l)
  PROVE  WalkInv' /\ TwoAsked'
<1>1. /\ ChosenIsRouted /\ WalkAfter(4, Replay(Executed(4)))
      /\ ~Repeats(Asked \o run.need) /\ run.need = <<>> /\ ToSet(Asked) = ChosenRanges
  BY DEF TwoInv, WalkInv, TwoAsked, Traced, Walked, Assembled
<1>2. /\ ChosenIsRouted' /\ ChosenRanges' = ChosenRanges /\ WalkAfter(4, Replay(Executed(4)))'
      /\ \A l \in {1, 2} : SelectedOf(l)' = SelectedOf(l)
  BY <1>1, WalkStays
<1>3. WalkInv'
  BY <1>2 DEF WalkInv, Traced, LaidOut, Assembled
<1>4. TwoAsked'
  BY <1>1, <1>2 DEF TwoAsked, Traced, Assembled
<1> QED BY <1>3, <1>4

LEMMA TwoInvStep == TwoInv /\ [TwoNext]_twoVars => TwoInv'
<1> SUFFICES ASSUME TwoInv, [TwoNext]_twoVars PROVE TwoInv'
  OBVIOUS
<1>1. RunInv /\ DiskTypes /\ (run.pc # "idle" => run.build \in Builds)
  BY DEF TwoInv, RunInv, RunTypes, at
<1>2. ASSUME UNCHANGED <<run, walk, disk, bounds>>, RunInv'
      PROVE  TwoInv'
  <2>1. walk' = walk /\ run' = run /\ Asked' = Asked
    BY <1>2 DEF Asked
  <2>2. /\ ChosenIsRouted => ChosenIsRouted'
        /\ ChosenRanges' = ChosenRanges /\ route' = route
        /\ \A n \in 0..4 : WalkAfter(n, <<>>) => WalkAfter(n, <<>>)'
        /\ WalkAfter(4, Replay(Executed(4))) => WalkAfter(4, Replay(Executed(4)))'
        /\ \A l \in {1, 2} : SelectedOf(l)' = SelectedOf(l)
    BY <2>1, WalkStays
  <2>3. WalkInv'
    <3>1. \A n \in 0..3 : n \in 0..4
      OBVIOUS
    <3> QED BY <2>1, <2>2, <3>1 DEF TwoInv, WalkInv, NoWalk, Input
  <2>4. TwoAsked'
    BY <2>1, <2>2 DEF TwoInv, TwoAsked
  <2>5. DiskTypes' /\ AssemblyFiles' /\ TwoFiles'
    BY <1>2, <2>1 DEF TwoInv, DiskTypes, AssemblyFiles, TwoFiles, disk, bounds
  <2> QED BY <1>2, <2>1, <2>3, <2>4, <2>5 DEF TwoInv
<1>3. CASE UNCHANGED twoVars
  <2>1. RunInv'
    BY <1>3 DEF TwoInv, twoVars, fixtureVars, store, RunInv, RunTypes, StoreTypes, TransfersCount,
                AskedIsStored, Asked, at
  <2> QED BY <1>2, <1>3, <2>1 DEF twoVars, fixtureVars
<1>4. ASSUME run' = NoRun, Kept, UNCHANGED store, UNCHANGED disk, UNCHANGED runs,
             stops' \in Nat, stops' <= MaxStops
      PROVE  TwoInv'
  <2>1. walk' = NoWalk
    BY <1>4 DEF Kept, NoRun
  <2>2. DiskTypes'
    BY <1>1, <1>4 DEF DiskTypes, disk
  <2> QED BY <1>4, <2>1, <2>2, TwoEnds
<1>5. CASE \E b \in Builds : TwoStart(b)
  <2>1. PICK b \in Builds : StartOf(b, "trunk") /\ walk' = NoWalk
    BY <1>5 DEF TwoStart
  <2>2. /\ RunInv' /\ Asked' = <<>> /\ run'.pc = "trunk" /\ run'.build = b /\ run'.need = Trunk
        /\ UNCHANGED disk /\ UNCHANGED stops /\ runs' = runs + 1
    BY <1>1, <2>1, StartKeeps
  <2>3. DiskTypes'
    BY <1>1, <2>2 DEF DiskTypes, disk
  <2>4. Asked' \o run'.need = Trunk /\ ~Repeats(Trunk)
    BY <2>2, ConstantTypes
  <2> QED BY <2>1, <2>2, <2>3, <2>4 DEF TwoInv, TwoStages, AssemblyFiles, WalkInv, TwoAsked, TwoFiles,
                                  Assembled, Walked, Traced, LaidOut
<1>6. ASSUME NEW pc \in {"trunk", "experts"}, Fetch(pc), UNCHANGED walk
      PROVE  TwoInv'
  <2>1. /\ run'.pc = run.pc /\ run.pc = pc /\ run'.build = run.build
        /\ Asked' \o run'.need = Asked \o run.need /\ Head(run.need) \in Ranges
        /\ run'.need = Tail(run.need)
    BY <1>1, <1>6, FetchAsks DEF RunInv
  <2>2. RunInv' /\ UNCHANGED <<disk, bounds>>
    BY <1>1, <1>6, <2>1, FetchKeeps, FetchStores
  <2>3. /\ ChosenIsRouted => ChosenIsRouted'
        /\ ChosenRanges' = ChosenRanges /\ route' = route
        /\ \A n \in 0..4 : WalkAfter(n, <<>>) => WalkAfter(n, <<>>)'
    BY <1>6, <2>1, WalkStays
  <2>4. ToSet(run'.need) \subseteq ToSet(run.need)
    <3>1. run.need \in Seq(Ranges) /\ run.need # <<>>
      BY <1>1, <1>6 DEF RunInv, RunTypes, Fetch
    <3>2. /\ Tail(run.need) \in Seq(Ranges) /\ Len(Tail(run.need)) = Len(run.need) - 1
          /\ \A i \in 1..Len(Tail(run.need)) : Tail(run.need)[i] = run.need[i + 1]
      BY <3>1
    <3> QED BY <2>1, <3>1, <3>2 DEF ToSet
  <2>5. WalkInv'
    <3>1. \A n \in 0..3 : n \in 0..4
      OBVIOUS
    <3> QED BY <1>6, <2>1, <2>3, <3>1 DEF TwoInv, WalkInv, NoWalk, Input, Walked, Traced, LaidOut, Assembled
  <2>6. TwoAsked'
    BY <2>1, <2>3, <2>4 DEF TwoInv, TwoAsked, Walked, Assembled
  <2> QED BY <1>1, <2>1, <2>2, <2>5, <2>6 DEF TwoInv, AssemblyFiles, TwoFiles, disk, bounds, DiskTypes
<1>7. CASE LoadSources
  <2>1. /\ run.pc = "trunk" /\ ~at("idle") /\ run.need = <<>> /\ Goto("prepare")
        /\ UNCHANGED <<store, disk, bounds, walk>>
    BY <1>7 DEF LoadSources, Fetched, at
  <2>2. RunInv' /\ Asked' = Asked /\ run'.pc = "prepare" /\ run'.need = <<>> /\ run'.build = run.build
    BY <1>1, <2>1, GotoKeeps DEF Stages
  <2>3. walk = NoWalk /\ walk' = NoWalk /\ Asked \o run.need = Trunk /\ ~Repeats(Asked \o run.need)
    BY <2>1 DEF TwoInv, WalkInv, TwoAsked
  <2>4. Asked = Trunk
    <3>1. Asked \o <<>> = Asked
      BY <1>1, AskedType DEF RunInv
    <3> QED BY <2>1, <2>3, <3>1
  <2>5. ToSet(<<>>) = {} /\ <<>> \in Seq(Experts) /\ ~Repeats(<<>>)
    BY DEF ToSet, Repeats
  <2>6. walk'.chosen = <<<<>>, <<>>>> /\ walk'.chosen[1] = <<>> /\ walk'.chosen[2] = <<>>
    BY <2>3 DEF NoWalk
  <2>7. ChosenIsRouted'
    BY <2>5, <2>6 DEF ChosenIsRouted
  <2>8. ChosenRanges' = ToSet(Trunk)
    BY <2>5, <2>6 DEF ChosenRanges
  <2>9. WalkAfter(0, <<>>)'
    <3>1. WalkAfter(0, <<>>)
      <4>1. Executed(0) = <<>> /\ HiddenAfter(0) = Input("a") /\ StatesAfter(0) = <<<<>>, <<>>>>
        BY ExecutedGrows DEF HiddenAfter, StatesAfter
      <4>2. walk.chosen = <<<<>>, <<>>>>
        BY <2>3 DEF NoWalk
      <4>3. walk = [step |-> 1, hidden |-> Input("a"), states |-> <<<<>>, <<>>>>,
                    chosen |-> <<<<>>, <<>>>>, executions |-> <<>>, trace |-> <<>>]
        BY <2>3, Zenon DEF NoWalk
      <4>4. (IF 0 = 4 THEN 4 ELSE 0 + 1) = 1
        OBVIOUS
      <4> QED BY <4>1, <4>2, <4>3, <4>4, Zenon DEF WalkAfter
    <3> QED BY <2>1, <2>2, <3>1, WalkStays
  <2>10. WalkInv'
    <3>1. 0 \in 0..3
      OBVIOUS
    <3> QED BY <2>2, <2>7, <2>9, <3>1 DEF WalkInv, Walked, Traced, LaidOut, Assembled
  <2>11. TwoAsked'
    BY <2>1, <2>2, <2>3, <2>4, <2>8 DEF TwoAsked, Walked, Assembled
  <2> QED BY <1>1, <2>1, <2>2, <2>10, <2>11
          DEF TwoInv, TwoStages, AssemblyFiles, TwoFiles, Assembled, disk, bounds, DiskTypes
<1>8. CASE Prepare
  <2>1. /\ run.pc = "prepare" /\ ~at("idle") /\ UNCHANGED <<store, disk, bounds, walk>>
        /\ run' = [run EXCEPT !.pc = "experts", !.need = Unused(route, walk.chosen[layer])]
    BY <1>8 DEF Prepare, at
  <2>2. run.build \in Builds /\ ChosenIsRouted /\ run.need = <<>> /\ ToSet(Asked) = ChosenRanges
    BY <1>1, <2>1 DEF TwoInv, WalkInv, TwoAsked, Walked
  <2>3. PICK n \in 0..3 : WalkAfter(n, <<>>)
    BY <2>1 DEF TwoInv, WalkInv
  <2>4. /\ layer \in {1, 2} /\ route \in Seq(Experts) /\ ~Repeats(route)
        /\ (ToSet(route) \ ToSet(walk.chosen[layer])) \cap ChosenRanges = {}
    BY <2>2, <2>3, StepFacts
  <2>5. PICK need : need = Unused(route, walk.chosen[layer])
    OBVIOUS
  <2>6. /\ need \in Seq(Experts) /\ ~Repeats(need)
        /\ ToSet(need) = ToSet(route) \ ToSet(walk.chosen[layer])
    BY <2>4, <2>5, UnusedProperties
  <2>7. need \in Seq(Ranges)
    BY <2>6, ConstantTypes
  <2>8. RunInv' /\ Asked' = Asked /\ run'.pc = "experts" /\ run'.need = need /\ run'.build = run.build
    BY <1>1, <2>1, <2>5, <2>7, StageKeeps DEF Stages
  <2>9. Asked \in Seq(Ranges) /\ ~Repeats(Asked)
    <3>1. Asked \in Seq(Ranges)
      BY <1>1, AskedType DEF RunInv
    <3>2. Asked \o <<>> = Asked
      BY <3>1
    <3> QED BY <2>2, <3>1, <3>2 DEF TwoInv, TwoAsked
  <2>10. /\ ~Repeats(Asked \o need)
         /\ ToSet(Asked \o need) = ChosenRanges \cup ToSet(need)
    BY <2>2, <2>4, <2>6, <2>7, <2>9, ConcatFresh
  <2>11. ToSet(walk.chosen[layer]) \subseteq ChosenRanges
    BY <2>4 DEF ChosenRanges
  <2>12. /\ ChosenIsRouted' /\ ChosenRanges' = ChosenRanges /\ route' = route
         /\ WalkAfter(n, <<>>)'
    <3>1. n \in 0..4 /\ walk' = walk
      BY <2>1
    <3> QED BY <2>2, <2>3, <2>8, <3>1, WalkStays
  <2>13. WalkInv'
    BY <2>8, <2>12 DEF WalkInv, Walked, Traced, LaidOut, Assembled
  <2>14. TwoAsked'
    <3>1. ChosenRanges \cup ToSet(need) = ChosenRanges \cup ToSet(route)
      BY <2>6, <2>11
    <3> QED BY <2>6, <2>8, <2>10, <2>12, <3>1 DEF TwoAsked, Walked, Assembled
  <2> QED BY <1>1, <2>1, <2>8, <2>13, <2>14
          DEF TwoInv, TwoStages, AssemblyFiles, TwoFiles, Assembled, disk, bounds, DiskTypes
<1>9. CASE Finish
  BY <1>9, TwoInvFinish
<1>10. CASE DeriveTrace
  <2>1. /\ run.pc = "trace" /\ ~at("idle") /\ Goto("oracle") /\ UNCHANGED <<store, disk, bounds>>
        /\ walk' = [walk EXCEPT !.trace = Replay(walk.executions)]
    BY <1>10 DEF DeriveTrace, at
  <2>2. RunInv' /\ Asked' = Asked /\ run'.pc = "oracle" /\ run'.need = run.need /\ run'.build = run.build
    BY <1>1, <2>1, GotoKeeps DEF Stages
  <2>3. ChosenIsRouted /\ WalkAfter(4, <<>>)
    BY <2>1 DEF TwoInv, WalkInv, Walked
  <2>4. PICK replay : replay = Replay(Executed(4))
    OBVIOUS
  <2>5. /\ walk.executions = Executed(4)
        /\ walk' = [step |-> 4, hidden |-> HiddenAfter(4), states |-> StatesAfter(4),
                    chosen |-> walk.chosen, executions |-> Executed(4), trace |-> replay]
    BY <2>1, <2>3, <2>4 DEF WalkAfter
  <2>6. walk'.chosen = walk.chosen
    BY <2>5
  <2>7. ChosenIsRouted' /\ ChosenRanges' = ChosenRanges
    BY <2>2, <2>3, <2>6 DEF ChosenIsRouted, ChosenRanges
  <2>8. Executed(4)' = Executed(4)
    BY <2>2 DEF Executed, Execution, StepRoute
  <2>9. WalkAfter(4, Replay(Executed(4)))'
    <3>1. Replay(Executed(4))' = replay
      BY <2>4, <2>8 DEF Replay, Input
    <3> QED BY <2>5, <2>6, <2>8, <3>1 DEF WalkAfter, HiddenAfter, StatesAfter,
               StepOutput, Output1, Output2, Output3, Output4, State1, State2, State3, State4, Input
  <2>10. WalkInv'
    BY <2>2, <2>7, <2>9 DEF WalkInv, Walked, Traced, LaidOut, Assembled
  <2>11. TwoAsked'
    BY <2>1, <2>2, <2>7 DEF TwoInv, TwoAsked, Walked, Assembled
  <2> QED BY <1>1, <2>1, <2>2, <2>10, <2>11
          DEF TwoInv, TwoStages, AssemblyFiles, TwoFiles, Assembled, disk, bounds, DiskTypes
<1>11. CASE PublishTwoOracle
  <2>1. /\ run.pc = "oracle" /\ ~at("idle") /\ Goto("layout")
        /\ files' = [files EXCEPT !.oracle = run.build]
        /\ UNCHANGED <<store, ledger, partial, bounds, walk>>
    BY <1>11 DEF PublishTwoOracle, at
  <2>2. RunInv' /\ Asked' = Asked /\ run'.pc = "layout" /\ run'.need = run.need /\ run'.build = run.build
    BY <1>1, <2>1, GotoKeeps DEF Stages
  <2>3. files' \in [Files -> Builds \cup {None}] /\ files'.oracle = run.build
    BY <1>1, <2>1 DEF DiskTypes, Files
  <2>4. WalkInv' /\ TwoAsked'
    BY <2>1, <2>2, TwoGoesOn DEF Traced, LaidOut, Assembled
  <2> QED BY <1>1, <2>1, <2>2, <2>3, <2>4
          DEF TwoInv, TwoStages, AssemblyFiles, TwoFiles, Assembled, bounds, DiskTypes
<1>12. CASE LayOutTwo
  <2>1. /\ run.pc = "layout" /\ ~at("idle") /\ UNCHANGED <<store, disk, bounds>> /\ Kept
        /\ \/ run' = NoRun
           \/ Goto("assemble") /\ \A l \in {1, 2} : walk.chosen[l] = SelectedOf(l)
    BY <1>12 DEF LayOutTwo, at
  <2>2. CASE run' = NoRun
    BY <1>1, <1>4, <2>1, <2>2 DEF bounds, DiskTypes
  <2>3. CASE Goto("assemble") /\ \A l \in {1, 2} : walk.chosen[l] = SelectedOf(l)
    <3>1. RunInv' /\ Asked' = Asked /\ run'.pc = "assemble" /\ run'.need = run.need /\ run'.build = run.build
      BY <1>1, <2>1, <2>3, GotoKeeps DEF Stages
    <3>2. walk' = walk
      BY <2>1, <3>1 DEF Kept
    <3>3. WalkInv' /\ TwoAsked'
      BY <2>1, <2>3, <3>1, <3>2, TwoGoesOn DEF Traced, LaidOut, Assembled
    <3> QED BY <1>1, <2>1, <3>1, <3>3
            DEF TwoInv, TwoStages, AssemblyFiles, TwoFiles, Assembled, disk, bounds, DiskTypes
  <2> QED BY <2>1, <2>2, <2>3
<1>13. CASE Assembling /\ Kept
  <2>1. /\ RunInv' /\ DiskTypes' /\ AssemblyFiles' /\ UNCHANGED <<store, bounds>>
        /\ files'.oracle = files.oracle
        /\ run.pc \in {"assemble"} \cup (Assembled \ {"verify"})
        /\ \/ run' = NoRun
           \/ run'.pc \in Assembled /\ run'.build = run.build /\ Asked' = Asked
    BY <1>1, <1>13, AssemblingKeeps DEF TwoInv
  <2>2. CASE run' = NoRun
    <3>1. walk' = NoWalk
      BY <1>13, <2>2 DEF Kept, NoRun
    <3> QED BY <2>1, <2>2, <3>1, TwoEnds
  <2>3. CASE run'.pc \in Assembled /\ run'.build = run.build /\ Asked' = Asked
    <3>1. walk' = walk
      BY <1>13, <2>3 DEF Kept, Assembled
    <3>2. run'.need = run.need
      <4>1. run' = NoRun \/ \E pc \in Assembled : Goto(pc)
        BY <1>13 DEF Assembling, AssembleMicroshard, AssembleManifest, StartConvert, PublishK3x,
                     UnlinkLedger, Assembled
      <4>2. run' # NoRun
        BY <2>3 DEF NoRun, Assembled
      <4>3. run \in [pc : Stages, build : Builds \cup {None}, need : Seq(Ranges), got : Seq(Fetches)]
        BY <1>1 DEF RunInv, RunTypes
      <4> QED BY <4>1, <4>2, <4>3 DEF Goto
    <3>3. \A l \in {1, 2} : walk.chosen[l] = SelectedOf(l)
      BY <2>1 DEF TwoInv, WalkInv, LaidOut
    <3>4. WalkInv' /\ TwoAsked'
      BY <2>1, <2>3, <3>1, <3>2, <3>3, TwoGoesOn DEF Traced, LaidOut
    <3>5. TwoFiles'
      BY <2>1, <2>3 DEF TwoInv, TwoFiles, Assembled
    <3> QED BY <2>1, <2>3, <3>4, <3>5 DEF TwoInv, TwoStages
  <2> QED BY <2>1, <2>2, <2>3
<1>14. CASE RecordTwo
  <2>1. /\ run.pc = "verify" /\ ~at("idle") /\ Goto("return")
        /\ files' = [files EXCEPT !.routes = run.build, !.artifact = run.build]
        /\ UNCHANGED <<store, ledger, partial, bounds, walk>>
    BY <1>14 DEF RecordTwo, at
  <2>2. RunInv' /\ Asked' = Asked /\ run'.pc = "return" /\ run'.need = run.need /\ run'.build = run.build
    BY <1>1, <2>1, GotoKeeps DEF Stages
  <2>3. /\ files' \in [Files -> Builds \cup {None}] /\ files'.routes = run.build
        /\ files'.artifact = run.build /\ files'.microshard = files.microshard
        /\ files'.source = files.source /\ files'.k3x = files.k3x /\ files'.oracle = files.oracle
    BY <1>1, <2>1 DEF DiskTypes, Files
  <2>4. \A l \in {1, 2} : walk.chosen[l] = SelectedOf(l)
    BY <2>1 DEF TwoInv, WalkInv, LaidOut, Assembled
  <2>5. WalkInv' /\ TwoAsked'
    BY <2>1, <2>2, <2>4, TwoGoesOn DEF Traced, LaidOut, Assembled
  <2> QED BY <1>1, <2>1, <2>2, <2>3, <2>5
          DEF TwoInv, TwoStages, AssemblyFiles, TwoFiles, Assembled, bounds, DiskTypes
<1>15. CASE Return /\ Kept
  BY <1>1, <1>4, <1>15 DEF Return, bounds, DiskTypes
<1>16. CASE Stop /\ Kept
  BY <1>1, <1>4, <1>16, ConstantTypes DEF Stop, DiskTypes
<1>17. CASE Lose /\ UNCHANGED walk
  BY <1>1, <1>2, <1>17, LoseKeeps
<1> QED BY <1>3, <1>5, <1>6, <1>7, <1>8, <1>9, <1>10, <1>11, <1>12, <1>13, <1>14, <1>15, <1>16, <1>17
        DEF TwoNext, TwoStep, FetchTwoTrunk, FetchStepExperts

LEMMA TwoInvAlways == TwoSpec => []TwoInv
<1>1. TwoInit => TwoInv
  BY TwoInvInit
<1>2. TwoInv /\ [TwoNext]_twoVars => TwoInv'
  BY TwoInvStep
<1> QED BY <1>1, <1>2, PTL DEF TwoSpec

\* The beginning of a sequence without repetition has none.
LEMMA FreshBeginning ==
  ASSUME NEW S, NEW s \in Seq(S), NEW t \in Seq(S), ~Repeats(s \o t)
  PROVE  ~Repeats(s)
<1>1. PICK both \in Seq(S) : both = s \o t
  <2>1. s \o t \in Seq(S)
    BY ConcatProperties
  <2> QED BY <2>1
<1>2. DOMAIN s \subseteq DOMAIN both /\ \A i \in DOMAIN s : both[i] = s[i]
  BY <1>1, ConcatProperties
<1> QED BY <1>1, <1>2 DEF Repeats

LEMMA TwoInvImplies ==
  TwoInv => TwoTypeOK /\ TraceIsOfLayers /\ ExpertsOnFirstUse
<1> SUFFICES ASSUME TwoInv PROVE TwoTypeOK /\ TraceIsOfLayers /\ ExpertsOnFirstUse
  OBVIOUS
<1>1. /\ RunInv /\ DiskTypes /\ run.pc \in TwoStages /\ WalkInv /\ TwoAsked
  BY DEF TwoInv
<1>2. /\ objects \subseteq Ranges /\ losses <= MaxLosses /\ stops <= MaxStops
      /\ DOMAIN files = Files /\ \A f \in Files : files[f] \in Builds \cup {None}
      /\ ledger \in Builds \cup {None} /\ partial \in BOOLEAN
  BY <1>1 DEF RunInv, StoreTypes, DiskTypes
<1>3. run.build \in Builds \cup {None} /\ (run.build = None <=> at("idle"))
  BY <1>1, ConstantTypes DEF RunInv, RunTypes, NoRun, at
<1>4. run.need \in Seq(Ranges) /\ Asked \in Seq(Ranges) /\ ToSet(run.need) \subseteq Ranges
  BY <1>1, AskedType DEF RunInv, RunTypes, ToSet
<1>5. FixtureTypeOK
  BY <1>2, <1>3, <1>4 DEF FixtureTypeOK
<1>6. walk = NoWalk \/ \E n \in 0..4 : WalkAfter(n, walk.trace)
  <2>1. \A n \in 0..4 : \A trace : WalkAfter(n, trace) => walk.trace = trace
    BY DEF WalkAfter
  <2>2. 4 \in 0..4 /\ \A n \in 0..3 : n \in 0..4
    OBVIOUS
  <2> QED BY <1>1, <2>1, <2>2 DEF TwoStages, WalkInv, Traced, Assembled
<1>7. walk.step \in DOMAIN StepOrder /\ Len(walk.executions) \in 0..Len(StepOrder)
  <2>1. CASE walk = NoWalk
    <3>1. walk.step = 1 /\ Len(walk.executions) = 0
      BY <2>1 DEF NoWalk
    <3> QED BY <3>1, StepOrderIs
  <2>2. CASE \E n \in 0..4 : WalkAfter(n, walk.trace)
    <3>1. PICK n \in 0..4 : WalkAfter(n, walk.trace)
      BY <2>2
    <3>2. walk.step = (IF n = 4 THEN 4 ELSE n + 1) /\ walk.executions = Executed(n)
      BY <3>1 DEF WalkAfter
    <3> QED BY <3>2, ExecutedGrows, StepOrderIs
  <2> QED BY <1>6, <2>1, <2>2
<1>8. at("idle") => walk = NoWalk
  BY <1>1 DEF WalkInv, at
<1>9. TraceIsOfLayers
  <2>1. CASE run.pc \in Traced
    <3>1. walk.trace = Replay(Executed(4))
      <4>1. WalkAfter(4, Replay(Executed(4)))
        BY <1>1, <2>1 DEF WalkInv
      <4> QED BY <4>1 DEF WalkAfter
    <3> QED BY <3>1, TraceOfExecutions
  <2>2. CASE run.pc \notin Traced
    <3>1. walk.trace = <<>>
      <4>1. walk = NoWalk => walk.trace = <<>>
        BY DEF NoWalk
      <4>2. \A n \in 0..4 : WalkAfter(n, <<>>) => walk.trace = <<>>
        BY DEF WalkAfter
      <4>3. 4 \in 0..4 /\ \A n \in 0..3 : n \in 0..4
        OBVIOUS
      <4> QED BY <1>1, <2>2, <4>1, <4>2, <4>3 DEF TwoStages, WalkInv, Traced, Assembled
    <3> QED BY <3>1 DEF TraceIsOfLayers
  <2> QED BY <2>1, <2>2
<1>10. ExpertsOnFirstUse
  <2>1. ~Repeats(Asked)
    BY <1>1, <1>4, FreshBeginning DEF TwoAsked
  <2> QED BY <1>1, <2>1 DEF ExpertsOnFirstUse, AskedOnce, TwoAsked, at
<1> QED BY <1>5, <1>7, <1>8, <1>9, <1>10 DEF TwoTypeOK

LEMMA TwoReturnsWhole == TwoInv /\ [TwoNext]_twoVars => ReturnedIsWhole
<1> SUFFICES ASSUME TwoInv, Return
             PROVE  /\ \A f \in Files : files[f] = run.build
                    /\ ToSet(Asked) = ToSet(Trunk) \cup ToSet(SelectedOf(1)) \cup ToSet(SelectedOf(2))
                    /\ ledger = None /\ ~partial
  BY DEF ReturnedIsWhole
<1>1. run.pc = "return"
  BY DEF Return, at
<1>2. /\ files.oracle = run.build /\ files.routes = run.build /\ files.artifact = run.build
      /\ files.microshard = run.build /\ files.source = run.build /\ files.k3x = run.build
      /\ ledger = None /\ ~partial
  BY <1>1 DEF TwoInv, TwoFiles, AssemblyFiles
<1>3. ToSet(Asked) = ChosenRanges
  BY <1>1 DEF TwoInv, TwoAsked, Walked
<1>4. walk.chosen[1] = SelectedOf(1) /\ walk.chosen[2] = SelectedOf(2)
  BY <1>1 DEF TwoInv, WalkInv, LaidOut
<1> QED BY <1>2, <1>3, <1>4, DifferentFiles DEF ChosenRanges

\* Walking the inputs one by one through both layers gives what whole
\* sequences give layer by layer, the trace says so, an expert is asked for
\* once, by the step that first routes to it, and a run that returns leaves
\* files of its own build alone.
THEOREM TwoLayerFixtureTrace == TwoSpec => TraceIsLayerMajor
<1>1. TwoInv => (builder = "two-layer" => TwoTypeOK /\ TraceIsOfLayers /\ ExpertsOnFirstUse)
  BY TwoInvImplies
<1>2. TwoInv /\ [TwoNext]_twoVars => [builder = "two-layer" => ReturnedIsWhole]_twoVars
  BY TwoReturnsWhole
<1> QED BY <1>1, <1>2, TwoInvAlways, PTL DEF TwoSpec, TraceIsLayerMajor

-----------------------------------------------------------------------------
(* The programs: the steps of a tool, and what follows each of them.        *)

OracleTools == {"closure", "attribution", "operation"}
RowLess == {"audit", "discovery"}
RowSteps == {"measure", "write row", "digest row"}
TableSteps == {"name", "write table", "digest table", "write summary"}
StagesOf(t) ==
  CASE t \in Atomic \ OracleTools ->
         {"identify", "refuse", "clear", "make", "parity", "publish", "verify"}
           \cup RowSteps \cup TableSteps
    [] t \in OracleTools ->
         {"identify", "oracle", "refuse", "clear", "make", "parity", "publish", "verify"}
           \cup RowSteps \cup TableSteps
    [] t = "moe" -> {"identify", "mkdir", "verify"} \cup RowSteps \cup TableSteps
    [] t = "expert" -> {"mkdir", "verify"} \cup RowSteps \cup TableSteps
    [] t = "graph" ->
         {"mkdir", "write row table", "digest row table"} \cup RowSteps \cup TableSteps
    [] t = "audit" -> {"mkdir", "measure", "parity"} \cup TableSteps
    [] t = "discovery" -> {"mkdir", "measure"} \cup TableSteps

\* The successor of each stage, in one table for all tools.
Follows(t, s, more) ==
  CASE s = "start" -> IF t \in Atomic \cup {"moe"} THEN "identify" ELSE "mkdir"
    [] s = "identify" -> IF t \in OracleTools THEN "oracle"
                         ELSE IF t = "moe" THEN "mkdir" ELSE "refuse"
    [] s = "oracle" -> "refuse"
    [] s = "refuse" -> "clear"
    [] s = "clear" -> "make"
    [] s \in {"make", "mkdir"} -> "measure"
    [] s = "measure" -> IF t = "audit" THEN (IF more THEN "measure" ELSE "parity")
                        ELSE IF t = "discovery" THEN "write table" ELSE "write row"
    [] s = "write row" -> "digest row"
    [] s = "digest row" -> IF t = "graph" THEN "write row table"
                           ELSE IF more THEN "measure"
                           ELSE IF t \in Atomic THEN "parity" ELSE "name"
    [] s = "write row table" -> "digest row table"
    [] s = "digest row table" -> IF more THEN "measure" ELSE "name"
    [] s = "parity" -> IF t = "audit" THEN "write table" ELSE "name"
    [] s = "name" -> IF t = "audit" THEN "digest table"
                     ELSE IF t = "discovery" THEN "write summary" ELSE "write table"
    [] s = "write table" -> IF t = "audit" THEN "name" ELSE "digest table"
    [] s = "digest table" -> IF t = "discovery" THEN "name" ELSE "write summary"
    [] s = "write summary" -> IF t \in Atomic THEN "publish"
                              ELSE IF t \in Unverified THEN "idle" ELSE "verify"
    [] s = "publish" -> "verify"
    [] s = "verify" -> "idle"

LEMMA AfterFollows ==
  ASSUME NEW t \in AllTools, NEW more \in BOOLEAN, NEW s \in StagesOf(t) \cup {"start"}
  PROVE  After(t, s, more) = Follows(t, s, more)
<1> USE DEF StagesOf, Follows, After, AllTools, Atomic, OracleTools, RowSteps, TableSteps, Unverified,
            AtomicRun, OracleRun, InPlaceRun, SummaryRun
<1>1. CASE t = "layer"  BY <1>1 DEF LayerRun
<1>2. CASE t = "validation"  BY <1>2 DEF ValidationRun
<1>3. CASE t = "state"  BY <1>3 DEF StateRun
<1>4. CASE t = "routing"  BY <1>4 DEF RoutingRun
<1>5. CASE t = "closure"  BY <1>5 DEF ClosureRun
<1>6. CASE t = "attribution"  BY <1>6 DEF AttributionRun
<1>7. CASE t = "operation"  BY <1>7 DEF OperationRun
<1>8. CASE t = "moe"  BY <1>8 DEF MoeRun
<1>9. CASE t = "expert"  BY <1>9 DEF ExpertRun
<1>10. CASE t = "graph"  BY <1>10 DEF GraphRun
<1>11. CASE t = "audit"  BY <1>11 DEF AuditRun
<1>12. CASE t = "discovery"  BY <1>12 DEF DiscoveryRun
<1> QED
  BY <1>1, <1>2, <1>3, <1>4, <1>5, <1>6, <1>7, <1>8, <1>9, <1>10, <1>11, <1>12
     DEF AllTools

\* The edges of the programs, with the tools they are of.
Edge(t, s, more, next) ==
  \/ s = "identify" /\ next = "oracle" /\ t \in OracleTools
  \/ s = "identify" /\ next = "mkdir" /\ t = "moe"
  \/ s = "identify" /\ next = "refuse" /\ t \in Atomic
  \/ s = "oracle" /\ next = "refuse" /\ t \in OracleTools
  \/ s = "refuse" /\ next = "clear" /\ t \in Atomic
  \/ s = "clear" /\ next = "make" /\ t \in Atomic
  \/ s = "make" /\ next = "measure" /\ t \in Atomic
  \/ s = "mkdir" /\ next = "measure" /\ t \notin Atomic
  \/ s = "measure" /\ next = "measure" /\ t = "audit" /\ more
  \/ s = "measure" /\ next = "parity" /\ t = "audit" /\ ~more
  \/ s = "measure" /\ next = "write table" /\ t = "discovery"
  \/ s = "measure" /\ next = "write row" /\ t \notin RowLess
  \/ s = "write row" /\ next = "digest row" /\ t \notin RowLess
  \/ s = "digest row" /\ next = "write row table" /\ t = "graph"
  \/ s = "digest row" /\ next = "measure" /\ t \notin RowLess \cup {"graph"} /\ more
  \/ s = "digest row" /\ next = "parity" /\ t \in Atomic /\ ~more
  \/ s = "digest row" /\ next = "name" /\ t \in {"moe", "expert"} /\ ~more
  \/ s = "write row table" /\ next = "digest row table" /\ t = "graph"
  \/ s = "digest row table" /\ next = "measure" /\ t = "graph" /\ more
  \/ s = "digest row table" /\ next = "name" /\ t = "graph" /\ ~more
  \/ s = "parity" /\ next = "write table" /\ t = "audit"
  \/ s = "parity" /\ next = "name" /\ t \in Atomic
  \/ s = "name" /\ next = "digest table" /\ t = "audit"
  \/ s = "name" /\ next = "write summary" /\ t = "discovery"
  \/ s = "name" /\ next = "write table" /\ t \notin RowLess
  \/ s = "write table" /\ next = "name" /\ t = "audit"
  \/ s = "write table" /\ next = "digest table" /\ t # "audit"
  \/ s = "digest table" /\ next = "name" /\ t = "discovery"
  \/ s = "digest table" /\ next = "write summary" /\ t # "discovery"
  \/ s = "write summary" /\ next = "publish" /\ t \in Atomic
  \/ s = "write summary" /\ next = "verify" /\ t \in {"moe", "expert"}
  \/ s = "write summary" /\ next = "idle" /\ t \in Unverified
  \/ s = "publish" /\ next = "verify" /\ t \in Atomic
  \/ s = "verify" /\ next = "idle" /\ t \in Atomic \cup {"moe", "expert"}

LEMMA FollowsEdge ==
  ASSUME NEW t \in AllTools, NEW more \in BOOLEAN, NEW s \in StagesOf(t), NEW next, next = Follows(t, s, more)
  PROVE  Edge(t, s, more, next)
<1>1. /\ s = "identify" => t \in Atomic \cup {"moe"}
      /\ s = "oracle" => t \in OracleTools
      /\ s \in {"refuse", "clear", "make", "publish"} => t \in Atomic
      /\ s = "mkdir" => t \notin Atomic
      /\ s \in {"write row", "digest row"} => t \notin RowLess
      /\ s \in {"write row table", "digest row table"} => t = "graph"
      /\ s = "parity" => t \in Atomic \cup {"audit"}
      /\ s = "verify" => t \in Atomic \cup {"moe", "expert"}
  BY DEF StagesOf, AllTools, Atomic, OracleTools, RowLess, RowSteps, TableSteps, Unverified
<1>2. CASE s = "identify"
  <2>1. \/ next = "oracle" /\ t \in OracleTools
        \/ next = "mkdir" /\ t = "moe"
        \/ next = "refuse" /\ t \in Atomic
    BY <1>1, <1>2 DEF Follows, AllTools, Atomic, OracleTools, RowLess, Unverified
  <2> QED
    BY <1>2, <2>1 DEF Edge
<1>3. CASE s = "oracle"
  <2>1. \/ next = "refuse" /\ t \in OracleTools
    BY <1>1, <1>3 DEF Follows, AllTools, Atomic, OracleTools, RowLess, Unverified
  <2> QED
    BY <1>3, <2>1 DEF Edge
<1>4. CASE s = "refuse"
  <2>1. \/ next = "clear" /\ t \in Atomic
    BY <1>1, <1>4 DEF Follows, AllTools, Atomic, OracleTools, RowLess, Unverified
  <2> QED
    BY <1>4, <2>1 DEF Edge
<1>5. CASE s = "clear"
  <2>1. \/ next = "make" /\ t \in Atomic
    BY <1>1, <1>5 DEF Follows, AllTools, Atomic, OracleTools, RowLess, Unverified
  <2> QED
    BY <1>5, <2>1 DEF Edge
<1>20. CASE s = "make"
  <2>1. \/ next = "measure" /\ t \in Atomic
    BY <1>1, <1>20 DEF Follows, AllTools, Atomic, OracleTools, RowLess, Unverified
  <2> QED
    BY <1>20, <2>1 DEF Edge
<1>6. CASE s = "mkdir"
  <2>1. \/ next = "measure" /\ t \notin Atomic
    BY <1>1, <1>6 DEF Follows, AllTools, Atomic, OracleTools, RowLess, Unverified
  <2> QED
    BY <1>6, <2>1 DEF Edge
<1>7. CASE s = "measure"
  <2>1. \/ next = "measure" /\ t = "audit" /\ more
        \/ next = "parity" /\ t = "audit" /\ ~more
        \/ next = "write table" /\ t = "discovery"
        \/ next = "write row" /\ t \notin RowLess
    BY <1>1, <1>7 DEF Follows, AllTools, Atomic, OracleTools, RowLess, Unverified
  <2> QED
    BY <1>7, <2>1 DEF Edge
<1>8. CASE s = "write row"
  <2>1. \/ next = "digest row" /\ t \notin RowLess
    BY <1>1, <1>8 DEF Follows, AllTools, Atomic, OracleTools, RowLess, Unverified
  <2> QED
    BY <1>8, <2>1 DEF Edge
<1>9. CASE s = "digest row"
  <2>1. \/ next = "write row table" /\ t = "graph"
        \/ next = "measure" /\ t \notin RowLess \cup {"graph"} /\ more
        \/ next = "parity" /\ t \in Atomic /\ ~more
        \/ next = "name" /\ t \in {"moe", "expert"} /\ ~more
    BY <1>1, <1>9 DEF Follows, AllTools, Atomic, OracleTools, RowLess, Unverified
  <2> QED
    BY <1>9, <2>1 DEF Edge
<1>10. CASE s = "write row table"
  <2>1. \/ next = "digest row table" /\ t = "graph"
    BY <1>1, <1>10 DEF Follows, AllTools, Atomic, OracleTools, RowLess, Unverified
  <2> QED
    BY <1>10, <2>1 DEF Edge
<1>11. CASE s = "digest row table"
  <2>1. \/ next = "measure" /\ t = "graph" /\ more
        \/ next = "name" /\ t = "graph" /\ ~more
    BY <1>1, <1>11 DEF Follows, AllTools, Atomic, OracleTools, RowLess, Unverified
  <2> QED
    BY <1>11, <2>1 DEF Edge
<1>12. CASE s = "parity"
  <2>1. \/ next = "write table" /\ t = "audit"
        \/ next = "name" /\ t \in Atomic
    BY <1>1, <1>12 DEF Follows, AllTools, Atomic, OracleTools, RowLess, Unverified
  <2> QED
    BY <1>12, <2>1 DEF Edge
<1>13. CASE s = "name"
  <2>1. \/ next = "digest table" /\ t = "audit"
        \/ next = "write summary" /\ t = "discovery"
        \/ next = "write table" /\ t \notin RowLess
    BY <1>1, <1>13 DEF Follows, AllTools, Atomic, OracleTools, RowLess, Unverified
  <2> QED
    BY <1>13, <2>1 DEF Edge
<1>14. CASE s = "write table"
  <2>1. \/ next = "name" /\ t = "audit"
        \/ next = "digest table" /\ t # "audit"
    BY <1>1, <1>14 DEF Follows, AllTools, Atomic, OracleTools, RowLess, Unverified
  <2> QED
    BY <1>14, <2>1 DEF Edge
<1>15. CASE s = "digest table"
  <2>1. \/ next = "name" /\ t = "discovery"
        \/ next = "write summary" /\ t # "discovery"
    BY <1>1, <1>15 DEF Follows, AllTools, Atomic, OracleTools, RowLess, Unverified
  <2> QED
    BY <1>15, <2>1 DEF Edge
<1>16. CASE s = "write summary"
  <2>1. \/ next = "publish" /\ t \in Atomic
        \/ next = "verify" /\ t \in {"moe", "expert"}
        \/ next = "idle" /\ t \in Unverified
    BY <1>1, <1>16 DEF Follows, AllTools, Atomic, OracleTools, RowLess, Unverified
  <2> QED
    BY <1>16, <2>1 DEF Edge
<1>17. CASE s = "publish"
  <2>1. \/ next = "verify" /\ t \in Atomic
    BY <1>1, <1>17 DEF Follows, AllTools, Atomic, OracleTools, RowLess, Unverified
  <2> QED
    BY <1>17, <2>1 DEF Edge
<1>18. CASE s = "verify"
  <2>1. \/ next = "idle" /\ t \in Atomic \cup {"moe", "expert"}
    BY <1>1, <1>18 DEF Follows, AllTools, Atomic, OracleTools, RowLess, Unverified
  <2> QED
    BY <1>18, <2>1 DEF Edge
<1>19. s \in {"identify", "oracle", "refuse", "clear", "make", "mkdir", "parity", "publish", "verify",
             "write row table", "digest row table"} \cup RowSteps \cup TableSteps
  BY DEF StagesOf, AllTools, Atomic, OracleTools, RowSteps, TableSteps
<1> QED
  BY <1>2, <1>3, <1>4, <1>5, <1>6, <1>7, <1>8, <1>9, <1>10, <1>11, <1>12, <1>13, <1>14, <1>15, <1>16, <1>17, <1>18, <1>19, <1>20
     DEF RowSteps, TableSteps

LEMMA FollowsStays ==
  ASSUME NEW t \in AllTools, NEW more \in BOOLEAN, NEW s \in StagesOf(t)
  PROVE  /\ Follows(t, s, more) \in StagesOf(t) \cup {"idle"} /\ "clean" \notin StagesOf(t)
         /\ Follows(t, "start", more) \in StagesOf(t) \cap {"identify", "mkdir"}
<1>1. Follows(t, s, more) \in StagesOf(t) \cup {"idle"}
  <2> DEFINE next == Follows(t, s, more)
  <2>1. Edge(t, s, more, next)
    BY FollowsEdge
  <2> HIDE DEF next
  <2>2. next \in StagesOf(t) \cup {"idle"}
    BY <2>1 DEF Edge, StagesOf, AllTools, Atomic, OracleTools, RowLess, RowSteps, TableSteps, Unverified
  <2> QED
    BY <2>2 DEF next
<1>2. Follows(t, "start", more) \in StagesOf(t) \cap {"identify", "mkdir"}
  BY DEF StagesOf, Follows, AllTools, Atomic, OracleTools, RowSteps, TableSteps, Unverified
<1>3. "clean" \notin StagesOf(t)
  BY DEF StagesOf, AllTools, Atomic, OracleTools, RowSteps, TableSteps
<1> QED
  BY <1>1, <1>2, <1>3

LEMMA FollowsEnds ==
  ASSUME NEW t \in AllTools, NEW more \in BOOLEAN, NEW s \in StagesOf(t), Follows(t, s, more) = "idle"
  PROVE  s = "verify" \/ (s = "write summary" /\ t \in Unverified)
<1>1. Edge(t, s, more, "idle")
  BY FollowsEdge
<1> QED
  BY <1>1 DEF Edge

\* A table has rows, and one row where the tool has one case.
LEMMA CutLength ==
  ASSUME NEW cases, Len(cases) \in Nat \ {0}, NEW m \in Nat \ {0}
  PROVE  /\ Len(Cut(cases, m)) \in Nat \ {0}
         /\ DOMAIN Cut(cases, m) = 1..Len(Cut(cases, m))
<1> DEFINE n == IF Len(cases) < m THEN Len(cases) ELSE m
<1>1. n \in Nat \ {0}
  OBVIOUS
<1>2. Cut(cases, m) = [i \in 1..n |-> cases[i]]
  BY DEF Cut
<1> HIDE DEF n
<1> QED
  BY <1>1, <1>2

LEMMA CasesLength ==
  ASSUME NEW t \in AllTools
  PROVE  /\ Len(Cases(t)) \in Nat \ {0}
         /\ DOMAIN Cases(t) = 1..Len(Cases(t))
         /\ t = "discovery" => Len(Cases(t)) = 1
<1>0. MaxRows[t] \in Nat \ {0}
  BY MaxRowsAssumption
<1>1. /\ Len(LayerCases) = 3 /\ Len(ValidationCases) = 4 /\ Len(StateCases) = 3
      /\ Len(RoutingCases) = 2 /\ Len(ClosureCases) = 2 /\ Len(MoeCases) = 3
      /\ Len(ExpertCases) = 2 /\ Len(AuditCases) = 3
  BY DEF LayerCases, ValidationCases, StateCases, RoutingCases, ClosureCases, MoeCases,
         ExpertCases, AuditCases
<1>2. Len(GraphCases) = 15
  BY DEF GraphCases
<1>3. \A cases \in {LayerCases, ValidationCases, StateCases, RoutingCases, ClosureCases,
                    MoeCases, ExpertCases, AuditCases, GraphCases} :
        Len(Cut(cases, MaxRows[t])) \in Nat \ {0} /\ DOMAIN Cut(cases, MaxRows[t]) = 1..Len(Cut(cases, MaxRows[t]))
  <2> DEFINE All == {LayerCases, ValidationCases, StateCases, RoutingCases, ClosureCases,
                     MoeCases, ExpertCases, AuditCases, GraphCases}
  <2>1. \A cases \in All : Len(cases) \in Nat \ {0}
    BY <1>1, <1>2
  <2> HIDE DEF All
  <2>2. \A cases \in All : Len(Cut(cases, MaxRows[t])) \in Nat \ {0} /\ DOMAIN Cut(cases, MaxRows[t]) = 1..Len(Cut(cases, MaxRows[t]))
    BY <1>0, <2>1, CutLength
  <2> QED
    BY <2>2 DEF All
<1>4. CASE t = "discovery"
  BY <1>4 DEF Cases, CasesOf
<1>5. CASE t # "discovery"
  <2>1. Cases(t) \in {Cut(cases, MaxRows[t]) : cases \in {LayerCases, ValidationCases, StateCases, RoutingCases,
                    ClosureCases, MoeCases, ExpertCases, AuditCases, GraphCases}}
    BY <1>5 DEF Cases, CasesOf, AllTools
  <2> QED
    BY <1>3, <1>5, <2>1
<1> QED
  BY <1>4, <1>5

-----------------------------------------------------------------------------
(* A run: what is true of the rows it holds.                                *)

BeforeRows == {"identify", "oracle", "refuse", "clear", "make", "mkdir"}
AfterRows == {"parity", "name", "write table", "digest table", "write summary", "publish", "verify"}
RunFields == {"id", "pc", "row", "end", "identity", "rows", "named", "digests", "seen", "against"}
\* The stages of a process that runs no program: it has ended, or cleans up.
Rests == {"idle", "clean"}
RowsOf(t, s) ==
  [case : {Cases(t)[i] : i \in DOMAIN Cases(t)}, id : Nat, with : [InputNames -> Nat],
   sound : s.soundness, result : s.results]

\* The rows are of this run, of the cases in their order, and accepted.
RowsAreOfRun(t, r) ==
  \A i \in 1..Len(r.rows) :
    /\ r.rows[i].id = r.id /\ r.rows[i].case = Cases(t)[i]
    /\ Accepted(t, r.rows[i], r.identity)

\* n runs were started so far.
RunIsOk(t, s, n, r) ==
  /\ DOMAIN r = RunFields
  /\ r.pc = "clean" => r.end = "failed"
  /\ r.pc \notin Rests =>
       /\ r.id \in 1..n /\ r.pc \in StagesOf(t) /\ r.row \in 1..Len(Cases(t))
       /\ r.rows \in Seq(RowsOf(t, s)) /\ RowsAreOfRun(t, r)
       /\ r.pc \in BeforeRows => r.row = 1
       /\ r.pc \in AfterRows => r.row = Len(Cases(t))
       /\ Len(r.rows) = IF r.pc \in BeforeRows \cup {"measure"} THEN r.row - 1 ELSE r.row
       /\ r.pc \in AfterRows \ {"parity"} => Parity(t, r.rows)

\* A run that has done what its stage asks for.
HasDone(t, s, n, r) ==
  /\ DOMAIN r = RunFields
  /\ r.id \in 1..n /\ r.pc \in StagesOf(t) /\ r.row \in 1..Len(Cases(t))
  /\ r.rows \in Seq(RowsOf(t, s)) /\ RowsAreOfRun(t, r)
  /\ r.pc \in BeforeRows => r.row = 1
  /\ r.pc \in AfterRows => r.row = Len(Cases(t))
  /\ Len(r.rows) = IF r.pc \in BeforeRows THEN 0 ELSE r.row
  /\ r.pc \in AfterRows => Parity(t, r.rows)

LEMMA AdvancedFields ==
  ASSUME NEW r, DOMAIN r = RunFields, tool \in AllTools, r.pc \in StagesOf(tool),
         r.row \in 1..Len(Cases(tool))
  PROVE  LET more == r.row < Len(Cases(tool))
             next == Follows(tool, r.pc, more)
         IN  /\ DOMAIN Advanced(r) = RunFields
             /\ more \in BOOLEAN /\ next = After(tool, r.pc, more)
             /\ Advanced(r).pc = next
             /\ Advanced(r).row = IF next = "measure" /\ Len(r.rows) = r.row THEN r.row + 1 ELSE r.row
             /\ Advanced(r).end = IF next = "idle" THEN "ok" ELSE r.end
             /\ Advanced(r).id = r.id /\ Advanced(r).identity = r.identity
             /\ Advanced(r).rows = r.rows /\ Advanced(r).named = r.named
             /\ Advanced(r).digests = r.digests /\ Advanced(r).seen = r.seen
<1> DEFINE more == r.row < Len(Cases(tool))
           next == After(tool, r.pc, more)
<1>1. more \in BOOLEAN
  OBVIOUS
<1>2. next = Follows(tool, r.pc, more)
  BY <1>1, AfterFollows
<1>3. Advanced(r) = [r EXCEPT !.pc = next,
                !.row = IF next = "measure" /\ Len(r.rows) = @ THEN @ + 1 ELSE @,
                !.end = IF next = "idle" THEN "ok" ELSE @]
  BY DEF Advanced
<1> HIDE DEF next, more
<1>4. /\ DOMAIN Advanced(r) = RunFields
      /\ Advanced(r).pc = next
      /\ Advanced(r).row = IF next = "measure" /\ Len(r.rows) = r.row THEN r.row + 1 ELSE r.row
      /\ Advanced(r).end = IF next = "idle" THEN "ok" ELSE r.end
      /\ Advanced(r).id = r.id /\ Advanced(r).identity = r.identity
      /\ Advanced(r).rows = r.rows /\ Advanced(r).named = r.named
      /\ Advanced(r).digests = r.digests /\ Advanced(r).seen = r.seen
  BY <1>3 DEF RunFields
<1> QED
  BY <1>1, <1>2, <1>4 DEF next, more

\* The row that a stage works on.
LEMMA StageRows ==
  ASSUME NEW t \in AllTools, NEW pc \in StagesOf(t), NEW most \in Nat \ {0}, NEW row \in 1..most, NEW length,
         pc \in AfterRows => row = most, pc \in BeforeRows => row = 1,
         length = IF pc \in BeforeRows THEN 0 ELSE row, t = "discovery" => most = 1,
         NEW more \in BOOLEAN, more <=> row < most, NEW next, next = Follows(t, pc, more),
         NEW newRow, newRow = IF next = "measure" /\ length = row THEN row + 1 ELSE row,
         next # "idle"
  PROVE  /\ newRow \in 1..most
         /\ next \in BeforeRows => newRow = 1
         /\ next \in AfterRows => newRow = most
         /\ length = IF next \in BeforeRows \cup {"measure"} THEN newRow - 1 ELSE newRow
<1>1. /\ next \in BeforeRows => pc \in BeforeRows
      /\ next = "measure" => pc \in BeforeRows \/ row < most
      /\ next \in AfterRows => pc \in AfterRows \/ ~(row < most) \/ t = "discovery"
      /\ pc \in BeforeRows => next \in BeforeRows \cup {"measure"}
  <2>1. /\ next \in BeforeRows => pc \in BeforeRows
        /\ next = "measure" => pc \in BeforeRows \/ more
        /\ next \in AfterRows => pc \in AfterRows \/ ~more \/ t = "discovery"
        /\ pc \in BeforeRows => next \in BeforeRows \cup {"measure"}
    <3>1. Edge(t, pc, more, next)
      BY FollowsEdge
    <3> QED
      BY <3>1 DEF Edge, BeforeRows, AfterRows
  <2> QED
    BY <2>1
<1>2. "measure" \notin BeforeRows
  BY DEF BeforeRows
<1>3. next \in AfterRows => next \notin BeforeRows /\ next # "measure"
  BY DEF AfterRows, BeforeRows
<1> QED
  BY <1>1, <1>2, <1>3

LEMMA AdvancedRun ==
  ASSUME NEW n \in Nat, NEW r, tool \in AllTools, HasDone(tool, setting, n, r)
  PROVE  RunIsOk(tool, setting, n, Advanced(r))
<1> DEFINE more == r.row < Len(Cases(tool))
           next == Follows(tool, r.pc, more)
           a == Advanced(r)
           most == Len(Cases(tool))
<1>1. /\ DOMAIN r = RunFields /\ r.pc \in StagesOf(tool) /\ r.row \in 1..most
      /\ r.id \in 1..n /\ r.rows \in Seq(RowsOf(tool, setting)) /\ RowsAreOfRun(tool, r)
      /\ r.pc \in BeforeRows => r.row = 1
      /\ r.pc \in AfterRows => r.row = most
      /\ Len(r.rows) = IF r.pc \in BeforeRows THEN 0 ELSE r.row
      /\ r.pc \in AfterRows => Parity(tool, r.rows)
  BY DEF HasDone
<1>2. /\ DOMAIN a = RunFields /\ more \in BOOLEAN /\ a.pc = next
      /\ a.row = IF next = "measure" /\ Len(r.rows) = r.row THEN r.row + 1 ELSE r.row
      /\ a.id = r.id /\ a.identity = r.identity /\ a.rows = r.rows
  BY <1>1, AdvancedFields
<1>3. most \in Nat \ {0} /\ (tool = "discovery" => most = 1)
  BY CasesLength
<1>4. next \in StagesOf(tool) \cup {"idle"} /\ next # "clean"
  BY <1>1, <1>2, FollowsStays
<1>5. next # "idle" =>
       /\ a.row \in 1..most
       /\ next \in BeforeRows => a.row = 1
       /\ next \in AfterRows => a.row = most
       /\ Len(r.rows) = IF next \in BeforeRows \cup {"measure"} THEN a.row - 1 ELSE a.row
  <2> DEFINE newRow == IF next = "measure" /\ Len(r.rows) = r.row THEN r.row + 1 ELSE r.row
  <2> HIDE DEF a, most
  <2>1. next # "idle" =>
         /\ newRow \in 1..most
         /\ next \in BeforeRows => newRow = 1
         /\ next \in AfterRows => newRow = most
         /\ Len(r.rows) = IF next \in BeforeRows \cup {"measure"} THEN newRow - 1 ELSE newRow
    <3>1. (more <=> r.row < most) /\ next = Follows(tool, r.pc, more)
      BY DEF most
    <3>2. newRow = IF next = "measure" /\ Len(r.rows) = r.row THEN r.row + 1 ELSE r.row
      OBVIOUS
    <3> HIDE DEF next, more, newRow
    <3> QED
      BY <1>1, <1>2, <1>3, <3>1, <3>2, StageRows
  <2>2. a.row = newRow
    BY <1>2
  <2> HIDE DEF newRow, next
  <2> QED
    BY <2>1, <2>2
<1>6. next \in AfterRows \ {"parity"} => Parity(tool, r.rows)
  <2>1. CASE r.pc \in AfterRows
    BY <1>1, <2>1
  <2>2. CASE r.pc \notin AfterRows /\ next \in AfterRows \ {"parity"}
    <3>1. tool \in {"moe", "expert", "graph", "discovery"}
      <4>1. Edge(tool, r.pc, more, next)
        BY <1>1, <1>2, FollowsEdge
      <4> HIDE DEF more, next
      <4> QED
        BY <2>2, <4>1 DEF Edge, AfterRows, RowLess, Atomic, AllTools
    <3> QED
      BY <3>1 DEF Parity
  <2> QED
    BY <2>1, <2>2
<1>7. RowsAreOfRun(tool, a)
  BY <1>1, <1>2 DEF RowsAreOfRun
<1> HIDE DEF a, next
<1> QED
  BY <1>1, <1>2, <1>4, <1>5, <1>6, <1>7 DEF RunIsOk, Rests, a

-----------------------------------------------------------------------------
(* A directory against the run that fills it.                               *)

FilesOf(t) ==
  {Csv, Json}
    \cup (IF t \in RowLess THEN {} ELSE {<<"json", i>> : i \in 1..Len(Cases(t))})
    \cup (IF t = "graph" THEN {<<"csv", i>> : i \in 1..Len(Cases(t))} ELSE {})
Has(d, f, content) == f \in DOMAIN d /\ d[f] = content

\* The stages in which a run has a directory to fill; the rows whose files
\* the steps other than those in undone have dealt with.
Fills == {"measure", "write row", "digest row", "write row table", "digest row table", "parity",
          "publish"} \cup TableSteps
RowsPast(r, undone) == IF r.pc \in BeforeRows \cup {"measure"} \cup undone THEN r.row - 1 ELSE r.row
TableWritten(t) ==
  {"digest table", "write summary", "publish"} \cup (IF t \in RowLess THEN {"name"} ELSE {})
TableDigested(t) ==
  {"write summary", "publish"} \cup (IF t = "discovery" THEN {"name"} ELSE {})
SummaryOf(t, r) ==
  [tool |-> t, rows |-> r.rows, named |-> r.named, identity |-> r.identity, digests |-> r.digests]

\* What the run has written is there as it wrote it, and digested as it is.
Filled(t, d, r, writing, digesting, writingTable, digestingTable, written, digested, summarised) ==
  /\ t \notin RowLess =>
       /\ \A i \in 1..RowsPast(r, writing) : Has(d, <<"json", i>>, r.rows[i])
       /\ \A i \in 1..RowsPast(r, digesting) : Has(r.digests, <<"json", i>>, r.rows[i])
  /\ t = "graph" =>
       /\ \A i \in 1..RowsPast(r, writingTable) : Has(d, <<"csv", i>>, r.rows[i])
       /\ \A i \in 1..RowsPast(r, digestingTable) : Has(r.digests, <<"csv", i>>, r.rows[i])
  /\ r.pc \in written => Has(d, Csv, [rows |-> r.rows])
  /\ r.pc \in digested => Has(r.digests, Csv, [rows |-> r.rows])
  /\ r.pc \in summarised => Has(d, Json, SummaryOf(t, r))

\* Before a step, and after what it does.
IsFilled(t, d, r) ==
  Filled(t, d, r, {"write row"}, {"write row", "digest row"},
         {"write row", "digest row", "write row table"},
         {"write row", "digest row", "write row table", "digest row table"},
         TableWritten(t), TableDigested(t), {"publish"})
WasFilled(t, d, r) ==
  Filled(t, d, r, {}, {"write row"}, {"write row", "digest row"},
         {"write row", "digest row", "write row table"},
         TableWritten(t) \cup {"write table"}, TableDigested(t) \cup {"digest table"},
         {"write summary"})

LEMMA RowsPastGrows ==
  ASSUME NEW r, NEW a, NEW S, NEW T, r.row \in Nat \ {0},
         a.pc = "measure" => a.row = IF r.pc \in BeforeRows THEN r.row ELSE r.row + 1,
         a.pc # "measure" => a.row = r.row,
         r.pc \in BeforeRows => a.pc \in BeforeRows \cup {"measure"},
         a.pc = "measure" => r.pc \notin {"measure"} \cup T,
         \/ a.pc \in BeforeRows \cup {"measure"} \cup S
         \/ r.pc \notin BeforeRows \cup {"measure"} \cup T
  PROVE  1..RowsPast(a, S) \subseteq 1..RowsPast(r, T)
<1>1. "measure" \notin BeforeRows
  BY DEF BeforeRows
<1>2. RowsPast(a, S) \in Int /\ RowsPast(r, T) \in Int
  BY DEF RowsPast
<1>3. RowsPast(a, S) <= RowsPast(r, T)
  BY <1>1 DEF RowsPast
<1> QED
  BY <1>2, <1>3

\* An edge leads past what its step has written and digested, and no more.
LEMMA EdgeFills ==
  ASSUME NEW t, NEW more, NEW s, NEW next, Edge(t, s, more, next)
  PROVE  /\ \/ next \in BeforeRows \cup {"measure", "write row"} \/ s \notin BeforeRows \cup {"measure"}
            \/ t \in RowLess
         /\ \/ next \in BeforeRows \cup {"measure", "write row", "digest row"}
            \/ s \notin BeforeRows \cup {"measure", "write row"} \/ t \in RowLess
         /\ \/ next \in BeforeRows \cup {"measure", "write row", "digest row", "write row table"}
            \/ s \notin BeforeRows \cup {"measure", "write row", "digest row"} \/ t # "graph"
         /\ \/ next \in BeforeRows \cup {"measure", "write row", "digest row", "write row table", "digest row table"}
            \/ s \notin BeforeRows \cup {"measure", "write row", "digest row", "write row table"}
            \/ t # "graph"
         /\ next \in TableWritten(t) => s \in TableWritten(t) \cup {"write table"}
         /\ next \in TableDigested(t) => s \in TableDigested(t) \cup {"digest table"}
<1>1. \/ next \in BeforeRows \cup {"measure", "write row"} \/ s \notin BeforeRows \cup {"measure"}
      \/ t \in RowLess
  BY DEF Edge, BeforeRows, RowLess
<1>2. \/ next \in BeforeRows \cup {"measure", "write row", "digest row"}
      \/ s \notin BeforeRows \cup {"measure", "write row"} \/ t \in RowLess
  BY DEF Edge, BeforeRows, RowLess
<1>3. t = "graph" => s # "measure" \/ next = "write row"
  BY DEF Edge, RowLess
<1>4. s \in BeforeRows => next \in BeforeRows \cup {"measure"}
  BY DEF Edge, BeforeRows
<1>5. t = "graph" /\ s = "write row" => next = "digest row"
  BY DEF Edge
<1>6. t = "graph" /\ s = "digest row" => next = "write row table"
  BY DEF Edge, Atomic, AllTools
<1>7. s = "write row table" => next = "digest row table"
  BY DEF Edge
<1>8. next \in {"digest table", "write summary", "publish"} =>
        \/ s \in {"write table", "digest table", "write summary"}
        \/ s = "name" /\ t \in RowLess
  BY DEF Edge, RowLess
<1>9. next = "name" /\ t \in RowLess => s = "write table" \/ s = "digest table"
  BY DEF Edge, RowLess, Atomic, AllTools
<1>10. next \in {"write summary", "publish"} =>
        \/ s \in {"digest table", "write summary"}
        \/ s = "name" /\ t = "discovery"
  BY DEF Edge
<1>11. next = "name" /\ t = "discovery" => s = "digest table"
  BY DEF Edge, Atomic, AllTools
<1>12. next \in TableWritten(t) => s \in TableWritten(t) \cup {"write table"}
  BY <1>8, <1>9 DEF TableWritten
<1>13. next \in TableDigested(t) => s \in TableDigested(t) \cup {"digest table"}
  BY <1>10, <1>11 DEF TableDigested
<1> QED
  BY <1>1, <1>2, <1>3, <1>4, <1>5, <1>6, <1>7, <1>12, <1>13

\* The rows dealt with before the next step are those dealt with after this.
LEMMA FilledAdvances ==
  ASSUME NEW n \in Nat, NEW r, tool \in AllTools, HasDone(tool, setting, n, r),
         NEW d, WasFilled(tool, d, r), Advanced(r).pc \in Fills
  PROVE  IsFilled(tool, d, Advanced(r))
<1> DEFINE more == r.row < Len(Cases(tool))
           next == Follows(tool, r.pc, more)
           a == Advanced(r)
           most == Len(Cases(tool))
<1>1. /\ DOMAIN r = RunFields /\ r.pc \in StagesOf(tool) /\ r.row \in 1..most
      /\ r.pc \in BeforeRows => r.row = 1
      /\ Len(r.rows) = IF r.pc \in BeforeRows THEN 0 ELSE r.row
  BY DEF HasDone
<1>2. /\ DOMAIN a = RunFields /\ more \in BOOLEAN /\ a.pc = next
      /\ a.row = IF next = "measure" /\ Len(r.rows) = r.row THEN r.row + 1 ELSE r.row
      /\ a.rows = r.rows /\ a.digests = r.digests /\ a.named = r.named /\ a.identity = r.identity
  BY <1>1, AdvancedFields
<1>k. Edge(tool, r.pc, more, next)
  BY <1>1, <1>2, FollowsEdge
<1> HIDE DEF more, a, most, next
<1>a. \/ next \in BeforeRows \cup {"measure", "write row"} \/ r.pc \notin BeforeRows \cup {"measure"}
      \/ tool \in RowLess
  BY <1>k, EdgeFills
<1>b. \/ next \in BeforeRows \cup {"measure", "write row", "digest row"}
      \/ r.pc \notin BeforeRows \cup {"measure", "write row"} \/ tool \in RowLess
  BY <1>k, EdgeFills
<1>c. \/ next \in BeforeRows \cup {"measure", "write row", "digest row", "write row table"}
      \/ r.pc \notin BeforeRows \cup {"measure", "write row", "digest row"} \/ tool # "graph"
  BY <1>k, EdgeFills
<1>d. \/ next \in BeforeRows \cup {"measure", "write row", "digest row", "write row table", "digest row table"}
      \/ r.pc \notin BeforeRows \cup {"measure", "write row", "digest row", "write row table"}
      \/ tool # "graph"
  BY <1>k, EdgeFills
<1>e. next \in TableWritten(tool) => r.pc \in TableWritten(tool) \cup {"write table"}
  BY <1>k, EdgeFills
<1>h. next = "publish" => r.pc = "write summary"
  BY <1>k DEF Edge, BeforeRows, RowLess
<1>i. next = "measure" => \/ r.pc \in BeforeRows \cup {"digest row table"}
                          \/ tool \in RowLess
                          \/ r.pc = "digest row" /\ tool # "graph"
  BY <1>k DEF Edge, BeforeRows, RowLess
<1>f. next \in TableDigested(tool) => r.pc \in TableDigested(tool) \cup {"digest table"}
  BY <1>k, EdgeFills
<1>4. /\ next = "measure" => a.row = IF r.pc \in BeforeRows THEN r.row ELSE r.row + 1
      /\ next # "measure" => a.row = r.row
      /\ r.row \in Nat \ {0}
  <2>1. most \in Nat
    BY CasesLength DEF most
  <2> QED
    BY <1>1, <1>2, <2>1
<1>3. /\ r.pc \in BeforeRows => next \in BeforeRows \cup {"measure"}
      /\ "measure" \notin BeforeRows
  BY <1>k DEF Edge, BeforeRows, RowLess
<1>g. /\ r.row \in Nat \ {0}
      /\ a.pc = "measure" => a.row = IF r.pc \in BeforeRows THEN r.row ELSE r.row + 1
      /\ a.pc # "measure" => a.row = r.row
      /\ r.pc \in BeforeRows => a.pc \in BeforeRows \cup {"measure"}
  BY <1>2, <1>3, <1>4
<1>5. ASSUME tool \notin RowLess
      PROVE  1..RowsPast(a, {"write row"})
               \subseteq 1..RowsPast(r, {})
  <2> DEFINE S == {"write row"}
             T == {}
  <2>1. a.pc \in BeforeRows \cup {"measure"} \cup S \/ r.pc \notin BeforeRows \cup {"measure"} \cup T
    BY <1>2, <1>a, <1>5
  <2>2. a.pc = "measure" => r.pc \notin {"measure"} \cup T
    BY <1>2, <1>i, <1>5 DEF BeforeRows, RowLess
  <2> HIDE DEF S, T
  <2>3. 1..RowsPast(a, S) \subseteq 1..RowsPast(r, T)
    BY <1>g, <2>1, <2>2, RowsPastGrows
  <2> QED
    BY <2>3 DEF S, T
<1>6. ASSUME tool \notin RowLess
      PROVE  1..RowsPast(a, {"write row", "digest row"})
               \subseteq 1..RowsPast(r, {"write row"})
  <2> DEFINE S == {"write row", "digest row"}
             T == {"write row"}
  <2>1. a.pc \in BeforeRows \cup {"measure"} \cup S \/ r.pc \notin BeforeRows \cup {"measure"} \cup T
    BY <1>2, <1>b, <1>6
  <2>2. a.pc = "measure" => r.pc \notin {"measure"} \cup T
    BY <1>2, <1>i, <1>6 DEF BeforeRows, RowLess
  <2> HIDE DEF S, T
  <2>3. 1..RowsPast(a, S) \subseteq 1..RowsPast(r, T)
    BY <1>g, <2>1, <2>2, RowsPastGrows
  <2> QED
    BY <2>3 DEF S, T
<1>10. ASSUME tool = "graph"
      PROVE  1..RowsPast(a, {"write row", "digest row", "write row table"})
               \subseteq 1..RowsPast(r, {"write row", "digest row"})
  <2> DEFINE S == {"write row", "digest row", "write row table"}
             T == {"write row", "digest row"}
  <2>1. a.pc \in BeforeRows \cup {"measure"} \cup S \/ r.pc \notin BeforeRows \cup {"measure"} \cup T
    BY <1>2, <1>c, <1>10
  <2>2. a.pc = "measure" => r.pc \notin {"measure"} \cup T
    BY <1>2, <1>i, <1>10 DEF BeforeRows, RowLess
  <2> HIDE DEF S, T
  <2>3. 1..RowsPast(a, S) \subseteq 1..RowsPast(r, T)
    BY <1>g, <2>1, <2>2, RowsPastGrows
  <2> QED
    BY <2>3 DEF S, T
<1>11. ASSUME tool = "graph"
      PROVE  1..RowsPast(a, {"write row", "digest row", "write row table", "digest row table"})
               \subseteq 1..RowsPast(r, {"write row", "digest row", "write row table"})
  <2> DEFINE S == {"write row", "digest row", "write row table", "digest row table"}
             T == {"write row", "digest row", "write row table"}
  <2>1. a.pc \in BeforeRows \cup {"measure"} \cup S \/ r.pc \notin BeforeRows \cup {"measure"} \cup T
    BY <1>2, <1>d, <1>11
  <2>2. a.pc = "measure" => r.pc \notin {"measure"} \cup T
    BY <1>2, <1>i, <1>11 DEF BeforeRows, RowLess
  <2> HIDE DEF S, T
  <2>3. 1..RowsPast(a, S) \subseteq 1..RowsPast(r, T)
    BY <1>g, <2>1, <2>2, RowsPastGrows
  <2> QED
    BY <2>3 DEF S, T
<1>7. SummaryOf(tool, a) = SummaryOf(tool, r)
  BY <1>2 DEF SummaryOf
<1>8. /\ tool \notin RowLess =>
           /\ \A i \in 1..RowsPast(a, {"write row"}) : Has(d, <<"json", i>>, a.rows[i])
           /\ \A i \in 1..RowsPast(a, {"write row", "digest row"}) : Has(a.digests, <<"json", i>>, a.rows[i])
      /\ tool = "graph" =>
           /\ \A i \in 1..RowsPast(a, {"write row", "digest row", "write row table"}) :
                Has(d, <<"csv", i>>, a.rows[i])
           /\ \A i \in 1..RowsPast(a, {"write row", "digest row", "write row table", "digest row table"}) :
                Has(a.digests, <<"csv", i>>, a.rows[i])
  BY <1>2, <1>5, <1>6, <1>10, <1>11 DEF WasFilled, Filled
<1>9. /\ a.pc \in TableWritten(tool) => Has(d, Csv, [rows |-> a.rows])
      /\ a.pc \in TableDigested(tool) => Has(a.digests, Csv, [rows |-> a.rows])
      /\ a.pc \in {"publish"} => Has(d, Json, SummaryOf(tool, a))
  BY <1>2, <1>e, <1>f, <1>h, <1>7 DEF WasFilled, Filled
<1> QED
  BY <1>8, <1>9 DEF IsFilled, Filled, a

\* What a step does: files are told apart, a file that is written is there,
\* and the others stay.
LEMMA FilesDiffer ==
  /\ Csv # Json
  /\ \A i : <<"json", i>> # Csv /\ <<"json", i>> # Json /\ <<"csv", i>> # Csv /\ <<"csv", i>> # Json
  /\ \A i, j : <<"json", i>> # <<"csv", j>>
  /\ \A i, j : (<<"json", i>> = <<"json", j>> => i = j) /\ (<<"csv", i>> = <<"csv", j>> => i = j)
  BY DEF Csv, Json

LEMMA WritingHas ==
  ASSUME NEW d, NEW f, NEW content
  PROVE  /\ Has(Writing(d, f, content), f, content)
         /\ \A g, other : g # f /\ Has(d, g, other) => Has(Writing(d, f, content), g, other)
         /\ DOMAIN Writing(d, f, content) = DOMAIN d \cup {f}
         /\ \A g \in DOMAIN d : g # f => Writing(d, f, content)[g] = d[g]
  BY DEF Writing, Has

LEMMA WriteFills ==
  ASSUME NEW r, NEW d, NEW n \in Nat, tool \in AllTools, HasDone(tool, setting, n, r), IsFilled(tool, d, r),
         r.pc \in Writes, NEW f, f = FileOf(r.pc, r.row)
  PROVE  WasFilled(tool, Writing(d, f, Content(r, f)), r)
<1> DEFINE w == Writing(d, f, Content(r, f))
<1>1. /\ r.pc \in StagesOf(tool) /\ r.row \in 1..Len(Cases(tool))
  BY DEF HasDone
<1>2. Len(Cases(tool)) \in Nat
  BY CasesLength
<1>3. r.row \in Nat \ {0}
  BY <1>1, <1>2
<1>4. /\ Has(w, f, Content(r, f))
      /\ \A g, other : g # f /\ Has(d, g, other) => Has(w, g, other)
  BY WritingHas
<1> SUFFICES WasFilled(tool, w, r)
  OBVIOUS
<1> HIDE DEF w
<1>5. CASE r.pc = "write row"
  <2>1. f = <<"json", r.row>> /\ Content(r, f) = r.rows[r.row]
    BY <1>5, FilesDiffer DEF FileOf, Content
  <2>2. /\ RowsPast(r, {}) = r.row /\ RowsPast(r, {"write row"}) = r.row - 1
        /\ RowsPast(r, {"write row", "digest row"}) = r.row - 1
        /\ RowsPast(r, {"write row", "digest row", "write row table"}) = r.row - 1
        /\ RowsPast(r, {"write row", "digest row", "write row table", "digest row table"}) = r.row - 1
    BY <1>5 DEF RowsPast, BeforeRows
  <2>3. r.pc \notin TableWritten(tool) \cup {"write table", "digest table", "write summary"} \cup TableDigested(tool)
    BY <1>5 DEF TableWritten, TableDigested
  <2>4. \A i \in 1..r.row - 1 : <<"json", i>> # f /\ <<"csv", i>> # f
    BY <1>3, <2>1, FilesDiffer
  <2>5. tool \notin RowLess => \A i \in 1..r.row : Has(w, <<"json", i>>, r.rows[i])
    <3>1. tool \notin RowLess => \A i \in 1..r.row - 1 : Has(d, <<"json", i>>, r.rows[i])
      BY <2>2 DEF IsFilled, Filled
    <3>2. \A i \in 1..r.row : i \in 1..r.row - 1 \/ i = r.row
      BY <1>3
    <3> QED
      BY <1>4, <2>1, <2>4, <3>1, <3>2
  <2>6. tool = "graph" => \A i \in 1..r.row - 1 : Has(w, <<"csv", i>>, r.rows[i])
    BY <1>4, <2>2, <2>4 DEF IsFilled, Filled
  <2> QED
    BY <2>2, <2>3, <2>5, <2>6 DEF IsFilled, WasFilled, Filled
<1>6. CASE r.pc = "write row table"
  <2>1. f = <<"csv", r.row>> /\ Content(r, f) = r.rows[r.row] /\ tool = "graph"
    BY <1>1, <1>6, FilesDiffer DEF FileOf, Content, StagesOf, RowSteps, TableSteps, AllTools, Atomic, OracleTools
  <2>2. /\ RowsPast(r, {}) = r.row /\ RowsPast(r, {"write row"}) = r.row
        /\ RowsPast(r, {"write row", "digest row"}) = r.row
        /\ RowsPast(r, {"write row", "digest row", "write row table"}) = r.row - 1
        /\ RowsPast(r, {"write row", "digest row", "write row table", "digest row table"}) = r.row - 1
    BY <1>6 DEF RowsPast, BeforeRows
  <2>3. r.pc \notin TableWritten(tool) \cup {"write table", "digest table", "write summary"} \cup TableDigested(tool)
    BY <1>6 DEF TableWritten, TableDigested
  <2>4. /\ \A i : <<"json", i>> # f
        /\ \A i \in 1..r.row - 1 : <<"csv", i>> # f
    BY <1>3, <2>1, FilesDiffer
  <2>5. \A i \in 1..r.row : Has(w, <<"csv", i>>, r.rows[i])
    <3>1. \A i \in 1..r.row - 1 : Has(d, <<"csv", i>>, r.rows[i])
      BY <2>1, <2>2 DEF IsFilled, Filled
    <3>2. \A i \in 1..r.row : i \in 1..r.row - 1 \/ i = r.row
      BY <1>3
    <3> QED
      BY <1>4, <2>1, <2>4, <3>1, <3>2
  <2>6. tool \notin RowLess => \A i \in 1..r.row : Has(w, <<"json", i>>, r.rows[i])
    BY <1>4, <2>2, <2>4 DEF IsFilled, Filled
  <2> QED
    BY <2>2, <2>3, <2>5, <2>6 DEF IsFilled, WasFilled, Filled
<1>7. CASE r.pc \in {"write table", "write summary"}
  <2>1. f \in {Csv, Json} /\ (r.pc = "write table" <=> f = Csv) /\ (r.pc = "write summary" <=> f = Json)
    BY <1>7, FilesDiffer DEF FileOf
  <2>2. Content(r, f) = IF f = Csv THEN [rows |-> r.rows] ELSE SummaryOf(tool, r)
    BY <2>1, FilesDiffer DEF Content, SummaryOf
  <2>3. /\ RowsPast(r, {}) = r.row /\ RowsPast(r, {"write row"}) = r.row
        /\ RowsPast(r, {"write row", "digest row"}) = r.row
        /\ RowsPast(r, {"write row", "digest row", "write row table"}) = r.row
        /\ RowsPast(r, {"write row", "digest row", "write row table", "digest row table"}) = r.row
    BY <1>7 DEF RowsPast, BeforeRows
  <2>4. \A i : <<"json", i>> # f /\ <<"csv", i>> # f
    BY <2>1, FilesDiffer
  <2>5. /\ tool \notin RowLess =>
             /\ \A i \in 1..r.row : Has(w, <<"json", i>>, r.rows[i])
             /\ \A i \in 1..r.row : Has(r.digests, <<"json", i>>, r.rows[i])
        /\ tool = "graph" =>
             /\ \A i \in 1..r.row : Has(w, <<"csv", i>>, r.rows[i])
             /\ \A i \in 1..r.row : Has(r.digests, <<"csv", i>>, r.rows[i])
    BY <1>4, <2>3, <2>4 DEF IsFilled, Filled
  <2>6. r.pc \in TableWritten(tool) \cup {"write table"} => Has(w, Csv, [rows |-> r.rows])
    <3>1. CASE r.pc = "write table"
      BY <1>4, <2>1, <2>2, <3>1
    <3>2. CASE r.pc = "write summary"
      <4>1. Has(d, Csv, [rows |-> r.rows])
        BY <3>2 DEF IsFilled, Filled, TableWritten
      <4> QED
        BY <1>4, <2>1, <3>2, <4>1, FilesDiffer
    <3> QED
      BY <1>7, <3>1, <3>2
  <2>7. r.pc \in TableDigested(tool) \cup {"digest table"} => Has(r.digests, Csv, [rows |-> r.rows])
    BY <1>7 DEF IsFilled, Filled
  <2>8. r.pc \in {"write summary"} => Has(w, Json, SummaryOf(tool, r))
    BY <1>4, <2>1, <2>2, FilesDiffer
  <2> QED
    BY <2>3, <2>5, <2>6, <2>7, <2>8 DEF WasFilled, Filled
<1> QED
  BY <1>5, <1>6, <1>7 DEF Writes

LEMMA DigestFills ==
  ASSUME NEW r, NEW d, NEW n \in Nat, tool \in AllTools, RunIsOk(tool, setting, n, r),
         IsFilled(tool, d, r), r.pc \in Digests, NEW f, f = FileOf(r.pc, r.row)
  PROVE  WasFilled(tool, d, [r EXCEPT !.digests = Writing(@, f, d[f])])
<1> DEFINE e == [r EXCEPT !.digests = Writing(@, f, d[f])]
<1>0. r.pc \notin Rests
  BY DEF Digests, Rests
<1>1. DOMAIN r = RunFields /\ r.pc \in StagesOf(tool) /\ r.row \in 1..Len(Cases(tool))
  BY <1>0 DEF RunIsOk
<1>2. r.row \in Nat \ {0}
  BY <1>1, CasesLength
<1>3. /\ e.pc = r.pc /\ e.row = r.row /\ e.rows = r.rows
      /\ e.digests = Writing(r.digests, f, d[f])
  BY <1>1 DEF RunFields
<1>4. /\ Has(e.digests, f, d[f])
      /\ \A g, other : g # f /\ Has(r.digests, g, other) => Has(e.digests, g, other)
  <2>1. e.digests = Writing(r.digests, f, d[f])
    BY <1>3
  <2> DEFINE old == r.digests
             content == d[f]
  <2> HIDE DEF e, old, content
  <2>2. /\ Has(Writing(old, f, content), f, content)
        /\ \A g, other : g # f /\ Has(old, g, other) => Has(Writing(old, f, content), g, other)
    BY WritingHas
  <2> QED
    BY <2>1, <2>2 DEF old, content
<1> SUFFICES WasFilled(tool, d, e)
  OBVIOUS
<1> HIDE DEF e
<1>5. CASE r.pc = "digest row"
  <2>1. f = <<"json", r.row>>
    BY <1>5 DEF FileOf
  <2>2. /\ RowsPast(r, {"write row"}) = r.row /\ RowsPast(e, {}) = r.row /\ RowsPast(e, {"write row"}) = r.row
        /\ RowsPast(r, {"write row", "digest row"}) = r.row - 1
        /\ RowsPast(e, {"write row", "digest row"}) = r.row - 1
        /\ RowsPast(r, {"write row", "digest row", "write row table"}) = r.row - 1
        /\ RowsPast(e, {"write row", "digest row", "write row table"}) = r.row - 1
        /\ RowsPast(r, {"write row", "digest row", "write row table", "digest row table"}) = r.row - 1
    BY <1>3, <1>5 DEF RowsPast, BeforeRows
  <2>3. e.pc \notin TableWritten(tool) \cup {"write table", "digest table", "write summary"} \cup TableDigested(tool)
    BY <1>3, <1>5 DEF TableWritten, TableDigested
  <2>4. \A i \in 1..r.row - 1 : <<"json", i>> # f /\ <<"csv", i>> # f
    BY <1>2, <2>1, FilesDiffer
  <2>5. ASSUME tool \notin RowLess
        PROVE  /\ \A i \in 1..r.row : Has(d, <<"json", i>>, r.rows[i])
               /\ \A i \in 1..r.row : Has(e.digests, <<"json", i>>, r.rows[i])
    <3>1. /\ \A i \in 1..r.row : Has(d, <<"json", i>>, r.rows[i])
          /\ \A i \in 1..r.row - 1 : Has(r.digests, <<"json", i>>, r.rows[i])
      BY <2>2, <2>5 DEF IsFilled, Filled
    <3>2. \A i \in 1..r.row : i \in 1..r.row - 1 \/ i = r.row
      BY <1>2
    <3>3. Has(e.digests, <<"json", r.row>>, r.rows[r.row])
      <4>1. r.row \in 1..r.row
        BY <1>2
      <4>2. d[f] = r.rows[r.row]
        BY <2>1, <3>1, <4>1 DEF Has
      <4> QED
        BY <1>4, <2>1, <4>2
    <3>4. \A i \in 1..r.row - 1 : Has(e.digests, <<"json", i>>, r.rows[i])
      BY <1>4, <2>4, <3>1
    <3> QED
      BY <3>1, <3>2, <3>3, <3>4
  <2>6. ASSUME tool = "graph"
        PROVE  /\ \A i \in 1..r.row - 1 : Has(d, <<"csv", i>>, r.rows[i])
               /\ \A i \in 1..r.row - 1 : Has(e.digests, <<"csv", i>>, r.rows[i])
    <3>1. /\ \A i \in 1..r.row - 1 : Has(d, <<"csv", i>>, r.rows[i])
          /\ \A i \in 1..r.row - 1 : Has(r.digests, <<"csv", i>>, r.rows[i])
      BY <2>2, <2>6 DEF IsFilled, Filled
    <3> QED
      BY <1>4, <2>4, <3>1
  <2> QED
    BY <1>3, <2>2, <2>3, <2>5, <2>6 DEF WasFilled, Filled
<1>6. CASE r.pc = "digest row table"
  <2>1. f = <<"csv", r.row>> /\ tool = "graph"
    BY <1>1, <1>6 DEF FileOf, StagesOf, RowSteps, TableSteps, AllTools, Atomic, OracleTools
  <2>2. /\ RowsPast(r, {"write row"}) = r.row /\ RowsPast(e, {}) = r.row /\ RowsPast(e, {"write row"}) = r.row
        /\ RowsPast(r, {"write row", "digest row"}) = r.row
        /\ RowsPast(e, {"write row", "digest row"}) = r.row
        /\ RowsPast(r, {"write row", "digest row", "write row table"}) = r.row
        /\ RowsPast(e, {"write row", "digest row", "write row table"}) = r.row
        /\ RowsPast(r, {"write row", "digest row", "write row table", "digest row table"}) = r.row - 1
    BY <1>3, <1>6 DEF RowsPast, BeforeRows
  <2>3. e.pc \notin TableWritten(tool) \cup {"write table", "digest table", "write summary"} \cup TableDigested(tool)
    BY <1>3, <1>6 DEF TableWritten, TableDigested
  <2>4. (\A i : <<"json", i>> # f) /\ \A i \in 1..r.row - 1 : <<"csv", i>> # f
    BY <1>2, <2>1, FilesDiffer
  <2>5. /\ \A i \in 1..r.row : Has(d, <<"csv", i>>, r.rows[i])
        /\ \A i \in 1..r.row : Has(e.digests, <<"csv", i>>, r.rows[i])
    <3>1. /\ \A i \in 1..r.row : Has(d, <<"csv", i>>, r.rows[i])
          /\ \A i \in 1..r.row - 1 : Has(r.digests, <<"csv", i>>, r.rows[i])
      BY <2>1, <2>2 DEF IsFilled, Filled
    <3>2. \A i \in 1..r.row : i \in 1..r.row - 1 \/ i = r.row
      BY <1>2
    <3>3. Has(e.digests, <<"csv", r.row>>, r.rows[r.row])
      <4>1. r.row \in 1..r.row
        BY <1>2
      <4>2. d[f] = r.rows[r.row]
        BY <2>1, <3>1, <4>1 DEF Has
      <4> QED
        BY <1>4, <2>1, <4>2
    <3>4. \A i \in 1..r.row - 1 : Has(e.digests, <<"csv", i>>, r.rows[i])
      BY <1>4, <2>4, <3>1
    <3> QED
      BY <3>1, <3>2, <3>3, <3>4
  <2>6. ASSUME tool \notin RowLess
        PROVE  /\ \A i \in 1..r.row : Has(d, <<"json", i>>, r.rows[i])
               /\ \A i \in 1..r.row : Has(e.digests, <<"json", i>>, r.rows[i])
    <3>1. /\ \A i \in 1..r.row : Has(d, <<"json", i>>, r.rows[i])
          /\ \A i \in 1..r.row : Has(r.digests, <<"json", i>>, r.rows[i])
      BY <2>2, <2>6 DEF IsFilled, Filled
    <3> QED
      BY <1>4, <2>4, <3>1
  <2> QED
    BY <1>3, <2>2, <2>3, <2>5, <2>6 DEF WasFilled, Filled
<1>7. CASE r.pc = "digest table"
  <2>1. f = Csv
    BY <1>7 DEF FileOf
  <2>2. /\ RowsPast(r, {"write row"}) = r.row /\ RowsPast(e, {}) = r.row /\ RowsPast(e, {"write row"}) = r.row
        /\ RowsPast(r, {"write row", "digest row"}) = r.row
        /\ RowsPast(e, {"write row", "digest row"}) = r.row
        /\ RowsPast(r, {"write row", "digest row", "write row table"}) = r.row
        /\ RowsPast(e, {"write row", "digest row", "write row table"}) = r.row
        /\ RowsPast(r, {"write row", "digest row", "write row table", "digest row table"}) = r.row
    BY <1>3, <1>7 DEF RowsPast, BeforeRows
  <2>3. \A i : <<"json", i>> # f /\ <<"csv", i>> # f
    BY <2>1, FilesDiffer
  <2>4. Has(d, Csv, [rows |-> r.rows])
    BY <1>7 DEF IsFilled, Filled, TableWritten
  <2>5. Has(e.digests, Csv, [rows |-> r.rows])
    BY <1>4, <2>1, <2>4 DEF Has
  <2>6. ASSUME tool \notin RowLess
        PROVE  /\ \A i \in 1..r.row : Has(d, <<"json", i>>, r.rows[i])
               /\ \A i \in 1..r.row : Has(e.digests, <<"json", i>>, r.rows[i])
    <3>1. /\ \A i \in 1..r.row : Has(d, <<"json", i>>, r.rows[i])
          /\ \A i \in 1..r.row : Has(r.digests, <<"json", i>>, r.rows[i])
      BY <2>2, <2>6 DEF IsFilled, Filled
    <3> QED
      BY <1>4, <2>3, <3>1
  <2>7. ASSUME tool = "graph"
        PROVE  /\ \A i \in 1..r.row : Has(d, <<"csv", i>>, r.rows[i])
               /\ \A i \in 1..r.row : Has(e.digests, <<"csv", i>>, r.rows[i])
    <3>1. /\ \A i \in 1..r.row : Has(d, <<"csv", i>>, r.rows[i])
          /\ \A i \in 1..r.row : Has(r.digests, <<"csv", i>>, r.rows[i])
      BY <2>2, <2>7 DEF IsFilled, Filled
    <3> QED
      BY <1>4, <2>3, <3>1
  <2>8. e.pc \notin {"write summary"}
    BY <1>3, <1>7
  <2> QED
    BY <1>3, <2>2, <2>4, <2>5, <2>6, <2>7, <2>8 DEF WasFilled, Filled
<1> QED
  BY <1>5, <1>6, <1>7 DEF Digests

\* A row that is measured disturbs nothing; nor does a step that deals with
\* no file.
LEMMA MeasureFills ==
  ASSUME NEW r, NEW d, NEW n \in Nat, tool \in AllTools, RunIsOk(tool, setting, n, r),
         IsFilled(tool, d, r), r.pc = "measure", NEW row \in RowsOf(tool, setting)
  PROVE  WasFilled(tool, d, [r EXCEPT !.rows = Append(@, row)])
<1> DEFINE e == [r EXCEPT !.rows = Append(@, row)]
<1>1. DOMAIN r = RunFields /\ r.row \in 1..Len(Cases(tool)) /\ r.rows \in Seq(RowsOf(tool, setting))
      /\ Len(r.rows) = r.row - 1
  BY DEF RunIsOk, Rests
<1>2. r.row \in Nat \ {0}
  BY <1>1, CasesLength
<1>3. /\ e.pc = "measure" /\ e.row = r.row /\ e.rows = Append(r.rows, row)
      /\ e.digests = r.digests
  BY <1>1 DEF RunFields
<1>4. \A i \in 1..r.row - 1 : e.rows[i] = r.rows[i]
  BY <1>1, <1>3
<1> SUFFICES WasFilled(tool, d, e)
  OBVIOUS
<1> HIDE DEF e
<1>5. \A S : RowsPast(r, S) = r.row - 1 /\ RowsPast(e, S) = r.row - 1
  BY <1>3 DEF RowsPast
<1>6. e.pc \notin TableWritten(tool) \cup {"write table", "digest table", "write summary"} \cup TableDigested(tool)
  BY <1>3 DEF TableWritten, TableDigested
<1>7. /\ tool \notin RowLess =>
           /\ \A i \in 1..r.row - 1 : Has(d, <<"json", i>>, r.rows[i])
           /\ \A i \in 1..r.row - 1 : Has(r.digests, <<"json", i>>, r.rows[i])
      /\ tool = "graph" =>
           /\ \A i \in 1..r.row - 1 : Has(d, <<"csv", i>>, r.rows[i])
           /\ \A i \in 1..r.row - 1 : Has(r.digests, <<"csv", i>>, r.rows[i])
  BY <1>5 DEF IsFilled, Filled
<1> QED
  BY <1>3, <1>4, <1>5, <1>6, <1>7 DEF WasFilled, Filled

LEMMA OtherStepFills ==
  ASSUME NEW r, NEW d, r.pc \in {"parity", "name"}, IsFilled(tool, d, r),
         NEW e, e.pc = r.pc, e.row = r.row, e.rows = r.rows, e.digests = r.digests
  PROVE  WasFilled(tool, d, e)
<1>1. \A S \in SUBSET (Writes \cup Digests) : RowsPast(r, S) = r.row /\ RowsPast(e, S) = r.row
  BY DEF RowsPast, BeforeRows, Writes, Digests
<1>2. /\ {} \in SUBSET (Writes \cup Digests)
      /\ {"write row"} \in SUBSET (Writes \cup Digests)
      /\ {"write row", "digest row"} \in SUBSET (Writes \cup Digests)
      /\ {"write row", "digest row", "write row table"} \in SUBSET (Writes \cup Digests)
      /\ {"write row", "digest row", "write row table", "digest row table"} \in SUBSET (Writes \cup Digests)
  BY DEF Writes, Digests
<1>3. /\ tool \notin RowLess =>
           /\ \A i \in 1..r.row : Has(d, <<"json", i>>, r.rows[i])
           /\ \A i \in 1..r.row : Has(r.digests, <<"json", i>>, r.rows[i])
      /\ tool = "graph" =>
           /\ \A i \in 1..r.row : Has(d, <<"csv", i>>, r.rows[i])
           /\ \A i \in 1..r.row : Has(r.digests, <<"csv", i>>, r.rows[i])
      /\ r.pc \in TableWritten(tool) => Has(d, Csv, [rows |-> r.rows])
      /\ r.pc \in TableDigested(tool) => Has(r.digests, Csv, [rows |-> r.rows])
  BY <1>1, <1>2 DEF IsFilled, Filled
<1>4. r.pc \notin {"write table", "digest table", "write summary"}
  OBVIOUS
<1>5. /\ \A S \in {{}, {"write row"}, {"write row", "digest row"}, {"write row", "digest row", "write row table"}} :
           RowsPast(e, S) = r.row
  BY <1>1, <1>2
<1> QED
  BY <1>3, <1>4, <1>5 DEF WasFilled, Filled

LEMMA EarlyStepFills ==
  ASSUME NEW r, NEW d, r.pc \in BeforeRows, r.row = 1
  PROVE  WasFilled(tool, d, r)
<1>1. \A S : RowsPast(r, S) = 0
  BY DEF RowsPast
<1>2. r.pc \notin TableWritten(tool) \cup {"write table", "digest table", "write summary"} \cup TableDigested(tool)
  BY DEF BeforeRows, TableWritten, TableDigested
<1>3. /\ RowsPast(r, {}) = 0 /\ RowsPast(r, {"write row"}) = 0 /\ RowsPast(r, {"write row", "digest row"}) = 0
      /\ RowsPast(r, {"write row", "digest row", "write row table"}) = 0
  BY <1>1
<1>4. \A i \in 1..0 : FALSE
  OBVIOUS
<1> QED
  BY <1>2, <1>3, <1>4 DEF WasFilled, Filled

-----------------------------------------------------------------------------
(* What a verifier makes of a directory that a run has filled.              *)

Complete(t, d, r) ==
  /\ t \notin RowLess =>
       \A i \in 1..Len(r.rows) : Has(d, <<"json", i>>, r.rows[i]) /\ Has(r.digests, <<"json", i>>, r.rows[i])
  /\ t = "graph" =>
       \A i \in 1..Len(r.rows) : Has(d, <<"csv", i>>, r.rows[i]) /\ Has(r.digests, <<"csv", i>>, r.rows[i])
  /\ Has(d, Csv, [rows |-> r.rows]) /\ Has(r.digests, Csv, [rows |-> r.rows])
  /\ Has(d, Json, SummaryOf(t, r))

LEMMA FilledIsComplete ==
  ASSUME NEW r, NEW d, NEW t \in AllTools, NEW s, NEW n, RunIsOk(t, s, n, r),
         \/ r.pc = "publish" /\ IsFilled(t, d, r)
         \/ r.pc = "write summary" /\ WasFilled(t, d, r)
  PROVE  Complete(t, d, r)
<1>1. /\ \A S \in {{}, {"write row"}, {"write row", "digest row"}, {"write row", "digest row", "write row table"},
                   {"write row", "digest row", "write row table", "digest row table"}} :
           RowsPast(r, S) = r.row
  BY DEF RowsPast, BeforeRows
<1>2. Len(r.rows) = r.row
  BY DEF RunIsOk, Rests, BeforeRows
<1>3. r.pc \in TableWritten(t) /\ r.pc \in TableDigested(t)
  BY DEF TableWritten, TableDigested
<1>4. CASE r.pc = "publish" /\ IsFilled(t, d, r)
  BY <1>1, <1>2, <1>3, <1>4 DEF Complete, IsFilled, Filled
<1>5. CASE r.pc = "write summary" /\ WasFilled(t, d, r)
  BY <1>1, <1>2, <1>3, <1>5 DEF Complete, WasFilled, Filled
<1> QED
  BY <1>4, <1>5

\* A row, a table and a summary are whole files.
LEMMA WholeFiles ==
  ASSUME NEW t, NEW s, NEW row \in RowsOf(t, s), NEW rows, NEW r
  PROVE  {row, [rows |-> rows], SummaryOf(t, r)} \cap {Empty, Torn} = {}
<1>1. DOMAIN Torn = {"torn"} /\ DOMAIN Empty = {"torn"}
  BY DEF Torn, Empty
<1>2. "case" \in DOMAIN row
  BY DEF RowsOf
<1>3. DOMAIN [rows |-> rows] = {"rows"}
  OBVIOUS
<1>4. "rows" \in DOMAIN SummaryOf(t, r)
  BY DEF SummaryOf
<1>5. row \notin {Empty, Torn}
  BY <1>1, <1>2
<1>6. [rows |-> rows] \notin {Empty, Torn}
  BY <1>1, <1>3
<1>7. SummaryOf(t, r) \notin {Empty, Torn}
  BY <1>1, <1>4
<1> QED
  BY <1>5, <1>6, <1>7

LEMMA CompleteParts ==
  ASSUME NEW r, NEW d, NEW t \in AllTools, NEW s, r.rows \in Seq(RowsOf(t, s)),
         Len(r.rows) = Len(Cases(t)), RowsAreOfRun(t, r), Complete(t, d, r)
  PROVE  /\ Holds(d, Json) /\ Summary(d) = SummaryOf(t, r) /\ Rows(d) = r.rows
         /\ Summarised(t, d) /\ RowsHold(t, d) /\ TableIs(d)
         /\ t \notin RowLess => RowsAre(d)
         /\ t = "graph" => \A i \in DOMAIN Rows(d) :
                             Digested(d, <<"csv", i>>) /\ d[<<"csv", i>>] = Rows(d)[i]
<1>1. Holds(d, Json) /\ Summary(d) = SummaryOf(t, r) /\ Rows(d) = r.rows
  <2>1. SummaryOf(t, r) \notin {Empty, Torn}
    <3>1. "rows" \in DOMAIN SummaryOf(t, r) /\ "rows" \notin DOMAIN Torn /\ "rows" \notin DOMAIN Empty
      BY DEF SummaryOf, Torn, Empty
    <3> QED
      BY <3>1
  <2>2. Holds(d, Json) /\ Summary(d) = SummaryOf(t, r)
    BY <2>1 DEF Complete, Has, Holds, Summary
  <2> QED
    BY <2>2 DEF Rows, SummaryOf
<1>2. /\ Summary(d).tool = t /\ Summary(d).rows = r.rows /\ Summary(d).identity = r.identity
      /\ Summary(d).digests = r.digests
  BY <1>1 DEF SummaryOf
<1>3. DOMAIN r.rows = 1..Len(r.rows) /\ \A i \in 1..Len(r.rows) : r.rows[i] \in RowsOf(t, s)
  OBVIOUS
<1>4. Summarised(t, d)
  BY <1>1, <1>2 DEF Summarised
<1>5. RowsHold(t, d)
  BY <1>1, <1>2, <1>3 DEF RowsHold, RowsAreOfRun
<1>6. TableIs(d)
  <2>1. [rows |-> r.rows] \notin {Empty, Torn}
    <3>1. DOMAIN [rows |-> r.rows] = {"rows"} /\ DOMAIN Torn = {"torn"} /\ DOMAIN Empty = {"torn"}
      BY DEF Torn, Empty
    <3> QED
      BY <3>1
  <2>2. Has(d, Csv, [rows |-> r.rows]) /\ Has(r.digests, Csv, [rows |-> r.rows])
    BY DEF Complete
  <2>3. Digested(d, Csv)
    BY <1>2, <2>1, <2>2 DEF Digested, Has, Holds
  <2>4. d[Csv].rows = Rows(d)
    BY <1>1, <2>2 DEF Has
  <2> QED
    BY <2>3, <2>4 DEF TableIs
<1>7. ASSUME NEW kind \in {"json", "csv"}, NEW i \in 1..Len(r.rows),
             Has(d, <<kind, i>>, r.rows[i]) /\ Has(r.digests, <<kind, i>>, r.rows[i])
      PROVE  Digested(d, <<kind, i>>) /\ d[<<kind, i>>] = r.rows[i]
  <2>1. r.rows[i] \notin {Empty, Torn}
    BY <1>3, WholeFiles
  <2> QED
    BY <1>2, <1>7, <2>1 DEF Digested, Has, Holds
<1>8. t \notin RowLess => RowsAre(d)
  BY <1>1, <1>3, <1>7 DEF RowsAre, Complete
<1>9. t = "graph" => \A i \in DOMAIN Rows(d) :
                        Digested(d, <<"csv", i>>) /\ d[<<"csv", i>>] = Rows(d)[i]
  BY <1>1, <1>3, <1>7 DEF Complete
<1> QED
  BY <1>1, <1>4, <1>5, <1>6, <1>8, <1>9

LEMMA CompleteVerifies ==
  ASSUME NEW r, NEW d, NEW t \in Atomic \cup Unverified, NEW s, r.rows \in Seq(RowsOf(t, s)),
         Len(r.rows) = Len(Cases(t)), RowsAreOfRun(t, r), Complete(t, d, r), Parity(t, r.rows),
         t \in Atomic => r.identity = r.named["manifest"] /\ r.identity = r.named["oracle"]
  PROVE  Holds(d, Json) /\ Summary(d).named = r.named /\ Verifies(t, d, Summary(d).named)
<1> DEFINE ins == Summary(d).named
<1>1. t \in AllTools
  BY DEF Atomic, Unverified, AllTools
<1>2. /\ Holds(d, Json) /\ Summary(d) = SummaryOf(t, r) /\ Rows(d) = r.rows
      /\ Summarised(t, d) /\ RowsHold(t, d) /\ TableIs(d)
      /\ t \notin RowLess => RowsAre(d)
      /\ t = "graph" => \A i \in DOMAIN Rows(d) :
                          Digested(d, <<"csv", i>>) /\ d[<<"csv", i>>] = Rows(d)[i]
  BY <1>1, CompleteParts
<1>3. ins = r.named /\ Summary(d).identity = r.identity
  BY <1>2 DEF SummaryOf
<1>4. \A names : Names(d, ins, names)
  BY DEF Names
<1>5. t \in Atomic => Identifies(d, ins) /\ Summary(d).named["oracle"] = Summary(d).identity
  BY <1>3 DEF Identifies
<1> SUFFICES Verifies(t, d, ins)
  BY <1>2, <1>3
<1> HIDE DEF ins
<1>6. CASE t = "layer"
  BY <1>2, <1>4, <1>5, <1>6 DEF Verifies, LayerVerifies, Parity, RowLess, Atomic, AllTools
<1>7. CASE t = "validation"
  BY <1>2, <1>4, <1>5, <1>7 DEF Verifies, ValidationVerifies, Parity, RowLess, Atomic, AllTools
<1>8. CASE t = "state"
  BY <1>2, <1>4, <1>5, <1>8 DEF Verifies, StateVerifies, Parity, RowLess, Atomic, AllTools
<1>9. CASE t = "routing"
  BY <1>2, <1>4, <1>5, <1>9 DEF Verifies, RoutingVerifies, Parity, RowLess, Atomic, AllTools
<1>10. CASE t = "closure"
  BY <1>2, <1>4, <1>5, <1>10 DEF Verifies, ClosureVerifies, Parity, RowLess, Atomic, AllTools
<1>11. CASE t = "attribution"
  BY <1>2, <1>4, <1>5, <1>11 DEF Verifies, AttributionVerifies, Parity, RowLess, Atomic, AllTools
<1>12. CASE t = "operation"
  BY <1>2, <1>4, <1>5, <1>12 DEF Verifies, OperationVerifies, Parity, RowLess, Atomic, AllTools
<1>13. CASE t = "graph"
  <2>1. \A i \in DOMAIN Rows(d) : d[Csv].rows[i].case = Cases("graph")[i]
    BY <1>2, <1>13 DEF TableIs, RowsHold
  <2>2. Digested(d, Csv)
    BY <1>2 DEF TableIs
  <2> QED
    BY <1>2, <1>4, <1>13, <2>1, <2>2 DEF Verifies, GraphVerifies, RowLess
<1>14. CASE t = "audit"
  BY <1>2, <1>4, <1>14 DEF Verifies, AuditVerifies, Parity
<1>15. CASE t = "discovery"
  BY <1>2, <1>4, <1>15 DEF Verifies, DiscoveryVerifies
<1> QED
  BY <1>6, <1>7, <1>8, <1>9, <1>10, <1>11, <1>12, <1>13, <1>14, <1>15 DEF Atomic, AllTools, Unverified

-----------------------------------------------------------------------------
(* The inductive invariant.                                                 *)

\* A summary has the rows of one run; where the table is not read against it,
\* a process that is alone has digested a table of the same rows.
SummaryIsOk(t, s, n, alone, c) ==
  /\ c.rows \in Seq(RowsOf(t, s))
  /\ \E id \in 1..n : \A i \in 1..Len(c.rows) : c.rows[i].id = id
  /\ t = "graph" /\ alone => Has(c.digests, Csv, [rows |-> c.rows])
FilesAreOk(t, s, n, alone, d) ==
  /\ DOMAIN d \subseteq FilesOf(t)
  /\ Holds(d, Json) => SummaryIsOk(t, s, n, alone, d[Json])

\* Where inputs rest while a run is under way it has identified and named those
\* there are.
InputsAre(t, ins, r) ==
  (t \in Atomic /\ r.pc \notin Rests) =>
    /\ r.pc # "identify" => r.identity = ins["manifest"]
    /\ r.pc \in {"write table", "digest table", "write summary", "publish", "verify"} => r.named = ins

\* What a process has open that is alone: the file it writes, which is empty
\* where it is written and, for discovery, whole before it is renamed; or the
\* partial directory.
ContentOf(t, r, f) ==
  CASE f = Csv -> [rows |-> r.rows] [] f = Json -> SummaryOf(t, r) [] OTHER -> r.rows[f[2]]
HandleIsOk(t, place, d, h, r) ==
  /\ r.pc \notin Writes \cup {"clear", "clean"} => h = Closed
  /\ t \in Atomic => h.in # "out"
  /\ r.pc \in Writes /\ h # Closed =>
       IF h.done THEN t = "discovery" /\ Has(d, FileOf(r.pc, r.row), ContentOf(t, r, FileOf(r.pc, r.row)))
       ELSE h.in = place /\ Has(d, FileOf(r.pc, r.row), Empty)
\* What it has read back is there.
SeenIsOk(d, r) ==
  /\ r.pc = "verify" => \A f \in DOMAIN r.seen : Has(d, f, r.seen[f])
  /\ r.pc \notin Rests \cup {"verify"} => DOMAIN r.seen = {}

Handles ==
  DOMAIN opened = setting.processes /\ \A p \in setting.processes : DOMAIN opened[p] = {"in", "files", "done"}
Settled ==
  /\ setting \in Settings /\ tool \in setting.tools
  /\ inputs \in [InputNames -> Nat \ {0}]
  /\ inputs["artifact"] = inputs["manifest"] /\ inputs["oracle"] = inputs["manifest"]
  /\ started \in Nat
  /\ DOMAIN work = setting.processes
\* A process that is alone publishes a directory that has a summary.
Directories ==
  /\ unpublished # NoDirectory => tool \in Atomic \cup {"discovery"}
  /\ FilesAreOk(tool, setting, started, Alone, Contents("unpublished"))
  /\ FilesAreOk(tool, setting, started, Alone, Contents("out"))
  /\ Alone /\ tool \in Atomic /\ out # NoDirectory => Json \in DOMAIN out
IInv ==
  /\ Settled /\ Handles /\ Directories
  /\ \A p \in setting.processes : RunIsOk(tool, setting, started, work[p])
  /\ Alone => \A p \in setting.processes :
                /\ work[p].pc \in Fills => IsFilled(tool, Directory, work[p])
                /\ HandleIsOk(tool, Place, Contents(Place), opened[p], work[p])
                /\ SeenIsOk(Contents("out"), work[p])
  /\ ~setting.rebuildsDuringRuns => \A p \in setting.processes : InputsAre(tool, inputs, work[p])
  /\ Alone /\ ~setting.rebuildsDuringRuns => PublishedVerifies

LEMMA ToolIsKnown ==
  ASSUME Settled
  PROVE  tool \in AllTools
  BY SettingsAssumption DEF Settled

LEMMA MoreStarts ==
  ASSUME NEW t, NEW s, NEW n \in Nat, NEW alone
  PROVE  /\ \A r : RunIsOk(t, s, n, r) => RunIsOk(t, s, n + 1, r)
         /\ \A d : FilesAreOk(t, s, n, alone, d) => FilesAreOk(t, s, n + 1, alone, d)
<1>1. 1..n \subseteq 1..n + 1
  OBVIOUS
<1>2. \A r : RunIsOk(t, s, n, r) => RunIsOk(t, s, n + 1, r)
  BY <1>1 DEF RunIsOk
<1>3. \A c : SummaryIsOk(t, s, n, alone, c) => SummaryIsOk(t, s, n + 1, alone, c)
  BY <1>1 DEF SummaryIsOk
<1> QED
  BY <1>2, <1>3 DEF FilesAreOk

\* Directories: the one that stands for none has a file that is no tool's.
LEMMA OfFilesIsDirectory ==
  ASSUME NEW t, NEW d, DOMAIN d \subseteq FilesOf(t)
  PROVE  d # NoDirectory
<1>1. <<"none", 0>> \notin FilesOf(t)
  BY DEF FilesOf, Csv, Json
<1>2. <<"none", 0>> \in DOMAIN NoDirectory
  BY DEF NoDirectory
<1> QED
  BY <1>1, <1>2

LEMMA NoFilesIsOk ==
  ASSUME NEW t, NEW s, NEW n, NEW alone
  PROVE  FilesAreOk(t, s, n, alone, NoFiles) /\ NoFiles # NoDirectory
<1>1. DOMAIN NoFiles = {}
  BY DEF NoFiles
<1>2. NoFiles # NoDirectory
  BY <1>1, OfFilesIsDirectory
<1> QED
  BY <1>1, <1>2 DEF FilesAreOk, Holds

LEMMA WritingIsOk ==
  ASSUME NEW t, NEW s, NEW n, NEW alone, NEW d, FilesAreOk(t, s, n, alone, d),
         NEW f \in FilesOf(t), NEW content,
         f = Json /\ content \notin {Empty, Torn} => SummaryIsOk(t, s, n, alone, content)
  PROVE  FilesAreOk(t, s, n, alone, Writing(d, f, content))
<1>1. DOMAIN Writing(d, f, content) = DOMAIN d \cup {f}
  BY DEF Writing
<1>2. \A g \in DOMAIN d \cup {f} : Writing(d, f, content)[g] = IF g = f THEN content ELSE d[g]
  BY DEF Writing
<1> DEFINE w == Writing(d, f, content)
<1> HIDE DEF w
<1>3. Holds(w, Json) => SummaryIsOk(t, s, n, alone, w[Json])
  BY <1>1, <1>2 DEF FilesAreOk, Holds, w
<1> QED
  BY <1>1, <1>3 DEF FilesAreOk, w

LEMMA WithoutIsOk ==
  ASSUME NEW t, NEW s, NEW n, NEW alone, NEW d, FilesAreOk(t, s, n, alone, d), NEW f
  PROVE  FilesAreOk(t, s, n, alone, Without(d, f)) /\ Without(d, f) # NoDirectory
<1> DEFINE w == Without(d, f)
<1>1. DOMAIN w \subseteq DOMAIN d /\ \A g \in DOMAIN w : w[g] = d[g]
  BY DEF Without
<1> HIDE DEF w
<1>2. FilesAreOk(t, s, n, alone, w)
  BY <1>1 DEF FilesAreOk, Holds
<1>3. w # NoDirectory
  BY <1>2, OfFilesIsDirectory DEF FilesAreOk
<1> QED
  BY <1>2, <1>3 DEF w

\* A place that has a file is one of the two, and the directory is there.
LEMMA ContentsAre ==
  /\ out # NoDirectory => Contents("out") = out
  /\ unpublished # NoDirectory => Contents("unpublished") = unpublished
  /\ out = NoDirectory => Contents("out") = NoFiles
  /\ unpublished = NoDirectory => Contents("unpublished") = NoFiles
  /\ \A place, f : f \in DOMAIN Contents(place) =>
       \/ place = "out" /\ out # NoDirectory
       \/ place = "unpublished" /\ unpublished # NoDirectory
<1>1. "out" # "unpublished" /\ DOMAIN NoFiles = {}
  BY DEF NoFiles
<1> QED
  BY <1>1 DEF Contents

LEMMA PutContents ==
  ASSUME NEW place \in {"out", "unpublished"}, NEW d, d # NoDirectory, Put(place, d)
  PROVE  /\ (Contents(place))' = d
         /\ \A other \in {"out", "unpublished"} : other # place => (Contents(other))' = Contents(other)
         /\ place = "out" => out' = d /\ unpublished' = unpublished
         /\ place = "unpublished" => unpublished' = d /\ out' = out
<1>1. CASE place = "out"
  BY <1>1 DEF Put, Contents
<1>2. CASE place = "unpublished"
  BY <1>2 DEF Put, Contents
<1> QED
  BY <1>1, <1>2

LEMMA FileIsOfTool ==
  ASSUME NEW t \in AllTools, NEW s, NEW n, NEW r, RunIsOk(t, s, n, r), r.pc \in Writes
  PROVE  FileOf(r.pc, r.row) \in FilesOf(t)
<1>1. r.pc \in StagesOf(t) /\ r.row \in 1..Len(Cases(t))
  BY DEF RunIsOk, Rests, Writes
<1>2. r.pc = "write row" => t \notin RowLess
  BY <1>1 DEF StagesOf, RowSteps, TableSteps, RowLess, AllTools, Atomic, OracleTools
<1>3. r.pc = "write row table" => t = "graph"
  BY <1>1 DEF StagesOf, RowSteps, TableSteps, AllTools, Atomic, OracleTools
<1>4. CASE r.pc = "write row"
  BY <1>1, <1>2, <1>4 DEF FileOf, FilesOf
<1>5. CASE r.pc = "write row table"
  BY <1>1, <1>3, <1>5 DEF FileOf, FilesOf
<1>6. CASE r.pc \in {"write table", "write summary"}
  BY <1>6 DEF FileOf, FilesOf
<1> QED
  BY <1>4, <1>5, <1>6 DEF Writes

LEMMA SummaryOfIsOk ==
  ASSUME NEW t, NEW s, NEW n, NEW alone, NEW r, RunIsOk(t, s, n, r), r.pc \notin Rests,
         t = "graph" /\ alone => Has(r.digests, Csv, [rows |-> r.rows])
  PROVE  SummaryIsOk(t, s, n, alone, SummaryOf(t, r))
<1>1. SummaryOf(t, r).rows = r.rows /\ SummaryOf(t, r).digests = r.digests
  BY DEF SummaryOf
<1>2. r.rows \in Seq(RowsOf(t, s)) /\ r.id \in 1..n /\ \A i \in 1..Len(r.rows) : r.rows[i].id = r.id
  BY DEF RunIsOk, RowsAreOfRun
<1> QED
  BY <1>1, <1>2 DEF SummaryIsOk

LEMMA ContentIs ==
  ASSUME NEW r, NEW f
  PROVE  Content(r, f) = ContentOf(tool, r, f)
  BY DEF Content, ContentOf, SummaryOf

-----------------------------------------------------------------------------
(* What a step has to show to keep the invariant.                           *)

\* A step of one process, which leaves its run as x.
LEMMA StepKeeps ==
  ASSUME IInv, setting' = setting, tool' = tool, inputs' = inputs, started' = started,
         NEW p \in setting.processes, NEW x, DOMAIN work' = setting.processes,
         \A q \in setting.processes : work'[q] = IF q = p THEN x ELSE work[q],
         Handles', Directories', RunIsOk(tool, setting, started, x),
         Alone => /\ x.pc \in Fills => IsFilled(tool, Directory', x)
                  /\ HandleIsOk(tool, Place, (Contents(Place))', opened'[p], x)
                  /\ SeenIsOk((Contents("out"))', x),
         ~setting.rebuildsDuringRuns => InputsAre(tool, inputs, x),
         (Alone /\ ~setting.rebuildsDuringRuns) => PublishedVerifies'
  PROVE  IInv'
<1>1. Settled'
  BY DEF IInv, Settled
<1>2. (Alone' <=> Alone) /\ Place' = Place
  BY DEF Alone, Place
<1>3. \A q \in setting'.processes : RunIsOk(tool', setting', started', work'[q])
  BY DEF IInv
<1>4. Alone => \A q \in setting.processes : q = p
  BY DEF Alone
<1>5. Alone' => \A q \in setting'.processes :
                  /\ work'[q].pc \in Fills => IsFilled(tool', Directory', work'[q])
                  /\ HandleIsOk(tool', Place', (Contents(Place))', opened'[q], work'[q])
                  /\ SeenIsOk((Contents("out"))', work'[q])
  <2>1. ASSUME Alone, NEW q \in setting.processes
        PROVE  work'[q] = x /\ opened'[q] = opened'[p]
    BY <1>4, <2>1
  <2> QED
    BY <1>2, <2>1
<1>6. ~setting'.rebuildsDuringRuns => \A q \in setting'.processes : InputsAre(tool', inputs', work'[q])
  BY DEF IInv
<1>7. (Alone' /\ ~setting'.rebuildsDuringRuns) => PublishedVerifies'
  BY <1>2
<1> QED
  BY <1>1, <1>3, <1>5, <1>6, <1>7 DEF IInv

LEMMA WorkOf ==
  ASSUME Settled, NEW p \in setting.processes, NEW x
  PROVE  /\ work' = [work EXCEPT ![p] = x] =>
              /\ DOMAIN work' = setting.processes
              /\ \A q \in setting.processes : work'[q] = IF q = p THEN x ELSE work[q]
         /\ work' = work /\ x = work[p] =>
              /\ DOMAIN work' = setting.processes
              /\ \A q \in setting.processes : work'[q] = IF q = p THEN x ELSE work[q]
  BY DEF Settled

\* A process that is alone, and has closed what it had open.
LEMMA ClosedIsOk ==
  ASSUME NEW t, NEW place, NEW d, NEW r
  PROVE  HandleIsOk(t, place, d, Closed, r)
  BY DEF HandleIsOk, Closed

LEMMA ClosesKeeps ==
  ASSUME Handles, setting' = setting, NEW p \in setting.processes, Close(p)
  PROVE  Handles' /\ opened'[p] = Closed
  BY DEF Handles, Close, Closed

LEMMA DirectoriesFollow ==
  ASSUME setting' = setting, tool' = tool, started' = started,
         unpublished' # NoDirectory => tool \in Atomic \cup {"discovery"},
         FilesAreOk(tool, setting, started, Alone, (Contents("unpublished"))'),
         FilesAreOk(tool, setting, started, Alone, (Contents("out"))'),
         (Alone /\ tool \in Atomic /\ out' # NoDirectory) => Json \in DOMAIN out'
  PROVE  Directories'
<1>1. Alone' <=> Alone
  BY DEF Alone
<1> DEFINE d == (Contents("unpublished"))'
           e == (Contents("out"))'
<1>2. /\ FilesAreOk(tool', setting', started', Alone', d) <=> FilesAreOk(tool, setting, started, Alone, d)
      /\ FilesAreOk(tool', setting', started', Alone', e) <=> FilesAreOk(tool, setting, started, Alone, e)
  BY <1>1 DEF FilesAreOk, SummaryIsOk
<1> QED
  BY <1>1, <1>2 DEF Directories

\* The directories stay as they are.
LEMMA DirectoriesStay ==
  ASSUME IInv, UNCHANGED <<out, unpublished, setting, tool, started>>
  PROVE  /\ Directories' /\ Directory' = Directory /\ Place' = Place
         /\ (Contents("out"))' = Contents("out") /\ (Contents(Place))' = Contents(Place)
         /\ (Alone /\ ~setting.rebuildsDuringRuns) => PublishedVerifies'
<1>1. \A place : (Contents(place))' = Contents(place)
  BY DEF Contents
<1>2. Place' = Place /\ Directory' = Directory
  BY <1>1 DEF Place, Directory
<1>3. (Contents(Place))' = Contents(Place)
  BY DEF Contents, Place
<1>4. (Alone /\ ~setting.rebuildsDuringRuns) => PublishedVerifies'
  BY DEF IInv, PublishedVerifies
<1>5. Directories'
  BY <1>1, DirectoriesFollow DEF IInv, Directories
<1> QED
  BY <1>1, <1>2, <1>3, <1>4, <1>5

\* Where the directory of an atomic tool stays, what it says stays.
LEMMA PublishedStays ==
  ASSUME IInv, tool' = tool, tool \in Atomic => out' = out, Alone /\ ~setting.rebuildsDuringRuns
  PROVE  PublishedVerifies'
  BY DEF IInv, PublishedVerifies

\* A process that ends, or fails and cleans up, does no more.
LEMMA EndedRun ==
  ASSUME NEW x, DOMAIN x = RunFields, x.pc \in Rests, x.pc = "clean" => x.end = "failed",
         NEW t, NEW s, NEW n, NEW ins, NEW d
  PROVE  RunIsOk(t, s, n, x) /\ x.pc \notin Fills /\ InputsAre(t, ins, x) /\ SeenIsOk(d, x)
<1>1. x.pc \notin Fills /\ x.pc # "verify"
  BY DEF Fills, TableSteps, Rests
<1> QED
  BY <1>1 DEF RunIsOk, InputsAre, SeenIsOk

LEMMA AdvancedInputs ==
  ASSUME NEW r, tool \in AllTools, NEW n, HasDone(tool, setting, n, r), NEW ins,
         tool \in Atomic =>
           /\ r.identity = ins["manifest"]
           /\ r.pc \in {"name", "write table", "digest table", "write summary", "publish"} => r.named = ins
  PROVE  InputsAre(tool, ins, Advanced(r))
<1> DEFINE more == r.row < Len(Cases(tool))
           next == Follows(tool, r.pc, more)
<1>1. /\ DOMAIN r = RunFields /\ r.pc \in StagesOf(tool) /\ r.row \in 1..Len(Cases(tool))
  BY DEF HasDone
<1>2. /\ more \in BOOLEAN /\ Advanced(r).pc = next
      /\ Advanced(r).named = r.named /\ Advanced(r).identity = r.identity
  BY <1>1, AdvancedFields
<1>k. Edge(tool, r.pc, more, next)
  BY <1>1, <1>2, FollowsEdge
<1> HIDE DEF more, next
<1>3. tool \in Atomic /\ next \in {"write table", "digest table", "write summary", "publish", "verify"}
        => r.pc \in {"name", "write table", "digest table", "write summary", "publish"}
  BY <1>k DEF Edge, AllTools, Atomic
<1> QED
  BY <1>2, <1>3 DEF InputsAre

\* A process has done a step, and goes on.
LEMMA GoesKeeps ==
  ASSUME IInv, setting' = setting, tool' = tool, inputs' = inputs, started' = started,
         NEW p \in setting.processes, NEW r, Goes(p, r), HasDone(tool, setting, started, r),
         Handles', Directories',
         Alone => /\ Advanced(r).pc \in Fills => WasFilled(tool, Directory', r)
                  /\ opened'[p] = Closed
                  /\ DOMAIN r.seen = {} \/ Advanced(r).pc = "idle",
         (~setting.rebuildsDuringRuns /\ tool \in Atomic) =>
           /\ r.identity = inputs["manifest"]
           /\ r.pc \in {"name", "write table", "digest table", "write summary", "publish"} => r.named = inputs,
         (Alone /\ ~setting.rebuildsDuringRuns) => PublishedVerifies'
  PROVE  IInv'
<1> DEFINE x == Advanced(r)
<1>1. tool \in AllTools /\ started \in Nat
  BY ToolIsKnown DEF IInv, Settled
<1>2. /\ DOMAIN work' = setting.processes
      /\ \A q \in setting.processes : work'[q] = IF q = p THEN x ELSE work[q]
  BY WorkOf DEF Goes, IInv
<1>3. RunIsOk(tool, setting, started, x)
  BY <1>1, AdvancedRun
<1>4. Alone /\ x.pc \in Fills => IsFilled(tool, Directory', x)
  BY <1>1, FilledAdvances
<1>5. ~setting.rebuildsDuringRuns => InputsAre(tool, inputs, x)
  BY <1>1, AdvancedInputs
<1>6. Alone => SeenIsOk((Contents("out"))', x)
  <2>1. x.seen = r.seen
    BY <1>1, AdvancedFields DEF HasDone
  <2> HIDE DEF x
  <2>2. x.pc = "idle" => SeenIsOk((Contents("out"))', x)
    BY DEF SeenIsOk, Rests
  <2>3. DOMAIN x.seen = {} => SeenIsOk((Contents("out"))', x)
    BY DEF SeenIsOk
  <2> QED
    BY <2>1, <2>2, <2>3 DEF x
<1>7. Alone => HandleIsOk(tool, Place, (Contents(Place))', opened'[p], x)
  BY ClosedIsOk
<1> HIDE DEF x
<1> QED
  BY <1>2, <1>3, <1>4, <1>5, <1>6, <1>7, StepKeeps

\* A process stops: it ends, or goes on to clean up.
LEMMA RestsKeeps ==
  ASSUME IInv, NEW p \in setting.processes, UNCHANGED <<setting, tool, inputs, started>>,
         NEW pc \in Rests, NEW how, pc = "clean" => how = "failed",
         work' = [work EXCEPT ![p].pc = pc, ![p].end = how],
         Handles', Directories', Alone => opened'[p] = Closed,
         (Alone /\ ~setting.rebuildsDuringRuns) => PublishedVerifies'
  PROVE  IInv'
<1> DEFINE x == [work[p] EXCEPT !.pc = pc, !.end = how]
<1>1. /\ DOMAIN work' = setting.processes
      /\ \A q \in setting.processes : work'[q] = IF q = p THEN x ELSE work[q]
  BY DEF IInv, Settled
<1>2. DOMAIN work[p] = RunFields
  BY DEF IInv, RunIsOk
<1>3. /\ RunIsOk(tool, setting, started, x) /\ x.pc \notin Fills /\ InputsAre(tool, inputs, x)
      /\ SeenIsOk((Contents("out"))', x)
  <2>1. DOMAIN x = RunFields /\ x.pc = pc /\ x.end = how
    BY <1>2 DEF RunFields
  <2> HIDE DEF x
  <2> QED
    BY <2>1, EndedRun
<1>4. Alone => HandleIsOk(tool, Place, (Contents(Place))', opened'[p], x)
  BY ClosedIsOk
<1> HIDE DEF x
<1> QED
  BY <1>1, <1>3, <1>4, StepKeeps

LEMMA FailsKeeps ==
  ASSUME IInv, NEW p \in setting.processes, Fails(p), UNCHANGED <<setting, tool, inputs, started>>,
         Handles', Directories', Alone => opened'[p] = Closed,
         (Alone /\ ~setting.rebuildsDuringRuns) => PublishedVerifies'
  PROVE  IInv'
<1> DEFINE pc == IF Made(p) THEN "clean" ELSE "idle"
<1>1. work' = [work EXCEPT ![p].pc = pc, ![p].end = "failed"]
  BY DEF Fails
<1>2. pc \in Rests
  BY DEF Rests
<1> HIDE DEF pc
<1> QED
  BY <1>1, <1>2, RestsKeeps

\* A step that leaves the run as it is.
LEMMA SameRunKeeps ==
  ASSUME IInv, NEW p \in setting.processes, UNCHANGED <<setting, tool, inputs, started, work>>,
         Handles', Directories',
         Alone => /\ work[p].pc \in Fills => IsFilled(tool, Directory', work[p])
                  /\ HandleIsOk(tool, Place, (Contents(Place))', opened'[p], work[p])
                  /\ SeenIsOk((Contents("out"))', work[p]),
         (Alone /\ ~setting.rebuildsDuringRuns) => PublishedVerifies'
  PROVE  IInv'
<1> DEFINE x == work[p]
<1>1. /\ DOMAIN work' = setting.processes
      /\ \A q \in setting.processes : work'[q] = IF q = p THEN x ELSE work[q]
  BY DEF IInv, Settled
<1>2. /\ RunIsOk(tool, setting, started, x)
      /\ ~setting.rebuildsDuringRuns => InputsAre(tool, inputs, x)
  BY DEF IInv
<1>3. Alone => /\ x.pc \in Fills => IsFilled(tool, Directory', x)
               /\ HandleIsOk(tool, Place, (Contents(Place))', opened'[p], x)
               /\ SeenIsOk((Contents("out"))', x)
  OBVIOUS
<1> HIDE DEF x
<1> QED
  BY <1>1, <1>2, <1>3, StepKeeps

\* What is known of a run that is at a step.
LEMMA RunAt ==
  ASSUME IInv, NEW p \in setting.processes, work[p].pc \notin Rests
  PROVE  /\ tool \in AllTools /\ started \in Nat /\ RunIsOk(tool, setting, started, work[p])
         /\ work[p].pc \in StagesOf(tool) /\ DOMAIN work[p] = RunFields /\ work[p].row \in 1..Len(Cases(tool))
         /\ work[p].pc \notin {"measure", "parity"} => HasDone(tool, setting, started, work[p])
         /\ work[p].pc \in Fills /\ Alone => IsFilled(tool, Directory, work[p])
         /\ ~setting.rebuildsDuringRuns => InputsAre(tool, inputs, work[p])
         /\ Alone /\ work[p].pc \notin Writes \cup {"clear"} => opened[p] = Closed
         /\ Alone /\ work[p].pc # "verify" => DOMAIN work[p].seen = {}
<1>1. tool \in AllTools /\ started \in Nat /\ RunIsOk(tool, setting, started, work[p])
  BY ToolIsKnown DEF IInv, Settled
<1>2. work[p].pc \in StagesOf(tool) /\ DOMAIN work[p] = RunFields /\ work[p].row \in 1..Len(Cases(tool))
  BY <1>1 DEF RunIsOk
<1>3. work[p].pc \notin {"measure", "parity"} => HasDone(tool, setting, started, work[p])
  BY <1>1, CasesLength DEF RunIsOk, HasDone
<1>4. Alone => /\ work[p].pc \notin Writes \cup {"clear"} => opened[p] = Closed
               /\ work[p].pc # "verify" => DOMAIN work[p].seen = {}
  BY DEF IInv, HandleIsOk, SeenIsOk, Rests
<1> QED
  BY <1>1, <1>2, <1>3, <1>4 DEF IInv

\* The tools whose programs have a step.
LEMMA ToolsOfStages ==
  ASSUME NEW t \in AllTools
  PROVE  /\ {"clear", "make", "publish"} \cap StagesOf(t) # {} => t \in Atomic
         /\ "mkdir" \in StagesOf(t) => t \notin Atomic
         /\ "verify" \in StagesOf(t) => t \notin Unverified
  BY DEF StagesOf, AllTools, Atomic, Unverified, OracleTools, RowSteps, TableSteps

-----------------------------------------------------------------------------
(* The steps of a program keep the invariant.                               *)

\* A step that opens, writes and removes nothing.
LEMMA QuietStep ==
  ASSUME IInv, NEW p \in setting.processes, work[p].pc \notin Rests \cup Writes \cup {"clear"},
         UNCHANGED <<setting, tool, started, held>>
  PROVE  /\ Handles' /\ Directories' /\ Directory' = Directory
         /\ (Contents("out"))' = Contents("out") /\ (Contents(Place))' = Contents(Place)
         /\ Alone => opened'[p] = Closed
         /\ (Alone /\ ~setting.rebuildsDuringRuns) => PublishedVerifies'
<1>1. UNCHANGED <<setting, tool, started, out, unpublished, opened>>
  BY DEF held
<1>2. Handles'
  BY <1>1 DEF IInv, Handles
<1>3. Alone => opened'[p] = Closed
  BY <1>1, RunAt
<1> QED
  BY <1>1, <1>2, <1>3, DirectoriesStay

LEMMA QuietFails ==
  ASSUME IInv, NEW p \in setting.processes, work[p].pc \notin Rests \cup Writes \cup {"clear"},
         Fails(p), UNCHANGED <<setting, tool, inputs, started, held>>
  PROVE  IInv'
  BY QuietStep, FailsKeeps

LEMMA IdentifyKeeps ==
  ASSUME IInv, NEW p \in setting.processes, Identify(p)
  PROVE  IInv'
<1> DEFINE r == [work[p] EXCEPT !.identity = inputs["manifest"]]
<1>1. work[p].pc = "identify" /\ Goes(p, r) /\ UNCHANGED <<setting, tool, inputs, started, held>>
  BY DEF Identify, At, counts
<1>2. work[p].pc \notin Rests \cup Writes \cup {"clear"}
  BY <1>1 DEF Rests, Writes
<1>3. /\ tool \in AllTools /\ started \in Nat /\ HasDone(tool, setting, started, work[p])
      /\ DOMAIN work[p] = RunFields
      /\ Alone => DOMAIN work[p].seen = {}
  BY <1>1, <1>2, RunAt
<1>4. r.pc = "identify" /\ r.row = work[p].row /\ r.rows = work[p].rows /\ r.id = work[p].id
      /\ r.identity = inputs["manifest"] /\ DOMAIN r = RunFields /\ r.seen = work[p].seen
  BY <1>1, <1>3 DEF RunFields
<1> HIDE DEF r
<1>5. Len(r.rows) = 0 /\ r.row = 1
  BY <1>1, <1>3, <1>4 DEF HasDone, BeforeRows
<1>6. HasDone(tool, setting, started, r)
  <2>1. RowsAreOfRun(tool, r)
    BY <1>5 DEF RowsAreOfRun
  <2> QED
    BY <1>1, <1>3, <1>4, <1>5, <2>1 DEF HasDone, BeforeRows, AfterRows
<1>7. WasFilled(tool, Directory', r)
  BY <1>4, <1>5, EarlyStepFills DEF BeforeRows
<1> QED
  BY <1>1, <1>2, <1>3, <1>4, <1>6, <1>7, QuietStep, GoesKeeps

\* The steps before the first row that change nothing but the stage.
LEMMA EarlyStepKeeps ==
  ASSUME IInv, NEW p \in setting.processes, work[p].pc \in BeforeRows \ {"identify"},
         Goes(p, work[p]), UNCHANGED <<setting, tool, inputs, started>>,
         Handles', Directories', Alone => opened'[p] = Closed,
         (Alone /\ ~setting.rebuildsDuringRuns) => PublishedVerifies'
  PROVE  IInv'
<1>1. work[p].pc \notin Rests \cup {"measure", "parity", "verify"}
  BY DEF BeforeRows, Rests
<1>2. /\ tool \in AllTools /\ started \in Nat /\ HasDone(tool, setting, started, work[p])
      /\ ~setting.rebuildsDuringRuns => InputsAre(tool, inputs, work[p])
      /\ Alone => DOMAIN work[p].seen = {}
  BY <1>1, RunAt
<1>3. WasFilled(tool, Directory', work[p])
  BY <1>2, EarlyStepFills DEF HasDone
<1>4. (~setting.rebuildsDuringRuns /\ tool \in Atomic) =>
         /\ work[p].identity = inputs["manifest"]
         /\ work[p].pc \in {"name", "write table", "digest table", "write summary", "publish"}
              => work[p].named = inputs
  BY <1>1, <1>2 DEF InputsAre, BeforeRows
<1> QED
  BY <1>2, <1>3, <1>4, GoesKeeps

LEMMA CheckOracleKeeps ==
  ASSUME IInv, NEW p \in setting.processes, CheckOracle(p)
  PROVE  IInv'
<1>1. work[p].pc = "oracle" /\ UNCHANGED <<setting, tool, inputs, started, held>>
  BY DEF CheckOracle, At, counts
<1>2. work[p].pc \notin Rests \cup Writes \cup {"clear"} /\ work[p].pc \in BeforeRows \ {"identify"}
  BY <1>1 DEF Rests, Writes, BeforeRows
<1>3. CASE Goes(p, work[p])
  BY <1>1, <1>2, <1>3, QuietStep, EarlyStepKeeps
<1>4. CASE Fails(p)
  BY <1>1, <1>2, <1>4, QuietFails
<1> QED
  BY <1>3, <1>4 DEF CheckOracle

LEMMA RefuseExistingKeeps ==
  ASSUME IInv, NEW p \in setting.processes, RefuseExisting(p)
  PROVE  IInv'
<1>1. work[p].pc = "refuse" /\ UNCHANGED <<setting, tool, inputs, started, held>>
  BY DEF RefuseExisting, At, counts
<1>2. work[p].pc \notin Rests \cup Writes \cup {"clear"} /\ work[p].pc \in BeforeRows \ {"identify"}
  BY <1>1 DEF Rests, Writes, BeforeRows
<1>3. CASE Goes(p, work[p])
  BY <1>1, <1>2, <1>3, QuietStep, EarlyStepKeeps
<1>4. CASE Fails(p)
  BY <1>1, <1>2, <1>4, QuietFails
<1> QED
  BY <1>3, <1>4 DEF RefuseExisting

\* What a step that removes a partial directory needs, with what it does to the
\* directories and to what is open.
LEMMA ClearedKeeps ==
  ASSUME IInv, NEW p \in setting.processes, Clears(p), UNCHANGED <<setting, tool, inputs, started>>,
         Cleared(p) \/ Fails(p), Handles', Directories', Alone => opened'[p] = Closed,
         (Alone /\ ~setting.rebuildsDuringRuns) => PublishedVerifies'
  PROVE  IInv'
<1>1. CASE Fails(p)
  BY <1>1, FailsKeeps
<1>2. CASE Cleared(p) /\ work[p].pc = "clear"
  <2>1. Goes(p, work[p])
    BY <1>2 DEF Cleared, At
  <2> QED
    BY <1>2, <2>1, EarlyStepKeeps DEF BeforeRows
<1>3. CASE Cleared(p) /\ work[p].pc # "clear"
  <2>1. work' = [work EXCEPT ![p].pc = "idle"] /\ work[p].pc = "clean"
    BY <1>3 DEF Cleared, Clears, At
  <2>2. DOMAIN work[p] = RunFields /\ work[p].end = "failed" /\ DOMAIN work = setting.processes
    BY <2>1 DEF IInv, Settled, RunIsOk
  <2> DEFINE x == [work[p] EXCEPT !.pc = "idle"]
  <2>3. /\ DOMAIN work' = setting.processes
        /\ \A q \in setting.processes : work'[q] = IF q = p THEN x ELSE work[q]
    BY <2>1, <2>2
  <2>4. DOMAIN x = RunFields /\ x.pc = "idle"
    BY <2>2 DEF RunFields
  <2> HIDE DEF x
  <2>5. /\ RunIsOk(tool, setting, started, x) /\ x.pc \notin Fills /\ InputsAre(tool, inputs, x)
        /\ SeenIsOk((Contents("out"))', x)
    BY <2>4, EndedRun DEF Rests
  <2>6. Alone => HandleIsOk(tool, Place, (Contents(Place))', opened'[p], x)
    BY ClosedIsOk
  <2> QED
    BY <2>3, <2>5, <2>6, StepKeeps
<1> QED
  BY <1>1, <1>2, <1>3

\* A partial directory that is open stays open.
LEMMA ClearingKeeps ==
  ASSUME IInv, NEW p \in setting.processes, Clears(p), UNCHANGED <<setting, tool, inputs, started, work>>,
         Handles', Directories', Alone /\ tool \in Atomic => opened'[p].in # "out",
         (Alone /\ ~setting.rebuildsDuringRuns) => PublishedVerifies'
  PROVE  IInv'
<1>1. work[p].pc \in {"clear", "clean"}
  BY DEF Clears, At
<1>2. work[p].pc \notin Fills \cup Writes \cup {"verify"}
  BY <1>1 DEF Fills, TableSteps, Writes
<1>3. Alone => HandleIsOk(tool, Place, (Contents(Place))', opened'[p], work[p])
  BY <1>1, <1>2 DEF HandleIsOk
<1>4. Alone => SeenIsOk((Contents("out"))', work[p])
  BY <1>2 DEF IInv, SeenIsOk
<1> QED
  BY <1>2, <1>3, <1>4, SameRunKeeps

LEMMA FindPartialKeeps ==
  ASSUME IInv, NEW p \in setting.processes, FindPartial(p)
  PROVE  IInv'
<1>1. /\ Clears(p) /\ At(p, {"clear"}) /\ opened[p] = Closed
      /\ UNCHANGED <<setting, tool, inputs, started, out, unpublished>>
  BY DEF FindPartial, counts, Clears, At
<1>2. /\ Directories'
      /\ (Alone /\ ~setting.rebuildsDuringRuns) => PublishedVerifies'
  BY <1>1, DirectoriesStay
<1>3. CASE Goes(p, work[p]) /\ UNCHANGED opened
  <2>1. Handles' /\ opened'[p] = Closed /\ Cleared(p)
    BY <1>1, <1>3 DEF IInv, Handles, Cleared
  <2> QED
    BY <1>1, <1>2, <1>3, <2>1, ClearedKeeps
<1>4. CASE opened' = [opened EXCEPT ![p] = Found] /\ UNCHANGED work
  <2>1. Handles' /\ opened'[p].in = "found"
    BY <1>1, <1>4 DEF IInv, Handles, Found
  <2> QED
    BY <1>1, <1>2, <1>4, <2>1, ClearingKeeps
<1> QED
  BY <1>3, <1>4 DEF FindPartial

LEMMA OpenPartialKeeps ==
  ASSUME IInv, NEW p \in setting.processes, OpenPartial(p)
  PROVE  IInv'
<1>1. Clears(p) /\ UNCHANGED <<setting, tool, inputs, started, out, unpublished>>
  BY DEF OpenPartial, counts
<1>2. /\ Directories'
      /\ (Alone /\ ~setting.rebuildsDuringRuns) => PublishedVerifies'
  BY <1>1, DirectoriesStay
<1>3. CASE Close(p) /\ (Cleared(p) \/ Fails(p))
  <2>1. Handles' /\ opened'[p] = Closed
    BY <1>1, <1>3 DEF IInv, Handles, Close, Closed
  <2> QED
    BY <1>1, <1>2, <1>3, <2>1, ClearedKeeps
<1>4. CASE /\ opened' = [opened EXCEPT ![p] = [in |-> "unpublished", files |-> {}, done |-> FALSE]]
           /\ UNCHANGED work
  <2>1. Handles' /\ opened'[p].in = "unpublished"
    BY <1>1, <1>4 DEF IInv, Handles
  <2> QED
    BY <1>1, <1>2, <1>4, <2>1, ClearingKeeps
<1> QED
  BY <1>3, <1>4 DEF OpenPartial

LEMMA OpenedIsNotOut ==
  ASSUME IInv, NEW p \in setting.processes, Alone, tool \in Atomic
  PROVE  opened[p].in # "out"
  BY DEF IInv, HandleIsOk

LEMMA ListPartialKeeps ==
  ASSUME IInv, NEW p \in setting.processes, ListPartial(p)
  PROVE  IInv'
<1>1. /\ Clears(p) /\ UNCHANGED <<setting, tool, inputs, started, out, unpublished, work>>
      /\ opened' = [opened EXCEPT ![p].files = DOMAIN Contents(opened[p].in), ![p].done = TRUE]
  BY DEF ListPartial, counts
<1>2. Handles' /\ opened'[p].in = opened[p].in
  BY <1>1 DEF IInv, Handles
<1> QED
  BY <1>1, <1>2, DirectoriesStay, ClearingKeeps, OpenedIsNotOut

LEMMA RemoveFileKeeps ==
  ASSUME IInv, NEW p \in setting.processes, RemoveFile(p)
  PROVE  IInv'
<1>1. Clears(p) /\ UNCHANGED <<setting, tool, inputs, started>>
  BY DEF RemoveFile, counts
<1>p. PICK place : place = opened[p].in
  OBVIOUS
<1>2. PICK f \in opened[p].files :
        IF f \in DOMAIN Contents(place)
        THEN /\ Put(place, Without(Contents(place), f))
             /\ opened' = [q \in setting.processes |->
                  IF q = p THEN [opened[p] EXCEPT !.files = @ \ {f}]
                  ELSE IF WritesTo(q, f, place) THEN [opened[q] EXCEPT !.in = "nowhere"]
                  ELSE opened[q]]
             /\ UNCHANGED work
        ELSE /\ \/ opened' = [opened EXCEPT ![p] = [opened[p] EXCEPT !.files = @ \ {f}]] /\ UNCHANGED work
                \/ At(p, {"clear"}) /\ Fails(p) /\ Close(p)
             /\ UNCHANGED <<out, unpublished>>
  BY <1>p DEF RemoveFile
<1>3. DOMAIN opened = setting.processes
      /\ \A q \in setting.processes : DOMAIN opened[q] = {"in", "files", "done"}
  BY DEF IInv, Handles
<1>4. CASE f \in DOMAIN Contents(place)
  <2>1. Handles' /\ opened'[p].in = place
    BY <1>1, <1>2, <1>3, <1>4, <1>p DEF Handles
  <2>2. /\ place \in {"out", "unpublished"}
        /\ place = "unpublished" => unpublished # NoDirectory
        /\ place = "out" => out # NoDirectory
    BY <1>4, ContentsAre
  <2> DEFINE d == Contents(place)
             w == Without(d, f)
  <2>3. FilesAreOk(tool, setting, started, Alone, d)
    BY <2>2 DEF IInv, Directories
  <2> HIDE DEF d
  <2>4. FilesAreOk(tool, setting, started, Alone, w) /\ w # NoDirectory
    BY <2>3, WithoutIsOk
  <2>5. Put(place, w)
    BY <1>2, <1>4 DEF d
  <2> HIDE DEF w
  <2>6. /\ (Contents(place))' = w
        /\ \A other \in {"out", "unpublished"} : other # place => (Contents(other))' = Contents(other)
        /\ place = "out" => out' = w /\ unpublished' = unpublished
        /\ place = "unpublished" => unpublished' = w /\ out' = out
    BY <2>2, <2>4, <2>5, PutContents
  <2>7. Alone /\ tool \in Atomic => place = "unpublished"
    BY <1>p, <2>2, OpenedIsNotOut
  <2>8. /\ FilesAreOk(tool, setting, started, Alone, (Contents("out"))')
        /\ FilesAreOk(tool, setting, started, Alone, (Contents("unpublished"))')
    BY <2>2, <2>4, <2>6 DEF IInv, Directories
  <2>9. /\ unpublished' # NoDirectory => tool \in Atomic \cup {"discovery"}
        /\ (Alone /\ tool \in Atomic /\ out' # NoDirectory) => Json \in DOMAIN out'
    BY <2>2, <2>6, <2>7 DEF IInv, Directories
  <2>10. Directories'
    BY <1>1, <2>8, <2>9, DirectoriesFollow
  <2>11. (Alone /\ ~setting.rebuildsDuringRuns) => PublishedVerifies'
    <3>1. CASE tool \in Atomic
      BY <1>1, <2>6, <2>7, <3>1, PublishedStays
    <3>2. CASE tool \notin Atomic
      BY <1>1, <3>2 DEF PublishedVerifies
    <3> QED
      BY <3>1, <3>2
  <2>12. Alone /\ tool \in Atomic => opened'[p].in # "out"
    BY <2>1, <2>7
  <2> QED
    BY <1>1, <1>2, <1>4, <2>1, <2>10, <2>11, <2>12, ClearingKeeps
<1>5. CASE f \notin DOMAIN Contents(place)
  <2>1. UNCHANGED <<out, unpublished>>
    BY <1>2, <1>5
  <2>2. Directories' /\ ((Alone /\ ~setting.rebuildsDuringRuns) => PublishedVerifies')
    BY <1>1, <2>1, DirectoriesStay
  <2>3. CASE Fails(p) /\ Close(p)
    <3>1. Handles' /\ opened'[p] = Closed
      BY <1>1, <2>3, ClosesKeeps DEF IInv
    <3> QED
      BY <1>1, <2>2, <2>3, <3>1, ClearedKeeps
  <2>4. CASE opened' = [opened EXCEPT ![p] = [opened[p] EXCEPT !.files = @ \ {f}]] /\ UNCHANGED work
    <3>1. Handles' /\ opened'[p].in = opened[p].in
      BY <1>1, <1>3, <2>4 DEF Handles
    <3> QED
      BY <1>1, <2>2, <2>4, <3>1, ClearingKeeps, OpenedIsNotOut
  <2> QED
    BY <1>2, <1>5, <2>3, <2>4
<1> QED
  BY <1>4, <1>5

LEMMA RemoveDirectoryKeeps ==
  ASSUME IInv, NEW p \in setting.processes, RemoveDirectory(p)
  PROVE  IInv'
<1>1. Clears(p) /\ UNCHANGED <<setting, tool, inputs, started, out>>
  BY DEF RemoveDirectory, counts
<1>2. CASE /\ unpublished' = NoDirectory /\ Cleared(p)
           /\ opened' = [q \in setting.processes |->
                IF q = p THEN Closed
                ELSE IF opened[q].in = "unpublished" THEN [opened[q] EXCEPT !.in = "nowhere"]
                ELSE opened[q]]
  <2>1. Handles' /\ opened'[p] = Closed
    BY <1>1, <1>2 DEF IInv, Handles, Closed
  <2>2. (Contents("unpublished"))' = NoFiles /\ (Contents("out"))' = Contents("out")
    BY <1>1, <1>2 DEF Contents
  <2>3. Directories'
    BY <1>1, <1>2, <2>2, NoFilesIsOk, DirectoriesFollow DEF IInv, Directories
  <2>4. (Alone /\ ~setting.rebuildsDuringRuns) => PublishedVerifies'
    BY <1>1, PublishedStays
  <2> QED
    BY <1>1, <1>2, <2>1, <2>3, <2>4, ClearedKeeps
<1>3. CASE /\ Fails(p) \/ Cleared(p)
           /\ Close(p) /\ UNCHANGED unpublished
  <2>1. Handles' /\ opened'[p] = Closed
    BY <1>1, <1>3, ClosesKeeps DEF IInv
  <2>2. Directories' /\ ((Alone /\ ~setting.rebuildsDuringRuns) => PublishedVerifies')
    BY <1>1, <1>3, DirectoriesStay
  <2> QED
    BY <1>1, <1>3, <2>1, <2>2, ClearedKeeps
<1> QED
  BY <1>2, <1>3 DEF RemoveDirectory

LEMMA MakePartialKeeps ==
  ASSUME IInv, NEW p \in setting.processes, MakePartial(p)
  PROVE  IInv'
<1>1. work[p].pc = "make" /\ UNCHANGED <<setting, tool, inputs, started, out, opened>>
  BY DEF MakePartial, At, counts
<1>2. work[p].pc \notin Rests \cup Writes \cup {"clear"} /\ work[p].pc \in BeforeRows \ {"identify"}
  BY <1>1 DEF Rests, Writes, BeforeRows
<1>3. CASE unpublished' = NoFiles /\ Goes(p, work[p])
  <2>1. tool \in Atomic
    BY <1>1, <1>2, RunAt, ToolsOfStages
  <2>2. (Contents("unpublished"))' = NoFiles /\ (Contents("out"))' = Contents("out")
    BY <1>1, <1>3, NoFilesIsOk DEF Contents
  <2>3. Directories'
    BY <1>1, <1>3, <2>1, <2>2, NoFilesIsOk, DirectoriesFollow DEF IInv, Directories
  <2>4. (Alone /\ ~setting.rebuildsDuringRuns) => PublishedVerifies'
    BY <1>1, PublishedStays
  <2>5. Handles' /\ (Alone => opened'[p] = Closed)
    BY <1>1, <1>2, RunAt DEF IInv, Handles
  <2> QED
    BY <1>1, <1>2, <1>3, <2>3, <2>4, <2>5, EarlyStepKeeps
<1>4. CASE Fails(p) /\ UNCHANGED unpublished
  BY <1>1, <1>2, <1>4, QuietFails DEF held
<1> QED
  BY <1>3, <1>4 DEF MakePartial

LEMMA MakeDirectoryKeeps ==
  ASSUME IInv, NEW p \in setting.processes, MakeDirectory(p)
  PROVE  IInv'
<1>1. /\ work[p].pc = "mkdir" /\ Goes(p, work[p]) /\ UNCHANGED <<setting, tool, inputs, started, opened>>
      /\ out' = IF out = NoDirectory THEN NoFiles ELSE out
      /\ unpublished' = IF tool = "discovery" /\ unpublished = NoDirectory THEN NoFiles ELSE unpublished
  BY DEF MakeDirectory, At, counts
<1>2. work[p].pc \notin Rests \cup Writes \cup {"clear"} /\ work[p].pc \in BeforeRows \ {"identify"}
  BY <1>1 DEF Rests, Writes, BeforeRows
<1>3. tool \notin Atomic
  BY <1>1, <1>2, RunAt, ToolsOfStages
<1>4. (Contents("unpublished"))' = Contents("unpublished") /\ (Contents("out"))' = Contents("out")
  BY <1>1, NoFilesIsOk DEF Contents
<1>5. Directories'
  BY <1>1, <1>3, <1>4, DirectoriesFollow DEF IInv, Directories
<1>6. (Alone /\ ~setting.rebuildsDuringRuns) => PublishedVerifies'
  BY <1>1, <1>3 DEF PublishedVerifies
<1>7. Handles' /\ (Alone => opened'[p] = Closed)
  BY <1>1, <1>2, RunAt DEF IInv, Handles
<1> QED
  BY <1>1, <1>2, <1>5, <1>6, <1>7, EarlyStepKeeps

LEMMA MeasureKeeps ==
  ASSUME IInv, NEW p \in setting.processes, Measure(p)
  PROVE  IInv'
<1>1. work[p].pc = "measure" /\ UNCHANGED <<setting, tool, inputs, started, held>>
  BY DEF Measure, At, counts
<1>0. work[p].pc \notin Rests \cup Writes \cup {"clear"} /\ work[p].pc \in Fills
  BY <1>1 DEF Rests, Writes, Fills
<1>2. /\ tool \in AllTools /\ started \in Nat /\ RunIsOk(tool, setting, started, work[p])
      /\ Alone => IsFilled(tool, Directory, work[p])
      /\ ~setting.rebuildsDuringRuns => InputsAre(tool, inputs, work[p])
      /\ Alone => DOMAIN work[p].seen = {}
  BY <1>0, <1>1, RunAt
<1>3. ASSUME NEW sound \in setting.soundness, NEW result \in setting.results,
             NEW row, row = [case |-> Cases(tool)[work[p].row], id |-> work[p].id, with |-> inputs,
                             sound |-> sound, result |-> result],
             Accepted(tool, row, work[p].identity),
             Goes(p, [work[p] EXCEPT !.rows = Append(@, row)])
      PROVE  IInv'
  <2> DEFINE r == [work[p] EXCEPT !.rows = Append(@, row)]
  <2>1. /\ DOMAIN work[p] = RunFields
        /\ work[p].id \in 1..started /\ work[p].pc \in StagesOf(tool) /\ work[p].row \in 1..Len(Cases(tool))
        /\ work[p].rows \in Seq(RowsOf(tool, setting)) /\ RowsAreOfRun(tool, work[p])
        /\ Len(work[p].rows) = work[p].row - 1
    BY <1>0, <1>1, <1>2 DEF RunIsOk
  <2>2. /\ r.pc = "measure" /\ r.row = work[p].row /\ r.rows = Append(work[p].rows, row) /\ r.id = work[p].id
        /\ r.identity = work[p].identity /\ DOMAIN r = RunFields /\ r.seen = work[p].seen
    BY <1>1, <2>1 DEF RunFields
  <2>3. work[p].row \in Nat \ {0} /\ DOMAIN Cases(tool) = 1..Len(Cases(tool))
    BY <1>2, <2>1, CasesLength
  <2>4. row \in RowsOf(tool, setting)
    <3>1. inputs \in [InputNames -> Nat] /\ work[p].id \in Nat
      BY <1>2, <2>1 DEF IInv, Settled
    <3>2. Cases(tool)[work[p].row] \in {Cases(tool)[i] : i \in DOMAIN Cases(tool)}
      BY <2>1, <2>3
    <3> QED
      BY <1>3, <3>1, <3>2 DEF RowsOf
  <2>5. WasFilled(tool, Directory', r) \/ ~Alone
    <3>1. Directory' = Directory
      BY <1>0, <1>1, QuietStep
    <3> QED
      BY <1>1, <1>2, <2>4, <3>1, MeasureFills
  <2> HIDE DEF r
  <2>6. r.rows \in Seq(RowsOf(tool, setting)) /\ Len(r.rows) = r.row
    BY <2>1, <2>2, <2>3, <2>4
  <2>7. RowsAreOfRun(tool, r)
    <3>1. ASSUME NEW i \in 1..Len(r.rows)
          PROVE  /\ r.rows[i].id = r.id /\ r.rows[i].case = Cases(tool)[i]
                 /\ Accepted(tool, r.rows[i], r.identity)
      <4>1. CASE i = work[p].row
        <5>1. r.rows[i] = row
          BY <2>1, <2>2, <2>3, <4>1
        <5>2. row.id = work[p].id /\ row.case = Cases(tool)[work[p].row]
          BY <1>3
        <5> QED
          BY <1>3, <2>2, <4>1, <5>1, <5>2
      <4>2. CASE i # work[p].row
        <5>1. i \in 1..Len(work[p].rows)
          BY <2>1, <2>2, <2>3, <2>6, <4>2
        <5>2. r.rows[i] = work[p].rows[i]
          BY <2>1, <2>2, <5>1
        <5> QED
          BY <2>1, <2>2, <5>1, <5>2 DEF RowsAreOfRun
      <4> QED
        BY <4>1, <4>2
    <3> QED
      BY <3>1 DEF RowsAreOfRun
  <2>8. HasDone(tool, setting, started, r)
    BY <1>1, <2>1, <2>2, <2>6, <2>7 DEF HasDone, BeforeRows, AfterRows
  <2>9. (~setting.rebuildsDuringRuns /\ tool \in Atomic) =>
           /\ r.identity = inputs["manifest"]
           /\ r.pc \in {"name", "write table", "digest table", "write summary", "publish"} => r.named = inputs
    BY <1>0, <1>1, <1>2, <2>2 DEF InputsAre
  <2>10. Goes(p, r)
    BY <1>3 DEF r
  <2> QED
    BY <1>0, <1>1, <1>2, <2>2, <2>5, <2>8, <2>9, <2>10, QuietStep, GoesKeeps
<1>4. CASE Fails(p)
  BY <1>0, <1>1, <1>4, QuietFails
<1> QED
  BY <1>3, <1>4 DEF Measure

\* A step may change what a run names and digests.
LEMMA SameRunHasDone ==
  ASSUME NEW t, NEW s, NEW n, NEW r, HasDone(t, s, n, r), NEW x, DOMAIN x = RunFields,
         x.id = r.id, x.pc = r.pc, x.row = r.row, x.rows = r.rows, x.identity = r.identity
  PROVE  HasDone(t, s, n, x)
  BY DEF HasDone, RowsAreOfRun

LEMMA CheckParityKeeps ==
  ASSUME IInv, NEW p \in setting.processes, CheckParity(p)
  PROVE  IInv'
<1>1. work[p].pc = "parity" /\ UNCHANGED <<setting, tool, inputs, started, held>>
  BY DEF CheckParity, At, counts
<1>0. work[p].pc \notin Rests \cup Writes \cup {"clear"} /\ work[p].pc \in Fills
  BY <1>1 DEF Rests, Writes, Fills
<1>2. /\ tool \in AllTools /\ started \in Nat /\ RunIsOk(tool, setting, started, work[p])
      /\ Alone => IsFilled(tool, Directory, work[p])
      /\ ~setting.rebuildsDuringRuns => InputsAre(tool, inputs, work[p])
      /\ Alone => DOMAIN work[p].seen = {}
  BY <1>0, <1>1, RunAt
<1>3. CASE Parity(tool, work[p].rows) /\ Goes(p, work[p])
  <2>1. HasDone(tool, setting, started, work[p])
    BY <1>0, <1>1, <1>2, <1>3 DEF RunIsOk, HasDone, BeforeRows, AfterRows
  <2>2. Alone => WasFilled(tool, Directory', work[p])
    <3>1. Directory' = Directory
      BY <1>0, <1>1, QuietStep
    <3> QED
      BY <1>1, <1>2, <3>1, OtherStepFills
  <2>3. (~setting.rebuildsDuringRuns /\ tool \in Atomic) =>
           /\ work[p].identity = inputs["manifest"]
           /\ work[p].pc \in {"name", "write table", "digest table", "write summary", "publish"}
                => work[p].named = inputs
    BY <1>0, <1>1, <1>2 DEF InputsAre
  <2> QED
    BY <1>0, <1>1, <1>2, <1>3, <2>1, <2>2, <2>3, QuietStep, GoesKeeps
<1>4. CASE Fails(p)
  BY <1>0, <1>1, <1>4, QuietFails
<1> QED
  BY <1>3, <1>4 DEF CheckParity

LEMMA NameInputsKeeps ==
  ASSUME IInv, NEW p \in setting.processes, NameInputs(p)
  PROVE  IInv'
<1> DEFINE r == [work[p] EXCEPT !.named = inputs]
<1>1. /\ work[p].pc = "name" /\ Goes(p, r)
      /\ UNCHANGED <<setting, tool, inputs, started, held>>
  BY DEF NameInputs, At, counts
<1>0. work[p].pc \notin Rests \cup Writes \cup {"clear"} /\ work[p].pc \in Fills
  BY <1>1 DEF Rests, Writes, Fills, TableSteps
<1>2. /\ tool \in AllTools /\ started \in Nat /\ HasDone(tool, setting, started, work[p])
      /\ Alone => IsFilled(tool, Directory, work[p])
      /\ ~setting.rebuildsDuringRuns => InputsAre(tool, inputs, work[p])
      /\ DOMAIN work[p] = RunFields
      /\ Alone => DOMAIN work[p].seen = {}
  BY <1>0, <1>1, RunAt
<1>3. /\ r.pc = "name" /\ r.row = work[p].row /\ r.rows = work[p].rows /\ r.id = work[p].id
      /\ r.identity = work[p].identity /\ r.digests = work[p].digests /\ r.named = inputs
      /\ r.seen = work[p].seen /\ DOMAIN r = RunFields
  BY <1>1, <1>2 DEF RunFields
<1> HIDE DEF r
<1>4. HasDone(tool, setting, started, r)
  BY <1>1, <1>2, <1>3, SameRunHasDone
<1>5. Alone => WasFilled(tool, Directory', r)
  <2>1. Directory' = Directory
    BY <1>0, <1>1, QuietStep
  <2> QED
    BY <1>1, <1>2, <1>3, <2>1, OtherStepFills
<1>6. (~setting.rebuildsDuringRuns /\ tool \in Atomic) => r.identity = inputs["manifest"]
  BY <1>0, <1>1, <1>2, <1>3 DEF InputsAre
<1> QED
  BY <1>0, <1>1, <1>2, <1>3, <1>4, <1>5, <1>6, QuietStep, GoesKeeps

LEMMA DigestKeeps ==
  ASSUME IInv, NEW p \in setting.processes, Digest(p)
  PROVE  IInv'
<1> DEFINE f == File(p)
           r == [work[p] EXCEPT !.digests = Writing(@, f, Directory[f])]
<1>1. work[p].pc \in Digests /\ UNCHANGED <<setting, tool, inputs, started, held>>
  BY DEF Digest, At, counts
<1>0. /\ work[p].pc \notin Rests \cup Writes \cup {"clear"} /\ work[p].pc \in Fills
      /\ work[p].pc \notin {"measure", "parity", "identify", "verify"}
  BY <1>1 DEF Digests, Rests, Writes, Fills, TableSteps
<1>2. /\ tool \in AllTools /\ started \in Nat /\ RunIsOk(tool, setting, started, work[p])
      /\ HasDone(tool, setting, started, work[p])
      /\ Alone => IsFilled(tool, Directory, work[p])
      /\ ~setting.rebuildsDuringRuns => InputsAre(tool, inputs, work[p])
      /\ DOMAIN work[p] = RunFields
      /\ Alone => DOMAIN work[p].seen = {}
  BY <1>0, RunAt
<1>3. CASE Fails(p)
  BY <1>0, <1>1, <1>3, QuietFails
<1>4. CASE Goes(p, r)
  <2>1. Directory' = Directory
    BY <1>0, <1>1, QuietStep
  <2>2. /\ r.pc = work[p].pc /\ r.row = work[p].row /\ r.rows = work[p].rows /\ r.id = work[p].id
        /\ r.identity = work[p].identity /\ r.named = work[p].named /\ r.seen = work[p].seen
        /\ DOMAIN r = RunFields
    BY <1>2 DEF RunFields
  <2>3. Alone => WasFilled(tool, Directory, r)
    <3>1. f = FileOf(work[p].pc, work[p].row)
      BY DEF File
    <3> HIDE DEF f
    <3> QED
      BY <1>1, <1>2, <3>1, DigestFills
  <2> HIDE DEF r
  <2>4. HasDone(tool, setting, started, r)
    BY <1>2, <2>2, SameRunHasDone
  <2>5. (~setting.rebuildsDuringRuns /\ tool \in Atomic) =>
           /\ r.identity = inputs["manifest"]
           /\ r.pc \in {"name", "write table", "digest table", "write summary", "publish"}
                => r.named = inputs
    BY <1>0, <1>1, <1>2, <2>2 DEF InputsAre, Digests
  <2> QED
    BY <1>0, <1>1, <1>2, <1>4, <2>1, <2>2, <2>3, <2>4, <2>5, QuietStep, GoesKeeps
<1> QED
  BY <1>3, <1>4 DEF Digest

\* A file that is opened is none of those the run has written.
LEMMA OpenFills ==
  ASSUME NEW r, NEW d, NEW n \in Nat, tool \in AllTools, HasDone(tool, setting, n, r), IsFilled(tool, d, r),
         r.pc \in Writes, NEW f, f = FileOf(r.pc, r.row), NEW content
  PROVE  IsFilled(tool, Writing(d, f, content), r)
<1> DEFINE w == Writing(d, f, content)
<1>1. r.pc \in StagesOf(tool) /\ r.row \in Nat \ {0}
  BY CasesLength DEF HasDone
<1>2. \A g, other : g # f /\ Has(d, g, other) => Has(w, g, other)
  BY WritingHas
<1> SUFFICES IsFilled(tool, w, r)
  OBVIOUS
<1> HIDE DEF w
<1>3. ASSUME tool \notin RowLess
      PROVE  \A i \in 1..RowsPast(r, {"write row"}) : <<"json", i>> # f
  <2>1. r.pc = "write row" => f = <<"json", r.row>> /\ RowsPast(r, {"write row"}) = r.row - 1
    BY DEF FileOf, RowsPast
  <2>2. r.pc # "write row" => \A i : <<"json", i>> # f
    BY FilesDiffer DEF FileOf, Writes
  <2>3. CASE r.pc = "write row"
    <3>1. \A i \in 1..r.row - 1 : i # r.row
      BY <1>1
    <3>2. \A i \in 1..r.row - 1 : <<"json", i>> # <<"json", r.row>>
      BY <3>1
    <3> QED
      BY <2>1, <2>3, <3>2
  <2> QED
    BY <2>2, <2>3
<1>4. ASSUME tool = "graph"
      PROVE  \A i \in 1..RowsPast(r, {"write row", "digest row", "write row table"}) : <<"csv", i>> # f
  <2>1. r.pc = "write row table" =>
          f = <<"csv", r.row>> /\ RowsPast(r, {"write row", "digest row", "write row table"}) = r.row - 1
    BY DEF FileOf, RowsPast
  <2>2. r.pc # "write row table" => \A i : <<"csv", i>> # f
    BY FilesDiffer DEF FileOf, Writes
  <2>3. CASE r.pc = "write row table"
    <3>1. \A i \in 1..r.row - 1 : i # r.row
      BY <1>1
    <3>2. \A i \in 1..r.row - 1 : <<"csv", i>> # <<"csv", r.row>>
      BY <3>1
    <3> QED
      BY <2>1, <2>3, <3>2
  <2> QED
    BY <2>2, <2>3
<1>5. r.pc \in TableWritten(tool) => Csv # f
  <2>1. r.pc # "write table" => Csv # f
    BY FilesDiffer DEF FileOf, Writes
  <2> QED
    BY <2>1 DEF TableWritten
<1>6. r.pc # "publish"
  BY DEF Writes
<1>7. /\ tool \notin RowLess =>
           \A i \in 1..RowsPast(r, {"write row"}) : Has(w, <<"json", i>>, r.rows[i])
      /\ tool = "graph" =>
           \A i \in 1..RowsPast(r, {"write row", "digest row", "write row table"}) :
             Has(w, <<"csv", i>>, r.rows[i])
  BY <1>2, <1>3, <1>4 DEF IsFilled, Filled
<1>8. r.pc \in TableWritten(tool) => Has(w, Csv, [rows |-> r.rows])
  BY <1>2, <1>5 DEF IsFilled, Filled
<1> QED
  BY <1>6, <1>7, <1>8 DEF IsFilled, Filled

\* What a run at one of its writing steps writes.
LEMMA WritesItsFile ==
  ASSUME IInv, NEW p \in setting.processes, work[p].pc \in Writes
  PROVE  /\ work[p].pc \notin Rests \cup {"clear", "clean", "measure", "parity", "identify", "verify"}
         /\ work[p].pc \in Fills
         /\ File(p) = FileOf(work[p].pc, work[p].row) /\ File(p) \in FilesOf(tool)
         /\ File(p) = Json => SummaryIsOk(tool, setting, started, Alone, Content(work[p], File(p)))
         /\ tool \in AllTools /\ started \in Nat /\ HasDone(tool, setting, started, work[p])
         /\ Alone => IsFilled(tool, Directory, work[p])
         /\ Alone => DOMAIN work[p].seen = {}
         /\ (~setting.rebuildsDuringRuns /\ tool \in Atomic) =>
              /\ work[p].identity = inputs["manifest"]
              /\ work[p].pc \in {"name", "write table", "digest table", "write summary", "publish"}
                   => work[p].named = inputs
<1>1. /\ work[p].pc \notin Rests \cup {"clear", "clean", "measure", "parity", "identify", "verify"}
      /\ work[p].pc \in Fills
  BY DEF Writes, Rests, Fills, TableSteps
<1>2. /\ tool \in AllTools /\ started \in Nat /\ RunIsOk(tool, setting, started, work[p])
      /\ HasDone(tool, setting, started, work[p])
      /\ Alone => IsFilled(tool, Directory, work[p])
      /\ ~setting.rebuildsDuringRuns => InputsAre(tool, inputs, work[p])
      /\ Alone => DOMAIN work[p].seen = {}
  BY <1>1, RunAt
<1>3. File(p) = FileOf(work[p].pc, work[p].row) /\ File(p) \in FilesOf(tool)
  BY <1>2, FileIsOfTool DEF File
<1>4. ASSUME File(p) = Json
      PROVE  SummaryIsOk(tool, setting, started, Alone, Content(work[p], File(p)))
  <2>1. work[p].pc = "write summary"
    BY <1>3, <1>4, FilesDiffer DEF FileOf, Writes
  <2>2. Content(work[p], Json) = SummaryOf(tool, work[p])
    BY FilesDiffer DEF Content, SummaryOf
  <2>3. (tool = "graph" /\ Alone) => Has(work[p].digests, Csv, [rows |-> work[p].rows])
    BY <1>2, <2>1 DEF IsFilled, Filled, TableDigested
  <2>4. SummaryIsOk(tool, setting, started, Alone, SummaryOf(tool, work[p]))
    BY <1>1, <1>2, <2>3, SummaryOfIsOk
  <2> QED
    BY <1>4, <2>2, <2>4
<1>5. (~setting.rebuildsDuringRuns /\ tool \in Atomic) =>
         /\ work[p].identity = inputs["manifest"]
         /\ work[p].pc \in {"name", "write table", "digest table", "write summary", "publish"}
              => work[p].named = inputs
  BY <1>1, <1>2 DEF InputsAre, Writes
<1> QED
  BY <1>1, <1>2, <1>3, <1>4, <1>5

LEMMA PutKeeps ==
  ASSUME IInv, UNCHANGED <<setting, tool, started>>, NEW place \in {"out", "unpublished"},
         NEW f \in FilesOf(tool), NEW content,
         f = Json /\ content \notin {Empty, Torn} => SummaryIsOk(tool, setting, started, Alone, content),
         Put(place, Writing(Contents(place), f, content)),
         place = "unpublished" => tool \in Atomic \cup {"discovery"},
         Alone /\ tool \in Atomic => place = "unpublished"
  PROVE  /\ Directories' /\ (Contents(place))' = Writing(Contents(place), f, content)
         /\ place # "out" => (Contents("out"))' = Contents("out") /\ out' = out
         /\ (Alone /\ ~setting.rebuildsDuringRuns) => PublishedVerifies'
<1> DEFINE w == Writing(Contents(place), f, content)
<1>1. FilesAreOk(tool, setting, started, Alone, Contents(place))
  BY DEF IInv, Directories
<1>2. FilesAreOk(tool, setting, started, Alone, w)
  <2> DEFINE d == Contents(place)
  <2>1. FilesAreOk(tool, setting, started, Alone, d)
    BY <1>1
  <2> HIDE DEF d
  <2> QED
    BY <2>1, WritingIsOk DEF d
<1>3. w # NoDirectory
  BY <1>2, OfFilesIsDirectory DEF FilesAreOk
<1> HIDE DEF w
<1>4. Put(place, w)
  BY DEF w
<1>5. /\ (Contents(place))' = w
      /\ \A other \in {"out", "unpublished"} : other # place => (Contents(other))' = Contents(other)
      /\ place = "out" => out' = w /\ unpublished' = unpublished
      /\ place = "unpublished" => unpublished' = w /\ out' = out
  BY <1>3, <1>4, PutContents
<1>6. /\ FilesAreOk(tool, setting, started, Alone, (Contents("out"))')
      /\ FilesAreOk(tool, setting, started, Alone, (Contents("unpublished"))')
  <2>1. CASE place = "out"
    BY <1>2, <1>5, <2>1 DEF IInv, Directories
  <2>2. CASE place = "unpublished"
    BY <1>2, <1>5, <2>2 DEF IInv, Directories
  <2> QED
    BY <2>1, <2>2
<1>7. Directories'
  BY <1>5, <1>6, DirectoriesFollow DEF IInv, Directories
<1>8. (Alone /\ ~setting.rebuildsDuringRuns) => PublishedVerifies'
  <2>1. CASE tool \in Atomic
    BY <1>5, <2>1, PublishedStays
  <2>2. CASE tool \notin Atomic
    BY <2>2 DEF PublishedVerifies
  <2> QED
    BY <2>1, <2>2
<1> QED
  BY <1>5, <1>7, <1>8 DEF w

\* Where a process writes, and where the run is filled.
LEMMA Places ==
  ASSUME tool \in AllTools
  PROVE  /\ Place \in {"out", "unpublished"}
         /\ Place = "unpublished" <=> tool \in Atomic \cup {"discovery"}
         /\ tool # "discovery" => Directory = Contents(Place)
         /\ tool = "discovery" => Directory = Contents("out") /\ Place = "unpublished"
<1>1. "discovery" \notin Atomic
  BY DEF Atomic
<1> QED
  BY <1>1 DEF Place, Directory

LEMMA OpenKeeps ==
  ASSUME IInv, NEW p \in setting.processes, Open(p)
  PROVE  IInv'
<1>1. work[p].pc \in Writes /\ opened[p] = Closed /\ UNCHANGED <<setting, tool, inputs, started>>
  BY DEF Open, At, counts
<1>2. PICK place : place = Place
  OBVIOUS
<1>3. PICK f : f = File(p)
  OBVIOUS
<1>4. /\ tool \in AllTools /\ started \in Nat /\ HasDone(tool, setting, started, work[p])
      /\ f = FileOf(work[p].pc, work[p].row) /\ f \in FilesOf(tool)
      /\ work[p].pc \notin Rests \cup {"clear", "clean", "verify"}
      /\ Alone => IsFilled(tool, Directory, work[p]) /\ DOMAIN work[p].seen = {}
  BY <1>1, <1>3, WritesItsFile
<1>5. /\ place \in {"out", "unpublished"}
      /\ place = "unpublished" <=> tool \in Atomic \cup {"discovery"}
      /\ tool # "discovery" => Directory = Contents(place)
      /\ tool = "discovery" => Directory = Contents("out") /\ place = "unpublished"
  BY <1>2, <1>4, Places
<1>6. CASE Fails(p) /\ UNCHANGED held
  <2>1. Handles' /\ opened'[p] = Closed
    BY <1>1, <1>6 DEF held, IInv, Handles
  <2>2. Directories' /\ ((Alone /\ ~setting.rebuildsDuringRuns) => PublishedVerifies')
    BY <1>1, <1>6, DirectoriesStay DEF held
  <2> QED
    BY <1>1, <1>6, <2>1, <2>2, FailsKeeps
<1>7. CASE /\ Put(place, Writing(Contents(place), f, Empty))
           /\ opened' = [opened EXCEPT ![p] = [in |-> place, files |-> {f}, done |-> FALSE]]
           /\ UNCHANGED work
  <2>1. Handles' /\ opened'[p] = [in |-> place, files |-> {f}, done |-> FALSE]
    BY <1>1, <1>7 DEF IInv, Handles
  <2>2. /\ Directories' /\ (Contents(place))' = Writing(Contents(place), f, Empty)
        /\ place # "out" => (Contents("out"))' = Contents("out") /\ out' = out
        /\ (Alone /\ ~setting.rebuildsDuringRuns) => PublishedVerifies'
    BY <1>1, <1>4, <1>5, <1>7, PutKeeps
  <2>3. /\ tool # "discovery" => Directory' = (Contents(place))'
        /\ tool = "discovery" => Directory' = (Contents("out"))'
        /\ (Contents(Place))' = (Contents(place))'
    <3>1. /\ tool' # "discovery" => Directory' = (Contents(Place))'
          /\ tool' = "discovery" => Directory' = (Contents("out"))'
          /\ Place' = Place
      BY <1>1, <1>4 DEF Directory, Place, Atomic
    <3> QED
      BY <1>1, <1>2, <3>1
  <2>4. Alone => IsFilled(tool, Directory', work[p])
    <3>1. CASE tool = "discovery"
      BY <1>4, <1>5, <2>2, <2>3, <3>1
    <3>2. CASE tool # "discovery"
      BY <1>1, <1>4, <1>5, <2>2, <2>3, <3>2, OpenFills
    <3> QED
      BY <3>1, <3>2
  <2>5. HandleIsOk(tool, Place, (Contents(Place))', opened'[p], work[p])
    <3> DEFINE d == (Contents(place))'
               e == Contents(place)
    <3>0. d = Writing(e, f, Empty)
      BY <2>2
    <3> HIDE DEF d, e
    <3>1. Has(d, f, Empty)
      BY <3>0, WritingHas
    <3>2. HandleIsOk(tool, place, d, [in |-> place, files |-> {f}, done |-> FALSE], work[p])
      BY <1>1, <1>4, <1>5, <3>1 DEF HandleIsOk
    <3> QED
      BY <1>2, <2>1, <2>3, <3>2 DEF d
  <2>6. Alone => SeenIsOk((Contents("out"))', work[p])
    BY <1>4 DEF SeenIsOk
  <2> QED
    BY <1>1, <1>7, <2>1, <2>2, <2>4, <2>5, <2>6, SameRunKeeps
<1> QED
  BY <1>2, <1>3, <1>6, <1>7 DEF Open


\* What a step that writes does to a directory; alone, a process writes the file
\* it has opened, and all of it.
LEMMA WrittenOut ==
  ASSUME IInv, NEW p \in setting.processes, WriteOut(p), NEW f, f = File(p)
  PROVE  /\ Directories' /\ ((Alone /\ ~setting.rebuildsDuringRuns) => PublishedVerifies')
         /\ Alone => /\ (Contents(Place))' = Writing(Contents(Place), f, Content(work[p], f))
                     /\ Place # "out" => (Contents("out"))' = Contents("out")
<1>1. work[p].pc \in Writes /\ UNCHANGED <<setting, tool, inputs, started>>
      /\ opened[p] # Closed /\ ~opened[p].done
  BY DEF WriteOut, At, counts
<1>2. PICK place : place = opened[p].in
  OBVIOUS
<1>3. PICK c : c = Content(work[p], f)
  OBVIOUS
<1>4. /\ tool \in AllTools /\ f = FileOf(work[p].pc, work[p].row) /\ f \in FilesOf(tool)
      /\ f = Json => SummaryIsOk(tool, setting, started, Alone, c)
  BY <1>1, <1>3, WritesItsFile
<1>5. IF f \in DOMAIN Contents(place)
      THEN \E content \in {c} \cup (IF /\ \A q \in setting.processes \ {p} : ~WritesTo(q, f, place)
                                       /\ Contents(place)[f] = Empty THEN {} ELSE {Torn}) :
             Put(place, Writing(Contents(place), f, content))
      ELSE UNCHANGED <<out, unpublished>>
  BY <1>2, <1>3 DEF WriteOut
<1>6. Alone => place = Place /\ Has(Contents(place), f, Empty)
  <2>1. Alone => HandleIsOk(tool, Place, Contents(Place), opened[p], work[p])
    BY DEF IInv
  <2>2. Alone => place = Place /\ Has(Contents(Place), f, Empty)
    BY <1>1, <1>2, <1>4, <2>1 DEF HandleIsOk
  <2> QED
    BY <2>2
<1>7. CASE f \in DOMAIN Contents(place)
  <2>1. PICK content \in {c, Torn} :
          /\ Put(place, Writing(Contents(place), f, content))
          /\ content = Torn => c = Torn \/ ~(/\ \A q \in setting.processes \ {p} : ~WritesTo(q, f, place)
                                            /\ Contents(place)[f] = Empty)
    BY <1>5, <1>7
  <2>2. /\ place \in {"out", "unpublished"}
        /\ place = "unpublished" => unpublished # NoDirectory
    BY <1>7, ContentsAre
  <2>3. place = "unpublished" => tool \in Atomic \cup {"discovery"}
    BY <2>2 DEF IInv, Directories
  <2>4. Alone /\ tool \in Atomic => place = "unpublished"
    BY <1>2, <2>2, OpenedIsNotOut
  <2>5. f = Json /\ content \notin {Empty, Torn} => SummaryIsOk(tool, setting, started, Alone, content)
    BY <1>4, <2>1
  <2>6. /\ Directories' /\ (Contents(place))' = Writing(Contents(place), f, content)
        /\ place # "out" => (Contents("out"))' = Contents("out") /\ out' = out
        /\ (Alone /\ ~setting.rebuildsDuringRuns) => PublishedVerifies'
    BY <1>1, <1>4, <2>1, <2>2, <2>3, <2>4, <2>5, PutKeeps
  <2>7. Alone => content = c
    <3>1. Alone => \A q \in setting.processes \ {p} : ~WritesTo(q, f, place)
      BY DEF Alone
    <3> QED
      BY <1>6, <2>1, <3>1 DEF Has
  <2>8. Alone => (Contents(Place))' = (Contents(place))' /\ Contents(Place) = Contents(place)
    <3>1. Place' = Place
      BY <1>1 DEF Place
    <3> QED
      BY <1>6, <3>1
  <2> QED
    BY <1>3, <1>6, <2>6, <2>7, <2>8
<1>8. CASE f \notin DOMAIN Contents(place)
  <2>1. ~Alone
    BY <1>6, <1>8 DEF Has
  <2>2. UNCHANGED <<out, unpublished>>
    BY <1>5, <1>8
  <2> QED
    BY <1>1, <2>1, <2>2, DirectoriesStay
<1> QED
  BY <1>7, <1>8

LEMMA WriteOutKeeps ==
  ASSUME IInv, NEW p \in setting.processes, WriteOut(p)
  PROVE  IInv'
<1>1. work[p].pc \in Writes /\ UNCHANGED <<setting, tool, inputs, started>>
  BY DEF WriteOut, At, counts
<1>2. PICK f : f = File(p)
  OBVIOUS
<1>3. /\ Directories' /\ ((Alone /\ ~setting.rebuildsDuringRuns) => PublishedVerifies')
      /\ Alone => /\ (Contents(Place))' = Writing(Contents(Place), f, Content(work[p], f))
                  /\ Place # "out" => (Contents("out"))' = Contents("out")
  BY <1>2, WrittenOut
<1>4. /\ tool \in AllTools /\ started \in Nat /\ HasDone(tool, setting, started, work[p])
      /\ f = FileOf(work[p].pc, work[p].row)
      /\ work[p].pc \notin Rests \cup {"clear", "clean", "verify"}
      /\ Alone => IsFilled(tool, Directory, work[p])
      /\ Alone => DOMAIN work[p].seen = {}
      /\ (~setting.rebuildsDuringRuns /\ tool \in Atomic) =>
           /\ work[p].identity = inputs["manifest"]
           /\ work[p].pc \in {"name", "write table", "digest table", "write summary", "publish"}
                => work[p].named = inputs
  BY <1>1, <1>2, WritesItsFile
<1>5. /\ tool # "discovery" => Directory = Contents(Place)
      /\ tool = "discovery" => Directory = Contents("out") /\ Place = "unpublished"
      /\ tool # "discovery" => Directory' = (Contents(Place))'
      /\ tool = "discovery" => Directory' = (Contents("out"))'
  <2>1. /\ tool' # "discovery" => Directory' = (Contents(Place))'
        /\ tool' = "discovery" => Directory' = (Contents("out"))'
    BY <1>1, <1>4 DEF Directory, Place, Atomic
  <2> QED
    BY <1>1, <1>4, <2>1, Places
<1>6. CASE tool # "discovery"
  <2>1. Close(p) /\ Goes(p, work[p])
    BY <1>6 DEF WriteOut
  <2>2. Handles' /\ opened'[p] = Closed
    BY <1>1, <2>1, ClosesKeeps DEF IInv
  <2>3. Alone => WasFilled(tool, Directory', work[p])
    BY <1>1, <1>3, <1>4, <1>5, <1>6, WriteFills
  <2> QED
    BY <1>1, <1>3, <1>4, <2>1, <2>2, <2>3, GoesKeeps
<1>7. CASE tool = "discovery"
  <2> DEFINE h == [in |-> "closed", files |-> {f}, done |-> TRUE]
  <2>1. opened' = [opened EXCEPT ![p] = h] /\ UNCHANGED work
    BY <1>2, <1>7 DEF WriteOut
  <2>2. Handles' /\ opened'[p] = h
    BY <1>1, <2>1 DEF IInv, Handles
  <2>3. Alone => IsFilled(tool, Directory', work[p])
    BY <1>3, <1>4, <1>5, <1>7
  <2>4. Alone => HandleIsOk(tool, Place, (Contents(Place))', opened'[p], work[p])
    <3> DEFINE d == (Contents(Place))'
               e == Contents(Place)
    <3>1. Alone => d = Writing(e, f, Content(work[p], f))
      BY <1>3
    <3> HIDE DEF d, e
    <3>2. Alone => Has(d, f, ContentOf(tool, work[p], f))
      <4>1. Content(work[p], f) = ContentOf(tool, work[p], f)
        BY ContentIs
      <4>2. \A c : Has(Writing(e, f, c), f, c)
        BY WritingHas
      <4> QED
        BY <3>1, <4>1, <4>2
    <3>3. tool \notin Atomic
      BY <1>7 DEF Atomic
    <3>4. Alone => HandleIsOk(tool, Place, d, h, work[p])
      BY <1>1, <1>4, <1>7, <3>2, <3>3 DEF HandleIsOk
    <3> QED
      BY <2>2, <3>4 DEF d
  <2>5. Alone => SeenIsOk((Contents("out"))', work[p])
    BY <1>4 DEF SeenIsOk
  <2> HIDE DEF h
  <2> QED
    BY <1>1, <1>3, <2>1, <2>2, <2>3, <2>4, <2>5, SameRunKeeps
<1> QED
  BY <1>6, <1>7

LEMMA RenameKeeps ==
  ASSUME IInv, NEW p \in setting.processes, Rename(p)
  PROVE  IInv'
<1>1. work[p].pc \in Writes /\ opened[p].done /\ UNCHANGED <<setting, tool, inputs, started>>
  BY DEF Rename, At, counts
<1>2. PICK f : f = File(p)
  OBVIOUS
<1>3. /\ tool \in AllTools /\ started \in Nat /\ HasDone(tool, setting, started, work[p])
      /\ f = FileOf(work[p].pc, work[p].row) /\ f \in FilesOf(tool)
      /\ Alone => IsFilled(tool, Directory, work[p])
      /\ Alone => DOMAIN work[p].seen = {}
      /\ (~setting.rebuildsDuringRuns /\ tool \in Atomic) =>
           /\ work[p].identity = inputs["manifest"]
           /\ work[p].pc \in {"name", "write table", "digest table", "write summary", "publish"}
                => work[p].named = inputs
  BY <1>1, <1>2, WritesItsFile
<1>4. PICK source : source = Contents("unpublished")
  OBVIOUS
<1>5. PICK old : old = Contents("out")
  OBVIOUS
<1>6. FilesAreOk(tool, setting, started, Alone, source) /\ FilesAreOk(tool, setting, started, Alone, old)
  BY <1>4, <1>5 DEF IInv, Directories
<1>7. Alone => tool = "discovery" /\ Has(source, f, Content(work[p], f))
  <2>1. opened[p] # Closed
    BY <1>1 DEF Closed
  <2>2. Alone => HandleIsOk(tool, Place, Contents(Place), opened[p], work[p])
    BY DEF IInv
  <2>3. Alone => tool = "discovery" /\ Has(Contents(Place), f, ContentOf(tool, work[p], f))
    BY <1>1, <1>3, <2>1, <2>2 DEF HandleIsOk
  <2> QED
    BY <1>3, <1>4, <2>3, Places, ContentIs
<1>8. "discovery" \notin Atomic
  BY DEF Atomic
<1>9. CASE f \in DOMAIN source
  <2> DEFINE e == Writing(old, f, source[f])
             w == Without(source, f)
  <2>1. /\ out' = e /\ unpublished' = w /\ Goes(p, work[p])
        /\ opened' = [q \in setting.processes |->
             IF q = p THEN Closed
             ELSE IF f \in opened[q].files THEN Moved(opened[q]) ELSE opened[q]]
    BY <1>2, <1>4, <1>5, <1>9 DEF Rename
  <2>2. unpublished # NoDirectory
    BY <1>4, <1>9, ContentsAre
  <2>3. FilesAreOk(tool, setting, started, Alone, w) /\ w # NoDirectory
    BY <1>6, WithoutIsOk
  <2>4. FilesAreOk(tool, setting, started, Alone, e)
    <3>1. (f = Json /\ source[f] \notin {Empty, Torn}) => SummaryIsOk(tool, setting, started, Alone, source[f])
      BY <1>6, <1>9 DEF FilesAreOk, Holds
    <3> QED
      BY <1>3, <1>6, <3>1, WritingIsOk
  <2>5. e # NoDirectory
    BY <2>4, OfFilesIsDirectory DEF FilesAreOk
  <2>6. Alone => e = Writing(old, f, Content(work[p], f))
    BY <1>7 DEF Has
  <2> HIDE DEF e, w
  <2>7. (Contents("out"))' = e /\ (Contents("unpublished"))' = w
    BY <2>1, <2>3, <2>5 DEF Contents
  <2>8. Directories'
    BY <1>1, <1>7, <1>8, <2>2, <2>3, <2>4, <2>7, DirectoriesFollow DEF IInv, Directories
  <2>9. (Alone /\ ~setting.rebuildsDuringRuns) => PublishedVerifies'
    BY <1>1, <1>7, <1>8 DEF PublishedVerifies
  <2>10. Alone => WasFilled(tool, Directory', work[p])
    <3>1. Alone => Directory = old /\ Directory' = e
      BY <1>1, <1>5, <1>7, <1>8, <2>7 DEF Directory
    <3>2. Alone => WasFilled(tool, Writing(old, f, Content(work[p], f)), work[p])
      BY <1>1, <1>3, <3>1, WriteFills
    <3> QED
      BY <2>6, <3>1, <3>2
  <2>11. Handles' /\ opened'[p] = Closed
    <3>1. \A h : DOMAIN Moved(h) = DOMAIN h
      BY DEF Moved
    <3> QED
      BY <1>1, <2>1, <3>1 DEF IInv, Handles, Closed
  <2> QED
    BY <1>1, <1>3, <2>1, <2>8, <2>9, <2>10, <2>11, GoesKeeps
<1>10. CASE f \notin DOMAIN source
  <2>1. Fails(p) /\ Close(p) /\ UNCHANGED <<out, unpublished>>
    BY <1>2, <1>4, <1>10 DEF Rename
  <2>2. Handles' /\ opened'[p] = Closed
    BY <1>1, <2>1, ClosesKeeps DEF IInv
  <2>3. Directories' /\ ((Alone /\ ~setting.rebuildsDuringRuns) => PublishedVerifies')
    BY <1>1, <2>1, DirectoriesStay
  <2> QED
    BY <1>1, <2>1, <2>2, <2>3, FailsKeeps
<1> QED
  BY <1>9, <1>10

\* What a run of an atomic tool publishes, and what one that does not verify
\* has written when it ends, its verifier accepts for the inputs it names.
LEMMA FilledVerifies ==
  ASSUME IInv, NEW p \in setting.processes, NEW d,
         \/ work[p].pc = "publish" /\ IsFilled(tool, d, work[p])
         \/ work[p].pc = "write summary" /\ WasFilled(tool, d, work[p]) /\ tool \in Unverified,
         tool \in Atomic => ~setting.rebuildsDuringRuns
  PROVE  Holds(d, Json) /\ Verifies(tool, d, Summary(d).named)
<1> DEFINE r == work[p]
<1>0. r.pc \notin Rests
  BY DEF Rests
<1>1. /\ tool \in AllTools /\ RunIsOk(tool, setting, started, r)
      /\ ~setting.rebuildsDuringRuns => InputsAre(tool, inputs, r)
  BY <1>0, RunAt
<1>2. Complete(tool, d, r)
  BY <1>1, FilledIsComplete
<1>3. /\ r.rows \in Seq(RowsOf(tool, setting)) /\ RowsAreOfRun(tool, r) /\ Parity(tool, r.rows)
      /\ Len(r.rows) = Len(Cases(tool)) /\ r.pc \in StagesOf(tool)
  BY <1>0, <1>1 DEF RunIsOk, BeforeRows, AfterRows
<1>4. tool \in Atomic \cup Unverified
  BY <1>1, <1>3 DEF StagesOf, AllTools, Atomic, Unverified, OracleTools, RowSteps, TableSteps
<1>5. tool \in Atomic => r.identity = r.named["manifest"] /\ r.identity = r.named["oracle"]
  BY <1>0, <1>1 DEF InputsAre, IInv, Settled
<1> HIDE DEF r
<1> QED
  BY <1>2, <1>3, <1>4, <1>5, CompleteVerifies

\* The stage after publishing is to read back, and the last.
LEMMA AfterPublish ==
  ASSUME tool \in AllTools, NEW n, NEW r, HasDone(tool, setting, n, r)
  PROVE  /\ r.pc = "publish" => Advanced(r).pc = "verify"
         /\ r.pc = "verify" => Advanced(r).pc = "idle"
<1>1. DOMAIN r = RunFields /\ r.pc \in StagesOf(tool) /\ r.row \in 1..Len(Cases(tool))
  BY DEF HasDone
<1>2. Advanced(r).pc = Follows(tool, r.pc, r.row < Len(Cases(tool)))
  BY <1>1, AdvancedFields
<1> QED
  BY <1>2 DEF Follows

LEMMA PublishKeeps ==
  ASSUME IInv, NEW p \in setting.processes, Publish(p)
  PROVE  IInv'
<1>1. work[p].pc = "publish" /\ UNCHANGED <<setting, tool, inputs, started>>
  BY DEF Publish, At, counts
<1>0. work[p].pc \notin Rests \cup Writes \cup {"clear", "measure", "parity", "verify"} /\ work[p].pc \in Fills
  BY <1>1 DEF Rests, Writes, Fills
<1>2. /\ tool \in AllTools /\ started \in Nat /\ RunIsOk(tool, setting, started, work[p])
      /\ HasDone(tool, setting, started, work[p]) /\ work[p].pc \in StagesOf(tool)
      /\ Alone => IsFilled(tool, Directory, work[p])
      /\ ~setting.rebuildsDuringRuns => InputsAre(tool, inputs, work[p])
      /\ Alone => opened[p] = Closed
      /\ Alone => DOMAIN work[p].seen = {}
  BY <1>0, RunAt
<1>3. CASE Fails(p) /\ UNCHANGED held
  BY <1>0, <1>1, <1>3, QuietFails
<1>4. CASE /\ unpublished # NoDirectory /\ out' = unpublished /\ unpublished' = NoDirectory
           /\ opened' = [q \in setting.processes |-> Moved(opened[q])] /\ Goes(p, work[p])
  <2>1. tool \in Atomic
    BY <1>1, <1>2, ToolsOfStages
  <2>2. Advanced(work[p]).pc \notin Fills
    BY <1>1, <1>2, AfterPublish DEF Fills, TableSteps
  <2>3. Directory = unpublished /\ Contents("unpublished") = unpublished
    BY <1>4, <2>1 DEF Directory, Contents
  <2>4. (Alone /\ ~setting.rebuildsDuringRuns) => PublishedVerifies'
    <3>1. (Alone /\ ~setting.rebuildsDuringRuns) =>
            Holds(unpublished, Json) /\ Verifies(tool, unpublished, Summary(unpublished).named)
      BY <1>1, <1>2, <2>3, FilledVerifies
    <3> QED
      BY <1>1, <1>4, <3>1 DEF PublishedVerifies
  <2>5. Alone => Json \in DOMAIN unpublished
    BY <1>1, <1>2, <2>3, FilledIsComplete DEF Complete, Has
  <2>6. (Contents("out"))' = unpublished /\ (Contents("unpublished"))' = NoFiles
    BY <1>4 DEF Contents
  <2>7. Directories'
    <3>1. FilesAreOk(tool, setting, started, Alone, unpublished)
      BY <2>3 DEF IInv, Directories
    <3> QED
      BY <1>1, <1>4, <2>5, <2>6, <3>1, NoFilesIsOk, DirectoriesFollow
  <2>8. /\ Handles'
        /\ Alone => opened'[p] = Closed
    <3>1. \A h : DOMAIN Moved(h) = DOMAIN h
      BY DEF Moved
    <3>2. Moved(Closed) = Closed
      BY DEF Moved, Closed
    <3> QED
      BY <1>1, <1>2, <1>4, <3>1, <3>2 DEF IInv, Handles
  <2>9. (~setting.rebuildsDuringRuns /\ tool \in Atomic) =>
           /\ work[p].identity = inputs["manifest"]
           /\ work[p].pc \in {"name", "write table", "digest table", "write summary", "publish"}
                => work[p].named = inputs
    BY <1>0, <1>1, <1>2 DEF InputsAre
  <2> QED
    BY <1>1, <1>2, <1>4, <2>2, <2>4, <2>7, <2>8, <2>9, GoesKeeps
<1> QED
  BY <1>3, <1>4 DEF Publish

\* A file that is read back is seen as it is.
LEMMA ReadSees ==
  ASSUME IInv, NEW p \in setting.processes, work[p].pc = "verify", NEW f, f \in DOMAIN Contents("out"),
         NEW x, x = Read(work[p], f)
  PROVE  /\ DOMAIN x = RunFields /\ x.pc = "verify" /\ x.id = work[p].id /\ x.row = work[p].row
         /\ x.rows = work[p].rows /\ x.identity = work[p].identity /\ x.named = work[p].named
         /\ x.end = work[p].end
         /\ Alone => \A g \in DOMAIN x.seen : Has(Contents("out"), g, x.seen[g])
<1>1. DOMAIN work[p] = RunFields
  BY RunAt DEF Rests
<1>2. /\ DOMAIN x = RunFields /\ x.pc = "verify" /\ x.id = work[p].id /\ x.row = work[p].row
      /\ x.rows = work[p].rows /\ x.identity = work[p].identity /\ x.named = work[p].named
      /\ x.end = work[p].end
      /\ x.seen = Writing(work[p].seen, f, out[f])
  BY <1>1 DEF Read, RunFields
<1>3. Contents("out") = out
  BY ContentsAre
<1>4. Alone => \A g \in DOMAIN work[p].seen : Has(out, g, work[p].seen[g])
  BY <1>3 DEF IInv, SeenIsOk
<1>5. Alone => \A g \in DOMAIN x.seen : Has(out, g, x.seen[g])
  BY <1>2, <1>3, <1>4 DEF Writing, Has
<1> QED
  BY <1>2, <1>3, <1>5

LEMMA ReadBackKeeps ==
  ASSUME IInv, NEW p \in setting.processes, ReadBack(p)
  PROVE  IInv'
<1>1. work[p].pc = "verify" /\ UNCHANGED <<setting, tool, inputs, started, held>>
  BY DEF ReadBack, At, counts
<1>0. work[p].pc \notin Rests \cup Writes \cup {"clear", "measure", "parity"}
  BY <1>1 DEF Rests, Writes
<1>2. /\ tool \in AllTools /\ started \in Nat /\ HasDone(tool, setting, started, work[p])
      /\ RunIsOk(tool, setting, started, work[p])
      /\ ~setting.rebuildsDuringRuns => InputsAre(tool, inputs, work[p])
      /\ Alone => opened[p] = Closed
  BY <1>0, RunAt
<1>3. PICK f : f = NextFile(work[p])
  OBVIOUS
<1>4. PICK x : x = Read(work[p], f)
  OBVIOUS
<1>5. CASE Fails(p)
  BY <1>0, <1>1, <1>5, QuietFails
<1>6. CASE f \in DOMAIN Contents("out") /\ (work' = [work EXCEPT ![p] = x] \/ Goes(p, x))
  <2>1. /\ DOMAIN x = RunFields /\ x.pc = "verify" /\ x.id = work[p].id /\ x.row = work[p].row
        /\ x.rows = work[p].rows /\ x.identity = work[p].identity /\ x.named = work[p].named
        /\ x.end = work[p].end
        /\ Alone => \A g \in DOMAIN x.seen : Has(Contents("out"), g, x.seen[g])
    BY <1>1, <1>4, <1>6, ReadSees
  <2>2. HasDone(tool, setting, started, x)
    BY <1>1, <1>2, <2>1, SameRunHasDone
  <2>3. ~setting.rebuildsDuringRuns => InputsAre(tool, inputs, x)
    BY <1>1, <1>2, <2>1 DEF InputsAre
  <2>4. CASE work' = [work EXCEPT ![p] = x]
    <3>1. RunIsOk(tool, setting, started, x)
      BY <2>1, <2>2 DEF HasDone, RunIsOk, BeforeRows, AfterRows
    <3>2. x.pc \notin Fills
      BY <2>1 DEF Fills, TableSteps
    <3>3. Alone => SeenIsOk((Contents("out"))', x)
      <4>1. (Contents("out"))' = Contents("out")
        BY <1>0, <1>1, QuietStep
      <4> QED
        BY <2>1, <4>1 DEF SeenIsOk
    <3>4. Alone => HandleIsOk(tool, Place, (Contents(Place))', opened'[p], x)
      BY <1>0, <1>1, QuietStep, ClosedIsOk
    <3>5. /\ DOMAIN work' = setting.processes
          /\ \A q \in setting.processes : work'[q] = IF q = p THEN x ELSE work[q]
      BY <2>4, WorkOf DEF IInv
    <3> QED
      BY <1>0, <1>1, <2>3, <3>1, <3>2, <3>3, <3>4, <3>5, QuietStep, StepKeeps
  <2>5. CASE Goes(p, x)
    <3>1. Advanced(x).pc = "idle" /\ "idle" \notin Fills
      BY <1>2, <2>1, <2>2, AfterPublish DEF Fills, TableSteps
    <3>2. (~setting.rebuildsDuringRuns /\ tool \in Atomic) =>
             /\ x.identity = inputs["manifest"]
             /\ x.pc \in {"name", "write table", "digest table", "write summary", "publish"} => x.named = inputs
      BY <2>1, <2>3 DEF InputsAre, Rests
    <3> QED
      BY <1>0, <1>1, <2>2, <2>5, <3>1, <3>2, QuietStep, GoesKeeps
  <2> QED
    BY <1>6, <2>4, <2>5
<1> QED
  BY <1>3, <1>4, <1>5, <1>6 DEF ReadBack

LEMMA KillKeeps ==
  ASSUME IInv, NEW p \in setting.processes, Kill(p)
  PROVE  IInv'
<1>1. /\ UNCHANGED <<setting, tool, inputs, started>> /\ Close(p)
      /\ work' = [work EXCEPT ![p].pc = "idle", ![p].end = "killed"]
  BY DEF Kill
<1>2. PICK place : place = opened[p].in
  OBVIOUS
<1>3. PICK f : f = File(p)
  OBVIOUS
<1>4. \/ /\ work[p].pc \in Writes /\ f \in DOMAIN Contents(place)
         /\ Put(place, Writing(Contents(place), f, Torn))
      \/ UNCHANGED <<out, unpublished>>
  BY <1>2, <1>3 DEF Kill, At
<1>5. Directories' /\ ((Alone /\ ~setting.rebuildsDuringRuns) => PublishedVerifies')
  <2>1. CASE /\ work[p].pc \in Writes /\ f \in DOMAIN Contents(place)
             /\ Put(place, Writing(Contents(place), f, Torn))
    <3>1. f \in FilesOf(tool)
      BY <1>3, <2>1, WritesItsFile
    <3>2. /\ place \in {"out", "unpublished"}
          /\ place = "unpublished" => unpublished # NoDirectory
      BY <2>1, ContentsAre
    <3>3. place = "unpublished" => tool \in Atomic \cup {"discovery"}
      BY <3>2 DEF IInv, Directories
    <3>4. Alone /\ tool \in Atomic => place = "unpublished"
      BY <1>2, <3>2, OpenedIsNotOut
    <3> QED
      BY <1>1, <2>1, <3>1, <3>2, <3>3, <3>4, PutKeeps
  <2>2. CASE UNCHANGED <<out, unpublished>>
    BY <1>1, <2>2, DirectoriesStay
  <2> QED
    BY <1>4, <2>1, <2>2
<1>6. Handles' /\ opened'[p] = Closed
  BY <1>1, ClosesKeeps DEF IInv
<1>7. "idle" \in Rests
  BY DEF Rests
<1> QED
  BY <1>1, <1>5, <1>6, <1>7, RestsKeeps

LEMMA StartRunKeeps ==
  ASSUME IInv, NEW p \in setting.processes, Start(p)
  PROVE  IInv'
<1> DEFINE x == Begun(started + 1, After(tool, "start", TRUE))
<1>1. /\ UNCHANGED <<setting, tool, inputs, out, unpublished, opened>> /\ started' = started + 1
      /\ work' = [work EXCEPT ![p] = x] /\ work[p].pc = "idle"
  BY DEF Start, Begun, held, Idle
<1>2. tool \in AllTools /\ started \in Nat /\ DOMAIN work = setting.processes
  BY ToolIsKnown DEF IInv, Settled
<1>3. x.pc \in StagesOf(tool) \cap {"identify", "mkdir"}
  <2>1. After(tool, "start", TRUE) = Follows(tool, "start", TRUE)
    BY <1>2, AfterFollows
  <2>2. "measure" \in StagesOf(tool)
    BY <1>2 DEF StagesOf, AllTools, Atomic, OracleTools, RowSteps
  <2>3. Follows(tool, "start", TRUE) \in StagesOf(tool) \cap {"identify", "mkdir"}
    BY <1>2, <2>2, FollowsStays
  <2> QED
    BY <2>1, <2>3 DEF Begun
<1>4. /\ DOMAIN x = RunFields /\ x.id = started + 1 /\ x.row = 1 /\ x.rows = <<>> /\ DOMAIN x.seen = {}
  BY DEF Begun, RunFields, NoFiles
<1> HIDE DEF x
<1>5. RunIsOk(tool, setting, started + 1, x)
  <2>1. Len(Cases(tool)) \in Nat \ {0}
    BY <1>2, CasesLength
  <2>2. RowsAreOfRun(tool, x)
    BY <1>4 DEF RowsAreOfRun
  <2>3. x.rows \in Seq(RowsOf(tool, setting)) /\ Len(x.rows) = 0
    BY <1>4
  <2>4. /\ x.id \in 1..started + 1 /\ x.row \in 1..Len(Cases(tool))
        /\ x.pc \in BeforeRows /\ x.pc \notin AfterRows /\ x.pc # "clean"
    <3>1. x.pc \in BeforeRows /\ x.pc \notin AfterRows /\ x.pc # "clean"
      BY <1>3 DEF BeforeRows, AfterRows
    <3>2. x.row \in 1..Len(Cases(tool))
      BY <1>4, <2>1
    <3> QED
      BY <1>2, <1>4, <3>1, <3>2
  <2> QED
    BY <1>3, <1>4, <2>2, <2>3, <2>4 DEF RunIsOk
<1>6. x.pc \notin Fills
  BY <1>3 DEF Fills, TableSteps
<1>7. tool \in Atomic => x.pc = "identify"
  BY <1>2, <1>3, ToolsOfStages
<1>8. InputsAre(tool, inputs, x)
  BY <1>7 DEF InputsAre
<1>9. (Alone' <=> Alone) /\ (Contents("out"))' = Contents("out") /\ (Contents("unpublished"))' = Contents("unpublished")
  BY <1>1 DEF Alone, Contents
<1>10. Settled' /\ Handles'
  BY <1>1, <1>2 DEF IInv, Settled, Handles
<1>11. Directories'
  <2>1. \A d : FilesAreOk(tool, setting, started, Alone, d) => FilesAreOk(tool, setting, started + 1, Alone, d)
    BY <1>2, MoreStarts
  <2>2. \A d : FilesAreOk(tool, setting, started + 1, Alone, d) => FilesAreOk(tool', setting', started', Alone', d)
    BY <1>1, <1>9 DEF FilesAreOk, SummaryIsOk
  <2> QED
    BY <1>1, <1>9, <2>1, <2>2 DEF IInv, Directories
<1>12. \A q \in setting.processes : work'[q] = IF q = p THEN x ELSE work[q]
  BY <1>1, <1>2
<1>13. \A q \in setting.processes : RunIsOk(tool, setting, started + 1, work'[q])
  BY <1>2, <1>5, <1>12, MoreStarts DEF IInv
<1>14. Alone => \A q \in setting.processes :
                  /\ work'[q].pc \notin Fills
                  /\ HandleIsOk(tool', Place', (Contents(Place))', opened'[q], work'[q])
                  /\ SeenIsOk((Contents("out"))', work'[q])
  <2>1. Alone => opened'[p] = Closed
    BY <1>1 DEF IInv, HandleIsOk, Writes
  <2>2. Alone => HandleIsOk(tool', Place', (Contents(Place))', opened'[p], x)
    BY <2>1, ClosedIsOk
  <2>3. SeenIsOk((Contents("out"))', x)
    BY <1>4 DEF SeenIsOk
  <2>4. Alone => \A q \in setting.processes : q = p
    BY DEF Alone
  <2> QED
    BY <1>6, <1>12, <2>2, <2>3, <2>4
<1>15. ~setting.rebuildsDuringRuns => \A q \in setting.processes : InputsAre(tool, inputs, work'[q])
  BY <1>8, <1>12 DEF IInv
<1>16. (Alone /\ ~setting.rebuildsDuringRuns) => PublishedVerifies'
  BY <1>1, PublishedStays
<1> QED
  BY <1>1, <1>9, <1>10, <1>11, <1>13, <1>14, <1>15, <1>16 DEF IInv

\* The directories and the runs stay as they are.
LEMMA RestKeeps ==
  ASSUME IInv, UNCHANGED <<setting, tool, out, unpublished, opened, work, started>>, Settled',
         ~setting.rebuildsDuringRuns => \A p \in setting.processes : InputsAre(tool, inputs', work[p])
  PROVE  IInv'
<1>1. (Alone' <=> Alone) /\ Handles'
  BY DEF Alone, Handles, IInv
<1>2. /\ Directories' /\ Directory' = Directory /\ Place' = Place
      /\ (Contents("out"))' = Contents("out") /\ (Contents(Place))' = Contents(Place)
      /\ (Alone /\ ~setting.rebuildsDuringRuns) => PublishedVerifies'
  BY DirectoriesStay
<1>3. \A p \in setting'.processes : RunIsOk(tool', setting', started', work'[p])
  BY DEF IInv
<1>5. Alone' => \A p \in setting'.processes :
                  /\ work'[p].pc \in Fills => IsFilled(tool', Directory', work'[p])
                  /\ HandleIsOk(tool', Place', (Contents(Place))', opened'[p], work'[p])
                  /\ SeenIsOk((Contents("out"))', work'[p])
  BY <1>1, <1>2 DEF IInv
<1> QED
  BY <1>1, <1>2, <1>3, <1>5 DEF IInv

LEMMA RebuildKeeps ==
  ASSUME IInv, Rebuild
  PROVE  IInv'
<1>1. /\ UNCHANGED <<setting, tool, out, unpublished, opened, work, started>>
      /\ setting.rebuildsDuringRuns \/ \A p \in setting.processes : work[p].pc \in Rests
  BY DEF Rebuild, Idle, held, Rests
<1>2. PICK names \in {{"runner"}, InputNames \ {"runner"}} :
        inputs' = [n \in InputNames |-> IF n \in names THEN inputs[n] + 1 ELSE inputs[n]]
  BY DEF Rebuild
<1>3. Settled'
  <2>1. inputs' \in [InputNames -> Nat \ {0}]
    BY <1>2 DEF IInv, Settled
  <2>2. inputs'["artifact"] = inputs'["manifest"] /\ inputs'["oracle"] = inputs'["manifest"]
    BY <1>2 DEF IInv, Settled, InputNames
  <2> QED
    BY <1>1, <2>1, <2>2 DEF IInv, Settled
<1>4. ~setting.rebuildsDuringRuns => \A p \in setting.processes : InputsAre(tool, inputs', work[p])
  BY <1>1 DEF InputsAre
<1> QED
  BY <1>1, <1>3, <1>4, RestKeeps

LEMMA InitIInv ==
  ASSUME Init
  PROVE  IInv
<1>1. Settled /\ Handles
  BY DEF Init, Settled, InputNames, Handles, Closed
<1>2. Directories
  BY NoFilesIsOk DEF Init, Directories, Contents
<1>3. \A p \in setting.processes :
        /\ DOMAIN work[p] = RunFields /\ work[p].pc = "idle" /\ DOMAIN work[p].seen = {}
        /\ opened[p] = Closed
  BY DEF Init, Begun, RunFields, NoFiles
<1>4. "idle" \notin Fills /\ "idle" \in Rests
  BY DEF Fills, TableSteps, Rests
<1>5. PublishedVerifies
  BY DEF Init, PublishedVerifies
<1>6. \A p \in setting.processes :
        /\ HandleIsOk(tool, Place, Contents(Place), opened[p], work[p])
        /\ SeenIsOk(Contents("out"), work[p])
  BY <1>3, ClosedIsOk DEF SeenIsOk
<1> QED
  BY <1>1, <1>2, <1>3, <1>4, <1>5, <1>6 DEF IInv, RunIsOk, InputsAre

LEMMA NextIInv ==
  ASSUME IInv, [Next]_vars
  PROVE  IInv'
<1>1. CASE Rebuild
  BY <1>1, RebuildKeeps
<1>2. ASSUME NEW p \in setting.processes, Start(p) \/ Steps(p) \/ Kill(p)
      PROVE  IInv'
  BY <1>2, StartRunKeeps, KillKeeps, IdentifyKeeps, CheckOracleKeeps, RefuseExistingKeeps, FindPartialKeeps,
     OpenPartialKeeps, ListPartialKeeps, RemoveFileKeeps, RemoveDirectoryKeeps, MakePartialKeeps, MakeDirectoryKeeps, MeasureKeeps,
     CheckParityKeeps, NameInputsKeeps, OpenKeeps, WriteOutKeeps, RenameKeeps, DigestKeeps, PublishKeeps,
     ReadBackKeeps DEF Steps
<1>3. CASE UNCHANGED vars
  <2>1. UNCHANGED <<setting, tool, inputs, out, unpublished, opened, work, started>>
    BY <1>3 DEF vars
  <2>2. Settled'
    BY <2>1 DEF IInv, Settled
  <2>3. ~setting.rebuildsDuringRuns => \A p \in setting.processes : InputsAre(tool, inputs', work[p])
    BY <2>1 DEF IInv
  <2> QED
    BY <2>1, <2>2, <2>3, RestKeeps
<1> QED
  BY <1>1, <1>2, <1>3 DEF Next

LEMMA IInvHolds == Spec => []IInv
<1> QED
  BY InitIInv, NextIInv, PTL DEF Spec
-----------------------------------------------------------------------------
(* What the invariant says of a directory that verifies.                    *)

LEMMA VerifiedParts ==
  ASSUME NEW t \in AllTools, NEW d, NEW ins, Verifies(t, d, ins)
  PROVE  /\ Summarised(t, d) /\ RowsHold(t, d) /\ Digested(d, Csv)
         /\ t # "graph" => TableIs(d)
         /\ t \notin RowLess => RowsAre(d)
         /\ t = "graph" => \A i \in DOMAIN Rows(d) :
                             Digested(d, <<"csv", i>>) /\ d[<<"csv", i>>] = Rows(d)[i]
         /\ t \notin Unverified \cup {"expert"} => Names(d, ins, {"manifest"}) /\ Identifies(d, ins)
         /\ t = "expert" => ins["artifact"] = 1
         /\ Verifies(t, d, Summary(d).named)
<1> DEFINE named == Summary(d).named
<1>1. \A names : Names(d, named, names)
  BY DEF Names
<1>2. Names(d, ins, {"manifest"}) /\ Identifies(d, ins) => Identifies(d, named)
  BY DEF Names, Identifies
<1>3. Names(d, ins, {"artifact", "manifest", "runner"}) \/ Names(d, ins, InputNames)
        => Names(d, ins, {"manifest"})
  BY DEF Names, InputNames
<1>4. TableIs(d) => Digested(d, Csv)
  BY DEF TableIs
<1> HIDE DEF named
<1> SUFFICES /\ Summarised(t, d) /\ RowsHold(t, d) /\ Digested(d, Csv)
             /\ t # "graph" => TableIs(d)
             /\ t \notin RowLess => RowsAre(d)
             /\ t = "graph" => \A i \in DOMAIN Rows(d) :
                                 Digested(d, <<"csv", i>>) /\ d[<<"csv", i>>] = Rows(d)[i]
             /\ t \notin Unverified \cup {"expert"} => Names(d, ins, {"manifest"}) /\ Identifies(d, ins)
             /\ t = "expert" => ins["artifact"] = 1
             /\ Verifies(t, d, named)
  BY DEF named
<1>5. CASE t = "layer"
  BY <1>1, <1>2, <1>3, <1>4, <1>5 DEF Verifies, LayerVerifies
<1>6. CASE t = "validation"
  BY <1>1, <1>2, <1>3, <1>4, <1>6 DEF Verifies, ValidationVerifies
<1>7. CASE t = "state"
  BY <1>1, <1>2, <1>3, <1>4, <1>7 DEF Verifies, StateVerifies
<1>8. CASE t = "routing"
  BY <1>1, <1>2, <1>3, <1>4, <1>8 DEF Verifies, RoutingVerifies
<1>9. CASE t = "closure"
  BY <1>1, <1>2, <1>3, <1>4, <1>9 DEF Verifies, ClosureVerifies
<1>10. CASE t = "attribution"
  BY <1>1, <1>2, <1>3, <1>4, <1>10 DEF Verifies, AttributionVerifies
<1>11. CASE t = "operation"
  BY <1>1, <1>2, <1>3, <1>4, <1>11 DEF Verifies, OperationVerifies
<1>12. CASE t = "moe"
  BY <1>1, <1>2, <1>3, <1>4, <1>12 DEF Verifies, MoeVerifies
<1>13. CASE t = "expert"
  <2>1. ExpertVerifies(d, ins)
    BY <1>13 DEF Verifies
  <2>2. ins["artifact"] = 1
    BY <2>1 DEF ExpertVerifies, Names
  <2>3. ExpertVerifies(d, named)
    BY <1>1, <2>1 DEF ExpertVerifies
  <2> QED
    BY <1>4, <1>13, <2>1, <2>2, <2>3 DEF Verifies, ExpertVerifies
<1>14. CASE t = "graph"
  BY <1>1, <1>14 DEF Verifies, GraphVerifies, Unverified
<1>15. CASE t = "audit"
  BY <1>1, <1>4, <1>15 DEF Verifies, AuditVerifies, Unverified, RowLess
<1>16. CASE t = "discovery"
  BY <1>1, <1>4, <1>16 DEF Verifies, DiscoveryVerifies, Unverified, RowLess
<1> QED
  BY <1>5, <1>6, <1>7, <1>8, <1>9, <1>10, <1>11, <1>12, <1>13, <1>14, <1>15, <1>16 DEF AllTools

\* A verifier that has read files as they are has judged the directory.
LEMMA SeenVerifies ==
  ASSUME NEW t \in AllTools \ Unverified, NEW seen, NEW d, NEW ins,
         \A g \in DOMAIN seen : Has(d, g, seen[g]), Verifies(t, seen, ins)
  PROVE  Verifies(t, d, ins)
<1>1. /\ Summarised(t, seen) /\ RowsHold(t, seen)
      /\ t # "graph" => TableIs(seen)
      /\ t \notin RowLess => RowsAre(seen)
  BY VerifiedParts
<1>2. t # "graph" /\ t \notin RowLess
  BY DEF Unverified, RowLess
<1>3. \A g : Holds(seen, g) => Holds(d, g) /\ d[g] = seen[g]
  BY DEF Holds, Has
<1>4. Holds(seen, Json)
  BY <1>1 DEF Summarised
<1>5. Summary(d) = Summary(seen) /\ Rows(d) = Rows(seen)
  BY <1>3, <1>4 DEF Summary, Rows
<1>6. \A g : Digested(seen, g) => Digested(d, g) /\ d[g] = seen[g]
  BY <1>3, <1>5 DEF Digested
<1>7. Summarised(t, d)
  BY <1>1, <1>3, <1>4, <1>5 DEF Summarised
<1>8. RowsHold(t, d)
  BY <1>1, <1>5 DEF RowsHold
<1>9. RowsAre(d)
  BY <1>1, <1>2, <1>5, <1>6 DEF RowsAre
<1>10. TableIs(d)
  BY <1>1, <1>2, <1>5, <1>6 DEF TableIs
<1>11. /\ \A names : Names(seen, ins, names) => Names(d, ins, names)
       /\ Identifies(seen, ins) => Identifies(d, ins)
  BY <1>5 DEF Names, Identifies
<1>12. CASE t = "layer"
  BY <1>5, <1>7, <1>8, <1>9, <1>10, <1>11, <1>12 DEF Verifies, LayerVerifies
<1>13. CASE t = "validation"
  BY <1>5, <1>7, <1>8, <1>9, <1>10, <1>11, <1>13 DEF Verifies, ValidationVerifies
<1>14. CASE t = "state"
  BY <1>5, <1>7, <1>8, <1>9, <1>10, <1>11, <1>14 DEF Verifies, StateVerifies
<1>15. CASE t = "routing"
  BY <1>5, <1>7, <1>8, <1>9, <1>10, <1>11, <1>15 DEF Verifies, RoutingVerifies
<1>16. CASE t = "closure"
  BY <1>5, <1>7, <1>8, <1>9, <1>10, <1>11, <1>16 DEF Verifies, ClosureVerifies
<1>17. CASE t = "attribution"
  BY <1>5, <1>7, <1>8, <1>9, <1>10, <1>11, <1>17 DEF Verifies, AttributionVerifies
<1>18. CASE t = "operation"
  BY <1>5, <1>7, <1>8, <1>9, <1>10, <1>11, <1>18 DEF Verifies, OperationVerifies
<1>19. CASE t = "moe"
  BY <1>5, <1>7, <1>8, <1>9, <1>10, <1>11, <1>19 DEF Verifies, MoeVerifies
<1>20. CASE t = "expert"
  BY <1>5, <1>7, <1>8, <1>9, <1>10, <1>11, <1>20 DEF Verifies, ExpertVerifies
<1> QED
  BY <1>12, <1>13, <1>14, <1>15, <1>16, <1>17, <1>18, <1>19, <1>20 DEF AllTools, Unverified

LEMMA VerifiedIsOfOneRun ==
  ASSUME IInv, tool # "graph" \/ Alone
  PROVE  OneRun
<1> SUFFICES ASSUME out # NoDirectory, NEW ins, Verifies(tool, out, ins)
             PROVE  \E id \in 1..started :
                      /\ \A i \in DOMAIN Rows(out) : Rows(out)[i].id = id
                      /\ \A f \in DOMAIN out : f # Json =>
                           /\ Holds(out, f)
                           /\ IF f = Csv THEN \A i \in DOMAIN out[f].rows : out[f].rows[i].id = id
                              ELSE out[f].id = id
  BY DEF OneRun
<1>1. tool \in AllTools
  BY ToolIsKnown DEF IInv
<1>2. /\ Summarised(tool, out) /\ Digested(out, Csv)
      /\ tool # "graph" => TableIs(out)
      /\ tool \notin RowLess => RowsAre(out)
      /\ tool = "graph" => \A i \in DOMAIN Rows(out) :
                             Digested(out, <<"csv", i>>) /\ out[<<"csv", i>>] = Rows(out)[i]
  BY <1>1, VerifiedParts
<1>3. /\ DOMAIN out \subseteq FilesOf(tool)
      /\ SummaryIsOk(tool, setting, started, Alone, Summary(out))
  <2>1. FilesAreOk(tool, setting, started, Alone, out)
    BY ContentsAre DEF IInv, Directories
  <2> QED
    BY <1>2, <2>1 DEF FilesAreOk, Summarised, Summary
<1>4. PICK id \in 1..started : \A i \in 1..Len(Rows(out)) : Rows(out)[i].id = id
  BY <1>3 DEF SummaryIsOk, Rows
<1>5. /\ DOMAIN Rows(out) = 1..Len(Rows(out)) /\ Len(Rows(out)) = Len(Cases(tool))
  BY <1>2, <1>3 DEF SummaryIsOk, Rows, Summarised
<1>6. out[Csv].rows = Rows(out)
  <2>1. CASE tool # "graph"
    BY <1>2, <2>1 DEF TableIs
  <2>2. CASE tool = "graph"
    <3>1. Has(Summary(out).digests, Csv, [rows |-> Rows(out)])
      BY <1>3, <2>2 DEF SummaryIsOk, Rows
    <3>2. out[Csv] = [rows |-> Rows(out)]
      BY <1>2, <3>1 DEF Digested, Has
    <3> QED
      BY <3>2
  <2> QED
    BY <2>1, <2>2
<1>7. ASSUME NEW f \in DOMAIN out, f # Json
      PROVE  /\ Holds(out, f)
             /\ IF f = Csv THEN \A i \in DOMAIN out[f].rows : out[f].rows[i].id = id
                ELSE out[f].id = id
  <2>1. CASE f = Csv
    BY <1>2, <1>4, <1>5, <1>6, <2>1 DEF Digested
  <2>2. CASE f # Csv
    <3>1. \E i \in 1..Len(Cases(tool)) :
            \/ f = <<"json", i>> /\ tool \notin RowLess
            \/ f = <<"csv", i>> /\ tool = "graph"
      BY <1>3, <1>7, <2>2 DEF FilesOf
    <3>2. PICK i \in 1..Len(Cases(tool)) :
            \/ f = <<"json", i>> /\ tool \notin RowLess
            \/ f = <<"csv", i>> /\ tool = "graph"
      BY <3>1
    <3>3. out[f] = Rows(out)[i] /\ Holds(out, f)
      BY <1>2, <1>5, <3>2 DEF RowsAre, Digested
    <3> QED
      BY <1>4, <1>5, <2>2, <3>3
  <2> QED
    BY <2>1, <2>2
<1> QED
  BY <1>4, <1>5, <1>7

LEMMA VerifiedIsOfArtifact ==
  ASSUME IInv
  PROVE  RowsAreOfArtifact
<1> SUFFICES ASSUME tool \notin Unverified, Verifies(tool, out, inputs), NEW i \in DOMAIN Rows(out)
             PROVE  Rows(out)[i].with["artifact"] = inputs["artifact"]
  BY DEF RowsAreOfArtifact
<1>1. tool \in AllTools /\ inputs["artifact"] = inputs["manifest"]
  BY ToolIsKnown DEF IInv, Settled
<1>2. /\ Accepted(tool, Rows(out)[i], Summary(out).identity)
      /\ tool # "expert" => Identifies(out, inputs)
      /\ tool = "expert" => inputs["artifact"] = 1
  BY <1>1, VerifiedParts DEF RowsHold
<1>3. CASE tool = "expert"
  BY <1>2, <1>3 DEF Accepted
<1>4. CASE tool # "expert"
  BY <1>1, <1>2, <1>4 DEF Accepted, Identifies, Unverified
<1> QED
  BY <1>3, <1>4

LEMMA IInvTypes ==
  ASSUME IInv
  PROVE  TypeOK
<1>1. /\ setting \in Settings /\ tool \in setting.tools /\ DOMAIN inputs = InputNames
      /\ unpublished # NoDirectory => tool \in Atomic \cup {"discovery"}
      /\ DOMAIN work = setting.processes /\ DOMAIN opened = setting.processes
  BY DEF IInv, Settled, Directories, Handles
<1>2. \A p \in setting.processes : work[p].pc \notin {"idle", "clean"} =>
       /\ work[p].row \in 1..Len(Cases(tool))
       /\ Len(work[p].rows) =
            IF work[p].pc \in {"identify", "oracle", "refuse", "clear", "make", "mkdir", "measure"}
            THEN work[p].row - 1 ELSE work[p].row
  BY DEF IInv, RunIsOk, Rests, BeforeRows
<1> QED
  BY <1>1, <1>2 DEF TypeOK

\* Evidence that verifies is of one run, over all its files, which are whole,
\* though each is opened, written and renamed in steps of its own; its rows were
\* measured on the fixture there is; and a directory published under its name
\* verifies from the moment it appears: for every number of processes, runs,
\* kills and rebuilds, and every number of rows.
THEOREM EvidenceHoldsTogether == Spec => []EvidenceIsOfOneRun
<1>1. IInv => EvidenceIsOfOneRun
  <2> SUFFICES ASSUME IInv PROVE EvidenceIsOfOneRun
    OBVIOUS
  <2>1. (Alone /\ ~setting.rebuildsDuringRuns) => PublishedVerifies
    BY DEF IInv
  <2> QED
    BY <2>1, IInvTypes, VerifiedIsOfOneRun, VerifiedIsOfArtifact DEF EvidenceIsOfOneRun
<1> QED
  BY <1>1, IInvHolds, PTL

-----------------------------------------------------------------------------
(* How a run ends of a process that is alone.                               *)

\* Only the last step of a program ends a run well.
LEMMA LastStepEnds ==
  ASSUME IInv, NEW p \in setting.processes, Steps(p), EndsWell(p)
  PROVE  \/ ReadBack(p) /\ work[p].pc = "verify"
         \/ (WriteOut(p) \/ Rename(p)) /\ work[p].pc = "write summary" /\ tool \in Unverified
<1>1. work[p].pc # "idle" /\ work'[p].pc = "idle" /\ work'[p].end = "ok" /\ work' # work
  BY DEF EndsWell, Idle
<1>2. DOMAIN work = setting.processes /\ DOMAIN work[p] = RunFields
  BY DEF IInv, Settled, RunIsOk
<1>3. ~Fails(p)
  <2>1. Fails(p) => work'[p].end = "failed"
    BY <1>2 DEF Fails, RunFields
  <2> QED
    BY <1>1, <2>1
<1>4. work[p].pc # "clean"
  <2> SUFFICES ASSUME work[p].pc = "clean" PROVE FALSE
    OBVIOUS
  <2>1. work[p].end = "failed"
    BY DEF IInv, RunIsOk
  <2>2. ~At(p, {"clear"})
    BY DEF At
  <2>3. OpenPartial(p) \/ ListPartial(p) \/ RemoveFile(p) \/ RemoveDirectory(p)
    BY DEF Steps, At, Identify, CheckOracle, RefuseExisting, MakePartial, MakeDirectory, Measure, CheckParity,
           NameInputs, FindPartial, Open, WriteOut, Rename, Digest, Publish, ReadBack, Writes, Digests
  <2>4. work' = [work EXCEPT ![p].pc = "idle"]
    BY <1>1, <1>3, <2>2, <2>3 DEF OpenPartial, ListPartial, RemoveFile, RemoveDirectory, Cleared
  <2> QED
    BY <1>1, <1>2, <2>1, <2>4 DEF RunFields
<1>5. work[p].pc \notin Rests
  BY <1>1, <1>4 DEF Rests
<1>6. tool \in AllTools /\ work[p].pc \in StagesOf(tool) /\ work[p].row \in 1..Len(Cases(tool))
  BY <1>5, RunAt
<1>7. ASSUME NEW r, Goes(p, r), DOMAIN r = RunFields, r.pc = work[p].pc, r.row = work[p].row
      PROVE  work[p].pc = "verify" \/ (work[p].pc = "write summary" /\ tool \in Unverified)
  <2>1. work'[p] = Advanced(r)
    BY <1>2, <1>7 DEF Goes
  <2> DEFINE more == r.row < Len(Cases(tool))
             next == Follows(tool, r.pc, more)
  <2>2. more \in BOOLEAN /\ Advanced(r).pc = next
    BY <1>6, <1>7, AdvancedFields
  <2>3. next = "idle"
    BY <1>1, <2>1, <2>2
  <2> HIDE DEF more
  <2> QED
    BY <1>6, <1>7, <2>2, <2>3, FollowsEnds
<1>8. CASE Identify(p)
  <2> DEFINE r == [work[p] EXCEPT !.identity = inputs["manifest"]]
  <2>1. Goes(p, r) /\ work[p].pc = "identify"
    BY <1>8 DEF Identify, At
  <2>2. DOMAIN r = RunFields /\ r.pc = work[p].pc /\ r.row = work[p].row
    BY <1>2 DEF RunFields
  <2> HIDE DEF r
  <2> QED
    BY <1>7, <2>1, <2>2
<1>9. CASE Measure(p)
  <2>1. PICK row : Goes(p, [work[p] EXCEPT !.rows = Append(@, row)])
    BY <1>3, <1>9 DEF Measure
  <2> DEFINE r == [work[p] EXCEPT !.rows = Append(@, row)]
  <2>2. Goes(p, r) /\ work[p].pc = "measure"
    BY <1>9, <2>1 DEF Measure, At
  <2>3. DOMAIN r = RunFields /\ r.pc = work[p].pc /\ r.row = work[p].row
    BY <1>2 DEF RunFields
  <2> HIDE DEF r
  <2> QED
    BY <1>7, <2>2, <2>3
<1>10. CASE NameInputs(p)
  <2> DEFINE r == [work[p] EXCEPT !.named = inputs]
  <2>1. Goes(p, r) /\ work[p].pc = "name"
    BY <1>10 DEF NameInputs, At
  <2>2. DOMAIN r = RunFields /\ r.pc = work[p].pc /\ r.row = work[p].row
    BY <1>2 DEF RunFields
  <2> HIDE DEF r
  <2> QED
    BY <1>7, <2>1, <2>2
<1>11. CASE Digest(p)
  <2> DEFINE r == [work[p] EXCEPT !.digests = Writing(@, File(p), Directory[File(p)])]
  <2>1. Goes(p, r) /\ work[p].pc \in Digests
    BY <1>3, <1>11 DEF Digest, At
  <2>2. DOMAIN r = RunFields /\ r.pc = work[p].pc /\ r.row = work[p].row
    BY <1>2 DEF RunFields
  <2> HIDE DEF r
  <2> QED
    BY <1>7, <2>1, <2>2 DEF Digests
<1>12. ASSUME Goes(p, work[p]), work[p].pc # "verify"
       PROVE  work[p].pc = "write summary" /\ tool \in Unverified
  BY <1>2, <1>7, <1>12
<1>13. CASE \/ CheckOracle(p) \/ RefuseExisting(p) \/ MakePartial(p) \/ MakeDirectory(p) \/ CheckParity(p)
            \/ Open(p) \/ Publish(p)
  BY <1>1, <1>3, <1>12, <1>13
     DEF CheckOracle, RefuseExisting, MakePartial, MakeDirectory, CheckParity, Open, Publish, At
<1>14. CASE FindPartial(p) \/ OpenPartial(p) \/ ListPartial(p) \/ RemoveFile(p) \/ RemoveDirectory(p)
  <2>1. work[p].pc = "clear" /\ At(p, {"clear"})
    BY <1>4, <1>14 DEF FindPartial, OpenPartial, ListPartial, RemoveFile, RemoveDirectory, Clears, At
  <2>2. Goes(p, work[p])
    BY <1>1, <1>3, <1>14, <2>1 DEF FindPartial, OpenPartial, ListPartial, RemoveFile, RemoveDirectory, Cleared
  <2> QED
    BY <1>12, <2>1, <2>2
<1>15. CASE WriteOut(p) \/ Rename(p)
  <2>1. work[p].pc # "verify"
    BY <1>15 DEF WriteOut, Rename, At, Writes
  <2>2. Goes(p, work[p])
    BY <1>1, <1>3, <1>15 DEF WriteOut, Rename
  <2> QED
    BY <1>12, <1>15, <2>1, <2>2
<1>16. CASE ReadBack(p)
  BY <1>16 DEF ReadBack, At
<1> QED
  BY <1>8, <1>9, <1>10, <1>11, <1>13, <1>14, <1>15, <1>16 DEF Steps

\* What the tools that do not verify have written when they end.
LEMMA WrittenVouches ==
  ASSUME IInv, NEW p \in setting.processes, Alone, work[p].pc = "write summary", tool \in Unverified,
         out' = Writing(Contents("out"), Json, Content(work[p], Json))
  PROVE  Verifies(tool, out', Summary(out').named)
<1>1. tool \notin Atomic /\ work[p].pc \notin Rests \cup {"measure", "parity"}
      /\ work[p].pc \in Fills /\ work[p].pc \in Writes
  BY DEF Atomic, Unverified, Rests, Fills, TableSteps, Writes
<1>2. /\ tool \in AllTools /\ started \in Nat /\ HasDone(tool, setting, started, work[p])
      /\ IsFilled(tool, Directory, work[p])
  BY <1>1, RunAt
<1>3. Directory = Contents("out")
  BY <1>1 DEF Directory
<1>4. Json = FileOf(work[p].pc, work[p].row)
  BY DEF FileOf
<1>5. WasFilled(tool, out', work[p])
  BY <1>1, <1>2, <1>3, <1>4, WriteFills
<1> QED
  BY <1>1, <1>5, FilledVerifies

LEMMA EndVouches ==
  ASSUME IInv, Alone, NEW p \in setting.processes, Steps(p), EndsWell(p)
  PROVE  Verifies(tool, out', Summary(out').named)
<1>1. tool \in AllTools
  BY ToolIsKnown DEF IInv
<1>2. DOMAIN work[p] = RunFields /\ DOMAIN work = setting.processes
  BY DEF IInv, RunIsOk, Settled
<1>3. ~Fails(p) /\ work' # work
  <2>1. Fails(p) => work'[p].end = "failed"
    BY <1>2 DEF Fails, RunFields
  <2> QED
    BY <2>1 DEF EndsWell, Idle
<1>4. CASE ReadBack(p) /\ work[p].pc = "verify"
  <2>1. PICK f : f = NextFile(work[p])
    OBVIOUS
  <2>2. PICK x : x = Read(work[p], f)
    OBVIOUS
  <2>3. f \in DOMAIN Contents("out") /\ UNCHANGED held
    BY <1>3, <1>4, <2>1 DEF ReadBack
  <2>4. x.pc = "verify" /\ \A g \in DOMAIN x.seen : Has(Contents("out"), g, x.seen[g])
    BY <1>4, <2>2, <2>3, ReadSees
  <2>5. work' # [work EXCEPT ![p] = x]
    BY <1>2, <2>4 DEF EndsWell, Idle
  <2>6. Verifies(tool, x.seen, x.against)
    BY <1>3, <1>4, <2>1, <2>2, <2>3, <2>5 DEF ReadBack
  <2>7. Contents("out") = out /\ out' = out
    BY <2>3, ContentsAre DEF held
  <2>8. tool \notin Unverified
    <3>1. work[p].pc \in StagesOf(tool)
      BY <1>4, RunAt DEF Rests
    <3> QED
      BY <1>1, <1>4, <3>1, ToolsOfStages
  <2>9. Verifies(tool, out, x.against)
    BY <1>1, <2>4, <2>6, <2>7, <2>8, SeenVerifies
  <2>10. Verifies(tool, out, Summary(out).named)
    BY <1>1, <2>9, VerifiedParts
  <2> QED
    BY <2>7, <2>10
<1>5. CASE WriteOut(p) /\ work[p].pc = "write summary" /\ tool \in Unverified
  <2>1. tool # "discovery"
    BY <1>3, <1>5 DEF WriteOut
  <2>2. Place = "out" /\ Place' = "out"
    BY <1>1, <1>5, <2>1 DEF Place, Atomic, Unverified, WriteOut
  <2>3. File(p) = Json
    BY <1>5 DEF File, FileOf
  <2>4. (Contents("out"))' = Writing(Contents("out"), Json, Content(work[p], Json))
    <3>1. /\ (Contents(Place))' = Writing(Contents(Place), File(p), Content(work[p], File(p)))
      BY <1>5, WrittenOut
    <3> QED
      BY <2>2, <2>3, <3>1
  <2>5. out' = (Contents("out"))'
    <3> DEFINE d == (Contents("out"))'
               e == Contents("out")
    <3>0. d = Writing(e, Json, Content(work[p], Json))
      BY <2>4
    <3> HIDE DEF d, e
    <3>1. Json \in DOMAIN d
      BY <3>0 DEF Writing
    <3>2. DOMAIN NoFiles = {}
      BY DEF NoFiles
    <3> QED
      BY <3>1, <3>2 DEF Contents, d
  <2> QED
    BY <1>5, <2>4, <2>5, WrittenVouches
<1>6. CASE Rename(p) /\ work[p].pc = "write summary" /\ tool \in Unverified
  <2>1. File(p) = Json /\ work[p].pc \in Writes /\ Json = FileOf(work[p].pc, work[p].row)
    BY <1>6 DEF File, FileOf, Writes
  <2>0. opened[p].done /\ ~Closed.done
    BY <1>6 DEF Closed, Rename
  <2>2. opened[p] # Closed /\ opened[p].done
    BY <2>0
  <2>3. HandleIsOk(tool, Place, Contents(Place), opened[p], work[p])
    BY DEF IInv
  <2>4. tool = "discovery" /\ Has(Contents(Place), Json, ContentOf(tool, work[p], Json))
    BY <2>1, <2>2, <2>3 DEF HandleIsOk
  <2>5. Has(Contents("unpublished"), Json, Content(work[p], Json))
    BY <1>1, <2>4, Places, ContentIs
  <2>6. out' = Writing(Contents("out"), Json, Contents("unpublished")[Json])
    BY <1>3, <1>6, <2>1 DEF Rename
  <2>7. out' = Writing(Contents("out"), Json, Content(work[p], Json))
    BY <2>5, <2>6 DEF Has
  <2> QED
    BY <1>6, <2>7, WrittenVouches
<1> QED
  BY <1>4, <1>5, <1>6, LastStepEnds

LEMMA StepVouches ==
  ASSUME IInv, Next, Alone, NEW p \in setting.processes, EndsWell(p)
  PROVE  Verifies(tool, out', Summary(out').named)
<1>1. work'[p].pc # work[p].pc /\ work[p].pc # "idle" /\ work'[p].end = "ok"
  BY DEF EndsWell, Idle
<1>2. ~Rebuild
  BY <1>1 DEF Rebuild
<1>3. Start(p) \/ Steps(p) \/ Kill(p)
  BY <1>2 DEF Next, Alone
<1>4. ~Start(p)
  BY <1>1 DEF Start, Idle
<1>5. ~Kill(p)
  <2>1. DOMAIN work[p] = RunFields /\ DOMAIN work = setting.processes
    BY DEF IInv, RunIsOk, Settled
  <2>2. Kill(p) => work'[p].end = "killed"
    BY <2>1 DEF Kill, RunFields
  <2> QED
    BY <1>1, <2>2
<1> QED
  BY <1>3, <1>4, <1>5, EndVouches

\* What a process that is alone has open of an atomic tool is never in the
\* directory under its name, and a directory is renamed over none that has files.
LEMMA PublishedIsKept ==
  ASSUME IInv, Next, Alone, tool \in Atomic, out # NoDirectory
  PROVE  out' = out
<1>1. CASE Rebuild
  BY <1>1 DEF Rebuild, held
<1>2. ASSUME NEW p \in setting.processes, Start(p) \/ Steps(p) \/ Kill(p)
      PROVE  out' = out
  <2>1. opened[p].in # "out"
    BY OpenedIsNotOut
  <2>2. \A d : Put(opened[p].in, d) => out' = out
    BY <2>1 DEF Put
  <2>3. CASE \/ Start(p) \/ Identify(p) \/ CheckOracle(p) \/ RefuseExisting(p) \/ FindPartial(p)
             \/ OpenPartial(p) \/ ListPartial(p) \/ RemoveDirectory(p) \/ MakePartial(p) \/ MakeDirectory(p) \/ Measure(p) \/ CheckParity(p)
             \/ NameInputs(p) \/ Digest(p) \/ ReadBack(p)
    BY <2>3 DEF Start, Identify, CheckOracle, RefuseExisting, FindPartial, OpenPartial, ListPartial, RemoveDirectory,
                MakePartial, MakeDirectory, Measure, CheckParity, NameInputs, Digest, ReadBack, held
  <2>4. CASE RemoveFile(p)
    BY <2>2, <2>4 DEF RemoveFile
  <2>5. CASE WriteOut(p)
    BY <2>2, <2>5 DEF WriteOut
  <2>6. CASE Kill(p)
    BY <2>2, <2>6 DEF Kill
  <2>7. CASE Open(p)
    BY <2>7 DEF Open, Place, Put, held
  <2>8. CASE Rename(p)
    <3>1. work[p].pc \in Writes /\ opened[p] # Closed /\ opened[p].done
      BY <2>8 DEF Rename, At, Closed
    <3>2. HandleIsOk(tool, Place, Contents(Place), opened[p], work[p])
      BY DEF IInv
    <3>3. tool = "discovery"
      BY <3>1, <3>2 DEF HandleIsOk
    <3> QED
      BY <3>3 DEF Atomic
  <2>9. CASE Publish(p)
    <3>1. Json \in DOMAIN Contents("out")
      BY ContentsAre DEF IInv, Directories
    <3>2. UNCHANGED held
      BY <2>9, <3>1 DEF Publish
    <3> QED
      BY <3>2 DEF held
  <2> QED
    BY <1>2, <2>3, <2>4, <2>5, <2>6, <2>7, <2>8, <2>9 DEF Steps
<1> QED
  BY <1>1, <1>2 DEF Next

\* A process that is alone over the directory: a run of it that ends well leaves
\* evidence its verifier accepts for the inputs it names, the files opened,
\* written, renamed and read back one at a time, with kills between; and no later
\* run of it touches a directory an atomic tool published.
THEOREM SuccessIsVouched == Spec => SuccessVouches
<1> DEFINE Vouches ==
      Alone =>
        /\ \A p \in setting.processes : EndsWell(p) => Verifies(tool, out', Summary(out').named)
        /\ tool \in Atomic /\ out # NoDirectory => out' = out
<1>1. IInv /\ [Next]_vars => [Vouches]_vars
  <2> SUFFICES ASSUME IInv, Next PROVE Vouches
    OBVIOUS
  <2> QED
    BY StepVouches, PublishedIsKept
<1>2. [][IInv /\ [Next]_vars => [Vouches]_vars]_vars
  BY <1>1, PTL
<1> QED
  BY <1>1, IInvHolds, PTL DEF Spec, SuccessVouches
=============================================================================
