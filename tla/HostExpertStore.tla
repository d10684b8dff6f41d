-------------------------- MODULE HostExpertStore ---------------------------
(***************************************************************************)
(* The bounded L1 store of expert payloads, runtime/src/                   *)
(* host_expert_store.cpp.  Every operation holds the store's mutex from    *)
(* beginning to end, the load of a missing payload included, so each is    *)
(* one step.  A key always loads the same immutable bytes, so a payload is *)
(* its key and its charged size.                                           *)
(*                                                                         *)
(* last_access values are drawn from one counter and never equal, so the   *)
(* insertion number that breaks their ties in the code is left out.        *)
(***************************************************************************)
EXTENDS Integers, FiniteSets, Sequences

CONSTANTS
  Keys,            \* ExpertKey values: [layer, expert]
  Size,            \* Size[k]: charged_bytes of the payload of k
  Total,           \* Total[S]: charged bytes of a set of keys together
  Capacity,        \* capacity_bytes_
  Modes,           \* the L1ExpertCacheMode values to consider
  Prior,           \* Prior[k]: prior_frequency of the loaded profile
  PriorTotal,      \* prior_route_observations_
  PriorStrength,   \* profile_prior_strength_
  MaxAccess,       \* bound on next_access_
  MaxMisses,       \* bound on the misses counted
  MaxCycle,        \* bound on the forward cycle
  MaxObserved      \* bound on the observations of the profile

EvictingModes == {"lru", "lfu", "least_stale", "profiled"}
AllModes == {"disabled", "static_admission"} \cup EvictingModes

ASSUME StoreAssumption ==
  /\ IsFiniteSet(Keys)
  /\ Keys \subseteq [layer : Nat, expert : Nat]
  /\ Size \in [Keys -> Nat]
  /\ Capacity \in Nat
  /\ Modes \subseteq AllModes
  /\ MaxAccess \in Nat /\ MaxMisses \in Nat /\ MaxCycle \in Nat /\ MaxObserved \in Nat
  /\ Prior \in [Keys -> Nat] /\ PriorTotal \in Nat /\ PriorStrength \in Nat

\* Total adds sizes up.
ASSUME TotalAssumption ==
  /\ Total \in [SUBSET Keys -> Nat]
  /\ Total[{}] = 0
  /\ \A k \in Keys : Total[{k}] = Size[k]
  /\ \A S, T \in SUBSET Keys :
       S \cap T = {} => Total[S \cup T] = Total[S] + Total[T]

VARIABLES
  mode,           \* mode_, fixed by the constructor
  entries,        \* entries_: a function on the resident keys
  protected,      \* protected_: the selected set of the layer under way
  evictedCycle,   \* evicted_cycle_: a function on the keys ever evicted
  activeCycle,    \* active_cycle_
  activeLayer,    \* active_layer_
  nextAccess,     \* next_access_
  liveFrequency,  \* liveFrequency[k]: live_frequency of the session's profile
  liveTotal,      \* live_route_observations_
  stats           \* stats_

vars == <<mode, entries, protected, evictedCycle, activeCycle, activeLayer,
          nextAccess, liveFrequency, liveTotal, stats>>

resident == DOMAIN entries

Entry == [lastCycle : Nat, lastAccess : Nat, frequency : Nat]
Stats == [misses : Nat, bypasses : Nat, evictions : Nat, collisions : Nat,
          residentBytes : Int, peakBytes : Int]

TypeOK ==
  /\ mode \in AllModes
  /\ entries \in [resident -> Entry] /\ resident \subseteq Keys
  /\ protected \subseteq Keys
  /\ evictedCycle \in [DOMAIN evictedCycle -> Nat]
  /\ DOMAIN evictedCycle \subseteq Keys
  /\ activeCycle \in Nat /\ activeLayer \in Nat /\ nextAccess \in Nat
  /\ liveFrequency \in [Keys -> Nat] /\ liveTotal \in Nat
  /\ stats \in Stats

Init ==
  /\ mode \in Modes
  /\ entries = [k \in {} |-> 0]
  /\ protected = {}
  /\ evictedCycle = [k \in {} |-> 0]
  /\ activeCycle = 0 /\ activeLayer = 0 /\ nextAccess = 0
  /\ liveFrequency = [k \in Keys |-> 0] /\ liveTotal = 0
  /\ stats = [misses |-> 0, bypasses |-> 0, evictions |-> 0, collisions |-> 0,
              residentBytes |-> 0, peakBytes |-> 0]

-----------------------------------------------------------------------------
(* Choosing a victim.  Each policy ranks entries by a tuple of numbers; the *)
(* entry with the lexicographically least tuple goes first.                 *)

\* RuntimeProfile::usefulness, cleared of its common denominator: the order
\* of the scores is all a victim's choice depends on.
Usefulness(k) ==
  IF PriorTotal = 0 THEN liveFrequency[k]
  ELSE IF liveTotal = 0 THEN Prior[k]
  ELSE PriorStrength * Prior[k] + PriorTotal * liveFrequency[k]

\* Layers at or before the active one go first, from the left; later layers
\* only after them, from the right.
SpatialRank(k) ==
  IF k.layer <= activeLayer THEN <<0, k.layer>> ELSE <<1, -k.layer>>

Current(k) == entries[k].lastCycle = activeCycle

\* Mutant: the layer decides before the staleness does.
RankLayerFirst(k) ==
  IF mode = "least_stale"
  THEN SpatialRank(k) \o <<IF Current(k) THEN 1 ELSE 0, entries[k].lastAccess>>
  ELSE <<entries[k].lastAccess>>

Rank(k) ==
  LET access == <<entries[k].lastAccess>> IN
  CASE mode = "lru" -> access
    [] mode = "lfu" -> <<entries[k].frequency>> \o access
    [] mode = "least_stale" ->
         <<IF Current(k) THEN 1 ELSE 0>> \o SpatialRank(k) \o access
    [] OTHER -> <<Usefulness(k)>> \o access

Before(a, b) ==
  \E i \in DOMAIN Rank(a) :
    /\ Rank(a)[i] < Rank(b)[i]
    /\ \A j \in 1..(i - 1) : Rank(a)[j] = Rank(b)[j]

\* Mutant: the selected set is not protected.
CandidatesUnprotected == resident
\* Mutant: an entry of the current cycle is never given up.
CandidatesStale == {k \in resident \ protected : ~Current(k)}
Candidates == resident \ protected

\* Mutant: room for all but one byte of the payload is enough.
FitsButOne(k, gone) ==
  Size[k] - 1 <= Capacity - (stats.residentBytes - Total[gone])
\* capacity_bytes_ - resident_bytes once the entries of gone are erased.
Fits(k, gone) == Size[k] <= Capacity - (stats.residentBytes - Total[gone])

\* The eviction loop: candidates leave in policy order, the last of them only
\* because the payload did not fit without it, until the payload fits or no
\* candidate is left.
Victims(k, gone) ==
  /\ \A v \in gone, other \in Candidates \ gone : Before(v, other)
  /\ gone # {} => \E last \in gone :
                     /\ \A v \in gone \ {last} : Before(v, last)
                     /\ ~Fits(k, gone \ {last})
  /\ Fits(k, gone) \/ gone = Candidates

-----------------------------------------------------------------------------
(* get_or_load                                                             *)

Hit(k) ==
  /\ mode # "disabled" /\ k \in resident
  /\ nextAccess < MaxAccess
  /\ entries' = [entries EXCEPT ![k].lastCycle = activeCycle,
                                ![k].lastAccess = nextAccess,
                                ![k].frequency = @ + 1]
  /\ nextAccess' = nextAccess + 1
  /\ UNCHANGED <<mode, protected, evictedCycle, activeCycle, activeLayer, liveFrequency,
                 liveTotal, stats>>

\* A load that fails, or whose payload charged_bytes rejects, changes nothing;
\* a disabled store hands out what it loaded and counts nothing.
Transient(k) ==
  /\ mode = "disabled" \/ k \notin resident
  /\ UNCHANGED vars

Collides(k) == k \in DOMAIN evictedCycle /\ evictedCycle[k] = activeCycle

Missed(k) ==
  [stats EXCEPT !.misses = @ + 1,
                !.collisions = IF Collides(k) THEN @ + 1 ELSE @]

Misses(k) ==
  mode # "disabled" /\ k \notin resident /\ stats.misses < MaxMisses

\* Larger than the store, or, without eviction, than the room left.
BypassAtOnce(k) ==
  /\ Misses(k)
  /\ \/ Size[k] > Capacity
     \/ mode = "static_admission" /\ ~Fits(k, {})
  /\ stats' = [Missed(k) EXCEPT !.bypasses = @ + 1]
  /\ UNCHANGED <<mode, entries, protected, evictedCycle, activeCycle,
                 activeLayer, nextAccess, liveFrequency, liveTotal>>

\* erase the entries of gone, and remember the cycle.
Evict(gone, counted) ==
  [counted EXCEPT !.residentBytes = @ - Total[gone],
                  !.evictions = @ + Cardinality(gone)]
RememberEvicted(gone) ==
  evictedCycle' = [k \in DOMAIN evictedCycle \cup gone |->
                     IF k \in gone THEN activeCycle ELSE evictedCycle[k]]

LoopRuns(k) ==
  Misses(k) /\ Size[k] <= Capacity /\ (mode = "static_admission" => Fits(k, {}))

\* Every unprotected entry is gone and the payload still does not fit.
EvictAndBypass(k, gone) ==
  /\ LoopRuns(k) /\ Victims(k, gone) /\ ~Fits(k, gone)
  /\ entries' = [r \in resident \ gone |-> entries[r]]
  /\ RememberEvicted(gone)
  /\ stats' = [Evict(gone, Missed(k)) EXCEPT !.bypasses = @ + 1]
  /\ UNCHANGED <<mode, protected, activeCycle, activeLayer, nextAccess, liveFrequency,
                 liveTotal>>

Higher(a, b) == IF a > b THEN a ELSE b

EvictAndAdmit(k, gone) ==
  LET counted == Evict(gone, Missed(k))
      bytes == counted.residentBytes + Size[k]
  IN
  /\ LoopRuns(k) /\ Victims(k, gone) /\ Fits(k, gone)
  /\ nextAccess < MaxAccess
  /\ entries' = [r \in (resident \ gone) \cup {k} |->
                   IF r = k THEN [lastCycle |-> activeCycle,
                                  lastAccess |-> nextAccess, frequency |-> 1]
                   ELSE entries[r]]
  /\ nextAccess' = nextAccess + 1
  /\ RememberEvicted(gone)
  /\ stats' = [counted EXCEPT !.residentBytes = bytes,
                              !.peakBytes = Higher(@, bytes)]
  /\ UNCHANGED <<mode, protected, activeCycle, activeLayer, liveFrequency, liveTotal>>

-----------------------------------------------------------------------------
(* begin_access_set: the selected experts of one layer.  A forward visits   *)
(* its layers from the left and takes the next cycle number.  The profile   *)
(* counts the selection; only the profiled mode reads the counts.           *)

InForwardOrder(cycle, layer) ==
  \/ cycle = activeCycle /\ layer > activeLayer
  \/ cycle = activeCycle + 1 /\ cycle <= MaxCycle

BeginAccessSet(cycle, layer, selected) ==
  /\ InForwardOrder(cycle, layer)
  /\ activeCycle' = cycle
  /\ activeLayer' = layer
  /\ protected' = selected
  /\ entries' = [r \in resident |->
                   IF r \in selected THEN [entries[r] EXCEPT !.lastCycle = cycle]
                   ELSE entries[r]]
  /\ IF mode = "profiled"
     THEN /\ liveTotal + Cardinality(selected) <= MaxObserved
          /\ liveFrequency' = [k \in Keys |->
                       IF k \in selected THEN liveFrequency[k] + 1 ELSE liveFrequency[k]]
          /\ liveTotal' = liveTotal + Cardinality(selected)
     ELSE UNCHANGED <<liveFrequency, liveTotal>>
  /\ UNCHANGED <<mode, evictedCycle, nextAccess, stats>>

Layers == {k.layer : k \in Keys}
OfLayer(layer) == {k \in Keys : k.layer = layer}

GetOrLoad(k) ==
  \/ Hit(k) \/ Transient(k) \/ BypassAtOnce(k)
  \/ \E gone \in SUBSET Candidates : EvictAndBypass(k, gone) \/ EvictAndAdmit(k, gone)

\* The runtime loads what it has just selected.
Next ==
  \/ \E k \in protected : GetOrLoad(k)
  \/ \E cycle \in 0..MaxCycle, layer \in Layers :
       \E selected \in SUBSET OfLayer(layer) \ {{}} :
         BeginAccessSet(cycle, layer, selected)

Spec == Init /\ [][Next]_vars

-----------------------------------------------------------------------------
(* Properties                                                              *)

\* The byte account is exact after any sequence of evictions and admissions,
\* and neither residency nor its recorded peak ever exceeds the capacity, so
\* the unsigned capacity_bytes_ - resident_bytes never wraps around.
WithinCapacity ==
  /\ stats.residentBytes = Total[resident]
  /\ stats.residentBytes <= stats.peakBytes
  /\ stats.peakBytes <= Capacity

\* Every miss is accounted for: bypassed, evicted since, or still resident.
MissesAccountedFor ==
  stats.misses = stats.bypasses + stats.evictions + Cardinality(resident)

\* An expert the current layer has selected is never evicted to admit
\* another: the runtime's resident flags, read before the loads, stay true.
SelectedStayResident ==
  [][resident \cap protected \subseteq resident']_vars

\* When the selected set fits in the store as a whole, an evicting store can
\* admit every selected expert: whatever the policy, the history and the
\* sizes, the eviction loop for a selected miss ends with enough room.
AffordableSelectionFits ==
  (mode \in EvictingModes /\ Total[protected] <= Capacity) =>
    \A k \in protected \ resident :
      \A gone \in SUBSET Candidates : Victims(k, gone) => Fits(k, gone)

\* least_stale evicts an entry of the current cycle only when no unprotected
\* entry of an earlier cycle is left.
StaleGoFirst ==
  [][mode = "least_stale" /\ (\E k \in resident \ resident' : Current(k))
       => \A k \in (resident \cap resident') \ protected : Current(k)
    ]_vars

\* Among experts of one size, as a K3X model has, an eviction always makes
\* room: nothing is evicted for a payload that is then bypassed.
NoEvictionInVain ==
  [][(\A j, k \in resident \cup protected : Size[j] = Size[k])
       => (stats'.evictions > stats.evictions => stats'.bypasses = stats.bypasses)
    ]_vars

\* Evictions are in order and not for nothing: stale entries go first, nothing
\* of one size is evicted for a payload that is then bypassed, and every miss is
\* accounted for as bypassed, evicted since, or resident.
EvictsForAReason ==
  NoEvictionInVain /\ StaleGoFirst /\ [](TypeOK /\ MissesAccountedFor)

=============================================================================
