--------------------------- MODULE RuntimeProfile ---------------------------
(***************************************************************************)
(* The profile of routed experts: a session counts the experts selected and *)
(* the pairs selected in adjacent layers of one forward, on top of what an  *)
(* earlier session saved; saving merges both into one file, by way of a     *)
(* temporary one; loading checks the file and takes it for the prior.       *)
(*                                                                         *)
(* Encodings are left out, so that a file is its records; metadata records, *)
(* which nothing else depends on, and checksums are left out with them.     *)
(* The bounds are scaled down in proportion: the frequencies of two         *)
(* sessions fit in a file, the transitions of one may not.                  *)
(***************************************************************************)
EXTENDS Integers, Sequences, FiniteSets, SequencesExt

CONSTANTS
  ProfileExperts,        \* [layer, expert] keys, as pairs
  MaximumFrequency,      \* maximum_frequency_records
  MaximumTransition,     \* maximum_transition_records
  MaximumCount,          \* the largest 64-bit count
  HotBankSize,           \* persisted_hot_bank_size
  MaximumProfileBytes,   \* of a saved file
  FrequencyBytes,        \* of a frequency line
  TransitionBytes,       \* of a transition line
  Selections,            \* what a layer may select: sequences of ProfileExperts
  OldProfiles,           \* files an earlier program may have left
  MaxObservations,       \* bound on the layers observed by all sessions
  MaxSessions            \* bound on the sessions

VARIABLES
  prior,     \* prior_frequency_, prior_transitions_, prior_route_observations_
  live,      \* the same of this session
  previous,  \* previous_cycle_, previous_layer_ and previous_selected_
  disk,      \* the file and the temporary file
  session,   \* where the program is, and in the loops of an observation
  history    \* what this session observed, in order

profileVars == <<prior, live, previous, disk, session, history>>

NoCounts == [frequency |-> <<>>, transitions |-> <<>>, observations |-> 0]
CountOf(counts, key) == IF key \in DOMAIN counts THEN counts[key] ELSE 0

NotObserving == [cycle |-> 0, layer |-> 0, selected |-> <<>>]
NewSession ==
  [pc |-> "start", number |-> 1, observed |-> 0, current |-> NotObserving, from |-> 1, to |-> 1]

ProfileInit ==
  /\ prior = NoCounts /\ live = NoCounts
  /\ previous = {}
  /\ \E file \in OldProfiles \cup {{}} : disk = [file |-> file, temporary |-> {}]
  /\ session = NewSession
  /\ history = <<>>

-----------------------------------------------------------------------------
(* observe                                                                  *)

\* bounded_increment: whether it counts, and the counts after it.
Counts(counts, key, limit) ==
  IF key \in DOMAIN counts THEN counts[key] # MaximumCount
  ELSE Cardinality(DOMAIN counts) < limit
Increment(counts, key, limit) ==
  IF Counts(counts, key, limit)
  THEN [k \in DOMAIN counts \cup {key} |-> CountOf(counts, k) + IF k = key THEN 1 ELSE 0]
  ELSE counts

\* Mutant of Adjacent: the layer before may be of another forward.
AdjacentForward(current) == \E p \in previous : p.layer + 1 = current.layer

\* The layer before is the last that was observed, in the same forward.
Adjacent(current) == \E p \in previous : p.cycle = current.cycle /\ p.layer + 1 = current.layer

ObserveSelection(cycle, layer, selected) ==
  /\ session.pc = "run" /\ session.observed < MaxObservations
  /\ LET current == [cycle |-> cycle, layer |-> layer, selected |-> selected] IN
     /\ history' = Append(history, current)
     /\ session' = [session EXCEPT !.pc = IF Adjacent(current) THEN "pairs" ELSE "keys",
                      !.observed = @ + 1, !.current = current]
  /\ UNCHANGED <<prior, live, previous, disk>>

\* The two loops over the pairs of the layer before with this one, a pair a step.
CountPair ==
  /\ session.pc = "pairs"
  /\ \E p \in previous :
       LET pair == <<p.selected[session.from], session.current.selected[session.to]>> IN
       /\ live' = [live EXCEPT !.transitions = Increment(@, pair, MaximumTransition)]
       /\ session' = IF session.to < Len(session.current.selected)
                     THEN [session EXCEPT !.to = @ + 1]
                     ELSE IF session.from < Len(p.selected)
                     THEN [session EXCEPT !.from = @ + 1, !.to = 1]
                     ELSE [session EXCEPT !.pc = "keys", !.from = 1, !.to = 1]
  /\ UNCHANGED <<prior, previous, disk, history>>

\* The loop over the experts; what was observed is then the layer before.
CountKey ==
  /\ session.pc = "keys"
  /\ LET key == session.current.selected[session.to]
         counted == Counts(live.frequency, key, MaximumFrequency)
     IN  live' = [live EXCEPT !.frequency = Increment(@, key, MaximumFrequency),
                    !.observations = @ + IF counted /\ @ # MaximumCount THEN 1 ELSE 0]
  /\ IF session.to < Len(session.current.selected)
     THEN session' = [session EXCEPT !.to = @ + 1] /\ UNCHANGED previous
     ELSE /\ session' = [session EXCEPT !.pc = "run", !.current = NotObserving, !.to = 1]
          /\ previous' = {session.current}
  /\ UNCHANGED <<prior, disk, history>>

-----------------------------------------------------------------------------
(* hot_bank, save and load                                                  *)

Units(counts) == UNION {{k} \X (1..counts[k]) : k \in DOMAIN counts}
Sum(counts) == Cardinality(Units(counts))
Merge(a, b) == [k \in DOMAIN a \cup DOMAIN b |-> CountOf(a, k) + CountOf(b, k)]
Overflows(counts) == \E k \in DOMAIN counts : counts[k] > MaximumCount
Capped(count) == IF count > MaximumCount THEN MaximumCount ELSE count
Saturated(counts) == [k \in DOMAIN counts |-> Capped(counts[k])]

\* The most frequent experts, the smaller key first among equals.
Precedes(k, j) == k[1] < j[1] \/ (k[1] = j[1] /\ k[2] < j[2])
HotBank(frequency) ==
  LET hotter(k, j) == frequency[k] > frequency[j] \/ (frequency[k] = frequency[j] /\ Precedes(k, j))
      ordered == SetToSortSeq(DOMAIN frequency, hotter)
  IN  SubSeq(ordered, 1, IF Len(ordered) < HotBankSize THEN Len(ordered) ELSE HotBankSize)

Merged ==
  [frequency |-> Merge(prior.frequency, live.frequency),
   transitions |-> Merge(prior.transitions, live.transitions),
   observations |-> prior.observations + live.observations]
FileOf(counts) ==
  [whole |-> TRUE, counts |-> counts, hot |-> HotBank(Saturated(counts.frequency))]
Part == [whole |-> FALSE, counts |-> NoCounts, hot |-> <<>>]
Bytes(counts) ==
  FrequencyBytes * Cardinality(DOMAIN counts.frequency)
    + TransitionBytes * Cardinality(DOMAIN counts.transitions)

\* What the end of a session refuses to write.
SaveRefuses ==
  \/ Overflows(Merged.frequency) \/ Overflows(Merged.transitions)
  \/ Merged.observations > MaximumCount
  \/ Bytes(Merged) > MaximumProfileBytes

Positive(counts) ==
  /\ \A k \in DOMAIN counts.frequency : counts.frequency[k] > 0
  /\ \A k \in DOMAIN counts.transitions : counts.transitions[k] > 0
Loads(file) ==
  /\ file.whole
  /\ Cardinality(DOMAIN file.counts.frequency) <= MaximumFrequency
  /\ Cardinality(DOMAIN file.counts.transitions) <= MaximumTransition
  /\ Positive(file.counts)
  /\ Sum(file.counts.frequency) <= MaximumCount
  /\ Sum(file.counts.frequency) = file.counts.observations
  /\ file.hot = HotBank(file.counts.frequency)

\* A session without a file starts afresh; one that is given a file it cannot
\* load ends before it runs.
Load ==
  /\ session.pc = "start"
  /\ LET loaded == \A file \in disk.file : Loads(file) IN
     /\ session' = [session EXCEPT !.pc = IF loaded THEN "run" ELSE "end"]
     /\ prior' = IF loaded /\ disk.file # {} THEN (CHOOSE file \in disk.file : TRUE).counts
                 ELSE NoCounts
  /\ live' = NoCounts /\ previous' = {} /\ history' = <<>>
  /\ UNCHANGED disk

Saves(pc) == session' = [session EXCEPT !.pc = pc] /\ UNCHANGED <<prior, live, previous, history>>

Save ==
  /\ session.pc = "run"
  /\ IF SaveRefuses THEN Saves("refused") /\ UNCHANGED disk
     ELSE \/ Saves("write") /\ disk' = [disk EXCEPT !.temporary = {Part}]
          \/ Saves("failed") /\ UNCHANGED disk   \* it cannot be opened
Write ==
  /\ session.pc = "write"
  /\ disk' = [disk EXCEPT !.temporary = {FileOf(Merged)}]
  /\ Saves("rename")
Rename ==
  /\ session.pc = "rename"
  /\ disk' = [file |-> disk.temporary, temporary |-> {}]
  /\ Saves("saved")
\* A file that cannot be written or renamed is removed.
SaveFails ==
  /\ session.pc \in {"write", "rename"}
  /\ disk' = [disk EXCEPT !.temporary = {}]
  /\ Saves("failed")

\* The program ends, or is killed, and is run again with the same file.
Again ==
  /\ session.pc # "start" /\ session.number < MaxSessions
  /\ session' = [NewSession EXCEPT !.number = session.number + 1, !.observed = session.observed]
  /\ UNCHANGED <<prior, live, previous, disk, history>>

\* A forward goes through the layers in order; a later one has a later cycle.
ObserveNext ==
  \E selected \in Selections :
    \/ previous = {} /\ ObserveSelection(1, selected[1][1], selected)
    \/ \E p \in previous : \E cycle \in {p.cycle, p.cycle + 1} :
         /\ cycle = p.cycle => p.layer < selected[1][1]
         /\ ObserveSelection(cycle, selected[1][1], selected)
ProfileNext ==
  Load \/ ObserveNext \/ CountPair \/ CountKey \/ Save \/ Write \/ Rename \/ SaveFails \/ Again

ProfileSpec == ProfileInit /\ [][ProfileNext]_profileVars

\* A table counts keys; an earlier program left a file that it had saved.
IsTable(counts, keys) == DOMAIN counts \subseteq keys /\ counts \in [DOMAIN counts -> Nat]
AreCounts(counts) ==
  /\ counts = [frequency |-> counts.frequency, transitions |-> counts.transitions,
               observations |-> counts.observations]
  /\ IsTable(counts.frequency, ProfileExperts)
  /\ IsTable(counts.transitions, ProfileExperts \X ProfileExperts)
  /\ counts.observations \in Nat
WasSaved(file) ==
  /\ file = FileOf(file.counts)
  /\ AreCounts(file.counts) /\ Positive(file.counts) /\ ~Overflows(file.counts.frequency)
  /\ \/ Sum(file.counts.frequency) = file.counts.observations
     \/ Sum(file.counts.frequency) > MaximumCount

ProfileAssumption ==
  /\ ProfileExperts \subseteq Nat \X Nat /\ IsFiniteSet(ProfileExperts)
  /\ Selections \subseteq Seq(ProfileExperts) \ {<<>>}
  /\ MaximumFrequency \in Nat /\ MaximumTransition \in Nat /\ MaximumCount \in Nat \ {0}
  /\ MaxObservations \in Nat /\ MaxSessions \in Nat
  /\ \A old \in OldProfiles : \A file \in old : WasSaved(file)
ASSUME ProfileConstants == ProfileAssumption

-----------------------------------------------------------------------------
(* Properties                                                              *)

\* The uses of an expert, and of a pair, in a history: where they are.
Uses(past, key) ==
  UNION {{i} \X {j \in DOMAIN past[i].selected : past[i].selected[j] = key} : i \in DOMAIN past}
Follows(past, i) ==
  i > 1 /\ past[i - 1].cycle = past[i].cycle /\ past[i - 1].layer + 1 = past[i].layer
UsesAdjacent(past, from, to) ==
  UNION {{i} \X {j \in DOMAIN past[i - 1].selected : past[i - 1].selected[j] = from}
             \X {j \in DOMAIN past[i].selected : past[i].selected[j] = to} :
         i \in {k \in DOMAIN past : Follows(past, k)}}
Times(key) == Cardinality(Uses(history, key))
TimesAdjacent(from, to) == Cardinality(UsesAdjacent(history, from, to))

\* What the session counts is what it observed: every expert by the times it
\* was selected and every pair by the times it was adjacent, up to the largest
\* count, unless it came when the map was full; and the observations are the sum
\* of the frequencies.
CountsAreHistory ==
  session.pc \notin {"start", "pairs", "keys"} =>
    /\ \A key \in DOMAIN live.frequency : live.frequency[key] = Capped(Times(key))
    /\ \A key \in ProfileExperts \ DOMAIN live.frequency :
         Times(key) > 0 => Cardinality(DOMAIN live.frequency) = MaximumFrequency
    /\ \A pair \in DOMAIN live.transitions :
         live.transitions[pair] = Capped(TimesAdjacent(pair[1], pair[2]))
    /\ \A from, to \in ProfileExperts :
         <<from, to>> \notin DOMAIN live.transitions /\ TimesAdjacent(from, to) > 0 =>
           Cardinality(DOMAIN live.transitions) = MaximumTransition
    /\ live.observations = Capped(Sum(live.frequency))
    /\ Sum(prior.frequency) = prior.observations

\* The file is a whole profile at every moment; a session that has saved finds
\* in it its prior and all it counted, and a later one takes it up unless it has
\* more records than a profile may, or frequencies that sum to more than a count.
FileIsMerged ==
  /\ \A file \in disk.file : file = FileOf(file.counts)
  /\ session.pc = "saved" => disk = [file |-> {FileOf(Merged)}, temporary |-> {}]
  /\ session.pc = "end" =>
       \E file \in disk.file : \/ Cardinality(DOMAIN file.counts.frequency) > MaximumFrequency
                               \/ Cardinality(DOMAIN file.counts.transitions) > MaximumTransition
                               \/ Sum(file.counts.frequency) > MaximumCount

\* The guide has it that a profile resumes and persists what was observed,
\* within bounds: a session whose counts stay in range saves them, and what was
\* saved is loaded by the next.
ResumesAndPersists ==
  /\ session.pc # "end"
  /\ session.pc = "refused" =>
       \/ Overflows(Merged.frequency) \/ Overflows(Merged.transitions)
       \/ Merged.observations > MaximumCount

\* A profile counts what was observed, up to its bounds, and the file it is saved
\* in is whole at every moment and, after a save, the prior and all of the session.
ProfileIsHistory == CountsAreHistory /\ FileIsMerged
=============================================================================
