--------------------------- MODULE ReferenceSources ---------------------------
(***************************************************************************)
(* The two writers of sources of the Python reference.                      *)
(*                                                                         *)
(* write_bounded_expert_source of reference/k3x_ref/storage_fixture.py: the *)
(* source of one expert, written as a shard in chunks under a private       *)
(* partial name, renamed to the digest of its bytes, then described by a    *)
(* manifest written to a partial file and renamed over the old one.         *)
(*                                                                         *)
(* reference/k3x_ref/fixtures.py, as tools/generate_synthetic.py calls it:  *)
(* the weights of a synthetic model are drawn from a seed, written as two   *)
(* shards and a manifest, followed by the golden results of the model and   *)
(* the digests of all files, every file in place.                           *)
(*                                                                         *)
(* Either may be killed at any step; its files stay.  A digest is the       *)
(* content itself.                                                         *)
(***************************************************************************)
EXTENDS Integers, Sequences, SequencesExt

CONSTANTS
  Writers,         \* the writers of a bounded source
  Identities,      \* the (seed, layer, expert) a writer may be asked for
  TensorLength,    \* lengths of the tensors, in their order
  ChunkSizes,
  MaxWriterCalls,  \* bound on the calls made
  Seeds,                                           \* of the synthetic model
  SyntheticKinds, SyntheticDense, SyntheticExperts, \* and its configuration
  MaxGenerations                                   \* bound on the generations

\* chunk_bytes is checked to be positive.  Writers of one directory share the
\* name of the partial manifest; the tests and tools run one at a time.
ASSUME SourcesAssumption ==
  /\ \A v, w \in Writers : v = w
  /\ TensorLength \in Seq(Nat) /\ ChunkSizes \subseteq Nat \ {0}
  /\ SyntheticKinds \in Seq({"kda", "mla"}) /\ SyntheticExperts \in Nat

-----------------------------------------------------------------------------
(* The bounded source.  A shard's bytes are <<identity, tensor, position>>; *)
(* the header is left out: it depends on the identity.  A file name leads   *)
(* to an inode, so that two openings of one name share their contents.      *)

NumTensors == Len(TensorLength)
Tensor(id, t) == [i \in 1..TensorLength[t] |-> <<id, t, i>>]
Tensors(id) == [t \in 1..NumTensors |-> Tensor(id, t)]
Shard(id) == FlattenSeq(Tensors(id))

VARIABLES
  shards,           \* the digests a published shard is named for
  inode,            \* contents of manifest files: none, or one manifest
  partialManifest,  \* the inode source-manifest.json.partial leads to, or 0
  manifest,         \* the inode source-manifest.json leads to, or 0
  writer,           \* the writers' calls
  calls             \* calls made so far

boundedVars == <<shards, inode, partialManifest, manifest, writer, calls>>

NotWriting == [pc |-> "idle", id |-> "", chunk |-> 0, bytes |-> <<>>, tensor |-> 0,
               offset |-> 0, digests |-> <<>>, file |-> 0]

BoundedInit ==
  /\ shards = {} /\ inode = <<>> /\ partialManifest = 0 /\ manifest = 0
  /\ writer = [w \in Writers |-> NotWriting] /\ calls = 0

BeginSource(w) ==
  /\ writer[w].pc = "idle" /\ calls < MaxWriterCalls
  /\ \E id \in Identities, chunk \in ChunkSizes :
       writer' = [writer EXCEPT ![w] = [NotWriting EXCEPT !.pc = "tensors", !.id = id,
                                                          !.chunk = chunk, !.tensor = 1]]
  /\ calls' = calls + 1
  /\ UNCHANGED <<shards, inode, partialManifest, manifest>>

\* The next chunk of the tensor, from its offset on.
Chunk(c) ==
  LET left == TensorLength[c.tensor] - c.offset
      count == IF c.chunk < left THEN c.chunk ELSE left
  IN  SubSeq(Tensor(c.id, c.tensor), c.offset + 1, c.offset + count)

\* One chunk of a tensor; after its last chunk the tensor's digest is kept.
WriteChunk(w) ==
  /\ writer[w].pc = "tensors" /\ writer[w].tensor <= NumTensors
  /\ LET c == writer[w]
         offset == c.offset + Len(Chunk(c))
         bytes == c.bytes \o Chunk(c)
     IN writer' = [writer EXCEPT ![w] =
          IF offset < TensorLength[c.tensor]
          THEN [c EXCEPT !.bytes = bytes, !.offset = offset]
          ELSE [c EXCEPT !.bytes = bytes, !.offset = 0, !.tensor = @ + 1,
                  !.digests = Append(@, SubSeq(bytes, Len(bytes) - offset + 1, Len(bytes)))]]
  /\ UNCHANGED <<shards, inode, partialManifest, manifest, calls>>

\* The shard is whole: flushed, measured, hashed and renamed.
PublishShard(w) ==
  /\ writer[w].pc = "tensors" /\ writer[w].tensor > NumTensors
  /\ IF Len(writer[w].bytes) # Len(Shard(writer[w].id))
     THEN writer' = [writer EXCEPT ![w] = NotWriting] /\ UNCHANGED shards
     ELSE /\ shards' = shards \cup {writer[w].bytes}
          /\ writer' = [writer EXCEPT ![w].pc = "open"]
  /\ UNCHANGED <<inode, partialManifest, manifest, calls>>

\* open("w") creates the partial file or empties the one there is.
OpenManifest(w) ==
  /\ writer[w].pc = "open"
  /\ inode' = IF partialManifest = 0 THEN Append(inode, <<>>)
              ELSE [inode EXCEPT ![partialManifest] = <<>>]
  /\ partialManifest' = IF partialManifest = 0 THEN Len(inode) + 1 ELSE partialManifest
  /\ writer' = [writer EXCEPT ![w].pc = "write", ![w].file = partialManifest']
  /\ UNCHANGED <<shards, manifest, calls>>

\* The manifest is written to the open file and fsynced.
WriteManifest(w) ==
  /\ writer[w].pc = "write"
  /\ inode' = [inode EXCEPT ![writer[w].file] =
                 <<[id |-> writer[w].id, source |-> writer[w].bytes,
                    tensors |-> writer[w].digests]>>]
  /\ writer' = [writer EXCEPT ![w].pc = "replace"]
  /\ UNCHANGED <<shards, partialManifest, manifest, calls>>

\* os.replace; without a partial file it raises.
ReplaceManifest(w) ==
  /\ writer[w].pc = "replace"
  /\ IF partialManifest = 0 THEN UNCHANGED <<manifest, partialManifest>>
     ELSE manifest' = partialManifest /\ partialManifest' = 0
  /\ writer' = [writer EXCEPT ![w] = NotWriting]
  /\ UNCHANGED <<shards, inode, calls>>

\* The process dies; its private partial shard stays and is never read.
KillWriter(w) ==
  /\ writer[w].pc # "idle"
  /\ writer' = [writer EXCEPT ![w] = NotWriting]
  /\ UNCHANGED <<shards, inode, partialManifest, manifest, calls>>

BoundedNext == \E w \in Writers :
  BeginSource(w) \/ WriteChunk(w) \/ PublishShard(w) \/ OpenManifest(w) \/ WriteManifest(w)
    \/ ReplaceManifest(w) \/ KillWriter(w)
BoundedSpec == BoundedInit /\ [][BoundedNext]_boundedVars

-----------------------------------------------------------------------------
(* _build_weights: what is drawn, in the order it is drawn                  *)

KdaDraws == <<"q_proj", "k_proj", "v_proj", "q_conv", "k_conv", "v_conv", "o_proj",
              "f_a_proj", "f_b_proj", "b_proj", "a_log", "dt_bias", "g_proj">>
MlaDraws == <<"q_a_proj", "q_b_proj", "kv_a_proj", "kv_b_proj", "g_proj", "o_proj">>
ExpertDraws == <<"gate", "up", "down">>
MoeDraws == <<"router_weight", "correction_bias", "routed_down_proj", "routed_up_proj",
              "shared_gate", "shared_up", "shared_down">>

\* Names are <<layer, part, expert, role>>, the layer 0 for the whole model.
Named(l, part, e, roles) == [i \in DOMAIN roles |-> <<l, part, e, roles[i]>>]
ExpertTensors(l) ==
  FlattenSeq([e \in 1..SyntheticExperts |-> Named(l, "expert", e, ExpertDraws)])
FeedForwardDraws(l) ==
  IF l \in SyntheticDense THEN Named(l, "dense", 0, ExpertDraws)
  ELSE ExpertTensors(l) \o Named(l, "moe", 0, MoeDraws)
LayerDraws(l) ==
  Named(l, "attention", 0, IF SyntheticKinds[l] = "kda" THEN KdaDraws ELSE MlaDraws)
    \o FeedForwardDraws(l) \o Named(l, "residual", 0, <<"attention", "mlp">>)
Draws ==
  FlattenSeq([l \in DOMAIN SyntheticKinds |-> LayerDraws(l)])
    \o Named(0, "model", 0, <<"embeddings", "lm_head", "output_residual">>)

\* A drawn tensor is <<seed, number of the draw>>.  The tensors that are ones,
\* and the two tensors of a packed matrix told apart, are left out:
\* _collect_tensors names them beside these.
Weights(s) == [n \in ToSet(Draws) |-> <<s, CHOOSE i \in DOMAIN Draws : Draws[i] = n>>]

\* sorted(tensors), cut at (n + 1) // 2: any fixed order, here that of the draws.
Midpoint == (Len(Draws) + 1) \div 2
ShardNames(half) ==
  ToSet(IF half = 1 THEN SubSeq(Draws, 1, Midpoint) ELSE SubSeq(Draws, Midpoint + 1, Len(Draws)))

-----------------------------------------------------------------------------
(* The synthetic source                                                    *)

\* Mutant: the digests are written before the golden results.
SyntheticFilesDigestsEarly == <<"shard-1", "shard-2", "source-manifest", "manifest.sha256", "golden">>
SyntheticFiles == <<"shard-1", "shard-2", "source-manifest", "golden", "manifest.sha256">>

Absent == [state |-> "absent"]
Torn == [state |-> "torn"]
Written(content) == [state |-> "whole", content |-> content]

VARIABLES files,        \* the files of the directory
          seed,         \* the seed of the generation that runs
          next,         \* the number of the file it writes next, 0 when none runs
          open,         \* whether that file is open
          generations

syntheticVars == <<files, seed, next, open, generations>>

SyntheticInit ==
  /\ files = [f \in ToSet(SyntheticFiles) |-> Absent]
  /\ seed \in Seeds /\ next = 0 /\ open = FALSE /\ generations = 0

Generate ==
  /\ next = 0 /\ generations < MaxGenerations
  /\ seed' \in Seeds /\ next' = 1 /\ generations' = generations + 1
  /\ UNCHANGED <<files, open>>

\* What a generation from seed s writes into the file: the digests are of the
\* files there are, whoever wrote them.
FileContent(s, f) ==
  CASE f = "shard-1" -> [n \in ShardNames(1) |-> Weights(s)[n]]
    [] f = "shard-2" -> [n \in ShardNames(2) |-> Weights(s)[n]]
    [] f = "source-manifest" ->
         [seed |-> s, shardOf |-> [n \in ToSet(Draws) |->
            IF n \in ShardNames(1) THEN "shard-1" ELSE "shard-2"]]
    [] f = "golden" -> [model |-> Weights(s)]
    [] f = "manifest.sha256" ->
         [g \in {g \in ToSet(SyntheticFiles) : g # f /\ files[g] # Absent} |-> files[g]]

OpenFile ==
  /\ next # 0 /\ ~open
  /\ files' = [files EXCEPT ![SyntheticFiles[next]] = Torn]
  /\ open' = TRUE
  /\ UNCHANGED <<seed, next, generations>>

WriteFile ==
  /\ open
  /\ files' = [files EXCEPT ![SyntheticFiles[next]] =
                 Written(FileContent(seed, SyntheticFiles[next]))]
  /\ open' = FALSE /\ next' = (next + 1) % (Len(SyntheticFiles) + 1)
  /\ UNCHANGED <<seed, generations>>

KillGeneration ==
  /\ next # 0
  /\ next' = 0 /\ open' = FALSE
  /\ UNCHANGED <<files, seed, generations>>

SyntheticNext == Generate \/ OpenFile \/ WriteFile \/ KillGeneration
SyntheticSpec == SyntheticInit /\ [][SyntheticNext]_syntheticVars

-----------------------------------------------------------------------------
\* Types: names lead to inodes there are; a file is open only while a
\* generation runs.
SourcesTypeOK ==
  /\ \A name \in {partialManifest, manifest} : name = 0 \/ name \in DOMAIN inode
  /\ \A w \in Writers :
       /\ writer[w].pc \in {"idle", "tensors", "open", "write", "replace"}
       /\ writer[w].offset >= 0 /\ Len(writer[w].digests) <= NumTensors
  /\ DOMAIN files = ToSet(SyntheticFiles)
  /\ next \in 0..Len(SyntheticFiles) /\ (open => next # 0)

\* "An interrupted regeneration leaves the prior manifest and referenced shard
\* consistent": whenever there is a manifest it is whole, the shard it names is
\* published, and its digests are those of the tensors in that shard.
ManifestIsConsistent ==
  manifest # 0 =>
    \E id \in Identities :
      /\ inode[manifest] = <<[id |-> id, source |-> Shard(id), tensors |-> Tensors(id)]>>
      /\ Shard(id) \in shards

\* The shard is a function of what was asked for: whatever the size of the
\* chunks and whoever was interrupted, a published shard is the one its
\* identity determines, so that a regeneration reuses its name.
ShardIsDetermined == \A s \in shards : \E id \in Identities : s = Shard(id)

\* Once published a manifest is replaced, never removed, and its shard stays.
KeepsPublished ==
  /\ manifest # 0 => manifest' # 0
  /\ shards \subseteq shards'

IsWhole(f) == files[f].state = "whole"

\* Where the digests of a directory verify, it is what one generation leaves:
\* shards, manifest and golden results of one seed, never of two generations
\* one of which was killed.
DigestsVouch ==
  LET digests == files["manifest.sha256"].content IN
  IsWhole("manifest.sha256") /\ (\A f \in DOMAIN digests : files[f] = digests[f]) =>
    /\ \A f \in ToSet(SyntheticFiles) : IsWhole(f)
    /\ LET s == files["source-manifest"].content.seed
           both == <<files["shard-1"].content, files["shard-2"].content>>
       IN  /\ \A i \in 1..2 : \A n \in DOMAIN both[i] : both[i][n] = Weights(s)[n]
           /\ files["golden"].content.model = Weights(s)

\* A source that a generation left holds every tensor of the model once, where
\* its manifest says, and no tensor repeats the draw of another.
SourceIsWholeModel ==
  (\A f \in {"source-manifest", "shard-1", "shard-2"} : IsWhole(f)) =>
    LET first == files["shard-1"].content
        second == files["shard-2"].content
        shardOf == files["source-manifest"].content.shardOf
    IN /\ DOMAIN first \cap DOMAIN second = {}
       /\ DOMAIN first \cup DOMAIN second = ToSet(Draws)
       /\ \A n \in ToSet(Draws) : n \in DOMAIN files[shardOf[n]].content
       /\ \A held \in {first, second} :
            \A n, m \in DOMAIN held : held[n] = held[m] => n = m

\* Whatever regeneration of a bounded source is interrupted, the manifest
\* there is is whole and describes the published shard, which its identity
\* alone determines, and nothing published is taken away; where the digests
\* of a synthetic directory verify, it is the whole work of one generation,
\* and a whole source holds every tensor once.
SourcesAreConsistent ==
  /\ [](SourcesTypeOK /\ ManifestIsConsistent /\ ShardIsDetermined)
  /\ [](DigestsVouch /\ SourceIsWholeModel)
  /\ [][KeepsPublished]_<<manifest, shards>>
=============================================================================
