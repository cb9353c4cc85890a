----------------------------- MODULE IndexContents -----------------------------
(***************************************************************************)
(* What the embedding index holds and serves (turbovault-tools,            *)
(* embedding_engine.rs): the settings it is built with, a rebuild that     *)
(* keeps the chunks of unchanged files and asks an endpoint for the rest,  *)
(* when the index may be used and when it is refreshed, what its status    *)
(* counts, and the passages a search hands out.                            *)
(*                                                                         *)
(* A file is [path, front, headings, text, readable, modified], its path a *)
(* sequence of names and its text one of pieces; a hash is what was hashed.*)
(* When the engine takes these steps is the model of DerivedViews.         *)
(***************************************************************************)
EXTENDS Integers, FiniteSets, Sequences, SequencesExt, FiniteSetsExt

CONSTANTS
  None,
  Type,      \* of the last name of a path: "md", "pdf", "docx" or another
  Schema,    \* this build's version of the index
  Chunker    \* this build's version of its chunks

Failed == [failed |-> TRUE]

-----------------------------------------------------------------------------
(* The settings, as the environment gives them.  A number that is not set  *)
(* is -1, one that cannot be read -2; a text that is not set is None.      *)

Number(value, default) == IF value = -1 THEN default ELSE value
IsSwitch(value) == value \in {None, "on", "off"}
Given(value) == IF value = "blank" THEN None ELSE value

SelectRerankerKey(dedicated, embedding) == IF dedicated # None THEN dedicated ELSE embedding

IndexRoot(env) ==
  CASE env.dir # None -> <<env.dir>>
    [] env.dir = None /\ env.cache # None -> <<env.cache, "turbovault/embeddings">>
    [] env.dir = None /\ env.cache = None /\ env.home # None -> <<env.home, ".cache/turbovault/embeddings">>
    [] OTHER -> <<".turbovault/embeddings">>

\* The embedding key falls in where the reranker has none; the reranker is on
\* where its switch says so, and without a switch where it has an endpoint.
FromEnvironment(env, vault) ==
  LET chunk == Number(env.chunk, 2400)
      overlap == Number(env.overlap, 200)
      batch == Number(env.batch, 16)
      docMax == Number(env.docMax, 50 * 1024 * 1024)
      refresh == Number(env.refresh, 21600)
      rerankBatch == Number(env.rerankBatch, 12)
      endpoint == IF env.rerankEndpoint = None THEN "default" ELSE env.rerankEndpoint
      model == IF env.model = None THEN "default" ELSE env.model
  IN  IF \/ -2 \in {chunk, overlap, batch, docMax, refresh, rerankBatch}
         \/ overlap >= chunk \/ batch = 0 \/ docMax = 0
         \/ ~IsSwitch(env.documents)
      THEN Failed
      ELSE [failed |-> FALSE, model |-> model, key |-> Given(env.key), chunk |-> chunk, overlap |-> overlap, batch |-> batch,
            documents |-> env.documents = "on", docMax |-> docMax, refresh |-> refresh,
            reranks |-> IF env.reranks = None THEN endpoint # "blank" ELSE env.reranks \notin {"blank", "0", "false"},
            rerankEndpoint |-> endpoint, rerankBatch |-> rerankBatch,
            rerankKey |-> SelectRerankerKey(Given(env.rerankKey), Given(env.key)),
            dir |-> IndexRoot(env) \o <<vault, model>>]

-----------------------------------------------------------------------------
(* What may stand in the index.                                            *)

IsDocumentPath(path) == Type[Last(path)] \in {"pdf", "docx"}
IsPathExcluded(path) == Range(path) \cap {".trash", ".obsidian", ".git", "node_modules"} # {}
\* barred: the paths the vault's policy excludes.
SourceIsExcluded(path, barred) == IsPathExcluded(path) \/ path \in barred

\* Why the index cannot be used, if it cannot.
IndexMismatch(index, config, vault) ==
  \/ index.schema # Schema \/ index.chunker # Chunker
  \/ index.model # config.model
  \/ index.vault # vault
  \/ index.documents # config.documents \/ index.docMax # config.docMax

-----------------------------------------------------------------------------
(* The chunks of a file.                                                   *)

\* So many pieces each, some of them repeated (NoteChunks has the real cuts).
Cut(text, size, overlap) ==
  LET step == size - overlap
      count == IF text = <<>> THEN 0 ELSE IF Len(text) <= size THEN 1 ELSE 1 + (Len(text) - size + step - 1) \div step
  IN  [k \in 1 .. count |-> SubSeq(text, 1 + (k - 1) * step, Min({Len(text), (k - 1) * step + size}))]

Title(file) ==
  CASE file.front # None /\ ~IsDocumentPath(file.path) -> file.front
    [] file.front = None /\ file.headings # <<>> /\ ~IsDocumentPath(file.path) -> Head(file.headings)
    [] OTHER -> Last(file.path)

\* A chunk of nothing but blanks is not embedded, but it has its number.
QueueTextChunks(file, config) ==
  LET pieces == Cut(file.text, config.chunk, config.overlap)
      Pending(k) == [id |-> <<file.path, k - 1>>, path |-> file.path, title |-> Title(file), text |-> pieces[k], hash |-> file.text,
                     input |-> [title |-> Title(file), type |-> Type[Last(file.path)], path |-> file.path, text |-> pieces[k]]]
  IN  SelectSeq([k \in DOMAIN pieces |-> Pending(k)], LAMBDA c : Range(c.text) # {" "})

-----------------------------------------------------------------------------
(* The endpoint: for every text a vector with the text's index, in any     *)
(* order, as long as all goes well.                                        *)

Items(inputs, model, style) ==
  LET item(i, size) == [index |-> i, vector |-> [of |-> inputs[i], model |-> model, size |-> size]]
      whole == [i \in DOMAIN inputs |-> item(i, 1)]
  IN  CASE style = "whole" -> whole
        [] style = "reversed" -> Reverse(whole)
        [] style = "short" -> Front(whole)
        [] style = "wide" -> Append(Front(whole), item(Len(inputs), 2))
        [] style = "down" -> <<>>

\* The vectors in the order of the texts.
Embed(inputs, model, style) ==
  IF style = "down" THEN Failed
  ELSE [failed |-> FALSE,
        vectors |-> LET sorted == SortSeq(Items(inputs, model, style), LAMBDA a, b : a.index < b.index)
                    IN  [i \in DOMAIN sorted |-> sorted[i].vector]]

-----------------------------------------------------------------------------
(* The progress of a rebuild.                                              *)

BeginReindex == [running |-> TRUE, phase |-> "scanning", done |-> 0, total |-> 0, error |-> FALSE]
SetPhase(progress, phase, done, total) == [progress EXCEPT !.phase = phase, !.done = done, !.total = total]
SetProgress(progress, done, total) == [progress EXCEPT !.done = done, !.total = total]
FinishReindex(progress, failed) ==
  [progress EXCEPT !.running = FALSE, !.phase = IF failed THEN "failed" ELSE "complete", !.error = failed,
                   !.done = IF failed THEN @ ELSE progress.total]

\* Batch after batch; the first that fails ends the rebuild.  t is [failed, chunks, trail].
TakeAnswer(t, batch, answer, total) ==
      IF t.failed \/ answer.failed THEN [t EXCEPT !.failed = TRUE]
      ELSE IF Len(answer.vectors) # Len(batch) THEN [t EXCEPT !.failed = TRUE]
      ELSE [failed |-> FALSE,
            chunks |-> t.chunks \cup {[id |-> batch[i].id, path |-> batch[i].path, title |-> batch[i].title, text |-> batch[i].text,
                                       hash |-> batch[i].hash, vector |-> answer.vectors[i]] : i \in DOMAIN batch},
            trail |-> Append(t.trail, SetProgress(Last(t.trail), Last(t.trail).done + Len(batch), total))]
EmbedBatch(t, batch, model, style, total) == TakeAnswer(t, batch, Embed([i \in DOMAIN batch |-> batch[i].input], model, style), total)

EmbedAll(pending, config, styles) ==
  LET size == config.batch
      batches == [b \in 1 .. (Len(pending) + size - 1) \div size |-> SubSeq(pending, (b - 1) * size + 1, Min({b * size, Len(pending)}))]
      start == [failed |-> FALSE, chunks |-> {}, trail |-> <<BeginReindex, SetPhase(BeginReindex, "embedding", 0, Len(pending))>>]
  IN  FoldLeft(LAMBDA t, b : EmbedBatch(t, batches[b], config.model, styles[Min({b, Len(styles)})], Len(pending)), start, [b \in DOMAIN batches |-> b])

-----------------------------------------------------------------------------
(* The rebuild.                                                            *)

DocumentManifest(files) == {[path |-> x.path, size |-> Len(x.text), modified |-> x.modified] : x \in files}

\* What scan_vault and scan_files_by_extensions admit.
Scanned(files, barred) == {x \in files : x.path \notin barred}
Notes(files, barred) == {x \in Scanned(files, barred) : Type[Last(x.path)] = "md" /\ ~IsPathExcluded(x.path) /\ x.readable}
Attachments(files, barred, config) == {x \in Scanned(files, barred) : IsDocumentPath(x.path) /\ Len(x.text) <= config.docMax}

\* The chunks the old index has of a file whose text it has.
Kept(index, config, file) ==
  IF index = None THEN {}
  ELSE IF index.schema # Schema \/ index.chunker # Chunker \/ index.model # config.model THEN {}
  ELSE {c \in index.chunks : c.path = file.path /\ c.hash = file.text}

StoredIndex(config, vault, built, manifest, chunks) ==
  [schema |-> Schema, chunker |-> Chunker, model |-> config.model, vault |-> vault, built |-> built, documents |-> config.documents,
   docMax |-> config.docMax, manifest |-> manifest, chunks |-> chunks,
   dimension |-> IF chunks = {} THEN 0 ELSE (CHOOSE c \in chunks : TRUE).vector.size]

Sources(files, barred, config, attachments) ==
  Notes(files, barred) \cup {x \in attachments : ~IsPathExcluded(x.path) /\ x.readable}
Queued(index, config, sources) ==
  FlattenSeq(SetToSeq({QueueTextChunks(x, config) : x \in {y \in sources : Kept(index, config, y) = {}}}))

\* Either a whole new index, or the old one and a mark that it is stale.
Written(engine, config, vault, now, manifest, chunks, failed, trail) ==
  LET uneven == Cardinality({c.vector.size : c \in chunks}) > 1
      last == IF failed THEN Last(trail) ELSE SetPhase(Last(trail), "writing", Last(trail).done, Last(trail).total)
      whole == Append(trail, FinishReindex(last, failed \/ uneven))
  IN  IF failed \/ uneven THEN [engine EXCEPT !.stale = TRUE, !.trail = whole]
      ELSE [index |-> StoredIndex(config, vault, now, manifest, chunks), stale |-> FALSE, incompatible |-> FALSE,
            running |-> engine.running, trail |-> whole]
WithVectors(engine, config, vault, now, manifest, kept, embedded) ==
  Written(engine, config, vault, now, manifest, kept \cup embedded.chunks, embedded.failed, embedded.trail)
FromSources(engine, config, vault, now, styles, manifest, sources) ==
  WithVectors(engine, config, vault, now, manifest, UNION {Kept(engine.index, config, x) : x \in sources},
              EmbedAll(Queued(engine.index, config, sources), config, styles))
WithAttachments(engine, files, barred, config, vault, now, styles, attachments) ==
  FromSources(engine, config, vault, now, styles, DocumentManifest(attachments), Sources(files, barred, config, attachments))
RunReindex(engine, files, barred, config, vault, now, styles) ==
  WithAttachments(engine, files, barred, config, vault, now, styles,
                  IF config.documents THEN Attachments(files, barred, config) ELSE {})

\* A rebuild somebody waits for: not while another one runs.
Reindex(engine, files, barred, config, vault, now, styles) ==
  IF engine.running THEN Failed
  ELSE [failed |-> FALSE, engine |-> RunReindex(engine, files, barred, config, vault, now, styles)]

-----------------------------------------------------------------------------
(* Serving it.                                                             *)

\* A process that starts takes the index it finds, usable or not.
Restarted(engine, config, vault) ==
  [engine EXCEPT !.incompatible = engine.index # None /\ IndexMismatch(engine.index, config, vault)]

DocumentSourcesChanged(engine, files, barred, config) ==
  engine.index # None /\ DocumentManifest(Attachments(files, barred, config)) # engine.index.manifest

Served(engine, barred) == IF engine.index = None THEN {} ELSE {c \in engine.index.chunks : ~SourceIsExcluded(c.path, barred)}

Status(engine, files, barred, config) ==
  LET changed == config.documents /\ DocumentSourcesChanged(engine, files, barred, config)
      documents == {c \in Served(engine, barred) : IsDocumentPath(c.path)}
  IN  [stale |-> engine.stale \/ changed, incompatible |-> engine.incompatible, exists |-> engine.index # None,
       chunks |-> Cardinality(Served(engine, barred)),
       discovered |-> IF engine.index = None THEN 0
                      ELSE Cardinality({d \in engine.index.manifest : ~SourceIsExcluded(d.path, barred)}),
       indexed |-> Cardinality({c.path : c \in documents}), documents |-> Cardinality(documents),
       progress |-> Last(engine.trail)]

IndexHasExcludedSources(engine, barred) ==
  engine.index # None /\ \/ \E c \in engine.index.chunks : SourceIsExcluded(c.path, barred)
                         \/ \E d \in engine.index.manifest : SourceIsExcluded(d.path, barred)

\* Never while nothing has changed; by the age of the index, unless it is not known.
RefreshDue(stale, built, threshold, now) ==
  /\ threshold > 0 /\ stale
  /\ built = -1 \/ (now >= built /\ now - built >= threshold)

NewHit(path, text, chunk) == [path |-> path, text |-> text, chunk |-> chunk, denseRank |-> 0, sparseRank |-> 0, preview |-> text]

\* One hit for a path, its text the best chunk's; what only the words found has no chunk.
Merge(dense, sparse) ==
  LET paths == {h.path : h \in Range(dense) \cup Range(sparse)}
      First(hits, path) == SelectInSeq(hits, LAMBDA h : h.path = path)
      Hit(path) ==
        LET d == First(dense, path)
            s == First(sparse, path)
            new == IF d > 0 THEN NewHit(path, dense[d].text, dense[d].id) ELSE NewHit(path, sparse[s].text, None)
        IN  [new EXCEPT !.denseRank = d, !.sparseRank = s, !.preview = IF s > 0 THEN sparse[s].text ELSE @]
  IN  {Hit(path) : path \in paths}
Finish(hit) == [path |-> hit.path, text |-> hit.text, chunk |-> hit.chunk, hash |-> IF hit.chunk = None THEN <<>> ELSE hit.text]

\* The passage a hit is about, while it still says what the hit said.
ReadPassage(engine, barred, path, id, hash) ==
  IF engine.incompatible \/ engine.index = None \/ SourceIsExcluded(path, barred) THEN Failed
  ELSE LET found == {c \in engine.index.chunks : c.path = path /\ c.id = id /\ c.text = hash}
       IN  IF found = {} THEN Failed ELSE [failed |-> FALSE, text |-> (CHOOSE c \in found : TRUE).text]

-----------------------------------------------------------------------------

\* Settings that are taken can be worked with: every piece of a text is in a chunk,
\* a blank key is none, and no two vaults or models share an index.
SettingsWork(env, other, texts) ==
  LET config == FromEnvironment(env, "v")
      apart == FromEnvironment(other, "w")
  IN  ~config.failed =>
        /\ \A t \in texts : UNION {Range(c) : c \in Range(Cut(t, config.chunk, config.overlap))} = Range(t)
        /\ \A t \in texts : \A c \in Range(Cut(t, config.chunk, config.overlap)) : c # <<>> /\ Len(c) <= config.chunk
        /\ "blank" \notin {config.key, config.rerankKey}
        /\ config.key # None => config.rerankKey # None
        /\ ~apart.failed => apart.dir # config.dir
        /\ ~FromEnvironment(other, "v").failed => (FromEnvironment(other, "v").dir = config.dir
                                                      <=> IndexRoot(other) = IndexRoot(env) /\ FromEnvironment(other, "v").model = config.model)

\* Whatever a rebuild kept, its index is the one a rebuild from nothing makes, where
\* neither the size of the chunks nor a title has changed since.  (A title that only
\* the front matter tells is not in the hash, nor is the size: those chunks stay old.)
Texts(index) == {[id |-> c.id, path |-> c.path, title |-> c.title, text |-> c.text] : c \in index.chunks}
RebuildIsWhole(old, new, was, files, config, barred) ==
  /\ new.index # None /\ ~new.stale
  /\ was.config.chunk = config.chunk /\ was.config.overlap = config.overlap
  /\ \A x \in was.files, y \in files : x.path = y.path => Title(x) = Title(y)
  => Texts(new.index) = Texts(RunReindex([old EXCEPT !.index = None], files, barred, config, "v", 0, <<"whole">>).index)

\* A chunk has the vector of its own text, whatever order the endpoint answers in; all
\* vectors of an index have one size; and a rebuild that fails leaves the index it found.
VectorsFit(old, new) ==
  /\ new.index # None =>
       /\ \A c \in new.index.chunks : c.vector.of.text = c.text /\ c.vector.of.path = c.path /\ c.vector.of.title = c.title /\ c.vector.model = new.index.model
       /\ \A c \in new.index.chunks : c.vector.size = new.index.dimension
       /\ \A c, d \in new.index.chunks : c.id = d.id => c = d
  /\ new.stale => new.index = old.index
  /\ Last(new.trail).error = new.stale

\* The status counts what a search may find, and right after a rebuild nothing is out
\* of date; only what may be seen is served; an index that fits the settings has
\* vectors of their model.
StatusIsTrue(engine, files, barred, later, config) ==
  LET status == Status(engine, files, barred, config)
      narrowed == Status(engine, files, later, config)
  IN  /\ ~engine.stale /\ engine.index # None /\ config.documents = engine.index.documents /\ config.docMax = engine.index.docMax
           => ~status.stale /\ status.discovered >= status.indexed
      /\ status.documents <= status.chunks /\ status.indexed <= status.documents
      /\ narrowed.chunks = Cardinality({c \in Served(engine, barred) : c.path \notin later})
      /\ engine.index # None /\ ~IndexHasExcludedSources(engine, later) => Served(engine, later) = engine.index.chunks
      /\ \A c \in Served(engine, later) : ~ReadPassage(engine, later, c.path, c.id, c.text).failed \/ engine.incompatible
      /\ engine.index # None => \A c \in engine.index.chunks :
           c.path \in later => ReadPassage(engine, later, c.path, c.id, c.text).failed

\* The work told never shrinks while it goes on, is never more than there is, and is
\* all of it when the rebuild says that it is complete.
ProgressIsHonest(trail) ==
  /\ \A i \in DOMAIN trail : trail[i].done <= trail[i].total
  /\ \A i, j \in DOMAIN trail : i < j => trail[i].done <= trail[j].done
  /\ \A i \in DOMAIN trail : trail[i].running = (i < Len(trail))
  /\ Last(trail).phase = "complete" => Last(trail).done = Last(trail).total /\ ~Last(trail).error

\* A stale index is refreshed in the end, unless that is turned off, but not again
\* within the threshold; one that is not stale never is.
RefreshIsPaced(built, threshold, now) ==
  /\ ~RefreshDue(FALSE, built, threshold, now)
  /\ threshold > 0 => \E t \in now .. Max({now, built + threshold}) : RefreshDue(TRUE, built, threshold, t)
  /\ RefreshDue(TRUE, built, threshold, now) => \A t \in now .. now + threshold - 1 : ~RefreshDue(TRUE, now, threshold, t)

\* A hit with a chunk can be opened again and says what the hit said, in the index
\* that gave it; no path is given twice, and none that either channel has is lost.
HitsReopen(engine, barred, dense, sparse) ==
  LET hits == Merge(dense, sparse)
      results == {Finish(h) : h \in hits}
  IN  /\ \A r \in results : r.chunk # None => LET read == ReadPassage(engine, barred, r.path, r.chunk, r.hash) IN ~read.failed /\ read.text = r.text
      /\ \A r, q \in results : r.path = q.path => r = q
      /\ {r.path : r \in results} = {h.path : h \in Range(dense) \cup Range(sparse)}
      /\ \A h \in hits : (h.chunk = None) = (h.denseRank = 0)
=============================================================================
