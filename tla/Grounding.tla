------------------------------ MODULE Grounding -------------------------------
(***************************************************************************)
(* What a judge of a note's grounding is given (turbovault-tools,          *)
(* grounding.rs, and its handlers in providers/analysis.rs): the sentences *)
(* of the prose that make claims, the citations, and the list of the notes *)
(* that claim without citing.                                              *)
(*                                                                         *)
(* A note is [path, blocks, citations, headings]: the kinds and plain      *)
(* texts of its blocks, the citations of its body and the texts of its     *)
(* headings in small letters (NoteBlocks and NoteText model the parsers).  *)
(* A text is a sequence of characters, the line end and the two schemes    *)
(* one character each; paths are numbers, in the order of their texts.     *)
(***************************************************************************)
EXTENDS Integers, FiniteSets, Sequences, SequencesExt

CONSTANTS
  MaxClaims,     \* the most claims a note's analysis returns: 200
  MinClaimWords, \* the fewest words a claim has: 5
  DefaultLimit   \* the most notes listed when no limit is given: 50

Blank   == {" ", "nl"}
Ends    == {".", "?", "!"}
Letters == {"a", "b"}
Schemes == {"http://", "https://"}

Trim(text) ==
  LET solid == {k \in DOMAIN text : text[k] \notin Blank}
  IN  IF solid = {} THEN <<>> ELSE SubSeq(text, Min(solid), Max(solid))

Words(text) ==
  Cardinality({k \in DOMAIN text : text[k] \notin Blank /\ (k = 1 \/ text[k - 1] \in Blank)})

-----------------------------------------------------------------------------
(* Sentences and claims.                                                   *)

\* A sentence ends at the end of its line, and after a mark that a blank or nothing follows.
SplitSentences(text) ==
  LET flushed(now) == IF Trim(now) = <<>> THEN <<>> ELSE <<now>>
      breaks(k)    == text[k] \in Ends /\ (k = Len(text) \/ text[k + 1] \in Blank)
      take(so, k)  ==
        IF text[k] = "nl" THEN [done |-> so.done \o flushed(so.now), now |-> <<>>]
        ELSE IF breaks(k) THEN [done |-> Append(so.done, Append(so.now, text[k])), now |-> <<>>]
        ELSE [so EXCEPT !.now = Append(@, text[k])]
      all == FoldLeft(take, [done |-> <<>>, now |-> <<>>], [k \in DOMAIN text |-> k])
  IN  all.done \o flushed(all.now)

CollectProse(block) ==
  IF block.kind \in {"paragraph", "quote", "list"} /\ Trim(block.text) # <<>>
  THEN Append(Trim(block.text), "nl") ELSE <<>>

IsClaim(sentence) ==
  /\ Words(sentence) >= MinClaimWords
  /\ Range(sentence) \cap Letters # {}
  /\ Head(sentence) \notin Schemes

ExtractClaims(blocks) ==
  LET prose     == FlattenSeq([k \in DOMAIN blocks |-> CollectProse(blocks[k])])
      sentences == SplitSentences(prose)
  IN  SelectSeq([k \in DOMAIN sentences |-> Trim(sentences[k])], IsClaim)

-----------------------------------------------------------------------------
(* A note's analysis, and the notes that cite nothing.                     *)

Analysis(note, claims) ==
  [path |-> note.path, claimCount |-> Len(claims), citationCount |-> Len(note.citations),
   uncited |-> claims # <<>> /\ note.citations = <<>>,
   schema |-> "schema" \in note.headings, examples |-> "examples" \in note.headings,
   truncated |-> Len(claims) > MaxClaims,
   claims |-> SubSeq(claims, 1, IF Len(claims) > MaxClaims THEN MaxClaims ELSE Len(claims)),
   citations |-> note.citations]
AnalyzeNote(note) == Analysis(note, ExtractClaims(note.blocks))

FindUngroundedNotes(notes, limit) ==
  LET counted    == [k \in DOMAIN notes |-> [path |-> notes[k].path, claimCount |-> Len(ExtractClaims(notes[k].blocks)),
                                             cites |-> notes[k].citations # <<>>]]
      sorted == SortSeq(SelectSeq(counted, LAMBDA c : ~c.cites /\ c.claimCount > 0),
                        LAMBDA c, d : c.claimCount > d.claimCount \/ (c.claimCount = d.claimCount /\ c.path < d.path))
      listed(ungrounded) == [total |-> Len(notes), count |-> Len(ungrounded),
                             notes |-> SubSeq(ungrounded, 1, IF Len(ungrounded) > limit THEN limit ELSE Len(ungrounded))]
  IN  listed(sorted)

\* limit = -1: none was given.
FindUngrounded(notes, limit) == FindUngroundedNotes(notes, IF limit < 0 THEN DefaultLimit ELSE limit)

-----------------------------------------------------------------------------
(* Properties.                                                             *)

\* Splitting into sentences loses no word and joins no two lines: put end to end the sentences are the text without its
\* blanks, none holds a line end or goes on past a mark that ends one, and two are parted only where a line or a sentence
\* ends, never inside a number (split_sentences).
KeepText(text, sentences) ==
  LET solid(t)  == SelectSeq(t, LAMBDA c : c \notin Blank)
      lasts     == Cardinality({k \in DOMAIN text : text[k] \in Ends /\ (k = Len(text) \/ text[k + 1] \in Blank)})
      lines     == Cardinality({k \in DOMAIN text : text[k] = "nl"})
  IN  /\ solid(FlattenSeq(sentences)) = solid(text)
      /\ \A k \in DOMAIN sentences :
           /\ "nl" \notin Range(sentences[k]) /\ solid(sentences[k]) # <<>>
           /\ \A j \in 1 .. Len(sentences[k]) - 1 : sentences[k][j] \in Ends => sentences[k][j + 1] \notin Blank
      /\ Len(sentences) <= lasts + lines + 1

SentencesKeepText(text) == KeepText(text, SplitSentences(text))

\* Every claim stands in one block of prose, on one line of it; code, headings and tables make none, and neither does a
\* neighbour: the claims of two blocks are those of the one followed by those of the other (extract_claims).
ClaimsStandInProse(blocks) ==
  /\ \A c \in Range(ExtractClaims(blocks)) :
       \E b \in Range(blocks) :
         /\ b.kind \in {"paragraph", "quote", "list"}
         /\ \E j \in DOMAIN b.text : j + Len(c) - 1 <= Len(b.text) /\ SubSeq(b.text, j, j + Len(c) - 1) = c
         /\ "nl" \notin Range(c)
  /\ ExtractClaims(blocks) = FlattenSeq([k \in DOMAIN blocks |-> ExtractClaims(<<blocks[k]>>)])

\* The list of ungrounded notes and the analysis of each note agree: the count is that of the notes flagged as uncited,
\* whatever the limit hides; each listed note claims as much as its analysis says; and a note left out claims no more
\* than any that is listed (find_ungrounded_notes, analyze_note).
ListAgrees(report, flagged, limit) ==
  LET listed  == {entry.path : entry \in Range(report.notes)}
  IN  /\ report.count = Cardinality(flagged) /\ listed \subseteq {a.path : a \in flagged}
      /\ report.count > Len(report.notes) => Len(report.notes) = (IF limit < 0 THEN DefaultLimit ELSE limit)
      /\ \A entry \in Range(report.notes), a \in flagged :
           /\ a.path = entry.path => a.claimCount = entry.claimCount
           /\ a.path \notin listed => a.claimCount <= entry.claimCount
      /\ \A a \in flagged : a.truncated <=> Len(a.claims) < a.claimCount

UngroundedAgree(notes, limit) ==
  ListAgrees(FindUngrounded(notes, limit), {a \in {AnalyzeNote(note) : note \in Range(notes)} : a.uncited}, limit)
=============================================================================
