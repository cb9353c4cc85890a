------------------------------ MODULE NoteTables ------------------------------
(***************************************************************************)
(* Front matter asked about and merged: the tables an SQL query runs over  *)
(* and the schema of them (turbovault-sql, engine.rs and convert.rs), the  *)
(* patterns and dotted keys of turbovault-tools, metadata_tools.rs, and    *)
(* the merge of an update (file_tools.rs).                                 *)
(*                                                                         *)
(* A value is <<type, content>>: an array's content is a sequence, an      *)
(* object's a function from keys to values, a string's a text.  A text is  *)
(* a sequence of characters, as is a key; the word path, and each of       *)
(* "contains(", " > " and " < ", is one character.  A file is [path,       *)
(* markdown, parses, front], front its front matter's function or Absent.  *)
(***************************************************************************)
EXTENDS Integers, FiniteSets, Sequences, SequencesExt, Functions, Folds

CONSTANTS
  Absent,
  Storable(_), \* whether the table takes a row: GlueSQL's own limits on values
  NumberOf(_)  \* the number a text reads as, or Absent

Null       == <<"null", 0>>
Str(text)  == <<"string", text>>
Obj(map)   == <<"object", map>>
TypeOf(value) == value[1]
PathKey    == <<"path">>
TagsKey    == <<"tags">>

Update(map, key, value) == [k \in DOMAIN map \cup {key} |-> IF k = key THEN value ELSE map[k]]
Over(base, map)         == [k \in DOMAIN base \cup DOMAIN map |-> IF k \in DOMAIN map THEN map[k] ELSE base[k]]

-----------------------------------------------------------------------------
(* Tables.                                                                 *)

TrimText(text) ==
  LET solid == {k \in DOMAIN text : text[k] # " "}
  IN  IF solid = {} THEN <<>> ELSE SubSeq(text, Min(solid), Max(solid))

Unmarked(tag) == IF tag # <<>> /\ Head(tag) = "#" THEN Tail(tag) ELSE tag

SplitAt(text, mark) ==
  FoldLeft(LAMBDA parts, c : IF c = mark THEN Append(parts, <<>>) ELSE Append(Front(parts), Append(Last(parts), c)), <<<<>>>>, text)

\* The tags of an array as they are, of a text those between its commas that are not empty.
ExtractTagStrings(value) ==
  CASE TypeOf(value) = "array"  ->
         LET strings == SelectSeq(value[2], LAMBDA v : TypeOf(v) = "string")
         IN  [k \in DOMAIN strings |-> Unmarked(strings[k][2])]
    [] TypeOf(value) = "string" ->
         LET parts == SplitAt(value[2], ",")
         IN  SelectSeq([k \in DOMAIN parts |-> Unmarked(TrimText(parts[k]))], LAMBDA tag : tag # <<>>)
    [] OTHER -> <<>>

\* A literal between quotes doubles the quotes inside; the database reads it up to the first quote that stands alone.
Escaped(text) == FlattenSeq([k \in DOMAIN text |-> IF text[k] = "'" THEN <<"'", "'">> ELSE <<text[k]>>])
RECURSIVE ReadLiteral(_)
ReadLiteral(sql) ==
  IF sql = <<>> THEN <<>>
  ELSE IF Head(sql) # "'" THEN <<Head(sql)>> \o ReadLiteral(Tail(sql))
  ELSE IF Len(sql) > 1 /\ sql[2] = "'" THEN <<"'">> \o ReadLiteral(SubSeq(sql, 3, Len(sql)))
  ELSE <<>>

NotesOf(files) == SelectSeq(files, LAMBDA file : file.markdown /\ file.parses)

\* A note's row: its path, then its front matter, whose own "path" takes the place of it.
RowOf(note) ==
  LET row == (PathKey :> Str(note.path))
  IN  IF note.front = Absent THEN row ELSE Over(row, note.front)

TagRowsOf(note) ==
  IF note.front = Absent \/ TagsKey \notin DOMAIN note.front THEN <<>>
  ELSE LET tags == ExtractTagStrings(note.front[TagsKey])
       IN  [k \in DOMAIN tags |-> [path |-> ReadLiteral(Escaped(note.path)), tag |-> ReadLiteral(Escaped(tags[k]))]]

PopulateLinks(links) == [k \in DOMAIN links |-> [links[k] EXCEPT !.target = ReadLiteral(Escaped(@))]]

\* A row the table refuses is left out, and its note counted all the same.
Session(files, links) ==
  LET notes == NotesOf(files)
      tags  == FlattenSeq([k \in DOMAIN notes |-> TagRowsOf(notes[k])])
  IN  [files |-> SelectSeq([k \in DOMAIN notes |-> RowOf(notes[k])], Storable), tags |-> tags, links |-> PopulateLinks(links),
       fileCount |-> Len(notes), tagCount |-> Len(tags), linkCount |-> Len(links)]

Query(session, answer) ==
  [fileCount |-> session.fileCount, tagCount |-> session.tagCount, linkCount |-> session.linkCount, result |-> answer]

-----------------------------------------------------------------------------
(* The schema.                                                             *)

Observed(info, value) ==
  [count |-> info.count + 1,
   type |-> IF info.type = "null" THEN TypeOf(value)
            ELSE IF info.type # TypeOf(value) /\ TypeOf(value) # "null" THEN "mixed" ELSE info.type]

Inspect(files) ==
  LET notes  == SelectSeq(NotesOf(files), LAMBDA note : note.front # Absent)
      count  == Len(NotesOf(files))
      seen(schema, note) ==
        [k \in DOMAIN schema \cup DOMAIN note.front |->
           IF k \notin DOMAIN note.front THEN schema[k]
           ELSE Observed(IF k \in DOMAIN schema THEN schema[k] ELSE [count |-> 0, type |-> "null"], note.front[k])]
      schema == FoldLeft(seen, [k \in {} |-> 0], notes)
      path   == (PathKey :> [type |-> "string", nullable |-> FALSE, count |-> count])
  IN  Over(path, [k \in DOMAIN schema |-> [type |-> schema[k].type, nullable |-> schema[k].count < count, count |-> schema[k].count]])

-----------------------------------------------------------------------------
(* Patterns and dotted keys.                                               *)

Equals(key, value)      == [op |-> "equals", key |-> key, value |-> value]
Compared(op, key, number) == [op |-> op, key |-> key, value |-> <<"number", number>>]

IsPart(part, text) == \E k \in 1 .. Len(text) + 1 : k + Len(part) - 1 <= Len(text) /\ SubSeq(text, k, k + Len(part) - 1) = part

\* No pattern makes a filter of several.
Matches(filter, front) ==
  /\ filter.key \in DOMAIN front
  /\ LET value == front[filter.key]
     IN  CASE filter.op = "equals"   -> value = filter.value
           [] filter.op = "contains" -> TypeOf(value) = "string" /\ IsPart(filter.value[2], value[2])
           [] filter.op = "above"    -> TypeOf(value) = "number" /\ value[2] > filter.value[2]
           [] filter.op = "below"    -> TypeOf(value) = "number" /\ value[2] < filter.value[2]

IsQuoted(text) == text # <<>> /\ Head(text) = "quote" /\ Last(text) = "quote"

\* The code slices a lone quote from 1 to 0, which panics.
Literal(op, key, text) ==
  IF Len(text) = 1 THEN <<"panic">> ELSE [op |-> op, key |-> key, value |-> Str(SubSeq(text, 2, Len(text) - 1))]

ReadText(key, rest) ==
  IF IsQuoted(rest) THEN Literal("equals", key, rest)
  ELSE IF /\ Len(rest) > 1 /\ Head(rest) = "contains(" /\ Last(rest) = ")"
          /\ IsQuoted(SubSeq(rest, 2, Len(rest) - 1))
  THEN Literal("contains", key, SubSeq(rest, 2, Len(rest) - 1)) ELSE Absent

ReadNumber(op, key, number) == IF number = Absent THEN Absent ELSE Compared(op, key, number)

\* What the first of a sign parts: the key before it and the rest.
ReadAt(text, sign, at) ==
  LET key  == TrimText(SubSeq(text, 1, at - 1))
      rest == TrimText(SubSeq(text, at + 1, Len(text)))
  IN  IF at = 0 THEN Absent
      ELSE CASE sign = ":"   -> ReadText(key, rest)
             [] sign = " > " -> ReadNumber("above", key, NumberOf(rest))
             [] sign = " < " -> ReadNumber("below", key, NumberOf(rest))

FirstRead(filters) == IF filters = <<>> THEN Absent ELSE Head(filters)

ReadPattern(text) ==
  FirstRead(SelectSeq([k \in 1 .. 3 |-> LET sign == <<":", " > ", " < ">>[k]
                                       IN  ReadAt(text, sign, SelectInSeq(text, LAMBDA c : c = sign))],
                      LAMBDA filter : filter # Absent))
ParseQuery(pattern) == ReadPattern(TrimText(pattern))

QueryMetadata(filter, notes) ==
  SelectSeq(notes, LAMBDA note : note.markdown /\ note.parses /\ note.front # Absent /\ Matches(filter, note.front))

\* A dotted key goes down one object a part.
GetMetadataValue(front, key) ==
  LET down(value, part) == IF value # Absent /\ TypeOf(value) = "object" /\ part \in DOMAIN value[2] THEN value[2][part] ELSE Absent
  IN  IF front = Absent THEN Absent ELSE FoldLeft(down, Obj(front), SplitAt(key, "."))

-----------------------------------------------------------------------------
(* Merging.                                                                *)

RECURSIVE DeepMerge(_, _)
DeepMerge(base, overlay) ==
  IF TypeOf(base) = "object" /\ TypeOf(overlay) = "object"
  THEN Obj([k \in DOMAIN base[2] \cup DOMAIN overlay[2] |->
              IF k \notin DOMAIN overlay[2] THEN base[2][k]
              ELSE IF k \notin DOMAIN base[2] THEN overlay[2][k] ELSE DeepMerge(base[2][k], overlay[2][k])])
  ELSE overlay

UpdatedFront(front, overlay, merge) ==
  IF merge THEN DeepMerge(Obj(IF front = Absent THEN [k \in {} |-> Null] ELSE front), Obj(overlay))[2] ELSE overlay

-----------------------------------------------------------------------------
(* Properties.                                                             *)

\* The schema told of a vault is that of the table a query runs over, in whatever order the notes come: a column is
\* counted once a row that has it, is not nullable only if each row has it, and its type is that of all its values but
\* the nulls, or "mixed" when they have two.  It does not hold of a column "path": the schema counts the notes that name
\* one, though each row has a path (inspect, session).
ColumnIsTold(told, values, count) ==
  LET types == {TypeOf(values[k]) : k \in DOMAIN values} \ {"null"}
  IN  /\ told.count = Cardinality(DOMAIN values)
      /\ ~told.nullable <=> told.count = count
      /\ told.type = (IF types = {} THEN "null" ELSE IF Cardinality(types) > 1 THEN "mixed" ELSE CHOOSE type \in types : TRUE)

SchemaTells(schema, rows, table) ==
  /\ DOMAIN schema = UNION {DOMAIN row : row \in Range(rows)} \cup {PathKey}
  /\ table.fileCount = Len(rows) /\ table.files = SelectSeq(rows, Storable)
  /\ \A column \in DOMAIN schema \ {PathKey} :
       ColumnIsTold(schema[column], [k \in {k \in DOMAIN rows : column \in DOMAIN rows[k]} |-> rows[k][column]], Len(rows))

SchemaTellsTable(files) ==
  SchemaTells(Inspect(files), [k \in DOMAIN NotesOf(files) |-> RowOf(NotesOf(files)[k])], Session(files, <<>>))

\* A pattern, a dotted key and an SQL query give one answer: the notes a pattern matches by equality are those whose value
\* under the key is the one asked for, and those whose row has it, unless the key is "path" or holds a dot
\* (query_metadata, get_metadata_value, session).
QueriesAgree(files, key, value) ==
  LET found == Range(QueryMetadata(Equals(key, value), files))
  IN  key # PathKey /\ "." \notin Range(key) =>
        \A note \in Range(NotesOf(files)) :
          /\ note \in found <=> GetMetadataValue(note.front, key) = value
          /\ note \in found <=> key \in DOMAIN RowOf(note) /\ RowOf(note)[key] = value

\* The tags a query sees are those the front matter has, to the last quote: each is the text between two commas or an
\* entry of the array, without blanks around it and one mark before it, on the note's own path (extract_tag_strings).
RowsAreTags(rows, tags, path) ==
  LET bare(text) == SelectSeq(text, LAMBDA c : c \notin {" ", ","})
  IN  /\ \A k \in DOMAIN rows : rows[k].path = path
      /\ TypeOf(tags) = "array" => Len(rows) = Cardinality({k \in DOMAIN tags[2] : TypeOf(tags[2][k]) = "string"})
      /\ TypeOf(tags) = "string" =>
           /\ \A k \in DOMAIN rows : rows[k].tag # <<>> /\ "," \notin Range(rows[k].tag)
           /\ "#" \notin Range(tags[2]) => bare(FlattenSeq([k \in DOMAIN rows |-> rows[k].tag])) = bare(tags[2])

TagRowsAreTags(note) == RowsAreTags(TagRowsOf(note), note.front[TagsKey], note.path)

\* A filter written as a pattern is read back as that filter, whatever its text holds: the text asked for may have quotes,
\* colons and signs of its own, and a key any sign but a colon (parse_query).  The pattern whose value is a lone quote is
\* no filter so written: it panics.
PatternsReadBack(key, text) ==
  TrimText(key) = key /\ ":" \notin Range(key) =>
    /\ ParseQuery(key \o <<":", " ", "quote">> \o text \o <<"quote", " ">>) = Equals(key, Str(text))
    /\ ParseQuery(key \o <<":", "contains(", "quote">> \o text \o <<"quote", ")">>) = [op |-> "contains", key |-> key, value |-> Str(text)]
    /\ Range(key) \cap {" > ", " < "} = {} =>
         /\ ParseQuery(key \o <<" > ", "3">>) = Compared("above", key, NumberOf(<<"3">>))
         /\ ParseQuery(key \o <<" < ", "3">>) = Compared("below", key, NumberOf(<<"3">>))

\* An update that merges says what it was given and keeps the rest: each value it names is read back under its dotted key,
\* each key no part of which it names keeps its value, and merging the same again changes nothing (deep_merge).
MergeKeeps(front, overlay, keys, merged) ==
  LET named(key) == \E k \in DOMAIN key :
                      /\ k = Len(key) \/ key[k + 1] = "."
                      /\ LET value == GetMetadataValue(overlay, SubSeq(key, 1, k))
                         IN  value # Absent /\ TypeOf(value) # "object"
  IN  /\ \A key \in keys :
           LET value == GetMetadataValue(overlay, key)
           IN  IF value # Absent
               THEN TypeOf(value) # "object" => GetMetadataValue(merged, key) = value
               ELSE GetMetadataValue(merged, key) = (IF named(key) THEN Absent ELSE GetMetadataValue(front, key))
      /\ UpdatedFront(merged, overlay, TRUE) = merged

MergeKeepsTheRest(front, overlay, keys) == MergeKeeps(front, overlay, keys, UpdatedFront(front, overlay, TRUE))
=============================================================================
