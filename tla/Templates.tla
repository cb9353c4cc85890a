------------------------------ MODULE Templates -------------------------------
(***************************************************************************)
(* Notes made from templates (turbovault-tools, templates.rs, and the      *)
(* handlers of providers/templates.rs): which fields a template asks for   *)
(* and accepts, how its text is filled in, the front matter the note gets, *)
(* and how notes of a template are found again.                            *)
(*                                                                         *)
(* A template is [id, front, fields, content]; a field [name, type,        *)
(* options, required].  A text is a sequence of pieces, a placeholder      *)
(* {name} one of them; values is a function from names to texts.           *)
(***************************************************************************)
EXTENDS Integers, FiniteSets, Sequences, SequencesExt, FiniteSetsExt

CONSTANTS
  Absent, Refused,
  Numbers,    \* the texts that read as numbers
  YamlText(_) \* what a text reads as after "key: " in front matter: "text",
              \* another "value", or a "break" that keeps it all from being read

Hole(name) == "{" \o name \o "}"

-----------------------------------------------------------------------------
(* Templates.                                                              *)

Field(name, type, required) == [name |-> name, type |-> type, options |-> {}, required |-> required]
Choice(name, type, options, required) == [name |-> name, type |-> type, options |-> options, required |-> required]
Template(id, front, fields, content) == [id |-> id, front |-> front, fields |-> fields, content |-> content]

DefaultTemplates ==
  { Template("doc", [type |-> <<"documentation">>, status |-> <<"draft">>],
             << Field("title", "text", TRUE), Field("summary", "text", TRUE),
                Choice("tags", "multi", {<<"architecture">>, <<"security">>, <<"guide">>}, FALSE) >>,
             << "# ", Hole("title"), "nl", Hole("summary"), "nl", "## Overview", "## Details", "## Links", "- Related: [[]]" >>),
    Template("task", [type |-> <<"task">>, status |-> <<"todo">>],
             << Field("title", "text", TRUE), Choice("priority", "select", {<<"low">>, <<"medium">>, <<"high">>, <<"critical">>}, TRUE),
                Field("due_date", "date", FALSE) >>,
             << "# ", Hole("title"), "nl", "## Priority: ", Hole("priority"), "nl", "## Description", "## Checklist", "- [ ] " >>),
    Template("research", [type |-> <<"research">>],
             << Field("topic", "text", TRUE), Field("date_researched", "date", TRUE) >>,
             << "# ", Hole("topic"), "nl", "Researched: ", Hole("date_researched"), "nl", "## Key Findings", "## Sources", "## Related" >>) }

\* Registering replaces what has the same id.
Register(templates, template) == {t \in templates : t.id # template.id} \cup {template}
GetTemplate(templates, id) == IF \E t \in templates : t.id = id THEN CHOOSE t \in templates : t.id = id ELSE Absent

RequiredFields(template) == SelectSeq(template.fields, LAMBDA field : field.required)

\* The parts between commas, without the blanks around them.
RECURSIVE Trimmed(_)
Trimmed(text) ==
  IF text # <<>> /\ Head(text) = " " THEN Trimmed(Tail(text))
  ELSE IF text # <<>> /\ Last(text) = " " THEN Trimmed(Front(text)) ELSE text
SplitAtCommas(text) ==
  LET take(parts, piece) ==
        IF piece = "," THEN Append(parts, <<>>) ELSE Front(parts) \o <<Append(Last(parts), piece)>>
      parts == FoldLeft(take, <<<<>>>>, text)
  IN  {Trimmed(parts[k]) : k \in DOMAIN parts}

\* A date only needs its length and a dash.
ValidateField(template, name, value) ==
  \E k \in DOMAIN template.fields :
    LET field == template.fields[k] IN
      /\ field.name = name /\ \A j \in 1 .. k - 1 : template.fields[j].name # name
      /\ CASE field.type = "text" -> value # <<>> \/ ~field.required
           [] field.type = "date" -> Len(value) = 10 /\ "-" \in Range(value)
           [] field.type = "select" -> value \in field.options
           [] field.type = "multi" -> SplitAtCommas(value) \subseteq field.options
           [] field.type = "number" -> value \in Numbers
           [] field.type = "boolean" -> value \in {<<"true">>, <<"false">>, <<"yes">>, <<"no">>, <<"1">>, <<"0">>}

-----------------------------------------------------------------------------
(* Filling in.                                                             *)

ReplaceHole(text, name, value) ==
  FlattenSeq([k \in DOMAIN text |-> IF text[k] = Hole(name) THEN value ELSE <<text[k]>>])

\* The values go in one after another, in the order a hash map gives them.
FilledIn(content, values) ==
  { FoldLeft(LAMBDA text, name : ReplaceHole(text, name, values[name]), content, order) :
      order \in SetToAllKPermutations(DOMAIN values) \cap [1 .. Cardinality(DOMAIN values) -> DOMAIN values] }

FrontOf(template, values) ==
  [key \in DOMAIN template.front \cup {"template"} \cup (DOMAIN values \cap {"title"}) |->
     CASE key = "template" -> <<template.id>>
       [] key = "title" /\ "title" \in DOMAIN values -> values["title"]
       [] OTHER -> template.front[key]]

\* Only the required fields are looked at.
ComputeFromTemplate(templates, id, values) ==
  LET template == GetTemplate(templates, id) IN
    IF template = Absent THEN {Refused}
    ELSE IF \E k \in DOMAIN RequiredFields(template) :
              LET name == RequiredFields(template)[k].name
              IN  name \notin DOMAIN values \/ ~ValidateField(template, name, values[name])
         THEN {Refused}
         ELSE {[front |-> FrontOf(template, values), content |-> text] : text \in FilledIn(template.content, values)}

\* The file is there already, or it becomes the note; a refused one announces
\* nothing.
CreateFromTemplate(templates, id, values, vault, path) ==
  {IF note = Refused \/ vault[path] # Absent
   THEN [reply |-> Refused, vault |-> vault, announced |-> {}]
   ELSE [reply |-> "ok", vault |-> [vault EXCEPT ![path] = note], announced |-> {[kind |-> "created", path |-> path]}] :
     note \in ComputeFromTemplate(templates, id, values)}

\* Front matter that does not parse leaves a note without any.
ReadFront(front) == IF \E key \in DOMAIN front : YamlText(front[key]) = "break" THEN Absent ELSE front

FindNotesFromTemplate(vault, id) ==
  {path \in DOMAIN vault :
     LET front == IF vault[path] = Absent THEN Absent ELSE ReadFront(vault[path].front)
     IN  /\ front # Absent /\ "template" \in DOMAIN front
         /\ YamlText(front["template"]) = "text" /\ front["template"] = <<id>>}

-----------------------------------------------------------------------------
(* Properties.                                                             *)

\* Each template that comes with the program asks for every placeholder of its
\* text, so that no note of it keeps one.
DefaultsAreComplete ==
  LET known == {t.fields[k].name : t \in DefaultTemplates, k \in 1 .. 2} \cup {"due_date", "tags"} IN
    \A template \in DefaultTemplates :
      \A name \in known : Hole(name) \in Range(template.content) =>
        \E field \in Range(RequiredFields(template)) : field.name = name

\* A note is made only where every required field is given and accepted and no
\* file is in the way, and then holds every value where the template has its
\* placeholder.  This does not hold of a value that itself spells a placeholder
\* of a given field: it may be filled in or not, as the hash map's order has it.
NotesFollowTemplates(templates, id, values, vault, path) ==
  LET template == GetTemplate(templates, id)
      made == CreateFromTemplate(templates, id, values, vault, path)
      given == DOMAIN values
      nested == \E name \in given : \E other \in given : Hole(other) \in Range(values[name])
      filled == FlattenSeq([k \in DOMAIN template.content |->
                  IF \E name \in given : template.content[k] = Hole(name)
                  THEN values[CHOOSE name \in given : template.content[k] = Hole(name)] ELSE <<template.content[k]>>])
  IN  \A m \in made :
        /\ m.reply = Refused => m.vault = vault /\ m.announced = {}
        /\ m.reply = "ok" =>
             /\ vault[path] = Absent /\ [m.vault EXCEPT ![path] = Absent] = vault
             /\ \A k \in DOMAIN template.fields : template.fields[k].required => template.fields[k].name \in given
             /\ ~nested => m.vault[path].content = filled
        /\ ~nested => Cardinality(made) = 1

\* A note just made is found under its template, and under no other.  This does
\* not hold where the title, written as it is, keeps the front matter from being
\* read, nor of a template whose id reads as something other than text.
MadeNotesAreFound(templates, id, values, vault, path) ==
  \A m \in CreateFromTemplate(templates, id, values, vault, path) :
    m.reply = "ok" =>
      LET readable == \A key \in DOMAIN m.vault[path].front : YamlText(m.vault[path].front[key]) # "break"
      IN  /\ readable /\ YamlText(<<id>>) = "text" => path \in FindNotesFromTemplate(m.vault, id)
          /\ \A t \in templates : t.id # id => path \notin FindNotesFromTemplate(m.vault, t.id)
          /\ \A t \in templates : FindNotesFromTemplate(m.vault, t.id) \ {path} = FindNotesFromTemplate(vault, t.id)
=============================================================================
