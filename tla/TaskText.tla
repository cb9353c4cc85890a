------------------------------- MODULE TaskText -------------------------------
(***************************************************************************)
(* The text of a task (turbovault-core, task_parser.rs): a description and *)
(* behind it dates, priority, tags and the like, each with its own mark.   *)
(* The description ends where nothing but such items follows.              *)
(*                                                                         *)
(* A text is a sequence of words, and a value is its word's number.        *)
(***************************************************************************)
EXTENDS Naturals, FiniteSets, Sequences, SequencesExt

CONSTANTS MaxDescription, MaxItems  \* words and items of the tasks read

Priorities == {"high", "low"}
Dated == {"due", "start"}
Marks == Priorities \cup Dated \cup {"recurrence", "id", "dependsOn", "[due::]", "#tag", "^ref"}

NoItem == [field |-> "none", value |-> <<>>, next |-> 0]

\* A rule of recurrence is all the words up to the next mark.
RuleEnd(words, i) == CHOOSE j \in i .. Len(words) + 1 : /\ j = Len(words) + 1 \/ words[j] \in Marks
                                                        /\ \A k \in i .. j - 1 : words[k] \notin Marks

\* The item that begins at word i: a date and the tasks waited for take any word
\* for their value, an id only a plain one.
ItemAt(words, i) ==
  LET mark == words[i]
      follows == i < Len(words)
  IN  CASE mark \in Dated /\ follows -> [field |-> mark, value |-> <<i + 1>>, next |-> i + 2]
        [] mark = "dependsOn" /\ follows -> [field |-> mark, value |-> <<i + 1>>, next |-> i + 2]
        [] mark = "id" /\ follows /\ words[i + 1] = "word" -> [field |-> mark, value |-> <<i + 1>>, next |-> i + 2]
        [] mark = "recurrence" /\ RuleEnd(words, i + 1) > i + 1 ->
             [field |-> mark, value |-> [k \in 1 .. RuleEnd(words, i + 1) - i - 1 |-> i + k], next |-> RuleEnd(words, i + 1)]
        [] mark = "[due::]" -> [field |-> "due", value |-> <<i>>, next |-> i + 1]
        [] mark \in Priorities -> [field |-> "priority", value |-> <<i>>, next |-> i + 1]
        [] mark \in {"#tag", "^ref"} -> [field |-> mark, value |-> <<i>>, next |-> i + 1]
        [] OTHER -> NoItem

\* From word i on there are only items, and one priority at most.
RECURSIVE IsPure(_, _, _)
IsPure(words, i, prioritySeen) ==
  LET item == ItemAt(words, i) IN
  \/ i > Len(words)
  \/ /\ item # NoItem
     /\ ~(prioritySeen /\ item.field = "priority")
     /\ IsPure(words, item.next, prioritySeen \/ item.field = "priority")

\* Mutant: the first mark ends the description, whatever comes behind it.
MetadataStart_FirstMark(words) ==
  SelectInSeq(words \o <<"#tag">>, LAMBDA word : word \in Marks)

MetadataStart(words) ==
  LET starts == {i \in 1 .. Len(words) : /\ words[i] \in Marks
                                         /\ i = 1 \/ words[i - 1] \notin Priorities
                                         /\ IsPure(words, i, FALSE)}
  IN  CHOOSE i \in starts \cup {Len(words) + 1} : \A j \in starts : i <= j

\* A later value of a field replaces an earlier one; tags add up.
Merged(fields, item) ==
  [fields EXCEPT ![item.field] = IF item.field = "#tag" THEN @ \o item.value ELSE item.value]

RECURSIVE Section(_, _, _)
Section(words, i, fields) ==
  IF i > Len(words) THEN fields
  ELSE LET item == ItemAt(words, i) IN
       IF item = NoItem THEN fields ELSE Section(words, item.next, Merged(fields, item))

NoFields == [f \in Dated \cup {"recurrence", "id", "dependsOn", "priority", "#tag", "^ref"} |-> <<>>]

ParseTask(words) == [description |-> MetadataStart(words) - 1, fields |-> Section(words, MetadataStart(words), NoFields)]

-----------------------------------------------------------------------------

\* How a person writes an item down.
Written(item) ==
  CASE item \in Dated \cup {"id", "dependsOn"} -> <<item, "word">>
    [] item = "recurrence" -> <<item, "word", "word">>
    [] OTHER -> <<item>>

SeqsUpTo(S, n) == UNION {[1 .. k -> S] : k \in 0 .. n}

TaskTexts == {[said |-> d, items |-> e] : d \in SeqsUpTo({"word", "#tag", "high", "due"}, MaxDescription), e \in SeqsUpTo(Marks, MaxItems)}

TaskWords(task) == task.said \o FlattenSeq([i \in DOMAIN task.items |-> Written(task.items[i])])

\* A task that is written as words and then items is read as these: marks in the
\* middle of what was said stay there, each item keeps the value behind it, and
\* only a second priority or a mark at the end of the words is ambiguous.
TaskTextIsSplit(task, read) ==
  LET plain == task.said = <<>> \/ Last(task.said) = "word"
      oneWord == Len(task.said) >= 2 => task.said[Len(task.said) - 1] # "due"
      onePriority == Cardinality({i \in DOMAIN task.items : task.items[i] \in Priorities}) <= 1
      end(k) == Len(task.said) + Len(FlattenSeq([i \in 1 .. k |-> Written(task.items[i])]))
      FieldOf(item) == IF item = "[due::]" THEN "due" ELSE IF item \in Priorities THEN "priority" ELSE item
  IN  plain /\ oneWord /\ onePriority =>
        /\ read.description = Len(task.said)
        /\ \A f \in DOMAIN read.fields :
             LET of == {k \in DOMAIN task.items : FieldOf(task.items[k]) = f} IN
             IF of = {} THEN read.fields[f] = <<>>
             ELSE LET last == CHOOSE k \in of : \A j \in of : j <= k IN
                  /\ Last(read.fields[f]) = end(last)
                  /\ f = "#tag" => Len(read.fields[f]) = Cardinality(of)
=============================================================================
