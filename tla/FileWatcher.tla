------------------------------ MODULE FileWatcher ------------------------------
(***************************************************************************)
(* The file watcher (turbovault-vault, watcher.rs): what the operating     *)
(* system reports of a directory is turned into events on notes, filtered  *)
(* and sent to whoever listens, with the options as they are by default:   *)
(* folders below are watched too, hidden files and all but notes are left  *)
(* out.  A listener reads the note that an event names.                    *)
(***************************************************************************)
EXTENDS Naturals, FiniteSets, Sequences, SequencesExt

CONSTANTS
  Absent,
  Entries,     \* files, each [folder, name, markdown, hidden]
  Folders,     \* that can be renamed
  MaxChanges

VARIABLES
  disk,      \* entry -> content
  running,
  missed,    \* history: files whose last change was not reported
  events,    \* sent and not yet read
  mirror,    \* what the listener has
  changes
watchVars == <<disk, running, missed, events, mirror, changes>>

WatchInit ==
  /\ disk = [e \in Entries |-> Absent] /\ running = FALSE /\ missed = {}
  /\ events = <<>> /\ mirror = [e \in Entries |-> Absent] /\ changes = 0

\* Access, a call to scan anew, and what else there is are passed over.
ConvertEvent(kind, entries) ==
  CASE kind = "create" -> [i \in DOMAIN entries |-> [event |-> "created", entry |-> entries[i]]]
    [] kind \in {"modify", "any"} -> [i \in DOMAIN entries |-> [event |-> "modified", entry |-> entries[i]]]
    [] kind = "remove" -> [i \in DOMAIN entries |-> [event |-> "deleted", entry |-> entries[i]]]
    [] OTHER -> <<>>

ShouldEmit(event) == event.entry.markdown /\ ~event.entry.hidden

\* What the system says while the watcher runs; errors are dropped.
Report(kind, entries) ==
  events' = IF running /\ kind # "error" THEN events \o SelectSeq(ConvertEvent(kind, entries), ShouldEmit) ELSE events

\* A change is reported as what it is, or, when the system cannot keep up, with an
\* error or a call to scan anew.
Changed(kind, entries) ==
  /\ changes < MaxChanges /\ changes' = changes + 1
  /\ \E said \in {kind, "rescan", "error"} :
       /\ Report(said, entries)
       /\ missed' = IF running /\ said = kind THEN missed \ Range(entries) ELSE missed \cup Range(entries)
  /\ UNCHANGED <<running, mirror>>

Save(e) ==
  /\ disk' = [disk EXCEPT ![e] = changes + 1]
  /\ Changed(IF disk[e] = Absent THEN "create" ELSE "modify", <<e>>)

Unlink(e) ==
  /\ disk[e] # Absent
  /\ disk' = [disk EXCEPT ![e] = Absent]
  /\ Changed("remove", <<e>>)

\* A rename is a change of both names.
Rename(e, f) ==
  /\ disk[e] # Absent /\ e # f
  /\ disk' = [disk EXCEPT ![e] = Absent, ![f] = disk[e]]
  /\ Changed("modify", <<e, f>>)

\* The files of a folder move with it to one that is empty, and are not named.
RenameFolder(d, e) ==
  /\ d # e /\ \A f \in Entries : f.folder = e => disk[f] = Absent
  /\ changes < MaxChanges /\ changes' = changes + 1
  /\ LET Moved(f) == [f EXCEPT !.folder = d] IN
     disk' = [f \in Entries |-> CASE f.folder = d -> Absent
                                  [] f.folder = e /\ Moved(f) \in Entries -> disk[Moved(f)]
                                  [] OTHER -> disk[f]]
  /\ LET Named(name) == [folder |-> "", name |-> name, markdown |-> FALSE, hidden |-> FALSE] IN
     Report("modify", <<Named(d), Named(e)>>)
  /\ missed' = missed \cup {f \in Entries : disk'[f] # disk[f]}
  /\ UNCHANGED <<running, mirror>>

Access(e) ==
  /\ disk[e] # Absent /\ running
  /\ Report("access", <<e>>)
  /\ UNCHANGED <<disk, running, missed, mirror, changes>>

StartWatching ==
  /\ ~running /\ running' = TRUE
  /\ UNCHANGED <<disk, missed, events, mirror, changes>>

StopWatching ==
  /\ running /\ running' = FALSE
  /\ UNCHANGED <<disk, missed, events, mirror, changes>>

Receive ==
  /\ events # <<>> /\ events' = Tail(events)
  /\ LET e == Head(events).entry IN mirror' = [mirror EXCEPT ![e] = disk[e]]
  /\ UNCHANGED <<disk, running, missed, changes>>

WatchNext ==
  \/ \E e \in Entries : Save(e) \/ Unlink(e) \/ Access(e) \/ \E f \in Entries : Rename(e, f)
  \/ \E d, e \in Folders : RenameFolder(d, e)
  \/ StartWatching \/ StopWatching \/ Receive

-----------------------------------------------------------------------------

\* A listener that reads every note it hears of has each note as it is on disk, once
\* it has heard all, however the changes and its readings fell together; and it hears
\* of nothing but notes.  Not so for a note whose last change was not reported:
\* because nobody watched, because the system could not keep up and the error, or its
\* call to scan anew, was dropped, or because the note moved with its folder.
EventsReachMirror ==
  /\ events = <<>> => \A e \in Entries \ missed : mirror[e] = IF e.markdown /\ ~e.hidden THEN disk[e] ELSE Absent
  /\ \A ev \in Range(events) : ev.entry.markdown /\ ~ev.entry.hidden
=============================================================================
