------------------------------ MODULE CoreHelpers ------------------------------
(***************************************************************************)
(* What turbovault-core lends to the others: a circuit breaker and retries *)
(* (resilience.rs), counters that threads add to without a lock, found by  *)
(* name (metrics.rs), and the project a directory belongs to (cache.rs).   *)
(***************************************************************************)
EXTENDS Integers, FiniteSets, Sequences, SequencesExt, FiniteSetsExt

CONSTANTS
  Callers,
  FailureThreshold, SuccessThreshold, Timeout,   \* of the breaker
  Largest,     \* the largest number a counter holds
  Amounts,     \* what callers add
  MaxTime, MaxCalls

VARIABLES
  circuit,     \* the breaker: state, failures, successes, changed
  now,
  request,     \* requests that were let through and are not over: [by, at]
  streak,      \* the outcomes since the breaker opened, or half opened, as [ok, many]
  calls,
  registry,    \* name -> counter, in a context that may be disabled
  value,       \* counter -> number
  adding,      \* callers' additions: [counter, read, by]
  added        \* name -> all that callers have added
helperVars == <<circuit, now, request, streak, calls, registry, value, adding, added>>
breakerVars == <<circuit, now, request, streak>>
counterVars == <<registry, value, adding, added>>

Idle == [name |-> "", id |-> 0, read |-> -1, by |-> 0]
Names == {"reads"}

HelpersInit ==
  /\ circuit = [state |-> "closed", failures |-> 0, successes |-> 0, changed |-> 0]
  /\ now = 0 /\ request = {} /\ streak = [ok |-> TRUE, many |-> 0] /\ calls = 0
  /\ registry \in [enabled : BOOLEAN, ids : {<<>>}]
  /\ value = <<>> /\ adding = [c \in Callers |-> Idle] /\ added = [k \in Names |-> 0]

-----------------------------------------------------------------------------
(* The breaker.                                                            *)

Allowed == circuit.state # "open" \/ now - circuit.changed >= Timeout

\* The request after the timeout tries whether things are well again.
IsRequestAllowed(c) ==
  /\ (\A r \in request : r.by # c) /\ calls < MaxCalls
  /\ calls' = calls + 1
  /\ request' = IF Allowed THEN request \cup {[by |-> c, at |-> now]} ELSE request
  /\ LET tries == Allowed /\ circuit.state = "open" IN
     /\ circuit' = IF tries THEN [circuit EXCEPT !.state = "halfOpen", !.failures = 0, !.successes = 0] ELSE circuit
     /\ streak' = IF tries THEN [ok |-> TRUE, many |-> 0] ELSE streak
  /\ UNCHANGED <<now, counterVars>>

Counted(ok) == IF streak.ok = ok THEN [streak EXCEPT !.many = @ + 1] ELSE [ok |-> ok, many |-> 1]

RecordSuccess(c) ==
  /\ \E r \in request : r.by = c /\ request' = request \ {r}
  /\ LET closes == circuit.state = "halfOpen" /\ circuit.successes + 1 >= SuccessThreshold IN
     circuit' = [circuit EXCEPT !.failures = 0, !.successes = IF closes THEN 0 ELSE @ + 1,
                                !.state = IF closes THEN "closed" ELSE @, !.changed = IF closes THEN now ELSE @]
  /\ streak' = Counted(TRUE)
  /\ UNCHANGED <<now, calls, counterVars>>

\* A failure that comes late makes an open breaker wait anew.
RecordFailure(c) ==
  /\ \E r \in request : r.by = c /\ request' = request \ {r}
  /\ LET opens == circuit.failures + 1 >= FailureThreshold IN
     circuit' = [circuit EXCEPT !.successes = 0, !.failures = @ + 1,
                                !.state = IF opens THEN "open" ELSE @, !.changed = IF opens THEN now ELSE @]
  /\ streak' = Counted(FALSE)
  /\ UNCHANGED <<now, calls, counterVars>>

Tick ==
  /\ now < MaxTime /\ now' = now + 1
  /\ UNCHANGED <<circuit, request, streak, calls, counterVars>>

-----------------------------------------------------------------------------
(* Counters.                                                               *)

\* A disabled context makes a counter for everyone who asks and keeps none.
CounterNamed(c, name) ==
  /\ adding[c] = Idle /\ calls < MaxCalls /\ calls' = calls + 1
  /\ LET known == registry.enabled /\ name \in DOMAIN registry.ids
         id == IF known THEN registry.ids[name] ELSE Len(value) + 1
     IN  /\ value' = IF known THEN value ELSE Append(value, 0)
         /\ registry' = IF registry.enabled THEN [registry EXCEPT !.ids = (name :> id) @@ @] ELSE registry
         /\ \E by \in Amounts : adding' = [adding EXCEPT ![c] = [name |-> name, id |-> id, read |-> -1, by |-> by]]
  /\ UNCHANGED <<breakerVars, added>>

Load(c) ==
  /\ adding[c] # Idle /\ adding[c].read = -1
  /\ adding' = [adding EXCEPT ![c].read = value[adding[c].id]]
  /\ UNCHANGED <<breakerVars, calls, registry, value, added>>

\* The exchange is done if the number is still the one that was read, and may fail
\* even so.
CompareExchange(c) ==
  /\ adding[c] # Idle /\ adding[c].read # -1
  /\ LET a == adding[c]
         sum == Min({Largest, a.read + a.by})
     IN  \/ /\ value[a.id] = a.read
            /\ value' = [value EXCEPT ![a.id] = sum]
            /\ adding' = [adding EXCEPT ![c] = Idle] /\ added' = [added EXCEPT ![a.name] = @ + a.by]
         \/ /\ adding' = [adding EXCEPT ![c].read = value[a.id]]
            /\ UNCHANGED <<value, added>>
  /\ UNCHANGED <<breakerVars, calls, registry>>

BreakerNext == Tick \/ \E c \in Callers : IsRequestAllowed(c) \/ RecordSuccess(c) \/ RecordFailure(c)

CountersNext == \E c \in Callers : Load(c) \/ CompareExchange(c) \/ \E name \in Names : CounterNamed(c, name)

-----------------------------------------------------------------------------
(* Retries and projects.                                                   *)

\* What a call that is tried again answers, and how long it waits in between; the
\* first wait is as it was set.
Retry(outcomes, config) ==
  LET Try(t, o) ==
        CASE t.over -> t
          [] ~t.over /\ o = "ok" -> [t EXCEPT !.over = TRUE, !.answer = "ok"]
          [] ~t.over /\ o # "ok" /\ t.attempt + 1 >= config.attempts -> [t EXCEPT !.over = TRUE, !.answer = o]
          [] OTHER -> [t EXCEPT !.attempt = @ + 1, !.waits = Append(@, t.backoff),
                                !.backoff = Min({@ * config.multiplier, config.longest})]
  IN  FoldLeft(Try, [attempt |-> 0, waits |-> <<>>, backoff |-> config.first, over |-> FALSE, answer |-> "none"], outcomes)

\* The nearest directory around the start that has a project's marker, or the start.
ProjectRoot(start, marked) ==
  LET around == {k \in 0 .. Len(start) : SubSeq(start, 1, k) \in marked}
  IN  IF around = {} THEN start ELSE SubSeq(start, 1, Max(around))

-----------------------------------------------------------------------------

\* A breaker that is closed has not had as many failures in a row as open it; one
\* that is half open has had nothing but successes since its last failure, and not
\* yet enough, and had its timeout before it; and whoever is still at work while it
\* is open was let in before it opened.
BreakerHolds ==
  /\ circuit.state = "closed" => streak.ok \/ streak.many < FailureThreshold
  /\ circuit.state = "halfOpen" => /\ circuit.successes < SuccessThreshold
                                   /\ circuit.successes = IF streak.ok THEN streak.many ELSE 0
  /\ circuit.state = "halfOpen" => now >= circuit.changed + Timeout
  /\ circuit.state = "open" => \A r \in request : r.at <= circuit.changed

\* Whatever the callers' order, what was added under a name is in its counter, up
\* to the largest number; without a context it is in nobody's.
CountsAddUp ==
  registry.enabled =>
    \A k \in DOMAIN registry.ids : value[registry.ids[k]] = Min({Largest, added[k]})

\* The first success is the answer, or the last failure that there was time for,
\* and no wait is longer than the longest or the first.
RetriesEnd(outcomes, config, end) ==
  LET tries == SubSeq(outcomes, 1, Min({Len(outcomes), Max({1, config.attempts})}))
      ok == SelectInSeq(tries, LAMBDA o : o = "ok")
  IN  /\ ok > 0 => end.answer = "ok" /\ Len(end.waits) = ok - 1
      /\ ok = 0 /\ Len(outcomes) >= Max({1, config.attempts}) => end.answer = Last(tries) /\ Len(end.waits) = Len(tries) - 1
      /\ \A k \in DOMAIN end.waits : end.waits[k] <= Max({config.longest, config.first})

\* Directories of one project have one registry, and no project has another's.
ProjectsAreApart(marked, root, other) ==
  LET Under(d, r) == Len(r) <= Len(d) /\ SubSeq(d, 1, Len(r)) = r
      Nearest(d) == {r \in marked : Under(d, r) /\ \A q \in marked : Under(d, q) => Len(q) <= Len(r)}
  IN  Nearest(root) # {} => (ProjectRoot(root, marked) = ProjectRoot(other, marked)) = (Nearest(root) = Nearest(other))
=============================================================================
