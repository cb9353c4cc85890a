------------------------------ MODULE ToolSurface ------------------------------
\* What clients see of a server with compiled-in plugins: the catalog that assemble
\* publishes, where a call, a read or a completion is sent, what a plugin's failure
\* becomes, which configuration files a plugin may read and which tools the
\* visibility settings leave (turbovault tools/providers.rs, tools/plugin_host.rs,
\* tool_visibility.rs; turbovault-plugin-api provider.rs, vault.rs).
\*
\* A name is the sequence of its words, which underscores join; a word "?" stands for
\* characters no name may have, "-" for those a tool may have and an id may not.
EXTENDS Integers, FiniteSets, Sequences, SequencesExt, TLC

CONSTANTS None, MaxWords, MaxValues

IsUnique(q) == \A i, j \in DOMAIN q : q[i] = q[j] => i = j
Named(id, locals) == [i \in DOMAIN locals |-> id \o locals[i]]

\* An absolute path splits into an empty first segment and others; "." and empty
\* segments fall away. A backslash separates as a slash does.
Kept(path) == SelectSeq(path, LAMBDA w : w \notin {"", "."})
NormalizeConfigPath(path) ==
  IF path = <<"">> \/ path[1] = "" \/ ".." \in Range(path) \/ Len(Kept(path)) < 2 \/ Kept(path)[1] # ".obsidian"
  THEN None ELSE Kept(path)

ValidId(id) == Len(id) \in 1 .. MaxWords /\ Range(id) \cap {"?", "-"} = {}
ValidName(name) == Len(name) \in 1 .. MaxWords /\ "?" \notin Range(name)
ValidPath(path) == path \notin {"", "a://b"}
ValidDescriptor(p) == ValidId(p.id) /\ p.titled
ValidCapabilities(p) == \A path \in Range(p.config) : NormalizeConfigPath(path) = path

-----------------------------------------------------------------------------
(* The catalog.                                                            *)

\* What the vault's own providers publish, and the prefixes they are mounted under.
CoreTools == {<<"read", "note">>}
CoreResources == {[scheme |-> <<"obsidian">>, path |-> "syntax"]}
CorePrefixes == {<<"files">>}

CoreServer == [tools |-> CoreTools, resources |-> CoreResources, prompts |-> {}, mounted |-> <<>>]
Reserved == {r.scheme : r \in CoreResources}

AdapterAccepts(p) ==
  /\ \A i \in DOMAIN p.tools : ValidName(p.tools[i])
  /\ IsUnique(p.tools) /\ IsUnique(p.resources) /\ IsUnique(p.prompts)

Uris(p) == {[scheme |-> p.id, path |-> path] : path \in Range(p.resources)}
Publishable(server, p) ==
  /\ \A name \in Range(Named(p.id, p.tools)) : ValidName(name) /\ name \notin server.tools
  /\ \A uri \in Uris(p) : ValidPath(uri.path) /\ uri \notin server.resources
  /\ \A path \in Range(p.templates) : ValidPath(path)
  /\ \A name \in Range(p.prompts) : ValidName(name)
  /\ \A name \in Range(Named(p.id, p.prompts)) : ValidName(name) /\ name \notin server.prompts

\* Two handlers cannot be mounted under one prefix.
TryMount(server, p) == p.id \notin CorePrefixes \cup {q.id : q \in Range(server.mounted)}

Mounts(server, p) ==
  /\ ValidDescriptor(p) /\ p.id \notin Reserved /\ ValidCapabilities(p) /\ p.builds
  /\ AdapterAccepts(p) /\ Publishable(server, p) /\ TryMount(server, p)

Mount(server, p) ==
  IF server = None \/ ~Mounts(server, p) THEN None
  ELSE [tools |-> server.tools \cup Range(Named(p.id, p.tools)), resources |-> server.resources \cup Uris(p),
        prompts |-> server.prompts \cup Range(Named(p.id, p.prompts)), mounted |-> Append(server.mounted, p)]
Assemble(plugins) == FoldLeft(Mount, CoreServer, plugins)

\* Only the copy in the catalog loses the formats, below the properties.
NumericTypes == {"integer", "number"}
RECURSIVE Visit(_)
Visit(schema) == [schema EXCEPT !.format = IF @ # None /\ schema.types \cap NumericTypes # {} THEN None ELSE @,
                                !.nested = [i \in DOMAIN @ |-> Visit(@[i])]]

-----------------------------------------------------------------------------
(* Requests.                                                               *)

Error(class) == [ok |-> FALSE, class |-> class]
InvalidCodes == {"invalid_input", "not_found", "conflict", "permission_denied"}

\* An entry point ends with a result, with a failure that has a code, by a panic or
\* not at all; the last two are given a code here.
Guarded(outcome) == CASE outcome = "panic" -> "internal" [] outcome = "hang" -> "timeout" [] OTHER -> outcome
PluginError(code) == Error(IF code \in InvalidCodes THEN "invalid_request" ELSE "internal")
MissingOr(code, missing) == IF code = "not_found" THEN Error(missing) ELSE PluginError(code)

PrefixOwners(server, name) == {p \in Range(server.mounted) : IsStrictPrefix(p.id, name)}
PluginOwningName(server, name) == {p \in PrefixOwners(server, name) : \A q \in PrefixOwners(server, name) : Len(q.id) <= Len(p.id)}
PluginOwningScheme(server, scheme) == {p \in Range(server.mounted) : p.id = scheme}
Local(p, name) == SubSeq(name, Len(p.id) + 1, Len(name))

\* The composite cuts a prefix off a routed name; which one, where two fit, is its own
\* affair.
CompositeRoutes(server, name) == PrefixOwners(server, name)

Answered(code, p, failed) == IF code = "ok" THEN [ok |-> TRUE, by |-> p.id] ELSE failed
PluginCallTool(p, local, outcome) ==
  IF local \notin Range(p.tools) THEN Error("tool_not_found")
  ELSE Answered(Guarded(outcome), p, PluginError(Guarded(outcome)))
PluginGetPrompt(p, local, outcome) ==
  IF local \notin Range(p.prompts) THEN Error("prompt_not_found")
  ELSE Answered(Guarded(outcome), p, MissingOr(Guarded(outcome), "prompt_not_found"))

\* The contents of a read keep their URIs where they have the plugin's scheme already.
NamespaceContents(p, uris) == [i \in DOMAIN uris |-> IF uris[i].scheme = p.id THEN uris[i] ELSE [scheme |-> p.id, path |-> uris[i].path]]
PluginReadResource(p, outcome, uris) ==
  IF Guarded(outcome) = "ok" THEN [ok |-> TRUE, by |-> p.id, uris |-> NamespaceContents(p, uris)]
  ELSE MissingOr(Guarded(outcome), "resource_not_found")

CallTool(server, name, outcome) ==
  IF name \notin server.tools THEN {Error("tool_not_found")}
  ELSE IF name \in CoreTools THEN {[ok |-> TRUE, by |-> <<>>]}
  ELSE {PluginCallTool(p, Local(p, name), outcome) : p \in CompositeRoutes(server, name)}
\* Whatever a plugin answers from is brought up to date before it is asked.
EnsuresFresh(server, name) == name \in server.tools /\ PluginOwningName(server, name) # {}

GetPrompt(server, name, outcome) ==
  IF name \notin server.prompts THEN {Error("prompt_not_found")}
  ELSE {PluginGetPrompt(p, Local(p, name), outcome) : p \in CompositeRoutes(server, name)}

ReadResource(server, uri, outcome, uris) ==
  IF uri \in CoreResources THEN {[ok |-> TRUE, by |-> <<>>, uris |-> <<uri>>]}
  ELSE IF PluginOwningScheme(server, uri.scheme) = {} THEN {Error("resource_not_found")}
  ELSE {PluginReadResource(p, outcome, uris) : p \in PluginOwningScheme(server, uri.scheme)}

\* completion is [values, more]; more is None where the plugin does not say.
Cut(completion) ==
  LET over == Len(completion.values) > MaxValues
  IN  [ok |-> TRUE, values |-> SubSeq(completion.values, 1, IF over THEN MaxValues ELSE Len(completion.values)),
       more |-> IF over THEN TRUE ELSE completion.more]
Completed(p, local, outcome, completion) ==
  IF Guarded(outcome) = "ok" THEN [by |-> p.id, local |-> local] @@ Cut(completion) ELSE PluginError(Guarded(outcome))
CompletePrompt(server, name, outcome, completion) ==
  IF PluginOwningName(server, name) = {} THEN {Error("prompt_not_found")}
  ELSE {Completed(p, Local(p, name), outcome, completion) : p \in PluginOwningName(server, name)}
CompleteTemplate(server, uri, outcome, completion) ==
  IF PluginOwningScheme(server, uri.scheme) = {} THEN {Error("resource_not_found")}
  ELSE {Completed(p, uri.path, outcome, completion) : p \in PluginOwningScheme(server, uri.scheme)}

CompletionsAdvertised(server) == server.prompts # {} \/ \E p \in Range(server.mounted) : p.templates # <<>>

\* found: what the path leads to, symbolic links followed, in the active vault.
HostReadConfig(active, vault, found) ==
  CASE active # vault -> PluginError("conflict")
    [] found = "outside" -> PluginError("permission_denied")
    [] found = "missing" -> [ok |-> TRUE, bytes |-> None]
    [] OTHER -> [ok |-> TRUE, bytes |-> found]
ReadConfig(p, active, vault, path, found) ==
  CASE NormalizeConfigPath(path) = None -> PluginError("invalid_input")
    [] NormalizeConfigPath(path) \notin Range(p.config) -> PluginError("permission_denied")
    [] OTHER -> HostReadConfig(active, vault, found)

-----------------------------------------------------------------------------
(* Visibility. A tool is [name, tags, readOnly]; a blank name of the       *)
(* settings is "".                                                         *)

ExtendClean(target, values) ==
  FoldLeft(LAMBDA so, v : IF v = "" \/ v \in Range(so) THEN so ELSE Append(so, v), target, values)

MergeCli(settings, overrides) ==
  [allowed |-> ExtendClean(settings.allowed, overrides.allowed), hidden |-> ExtendClean(settings.hidden, overrides.hidden),
   disabled |-> ExtendClean(settings.disabled, overrides.disabled),
   disabledTags |-> ExtendClean(settings.disabledTags, overrides.disabledTags),
   readOnly |-> settings.readOnly \/ overrides.readOnly]

HasRules(settings) == settings.readOnly \/ \E f \in {"allowed", "hidden", "disabled", "disabledTags"} : settings[f] # <<>>

\* The layer the settings are handed to: a tool is callable unless a rule takes it out,
\* and listed unless it is hidden besides.
Callable(settings, tool) ==
  /\ settings.allowed # <<>> => tool.name \in Range(settings.allowed)
  /\ tool.name \notin Range(settings.disabled) /\ tool.tags \cap Range(settings.disabledTags) = {}
  /\ settings.readOnly => tool.readOnly
Listed(settings, tool) == Callable(settings, tool) /\ tool.name \notin Range(settings.hidden)
Layered(settings, tools) == IF HasRules(settings) THEN {t \in tools : Listed(settings, t)} ELSE tools

-----------------------------------------------------------------------------
(* Properties.                                                             *)

\* No id begins with the words of another or of a prefix of the vault's own.
Apart(server) ==
  \A p \in Range(server.mounted) : \A id \in {q.id : q \in Range(server.mounted)} \cup CorePrefixes :
    ~IsStrictPrefix(p.id, id) /\ ~IsStrictPrefix(id, p.id)

\* Whether the server starts does not depend on the order of its plugins; once it has
\* started, each plugin's tool, prompt and resource is published once, under a name that
\* leads back to that plugin and to nobody else, and a name nobody publishes leads to no
\* plugin (providers.rs: assemble, call_tool, get_prompt, read_resource,
\* complete_through_plugin). One name may fit two plugins: completion asks the one with
\* the longer id, so that "t_b_x", where "t" publishes it, is asked of "t_b".
CatalogsLeadBack(plugins) ==
  LET s == Assemble(plugins)
      said == [values |-> <<>>, more |-> None]
      tools == UNION {Range(Named(p.id, p.tools)) : p \in Range(plugins)}
  IN  /\ (s = None) = (Assemble(Reverse(plugins)) = None)
      /\ s # None =>
           /\ Cardinality(s.tools) = Cardinality(CoreTools) + FoldLeft(LAMBDA k, p : k + Len(p.tools), 0, plugins)
           /\ \A name \in CoreTools : CallTool(s, name, "ok") = {[ok |-> TRUE, by |-> <<>>]}
           /\ \A uri \in CoreResources : \A r \in ReadResource(s, uri, "ok", <<>>) : r.by = <<>>
           /\ \A p \in Range(plugins) : \A q \in Range(p.prompts) :
                /\ CompletionsAdvertised(s)
                /\ Apart(s) => {r.by : r \in GetPrompt(s, p.id \o q, "ok")} = {p.id}
                /\ (\A other \in Range(plugins) : IsStrictPrefix(other.id, p.id \o q) => Len(other.id) <= Len(p.id)) =>
                     {<<r.by, r.local>> : r \in CompletePrompt(s, p.id \o q, "ok", said)} = {<<p.id, q>>}
           /\ Apart(s) => \A p \in Range(plugins) : \A t \in Range(p.tools) :
                CallTool(s, p.id \o t, "ok") = {[ok |-> TRUE, by |-> p.id]} /\ EnsuresFresh(s, p.id \o t)
           /\ \A name \in {p.id \o <<"x">> : p \in Range(plugins)} \ tools :
                CallTool(s, name, "ok") = {Error("tool_not_found")}
           /\ \A p, q \in Range(plugins) : \A uris \in {<<>>, <<[scheme |-> p.id, path |-> "y"]>>, <<[scheme |-> <<>>, path |-> "y"]>>} :
                \A r \in ReadResource(s, [scheme |-> q.id, path |-> "x"], "ok", uris) : r.by = q.id /\ \A u \in Range(r.uris) : u.scheme = q.id

\* A failed, panicking or hanging plugin fails the request it was called for, and only a
\* failure the plugin blames on the caller is the caller's; a completion is never longer
\* than the protocol allows and says when it was cut (guarded, plugin_error,
\* complete_through_plugin).
FailuresStayRequests(p, outcome, completion) ==
  LET s == Assemble(<<p>>)
      name == p.id \o p.prompts[1]
      answers == CallTool(s, p.id \o p.tools[1], outcome) \cup GetPrompt(s, name, outcome)
                 \cup ReadResource(s, [scheme |-> p.id, path |-> "x"], outcome, <<>>) \cup CompletePrompt(s, name, outcome, completion)
  IN  s # None /\ Apart(s) =>
        /\ \A r \in answers : r.ok = (outcome = "ok")
        /\ outcome \in {"panic", "hang", "unavailable", "internal"} => \A r \in answers : r.class = "internal"
        /\ outcome \in {"invalid_input", "conflict"} => \A r \in answers : r.class = "invalid_request"
        /\ \A r \in CompletePrompt(s, name, outcome, completion) :
             r.ok => /\ Len(r.values) <= MaxValues /\ IsPrefix(r.values, completion.values)
                     /\ r.values # completion.values => r.more = TRUE
                     /\ completion.more = TRUE => r.more = TRUE

\* A plugin reads just the configuration files it declared, in whatever spelling it asks,
\* and nothing outside the vault; no spelling of a declaration gets past the check that
\* another spelling fails (PluginCapabilities::validate, VaultApi::read_config).
ConfigReadsAreDeclared(declared, path, found) ==
  LET p == [id |-> <<"t">>, config |-> <<declared>>]
      r == ReadConfig(p, "v", "v", path, found)
  IN  ValidCapabilities(p) =>
        /\ r.ok => ".." \notin Range(path) /\ path[1] # "" /\ Kept(path) = declared /\ found # "outside"
        /\ (declared = path /\ found # "outside") => r.ok
        /\ ReadConfig(p, "v", "w", path, found).ok = FALSE
        /\ \A other \in {path \o <<".">>, <<".">> \o path} :
             path[1] # "" => ReadConfig(p, "v", "v", other, found) = r

\* Settings from the command line take tools away and give none back, except that they
\* may add to a list of allowed tools; what is listed can be called, and asking twice
\* changes nothing (tool_visibility.rs).
OverridesOnlyTighten(settings, overrides, tools) ==
  LET merged == MergeCli(settings, overrides)
  IN  /\ \A t \in tools : Callable(merged, t) =>
           Callable(settings, t) \/ (settings.allowed # <<>> /\ t.name \in Range(overrides.allowed) /\ t.name \notin Range(settings.disabled))
      /\ \A t \in tools : t \in Layered(merged, tools) => Callable(merged, t) /\ t.name \notin Range(merged.hidden)
      /\ \A t \in Layered(merged, tools) : settings.allowed = <<>> => t \in Layered(settings, tools)
      /\ MergeCli(merged, overrides) = merged
      /\ settings.readOnly => \A t \in Layered(merged, tools) : t.readOnly

\* No number below a tool's properties keeps a format, and everything else stays as the
\* provider wrote it (strip_numeric_formats).
RECURSIVE FormatsAreCut(_, _)
FormatsAreCut(schema, cut) ==
  /\ cut.types = schema.types /\ Len(cut.nested) = Len(schema.nested)
  /\ cut.format = IF schema.types \cap NumericTypes = {} THEN schema.format ELSE None
  /\ \A i \in DOMAIN schema.nested : FormatsAreCut(schema.nested[i], cut.nested[i])
=============================================================================
