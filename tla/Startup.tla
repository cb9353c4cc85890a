------------------------------- MODULE Startup -------------------------------
\* How a server comes to its vaults: what a start recovers from the project's cache,
\* the vaults of the configuration file and of the command line, the tools that create
\* and register vaults, and the files of the cache (turbovault cli.rs;
\* turbovault-tools vault_lifecycle.rs; turbovault-core multi_vault.rs, cache.rs).
\* Trees, paths and vault configurations are VaultPolicy's.  Each operator is a call
\* that nothing interrupts: ServerVaults interleaves them.
EXTENDS VaultPolicy

CONSTANTS MaxVaults,
          Order,         \* the names of vaults in their order
          SpacedNames,   \* the names with a space, and those of more than 64 bytes
          LongNames,
          Features,      \* the transports compiled in
          WorkingDir

-----------------------------------------------------------------------------
(* The registry.                                                           *)

EmptyRegistry == [vaults |-> <<>>, active |-> ""]
VaultExists(multi, name) == name \in DOMAIN multi.vaults
FirstName(names) == IF names = {} THEN "" ELSE Order[CHOOSE i \in DOMAIN Order : Order[i] \in names /\ \A j \in 1 .. i - 1 : Order[j] \notin names]

\* The registry after a call, or None when it refuses.
AddVault(multi, vault) ==
  IF Cardinality(DOMAIN multi.vaults) >= MaxVaults \/ VaultExists(multi, vault.name) THEN None
  ELSE [vaults |-> (vault.name :> vault) @@ multi.vaults, active |-> IF DOMAIN multi.vaults = {} THEN vault.name ELSE multi.active]
RemoveVault(multi, name) ==
  IF ~VaultExists(multi, name) THEN None
  ELSE LET left == DOMAIN multi.vaults \ {name} IN
         [vaults |-> [m \in left |-> multi.vaults[m]], active |-> IF multi.active = name THEN FirstName(left) ELSE multi.active]
SetActiveVault(multi, name) == IF VaultExists(multi, name) THEN [multi EXCEPT !.active = name] ELSE None

-----------------------------------------------------------------------------
(* The cache.                                                              *)

\* A file is there, is not, or holds what an interrupted write left.
NoCache == [vaults |-> None, active |-> None]
BrokenVaults == <<None>>
BrokenMetadata == "broken"
LoadVaults(cache) == IF cache.vaults \in {None, BrokenVaults} THEN <<>> ELSE cache.vaults
LoadMetadata(cache) == IF cache.active \in {None, BrokenMetadata} THEN "" ELSE cache.active

\* Each file is written over in place, one after the other; steps counts the writes
\* begun and ended before the process stopped.
SaveVaults(cache, vaults, active, steps) ==
  [vaults |-> CASE steps = 0 -> cache.vaults [] steps = 1 -> BrokenVaults [] OTHER -> vaults,
   active |-> CASE steps <= 2 -> cache.active [] steps = 3 -> BrokenMetadata [] OTHER -> active]
Clear(cache) == NoCache

\* The vaults are listed in the order of a hash map.
Persisted(multi, order) == SaveVaults(NoCache, [i \in DOMAIN order |-> multi.vaults[order[i]]], multi.active, 4)

OrElse(result, before) == IF result = None THEN before ELSE result
Restored(vaults) == FoldLeft(LAMBDA multi, vault : OrElse(AddVault(multi, vault), multi), EmptyRegistry, vaults)
Reactivated(multi, active) == IF active = "" THEN multi ELSE OrElse(SetActiveVault(multi, active), multi)
Recover(cache) == Reactivated(Restored(LoadVaults(cache)), IF LoadVaults(cache) = <<>> THEN "" ELSE LoadMetadata(cache))

-----------------------------------------------------------------------------
(* The command line.                                                       *)

PathsReferToSameVault(tree, existing, requested) ==
  IF Real(tree, existing) # None /\ Real(tree, requested) # None THEN Real(tree, existing) = Real(tree, requested)
  ELSE existing = requested

IsGitRepo(tree, repositories, path) == Real(tree, path) \in repositories

\* A cached vault of the same name and place stays as it was saved; at another place it
\* makes way for the configured one.
Freed(multi, name) == IF VaultExists(multi, name) THEN RemoveVault(multi, name) ELSE multi
RegisterConfigured(tree, repositories, multi, known, vault) ==
  IF known # None /\ PathsReferToSameVault(tree, known.path, vault.path) THEN multi
  ELSE IF vault.backend = "git" /\ ~IsGitRepo(tree, repositories, vault.path) THEN None
  ELSE AddVault(Freed(multi, vault.name), vault)
RegisterConfiguredVaults(tree, repositories, multi, vaults) ==
  FoldLeft(LAMBDA known, vault :
             IF known = None THEN None ELSE RegisterConfigured(tree, repositories, known, GetVaultConfig(known, vault.name), vault),
           multi, vaults)

\* The builder's validation makes the directory.
Built(tree, made, vault) == IF made = None THEN [tree |-> tree, vault |-> None] ELSE [tree |-> made, vault |-> vault]
Validated(tree, vault) == Built(tree, ValidateVault(tree, vault), vault)
BuildConfig(tree, name, path, backend, opts) ==
  IF backend = "direct" /\ opts # None THEN [tree |-> tree, vault |-> None]
  ELSE Validated(tree, [Builder(name, path) EXCEPT !.backend = backend, !.git = opts])

Came(tree, multi, did) == [tree |-> tree, multi |-> multi, did |-> IF multi = None THEN "failed" ELSE did]
AddedAs(multi, built) == Came(built.tree, IF built.vault = None THEN None ELSE AddVault(multi, built.vault), "added")
RegisterDefaultVault(tree, multi, path, backend, opts) ==
  IF ~VaultExists(multi, "default") THEN AddedAs(multi, BuildConfig(tree, "default", path, backend, opts))
  ELSE Came(tree, multi, IF PathsReferToSameVault(tree, multi.vaults["default"].path, path) THEN "already registered" ELSE "kept cached")

ValidateTransport(transport) == transport = "stdio" \/ transport \in Features \cap {"http", "websocket", "tcp", "unix"}
ResolveOutputFormat(args) == IF args.transport = "stdio" THEN "json" ELSE IF args.format \in {"json", "human", "text"} THEN args.format ELSE None

\* What a start comes up with; multi is None when it gives up.
WithDefault(tree, multi, args) ==
  IF multi = None \/ args.vault = None THEN Came(tree, multi, "nothing")
  ELSE RegisterDefaultVault(tree, multi, args.vault, args.backend, args.opts)
Run(tree, repositories, cache, vaults, args) ==
  IF ResolveOutputFormat(args) = None \/ ~ValidateTransport(args.transport) THEN Came(tree, None, "failed")
  ELSE WithDefault(tree, RegisterConfiguredVaults(tree, repositories, Recover(cache), vaults), args)

-----------------------------------------------------------------------------
(* Tools that register vaults.                                             *)

Canonical(tree, path) == IF Real(tree, path) # None THEN Real(tree, path) ELSE path
ExpandPath(tree, path) == Canonical(tree, Join(WorkingDir, path))

\* Each directory is made unless something else is in its place; None when that is so.
MakeDir(tree, path) == IF CanCreate(tree, path) THEN CreateDirAll(tree, path) ELSE None
MakeDirs(tree, root, names) == FoldLeft(LAMBDA t, name : IF t = None THEN None ELSE MakeDir(t, root \o <<name>>), tree, names)

\* README.md is written over whatever it held.
Written(tree, at) == IF at \in DOMAIN tree /\ tree[at].kind = "link" THEN tree[at].to ELSE at
WriteFile(tree, at, size) ==
  IF Real(tree, at) # None /\ tree[Real(tree, at)].kind # "file" THEN None
  ELSE (Written(tree, at) :> [kind |-> "file", size |-> size, to |-> None]) @@ tree
Introduced(tree, root) == IF tree = None THEN None ELSE WriteFile(tree, root \o <<"README.md">>, 0)

Templates == [default |-> <<"Areas", "Projects", "Resources", "Archive">>, research |-> <<"Literature", "Theory", "Findings", "Hypotheses">>,
              team |-> <<"Team", "Projects", "Decisions", "Documentation">>]
InitializeDefaultStructure(tree, root) == Introduced(MakeDirs(tree, root, Templates["default"]), root)
InitializeTemplateStructure(tree, root, template) ==
  IF template \notin DOMAIN Templates THEN None
  ELSE IF template = "default" THEN InitializeDefaultStructure(tree, root) ELSE MakeDirs(tree, root, Templates[template])
Furnished(marked, root, template) ==
  IF marked = None THEN None
  ELSE IF template = None THEN InitializeDefaultStructure(marked, root) ELSE InitializeTemplateStructure(marked, root, template)

Refuse(tree, multi, why) == [tree |-> tree, multi |-> multi, error |-> why]

\* The directories stay when the registry refuses the vault, or a later directory fails.
Registered(tree, multi, result) == IF result = None THEN Refuse(tree, multi, "registry") ELSE Refuse(tree, result, None)
RegisterMade(before, tree, multi, vault) == IF tree = None THEN Refuse(before, multi, "structure") ELSE Registered(tree, multi, AddVault(multi, vault))
Create(tree, multi, root, template, built) ==
  IF built.vault = None THEN Refuse(tree, multi, "config")
  ELSE RegisterMade(built.tree, Furnished(MakeDirs(built.tree, root, <<".obsidian">>), root, template), multi, built.vault)
CreateAt(tree, multi, name, root, template, backend, opts) ==
  Create(tree, multi, root, template, BuildConfig(tree, name, root, backend, opts))
CreateVault(tree, multi, name, path, template, backend, opts) ==
  IF name = "" \/ name \in SpacedNames \cup LongNames \/ VaultExists(multi, name) THEN Refuse(tree, multi, "name")
  ELSE IF template # None /\ template \notin DOMAIN Templates THEN Refuse(tree, multi, "template")
  ELSE CreateAt(tree, multi, name, ExpandPath(tree, path), template, backend, opts)

Register(tree, multi, built) ==
  IF built.vault = None THEN Refuse(tree, multi, "config") ELSE Registered(built.tree, multi, AddVault(multi, built.vault))
RegisterAt(tree, repositories, multi, name, root, backend, opts) ==
  IF Real(tree, root) = None \/ tree[Real(tree, root)].kind # "dir" THEN Refuse(tree, multi, "path")
  ELSE IF backend = "git" /\ ~IsGitRepo(tree, repositories, root) THEN Refuse(tree, multi, "repository")
  ELSE Register(tree, multi, BuildConfig(tree, name, root, backend, opts))
AddVaultFromPath(tree, repositories, multi, name, path, backend, opts) ==
  IF name = "" \/ name \in SpacedNames \/ VaultExists(multi, name) THEN Refuse(tree, multi, "name")
  ELSE RegisterAt(tree, repositories, multi, name, ExpandPath(tree, path), backend, opts)

VaultIssues(tree, multi, name) ==
  LET path == multi.vaults[name].path IN
    (IF Real(tree, path \o <<".obsidian">>) = None THEN {"marker"} ELSE {})
      \cup (IF Real(tree, path) = None THEN {"missing"} ELSE IF tree[Real(tree, path)].kind # "dir" THEN {"not a directory"} ELSE {})

-----------------------------------------------------------------------------
(* Properties.                                                             *)

RegistryIsSound(multi) ==
  /\ IF DOMAIN multi.vaults = {} THEN multi.active = "" ELSE VaultExists(multi, multi.active)
  /\ Cardinality(DOMAIN multi.vaults) <= MaxVaults

\* A start is not stopped by what the cache holds, and one that succeeds serves every configured vault from where the file says, git
\* vaults in repositories unless they come from the cache, forgets no cached vault the
\* file does not name, has an active vault whenever it has vaults, and, once its state
\* is saved, in whatever order, the next start comes up with the same
\* (cli.rs run, register_configured_vaults, register_default_vault).
StartIsStable(tree, repositories, cache, vaults, args, order, up) ==
  LET cached == {LoadVaults(cache)[i].name : i \in DOMAIN LoadVaults(cache)}
      names == {vaults[i].name : i \in DOMAIN vaults} IN
    /\ (/\ args.transport = "stdio" /\ args.opts = None /\ Cardinality(cached \cup names \cup {"default"}) <= MaxVaults
        /\ \A i \in DOMAIN vaults : vaults[i].backend = "direct") => up.multi # None
    /\ up.multi # None =>
         /\ RegistryIsSound(up.multi)
         /\ Cardinality(cached) <= MaxVaults => cached \subseteq DOMAIN up.multi.vaults
         /\ \A i \in DOMAIN vaults :
              Cardinality(names) = Len(vaults) =>
                /\ PathsReferToSameVault(tree, up.multi.vaults[vaults[i].name].path, vaults[i].path)
                /\ up.multi.vaults[vaults[i].name].backend = "git" /\ vaults[i].name \notin cached => IsGitRepo(tree, repositories, vaults[i].path)
         /\ Cardinality(names) = Len(vaults) =>
              Run(up.tree, repositories, Persisted(up.multi, order[DOMAIN up.multi.vaults]), vaults, args).multi = up.multi
         /\ args.transport = "stdio" \/ args.transport \in Features
StartsAreStable(tree, repositories, cache, vaults, args, order) ==
  StartIsStable(tree, repositories, cache, vaults, args, order, Run(tree, repositories, cache, vaults, args))

\* A save that is cut short leaves a cache from which the next start comes up with the
\* vaults of before or after, one of them active, except that a list of vaults caught
\* half-written is forgotten as a whole (cache.rs save_vaults writes in place).
CutSaveIsSurvived(before, up, vaults, active, steps) ==
  /\ RegistryIsSound(up)
  /\ up = before \/ DOMAIN up.vaults = {vaults[i].name : i \in DOMAIN vaults} \/ steps = 1
  /\ steps = 1 => up = EmptyRegistry
  /\ steps = 4 /\ vaults # <<>> => up.active = active
  /\ Recover(Clear(SaveVaults(NoCache, vaults, active, steps))) = EmptyRegistry
CutSavesAreSurvived(cache, vaults, active, steps) ==
  CutSaveIsSurvived(Recover(cache), Recover(SaveVaults(cache, vaults, active, steps)), vaults, active, steps)

\* A refused creation or registration changes no registry and, when the name, the
\* template or the settings are refused, no file; one that succeeds lists a vault that
\* passes its own validation, destroys no note but a README.md, and does not touch what
\* was active; registering makes no directory (create_vault, add_vault_from_path, and
\* build_config's comment on half-created vaults).
VaultIsRemoved(before, after, name) == RegistryIsSound(after) /\ (before.active # name => after.active = before.active)
VaultIsMadeWhole(tree, repositories, multi, name, path, made) ==
  /\ made.error # None => made.multi = multi
  /\ made.error \in {"name", "template", "config"} => made.tree = tree
  /\ \A at \in DOMAIN tree : at \in DOMAIN made.tree /\ (made.tree[at] = tree[at] \/ Last(at) = "README.md")
  /\ made.error = None => /\ VaultIssues(made.tree, made.multi, name) = {}
                          /\ made.multi.active = IF DOMAIN multi.vaults = {} THEN name ELSE multi.active
                          /\ AddVaultFromPath(made.tree, repositories, EmptyRegistry, name, path, "direct", None).error = None
  /\ RegistryIsSound(made.multi)
  /\ VaultExists(made.multi, name) => VaultIsRemoved(made.multi, RemoveVault(made.multi, name), name)
VaultIsAddedWhole(tree, repositories, multi, name, backend, added) ==
  /\ added.tree = tree /\ (added.error # None => added.multi = multi)
  /\ added.error = None => /\ "missing" \notin VaultIssues(tree, added.multi, name)
                           /\ backend = "git" => IsGitRepo(tree, repositories, added.multi.vaults[name].path)
  /\ RegistryIsSound(added.multi)
VaultsAreMadeWhole(tree, repositories, multi, name, path, template, backend, opts) ==
  /\ (backend = "direct" /\ opts # None) \/ template \notin DOMAIN Templates \cup {None} =>
       CreateVault(tree, multi, name, path, template, backend, opts).tree = tree
  /\ VaultIsMadeWhole(tree, repositories, multi, name, path, CreateVault(tree, multi, name, path, template, backend, opts))
  /\ VaultIsAddedWhole(tree, repositories, multi, name, backend, AddVaultFromPath(tree, repositories, multi, name, path, backend, opts))
=============================================================================
