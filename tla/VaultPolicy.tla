----------------------------- MODULE VaultPolicy -----------------------------
\* Which paths the note tools reach and which notes a scan finds: configurations and
\* their validation, the resolver and its policy, the walk, and the path check that a
\* rollback makes (turbovault-vault manager.rs; turbovault-core config.rs, utils.rs,
\* multi_vault.rs).
\*
\* A path is the sequence of its segments, "/" first when it is absolute.  A tree maps
\* the locations that exist, absolute paths without "." and "..", to a directory, a
\* file of some size, or a link to a location that is no link.
EXTENDS Integers, FiniteSets, Sequences, SequencesExt, TLC

CONSTANTS None,
          Extension,   \* a file name's extension, or None
          Folded,      \* a spelled extension, without its dot and in lower case
          SizeLimit    \* the default for the largest file

Ok(path) == [path |-> path, refused |-> None]
Refused(why) == [path |-> None, refused |-> why]

-----------------------------------------------------------------------------
(* Paths.                                                                  *)

Absolute(path) == path # <<>> /\ path[1] = "/"

\* Empty segments fall away, and so does "." unless it comes first.
Components(path) ==
  LET kept == SelectSeq(path, LAMBDA c : c # "") IN
    IF kept = <<>> THEN <<>> ELSE <<kept[1]>> \o SelectSeq(Tail(kept), LAMBDA c : c # ".")
Join(base, path) == IF Absolute(path) THEN Components(path) ELSE Components(base \o Components(path))
StripPrefix(path, base) == SubSeq(path, Len(base) + 1, Len(path))

Up(path) == IF path = <<>> THEN path ELSE Front(path)
NormalizePath(path) ==
  FoldLeft(LAMBDA before, c : IF c = "." THEN before ELSE IF c = ".." THEN Up(before) ELSE Append(before, c),
           <<>>, Components(path))

\* What the file system makes of a path: None when there is nothing there.
Arrive(tree, at) ==
  IF at \notin DOMAIN tree THEN None
  ELSE IF tree[at].kind # "link" THEN at ELSE IF tree[at].to \in DOMAIN tree THEN tree[at].to ELSE None
Follow(tree, at, c) ==
  IF at = None \/ tree[at].kind # "dir" THEN None
  ELSE IF c # ".." THEN Arrive(tree, Append(at, c)) ELSE IF Len(at) > 1 THEN Front(at) ELSE at
Real(tree, path) == FoldLeft(LAMBDA at, c : Follow(tree, at, c), <<"/">>, Tail(path))

-----------------------------------------------------------------------------
(* Configurations.                                                         *)

Builder(name, path) == [name |-> name, path |-> path, isDefault |-> FALSE, backend |-> "direct", git |-> None,
                        components |-> {}, subtrees |-> {}]
VaultGitDefault == [includeIgnored |-> TRUE, requireMessage |-> FALSE]
ServerDefault == [vaults |-> <<>>, maxSize |-> SizeLimit, extensions |-> {".md", ".txt", ".canvas"},
                  components |-> {".obsidian", ".git", ".DS_Store", "node_modules"}, subtrees |-> {}]

ValidateExcludedSubtrees(paths) ==
  \A path \in paths : Components(path) # <<>> /\ \A i \in DOMAIN Components(path) : Components(path)[i] \notin {"/", ".", ".."}

\* create_dir_all makes the directories that lack, unless a file or a dangling link is in the way.
Above(path) == {SubSeq(path, 1, n) : n \in 1 .. Len(path)}
Existing(tree, path) == CHOOSE at \in Above(path) : Real(tree, at) # None /\ \A b \in Above(path) : Real(tree, b) # None => Len(b) <= Len(at)
Below(path, at) == {SubSeq(path, 1, n) : n \in Len(at) + 1 .. Len(path)}
LackingBelow(path, at, real) == Below(real \o StripPrefix(path, at), real)
LackingFrom(tree, path, at) == LackingBelow(path, at, Real(tree, at))
Lacking(tree, path) == LackingFrom(tree, path, Existing(tree, path))
CanCreate(tree, path) ==
  \A at \in Above(path) : IF Real(tree, at) = None THEN at \notin DOMAIN tree ELSE tree[Real(tree, at)].kind = "dir"
CreateDirAll(tree, path) == [at \in Lacking(tree, path) |-> [kind |-> "dir"]] @@ tree

\* The tree once the configuration is accepted, or None.
ValidateVault(tree, vault) ==
  IF vault.name = "" \/ ~ValidateExcludedSubtrees(vault.subtrees) THEN None
  ELSE IF Real(tree, vault.path) # None THEN IF tree[Real(tree, vault.path)].kind = "dir" THEN tree ELSE None
  ELSE IF CanCreate(tree, vault.path) THEN CreateDirAll(tree, vault.path) ELSE None

Names(config) == {config.vaults[i].name : i \in DOMAIN config.vaults}
Defaults(config) == SelectSeq(config.vaults, LAMBDA vault : vault.isDefault)
Validate(tree, config) ==
  IF \/ ~ValidateExcludedSubtrees(config.subtrees) \/ config.vaults = <<>>
     \/ Cardinality(Names(config)) # Len(config.vaults) \/ Len(Defaults(config)) > 1
  THEN None
  ELSE FoldLeft(LAMBDA t, vault : IF t = None THEN None ELSE ValidateVault(t, vault), tree, config.vaults)

DefaultVault(config) ==
  IF Defaults(config) # <<>> THEN Defaults(config)[1] ELSE IF config.vaults # <<>> THEN config.vaults[1] ELSE None

\* MultiVaultManager: a later vault of the same name takes the earlier one's place.
MultiVaultNew(config) ==
  [vaults |-> [name \in Names(config) |-> config.vaults[SelectLastInSeq(config.vaults, LAMBDA vault : vault.name = name)]],
   active |-> IF config.vaults = <<>> THEN "" ELSE DefaultVault(config).name]
GetVaultConfig(multi, name) == IF name \in DOMAIN multi.vaults THEN multi.vaults[name] ELSE None
GetActiveVaultConfig(multi) == IF multi.active = "" THEN None ELSE GetVaultConfig(multi, multi.active)
VaultInfo(multi, name) ==
  LET vault == GetVaultConfig(multi, name) IN
    [name |-> name, path |-> vault.path, isDefault |-> name = multi.active, backend |-> vault.backend,
     requireMessage |-> vault.backend = "git" /\ vault.git # None /\ vault.git.requireMessage]
ListVaults(multi) == {VaultInfo(multi, name) : name \in DOMAIN multi.vaults}

-----------------------------------------------------------------------------
(* The manager of the default vault.                                       *)

ScanSpec(config) ==
  LET vault == DefaultVault(config) IN
    [components |-> config.components \cup vault.components, subtrees |-> config.subtrees \cup vault.subtrees,
     extensions |-> {Folded[e] : e \in config.extensions}, maxSize |-> config.maxSize]

\* The git substrate wants a repository and gets the queue its commits go to.
ManagerNew(config, repositories) ==
  LET vault == DefaultVault(config) IN
    IF vault = None \/ (vault.backend = "git" /\ vault.path \notin repositories) THEN None
    ELSE [root |-> vault.path, spec |-> ScanSpec(config), substrate |-> vault.backend, queue |-> vault.backend = "git",
          includeIgnored |-> IF vault.git = None THEN VaultGitDefault.includeIgnored ELSE vault.git.includeIgnored]

ProtectedComponents == {".turbovault"}
InExcludedSubtree(path, subtree) == IsPrefix(Components(subtree), path)
Excluded(spec, relative) ==
  \/ \E i \in DOMAIN relative : relative[i] \in (ProtectedComponents \cup spec.components) \ {"/", ".", ".."}
  \/ \E subtree \in spec.subtrees : InExcludedSubtree(relative, subtree)

\* path_trav compares real locations, and fails where there is none.
ResolveBypassingPolicy(tree, m, path) ==
  LET full == Join(m.root, path) IN
    IF Real(tree, full) # None /\ Real(tree, m.root) # None
    THEN IF IsPrefix(Real(tree, m.root), Real(tree, full)) THEN Ok(full) ELSE Refused("traversal")
    ELSE IF IsPrefix(m.root, NormalizePath(full)) THEN Ok(full) ELSE Refused("traversal")

IsProtected(m, full) == IsPrefix(m.root, full) /\ Excluded(m.spec, StripPrefix(full, m.root))
Resolve(tree, m, path) ==
  LET found == ResolveBypassingPolicy(tree, m, path) IN
    IF found.refused = None /\ IsProtected(m, found.path) THEN Refused("protected") ELSE found

RelativePath(m, full) == IF IsPrefix(m.root, full) THEN StripPrefix(full, m.root) ELSE full

IsPathExcluded(m, path) ==
  LET comps == Components(path)
      relative == IF Absolute(path) THEN StripPrefix(comps, m.root) ELSE comps IN
    \/ Absolute(path) /\ ~IsPrefix(m.root, comps)
    \/ \E i \in DOMAIN relative : relative[i] \in {"..", "/"}
    \/ Excluded(m.spec, NormalizePath(relative))

-----------------------------------------------------------------------------
(* Reading and scanning.                                                   *)

IsNote(path) == Extension[Last(path)] # None /\ Folded[Extension[Last(path)]] = "md"
IsFile(tree, at) == at # None /\ tree[at].kind = "file"

WithinLimit(tree, m, at) == tree[at].size <= m.spec.maxSize
ReadFile(tree, m, path) ==
  LET found == Resolve(tree, m, path) IN
    IF found.refused # None THEN found.refused
    ELSE IF ~IsFile(tree, Real(tree, found.path)) THEN "io"
    ELSE IF ~WithinLimit(tree, m, Real(tree, found.path)) THEN "too large" ELSE "read"

\* A parse has no limit of size.
ParseFile(tree, m, path) ==
  LET found == Resolve(tree, m, path) IN
    IF found.refused # None THEN found.refused ELSE IF IsFile(tree, Real(tree, found.path)) THEN "read" ELSE "io"

\* The index is the set of paths the cache and the graph hold; only a note that is not
\* found leaves it, a file in the way of the path is another error.
Blocked(tree, full) == \E at \in Above(full) \ {full} : IsFile(tree, Real(tree, at))
RefreshFileState(tree, m, index, path) ==
  LET found == Resolve(tree, m, path) IN
    IF found.refused # None \/ ~IsNote(found.path) THEN index
    ELSE IF IsFile(tree, Real(tree, found.path)) THEN index \cup {found.path}
    ELSE IF Real(tree, found.path) = None /\ ~Blocked(tree, found.path) THEN index \ {found.path} ELSE index

\* The paths of the one change that a delete or a move plans.
DeletePlan(tree, m, path) ==
  LET found == Resolve(tree, m, path) IN IF found.refused # None THEN found ELSE Ok(<<RelativePath(m, found.path)>>)
MovePlan(tree, m, from, to) ==
  LET source == Resolve(tree, m, from)
      target == Resolve(tree, m, to) IN
    IF source.refused # None THEN source ELSE IF target.refused # None THEN target
    ELSE Ok(<<RelativePath(m, source.path), RelativePath(m, target.path)>>)

AdmitsExtension(spec, name) == Extension[name] # None /\ Folded[Extension[name]] \in spec.extensions

\* What an excluded directory holds is not visited, and links are not followed: a
\* location has only directories above it.  The root is one too; when it is gone the
\* scan is an error, and here it finds nothing.
Visited(root, spec, at) == \A b \in Above(at) \ Above(root) : ~Excluded(spec, StripPrefix(b, root))
Walk(tree, root, spec) ==
  {at \in DOMAIN tree : /\ Len(at) > Len(root) /\ IsPrefix(root, at) /\ Visited(root, spec, at)
                        /\ tree[at].kind = "file" /\ AdmitsExtension(spec, Last(at)) /\ tree[at].size <= spec.maxSize}
ScanVault(tree, m) == Walk(tree, m.root, m.spec)
ScanFilesByExtensions(tree, m, extensions, maxSize) ==
  Walk(tree, m.root, [m.spec EXCEPT !.extensions = {Folded[e] : e \in extensions}, !.maxSize = maxSize])

-----------------------------------------------------------------------------
(* The check of a rollback.                                                *)

\* A buffer that holds only the root keeps it.
Popped(path) == IF Len(path) > 1 THEN Front(path) ELSE path
Squashed(path) ==
  FoldLeft(LAMBDA before, c : IF c = ".." THEN Popped(before) ELSE Append(before, c), <<"/">>, Tail(path))
ValidatePathInVault(tree, root, path) ==
  LET full == Join(root, path)
      canonical == IF Real(tree, root) = None THEN root ELSE Real(tree, root) IN
    IF IF Real(tree, full) # None THEN IsPrefix(canonical, Real(tree, full)) ELSE IsPrefix(root, Squashed(full))
    THEN Ok(full) ELSE Refused("traversal")
ValidatePathExists(tree, root, path) ==
  LET found == ValidatePathInVault(tree, root, path) IN
    IF found.refused = None /\ Real(tree, found.path) = None THEN Refused("not found") ELSE found

-----------------------------------------------------------------------------
(* Properties.                                                             *)

Plain(path) == ~Absolute(path) /\ \A i \in DOMAIN path : path[i] # ".."
Linked(tree, root, full) == \E at \in Above(full) \ Above(root) : at \in DOMAIN tree /\ tree[at].kind = "link"
LinkFree(tree, root) == \A at \in DOMAIN tree : IsPrefix(root, at) => tree[at].kind # "link"
Landing(tree, full) ==
  LET into == Real(tree, Front(full)) IN
    IF Real(tree, full) # None \/ into = None \/ Last(full) = ".." THEN Real(tree, full) ELSE Append(into, Last(full))

\* A path the resolver accepts is one inside the vault: what it leads to if there is
\* anything, and where a new file would be made if no link lies in the vault, whichever
\* way ".." winds; refused is refused for reads, deletes and moves alike
\* (resolve_path_bypassing_policy's two ways of judging).
ResolvedStaysInside(tree, m, path) ==
  LET found == Resolve(tree, m, path) IN
    found.refused = None =>
      /\ Real(tree, found.path) # None => IsPrefix(Real(tree, m.root), Real(tree, found.path))
      /\ LinkFree(tree, m.root) /\ Landing(tree, found.path) # None => IsPrefix(m.root, Landing(tree, found.path))

\* The scan and the reads agree on what the vault's notes are: a note of the scan can be
\* read under its relative path, is not excluded, and refreshing it keeps the one key it
\* has; a note that can be read by a plain path without links is scanned, if ".md" is
\* admitted (excluded_reason, is_path_excluded, admits_extension's comment).
ScanAgreesWithReads(tree, m, path) ==
  LET full == Join(m.root, path) IN
    /\ full \in ScanVault(tree, m) =>
         /\ ~IsPathExcluded(m, path) /\ ReadFile(tree, m, path) = "read"
         /\ IsNote(full) /\ Plain(path) => RefreshFileState(tree, m, ScanVault(tree, m), path) = ScanVault(tree, m)
    /\ (/\ Plain(path) /\ IsNote(full) /\ "md" \in m.spec.extensions
        /\ ReadFile(tree, m, path) = "read" /\ ~Linked(tree, m.root, full)) => full \in ScanVault(tree, m)

\* is_path_excluded says of a plain path what resolve_path does with it, an exclusion
\* holds for everything below, in a scan for any extension too, and the server's and
\* the vault's own exclusions both count.
ExclusionsAgree(tree, config, m, path) ==
  /\ Plain(path) /\ ResolveBypassingPolicy(tree, m, path).refused = None =>
       (IsPathExcluded(m, path) <=> Resolve(tree, m, path).refused = "protected")
  /\ \A at \in ScanFilesByExtensions(tree, m, DOMAIN Folded, 2 * m.spec.maxSize) :
       /\ Plain(path) /\ IsPathExcluded(m, path) => ~IsPrefix(NormalizePath(Join(m.root, path)), at)
       /\ \A subtree \in config.subtrees \cup DefaultVault(config).subtrees : ~IsPrefix(Join(m.root, subtree), at)
       /\ Range(StripPrefix(at, m.root)) \cap (config.components \cup DefaultVault(config).components) = {}

\* What an accepted delete records can be rolled back once the note is gone: the path
\* check of the rollback, another one than the manager's, accepts it
\* (rollback.rs's use of PathValidator).
DeletesCanBeUndone(tree, m, path) ==
  LET plan == DeletePlan(tree, m, path)
      full == Join(m.root, path) IN
    Plain(path) /\ plan.refused = None /\ IsFile(tree, Real(tree, full)) =>
      LET gone == [at \in DOMAIN tree \ {Append(Real(tree, Front(full)), Last(full))} |-> tree[at]] IN
        ValidatePathInVault(gone, m.root, plan.path[1]) = Ok(full)

\* An accepted configuration starts: every vault's root is a directory, the registry
\* activates the vault the manager would serve, lists exactly one as default, and no
\* exclusion swallows the vault (ServerConfig::validate, MultiVaultManager::new).
AcceptedConfigStarts(tree, config) ==
  LET made == Validate(tree, config)
      multi == MultiVaultNew(config) IN
    made # None =>
      /\ \A i \in DOMAIN config.vaults : made[Real(made, config.vaults[i].path)].kind = "dir"
      /\ GetActiveVaultConfig(multi) = DefaultVault(config)
      /\ \A i \in DOMAIN config.vaults : config.vaults[i].isDefault => config.vaults[i].name = multi.active
      /\ Cardinality({info \in ListVaults(multi) : info.isDefault}) = 1
      /\ Cardinality(ListVaults(multi)) = Len(config.vaults)
      /\ ~Excluded(ScanSpec(config), <<>>)
=============================================================================
