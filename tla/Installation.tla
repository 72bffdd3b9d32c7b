---------------------------- MODULE Installation ----------------------------
(***************************************************************************)
(* The installer of one target: install, import, export, model, build and  *)
(* uninstall (src/scripts/installer.mjs, model-config.mjs,                 *)
(* global-plugin-registry.mjs, native-prompt-sync.mjs) over the runtime    *)
(* builder (src/src/runtime-builder.mjs, tui-registration.mjs).            *)
(*                                                                         *)
(* A command is one synchronous process that changes a file tree step by   *)
(* step.  A step may fail (the disk is full, a file is held open, a        *)
(* definition is refused), the process may be killed between and inside    *)
(* steps, and the next command meets what was left behind.  Renaming a file *)
(* is a single step; writing one in place, copying and editing a directory  *)
(* can be cut short.  Removing a temporary directory at the end is taken to *)
(* succeed.                                                                *)
(***************************************************************************)
EXTENDS Naturals, Sequences, FiniteSets

CONSTANTS
    MaxCommands,    \* bound on commands run one after the other
    MaxTroubles     \* bound on failed steps, kills and edits by somebody else

ASSUME InstallationAssumption == MaxCommands \in Nat \ {0} /\ MaxTroubles \in Nat

VARIABLES
    disk,       \* what the directories that hold a configuration contain
    files,      \* the files of the runtime root, as the set of what each holds
    archive,    \* the configuration in the user's archive file
    site,       \* the target: global, files that are links
    run,        \* the command under way and its local variables
    pc,         \* its next step
    todo,       \* files the step still has to write, remove or restore
    snap,       \* runtimeSnapshot; before uninstall, the registries it has read
    start,      \* history: what the command found
    precious,   \* history: the user's configuration, until a command has replaced it
    outcome,    \* of the last command: none, ok, failed, dirty or killed
    torn,       \* history: a restore of the runtime stopped half way
    number, troubles

installVars == <<disk, files, archive, site, run, pc, todo, snap, start, precious,
          outcome, torn, number, troubles>>

-----------------------------------------------------------------------------
(* The files. *)

\* A configuration (.o4e): the directory, the files the installer manages
\* (config.jsonc, Agents, default prompts and Skills), the soul, the prompts
\* taken from the OpenCode executable, and what the user has added.
Parts == {"root", "settings", "soul", "native", "own"}
NoConfig == [p \in Parts |-> "none"]
Config(settings, soul, native, own) ==
    [root |-> "dir", settings |-> settings, soul |-> soul, native |-> native, own |-> own]

Live == <<"live", 0>>
Backup == <<"backup", number>>
Failed == <<"failed", number>>
Staged == <<"staged", number>>
Places == {Live} \union ({"backup", "failed", "staged"} \X (1..MaxCommands))

HasConfig == disk[Live].root = "dir"

\* What a copy or an edit of `old` into `new` may leave when it stops midway.
Halfway(old, new) ==
    {c \in [Parts -> {old[p] : p \in Parts} \union {new[p] : p \in Parts} \union {"torn"}] :
        /\ c.root = new.root
        /\ \A p \in Parts : c[p] \in {old[p], new[p]} \union
                (IF p = "settings" /\ old[p] # new[p] THEN {"torn"} ELSE {})}

\* The runtime: an Agent file the configuration names, another Markdown file
\* beside it, package.json, the plugin entry, the copied modules, a module only
\* an earlier version had, tui.json and the global opencode.json.  "mine" is
\* content of the user, "note" the comments in it, "row" a registration, "deps"
\* the dependencies O4E adds, "edit" a change somebody else makes while a command
\* runs; "cut" is all there is of a file whose writing was cut short.
RuntimeFiles == {"agent", "other", "package", "plugin", "module", "retired", "tui", "registry"}

\* The marker opencode-for-everything-agent: a file generated by the builder.  It
\* comes after the front matter, so that a file that was cut may lack it.
Marked(content) == content \intersect {"mine", "cut"} = {} /\ content # {}

LooksManaged ==
    \/ \E f \in {"plugin", "module", "retired"} : files[f] # {}
    \/ \E f \in {"agent", "other"} : Marked(files[f])

-----------------------------------------------------------------------------
(* Initial states: with or without a configuration and an earlier runtime. *)

EarlierRuntime(other) ==
    [agent |-> {"first"}, other |-> other, package |-> {"mine", "deps"},
     plugin |-> {"earlier"}, module |-> {"earlier"}, retired |-> {"earlier"},
     tui |-> {"mine", "row"}, registry |-> {"mine"}]

OwnFiles(agent) ==
    [agent |-> agent, other |-> {"mine"}, package |-> {"mine"}, plugin |-> {},
     module |-> {}, retired |-> {}, tui |-> {}, registry |-> {}]

Commented(f) == [f EXCEPT !.registry = @ \union {"note"}]

InstallInit ==
    /\ site \in {s \in [global : BOOLEAN, linked : {{}, {"agent"}, {"module"}}] :
                    s.linked # {} => ~s.global}
    /\ LET registered == [EarlierRuntime({"mine"}) EXCEPT !.registry = {"mine", "row"}] IN
       \/ files \in {EarlierRuntime({"first"}), EarlierRuntime({"mine"})}
       \/ files \in {OwnFiles({}), OwnFiles({"mine"})}
       \/ site.global /\ files \in {registered, Commented(registered), Commented(EarlierRuntime({"first"}))}
    /\ disk \in {[p \in Places |-> IF p = Live THEN c ELSE NoConfig] :
                    c \in {NoConfig, Config("first", "own", "custom", "own")}}
    /\ archive \in {NoConfig, Config("archived", "archived", "synced", "archived")}
    /\ run = [name |-> "none", force |-> FALSE, keep |-> TRUE, backed |-> FALSE, changed |-> FALSE,
              late |-> FALSE]
    /\ pc = "idle"
    /\ todo = <<>>
    /\ snap = files
    /\ start = [config |-> disk[Live], files |-> files, archive |-> archive]
    /\ precious = disk[Live]
    /\ outcome = "none"
    /\ torn = FALSE
    /\ number = 0
    /\ troubles = 0

-----------------------------------------------------------------------------
(* How a command ends. *)

Trouble == troubles < MaxTroubles /\ troubles' = troubles + 1
Smooth == UNCHANGED troubles

\* Slip: the backup is removed whatever has happened.
CleanedAnyway(d, kept) ==
    [p \in Places |-> IF p \in {Staged, Backup} THEN NoConfig ELSE d[p]]

\* The finally blocks: the staging and backup directories go, unless keepBackup.
Cleaned(d, kept) ==
    [p \in Places |-> IF p = Staged \/ (p = Backup /\ ~kept) THEN NoConfig ELSE d[p]]

Ends(result, d, kept) ==
    /\ outcome' = result
    /\ disk' = Cleaned(d, kept)
    /\ pc' = "idle"
    /\ todo' = <<>>
    /\ UNCHANGED <<archive, site, run, snap, start, precious, number>>

GoTo(step) == pc' = step /\ UNCHANGED <<archive, site, snap, start, precious, outcome, number>>

\* A failed step hands over to the catch block of its command.
Unwind ==
    CASE (run.name \in {"install", "import"} /\ run.changed) \/ (run.name = "import" /\ run.backed) ->
             GoTo("undo") /\ todo' = <<>> /\ UNCHANGED <<disk, run>>
      [] run.name = "model" ->
             GoTo("revert") /\ todo' = <<>> /\ UNCHANGED <<disk, run>>
      [] OTHER -> Ends("failed", disk, FALSE)

-----------------------------------------------------------------------------
(* The start of a command: options and the checks made before any change. *)

Commands ==
    [name : {"install", "import"}, force : BOOLEAN, keep : {TRUE}] \union
    [name : {"export", "model", "build"}, force : {FALSE}, keep : {TRUE}] \union
    [name : {"uninstall"}, force : {FALSE}, keep : BOOLEAN]

Start(c) ==
    /\ pc = "idle"
    /\ number < MaxCommands
    /\ number' = number + 1
    /\ run' = [name |-> c.name, force |-> c.force, keep |-> c.keep,
               backed |-> FALSE, changed |-> FALSE, late |-> FALSE]
    /\ start' = [config |-> disk[Live], files |-> files, archive |-> archive]
    /\ precious' = IF outcome \in {"killed", "dirty"} /\ run.name # "model"
                   THEN precious ELSE disk[Live]
    /\ outcome' = "none"
    /\ pc' = "check"
    /\ UNCHANGED <<disk, files, archive, site, todo, snap, torn, troubles>>

ModuleLinked == "module" \in site.linked /\ files["module"] # {}

\* --force, or the user has confirmed that the configuration is replaced.
Confirmed == HasConfig => run.force

InstallAccepted == Confirmed /\ ~ModuleLinked
ImportAccepted == Confirmed /\ archive.settings # "none"
UninstallAccepted ==
    /\ HasConfig \/ LooksManaged
    /\ "cut" \notin files["tui"]
    /\ ~ModuleLinked
    /\ ~("agent" \in site.linked /\ files["agent"] # {})

\* What a command refuses before it changes anything.
Accepted ==
    CASE run.name = "install" -> InstallAccepted
      [] run.name = "import" -> ImportAccepted
      [] run.name = "uninstall" -> UninstallAccepted
      [] OTHER -> HasConfig

FirstStep ==
    CASE run.name = "install" -> IF HasConfig THEN "copy" ELSE "write"
      [] run.name = "import" -> "unpack"
      [] run.name = "export" -> "pack"
      [] run.name = "model" -> "edit"
      [] run.name = "build" -> "build"
      [] OTHER -> IF site.global THEN "unregister" ELSE "untui"

\* The checks read the runtime: install takes its snapshot, uninstall prepares
\* the removals (the registries as they are now).
Check ==
    /\ pc = "check"
    /\ Accepted
    /\ snap' = files
    /\ pc' = FirstStep
    /\ UNCHANGED <<disk, files, archive, site, run, todo, start, precious,
                   outcome, torn, number, troubles>>

Refuse ==
    /\ pc = "check"
    /\ \/ Smooth /\ ~Accepted
       \/ Trouble
    /\ Ends("failed", disk, FALSE)
    /\ UNCHANGED <<files, torn>>

-----------------------------------------------------------------------------
(* install (writeConfig) *)

CopyBackup ==
    /\ pc = "copy"
    /\ disk' = [disk EXCEPT ![Backup] = disk[Live]]
    /\ run' = [run EXCEPT !.backed = TRUE]
    /\ GoTo("write")
    /\ UNCHANGED <<files, todo, torn, troubles>>

\* The soul stays as it is; without one, a template is written.
KeptSoul(c) == IF c.soul = "none" THEN "template" ELSE c.soul

\* syncNativePrompts: a prompt the user has changed is not replaced (canReplace).
SyncedPrompts(c) == IF c.native = "custom" THEN c.native ELSE "synced"

\* The defaults replace what the installer manages, and nothing else.
Installed(c) == Config("default", KeptSoul(c), SyncedPrompts(c), c.own)

WriteConfig ==
    /\ pc = "write"
    /\ disk' = [disk EXCEPT ![Live] = Installed(disk[Live])]
    /\ run' = [run EXCEPT !.changed = TRUE]
    /\ GoTo("build")
    /\ UNCHANGED <<files, todo, torn, troubles>>

WriteFails ==
    /\ pc = "write"
    /\ Trouble
    /\ \E c \in Halfway(disk[Live], Installed(disk[Live])) :
           disk' = [disk EXCEPT ![Live] = c]
    /\ run' = [run EXCEPT !.changed = TRUE]
    /\ GoTo("undo")
    /\ UNCHANGED <<files, todo, torn>>

-----------------------------------------------------------------------------
(* import and export *)

\* snapshotImportArchive, validateArchiveEntries, tar and the check of what it
\* has unpacked.
Unpack ==
    /\ pc = "unpack"
    /\ ~ModuleLinked
    /\ disk' = [disk EXCEPT ![Staged] = archive]
    /\ snap' = files
    /\ pc' = IF HasConfig THEN "aside" ELSE "place"
    /\ UNCHANGED <<files, archive, site, run, todo, start, precious, outcome, torn,
                   number, troubles>>

UnpackRefused ==
    /\ pc = "unpack"
    /\ ModuleLinked
    /\ Ends("failed", disk, FALSE)
    /\ UNCHANGED <<files, torn, troubles>>

SetAside ==
    /\ pc = "aside"
    /\ disk' = [disk EXCEPT ![Backup] = disk[Live], ![Live] = NoConfig]
    /\ run' = [run EXCEPT !.backed = TRUE]
    /\ GoTo("place")
    /\ UNCHANGED <<files, todo, torn, troubles>>

PlaceImported ==
    /\ pc = "place"
    /\ disk' = [disk EXCEPT ![Live] = disk[Staged], ![Staged] = NoConfig]
    /\ run' = [run EXCEPT !.changed = TRUE]
    /\ GoTo("build")
    /\ UNCHANGED <<files, todo, torn, troubles>>

\* exportConfig packs into a staging directory and renames over the archive.
Pack ==
    /\ pc = "pack"
    /\ archive' = disk[Live]
    /\ outcome' = "ok"
    /\ pc' = "idle"
    /\ UNCHANGED <<disk, files, site, run, todo, snap, start, precious, torn,
                   number, troubles>>

-----------------------------------------------------------------------------
(* model (applyModelChanges) *)

\* Only the files that are edited are copied, to the temporary directory.
Copied(c) == Config(c.settings, "none", "none", "none")

EditModels ==
    /\ pc = "edit"
    /\ disk' = [disk EXCEPT ![Backup] = Copied(disk[Live]), ![Live].settings = "edited"]
    /\ run' = [run EXCEPT !.backed = TRUE]
    /\ GoTo("build")
    /\ UNCHANGED <<files, todo, torn, troubles>>

\* A write that fails is outside the inner try: nothing is copied back, and the
\* finally block removes the copies.
EditFails ==
    /\ pc = "edit"
    /\ Trouble
    /\ \/ Ends("failed", disk, FALSE)
       \/ Ends("dirty", [disk EXCEPT ![Live].settings = "torn"], FALSE)
    /\ UNCHANGED <<files, torn>>

Revert ==
    /\ pc = "revert"
    /\ \/ Smooth /\ Ends("failed", [disk EXCEPT ![Live].settings = disk[Backup].settings], FALSE)
       \/ Trouble /\ Ends("dirty", [disk EXCEPT ![Live].settings = "torn"], FALSE)
    /\ UNCHANGED <<files, torn>>

-----------------------------------------------------------------------------
(* The runtime builder. *)

\* loadRuntimeDefinition: a configuration it can read and whose parts agree;
\* package.json and tui.json are parsed.
Buildable ==
    /\ disk[Live].settings \notin {"none", "torn"}
    /\ "cut" \notin files["package"] \union files["tui"]

\* assertGeneratedFileIfPresent, assertManagedComponentTree: no target is a link.
NoLinkInTheWay == \A f \in site.linked : files[f] = {}

\* Slip: the registration is written before the files it points to.
RegistrationFirst == <<"tui", "agent", "package", "plugin", "module">>

WriteOrder == <<"agent", "package", "plugin", "module", "tui">>

RenderedAgent == {disk[Live].settings}

\* package.json and tui.json keep their other content.
MergedPackage == files["package"] \union {"deps"}
MergedTui == snap["tui"] \union {"row"}
CopiedModules == {"current"}

Generated(f) ==
    CASE f = "agent" -> RenderedAgent
      [] f = "package" -> MergedPackage
      [] f = "tui" -> MergedTui
      [] OTHER -> CopiedModules

\* The file that is being written in place: writeFileSync truncates it first.
InPlace ==
    CASE pc = "emit" /\ todo # <<>> -> {f \in {Head(todo)} : files[f] # Generated(f)}
      [] pc = "rewrite" -> {"tui"}
      [] pc = "restore" /\ todo # <<>> ->
             {f \in ({Head(todo)} \intersect RuntimeFiles) \ site.linked : snap[f] # {}}
      [] OTHER -> {}

CutShort == files' \in {files} \union {[files EXCEPT ![f] = {"cut"}] : f \in InPlace}

\* Everything is read and compared before the first write.
Plan ==
    /\ pc = "build"
    /\ Buildable
    /\ NoLinkInTheWay
    /\ todo' = WriteOrder
    /\ GoTo("emit")
    /\ UNCHANGED <<disk, files, run, torn, troubles>>

PlanRefused ==
    /\ pc = "build"
    /\ \/ Smooth /\ ~(Buildable /\ NoLinkInTheWay)
       \/ Trouble
    /\ Unwind
    /\ UNCHANGED <<files, torn>>

Emit ==
    /\ pc = "emit"
    /\ todo # <<>>
    /\ files' = [files EXCEPT ![Head(todo)] = Generated(Head(todo))]
    /\ todo' = Tail(todo)
    /\ GoTo("emit")
    /\ UNCHANGED <<disk, run, torn, troubles>>

\* The Agents and modules no configuration asks for any more go last; then
\* install and import register the plugin of a global target.
Sweep ==
    /\ pc = "emit"
    /\ todo = <<>>
    /\ files' = [files EXCEPT !["other"] = IF Marked(@) THEN {} ELSE @,
                              !["retired"] = {}]
    /\ \/ /\ site.global
          /\ run.name \in {"install", "import"}
          /\ GoTo("register")
          /\ UNCHANGED <<disk, run, todo>>
       \/ /\ ~(site.global /\ run.name \in {"install", "import"})
          /\ Ends("ok", disk, FALSE)
    /\ UNCHANGED <<torn, troubles>>

\* installGlobalPlugin; it reads strict JSON, the checks had allowed comments.
Register ==
    /\ pc = "register"
    /\ \/ /\ "note" \notin files["registry"]
          /\ files' = [files EXCEPT !["registry"] = @ \union {"row"}]
          /\ Ends("ok", disk, FALSE)
       \/ /\ "note" \in files["registry"]
          /\ Unwind
          /\ UNCHANGED files
    /\ UNCHANGED <<torn, troubles>>

-----------------------------------------------------------------------------
(* The rollback of install and import. *)

RestoreOrder == <<"new agents", "new modules", "package", "tui", "plugin", "module",
                  "retired", "agent", "other">>

\* preserveFailedConfig moves what has been written out of the way.
Preserve ==
    /\ pc = "undo"
    /\ disk' = IF HasConfig THEN [disk EXCEPT ![Failed] = disk[Live], ![Live] = NoConfig] ELSE disk
    /\ pc' = IF run.backed THEN "putback" ELSE "restore"
    /\ todo' = IF run.backed THEN <<>> ELSE RestoreOrder
    /\ UNCHANGED <<files, archive, site, run, snap, start, precious, outcome, torn,
                   number, troubles>>

\* install copies the backup, import renames it.
PutBack ==
    /\ pc = "putback"
    /\ disk' = [disk EXCEPT ![Live] = disk[Backup],
                            ![Backup] = IF run.name = "import" THEN NoConfig ELSE @]
    /\ todo' = RestoreOrder
    /\ GoTo("restore")
    /\ UNCHANGED <<files, run, torn, troubles>>

\* The original is not back: the backup stays, and the error says where.
UndoFails ==
    /\ pc \in {"undo", "putback"}
    /\ Trouble
    /\ \E c \in IF pc = "putback" /\ run.name = "install"
                THEN Halfway(NoConfig, disk[Backup]) ELSE {disk[Live]} :
           Ends("dirty", [disk EXCEPT ![Live] = c], run.backed)
    /\ torn' = TRUE
    /\ UNCHANGED files

\* Slip: only what the snapshot holds is rewritten, nothing is removed.
RestoredWithoutRemoval(f) ==
    IF f \in {"new agents", "new modules"} \union site.linked \/ snap[f] = {}
    THEN files
    ELSE [files EXCEPT ![f] = snap[f]]

\* restoreManagedRuntime, file by file: generated files the snapshot does not
\* know go first, then every file is rewritten or removed as it was.
Restored(f) ==
    CASE f = "new agents" ->
             [files EXCEPT !["agent"] = IF snap["agent"] = {} /\ Marked(@) THEN {} ELSE @,
                           !["other"] = IF snap["other"] = {} /\ Marked(@) THEN {} ELSE @]
      [] f = "new modules" ->
             [files EXCEPT !["module"] = IF snap["module"] = {} THEN {} ELSE @,
                           !["retired"] = IF snap["retired"] = {} THEN {} ELSE @]
      [] f \in {"agent", "other", "module", "retired"} /\ snap[f] = {} -> files
      [] f \in site.linked -> files
      [] OTHER -> [files EXCEPT ![f] = snap[f]]

Restore ==
    /\ pc = "restore"
    /\ todo # <<>>
    /\ files' = Restored(Head(todo))
    /\ todo' = Tail(todo)
    /\ GoTo("restore")
    /\ UNCHANGED <<disk, run, torn, troubles>>

RolledBack ==
    /\ pc = "restore"
    /\ todo = <<>>
    /\ Ends("failed", disk, FALSE)
    /\ UNCHANGED <<files, torn, troubles>>

\* install keeps its backup then, import has already moved it back.
RestoreFails ==
    /\ pc = "restore"
    /\ Trouble
    /\ Ends("dirty", disk, run.name = "install" /\ run.backed)
    /\ torn' = TRUE
    /\ CutShort

-----------------------------------------------------------------------------
(* uninstall *)

\* prepareManagedRuntimeRemoval: O4E's plugin and modules, and marked Agents.
Removal(f) ==
    IF IF f \in {"agent", "other"} THEN Marked(files[f]) ELSE files[f] # {} THEN <<f>> ELSE <<>>

Removals ==
    Removal("plugin") \o Removal("module") \o Removal("retired")
        \o Removal("agent") \o Removal("other")

\* The prepared removal writes the values it has read, without the row: comments
\* are lost.
Unregister ==
    /\ pc = "unregister"
    /\ files' = IF "row" \in snap["registry"]
                THEN [files EXCEPT !["registry"] = snap["registry"] \ {"row", "note"}] ELSE files
    /\ GoTo("untui")
    /\ UNCHANGED <<disk, run, todo, torn, troubles>>

\* Slip: the prepared content is written without comparing.
TuiChangedUnseen == FALSE

\* tui.json must be what it was when it was read.
TuiChanged == "row" \in snap["tui"] /\ files["tui"] # snap["tui"]

UnregisterTui ==
    /\ pc = "untui"
    /\ \/ /\ ~TuiChanged
          /\ todo' = Removals
          /\ GoTo(IF "row" \in snap["tui"] THEN "rewrite" ELSE "remove")
          /\ UNCHANGED <<disk, run>>
       \/ /\ TuiChanged
          /\ Ends("failed", disk, FALSE)
    /\ UNCHANGED <<files, torn, troubles>>

\* It is written after it was compared.
RewriteTui ==
    /\ pc = "rewrite"
    /\ files' = [files EXCEPT !["tui"] = snap["tui"] \ {"row"}]
    /\ GoTo("remove")
    /\ UNCHANGED <<disk, run, todo, torn, troubles>>

RemoveManaged ==
    /\ pc = "remove"
    /\ todo # <<>>
    /\ files' = [files EXCEPT ![Head(todo)] = {}]
    /\ todo' = Tail(todo)
    /\ GoTo("remove")
    /\ UNCHANGED <<disk, run, torn, troubles>>

Removed ==
    /\ pc = "remove"
    /\ todo = <<>>
    /\ Ends("ok", IF run.keep THEN disk ELSE [disk EXCEPT ![Live] = NoConfig], FALSE)
    /\ UNCHANGED <<files, torn, troubles>>

-----------------------------------------------------------------------------
(* Troubles *)

\* A step throws before it has changed anything, or in the middle of a file.
StepFails ==
    /\ pc \in {"copy", "unpack", "aside", "place", "pack", "emit", "register",
               "unregister", "untui", "rewrite", "remove"}
    /\ Trouble
    /\ Unwind
    /\ CutShort
    /\ UNCHANGED torn

\* What the directories may hold when the process is killed inside a step.
KilledDisks ==
    CASE pc = "copy" -> {[disk EXCEPT ![Backup] = c] : c \in Halfway(NoConfig, disk[Live])}
      [] pc = "write" ->
             {[disk EXCEPT ![Live] = c] : c \in Halfway(disk[Live], Installed(disk[Live]))}
      [] pc = "edit" -> {disk, [disk EXCEPT ![Backup] = Copied(disk[Live]), ![Live].settings = "torn"]}
      [] pc = "revert" -> {[disk EXCEPT ![Live].settings = "torn"]}
      [] pc = "putback" /\ run.name = "install" ->
             {[disk EXCEPT ![Live] = c] : c \in Halfway(NoConfig, disk[Backup])}
      [] OTHER -> {disk}

Kill ==
    /\ pc # "idle"
    /\ Trouble
    /\ disk' \in KilledDisks
    /\ CutShort
    /\ torn' = (torn \/ pc \in {"undo", "putback", "restore"})
    /\ outcome' = "killed"
    /\ pc' = "idle"
    /\ todo' = <<>>
    /\ UNCHANGED <<archive, site, run, snap, start, precious, number>>

\* The user or OpenCode edits tui.json while uninstall runs.
EditTui ==
    /\ run.name = "uninstall"
    /\ pc # "idle"
    /\ Trouble
    /\ files' = [files EXCEPT !["tui"] = @ \union {"edit"}]
    /\ run' = [run EXCEPT !.late = pc = "rewrite"]
    /\ UNCHANGED <<disk, archive, site, pc, todo, snap, start, precious,
                   outcome, torn, number>>

-----------------------------------------------------------------------------
Steps ==
    \/ Check \/ Refuse
    \/ CopyBackup \/ WriteConfig \/ WriteFails
    \/ Unpack \/ UnpackRefused \/ SetAside \/ PlaceImported \/ Pack
    \/ EditModels \/ EditFails \/ Revert
    \/ Plan \/ PlanRefused \/ Emit \/ Sweep \/ Register
    \/ Preserve \/ PutBack \/ UndoFails \/ Restore \/ RolledBack \/ RestoreFails
    \/ Unregister \/ UnregisterTui \/ RewriteTui \/ RemoveManaged \/ Removed

InstallNext ==
    \/ \E c \in Commands : Start(c)
    \/ Steps
    \/ StepFails
    \/ Kill
    \/ EditTui

InstallSpec == InstallInit /\ [][InstallNext]_installVars

-----------------------------------------------------------------------------
(* Properties *)

\* The only copy of the user's configuration is never given up: while a command
\* runs, after it has failed and wherever it is killed, the configuration it
\* found is complete in .o4e or in a directory that stays.  A command that was
\* told to drop the configuration is the exception, and so is a model edit whose
\* own write fails (hazards); one that is killed leaves what it has edited in the
\* temporary directory and the rest in .o4e.
EditedAside == \E p \in Places : disk[p].settings = precious.settings
OriginalKept ==
    \/ precious.root = "none"
    \/ outcome = "ok"
    \/ run.name = "uninstall" /\ ~run.keep
    \/ run.name = "model" /\ outcome = "dirty"
    \/ run.name = "model" /\ EditedAside /\ \A p \in Parts \ {"settings"} : disk[Live][p] = precious[p]
    \/ \E p \in Places : disk[p] = precious

\* An install or import that reports a failure, without reporting a failed
\* rollback, and an export that fails have changed nothing: the configuration,
\* every runtime file, the registrations and the archive are as they were.  (A
\* new Agent file whose own writing failed half way is not known for O4E's.)
AllOrNothing ==
    outcome = "failed" /\ run.name \in {"install", "import", "export"} =>
        /\ disk[Live] = start.config
        /\ \A f \in RuntimeFiles :
              \/ files[f] = start.files[f]
              \/ f = "agent" /\ files[f] = {"cut"} /\ start.files[f] = {}
        /\ archive = start.archive

\* OpenCode never reads a registration whose file is missing, at whatever point
\* a build or an uninstall stops.  (A rollback removes modules before the row;
\* after one that was broken off nothing is said.)
RegisteredIsThere ==
    \/ torn
    \/ pc = "restore"
    \/ /\ "row" \in files["tui"] => files["module"] # {}
       /\ "row" \in files["registry"] => files["plugin"] # {}

\* What belongs to the user outlives every step of every command: an unmarked
\* file whose name no Agent has, the other content of package.json and of both
\* registries (the comments in the global one excepted), an edit of tui.json made
\* while uninstall runs; and a forced install leaves the soul, custom prompts and
\* additions.  Two windows are open: a file is cut when the process is killed, or
\* the disk full, while it is written in place, and an edit that comes between
\* the last comparison of tui.json and its write is overwritten.
OwnContent(f) == f \intersect {"mine", "edit"}
OwnKept ==
    [][ /\ \A f \in RuntimeFiles : f # "agent" \/ run.name = "uninstall" =>
              \/ OwnContent(files[f]) \subseteq files'[f]
              \/ f \in InPlace /\ files'[f] = {"cut"}
              \/ f = "tui" /\ pc = "rewrite" /\ run.late /\ OwnContent(snap[f]) \subseteq files'[f]
        /\ outcome' = "ok" /\ run.name = "install" =>
              \A p \in {"soul", "native", "own"} :
                  start.config[p] \in {"own", "custom"} => disk'[Live][p] = start.config[p]
      ]_installVars
=============================================================================
