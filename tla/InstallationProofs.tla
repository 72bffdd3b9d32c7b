------------------------ MODULE InstallationProofs ------------------------
(***************************************************************************)
(* Theorems about Installation, for any number of commands run one after   *)
(* the other and any number of failed steps, kills and edits by others:    *)
(* the user's configuration is never lost, a command that reports a clean  *)
(* failure has changed nothing, no registration dangles, and what belongs  *)
(* to the user outlives every step.                                        *)
(*                                                                         *)
(* The invariant has two halves that no step mixes: ConfigurationRight     *)
(* follows the directories that hold a configuration, FilesRight the files *)
(* of the runtime.  Both rest on Frame, Control and Configured, which say  *)
(* which command is at which step.                                         *)
(***************************************************************************)
EXTENDS Installation, SequenceTheorems, TLAPS

-----------------------------------------------------------------------------
(* The inductive invariant. *)

Names == {"install", "import", "export", "model", "build", "uninstall"}
Replacing == {"install", "import"}
UndoSteps == {"undo", "putback", "restore"}
UninstallSteps == {"unregister", "untui", "rewrite", "remove"}

Items(s) == {s[i] : i \in 1..Len(s)}
ToDo == Items(todo)

\* What uninstall may remove: nothing in it is the user's.
Removable(f) ==
    {"plugin", "module", "retired"} \cup {g \in {"agent", "other"} : "mine" \notin f[g]}

\* A directory that holds nothing, or a configuration.
Sound(c) ==
    /\ c = [p \in Parts |-> c[p]]
    /\ c.root \in {"none", "dir"} /\ (c.root = "none" => c = NoConfig)
    /\ c.native # "own" /\ c.settings \notin {"mine", "edit"}

\* What O4E alone writes holds nothing of the user; only tui.json is edited.
SoundFiles(f) ==
    /\ f = [g \in RuntimeFiles |-> f[g]]
    /\ \A g \in {"plugin", "module", "retired"} : f[g] \cap {"mine", "edit"} = {}
    /\ "edit" \notin f["other"]  /\ "edit" \notin f["agent"]

Disks(d) == d = [p \in Places |-> d[p]] /\ \A p \in Places : Sound(d[p])

Written == RuntimeFiles \cup {"new agents", "new modules"}

Stages ==
    {"idle", "check", "copy", "write", "unpack", "aside", "place", "pack", "edit", "revert",
     "build", "emit", "register"} \cup UndoSteps \cup UninstallSteps

\* The small variables.
Frame ==
    /\ site.linked \in {{}, {"agent"}, {"module"}}
    /\ run = [name |-> run.name, force |-> run.force, keep |-> run.keep, backed |-> run.backed,
              changed |-> run.changed, late |-> run.late]
    /\ run.backed \in BOOLEAN /\ run.changed \in BOOLEAN /\ run.late \in BOOLEAN
    /\ number \in 0..MaxCommands
    /\ torn \in BOOLEAN
    /\ pc \in Stages

TypesRight ==
    /\ Frame
    /\ Disks(disk) /\ Sound(archive) /\ Sound(start.config)
    /\ SoundFiles(files) /\ SoundFiles(snap)
    /\ todo \in Seq(Written)

\* Which command is at which step, and what it has done so far.
Control ==
    /\ pc # "idle" => outcome = "none" /\ number >= 1 /\ run.name \in Names
    /\ pc \in {"copy", "write"} => run.name = "install"
    /\ pc \in {"unpack", "aside", "place"} => run.name = "import"
    /\ pc = "pack" => run.name = "export"
    /\ pc \in {"edit", "revert"} => run.name = "model"
    /\ pc \in {"build", "emit"} => run.name \in {"install", "import", "model", "build"}
    /\ pc \in {"register"} \cup UndoSteps => run.name \in Replacing
    /\ pc \in UninstallSteps => run.name = "uninstall"
    /\ pc \in {"check", "copy", "unpack", "aside", "pack", "edit"} => ~run.backed
    /\ pc \in {"check", "copy", "write", "unpack", "aside", "place"} => ~run.changed
    /\ pc \in {"build", "emit", "register"} /\ run.name \in Replacing => run.changed
    /\ pc \in {"build", "emit", "revert"} /\ run.name = "model" => run.backed
    /\ pc = "putback" => run.backed
    /\ pc = "register" => site.global

\* The steps that need a configuration have one.
Configured ==
    /\ pc \in {"edit", "build", "emit", "revert"} /\ run.name = "model" => HasConfig
    /\ pc \in {"aside", "copy"} => HasConfig

Unbacked ==
    {"check", "copy", "write", "unpack", "aside", "pack", "edit", "restore"} \cup UninstallSteps

\* The configuration c can be put together: what a model edit changes is aside.
Apart(c, copied, live) ==
    /\ copied.settings = c.settings
    /\ live = [c EXCEPT !.settings = live.settings]

\* The configuration a command has found: in .o4e, or in the backup.
Original ==
    /\ (pc \in Unbacked) \/ (pc # "idle" /\ run.name = "build") => disk[Live] = start.config
    /\ pc \in {"write", "place", "build", "emit", "register", "undo", "putback", "revert"}
          /\ run.name # "build" =>
          IF run.name = "model" THEN Apart(start.config, disk[Backup], disk[Live])
          ELSE IF run.backed THEN disk[Backup] = start.config ELSE start.config = NoConfig
    /\ pc = "place" /\ ~run.backed => disk[Live] = NoConfig
    /\ pc \in {"build", "emit", "register"} /\ run.name = "install" =>
          disk[Live] = Installed(start.config)

Old == \E p \in Places : p # Live /\ p[2] < number /\ disk[p] = precious

\* The user's configuration is what the command has found, or it lies where no
\* later command looks.
PreciousKept ==
    /\ pc # "idle" => precious.root = "none" \/ Old \/ precious = start.config
    /\ pc = "idle" /\ outcome # "ok" /\ ~(run.name = "model" /\ outcome = "dirty") =>
          \/ precious.root = "none"
          \/ \E p \in Places : p[2] <= number /\ disk[p] = precious
          \/ run.name = "model" /\ outcome = "killed" /\ \E p \in Places : Apart(precious, disk[p], disk[Live])

\* What the builder may have done to the files of the snapshot.
IsCut(f) == files[f] = {"cut"}
Disturbed ==
    /\ files["agent"] = snap["agent"] \/ Marked(files["agent"]) \/ IsCut("agent")
    /\ files["other"] \in {snap["other"], {}}
    /\ files["retired"] \in {snap["retired"], {}}
    /\ files["registry"] = snap["registry"]
    /\ \A f \in {"package", "tui"} :
          IsCut(f) \/ files[f] \cap {"mine", "edit"} = snap[f] \cap {"mine", "edit"}
    /\ \A f \in site.linked : snap[f] = {}

\* The files the builder merges have been read as a whole.
Whole == \A f \in {"package", "tui"} : ~IsCut(f)

Suffixes ==
    {WriteOrder, <<"package", "plugin", "module", "tui">>, <<"plugin", "module", "tui">>,
     <<"module", "tui">>, <<"tui">>, <<>>}

Building ==
    /\ pc = "emit" =>
          /\ todo \in Suffixes
          /\ \A f \in {"plugin", "module"} : f \in ToDo \/ files[f] # {}
          /\ Disturbed /\ Whole
    /\ pc = "register" => Disturbed /\ \A f \in {"plugin", "module"} : files[f] # {}

Restoring ==
    /\ pc \in {"undo", "putback"} => files = snap \/ Disturbed
    /\ pc = "restore" =>
          /\ files = snap \/ Disturbed
          /\ \A f \in {"agent", "other", "module", "retired"} :
                snap[f] # {} /\ f \notin ToDo => files[f] = snap[f]
          /\ \A f \in {"package", "tui", "plugin"} : f \notin ToDo => files[f] = snap[f]
          /\ \A f \in {"agent", "other"} :
                snap[f] = {} /\ "new agents" \notin ToDo =>
                    files[f] = {} \/ (f = "agent" /\ IsCut(f))
          /\ \A f \in {"module", "retired"} :
                snap[f] = {} /\ "new modules" \notin ToDo => files[f] = {}

Snapshot ==
    /\ outcome # "ok" => archive = start.archive
    /\ pc \in {"check", "pack"} /\ run.name # "uninstall" => files = start.files
    /\ pc \notin {"idle", "check"} /\ run.name \in Replacing => snap = start.files
    /\ pc \in {"copy", "write", "unpack", "aside", "place", "edit", "build"} => files = snap

Uninstalling ==
    /\ "row" \in files["registry"] => site.global
    /\ "row" \in snap["registry"] => site.global
    /\ pc \in {"unregister", "untui"} =>
          /\ snap["tui"] \subseteq files["tui"]
          /\ "row" \in files["tui"] => "row" \in snap["tui"]
    /\ pc = "unregister" => files["registry"] = snap["registry"]
    /\ pc \in {"untui", "rewrite", "remove"} => "row" \notin files["registry"]
    /\ pc \in {"rewrite", "remove"} => todo \in Seq(Removable(files))
    /\ pc = "rewrite" /\ ~run.late => files["tui"] \cap {"mine", "edit"} \subseteq snap["tui"]
    /\ pc = "remove" => "row" \notin files["tui"]

NoDangling(f) ==
    /\ "row" \in f["tui"] => f["module"] # {}
    /\ "row" \in f["registry"] => f["plugin"] # {}

Registered ==
    /\ torn \/ pc = "restore" \/ NoDangling(files)
    /\ torn \/ NoDangling(snap)

\* An install, import or export that failed left the configuration alone.
ConfigurationBack ==
    outcome = "failed" /\ run.name \in {"install", "import", "export"} =>
        disk[Live] = start.config

Same(f, g) == f = g \/ (f = [g EXCEPT !["agent"] = {"cut"}] /\ g["agent"] = {})
FilesBack ==
    outcome = "failed" /\ run.name \in {"install", "import", "export"} => Same(files, start.files)

ConfigurationRight == Original /\ PreciousKept /\ ConfigurationBack

FilesRight == Building /\ Restoring /\ Snapshot /\ Uninstalling /\ Registered /\ FilesBack

IInv == TypesRight /\ Control /\ Configured /\ ConfigurationRight /\ FilesRight

-----------------------------------------------------------------------------
(* Configurations. *)

LEMMA NoConfigSound == Sound(NoConfig)
  BY DEF Sound, NoConfig, Parts

LEMMA ConfigSound ==
    ASSUME NEW settings, NEW soul, NEW native, NEW own, native # "own",
           settings \notin {"mine", "edit"}
    PROVE  Sound(Config(settings, soul, native, own))
<1> DEFINE c == Config(settings, soul, native, own)
<1>1. c = [p \in Parts |-> c[p]]
  BY DEF Config, Parts
<1>2. c.root = "dir" /\ c.native = native /\ c.settings = settings
  BY DEF Config
<1> QED
  BY <1>1, <1>2 DEF Sound

LEMMA InstalledSound ==
    ASSUME NEW c, Sound(c)
    PROVE  Sound(Installed(c)) /\ Installed(c).root = "dir"
<1>1. SyncedPrompts(c) # "own"
  BY DEF Sound, SyncedPrompts
<1>2. Sound(Installed(c))
  BY <1>1, ConfigSound DEF Installed
<1> QED
  BY <1>2 DEF Installed, Config

LEMMA HalfwaySound ==
    ASSUME NEW old, NEW new, Sound(old), Sound(new), new.root # "none" \/ old = NoConfig,
           NEW c \in Halfway(old, new)
    PROVE  Sound(c)
<1>1. c = [p \in Parts |-> c[p]]
  BY DEF Halfway
<1>2. /\ c.root = new.root
      /\ c["native"] \in {old["native"], new["native"]}
      /\ c["settings"] \in {old["settings"], new["settings"], "torn"}
  BY DEF Halfway, Parts
<1>3. CASE new.root # "none"
  BY <1>1, <1>2, <1>3 DEF Sound
<1>4. CASE new.root = "none"
  <2>1. old = NoConfig /\ new = NoConfig
    BY <1>4 DEF Sound
  <2>2. \A p \in Parts : c[p] = NoConfig[p]
    BY <2>1 DEF Halfway
  <2>3. c = NoConfig
    BY <1>1, <2>2 DEF NoConfig
  <2> QED
    BY <2>3, NoConfigSound
<1> QED
  BY <1>3, <1>4

LEMMA EditSound ==
    ASSUME NEW c, Sound(c), c.root # "none", NEW v, v \notin {"mine", "edit"}
    PROVE  Sound([c EXCEPT !.settings = v]) /\ [c EXCEPT !.settings = v].root = c.root
<1> DEFINE e == [c EXCEPT !.settings = v]
<1>1. e = [p \in Parts |-> e[p]] /\ e.settings = v /\ e.native = c.native /\ e.root = c.root
  BY DEF Sound, Parts
<1> QED
  BY <1>1 DEF Sound

LEMMA CopiedSound ==
    ASSUME NEW c, Sound(c)
    PROVE  Sound(Copied(c)) /\ Copied(c).settings = c.settings
<1>1. Sound(Copied(c))
  BY ConfigSound DEF Copied, Sound
<1> QED
  BY <1>1 DEF Copied, Config

-----------------------------------------------------------------------------
(* Directories. *)

LEMMA PlacesApart ==
    ASSUME number \in 1..MaxCommands
    PROVE  /\ {Live, Backup, Failed, Staged} \subseteq Places
           /\ Live # Backup /\ Live # Failed /\ Live # Staged
           /\ Backup # Failed /\ Backup # Staged /\ Failed # Staged
           /\ \A p \in Places : p # Live /\ p[2] < number => p \notin {Backup, Failed, Staged}
           /\ \A p \in {Live, Backup, Failed, Staged} : p[2] <= number
  BY InstallationAssumption DEF Live, Backup, Failed, Staged, Places

LEMMA LiveIsPlace == Live \in Places /\ Live[2] = 0
  BY DEF Live, Places

LEMMA PlaceNumber == \A p \in Places : p[2] \in Nat
<1>1. \A p \in {"backup", "failed", "staged"} \X (1..MaxCommands) : p[2] \in Nat
  OBVIOUS
<1> QED
  BY <1>1, LiveIsPlace DEF Places

LEMMA RunningNumber ==
    ASSUME IInv, pc # "idle"
    PROVE  number \in 1..MaxCommands
<1>1. number \in 0..MaxCommands /\ number >= 1
  BY DEF IInv, Control, TypesRight, Frame
<1> QED
  BY <1>1, InstallationAssumption

LEMMA DiskCleaned ==
    ASSUME NEW d, Disks(d), NEW kept, number \in 1..MaxCommands
    PROVE  /\ Disks(Cleaned(d, kept))
           /\ \A p \in Places : p # Staged /\ (p = Backup => kept) => Cleaned(d, kept)[p] = d[p]
           /\ Cleaned(d, kept)[Live] = d[Live]
           /\ \A p \in Places : p # Live /\ p[2] < number => Cleaned(d, kept)[p] = d[p]
<1>1. Disks(Cleaned(d, kept))
  BY NoConfigSound DEF Cleaned, Disks
<1>2. \A p \in Places : p # Staged /\ (p = Backup => kept) => Cleaned(d, kept)[p] = d[p]
  BY DEF Cleaned
<1> QED
  BY <1>1, <1>2, PlacesApart

-----------------------------------------------------------------------------
(* How steps go on and how they end. *)

OldKept(d) == \A p \in Places : p # Live /\ p[2] < number => d[p] = disk[p]

Current == {Live, Backup, Failed, Staged}

Put(d, p, c) == [d EXCEPT ![p] = c]

LEMMA DiskPut ==
    ASSUME IInv, pc # "idle", NEW d, Disks(d), OldKept(d),
           NEW p \in Current, NEW c, Sound(c)
    PROVE  /\ Disks(Put(d, p, c)) /\ OldKept(Put(d, p, c))
           /\ Put(d, p, c)[p] = c
           /\ \A q \in Current : q # p => Put(d, p, c)[q] = d[q]
<1> DEFINE e == Put(d, p, c)
<1>1. /\ Current \subseteq Places
      /\ \A q \in Places : q # Live /\ q[2] < number => q \notin {Backup, Failed, Staged}
  BY PlacesApart, RunningNumber DEF Current
<1>2. e = [q \in Places |-> e[q]] /\ \A q \in Places : e[q] = IF q = p THEN c ELSE d[q]
  BY <1>1 DEF Disks, Put
<1> HIDE DEF e
<1>3. Disks(e)
  BY <1>2 DEF Disks
<1>4. OldKept(e)
  BY <1>1, <1>2 DEF OldKept, Current
<1> QED
  BY <1>1, <1>2, <1>3, <1>4 DEF e

\* A step that replaces what one directory holds.
LEMMA Putting ==
    ASSUME IInv, pc # "idle", number' = number,
           NEW p \in Current, NEW c, Sound(c), disk' = Put(disk, p, c)
    PROVE  /\ Disks(disk)' /\ OldKept(disk') /\ disk'[p] = c
           /\ \A q \in Current : q # p => disk'[q] = disk[q]
<1>1. Disks(disk) /\ OldKept(disk)
  BY DEF IInv, TypesRight, OldKept
<1>2. /\ Disks(Put(disk, p, c)) /\ OldKept(Put(disk, p, c)) /\ Put(disk, p, c)[p] = c
      /\ \A q \in Current : q # p => Put(disk, p, c)[q] = disk[q]
  BY <1>1, DiskPut
<1>3. Disks(disk')
  BY <1>2
<1> QED
  BY <1>2, <1>3

\* ... and one that replaces two.
LEMMA PuttingTwo ==
    ASSUME IInv, pc # "idle", number' = number,
           NEW p \in Current, NEW c, Sound(c),
           NEW q \in Current, q # p, NEW e, Sound(e),
           disk' = Put(Put(disk, p, c), q, e)
    PROVE  /\ Disks(disk)' /\ OldKept(disk') /\ disk'[p] = c /\ disk'[q] = e
           /\ \A r \in Current : r # p /\ r # q => disk'[r] = disk[r]
<1>1. Disks(disk) /\ OldKept(disk)
  BY DEF IInv, TypesRight, OldKept
<1> DEFINE d == Put(disk, p, c)
<1>2. /\ Disks(d) /\ OldKept(d) /\ d[p] = c
      /\ \A r \in Current : r # p => d[r] = disk[r]
  BY <1>1, DiskPut
<1> HIDE DEF d
<1>3. /\ Disks(Put(d, q, e)) /\ OldKept(Put(d, q, e)) /\ Put(d, q, e)[q] = e
      /\ \A r \in Current : r # q => Put(d, q, e)[r] = d[r]
  BY <1>2, DiskPut
<1>4. disk' = Put(d, q, e)
  BY DEF d
<1>5. Disks(disk')
  BY <1>3, <1>4
<1> QED
  BY <1>2, <1>3, <1>4, <1>5

LEMMA GoesOn ==
    ASSUME IInv, pc # "idle", pc' # "idle", OldKept(disk'),
           UNCHANGED <<start, precious, outcome, number>>
    PROVE  PreciousKept' /\ ConfigurationBack'
<1>1. outcome = "none"
  BY DEF IInv, Control
<1>2. ASSUME Old PROVE Old'
  <2>1. PICK p \in Places : p # Live /\ p[2] < number /\ disk[p] = precious
    BY <1>2 DEF Old
  <2>2. disk'[p] = precious
    BY <2>1 DEF OldKept
  <2> QED
    BY <2>1, <2>2 DEF Old, Live, Places
<1> QED
  BY <1>1, <1>2 DEF IInv, ConfigurationRight, PreciousKept, ConfigurationBack

LEMMA Stopping ==
    ASSUME IInv, pc # "idle", pc' = "idle", UNCHANGED <<run, start, precious, number>>,
           Disks(disk)', OldKept(disk'),
           \/ outcome' = "ok" \/ (outcome' = "dirty" /\ run.name = "model")
           \/ disk'[Live] = start.config \/ start.config.root = "none"
           \/ disk'[Backup] = start.config
           \/ /\ outcome' = "killed" /\ run.name = "model"
              /\ Apart(start.config, disk'[Backup], disk'[Live]),
           outcome' = "failed" /\ run.name \in {"install", "import", "export"} =>
               disk'[Live] = start.config
    PROVE  ConfigurationRight'
<1>1. number \in 1..MaxCommands
  BY RunningNumber
<1>2. precious.root = "none" \/ Old \/ precious = start.config
  BY DEF IInv, ConfigurationRight, PreciousKept
<1>3. PreciousKept'
  <2>1. SUFFICES ASSUME outcome' # "ok", ~(run.name = "model" /\ outcome' = "dirty"),
                        precious.root # "none"
                 PROVE  \/ \E p \in Places : p[2] <= number /\ disk'[p] = precious
                        \/ /\ run.name = "model" /\ outcome' = "killed"
                           /\ \E p \in Places : Apart(precious, disk'[p], disk'[Live])
    BY DEF PreciousKept, Places, Live
  <2>2. CASE Old
    <3>1. PICK p \in Places : p # Live /\ p[2] < number /\ disk[p] = precious
      BY <2>2 DEF Old
    <3>2. p[2] <= number
      BY <1>1, <3>1 DEF Places
    <3> QED
      BY <3>1, <3>2 DEF OldKept
  <2>3. CASE precious = start.config
    <3>1. \/ disk'[Live] = precious \/ disk'[Backup] = precious
          \/ /\ outcome' = "killed" /\ run.name = "model"
             /\ Apart(precious, disk'[Backup], disk'[Live])
      BY <2>1, <2>3
    <3>2. {Live, Backup} \subseteq Places /\ Live[2] <= number /\ Backup[2] <= number
      BY <1>1, PlacesApart
    <3> QED
      BY <3>1, <3>2
  <2> QED
    BY <1>2, <2>1, <2>2, <2>3
<1>4. Original'
  BY DEF Original, Unbacked, UninstallSteps
<1>5. ConfigurationBack'
  BY DEF ConfigurationBack, Live
<1> QED
  BY <1>3, <1>4, <1>5 DEF ConfigurationRight

LEMMA Ending ==
    ASSUME IInv, pc # "idle", NEW d, Disks(d), OldKept(d), NEW result, NEW kept,
           Ends(result, d, kept),
           \/ result = "ok" \/ (result = "dirty" /\ run.name = "model")
           \/ d[Live] = start.config \/ start.config.root = "none"
           \/ kept /\ d[Backup] = start.config,
           result = "failed" /\ run.name \in {"install", "import", "export"} =>
               d[Live] = start.config
    PROVE  Disks(disk)' /\ ConfigurationRight'
<1>1. /\ disk' = Cleaned(d, kept) /\ outcome' = result /\ pc' = "idle"
      /\ UNCHANGED <<run, start, precious, number>>
  BY DEF Ends
<1>2. number \in 1..MaxCommands
  BY RunningNumber
<1>3. /\ Disks(disk') /\ disk'[Live] = d[Live]
      /\ kept => disk'[Backup] = d[Backup]
      /\ OldKept(disk')
  <2>1. /\ Disks(Cleaned(d, kept)) /\ Cleaned(d, kept)[Live] = d[Live]
        /\ \A p \in Places : p # Staged /\ (p = Backup => kept) => Cleaned(d, kept)[p] = d[p]
        /\ \A p \in Places : p # Live /\ p[2] < number => Cleaned(d, kept)[p] = d[p]
    BY <1>2, DiskCleaned
  <2>2. Backup \in Places /\ Backup # Staged
    BY <1>2, PlacesApart
  <2>3. kept => Cleaned(d, kept)[Backup] = d[Backup]
    BY <2>1, <2>2
  <2> QED
    BY <1>1, <2>1, <2>3 DEF OldKept
<1> QED
  BY <1>1, <1>3, Stopping

\* A failed step: the rollback begins, or the command ends with what it found.
LEMMA Unwinding ==
    ASSUME IInv, Unwind, pc \in {"copy", "unpack", "aside", "place", "pack", "build", "emit",
                                 "register"} \cup UninstallSteps
    PROVE  /\ Disks(disk)' /\ ConfigurationRight'
           /\ \/ /\ pc' = "undo" /\ run.name \in Replacing
                 /\ pc \notin {"copy", "unpack", "aside"} \cup UninstallSteps
              \/ pc' = "revert" /\ run.name = "model"
              \/ pc' = "idle" /\ outcome' = "failed"
                 /\ (run.name \in Replacing => pc \in {"copy", "unpack", "aside", "place"})
           /\ todo' = << >> /\ UNCHANGED <<archive, site, run, snap, start, precious, number>>
           /\ pc' # "idle" => UNCHANGED <<disk, outcome>>
<1> DEFINE rolls == (run.name \in {"install", "import"} /\ run.changed)
                        \/ (run.name = "import" /\ run.backed)
<1>1. Disks(disk) /\ OldKept(disk) /\ Control /\ Original /\ outcome = "none" /\ pc # "idle"
  BY DEF IInv, TypesRight, ConfigurationRight, OldKept, Control, UninstallSteps
<1>2. CASE rolls
  <2>1. GoTo("undo") /\ todo' = << >> /\ UNCHANGED <<disk, run>>
    BY <1>2 DEF Unwind
  <2>2. pc \notin {"copy", "unpack", "aside"} \cup UninstallSteps
    BY <1>1, <1>2 DEF Control, UninstallSteps
  <2>3. Original'
    BY <1>1, <1>2, <2>1, <2>2 DEF Original, GoTo, Unbacked, UninstallSteps, Control, Backup
  <2> QED
    BY <1>1, <1>2, <2>1, <2>2, <2>3, GoesOn DEF GoTo, ConfigurationRight, Replacing
<1>3. CASE ~rolls /\ run.name = "model"
  <2>1. GoTo("revert") /\ todo' = << >> /\ UNCHANGED <<disk, run>>
    BY <1>3 DEF Unwind
  <2>2. pc \in {"build", "emit"}
    BY <1>1, <1>3 DEF Control, UninstallSteps, Replacing
  <2>3. Apart(start.config, disk[Backup], disk[Live])
    BY <1>1, <1>3, <2>2 DEF Original
  <2>4. Original'
    BY <1>1, <1>3, <2>1, <2>3 DEF Original, GoTo, Unbacked, UninstallSteps, Backup
  <2> QED
    BY <1>1, <1>3, <2>1, <2>4, GoesOn DEF GoTo, ConfigurationRight
<1>4. CASE ~rolls /\ run.name # "model"
  <2>1. Ends("failed", disk, FALSE)
    BY <1>4 DEF Unwind
  <2>2. disk[Live] = start.config
    BY <1>1, <1>4 DEF Original, Unbacked, UninstallSteps, Control, Replacing
  <2>3. run.name \in Replacing => pc \in {"copy", "unpack", "aside", "place"}
    BY <1>1, <1>4 DEF Control, Replacing, UninstallSteps
  <2> QED
    BY <1>1, <2>1, <2>2, <2>3, Ending DEF Ends
<1> QED
  BY <1>2, <1>3, <1>4

-----------------------------------------------------------------------------
(* The configuration, step by step. *)

LEMMA StartConfiguration ==
    ASSUME IInv, NEW c \in Commands, Start(c)
    PROVE  Disks(disk)' /\ ConfigurationRight'
<1>1. /\ pc = "idle" /\ pc' = "check" /\ disk' = disk /\ outcome' = "none" /\ number' = number + 1
      /\ start'.config = disk[Live] /\ run'.backed = FALSE
      /\ precious' = IF outcome \in {"killed", "dirty"} /\ run.name # "model"
                     THEN precious ELSE disk[Live]
  BY DEF Start
<1>2. Disks(disk)'
  BY <1>1 DEF IInv, TypesRight, Disks, Places
<1>3. Original'
  BY <1>1 DEF Original, Unbacked, Live, UninstallSteps
<1>4. precious'.root = "none" \/ Old' \/ precious' = start'.config
  <2>1. CASE precious' = disk[Live]
    BY <1>1, <2>1
  <2>2. CASE precious' = precious /\ outcome \in {"killed", "dirty"} /\ precious.root # "none"
             /\ run.name # "model"
    <3>1. PICK p \in Places : p[2] <= number /\ disk[p] = precious
      BY <1>1, <2>2 DEF IInv, ConfigurationRight, PreciousKept
    <3>2. CASE p = Live
      BY <1>1, <2>2, <3>1, <3>2
    <3>3. CASE p # Live
      <4>0. number \in 0..MaxCommands
        BY DEF IInv, TypesRight, Frame
      <4>1. p[2] < number + 1
        BY <3>1, <4>0, PlaceNumber, InstallationAssumption
      <4> QED
        BY <1>1, <2>2, <3>1, <3>3, <4>1 DEF Old, Live, Places
    <3> QED
      BY <3>2, <3>3
  <2> QED
    BY <1>1, <2>1, <2>2
<1> QED
  BY <1>1, <1>2, <1>3, <1>4 DEF ConfigurationRight, PreciousKept, ConfigurationBack

\* Steps that leave the directories alone and go on.
LEMMA SameConfiguration ==
    ASSUME IInv, pc # "idle", pc' # "idle",
           UNCHANGED <<disk, start, precious, outcome, number>>, Original'
    PROVE  Disks(disk)' /\ ConfigurationRight'
<1>1. OldKept(disk') /\ Disks(disk)'
  BY DEF OldKept, IInv, TypesRight
<1> QED
  BY <1>1, GoesOn DEF ConfigurationRight

LEMMA QuietConfiguration ==
    ASSUME IInv,
           Check \/ Plan \/ Emit \/ Restore \/ Unregister \/ RewriteTui \/ RemoveManaged \/ EditTui
    PROVE  Disks(disk)' /\ ConfigurationRight'
<1>1. Disks(disk) /\ Control /\ Original
  BY DEF IInv, TypesRight, ConfigurationRight
<1>2. CASE Check
  <2>1. /\ pc = "check" /\ pc' = FirstStep /\ Accepted
        /\ UNCHANGED <<disk, run, start, precious, outcome, number>>
    BY <1>2 DEF Check
  <2>2. disk[Live] = start.config /\ ~run.backed
    BY <1>1, <2>1 DEF Original, Unbacked, Control
  <2>3. pc' = "write" => start.config = NoConfig
    BY <1>1, <2>1, <2>2, LiveIsPlace DEF FirstStep, HasConfig, Disks, Sound
  <2>4. /\ pc' \in {"write", "copy", "unpack", "pack", "edit", "build", "unregister", "untui"}
        /\ pc' = "build" => run.name \notin {"install", "import", "export", "model"}
        /\ pc' = "write" => run.name = "install"
    BY <2>1 DEF FirstStep
  <2>5. pc' = "build" => run.name = "build"
    BY <1>1, <2>1, <2>4 DEF FirstStep, Control, Names
  <2>6. Original'
    BY <2>1, <2>2, <2>3, <2>4, <2>5 DEF Original, Unbacked, UninstallSteps, Live, Backup
  <2> QED
    BY <2>1, <2>4, <2>6, SameConfiguration
<1>3. CASE Plan
  BY <1>1, <1>3, SameConfiguration DEF Plan, GoTo, Original, Unbacked, UninstallSteps, Live, Backup
<1>4. CASE Emit
  BY <1>1, <1>4, SameConfiguration DEF Emit, GoTo, Original, Unbacked, UninstallSteps, Live, Backup
<1>5. CASE Restore
  BY <1>1, <1>5, SameConfiguration DEF Restore, GoTo, Original, Unbacked, UninstallSteps, Live, Backup
<1>6. CASE Unregister
  BY <1>1, <1>6, SameConfiguration DEF Unregister, GoTo, Original, Unbacked, UninstallSteps, Live, Backup
<1>7. CASE RemoveManaged
  BY <1>1, <1>7, SameConfiguration DEF RemoveManaged, GoTo, Original, Unbacked, UninstallSteps, Live, Backup
<1>8. CASE EditTui
  <2>1. run'.name = run.name /\ run'.backed = run.backed
    BY <1>8 DEF EditTui, IInv, TypesRight, Frame
  <2> QED
    BY <1>1, <1>8, <2>1, SameConfiguration
    DEF EditTui, Original, Unbacked, UninstallSteps, Live, Backup
<1>9. CASE RewriteTui
  BY <1>1, <1>9, SameConfiguration
  DEF RewriteTui, GoTo, Original, Unbacked, UninstallSteps, Live, Backup
<1> QED
  BY <1>2, <1>3, <1>4, <1>5, <1>6, <1>7, <1>8, <1>9

LEMMA InstallConfiguration ==
    ASSUME IInv, CopyBackup \/ WriteConfig \/ WriteFails
    PROVE  Disks(disk)' /\ ConfigurationRight'
<1>1. /\ Disks(disk) /\ OldKept(disk) /\ Control /\ Original /\ Sound(disk[Live]) /\ pc # "idle"
  BY LiveIsPlace DEF IInv, TypesRight, ConfigurationRight, OldKept, Disks, CopyBackup, WriteConfig,
     WriteFails
<1>2. Live # Backup
  BY <1>1, RunningNumber, PlacesApart
<1>3. CASE CopyBackup
  <2>1. /\ pc = "copy" /\ pc' = "write" /\ disk' = Put(disk, Backup, disk[Live]) /\ run'.backed = TRUE
        /\ run'.name = run.name /\ UNCHANGED <<start, precious, outcome, number>>
    BY <1>3 DEF CopyBackup, GoTo, Put, IInv, TypesRight, Frame
  <2>2. Disks(disk)' /\ OldKept(disk') /\ disk'[Backup] = disk[Live] /\ disk'[Live] = disk[Live]
    BY <1>1, <1>2, <2>1, Putting DEF Current
  <2>3. Original'
    BY <1>1, <1>2, <2>1, <2>2 DEF Original, Unbacked, UninstallSteps, Live, Backup, Control
  <2> QED
    BY <1>1, <2>1, <2>2, <2>3, GoesOn DEF ConfigurationRight
<1>4. CASE WriteConfig
  <2>1. /\ pc = "write" /\ pc' = "build" /\ disk' = Put(disk, Live, Installed(disk[Live]))
        /\ run'.backed = run.backed /\ run'.name = run.name
        /\ UNCHANGED <<start, precious, outcome, number>>
    BY <1>4 DEF WriteConfig, GoTo, Put, IInv, TypesRight, Frame
  <2>2. Disks(disk)' /\ OldKept(disk') /\ disk'[Live] = Installed(disk[Live])
        /\ disk'[Backup] = disk[Backup]
    BY <1>1, <1>2, <2>1, Putting, InstalledSound DEF Current
  <2>3. Original'
    BY <1>1, <2>1, <2>2 DEF Original, Unbacked, UninstallSteps, Live, Backup, Control
  <2> QED
    BY <1>1, <2>1, <2>2, <2>3, GoesOn DEF ConfigurationRight
<1>5. CASE WriteFails
  <2>1. PICK c \in Halfway(disk[Live], Installed(disk[Live])) :
           /\ pc = "write" /\ pc' = "undo" /\ disk' = Put(disk, Live, c)
           /\ run'.backed = run.backed /\ run'.name = run.name
           /\ UNCHANGED <<start, precious, outcome, number>>
    BY <1>5 DEF WriteFails, GoTo, Put, IInv, TypesRight, Frame
  <2>2. Sound(c)
    BY <1>1, HalfwaySound, InstalledSound
  <2>3. Disks(disk)' /\ OldKept(disk') /\ disk'[Backup] = disk[Backup]
    BY <1>1, <1>2, <2>1, <2>2, Putting DEF Current
  <2>4. Original'
    BY <1>1, <2>1, <2>3 DEF Original, Unbacked, UninstallSteps, Live, Backup, Control
  <2> QED
    BY <1>1, <2>1, <2>3, <2>4, GoesOn DEF ConfigurationRight
<1> QED
  BY <1>3, <1>4, <1>5

LEMMA Running ==
    ASSUME IInv, pc # "idle"
    PROVE  /\ TypesRight /\ Control /\ Configured /\ Original
           /\ Disks(disk) /\ OldKept(disk) /\ Sound(archive)
           /\ Current \subseteq Places /\ \A p \in Current : Sound(disk[p])
           /\ Live # Backup /\ Live # Failed /\ Live # Staged /\ Backup # Staged
           /\ Backup # Failed /\ Staged # Failed
<1>1. /\ TypesRight /\ Control /\ Configured /\ Original /\ Disks(disk) /\ OldKept(disk)
      /\ Sound(archive)
  BY DEF IInv, TypesRight, ConfigurationRight, OldKept
<1>2. /\ Current \subseteq Places /\ Live # Backup /\ Live # Failed /\ Live # Staged
      /\ Backup # Staged /\ Backup # Failed /\ Staged # Failed
  BY RunningNumber, PlacesApart DEF Current
<1>3. \A p \in Current : Sound(disk[p])
  BY <1>1, <1>2 DEF Disks
<1> QED
  BY <1>1, <1>2, <1>3

LEMMA ImportConfiguration ==
    ASSUME IInv, Unpack \/ UnpackRefused \/ SetAside \/ PlaceImported
    PROVE  Disks(disk)' /\ ConfigurationRight'
<1>0. pc # "idle"
  BY DEF Unpack, UnpackRefused, SetAside, PlaceImported
<1>1. /\ Control /\ Original /\ Disks(disk) /\ OldKept(disk) /\ Sound(archive)
      /\ \A p \in Current : Sound(disk[p])
      /\ Live # Backup /\ Live # Staged /\ Backup # Staged
  BY <1>0, Running
<1>2. CASE Unpack
  <2>1. /\ pc = "unpack" /\ pc' = (IF HasConfig THEN "aside" ELSE "place")
        /\ disk' = Put(disk, Staged, archive)
        /\ UNCHANGED <<run, start, precious, outcome, number>>
    BY <1>2 DEF Unpack, Put
  <2>2. Disks(disk)' /\ OldKept(disk') /\ disk'[Live] = disk[Live]
    BY <1>0, <1>1, <2>1, Putting DEF Current
  <2>3. disk[Live] = start.config /\ ~run.backed /\ run.name = "import"
    BY <1>1, <2>1 DEF Original, Unbacked, Control
  <2>4. pc' = "place" => start.config = NoConfig
    BY <1>1, <2>1, <2>3 DEF HasConfig, Sound, Current
  <2>5. Original'
    BY <2>1, <2>2, <2>3, <2>4 DEF Original, Unbacked, UninstallSteps, Live, Backup
  <2> QED
    BY <1>0, <2>1, <2>2, <2>5, GoesOn DEF ConfigurationRight
<1>3. CASE UnpackRefused
  <2>1. pc = "unpack" /\ Ends("failed", disk, FALSE)
    BY <1>3 DEF UnpackRefused
  <2>2. disk[Live] = start.config
    BY <1>1, <2>1 DEF Original, Unbacked
  <2> QED
    BY <1>0, <1>1, <2>1, <2>2, Ending
<1>4. CASE SetAside
  <2>1. /\ pc = "aside" /\ pc' = "place" /\ run'.backed = TRUE /\ run'.name = run.name
        /\ disk' = Put(Put(disk, Backup, disk[Live]), Live, NoConfig)
        /\ UNCHANGED <<start, precious, outcome, number>>
    BY <1>4 DEF SetAside, Put, GoTo, IInv, TypesRight, Frame
  <2>2. Disks(disk)' /\ OldKept(disk') /\ disk'[Backup] = disk[Live] /\ disk'[Live] = NoConfig
    BY <1>0, <1>1, <2>1, PuttingTwo, NoConfigSound DEF Current
  <2>3. disk[Live] = start.config /\ run.name = "import"
    BY <1>1, <2>1 DEF Original, Unbacked, Control
  <2>4. Original'
    BY <2>1, <2>2, <2>3 DEF Original, Unbacked, UninstallSteps, Live, Backup
  <2> QED
    BY <1>0, <2>1, <2>2, <2>4, GoesOn DEF ConfigurationRight
<1>5. CASE PlaceImported
  <2>1. /\ pc = "place" /\ pc' = "build" /\ run'.backed = run.backed /\ run'.name = run.name
        /\ disk' = Put(Put(disk, Live, disk[Staged]), Staged, NoConfig)
        /\ UNCHANGED <<start, precious, outcome, number>>
    BY <1>5 DEF PlaceImported, Put, GoTo, IInv, TypesRight, Frame
  <2>2. Disks(disk)' /\ OldKept(disk') /\ disk'[Backup] = disk[Backup]
    BY <1>0, <1>1, <2>1, PuttingTwo, NoConfigSound DEF Current
  <2>3. run.name = "import"
    BY <1>1, <2>1 DEF Control
  <2>4. Original'
    BY <1>1, <2>1, <2>2, <2>3 DEF Original, Unbacked, UninstallSteps, Live, Backup
  <2> QED
    BY <1>0, <2>1, <2>2, <2>4, GoesOn DEF ConfigurationRight
<1> QED
  BY <1>2, <1>3, <1>4, <1>5

LEMMA ExportConfiguration ==
    ASSUME IInv, Pack
    PROVE  Disks(disk)' /\ ConfigurationRight'
<1>1. /\ pc # "idle" /\ pc' = "idle" /\ outcome' = "ok"
      /\ UNCHANGED <<run, start, precious, number>>
  BY DEF Pack
<1>2. disk' = disk
  BY DEF Pack
<1>3. Disks(disk') /\ OldKept(disk')
  BY <1>1, <1>2, Running DEF OldKept
<1>4. ~(outcome' = "failed" /\ run.name \in {"install", "import", "export"})
  BY <1>1
<1>5. ConfigurationRight'
  BY <1>1, <1>3, <1>4, Stopping
<1> QED
  BY <1>3, <1>5

LEMMA ModelConfiguration ==
    ASSUME IInv, EditModels \/ EditFails \/ Revert
    PROVE  Disks(disk)' /\ ConfigurationRight'
<1>0. pc # "idle"
  BY DEF EditModels, EditFails, Revert
<1>1. /\ Control /\ Configured /\ Original /\ Disks(disk) /\ OldKept(disk)
      /\ \A p \in Current : Sound(disk[p])
      /\ Live # Backup /\ Current \subseteq Places
  BY <1>0, Running
<1>2. run.name = "model" /\ HasConfig
  BY <1>1 DEF EditModels, EditFails, Revert, Control, Configured
<1>3. \A v \in {"edited", "torn"} : Sound([disk[Live] EXCEPT !.settings = v])
  BY <1>1, <1>2, EditSound DEF HasConfig, Current
<1>4. /\ Disks(Put(disk, Live, [disk[Live] EXCEPT !.settings = "torn"]))
      /\ OldKept(Put(disk, Live, [disk[Live] EXCEPT !.settings = "torn"]))
  BY <1>0, <1>1, <1>3, DiskPut DEF Current
<1>5. CASE EditModels
  <2>1. /\ pc = "edit" /\ pc' = "build" /\ run'.backed = TRUE /\ run'.name = run.name
        /\ disk' = [disk EXCEPT ![Backup] = Copied(disk[Live]), ![Live].settings = "edited"]
        /\ UNCHANGED <<start, precious, outcome, number>>
    BY <1>5 DEF EditModels, GoTo, IInv, TypesRight, Frame
  <2> DEFINE e == [disk[Live] EXCEPT !.settings = "edited"]
             c == Copied(disk[Live])
  <2>2. disk' = Put(Put(disk, Backup, c), Live, e)
    <3>1. Put(disk, Backup, c)[Live] = disk[Live]
      BY <1>1 DEF Put, Disks, Current
    <3>2. disk' = Put(Put(disk, Backup, c), Live,
                      [Put(disk, Backup, c)[Live] EXCEPT !.settings = "edited"])
      BY <2>1 DEF Put
    <3> QED
      BY <3>1, <3>2
  <2>3. Sound(e) /\ Sound(c) /\ c.settings = disk[Live].settings
    BY <1>1, <1>3, CopiedSound DEF Current
  <2>4. e = [disk[Live] EXCEPT !.settings = e.settings]
    BY <1>1 DEF Current, Sound, Parts
  <2> HIDE DEF e, c
  <2>5. Disks(disk)' /\ OldKept(disk') /\ disk'[Backup] = c /\ disk'[Live] = e
    BY <1>0, <1>1, <2>1, <2>2, <2>3, PuttingTwo DEF Current
  <2>6. disk[Live] = start.config
    BY <1>1, <2>1 DEF Original, Unbacked
  <2>7. Apart(start.config, disk'[Backup], disk'[Live])
    BY <2>3, <2>4, <2>5, <2>6 DEF Apart
  <2>8. Original'
    BY <1>2, <2>1, <2>7 DEF Original, Unbacked, UninstallSteps, Live, Backup
  <2> QED
    BY <1>0, <2>1, <2>5, <2>8, GoesOn DEF ConfigurationRight
<1>6. CASE EditFails
  <2>1. CASE Ends("failed", disk, FALSE)
    <3>1. disk[Live] = start.config
      BY <1>1, <1>6 DEF Original, Unbacked, EditFails
    <3> QED
      BY <1>0, <1>1, <2>1, <3>1, Ending
  <2>2. CASE Ends("dirty", Put(disk, Live, [disk[Live] EXCEPT !.settings = "torn"]), FALSE)
    BY <1>0, <1>2, <1>4, <2>2, Ending
  <2> QED
    BY <1>6, <2>1, <2>2 DEF EditFails, Put
<1>7. CASE Revert
  <2> DEFINE e == [disk[Live] EXCEPT !.settings = disk[Backup].settings]
  <2>1. CASE Ends("failed", Put(disk, Live, e), FALSE)
    <3>1. Apart(start.config, disk[Backup], disk[Live])
      BY <1>1, <1>2, <1>7 DEF Original, Revert, Control
    <3>2. Sound(start.config)
      BY DEF IInv, TypesRight
    <3>3. e = start.config
      <4>1. disk[Live] = [start.config EXCEPT !.settings = disk[Live].settings]
            /\ disk[Backup].settings = start.config.settings
        BY <3>1 DEF Apart
      <4> QED
        BY <3>2, <4>1 DEF Sound, Parts
    <3> HIDE DEF e
    <3>4. /\ Disks(Put(disk, Live, e)) /\ OldKept(Put(disk, Live, e)) /\ Put(disk, Live, e)[Live] = e
      <4>1. Sound(e) /\ Live \in Current
        BY <3>2, <3>3 DEF Current
      <4> QED
        BY <1>0, <1>1, <4>1, DiskPut
    <3> QED
      BY <1>0, <2>1, <3>3, <3>4, Ending
  <2>2. CASE Ends("dirty", Put(disk, Live, [disk[Live] EXCEPT !.settings = "torn"]), FALSE)
    BY <1>0, <1>2, <1>4, <2>2, Ending
  <2> QED
    BY <1>7, <2>1, <2>2 DEF Revert, Put
<1> QED
  BY <1>5, <1>6, <1>7

LEMMA BuildConfiguration ==
    ASSUME IInv, Refuse \/ PlanRefused \/ Sweep \/ Register
    PROVE  Disks(disk)' /\ ConfigurationRight'
<1>0. pc # "idle"
  BY DEF Refuse, PlanRefused, Sweep, Register
<1>1. Control /\ Original /\ Disks(disk) /\ OldKept(disk) /\ outcome = "none"
  BY <1>0, Running DEF Control
<1>2. CASE Refuse
  <2>1. pc = "check" /\ Ends("failed", disk, FALSE)
    BY <1>2 DEF Refuse
  <2>2. disk[Live] = start.config
    BY <1>1, <2>1 DEF Original, Unbacked
  <2> QED
    BY <1>0, <1>1, <2>1, <2>2, Ending
<1>3. CASE PlanRefused
  BY <1>3, Unwinding DEF PlanRefused
<1>4. CASE Sweep
  <2>1. CASE Ends("ok", disk, FALSE)
    BY <1>0, <1>1, <2>1, Ending
  <2>2. CASE GoTo("register") /\ UNCHANGED <<disk, run>> /\ run.name \in {"install", "import"}
    <3>1. /\ pc = "emit" /\ pc' = "register"
          /\ UNCHANGED <<disk, run, start, precious, outcome, number>>
      BY <1>4, <2>2 DEF Sweep, GoTo
    <3>2. Original'
      BY <1>1, <2>2, <3>1 DEF Original, Unbacked, UninstallSteps, Live, Backup
    <3> QED
      BY <1>0, <3>1, <3>2, SameConfiguration
  <2> QED
    BY <1>4, <2>1, <2>2 DEF Sweep
<1>5. CASE Register
  <2>1. CASE Ends("ok", disk, FALSE)
    BY <1>0, <1>1, <2>1, Ending
  <2>2. CASE Unwind
    BY <1>5, <2>2, Unwinding DEF Register
  <2> QED
    BY <1>5, <2>1, <2>2 DEF Register
<1> QED
  BY <1>2, <1>3, <1>4, <1>5

\* What a rollback that stops has in the backup, or had nothing to back up.
LEMMA BackedUp ==
    ASSUME IInv, pc \in {"undo", "putback"}
    PROVE  /\ run.name \in Replacing
           /\ IF run.backed THEN disk[Backup] = start.config ELSE start.config = NoConfig
  BY Running DEF Original, Control, UndoSteps, Replacing

LEMMA UndoConfiguration ==
    ASSUME IInv, Preserve \/ PutBack \/ UndoFails
    PROVE  Disks(disk)' /\ ConfigurationRight'
<1>0. pc # "idle" /\ pc \in {"undo", "putback"}
  BY DEF Preserve, PutBack, UndoFails
<1>1. /\ Control /\ Original /\ Disks(disk) /\ OldKept(disk) /\ Current \subseteq Places
      /\ \A p \in Current : Sound(disk[p])
      /\ Live # Backup /\ Live # Failed /\ Backup # Failed
  BY <1>0, Running
<1>2. /\ run.name \in Replacing
      /\ IF run.backed THEN disk[Backup] = start.config ELSE start.config = NoConfig
  BY <1>0, BackedUp
<1>3. CASE Preserve
  <2>1. /\ pc' = (IF run.backed THEN "putback" ELSE "restore")
        /\ UNCHANGED <<run, start, precious, outcome, number>>
    BY <1>3 DEF Preserve
  <2>2. /\ Disks(disk)' /\ OldKept(disk') /\ disk'[Backup] = disk[Backup]
        /\ disk'[Live] = NoConfig
    <3>1. CASE HasConfig
      <4>1. disk' = Put(Put(disk, Failed, disk[Live]), Live, NoConfig)
        BY <1>3, <3>1 DEF Preserve, Put
      <4> QED
        BY <1>0, <1>1, <2>1, <4>1, PuttingTwo, NoConfigSound DEF Current
    <3>2. CASE ~HasConfig
      <4>1. disk' = disk
        BY <1>3, <3>2 DEF Preserve
      <4>2. disk[Live] = NoConfig
        BY <1>1, <3>2 DEF HasConfig, Sound, Current
      <4>3. Disks(disk') /\ OldKept(disk')
        BY <1>1, <4>1
      <4> QED
        BY <4>1, <4>2, <4>3
    <3> QED
      BY <3>1, <3>2
  <2>3. Original'
    BY <1>2, <2>1, <2>2 DEF Original, Unbacked, UninstallSteps, Live, Backup, Replacing
  <2> QED
    BY <1>0, <2>1, <2>2, <2>3, GoesOn DEF ConfigurationRight
<1>4. CASE PutBack
  <2>1. /\ pc = "putback" /\ pc' = "restore"
        /\ UNCHANGED <<run, start, precious, outcome, number>>
    BY <1>4 DEF PutBack, GoTo
  <2> DEFINE left == IF run.name = "import" THEN NoConfig ELSE disk[Backup]
  <2>2. disk' = Put(Put(disk, Live, disk[Backup]), Backup, left)
    <3>1. Put(disk, Live, disk[Backup])[Backup] = disk[Backup]
      BY <1>1 DEF Put, Disks, Current
    <3>2. disk' = Put(Put(disk, Live, disk[Backup]), Backup,
                      IF run.name = "import" THEN NoConfig
                      ELSE Put(disk, Live, disk[Backup])[Backup])
      BY <1>4 DEF PutBack, Put
    <3> QED
      BY <3>1, <3>2
  <2>3. Sound(left)
    BY <1>1, NoConfigSound DEF Current
  <2> HIDE DEF left
  <2>4. Disks(disk)' /\ OldKept(disk') /\ disk'[Live] = disk[Backup]
    BY <1>0, <1>1, <2>1, <2>2, <2>3, PuttingTwo DEF Current
  <2>5. disk[Backup] = start.config
    BY <1>1, <1>2, <2>1 DEF Control
  <2>6. Original'
    BY <1>2, <2>1, <2>4, <2>5 DEF Original, Unbacked, UninstallSteps, Live, Backup, Replacing
  <2> QED
    BY <1>0, <2>1, <2>4, <2>6, GoesOn DEF ConfigurationRight
<1>5. CASE UndoFails
  <2>1. PICK c \in (IF pc = "putback" /\ run.name = "install"
                    THEN Halfway(NoConfig, disk[Backup]) ELSE {disk[Live]}) :
            Ends("dirty", Put(disk, Live, c), run.backed)
    BY <1>5 DEF UndoFails, Put
  <2>2. Sound(c)
    <3>1. Sound(disk[Live]) /\ Sound(disk[Backup])
      BY <1>1 DEF Current
    <3> QED
      BY <3>1, <2>1, HalfwaySound, NoConfigSound
  <2>3. /\ Disks(Put(disk, Live, c)) /\ OldKept(Put(disk, Live, c))
        /\ Put(disk, Live, c)[Backup] = disk[Backup]
    BY <1>0, <1>1, <2>2, DiskPut DEF Current
  <2>4. start.config.root = "none" \/ (run.backed /\ Put(disk, Live, c)[Backup] = start.config)
    BY <1>2, <2>3 DEF NoConfig, Parts
  <2> QED
    BY <1>0, <2>1, <2>3, <2>4, Ending
<1> QED
  BY <1>3, <1>4, <1>5

LEMMA RestoredConfiguration ==
    ASSUME IInv, RolledBack \/ RestoreFails
    PROVE  Disks(disk)' /\ ConfigurationRight'
<1>1. pc = "restore"
  BY DEF RolledBack, RestoreFails
<1>2. Disks(disk) /\ OldKept(disk) /\ disk[Live] = start.config
  BY <1>1, Running DEF Original, Unbacked
<1>3. CASE RolledBack
  BY <1>1, <1>2, <1>3, Ending DEF RolledBack
<1>4. CASE RestoreFails
  BY <1>1, <1>2, <1>4, Ending DEF RestoreFails
<1> QED
  BY <1>3, <1>4

LEMMA UninstallConfiguration ==
    ASSUME IInv, UnregisterTui \/ Removed
    PROVE  Disks(disk)' /\ ConfigurationRight'
<1>0. pc # "idle" /\ pc \in UninstallSteps
  BY DEF UnregisterTui, Removed, UninstallSteps
<1>1. /\ Disks(disk) /\ OldKept(disk) /\ disk[Live] = start.config /\ Original
      /\ run.name = "uninstall"
  BY <1>0, Running DEF Original, Unbacked, Control
<1>2. CASE UnregisterTui
  <2>1. CASE Ends("failed", disk, FALSE)
    BY <1>0, <1>1, <2>1, Ending
  <2>2. CASE GoTo(IF "row" \in snap["tui"] THEN "rewrite" ELSE "remove") /\ UNCHANGED <<disk, run>>
    <3>1. /\ pc' \in {"rewrite", "remove"}
          /\ UNCHANGED <<disk, run, start, precious, outcome, number>>
      BY <2>2 DEF GoTo
    <3>2. Original'
      BY <1>1, <3>1 DEF Original, Unbacked, UninstallSteps, Live
    <3> QED
      BY <1>0, <3>1, <3>2, SameConfiguration
  <2> QED
    BY <1>2, <2>1, <2>2 DEF UnregisterTui
<1>3. CASE Removed
  <2>1. CASE run.keep
    BY <1>0, <1>1, <1>3, <2>1, Ending DEF Removed
  <2>2. CASE ~run.keep
    <3>1. Ends("ok", Put(disk, Live, NoConfig), FALSE)
      BY <1>3, <2>2 DEF Removed, Put
    <3>2. Disks(Put(disk, Live, NoConfig)) /\ OldKept(Put(disk, Live, NoConfig))
      BY <1>0, <1>1, DiskPut, NoConfigSound DEF Current
    <3> QED
      BY <1>0, <3>1, <3>2, Ending
  <2> QED
    BY <2>1, <2>2
<1> QED
  BY <1>2, <1>3

\* A kill inside a step leaves what the command has found in one of two places.
LEMMA KilledConfiguration ==
    ASSUME IInv, Kill
    PROVE  Disks(disk)' /\ ConfigurationRight'
<1>0. /\ pc # "idle" /\ pc' = "idle" /\ outcome' = "killed" /\ disk' \in KilledDisks
      /\ UNCHANGED <<run, start, precious, number>>
  BY DEF Kill
<1>1. /\ TypesRight /\ Control /\ Configured /\ Original /\ Disks(disk) /\ OldKept(disk)
      /\ \A p \in Current : Sound(disk[p])
      /\ Live # Backup /\ Current \subseteq Places
  BY <1>0, Running
<1>2. Sound(disk[Live]) /\ Sound(disk[Backup]) /\ {Live, Backup} \subseteq Current
  BY <1>1 DEF Current
<1> DEFINE Safe == /\ Disks(disk') /\ OldKept(disk')
                   /\ \/ disk'[Live] = start.config \/ start.config.root = "none"
                      \/ disk'[Backup] = start.config
                      \/ run.name = "model" /\ Apart(start.config, disk'[Backup], disk'[Live])
<1>3. ASSUME pc = "copy" PROVE Safe
  <2>1. PICK c \in Halfway(NoConfig, disk[Live]) : disk' = Put(disk, Backup, c)
    BY <1>0, <1>3 DEF KilledDisks, Put
  <2>2. Sound(c)
    BY <1>2, HalfwaySound, NoConfigSound
  <2>3. Disks(disk') /\ OldKept(disk') /\ disk'[Live] = disk[Live]
    BY <1>0, <1>1, <1>2, <2>1, <2>2, Putting
  <2>4. disk[Live] = start.config
    BY <1>1, <1>3 DEF Original, Unbacked
  <2> QED
    BY <2>3, <2>4
<1>4. ASSUME pc = "write" PROVE Safe
  <2>1. PICK c \in Halfway(disk[Live], Installed(disk[Live])) : disk' = Put(disk, Live, c)
    BY <1>0, <1>4 DEF KilledDisks, Put
  <2>2. Sound(c)
    BY <1>2, HalfwaySound, InstalledSound
  <2>3. Disks(disk') /\ OldKept(disk') /\ disk'[Backup] = disk[Backup]
    BY <1>0, <1>1, <1>2, <2>1, <2>2, Putting
  <2>4. run.name = "install"
    BY <1>1, <1>4 DEF Control
  <2>5. disk[Backup] = start.config \/ start.config = NoConfig
    BY <1>1, <1>4, <2>4 DEF Original
  <2> QED
    BY <2>3, <2>5 DEF NoConfig, Parts
<1>5. ASSUME pc \in {"edit", "revert"} PROVE Safe
  <2>1. run.name = "model" /\ HasConfig
    BY <1>1, <1>5 DEF Control, Configured
  <2> DEFINE e == [disk[Live] EXCEPT !.settings = "torn"]
  <2>2. Sound(e)
    BY <1>2, <2>1, EditSound DEF HasConfig
  <2>3. e.settings = "torn" /\ e = [disk[Live] EXCEPT !.settings = e.settings]
    BY <1>2 DEF Sound, Parts
  <2>4. CASE pc = "edit"
    <3>0. disk[Live] = start.config
      BY <1>1, <2>4 DEF Original, Unbacked
    <3>1. CASE disk' = disk
      <4>1. Disks(disk') /\ OldKept(disk') /\ disk'[Live] = start.config
        BY <1>1, <3>0, <3>1
      <4> QED
        BY <4>1
    <3>2. CASE disk' = [disk EXCEPT ![Backup] = Copied(disk[Live]), ![Live].settings = "torn"]
      <4> DEFINE c == Copied(disk[Live])
      <4>1. Sound(c) /\ c.settings = disk[Live].settings
        BY <1>2, CopiedSound
      <4>2. Put(disk, Backup, c)[Live] = disk[Live]
        BY <1>1, <1>2 DEF Put, Disks
      <4>3. disk' = Put(Put(disk, Backup, c), Live,
                        [Put(disk, Backup, c)[Live] EXCEPT !.settings = "torn"])
        BY <3>2 DEF Put
      <4>4. disk' = Put(Put(disk, Backup, c), Live, e)
        BY <4>2, <4>3
      <4> HIDE DEF e, c
      <4>5. Disks(disk') /\ OldKept(disk') /\ disk'[Backup] = c /\ disk'[Live] = e
        BY <1>0, <1>1, <1>2, <2>2, <4>1, <4>4, PuttingTwo
      <4>6. Apart(start.config, disk'[Backup], disk'[Live])
        BY <2>3, <3>0, <4>1, <4>5 DEF Apart
      <4> QED
        BY <2>1, <4>5, <4>6
    <3>3. \/ disk' = disk
          \/ disk' = [disk EXCEPT ![Backup] = Copied(disk[Live]), ![Live].settings = "torn"]
      BY <1>0, <2>4 DEF KilledDisks
    <3> QED
      BY <3>1, <3>2, <3>3
  <2>5. CASE pc = "revert"
    <3>1. disk' = Put(disk, Live, e)
      BY <1>0, <2>5 DEF KilledDisks, Put
    <3>2. Apart(start.config, disk[Backup], disk[Live])
      BY <1>1, <2>1, <2>5 DEF Original, Control
    <3>3. e = [start.config EXCEPT !.settings = e.settings]
      <4>1. disk[Live] = [start.config EXCEPT !.settings = disk[Live].settings]
        BY <3>2 DEF Apart
      <4>2. Sound(start.config)
        BY DEF IInv, TypesRight
      <4> QED
        BY <4>1, <4>2 DEF Sound, Parts
    <3> HIDE DEF e
    <3>4. Disks(disk') /\ OldKept(disk') /\ disk'[Backup] = disk[Backup] /\ disk'[Live] = e
      BY <1>0, <1>1, <1>2, <2>2, <3>1, Putting
    <3>5. Apart(start.config, disk'[Backup], disk'[Live])
      BY <3>2, <3>3, <3>4 DEF Apart
    <3> QED
      BY <2>1, <3>4, <3>5
  <2> QED
    BY <1>5, <2>4, <2>5
<1>6. ASSUME pc = "putback", run.name = "install" PROVE Safe
  <2>1. PICK c \in Halfway(NoConfig, disk[Backup]) : disk' = Put(disk, Live, c)
    BY <1>0, <1>6 DEF KilledDisks, Put
  <2>2. Sound(c)
    BY <1>2, HalfwaySound, NoConfigSound
  <2>3. Disks(disk') /\ OldKept(disk') /\ disk'[Backup] = disk[Backup]
    BY <1>0, <1>1, <1>2, <2>1, <2>2, Putting
  <2>4. disk[Backup] = start.config \/ start.config = NoConfig
    BY <1>6, BackedUp
  <2> QED
    BY <2>3, <2>4 DEF NoConfig, Parts
<1>7. ASSUME pc \notin {"copy", "write", "edit", "revert"}, ~(pc = "putback" /\ run.name = "install")
      PROVE  Safe
  <2>1. disk' = disk
    BY <1>0, <1>7 DEF KilledDisks
  <2>2. Disks(disk') /\ OldKept(disk')
    BY <1>1, <2>1
  <2>3. pc \in {"check", "unpack", "aside", "place", "pack", "build", "emit", "register", "undo",
                 "putback", "restore"} \cup UninstallSteps
    BY <1>0, <1>1, <1>7 DEF TypesRight, Frame, Stages, UndoSteps
  <2>4. \/ disk[Live] = start.config \/ start.config = NoConfig \/ disk[Backup] = start.config
        \/ run.name = "model" /\ Apart(start.config, disk[Backup], disk[Live])
    BY <1>1, <2>3 DEF Original, Unbacked, UninstallSteps
  <2> QED
    BY <2>1, <2>2, <2>4 DEF NoConfig, Parts
<1>8. Safe
  BY <1>3, <1>4, <1>5, <1>6, <1>7
<1>9. ConfigurationRight'
  BY <1>0, <1>8, Stopping
<1> QED
  BY <1>8, <1>9

LEMMA NextConfiguration ==
    ASSUME IInv, InstallNext
    PROVE  Disks(disk)' /\ ConfigurationRight'
<1>1. CASE \E c \in Commands : Start(c)
  BY <1>1, StartConfiguration
<1>2. CASE StepFails
  BY <1>2, Unwinding DEF StepFails, UninstallSteps
<1>3. CASE Steps
  BY <1>3, QuietConfiguration, InstallConfiguration, ImportConfiguration, ExportConfiguration,
     ModelConfiguration, BuildConfiguration, UndoConfiguration, RestoredConfiguration,
     UninstallConfiguration DEF Steps
<1> QED
  BY <1>1, <1>2, <1>3, KilledConfiguration, QuietConfiguration DEF InstallNext

-----------------------------------------------------------------------------
(* The course of a command. *)

LEMMA Idle ==
    ASSUME IInv, pc' = "idle", UNCHANGED <<site, run, number>>, torn' \in BOOLEAN
    PROVE  Frame' /\ Control' /\ Configured'
<1>1. Frame'
  BY DEF IInv, TypesRight, Frame, Stages
<1>2. Control'
  BY DEF Control, UndoSteps, UninstallSteps
<1>3. Configured'
  BY DEF Configured
<1> QED
  BY <1>1, <1>2, <1>3

LEMMA StartCourse ==
    ASSUME IInv, NEW c \in Commands, Start(c)
    PROVE  Frame' /\ Control' /\ Configured'
<1>1. /\ pc = "idle" /\ pc' = "check" /\ number < MaxCommands /\ number' = number + 1
      /\ run' = [name |-> c.name, force |-> c.force, keep |-> c.keep,
                 backed |-> FALSE, changed |-> FALSE, late |-> FALSE]
      /\ outcome' = "none" /\ UNCHANGED <<site, torn>>
  BY DEF Start
<1>2. c.name \in Names
  BY DEF Commands, Names
<1>3. number' \in 0..MaxCommands /\ number' >= 1
  BY <1>1, InstallationAssumption DEF IInv, TypesRight, Frame
<1>4. Frame'
  BY <1>1, <1>3 DEF IInv, TypesRight, Frame, Stages
<1>5. Control'
  BY <1>1, <1>2, <1>3 DEF Control, UndoSteps, UninstallSteps
<1>6. Configured'
  BY <1>1 DEF Configured
<1> QED
  BY <1>4, <1>5, <1>6

\* The steps that change nothing but where the command is.
LEMMA MovingCourse ==
    ASSUME IInv, \/ Check \/ Unpack \/ Plan \/ Emit \/ Preserve \/ PutBack \/ Restore
                 \/ Unregister \/ RewriteTui \/ RemoveManaged \/ EditTui
    PROVE  Frame' /\ Control'
<1>1. Frame /\ Control /\ Original
  BY DEF IInv, TypesRight, ConfigurationRight
<1>2. CASE Check
  <2>1. /\ pc = "check" /\ pc' = FirstStep
        /\ UNCHANGED <<site, run, outcome, number, torn>>
    BY <1>2 DEF Check
  <2>2. run.name \in Names
    BY <1>1, <2>1 DEF Control
  <2>3. \/ pc' \in {"copy", "write"} /\ run.name = "install"
        \/ pc' = "unpack" /\ run.name = "import"
        \/ pc' = "pack" /\ run.name = "export"
        \/ pc' = "edit" /\ run.name = "model"
        \/ pc' = "build" /\ run.name = "build"
        \/ pc' \in {"unregister", "untui"} /\ run.name = "uninstall"
    BY <2>1, <2>2 DEF FirstStep, Names
  <2>4. Frame'
    BY <1>1, <2>1, <2>3 DEF Frame, Stages, UninstallSteps
  <2>5. Control'
    BY <1>1, <2>1, <2>3 DEF Control, UndoSteps, UninstallSteps, Replacing
  <2> QED
    BY <2>4, <2>5
<1>3. CASE Unpack
  BY <1>1, <1>3 DEF Unpack, Frame, Stages, Control, UndoSteps, UninstallSteps, Replacing
<1>4. CASE Plan
  BY <1>1, <1>4 DEF Plan, GoTo, Frame, Stages, Control, UndoSteps, UninstallSteps, Replacing
<1>5. CASE Emit
  BY <1>1, <1>5 DEF Emit, GoTo, Frame, Stages, Control, UndoSteps, UninstallSteps, Replacing
<1>6. CASE Preserve
  BY <1>1, <1>6 DEF Preserve, Frame, Stages, Control, UndoSteps, UninstallSteps, Replacing
<1>7. CASE PutBack
  BY <1>1, <1>7 DEF PutBack, GoTo, Frame, Stages, Control, UndoSteps, UninstallSteps, Replacing
<1>8. CASE Restore
  BY <1>1, <1>8 DEF Restore, GoTo, Frame, Stages, Control, UndoSteps, UninstallSteps, Replacing
<1>9. CASE Unregister
  BY <1>1, <1>9 DEF Unregister, GoTo, Frame, Stages, Control, UndoSteps, UninstallSteps, Replacing
<1>10. CASE RemoveManaged
  BY <1>1, <1>10 DEF RemoveManaged, GoTo, Frame, Stages, Control, UndoSteps, UninstallSteps, Replacing
<1>11. CASE EditTui
  <2>1. run' = [name |-> run.name, force |-> run.force, keep |-> run.keep, backed |-> run.backed,
                changed |-> run.changed, late |-> (pc = "rewrite")]
    BY <1>1, <1>11 DEF EditTui, Frame
  <2>2. run'.late \in BOOLEAN
    BY <2>1
  <2>3. Frame'
    BY <1>1, <1>11, <2>1, <2>2 DEF EditTui, Frame
  <2>4. Control'
    BY <1>1, <1>11, <2>1 DEF EditTui, Control, UndoSteps, UninstallSteps, Replacing
  <2> QED
    BY <2>3, <2>4
<1>12. CASE RewriteTui
  BY <1>1, <1>12 DEF RewriteTui, GoTo, Frame, Stages, Control, UndoSteps, UninstallSteps, Replacing
<1> QED
  BY <1>2, <1>3, <1>4, <1>5, <1>6, <1>7, <1>8, <1>9, <1>10, <1>11, <1>12

\* The steps that note a backup or a change.
LEMMA NotingCourse ==
    ASSUME IInv, CopyBackup \/ WriteConfig \/ WriteFails \/ SetAside \/ PlaceImported \/ EditModels
    PROVE  Frame' /\ Control'
<1>1. Frame /\ Control /\ run' = [name |-> run.name, force |-> run.force, keep |-> run.keep,
                                  backed |-> run'.backed, changed |-> run'.changed,
                                  late |-> run.late]
  BY DEF IInv, TypesRight, Frame, CopyBackup, WriteConfig, WriteFails, SetAside, PlaceImported,
     EditModels
<1>2. CASE CopyBackup
  <2>1. run'.backed = TRUE /\ run'.changed = run.changed
    BY <1>1, <1>2 DEF CopyBackup, Frame
  <2> QED
    BY <1>1, <1>2, <2>1 DEF CopyBackup, GoTo, Frame, Stages, Control, UndoSteps, UninstallSteps,
                        Replacing
<1>3. CASE WriteConfig
  <2>1. run'.backed = run.backed /\ run'.changed = TRUE
    BY <1>1, <1>3 DEF WriteConfig, Frame
  <2> QED
    BY <1>1, <1>3, <2>1 DEF WriteConfig, GoTo, Frame, Stages, Control, UndoSteps, UninstallSteps,
                        Replacing
<1>4. CASE WriteFails
  <2>1. run'.backed = run.backed /\ run'.changed = TRUE
    BY <1>1, <1>4 DEF WriteFails, Frame
  <2> QED
    BY <1>1, <1>4, <2>1 DEF WriteFails, GoTo, Frame, Stages, Control, UndoSteps, UninstallSteps,
                        Replacing
<1>5. CASE SetAside
  <2>1. run'.backed = TRUE /\ run'.changed = run.changed
    BY <1>1, <1>5 DEF SetAside, Frame
  <2> QED
    BY <1>1, <1>5, <2>1 DEF SetAside, GoTo, Frame, Stages, Control, UndoSteps, UninstallSteps,
                        Replacing
<1>6. CASE PlaceImported
  <2>1. run'.backed = run.backed /\ run'.changed = TRUE
    BY <1>1, <1>6 DEF PlaceImported, Frame
  <2> QED
    BY <1>1, <1>6, <2>1 DEF PlaceImported, GoTo, Frame, Stages, Control, UndoSteps, UninstallSteps,
                        Replacing
<1>7. CASE EditModels
  <2>1. run'.backed = TRUE /\ run'.changed = run.changed
    BY <1>1, <1>7 DEF EditModels, Frame
  <2> QED
    BY <1>1, <1>7, <2>1 DEF EditModels, GoTo, Frame, Stages, Control, UndoSteps, UninstallSteps,
                        Replacing
<1> QED
  BY <1>2, <1>3, <1>4, <1>5, <1>6, <1>7

\* A step that throws, and the two that may.
LEMMA UnwindingCourse ==
    ASSUME IInv, Unwind, torn' = torn,
           pc \in {"copy", "unpack", "aside", "place", "pack", "build", "emit",
                   "register"} \cup UninstallSteps
    PROVE  Frame' /\ Control' /\ Configured'
<1>1. Frame /\ Control /\ Configured
  BY DEF IInv, TypesRight
<1>2. /\ \/ pc' = "undo" /\ run.name \in Replacing
         \/ pc' = "revert" /\ run.name = "model"
         \/ pc' = "idle"
      /\ UNCHANGED <<site, run, number>>
      /\ pc' # "idle" => UNCHANGED <<disk, outcome>>
  BY Unwinding
<1>3. CASE pc' = "idle"
  BY <1>2, <1>3, Idle DEF IInv, TypesRight, Frame
<1>4. CASE pc' = "undo" /\ run.name \in Replacing
  <2>1. Frame'
    BY <1>1, <1>2, <1>4 DEF Frame, Stages, UndoSteps
  <2>2. Control'
    BY <1>1, <1>2, <1>4 DEF Control, UndoSteps, UninstallSteps, Replacing
  <2>3. Configured'
    BY <1>4 DEF Configured
  <2> QED
    BY <2>1, <2>2, <2>3
<1>5. CASE pc' = "revert" /\ run.name = "model"
  <2>1. pc \in {"build", "emit"}
    BY <1>1, <1>5 DEF Control, UninstallSteps, Replacing
  <2>2. Frame'
    BY <1>1, <1>2, <1>5 DEF Frame, Stages
  <2>3. Control'
    BY <1>1, <1>2, <1>5, <2>1 DEF Control, UndoSteps, UninstallSteps, Replacing
  <2>4. Configured'
    BY <1>1, <1>2, <1>5, <2>1 DEF Configured, HasConfig, Live
  <2> QED
    BY <2>2, <2>3, <2>4
<1> QED
  BY <1>2, <1>3, <1>4, <1>5

LEMMA EndingCourse ==
    ASSUME IInv, \/ Refuse \/ UnpackRefused \/ Pack \/ EditFails \/ Revert \/ UndoFails
                 \/ RolledBack \/ RestoreFails \/ Removed \/ Kill
    PROVE  Frame' /\ Control' /\ Configured'
<1>1. pc' = "idle" /\ UNCHANGED <<site, run, number>>
  BY DEF Refuse, UnpackRefused, Pack, EditFails, Revert, UndoFails, RolledBack, RestoreFails,
     Removed, Kill, Ends
<1>2. torn' \in BOOLEAN
  BY DEF Refuse, UnpackRefused, Pack, EditFails, Revert, UndoFails, RolledBack, RestoreFails,
     Removed, Kill, IInv, TypesRight, Frame
<1> QED
  BY <1>1, <1>2, Idle

LEMMA ForkingCourse ==
    ASSUME IInv, PlanRefused \/ Sweep \/ Register \/ UnregisterTui \/ StepFails
    PROVE  Frame' /\ Control' /\ Configured'
<1>1. Frame /\ Control /\ Configured /\ torn' = torn
  BY DEF IInv, TypesRight, PlanRefused, Sweep, Register, UnregisterTui, StepFails
<1>2. CASE Unwind
  BY <1>1, <1>2, UnwindingCourse
     DEF PlanRefused, Sweep, Register, UnregisterTui, StepFails, UninstallSteps
<1>3. CASE pc' = "idle" /\ UNCHANGED <<site, run, number>>
  BY <1>1, <1>3, Idle DEF Frame
<1>4. CASE /\ pc = "emit" /\ pc' = "register" /\ site.global /\ run.name \in Replacing
           /\ UNCHANGED <<site, run, number, outcome>>
  <2>1. Frame'
    BY <1>1, <1>4 DEF Frame, Stages
  <2>2. Control'
    BY <1>1, <1>4 DEF Control, UndoSteps, UninstallSteps, Replacing
  <2>3. Configured'
    BY <1>4 DEF Configured
  <2> QED
    BY <2>1, <2>2, <2>3
<1>5. CASE pc = "untui" /\ pc' \in {"rewrite", "remove"} /\ UNCHANGED <<site, run, number, outcome>>
  <2>1. Frame'
    BY <1>1, <1>5 DEF Frame, Stages, UninstallSteps
  <2>2. Control'
    BY <1>1, <1>5 DEF Control, UndoSteps, UninstallSteps, Replacing
  <2>3. Configured'
    BY <1>5 DEF Configured
  <2> QED
    BY <2>1, <2>2, <2>3
<1>6. CASE Sweep
  BY <1>3, <1>4, <1>6 DEF Sweep, Ends, GoTo, Replacing
<1>7. CASE Register
  BY <1>2, <1>3, <1>7 DEF Register, Ends
<1>8. CASE UnregisterTui
  BY <1>3, <1>5, <1>8 DEF UnregisterTui, Ends, GoTo
<1> QED
  BY <1>2, <1>6, <1>7, <1>8 DEF PlanRefused, StepFails

LEMMA MovingConfigured ==
    ASSUME IInv,
           \/ Check \/ Unpack \/ Plan \/ Emit \/ Preserve \/ PutBack \/ Restore
           \/ Unregister \/ RewriteTui \/ RemoveManaged \/ EditTui \/ CopyBackup \/ WriteConfig
           \/ WriteFails
           \/ SetAside \/ PlaceImported \/ EditModels
    PROVE  Configured'
<1>1. Control /\ Configured /\ Frame
  BY DEF IInv, TypesRight
<1>2. CASE Check
  <2>1. /\ pc = "check" /\ pc' = FirstStep /\ Accepted /\ UNCHANGED <<run, disk>>
        /\ run.name \in Names
    BY <1>1, <1>2 DEF Check, Control
  <2>2. \/ pc' \in {"copy", "edit"} /\ HasConfig
        \/ pc' \in {"write", "unpack", "pack"} \cup UninstallSteps
        \/ run.name = "build" /\ pc' = "build"
    BY <2>1 DEF FirstStep, Accepted, Names, UninstallSteps
  <2>3. /\ pc' \in {"edit", "build", "emit", "revert"} /\ run'.name = "model" => HasConfig
        /\ pc' \in {"aside", "copy"} => HasConfig
    BY <2>1, <2>2 DEF UninstallSteps
  <2> QED
    BY <2>1, <2>3 DEF Configured, HasConfig, Live
<1>3. CASE Unpack
  <2>1. /\ pc = "unpack" /\ pc' \in {"aside", "place"} /\ (pc' = "aside" => HasConfig)
        /\ disk' = Put(disk, Staged, archive) /\ number' = number
    BY <1>3 DEF Unpack, Put
  <2>2. disk'[Live] = disk[Live]
    BY <2>1, Running, Putting DEF Current
  <2> QED
    BY <2>1, <2>2 DEF Configured, HasConfig, Live
<1>4. CASE Plan \/ Emit
  BY <1>1, <1>4 DEF Plan, Emit, GoTo, Configured, HasConfig, Live
<1>5. CASE Preserve \/ PutBack \/ Restore \/ Unregister \/ RewriteTui \/ RemoveManaged
  <2>1. pc' \in {"putback", "restore", "untui", "remove"}
    BY <1>5 DEF Preserve, PutBack, Restore, Unregister, RewriteTui, RemoveManaged, GoTo
  <2> QED
    BY <2>1 DEF Configured
<1>6. CASE EditTui
  BY <1>1, <1>6 DEF EditTui, Configured, Control
<1>7. CASE CopyBackup \/ WriteConfig \/ WriteFails \/ SetAside \/ PlaceImported
  <2>1. /\ run'.name # "model" /\ pc' \in {"write", "build", "undo", "place"}
    BY <1>1, <1>7 DEF CopyBackup, WriteConfig, WriteFails, SetAside, PlaceImported, GoTo, Control, Frame
  <2> QED
    BY <2>1 DEF Configured
<1>8. CASE EditModels
  <2>1. /\ pc = "edit" /\ run.name = "model" /\ pc' = "build"
        /\ disk' = [disk EXCEPT ![Backup] = Copied(disk[Live]), ![Live].settings = "edited"]
    BY <1>1, <1>8 DEF EditModels, GoTo, Control
  <2>2. /\ HasConfig /\ Sound(disk[Live]) /\ Live # Backup /\ Live \in Places /\ Backup \in Places
        /\ Disks(disk)
    BY <1>1, <2>1, Running DEF Configured, Current
  <2>3. [disk[Live] EXCEPT !.settings = "edited"].root = "dir"
    BY <2>2, EditSound DEF HasConfig
  <2>4. disk'[Live] = [disk[Live] EXCEPT !.settings = "edited"]
    BY <2>1, <2>2 DEF Disks
  <2> QED
    BY <2>1, <2>3, <2>4 DEF Configured, HasConfig, Live
<1> QED
  BY <1>2, <1>3, <1>4, <1>5, <1>6, <1>7, <1>8

LEMMA NextCourse ==
    ASSUME IInv, InstallNext
    PROVE  Frame' /\ Control' /\ Configured'
<1>1. CASE \E c \in Commands : Start(c)
  BY <1>1, StartCourse
<1>2. CASE Steps
  BY <1>2, MovingCourse, NotingCourse, EndingCourse, ForkingCourse, MovingConfigured DEF Steps
<1>3. CASE EditTui
  BY <1>3, MovingCourse, MovingConfigured
<1> QED
  BY <1>1, <1>2, <1>3, EndingCourse, ForkingCourse DEF InstallNext

-----------------------------------------------------------------------------
(* The files of the runtime. *)

FilesTyped == SoundFiles(files) /\ SoundFiles(snap) /\ todo \in Seq(Written)

Write(fs, f, content) == [fs EXCEPT ![f] = content]

LEMMA FileWritten ==
    ASSUME NEW fs, SoundFiles(fs), NEW f \in RuntimeFiles, NEW content,
           f \in {"plugin", "module", "retired"} => content \cap {"mine", "edit"} = {},
           f \in {"agent", "other"} => "edit" \notin content
    PROVE  /\ SoundFiles(Write(fs, f, content)) /\ Write(fs, f, content)[f] = content
           /\ \A g \in RuntimeFiles : g # f => Write(fs, f, content)[g] = fs[g]
<1> DEFINE w == Write(fs, f, content)
<1>1. /\ w = [g \in RuntimeFiles |-> w[g]] /\ w[f] = content
      /\ \A g \in RuntimeFiles : g # f => w[g] = fs[g]
  BY DEF SoundFiles, Write
<1> HIDE DEF w
<1>2. SoundFiles(w)
  BY <1>1 DEF SoundFiles, RuntimeFiles
<1> QED
  BY <1>1, <1>2 DEF w

LEMMA RunningFiles ==
    ASSUME IInv, pc # "idle"
    PROVE  /\ FilesTyped /\ Frame /\ Control /\ FilesRight /\ outcome = "none"
           /\ archive = start.archive
           /\ pc # "restore" => torn \/ NoDangling(files)
  BY DEF IInv, TypesRight, FilesTyped, Control, FilesRight, Snapshot, Registered

\* The end of a command.
LEMMA StoppedFiles ==
    ASSUME IInv, pc # "idle", pc' = "idle", UNCHANGED <<site, run, snap, start>>,
           torn' = TRUE \/ torn' = torn, outcome' = "ok" \/ archive' = archive,
           torn' = TRUE \/ NoDangling(files'),
           "row" \in files'["registry"] => site.global,
           outcome' = "failed" /\ run.name \in {"install", "import", "export"} =>
               Same(files', start.files)
    PROVE  FilesRight'
<1>1. FilesRight /\ outcome = "none" /\ archive = start.archive
  BY RunningFiles
<1>2. Building' /\ Restoring'
  BY DEF Building, Restoring
<1>3. Snapshot'
  BY <1>1 DEF Snapshot
<1>4. Uninstalling'
  BY <1>1 DEF FilesRight, Uninstalling
<1>5. Registered'
  BY <1>1 DEF FilesRight, Registered, NoDangling
<1>6. FilesBack'
  BY DEF FilesBack
<1> QED
  BY <1>2, <1>3, <1>4, <1>5, <1>6 DEF FilesRight

LEMMA StartFiles ==
    ASSUME IInv, NEW c \in Commands, Start(c)
    PROVE  FilesTyped' /\ FilesRight'
<1>1. /\ pc = "idle" /\ pc' = "check" /\ UNCHANGED <<files, snap, archive, site, todo, torn>>
      /\ start'.files = files /\ start'.archive = archive /\ outcome' = "none"
  BY DEF Start
<1>2. FilesTyped /\ FilesRight
  BY DEF IInv, TypesRight, FilesTyped
<1>3. FilesTyped'
  BY <1>1, <1>2 DEF FilesTyped
<1>4. Building' /\ Restoring' /\ FilesBack' /\ Snapshot'
  BY <1>1 DEF Building, Restoring, FilesBack, Snapshot
<1>5. Uninstalling' /\ Registered'
  BY <1>1, <1>2 DEF FilesRight, Uninstalling, Registered
<1> QED
  BY <1>3, <1>4, <1>5 DEF FilesRight

\* Where a command is before it touches a file.
Early == {"copy", "write", "unpack", "aside", "place", "edit", "build"}

LEMMA CheckFiles ==
    ASSUME IInv, Check
    PROVE  FilesTyped' /\ FilesRight'
<1>1. /\ pc = "check" /\ pc' = FirstStep /\ snap' = files
      /\ UNCHANGED <<files, archive, site, run, todo, start, outcome, torn>>
  BY DEF Check
<1>2. /\ FilesTyped /\ FilesRight /\ outcome = "none" /\ archive = start.archive
      /\ torn \/ NoDangling(files)
  BY <1>1, RunningFiles
<1>3. FilesTyped'
  BY <1>1, <1>2 DEF FilesTyped
<1>4. /\ pc' \in {"copy", "write", "unpack", "pack", "edit", "build", "unregister", "untui"}
      /\ pc' = "untui" => ~site.global
  BY <1>1 DEF FirstStep
<1>5. Building' /\ Restoring'
  BY <1>4 DEF Building, Restoring
<1>6. FilesBack' /\ Snapshot'
  BY <1>1, <1>2, <1>4 DEF FilesBack, FilesRight, Snapshot, Replacing
<1>7. Uninstalling'
  BY <1>1, <1>2, <1>4 DEF FilesRight, Uninstalling
<1>8. Registered'
  BY <1>1, <1>2 DEF FilesRight, Registered
<1> QED
  BY <1>3, <1>5, <1>6, <1>7, <1>8 DEF FilesRight

LEMMA EarlyFiles ==
    ASSUME IInv, \/ CopyBackup \/ WriteConfig \/ WriteFails \/ Unpack \/ SetAside
                 \/ PlaceImported \/ EditModels
    PROVE  FilesTyped' /\ FilesRight'
<1>1. /\ pc \in Early /\ pc' \in {"write", "build", "undo", "aside", "place"}
      /\ UNCHANGED <<files, archive, site, todo, start, outcome, torn>> /\ run'.name = run.name
      /\ snap' \in {snap, files}
  BY DEF CopyBackup, WriteConfig, WriteFails, Unpack, SetAside, PlaceImported, EditModels, GoTo,
         Early, IInv, TypesRight, Frame
<1>2. /\ FilesTyped /\ FilesRight /\ outcome = "none" /\ archive = start.archive
      /\ torn \/ NoDangling(files)
  BY <1>1, RunningFiles DEF Early
<1>3. files = snap
  BY <1>1, <1>2 DEF FilesRight, Snapshot, Early
<1>4. snap' = snap /\ files' = files
  BY <1>1, <1>3
<1>5. FilesTyped'
  BY <1>1, <1>2, <1>4 DEF FilesTyped
<1>6. Building' /\ Restoring'
  BY <1>1, <1>3, <1>4 DEF Building, Restoring
<1>7. FilesBack'
  BY <1>1, <1>2 DEF FilesBack
<1>8. Snapshot'
  BY <1>1, <1>2, <1>3, <1>4 DEF FilesRight, Snapshot, Replacing, Early
<1>9. Uninstalling' /\ Registered'
  BY <1>1, <1>2, <1>4 DEF FilesRight, Uninstalling, Registered
<1> QED
  BY <1>5, <1>6, <1>7, <1>8, <1>9 DEF FilesRight

LEMMA PlanFiles ==
    ASSUME IInv, Plan
    PROVE  FilesTyped' /\ FilesRight'
<1>1. /\ pc = "build" /\ pc' = "emit" /\ todo' = WriteOrder /\ NoLinkInTheWay /\ Buildable
      /\ UNCHANGED <<files, archive, site, run, snap, start, outcome, torn>>
  BY DEF Plan, GoTo
<1>2. /\ FilesTyped /\ FilesRight /\ outcome = "none" /\ archive = start.archive
      /\ torn \/ NoDangling(files)
  BY <1>1, RunningFiles
<1>3. files = snap
  BY <1>1, <1>2 DEF FilesRight, Snapshot
<1>4. WriteOrder \in Seq(Written) /\ Len(WriteOrder) = 5 /\ WriteOrder[3] = "plugin"
      /\ WriteOrder[4] = "module"
  BY DEF WriteOrder, Written, RuntimeFiles
<1>5. FilesTyped'
  BY <1>1, <1>2, <1>4 DEF FilesTyped
<1>6. Building'
  <2>1. \A f \in {"plugin", "module"} : f \in ToDo'
    BY <1>1, <1>4 DEF ToDo, Items
  <2>2. Disturbed
    BY <1>1, <1>3 DEF Disturbed, NoLinkInTheWay
  <2>3. Disturbed'
    BY <1>1, <2>2 DEF Disturbed, IsCut
  <2>4. Whole'
    BY <1>1 DEF Whole, IsCut, Buildable
  <2> QED
    BY <1>1, <2>1, <2>3, <2>4 DEF Building, Suffixes
<1>7. Restoring' /\ FilesBack'
  BY <1>1, <1>2 DEF Restoring, FilesBack
<1>8. Snapshot'
  BY <1>1, <1>2 DEF FilesRight, Snapshot
<1>9. Uninstalling' /\ Registered'
  BY <1>1, <1>2 DEF FilesRight, Uninstalling, Registered
<1> QED
  BY <1>5, <1>6, <1>7, <1>8, <1>9 DEF FilesRight

LEMMA TailItems ==
    ASSUME NEW S, NEW s \in Seq(S), s # << >>
    PROVE  /\ Tail(s) \in Seq(S) /\ Head(s) \in S
           /\ Items(s) = {Head(s)} \cup Items(Tail(s))
<1>1. /\ Tail(s) \in Seq(S) /\ Len(Tail(s)) = Len(s) - 1 /\ Len(s) \in Nat \ {0}
      /\ Head(s) = s[1] /\ \A i \in 1..Len(Tail(s)) : Tail(s)[i] = s[i + 1]
      /\ \A i \in 1..Len(s) : s[i] \in S
  OBVIOUS
<1>2. Head(s) \in S
  BY <1>1
<1>3. ASSUME NEW x \in Items(s) PROVE x \in {Head(s)} \cup Items(Tail(s))
  <2>1. PICK i \in 1..Len(s) : x = s[i]
    BY <1>3 DEF Items
  <2>2. CASE i = 1
    BY <1>1, <2>1, <2>2
  <2>3. CASE i # 1
    <3>1. i - 1 \in 1..Len(Tail(s)) /\ (i - 1) + 1 = i
      BY <1>1, <2>1, <2>3
    <3>2. Tail(s)[i - 1] = x
      BY <1>1, <2>1, <3>1
    <3> QED
      BY <3>1, <3>2 DEF Items
  <2> QED
    BY <2>2, <2>3
<1>4. ASSUME NEW x \in {Head(s)} \cup Items(Tail(s)) PROVE x \in Items(s)
  <2>1. CASE x = Head(s)
    <3>1. 1 \in 1..Len(s) /\ x = s[1]
      BY <1>1, <2>1
    <3> QED
      BY <3>1 DEF Items
  <2>2. CASE x \in Items(Tail(s))
    <3>1. PICK i \in 1..Len(Tail(s)) : x = Tail(s)[i]
      BY <2>2 DEF Items
    <3>2. i + 1 \in 1..Len(s) /\ x = s[i + 1]
      BY <1>1, <3>1
    <3> QED
      BY <3>2 DEF Items
  <2> QED
    BY <1>4, <2>1, <2>2
<1> QED
  BY <1>1, <1>2, <1>3, <1>4

LEMMA SuffixSteps ==
    ASSUME NEW s \in Suffixes, s # << >>
    PROVE  /\ Tail(s) \in Suffixes
           /\ Head(s) \in {"agent", "package", "plugin", "module", "tui"}
           /\ Head(s) = "tui" => Items(s) = {"tui"}
<1>1. /\ Tail(s) \in Suffixes
      /\ Head(s) \in {"agent", "package", "plugin", "module", "tui"}
      /\ Head(s) = "tui" => s = <<"tui">>
  <2>1. CASE s = WriteOrder
    <3>1. Head(s) = "agent" /\ Tail(s) = <<"package", "plugin", "module", "tui">>
      BY <2>1 DEF WriteOrder
    <3> QED
      BY <2>1, <3>1 DEF Suffixes
  <2>2. CASE s = <<"package", "plugin", "module", "tui">>
    <3>1. Head(s) = "package" /\ Tail(s) = <<"plugin", "module", "tui">>
      BY <2>2
    <3> QED
      BY <2>2, <3>1 DEF Suffixes
  <2>3. CASE s = <<"plugin", "module", "tui">>
    <3>1. Head(s) = "plugin" /\ Tail(s) = <<"module", "tui">>
      BY <2>3
    <3> QED
      BY <2>3, <3>1 DEF Suffixes
  <2>4. CASE s = <<"module", "tui">>
    <3>1. Head(s) = "module" /\ Tail(s) = <<"tui">>
      BY <2>4
    <3> QED
      BY <2>4, <3>1 DEF Suffixes
  <2>5. CASE s = <<"tui">>
    <3>1. Head(s) = "tui" /\ Tail(s) = << >>
      BY <2>5
    <3> QED
      BY <2>5, <3>1 DEF Suffixes
  <2> QED
    BY <2>1, <2>2, <2>3, <2>4, <2>5 DEF Suffixes
<1>2. Items(<<"tui">>) = {"tui"}
  BY DEF Items
<1> QED
  BY <1>1, <1>2

LEMMA EmitFiles ==
    ASSUME IInv, Emit
    PROVE  FilesTyped' /\ FilesRight'
<1> DEFINE f == Head(todo)
<1>1. /\ pc = "emit" /\ pc' = "emit" /\ todo # << >> /\ todo' = Tail(todo)
      /\ files' = Write(files, f, Generated(f))
      /\ UNCHANGED <<archive, site, run, snap, start, outcome, torn>>
  BY DEF Emit, GoTo, Write
<1>2. /\ FilesTyped /\ FilesRight /\ outcome = "none" /\ archive = start.archive
      /\ torn \/ NoDangling(files)
  BY <1>1, RunningFiles
<1>3. /\ todo \in Suffixes /\ Disturbed /\ Whole
      /\ \A g \in {"plugin", "module"} : g \in ToDo \/ files[g] # {}
  BY <1>1, <1>2 DEF FilesRight, Building
<1>4. /\ Tail(todo) \in Suffixes /\ f \in {"agent", "package", "plugin", "module", "tui"}
      /\ f = "tui" => ToDo = {"tui"}
  BY <1>1, <1>3, SuffixSteps DEF ToDo
<1>5. /\ Tail(todo) \in Seq(Written) /\ ToDo = {f} \cup ToDo'
  BY <1>1, <1>2, TailItems DEF FilesTyped, ToDo
<1>6. disk[Live].settings \notin {"mine", "edit"}
  BY LiveIsPlace DEF IInv, TypesRight, Disks, Sound
<1> HIDE DEF f
<1>7. /\ f = "agent" => Generated(f) = {disk[Live].settings}
      /\ f = "package" => Generated(f) = files["package"] \cup {"deps"}
      /\ f = "tui" => Generated(f) = snap["tui"] \cup {"row"}
      /\ f \in {"plugin", "module"} => Generated(f) = {"current"}
  BY DEF Generated, RenderedAgent, MergedPackage, MergedTui, CopiedModules
<1>8. /\ SoundFiles(files') /\ files'[f] = Generated(f)
      /\ \A g \in RuntimeFiles : g # f => files'[g] = files[g]
  <2>1. f \in RuntimeFiles
    BY <1>4 DEF RuntimeFiles
  <2>2. f \in {"plugin", "module", "retired"} => Generated(f) \cap {"mine", "edit"} = {}
    BY <1>4, <1>7
  <2>3. f \in {"agent", "other"} => "edit" \notin Generated(f)
    BY <1>4, <1>6, <1>7
  <2> QED
    BY <1>1, <1>2, <2>1, <2>2, <2>3, FileWritten DEF FilesTyped
<1>9. FilesTyped'
  BY <1>1, <1>2, <1>5, <1>8 DEF FilesTyped
<1>10. Disturbed'
  <2>1. files'["agent"] = snap["agent"] \/ Marked(files'["agent"]) \/ files'["agent"] = {"cut"}
    BY <1>3, <1>6, <1>7, <1>8 DEF Disturbed, Marked, IsCut, RuntimeFiles
  <2>2. /\ files'["other"] \in {snap["other"], {}} /\ files'["retired"] \in {snap["retired"], {}}
        /\ files'["registry"] = snap["registry"]
    BY <1>3, <1>4, <1>8 DEF Disturbed, RuntimeFiles
  <2>3. \A g \in {"package", "tui"} : files'[g] \cap {"mine", "edit"} = snap[g] \cap {"mine", "edit"}
    BY <1>3, <1>7, <1>8 DEF Disturbed, Whole, RuntimeFiles
  <2> QED
    BY <1>1, <1>3, <2>1, <2>2, <2>3 DEF Disturbed, IsCut
<1>16. Whole'
  <2>1. ASSUME NEW g \in {"package", "tui"} PROVE files'[g] # {"cut"}
    <3>1. CASE g = f
      BY <1>7, <1>8, <2>1, <3>1
    <3>2. CASE g # f
      BY <1>3, <1>8, <2>1, <3>2 DEF Whole, IsCut, RuntimeFiles
    <3> QED
      BY <3>1, <3>2
  <2> QED
    BY <2>1 DEF Whole, IsCut
<1>11. \A g \in {"plugin", "module"} : g \in ToDo' \/ files'[g] # {}
  BY <1>3, <1>5, <1>7, <1>8 DEF RuntimeFiles
<1>12. Building'
  BY <1>1, <1>4, <1>10, <1>11, <1>16 DEF Building
<1>13. Restoring' /\ FilesBack' /\ Snapshot'
  BY <1>1, <1>2 DEF Restoring, FilesBack, Snapshot, FilesRight
<1>14. Uninstalling'
  <2>1. files'["registry"] = files["registry"]
    BY <1>4, <1>8 DEF RuntimeFiles
  <2> QED
    BY <1>1, <1>2, <2>1 DEF FilesRight, Uninstalling
<1>15. Registered'
  <2>1. SUFFICES ASSUME NoDangling(files) PROVE NoDangling(files')
    BY <1>1, <1>2 DEF FilesRight, Registered, NoDangling
  <2>2. ASSUME "row" \in files'["tui"] PROVE files'["module"] # {}
    <3>1. CASE f = "tui"
      BY <1>3, <1>4, <1>8, <3>1 DEF RuntimeFiles
    <3>2. CASE f # "tui"
      BY <1>7, <1>8, <2>1, <2>2, <3>2 DEF RuntimeFiles, NoDangling
    <3> QED
      BY <3>1, <3>2
  <2>3. ASSUME "row" \in files'["registry"] PROVE files'["plugin"] # {}
    BY <1>4, <1>7, <1>8, <2>1, <2>3 DEF RuntimeFiles, NoDangling
  <2> QED
    BY <2>2, <2>3 DEF NoDangling
<1> QED
  BY <1>9, <1>12, <1>13, <1>14, <1>15 DEF FilesRight

LEMMA NoToDo == << >> \in Seq(Written)
  OBVIOUS

\* What a write in place that is cut short leaves.
LEMMA CutFiles ==
    ASSUME IInv, CutShort
    PROVE  /\ SoundFiles(files')
           /\ NoDangling(files) => NoDangling(files')
           /\ "row" \in files'["registry"] => "row" \in files["registry"]
           /\ \A g \in RuntimeFiles : files'[g] = files[g] \/ files'[g] = {"cut"}
           /\ pc \notin {"emit", "rewrite", "restore"} => files' = files
           /\ pc = "emit" => \A g \in {"other", "retired", "registry"} : files'[g] = files[g]
<1>1. SoundFiles(files) /\ Building
  BY DEF IInv, TypesRight, FilesRight
<1>2. CASE files' = files
  BY <1>1, <1>2
<1>3. ASSUME NEW f \in InPlace, files' = [files EXCEPT ![f] = {"cut"}]
      PROVE  /\ SoundFiles(files')
             /\ NoDangling(files) => NoDangling(files')
             /\ "row" \in files'["registry"] => "row" \in files["registry"]
             /\ \A g \in RuntimeFiles : files'[g] = files[g] \/ files'[g] = {"cut"}
             /\ pc \notin {"emit", "rewrite", "restore"} => files' = files
             /\ pc = "emit" => \A g \in {"other", "retired", "registry"} : files'[g] = files[g]
  <2>1. pc \in {"emit", "rewrite", "restore"}
    BY <1>3 DEF InPlace
  <2>2. pc = "emit" => f \in {"agent", "package", "plugin", "module", "tui"}
    <3>1. SUFFICES ASSUME pc = "emit" PROVE f \in {"agent", "package", "plugin", "module", "tui"}
      OBVIOUS
    <3>2. todo \in Suffixes /\ todo # << >> /\ f = Head(todo)
      BY <1>1, <1>3, <3>1 DEF Building, InPlace
    <3> QED
      BY <3>2, SuffixSteps
  <2>3. f \in RuntimeFiles
    BY <1>3, <2>1, <2>2 DEF InPlace, RuntimeFiles
  <2>4. /\ SoundFiles(files') /\ files'[f] = {"cut"}
        /\ \A g \in RuntimeFiles : g # f => files'[g] = files[g]
    <3>1. files' = Write(files, f, {"cut"})
      BY <1>3 DEF Write
    <3> QED
      BY <1>1, <2>3, <3>1, FileWritten
  <2>5. NoDangling(files) => NoDangling(files')
    BY <2>4 DEF NoDangling, RuntimeFiles
  <2> QED
    BY <2>1, <2>2, <2>4, <2>5 DEF RuntimeFiles
<1> QED
  BY <1>2, <1>3 DEF CutShort

\* A failed step: where the rollback begins, or nothing has been touched.
LEMMA UnwindFiles ==
    ASSUME IInv, Unwind, CutShort, torn' = torn,
           pc \in {"copy", "unpack", "aside", "place", "pack", "build", "emit", "register"}
                     \cup UninstallSteps
    PROVE  FilesTyped' /\ FilesRight'
<1>1. /\ \/ /\ pc' = "undo" /\ run.name \in Replacing
            /\ pc \notin {"copy", "unpack", "aside"} \cup UninstallSteps
         \/ pc' = "revert" /\ run.name = "model"
         \/ pc' = "idle" /\ outcome' = "failed"
            /\ (run.name \in Replacing => pc \in {"copy", "unpack", "aside", "place"})
      /\ todo' = << >> /\ UNCHANGED <<archive, site, run, snap, start>>
      /\ pc' # "idle" => UNCHANGED outcome
  BY Unwinding
<1>2. /\ FilesTyped /\ FilesRight /\ Control /\ outcome = "none" /\ archive = start.archive
      /\ torn \/ NoDangling(files)
  BY RunningFiles DEF UninstallSteps
<1>7. /\ SoundFiles(files')
      /\ NoDangling(files) => NoDangling(files')
      /\ "row" \in files'["registry"] => "row" \in files["registry"]
      /\ \A g \in RuntimeFiles : files'[g] = files[g] \/ files'[g] = {"cut"}
      /\ pc \notin {"emit", "rewrite"} => files' = files
      /\ pc = "emit" => \A g \in {"other", "retired", "registry"} : files'[g] = files[g]
  BY CutFiles DEF UninstallSteps
<1>3. FilesTyped'
  BY <1>1, <1>2, <1>7, NoToDo DEF FilesTyped
<1>4. CASE pc' = "undo"
  <2>1. pc \in {"place", "build", "emit", "register"} /\ run.name \in Replacing
    BY <1>1, <1>2, <1>4 DEF Control, Replacing
  <2>2. (files = snap /\ files' = files) \/ Disturbed
    BY <1>2, <1>7, <2>1 DEF FilesRight, Snapshot, Building
  <2>3. files' = snap' \/ Disturbed'
    <3>1. SUFFICES ASSUME Disturbed PROVE Disturbed'
      BY <1>1, <2>2
    <3>2. /\ files'["other"] = files["other"] /\ files'["retired"] = files["retired"]
          /\ files'["registry"] = files["registry"]
      BY <1>7, <2>1
    <3>3. \A g \in {"agent", "package", "tui"} : files'[g] = files[g] \/ files'[g] = {"cut"}
      BY <1>7 DEF RuntimeFiles
    <3> QED
      BY <1>1, <3>1, <3>2, <3>3 DEF Disturbed, IsCut
  <2>4. Restoring'
    BY <1>4, <2>3 DEF Restoring
  <2>5. Building' /\ FilesBack' /\ Snapshot'
    BY <1>1, <1>2, <1>4, <2>1 DEF FilesBack, Building, FilesRight, Snapshot
  <2>6. Uninstalling' /\ Registered'
    BY <1>1, <1>2, <1>4, <1>7 DEF FilesRight, Uninstalling, Registered, NoDangling
  <2> QED
    BY <1>3, <2>4, <2>5, <2>6 DEF FilesRight
<1>5. CASE pc' = "revert"
  <2>1. Restoring' /\ Building' /\ FilesBack'
    BY <1>1, <1>2, <1>5 DEF Restoring, FilesBack, Building
  <2>2. Snapshot'
    BY <1>1, <1>2, <1>5 DEF FilesRight, Snapshot, Replacing
  <2>3. Uninstalling' /\ Registered'
    BY <1>1, <1>2, <1>5, <1>7 DEF FilesRight, Uninstalling, Registered, NoDangling
  <2> QED
    BY <1>3, <2>1, <2>2, <2>3 DEF FilesRight
<1>6. CASE pc' = "idle"
  <2>1. run.name \in {"install", "import", "export"} => files' = start.files
    <3>1. CASE run.name \in Replacing
      BY <1>1, <1>2, <1>6, <1>7, <3>1 DEF FilesRight, Snapshot
    <3>2. CASE run.name = "export"
      <4>1. pc = "pack"
        BY <1>2, <3>2 DEF Control, Replacing, UninstallSteps
      <4> QED
        BY <1>2, <1>7, <3>2, <4>1 DEF FilesRight, Snapshot
    <3> QED
      BY <3>1, <3>2 DEF Replacing
  <2>2. torn' = TRUE \/ NoDangling(files')
    BY <1>2, <1>7 DEF IInv, TypesRight, Frame
  <2>3. "row" \in files'["registry"] => site.global
    BY <1>2, <1>7 DEF FilesRight, Uninstalling
  <2>4. pc # "idle"
    BY DEF UninstallSteps
  <2>5. FilesRight'
    BY <1>1, <1>6, <2>1, <2>2, <2>3, <2>4, StoppedFiles DEF Same
  <2> QED
    BY <1>3, <2>5
<1> QED
  BY <1>1, <1>4, <1>5, <1>6

\* The commands that end without touching a file.
LEMMA EndingFiles ==
    ASSUME IInv, Refuse \/ UnpackRefused \/ Pack \/ EditFails \/ Revert \/ Removed
    PROVE  FilesTyped' /\ FilesRight'
<1>1. /\ pc # "idle" /\ pc' = "idle" /\ UNCHANGED <<files, site, run, snap, start, torn>>
      /\ outcome' = "ok" \/ archive' = archive
      /\ todo' \in {todo, << >>} /\ pc # "restore"
  BY DEF Refuse, UnpackRefused, Pack, EditFails, Revert, Removed, Ends
<1>2. /\ FilesTyped /\ FilesRight /\ Control
      /\ torn \/ NoDangling(files)
  BY <1>1, RunningFiles
<1>3. FilesTyped'
  BY <1>1, <1>2, NoToDo DEF FilesTyped
<1>4. outcome' = "failed" /\ run.name \in {"install", "import", "export"} => files' = start.files
  <2>1. SUFFICES ASSUME outcome' = "failed", run.name \in {"install", "import", "export"}
                 PROVE  files' = start.files
    OBVIOUS
  <2>2. pc \in {"check", "unpack"}
    BY <1>2, <2>1 DEF Refuse, UnpackRefused, Pack, EditFails, Revert, Removed, Ends, Control,
                      UninstallSteps
  <2> QED
    BY <1>1, <1>2, <2>1, <2>2 DEF FilesRight, Snapshot, Replacing, Control
<1>5. torn' = TRUE \/ NoDangling(files')
  BY <1>1, <1>2 DEF IInv, TypesRight, Frame, NoDangling
<1>6. "row" \in files'["registry"] => site.global
  BY <1>1, <1>2 DEF FilesRight, Uninstalling
<1>7. FilesRight'
  BY <1>1, <1>4, <1>5, <1>6, StoppedFiles DEF Same
<1> QED
  BY <1>3, <1>7

\* A rollback that stops, and a kill.
LEMMA BrokenFiles ==
    ASSUME IInv, UndoFails \/ RestoreFails \/ Kill
    PROVE  FilesTyped' /\ FilesRight'
<1>1. /\ pc # "idle" /\ pc' = "idle" /\ CutShort /\ UNCHANGED <<archive, site, run, snap, start>>
      /\ todo' = << >> /\ outcome' # "failed"
      /\ torn' = TRUE \/ (pc # "restore" /\ torn' = torn)
  BY DEF UndoFails, RestoreFails, Kill, Ends, CutShort, IInv, TypesRight, Frame
<1>2. FilesTyped /\ FilesRight /\ (pc # "restore" => torn \/ NoDangling(files))
  BY <1>1, RunningFiles
<1>3. /\ SoundFiles(files')
      /\ NoDangling(files) => NoDangling(files')
      /\ "row" \in files'["registry"] => "row" \in files["registry"]
  BY <1>1, CutFiles
<1>4. FilesTyped'
  BY <1>1, <1>2, <1>3, NoToDo DEF FilesTyped
<1>5. torn' = TRUE \/ NoDangling(files')
  BY <1>1, <1>2, <1>3 DEF IInv, TypesRight, Frame
<1>6. "row" \in files'["registry"] => site.global
  BY <1>2, <1>3 DEF FilesRight, Uninstalling
<1>7. FilesRight'
  BY <1>1, <1>5, <1>6, StoppedFiles
<1> QED
  BY <1>4, <1>7

LEMMA SweepFiles ==
    ASSUME IInv, Sweep
    PROVE  FilesTyped' /\ FilesRight'
<1> DEFINE left == IF Marked(files["other"]) THEN {} ELSE files["other"]
<1> DEFINE swept == Write(files, "other", left)
<1>1. /\ pc = "emit" /\ todo = << >> /\ files' = Write(swept, "retired", {})
      /\ UNCHANGED <<archive, site, run, snap, start, torn>>
  BY DEF Sweep, GoTo, Ends, Write
<1>2. /\ FilesTyped /\ FilesRight /\ outcome = "none" /\ archive = start.archive
      /\ torn \/ NoDangling(files)
  BY <1>1, RunningFiles
<1>3. Disturbed /\ \A f \in {"plugin", "module"} : files[f] # {}
  <2>1. ToDo = {}
    BY <1>1 DEF ToDo, Items
  <2> QED
    BY <1>1, <1>2, <2>1 DEF FilesRight, Building
<1>4. "edit" \notin left /\ left \in {files["other"], {}}
  BY <1>2 DEF FilesTyped, SoundFiles
<1> HIDE DEF left
<1>5. /\ SoundFiles(swept) /\ swept["other"] = left
      /\ \A g \in RuntimeFiles : g # "other" => swept[g] = files[g]
  BY <1>2, <1>4, FileWritten DEF FilesTyped, RuntimeFiles
<1> HIDE DEF swept
<1>6. /\ SoundFiles(files') /\ files'["retired"] = {} /\ files'["other"] = left
      /\ \A g \in RuntimeFiles : g \notin {"other", "retired"} => files'[g] = files[g]
  BY <1>1, <1>5, FileWritten DEF RuntimeFiles
<1>7. NoDangling(files) => NoDangling(files')
  BY <1>6 DEF NoDangling, RuntimeFiles
<1>8. "row" \in files'["registry"] => site.global
  BY <1>2, <1>6 DEF FilesRight, Uninstalling, RuntimeFiles
<1>9. CASE pc' = "idle" /\ outcome' = "ok" /\ todo' = << >>
  <2>1. FilesRight'
    BY <1>1, <1>2, <1>7, <1>8, <1>9, StoppedFiles DEF IInv, TypesRight, Frame
  <2> QED
    BY <1>1, <1>2, <1>6, <1>9, <2>1, NoToDo DEF FilesTyped
<1>10. CASE pc' = "register" /\ outcome' = outcome /\ todo' = todo
  <2>1. FilesTyped'
    BY <1>1, <1>2, <1>6, <1>10 DEF FilesTyped
  <2>2. Building'
    <3>1. Disturbed'
      BY <1>1, <1>3, <1>4, <1>6 DEF Disturbed, IsCut, RuntimeFiles
    <3>2. \A f \in {"plugin", "module"} : files'[f] # {}
      BY <1>3, <1>6 DEF RuntimeFiles
    <3> QED
      BY <1>10, <3>1, <3>2 DEF Building
  <2>3. Restoring' /\ FilesBack' /\ Snapshot'
    BY <1>1, <1>2, <1>10 DEF Restoring, FilesBack, FilesRight, Snapshot
  <2>4. Uninstalling'
    BY <1>1, <1>2, <1>8, <1>10 DEF FilesRight, Uninstalling
  <2>5. Registered'
    BY <1>1, <1>2, <1>7, <1>10 DEF FilesRight, Registered, NoDangling
  <2> QED
    BY <2>1, <2>2, <2>3, <2>4, <2>5 DEF FilesRight
<1> QED
  BY <1>9, <1>10 DEF Sweep, Ends, GoTo

LEMMA RegisterFiles ==
    ASSUME IInv, Register
    PROVE  FilesTyped' /\ FilesRight'
<1>0. pc = "register"
  BY DEF Register
<1>1. /\ FilesTyped /\ FilesRight /\ Control
      /\ torn \/ NoDangling(files)
  BY <1>0, RunningFiles
<1>2. CASE Unwind /\ UNCHANGED files
  BY <1>0, <1>2, UnwindFiles DEF Register, CutShort
<1>3. CASE Ends("ok", disk, FALSE) /\ files' = Write(files, "registry", files["registry"] \cup {"row"})
  <2>1. /\ pc' = "idle" /\ outcome' = "ok" /\ todo' = << >>
        /\ UNCHANGED <<archive, site, run, snap, start, torn>>
    BY <1>3 DEF Register, Ends
  <2>2. /\ SoundFiles(files') /\ files'["registry"] = files["registry"] \cup {"row"}
        /\ \A g \in RuntimeFiles : g # "registry" => files'[g] = files[g]
    BY <1>1, <1>3, FileWritten DEF FilesTyped, RuntimeFiles
  <2>3. files["plugin"] # {}
    BY <1>0, <1>1 DEF FilesRight, Building
  <2>4. NoDangling(files) => NoDangling(files')
    BY <2>2, <2>3 DEF NoDangling, RuntimeFiles
  <2>5. site.global
    BY <1>0, <1>1 DEF Control
  <2>6. torn' = TRUE \/ NoDangling(files')
    BY <1>1, <2>1, <2>4 DEF IInv, TypesRight, Frame
  <2>7. FilesRight'
    BY <1>0, <2>1, <2>5, <2>6, StoppedFiles
  <2>8. FilesTyped'
    BY <1>1, <2>1, <2>2, NoToDo DEF FilesTyped
  <2> QED
    BY <2>7, <2>8
<1> QED
  BY <1>2, <1>3 DEF Register, Write

LEMMA RestoreItems ==
    /\ RestoreOrder \in Seq(Written)
    /\ {"new agents", "new modules", "package", "tui", "plugin", "module", "retired", "agent", "other"}
           \subseteq Items(RestoreOrder)
<1>1. RestoreOrder \in Seq(Written)
  BY DEF RestoreOrder, Written, RuntimeFiles
<1>2. /\ Len(RestoreOrder) = 9
      /\ RestoreOrder[1] = "new agents" /\ RestoreOrder[2] = "new modules"
      /\ RestoreOrder[3] = "package" /\ RestoreOrder[4] = "tui" /\ RestoreOrder[5] = "plugin"
      /\ RestoreOrder[6] = "module" /\ RestoreOrder[7] = "retired" /\ RestoreOrder[8] = "agent"
      /\ RestoreOrder[9] = "other"
  BY DEF RestoreOrder
<1>3. \A i \in 1..9 : RestoreOrder[i] \in Items(RestoreOrder)
  BY <1>2 DEF Items
<1> HIDE DEF RestoreOrder
<1>4. \A i \in 1..9 : RestoreOrder[i] \in Items(RestoreOrder)
  BY <1>3
<1>5. /\ {RestoreOrder[1], RestoreOrder[2], RestoreOrder[3]} \subseteq Items(RestoreOrder)
      /\ {RestoreOrder[4], RestoreOrder[5], RestoreOrder[6]} \subseteq Items(RestoreOrder)
      /\ {RestoreOrder[7], RestoreOrder[8], RestoreOrder[9]} \subseteq Items(RestoreOrder)
  BY <1>4
<1> QED
  BY <1>1, <1>2, <1>5

\* The rollback of the configuration hands over to that of the files.
LEMMA UndoFiles ==
    ASSUME IInv, Preserve \/ PutBack
    PROVE  FilesTyped' /\ FilesRight'
<1>1. /\ pc \in {"undo", "putback"} /\ pc' \in {"putback", "restore"}
      /\ todo' \in {<< >>, RestoreOrder} /\ (pc' = "restore" => todo' = RestoreOrder)
      /\ UNCHANGED <<files, archive, site, run, snap, start, outcome, torn>>
  BY DEF Preserve, PutBack, GoTo
<1>2. /\ FilesTyped /\ FilesRight /\ outcome = "none" /\ archive = start.archive
      /\ torn \/ NoDangling(files)
  BY <1>1, RunningFiles
<1>3. FilesTyped'
  BY <1>1, <1>2, NoToDo, RestoreItems DEF FilesTyped
<1>4. files = snap \/ Disturbed
  BY <1>1, <1>2 DEF FilesRight, Restoring
<1>5. files' = snap' \/ Disturbed'
  BY <1>1, <1>4 DEF Disturbed, IsCut
<1>6. Restoring'
  <2>1. ASSUME pc' = "restore"
        PROVE  {"new agents", "new modules", "package", "tui", "plugin", "module", "retired", "agent",
                "other"} \subseteq ToDo'
    BY <1>1, <2>1, RestoreItems DEF ToDo
  <2> QED
    BY <1>1, <1>5, <2>1 DEF Restoring
<1>7. Building' /\ FilesBack' /\ Snapshot'
  BY <1>1, <1>2 DEF Building, FilesBack, FilesRight, Snapshot
<1>8. Uninstalling' /\ Registered'
  BY <1>1, <1>2 DEF FilesRight, Uninstalling, Registered
<1> QED
  BY <1>3, <1>6, <1>7, <1>8 DEF FilesRight

\* What one step of the rollback leaves in each file.
LEMMA RestoredFile ==
    ASSUME SoundFiles(files), SoundFiles(snap), Frame, NEW h \in Written
    PROVE  /\ SoundFiles(Restored(h))
           /\ \A g \in RuntimeFiles : Restored(h)[g] =
                 IF \/ /\ h = "new agents" /\ g \in {"agent", "other"}
                       /\ snap[g] = {} /\ Marked(files[g])
                    \/ h = "new modules" /\ g \in {"module", "retired"} /\ snap[g] = {}
                 THEN {}
                 ELSE IF /\ g = h /\ h \notin site.linked
                         /\ ~(h \in {"agent", "other", "module", "retired"} /\ snap[h] = {})
                      THEN snap[g] ELSE files[g]
<1> DEFINE Agents(g) == IF snap[g] = {} /\ Marked(files[g]) THEN {} ELSE files[g]
<1> DEFINE Modules(g) == IF snap[g] = {} THEN {} ELSE files[g]
<1>1. CASE h = "new agents"
  <2> DEFINE w == Write(files, "agent", Agents("agent"))
  <2>1. Restored(h) = Write(w, "other", Agents("other"))
    <3>1. w["other"] = files["other"]
      BY DEF Write, SoundFiles, RuntimeFiles
    <3>2. h # "new modules" /\ h \notin {"agent", "other", "module", "retired"} /\ h \notin site.linked
      BY <1>1 DEF Frame
    <3>3. Restored(h) = [files EXCEPT !["agent"] = Agents("agent"),
                                      !["other"] = IF snap["other"] = {} /\ Marked(@) THEN {} ELSE @]
      BY <1>1, <3>2 DEF Restored
    <3>4. Restored(h) = Write(w, "other", IF snap["other"] = {} /\ Marked(w["other"])
                                         THEN {} ELSE w["other"])
      BY <3>3 DEF Write
    <3> QED
      BY <3>1, <3>4
  <2>2. "edit" \notin Agents("agent") /\ "edit" \notin Agents("other")
    BY DEF SoundFiles
  <2> HIDE DEF Agents
  <2>3. /\ SoundFiles(w) /\ w["agent"] = Agents("agent")
        /\ \A g \in RuntimeFiles : g # "agent" => w[g] = files[g]
    BY <2>2, FileWritten DEF RuntimeFiles
  <2> HIDE DEF w
  <2>4. /\ SoundFiles(Restored(h)) /\ Restored(h)["other"] = Agents("other")
        /\ \A g \in RuntimeFiles : g # "other" => Restored(h)[g] = w[g]
    <3>1. "other" \in RuntimeFiles /\ "other" \notin {"plugin", "module", "retired"}
      BY DEF RuntimeFiles
    <3> QED
      BY <2>1, <2>2, <2>3, <3>1, FileWritten
  <2>5. \A g \in RuntimeFiles :
           Restored(h)[g] = IF g \in {"agent", "other"} THEN Agents(g) ELSE files[g]
    BY <2>3, <2>4 DEF RuntimeFiles
  <2>6. h \notin RuntimeFiles
    BY <1>1 DEF RuntimeFiles
  <2> QED
    BY <1>1, <2>4, <2>5, <2>6 DEF Agents
<1>2. CASE h = "new modules"
  <2> DEFINE w == Write(files, "module", Modules("module"))
  <2>1. Restored(h) = Write(w, "retired", Modules("retired"))
    <3>1. w["retired"] = files["retired"]
      BY DEF Write, SoundFiles, RuntimeFiles
    <3>2. h # "new agents" /\ h \notin {"agent", "other", "module", "retired"} /\ h \notin site.linked
      BY <1>2 DEF Frame
    <3>3. Restored(h) = [files EXCEPT !["module"] = Modules("module"),
                                      !["retired"] = IF snap["retired"] = {} THEN {} ELSE @]
      BY <1>2, <3>2 DEF Restored
    <3>4. Restored(h) = Write(w, "retired", IF snap["retired"] = {}
                                         THEN {} ELSE w["retired"])
      BY <3>3 DEF Write
    <3> QED
      BY <3>1, <3>4
  <2>2. \A g \in {"module", "retired"} : Modules(g) \cap {"mine", "edit"} = {}
    BY DEF SoundFiles
  <2> HIDE DEF Modules
  <2>3. /\ SoundFiles(w) /\ w["module"] = Modules("module")
        /\ \A g \in RuntimeFiles : g # "module" => w[g] = files[g]
    BY <2>2, FileWritten DEF RuntimeFiles
  <2> HIDE DEF w
  <2>4. /\ SoundFiles(Restored(h)) /\ Restored(h)["retired"] = Modules("retired")
        /\ \A g \in RuntimeFiles : g # "retired" => Restored(h)[g] = w[g]
    BY <2>1, <2>2, <2>3, FileWritten DEF RuntimeFiles
  <2>5. \A g \in RuntimeFiles :
           Restored(h)[g] = IF g \in {"module", "retired"} THEN Modules(g) ELSE files[g]
    BY <2>3, <2>4 DEF RuntimeFiles
  <2>6. h \notin RuntimeFiles
    BY <1>2 DEF RuntimeFiles
  <2> QED
    BY <1>2, <2>4, <2>5, <2>6 DEF Modules
<1>3. CASE h \notin {"new agents", "new modules"}
  <2>1. h \in RuntimeFiles
    BY <1>3 DEF Written
  <2>2. CASE h \in site.linked \/ (h \in {"agent", "other", "module", "retired"} /\ snap[h] = {})
    <3>1. Restored(h) = files
      BY <1>3, <2>2 DEF Restored
    <3> QED
      BY <1>3, <2>2, <3>1
  <2>3. CASE ~(h \in site.linked \/ (h \in {"agent", "other", "module", "retired"} /\ snap[h] = {}))
    <3>1. Restored(h) = Write(files, h, snap[h])
      BY <1>3, <2>3 DEF Restored, Write
    <3>2. /\ SoundFiles(Restored(h)) /\ Restored(h)[h] = snap[h]
          /\ \A g \in RuntimeFiles : g # h => Restored(h)[g] = files[g]
      <4>1. /\ h \in {"plugin", "module", "retired"} => snap[h] \cap {"mine", "edit"} = {}
            /\ h \in {"agent", "other"} => "edit" \notin snap[h]
        BY DEF SoundFiles
      <4> QED
        BY <2>1, <3>1, <4>1, FileWritten
    <3> QED
      BY <1>3, <2>3, <3>2
  <2> QED
    BY <2>2, <2>3
<1> QED
  BY <1>1, <1>2, <1>3

\* Two sets of files that hold the same.
LEMMA SameFiles ==
    ASSUME NEW f, NEW g, SoundFiles(f), SoundFiles(g), \A x \in RuntimeFiles : f[x] = g[x]
    PROVE  f = g
  BY DEF SoundFiles

LEMMA RestoreFiles ==
    ASSUME IInv, Restore
    PROVE  FilesTyped' /\ FilesRight'
<1> DEFINE h == Head(todo)
<1>1. /\ pc = "restore" /\ pc' = "restore" /\ todo # << >> /\ todo' = Tail(todo)
      /\ files' = Restored(h)
      /\ UNCHANGED <<archive, site, run, snap, start, outcome, torn>>
  BY DEF Restore, GoTo
<1>2. FilesTyped /\ FilesRight /\ Frame /\ outcome = "none" /\ archive = start.archive
  BY <1>1, RunningFiles
<1>3. h \in Written /\ todo' \in Seq(Written) /\ ToDo = {h} \cup ToDo'
  BY <1>1, <1>2, TailItems DEF FilesTyped, ToDo
<1> HIDE DEF h
<1>4. /\ SoundFiles(files')
      /\ \A g \in RuntimeFiles : files'[g] =
            IF \/ /\ h = "new agents" /\ g \in {"agent", "other"}
                  /\ snap[g] = {} /\ Marked(files[g])
               \/ h = "new modules" /\ g \in {"module", "retired"} /\ snap[g] = {}
            THEN {}
            ELSE IF /\ g = h /\ h \notin site.linked
                    /\ ~(h \in {"agent", "other", "module", "retired"} /\ snap[h] = {})
                 THEN snap[g] ELSE files[g]
  BY <1>1, <1>2, <1>3, RestoredFile DEF FilesTyped
<1>5. FilesTyped'
  BY <1>1, <1>2, <1>3, <1>4 DEF FilesTyped
<1>6. Restoring'
  <2>1. CASE files = snap
    <3>1. \A g \in RuntimeFiles : files'[g] = snap[g]
      BY <1>4, <2>1 DEF Marked
    <3>2. files' = snap
      BY <1>2, <1>4, <3>1, SameFiles DEF FilesTyped
    <3> QED
      BY <1>1, <3>2 DEF Restoring
  <2>2. CASE Disturbed
    <3>1. files'["agent"] = snap["agent"] \/ Marked(files'["agent"]) \/ files'["agent"] = {"cut"}
      <4>1. files'["agent"] \in {files["agent"], snap["agent"]}
        BY <1>4 DEF RuntimeFiles
      <4> QED
        BY <2>2, <4>1 DEF Disturbed, IsCut
    <3>2. /\ files'["other"] \in {snap["other"], {}} /\ files'["retired"] \in {snap["retired"], {}}
          /\ files'["registry"] = snap["registry"]
      BY <1>4, <2>2 DEF Disturbed, RuntimeFiles
    <3>3. \A f \in {"package", "tui"} : files'[f] \in {files[f], snap[f]}
      BY <1>4 DEF RuntimeFiles
    <3>4. Disturbed'
      BY <1>1, <2>2, <3>1, <3>2, <3>3 DEF Disturbed, IsCut
    <3>5. /\ \A f \in {"agent", "other", "module", "retired"} :
                snap[f] # {} /\ f \notin ToDo => files[f] = snap[f]
          /\ \A f \in {"package", "tui", "plugin"} : f \notin ToDo => files[f] = snap[f]
          /\ \A f \in {"agent", "other"} :
                snap[f] = {} /\ "new agents" \notin ToDo =>
                    files[f] = {} \/ (f = "agent" /\ files[f] = {"cut"})
          /\ \A f \in {"module", "retired"} :
                snap[f] = {} /\ "new modules" \notin ToDo => files[f] = {}
      BY <1>1, <1>2 DEF FilesRight, Restoring, IsCut
    <3>6. \A f \in site.linked : snap[f] = {}
      BY <2>2 DEF Disturbed
    <3>7. \A f \in {"agent", "other", "module", "retired"} :
             snap[f] # {} /\ f \notin ToDo' => files'[f] = snap[f]
      BY <1>3, <1>4, <3>5, <3>6 DEF RuntimeFiles
    <3>8. \A f \in {"package", "tui", "plugin"} : f \notin ToDo' => files'[f] = snap[f]
      BY <1>2, <1>3, <1>4, <3>5 DEF RuntimeFiles, Frame
    <3>9. \A f \in {"agent", "other"} :
             snap[f] = {} /\ "new agents" \notin ToDo' =>
                 files'[f] = {} \/ (f = "agent" /\ files'[f] = {"cut"})
      <4>1. SUFFICES ASSUME NEW f \in {"agent", "other"}, snap[f] = {}, "new agents" \notin ToDo'
                     PROVE  files'[f] = {} \/ (f = "agent" /\ files'[f] = {"cut"})
        OBVIOUS
      <4>2. CASE h = "new agents"
        <5>1. files[f] = {} \/ Marked(files[f]) \/ (f = "agent" /\ files[f] = {"cut"})
          BY <2>2, <4>1 DEF Disturbed, IsCut
        <5> QED
          BY <1>4, <4>1, <4>2, <5>1 DEF RuntimeFiles
      <4>3. CASE h # "new agents"
        <5>1. files[f] = {} \/ (f = "agent" /\ files[f] = {"cut"})
          BY <1>3, <3>5, <4>1, <4>3
        <5> QED
          BY <1>4, <4>1, <4>3, <5>1 DEF RuntimeFiles
      <4> QED
        BY <4>2, <4>3
    <3>10. \A f \in {"module", "retired"} :
              snap[f] = {} /\ "new modules" \notin ToDo' => files'[f] = {}
      <4>1. SUFFICES ASSUME NEW f \in {"module", "retired"}, snap[f] = {}, "new modules" \notin ToDo'
                     PROVE  files'[f] = {}
        OBVIOUS
      <4>2. h = "new modules" \/ files[f] = {}
        BY <1>3, <3>5, <4>1
      <4> QED
        BY <1>4, <4>1, <4>2 DEF RuntimeFiles
    <3> QED
      BY <1>1, <3>4, <3>7, <3>8, <3>9, <3>10 DEF Restoring, IsCut
  <2> QED
    BY <1>1, <1>2, <2>1, <2>2 DEF FilesRight, Restoring
<1>7. Building' /\ FilesBack' /\ Snapshot'
  BY <1>1, <1>2 DEF Building, FilesBack, FilesRight, Snapshot
<1>8. Registered'
  BY <1>1, <1>2 DEF FilesRight, Registered
<1>9. Uninstalling'
  <2>1. files'["registry"] \in {files["registry"], snap["registry"]}
    BY <1>4 DEF RuntimeFiles
  <2> QED
    BY <1>1, <1>2, <2>1 DEF FilesRight, Uninstalling
<1> QED
  BY <1>5, <1>6, <1>7, <1>8, <1>9 DEF FilesRight

\* With nothing left to restore every file is what it was.
LEMMA RolledBackFiles ==
    ASSUME IInv, RolledBack
    PROVE  FilesTyped' /\ FilesRight'
<1>1. /\ pc = "restore" /\ todo = << >> /\ pc' = "idle" /\ todo' = << >> /\ outcome' = "failed"
      /\ UNCHANGED <<files, archive, site, run, snap, start, torn>>
  BY DEF RolledBack, Ends
<1>2. FilesTyped /\ FilesRight /\ Control /\ Frame
  BY <1>1, RunningFiles
<1>3. ToDo = {}
  BY <1>1 DEF ToDo, Items
<1>4. Same(files, snap)
  <2>1. SUFFICES ASSUME Disturbed PROVE Same(files, snap)
    BY <1>1, <1>2 DEF FilesRight, Restoring, Same
  <2>2. /\ \A f \in {"other", "module", "retired"} : files[f] = snap[f]
        /\ files["agent"] = snap["agent"] \/ (snap["agent"] = {} /\ files["agent"] = {"cut"})
    BY <1>1, <1>2, <1>3 DEF FilesRight, Restoring, IsCut
  <2>3. \A f \in {"package", "tui", "plugin"} : files[f] = snap[f]
    BY <1>1, <1>2, <1>3 DEF FilesRight, Restoring
  <2>4. files["registry"] = snap["registry"]
    BY <2>1 DEF Disturbed
  <2>5. \A f \in RuntimeFiles : f # "agent" => files[f] = snap[f]
    BY <2>2, <2>3, <2>4 DEF RuntimeFiles
  <2> QED
    BY <1>2, <2>2, <2>5 DEF FilesTyped, SoundFiles, Same
<1>5. snap = start.files
  BY <1>1, <1>2 DEF FilesRight, Snapshot, Control, UndoSteps
<1>6. torn \/ NoDangling(files')
  <2>1. torn \/ NoDangling(snap)
    BY <1>2 DEF FilesRight, Registered
  <2>2. \A f \in {"tui", "registry", "module", "plugin"} : files'[f] = snap[f]
    BY <1>1, <1>2, <1>4 DEF FilesTyped, SoundFiles, Same, RuntimeFiles
  <2> QED
    BY <2>1, <2>2 DEF NoDangling
<1>7. "row" \in files'["registry"] => site.global
  BY <1>1, <1>2 DEF FilesRight, Uninstalling
<1>8. FilesRight'
  BY <1>1, <1>2, <1>4, <1>5, <1>6, <1>7, StoppedFiles DEF Frame
<1> QED
  BY <1>1, <1>2, <1>8 DEF FilesTyped

LEMMA UnregisterFiles ==
    ASSUME IInv, Unregister
    PROVE  FilesTyped' /\ FilesRight'
<1>1. /\ pc = "unregister" /\ pc' = "untui"
      /\ UNCHANGED <<archive, site, run, todo, snap, start, outcome, torn>>
      /\ files' = IF "row" \in snap["registry"]
                  THEN Write(files, "registry", snap["registry"] \ {"row", "note"}) ELSE files
  BY DEF Unregister, GoTo, Write
<1>2. /\ FilesTyped /\ FilesRight /\ outcome = "none" /\ archive = start.archive
      /\ torn \/ NoDangling(files)
  BY <1>1, RunningFiles
<1>3. files["registry"] = snap["registry"]
  BY <1>1, <1>2 DEF FilesRight, Uninstalling
<1>4. /\ SoundFiles(files') /\ "row" \notin files'["registry"]
      /\ \A g \in RuntimeFiles : g # "registry" => files'[g] = files[g]
  <2>1. CASE "row" \in snap["registry"]
    BY <1>1, <1>2, <2>1, FileWritten DEF FilesTyped, RuntimeFiles
  <2>2. CASE "row" \notin snap["registry"]
    BY <1>1, <1>2, <1>3, <2>2 DEF FilesTyped
  <2> QED
    BY <2>1, <2>2
<1>5. FilesTyped'
  BY <1>1, <1>2, <1>4 DEF FilesTyped
<1>6. Building' /\ Restoring' /\ FilesBack' /\ Snapshot'
  BY <1>1, <1>2 DEF Building, Restoring, FilesBack, FilesRight, Snapshot
<1>7. Uninstalling'
  BY <1>1, <1>2, <1>4 DEF FilesRight, Uninstalling, RuntimeFiles
<1>8. NoDangling(files) => NoDangling(files')
  BY <1>4 DEF NoDangling, RuntimeFiles
<1>9. Registered'
  BY <1>1, <1>2, <1>8 DEF FilesRight, Registered, NoDangling
<1> QED
  BY <1>5, <1>6, <1>7, <1>9 DEF FilesRight

\* The prepared removal names nothing that holds content of the user.
LEMMA RemovalsRemovable ==
    ASSUME FilesTyped
    PROVE  Removals \in Seq(Removable(files)) /\ Removals \in Seq(Written)
<1>1. \A f \in {"plugin", "module", "retired", "agent", "other"} :
         Removal(f) \in Seq(Removable(files)) /\ Removal(f) \in Seq(Written)
  <2>1. SUFFICES ASSUME NEW f \in {"plugin", "module", "retired", "agent", "other"}
                 PROVE  Removal(f) \in Seq(Removable(files)) /\ Removal(f) \in Seq(Written)
    OBVIOUS
  <2>2. f \in Written
    BY DEF Written, RuntimeFiles
  <2>3. CASE Removal(f) = << >>
    BY <2>3
  <2>4. CASE Removal(f) # << >>
    <3>1. Removal(f) = <<f>> /\ (f \in {"agent", "other"} => "mine" \notin files[f])
      BY <2>4 DEF Removal, Marked
    <3>2. f \in Removable(files)
      BY <3>1 DEF Removable
    <3> QED
      BY <2>2, <3>1, <3>2
  <2> QED
    BY <2>3, <2>4
<1> QED
  BY <1>1 DEF Removals

LEMMA UnregisterTuiFiles ==
    ASSUME IInv, UnregisterTui
    PROVE  FilesTyped' /\ FilesRight'
<1>0. pc = "untui"
  BY DEF UnregisterTui
<1>1. /\ FilesTyped /\ FilesRight /\ Control /\ Frame /\ outcome = "none"
      /\ archive = start.archive
      /\ torn \/ NoDangling(files)
  BY <1>0, RunningFiles
<1>2. CASE ~TuiChanged
  <2>1. /\ pc' = (IF "row" \in snap["tui"] THEN "rewrite" ELSE "remove") /\ todo' = Removals
        /\ UNCHANGED <<files, archive, site, run, snap, start, outcome, torn>>
    BY <1>2 DEF UnregisterTui, GoTo
  <2>2. /\ pc' = "remove" => "row" \notin files["tui"]
        /\ pc' = "rewrite" => files["tui"] = snap["tui"]
    BY <1>0, <1>1, <1>2, <2>1 DEF FilesRight, Uninstalling, TuiChanged
  <2>3. Removals \in Seq(Removable(files)) /\ Removals \in Seq(Written)
    BY <1>1, RemovalsRemovable
  <2>4. FilesTyped'
    BY <1>1, <2>1, <2>3 DEF FilesTyped
  <2>5. Building' /\ Restoring' /\ FilesBack' /\ Snapshot'
    BY <1>0, <1>1, <2>1 DEF Building, Restoring, FilesBack, FilesRight, Snapshot
  <2>6. Uninstalling'
    BY <1>0, <1>1, <2>1, <2>2, <2>3 DEF FilesRight, Uninstalling
  <2>7. Registered'
    BY <1>1, <2>1 DEF FilesRight, Registered
  <2> QED
    BY <2>4, <2>5, <2>6, <2>7 DEF FilesRight
<1>3. CASE TuiChanged
  <2>1. /\ pc' = "idle" /\ todo' = << >>
        /\ UNCHANGED <<files, archive, site, run, snap, start, torn>>
    BY <1>3 DEF UnregisterTui, Ends
  <2>2. run.name = "uninstall"
    BY <1>0, <1>1 DEF Control, UninstallSteps
  <2>3. "row" \in files'["registry"] => site.global
    BY <1>1, <2>1 DEF FilesRight, Uninstalling
  <2>4. torn' = TRUE \/ NoDangling(files')
    BY <1>1, <2>1 DEF Frame
  <2>5. FilesRight'
    BY <1>0, <2>1, <2>2, <2>3, <2>4, StoppedFiles
  <2> QED
    BY <1>1, <2>1, <2>5, NoToDo DEF FilesTyped
<1> QED
  BY <1>2, <1>3

LEMMA RewriteTuiFiles ==
    ASSUME IInv, RewriteTui
    PROVE  FilesTyped' /\ FilesRight'
<1>1. /\ pc = "rewrite" /\ pc' = "remove"
      /\ files' = Write(files, "tui", snap["tui"] \ {"row"})
      /\ UNCHANGED <<archive, site, run, todo, snap, start, outcome, torn>>
  BY DEF RewriteTui, GoTo, Write
<1>2. /\ FilesTyped /\ FilesRight /\ outcome = "none" /\ archive = start.archive
      /\ torn \/ NoDangling(files)
  BY <1>1, RunningFiles
<1>3. /\ SoundFiles(files') /\ files'["tui"] = snap["tui"] \ {"row"}
      /\ \A g \in RuntimeFiles : g # "tui" => files'[g] = files[g]
  BY <1>1, <1>2, FileWritten DEF FilesTyped, RuntimeFiles
<1>4. FilesTyped'
  BY <1>1, <1>2, <1>3 DEF FilesTyped
<1>5. Building' /\ Restoring' /\ FilesBack' /\ Snapshot'
  BY <1>1, <1>2 DEF Building, Restoring, FilesBack, FilesRight, Snapshot
<1>6. "row" \notin files'["tui"] /\ "row" \notin files'["registry"]
  BY <1>1, <1>2, <1>3 DEF FilesRight, Uninstalling, RuntimeFiles
<1>7. Removable(files') = Removable(files)
  BY <1>3 DEF Removable, RuntimeFiles
<1>8. Uninstalling' /\ Registered'
  BY <1>1, <1>2, <1>6, <1>7 DEF FilesRight, Uninstalling, Registered, NoDangling
<1> QED
  BY <1>4, <1>5, <1>8 DEF FilesRight

LEMMA RemoveFiles ==
    ASSUME IInv, RemoveManaged
    PROVE  FilesTyped' /\ FilesRight'
<1> DEFINE h == Head(todo)
<1>1. /\ pc = "remove" /\ pc' = "remove" /\ todo # << >> /\ todo' = Tail(todo)
      /\ files' = Write(files, h, {})
      /\ UNCHANGED <<archive, site, run, snap, start, outcome, torn>>
  BY DEF RemoveManaged, GoTo, Write
<1>2. /\ FilesTyped /\ FilesRight /\ outcome = "none" /\ archive = start.archive
      /\ torn \/ NoDangling(files)
  BY <1>1, RunningFiles
<1>3. todo \in Seq(Removable(files)) /\ "row" \notin files["tui"] /\ "row" \notin files["registry"]
  BY <1>1, <1>2 DEF FilesRight, Uninstalling
<1>4. h \in Removable(files) /\ Tail(todo) \in Seq(Removable(files)) /\ Tail(todo) \in Seq(Written)
  BY <1>1, <1>2, <1>3, TailItems DEF FilesTyped
<1> HIDE DEF h
<1>5. h \in {"plugin", "module", "retired", "agent", "other"} /\ h \in RuntimeFiles
  BY <1>4 DEF Removable, RuntimeFiles
<1>6. /\ SoundFiles(files') /\ files'[h] = {}
      /\ \A g \in RuntimeFiles : g # h => files'[g] = files[g]
  BY <1>1, <1>2, <1>5, FileWritten DEF FilesTyped
<1>7. FilesTyped'
  BY <1>1, <1>2, <1>4, <1>6 DEF FilesTyped
<1>8. Building' /\ Restoring' /\ FilesBack' /\ Snapshot'
  BY <1>1, <1>2 DEF Building, Restoring, FilesBack, FilesRight, Snapshot
<1>9. Removable(files) \subseteq Removable(files')
  BY <1>6 DEF Removable, RuntimeFiles
<1>10. todo' \in Seq(Removable(files'))
  BY <1>1, <1>4, <1>9
<1>11. "row" \notin files'["tui"] /\ "row" \notin files'["registry"]
  BY <1>3, <1>5, <1>6 DEF RuntimeFiles
<1>12. Uninstalling' /\ Registered'
  BY <1>1, <1>2, <1>10, <1>11 DEF FilesRight, Uninstalling, Registered, NoDangling
<1> QED
  BY <1>7, <1>8, <1>12 DEF FilesRight

LEMMA EditTuiFiles ==
    ASSUME IInv, EditTui
    PROVE  FilesTyped' /\ FilesRight'
<1>1. /\ run.name = "uninstall" /\ pc # "idle"
      /\ files' = Write(files, "tui", files["tui"] \cup {"edit"})
      /\ UNCHANGED <<archive, site, pc, todo, snap, start, outcome, torn>>
      /\ run'.name = run.name /\ run'.late = (pc = "rewrite")
  BY DEF EditTui, Write, IInv, TypesRight, Frame
<1>2. /\ FilesTyped /\ FilesRight /\ Control /\ outcome = "none" /\ archive = start.archive
      /\ pc # "restore" => torn \/ NoDangling(files)
  BY <1>1, RunningFiles
<1>3. pc \in {"check", "unregister", "untui", "rewrite", "remove"}
  BY <1>1, <1>2 DEF Control, IInv, TypesRight, Frame, Stages, Replacing, UndoSteps, UninstallSteps
<1>4. /\ SoundFiles(files') /\ files'["tui"] = files["tui"] \cup {"edit"}
      /\ \A g \in RuntimeFiles : g # "tui" => files'[g] = files[g]
  BY <1>1, <1>2, FileWritten DEF FilesTyped, RuntimeFiles
<1>5. FilesTyped'
  BY <1>1, <1>2, <1>4 DEF FilesTyped
<1>6. Building' /\ Restoring' /\ FilesBack'
  BY <1>1, <1>2, <1>3 DEF Building, Restoring, FilesBack
<1>7. Snapshot'
  BY <1>1, <1>2, <1>3 DEF FilesRight, Snapshot, Replacing
<1>8. Removable(files') = Removable(files)
  BY <1>4 DEF Removable, RuntimeFiles
<1>9. Uninstalling'
  BY <1>1, <1>2, <1>4, <1>8 DEF FilesRight, Uninstalling, RuntimeFiles
<1>10. NoDangling(files) => NoDangling(files')
  BY <1>4 DEF NoDangling, RuntimeFiles
<1>11. Registered'
  BY <1>1, <1>2, <1>3, <1>10 DEF FilesRight, Registered, NoDangling
<1> QED
  BY <1>5, <1>6, <1>7, <1>9, <1>11 DEF FilesRight

LEMMA NextFiles ==
    ASSUME IInv, InstallNext
    PROVE  FilesTyped' /\ FilesRight'
<1>1. CASE \E c \in Commands : Start(c)
  BY <1>1, StartFiles
<1>2. CASE Steps
  <2>1. CASE PlanRefused
    BY <2>1, UnwindFiles DEF PlanRefused, CutShort
  <2> QED
    BY <1>2, <2>1, CheckFiles, EarlyFiles, PlanFiles, EmitFiles, EndingFiles, BrokenFiles, SweepFiles,
       RegisterFiles, UndoFiles, RestoreFiles, RolledBackFiles, UnregisterFiles,
       UnregisterTuiFiles, RewriteTuiFiles, RemoveFiles DEF Steps
<1>3. CASE StepFails
  BY <1>3, UnwindFiles DEF StepFails, UninstallSteps
<1> QED
  BY <1>1, <1>2, <1>3, BrokenFiles, EditTuiFiles DEF InstallNext

-----------------------------------------------------------------------------
(* The invariant. *)

LEMMA EarlierRuntimeSound ==
    ASSUME NEW other, other \in {{"first"}, {"mine"}}
    PROVE  SoundFiles(EarlierRuntime(other)) /\ NoDangling(EarlierRuntime(other))
           /\ "row" \notin EarlierRuntime(other)["registry"]
<1> DEFINE f == EarlierRuntime(other)
<1>1. /\ f = [g \in RuntimeFiles |-> f[g]]
      /\ f["agent"] = {"first"} /\ f["other"] = other /\ f["plugin"] = {"earlier"}
      /\ f["module"] = {"earlier"} /\ f["retired"] = {"earlier"} /\ f["registry"] = {"mine"}
  BY DEF EarlierRuntime, RuntimeFiles
<1> HIDE DEF f
<1> QED
  BY <1>1 DEF f, SoundFiles, NoDangling

LEMMA OwnFilesSound ==
    ASSUME NEW agent, agent \in {{}, {"mine"}}
    PROVE  SoundFiles(OwnFiles(agent)) /\ NoDangling(OwnFiles(agent))
           /\ "row" \notin OwnFiles(agent)["registry"]
<1> DEFINE f == OwnFiles(agent)
<1>1. /\ f = [g \in RuntimeFiles |-> f[g]]
      /\ f["agent"] = agent /\ f["other"] = {"mine"} /\ f["plugin"] = {} /\ f["module"] = {}
      /\ f["retired"] = {} /\ f["tui"] = {} /\ f["registry"] = {}
  BY DEF OwnFiles, RuntimeFiles
<1> HIDE DEF f
<1> QED
  BY <1>1 DEF f, SoundFiles, NoDangling

LEMMA CommentedSound ==
    ASSUME NEW f, SoundFiles(f), NoDangling(f)
    PROVE  SoundFiles(Commented(f)) /\ NoDangling(Commented(f))
<1>1. Commented(f) = Write(f, "registry", f["registry"] \cup {"note"})
  BY DEF Commented, Write
<1>2. /\ SoundFiles(Commented(f)) /\ Commented(f)["registry"] = f["registry"] \cup {"note"}
      /\ \A g \in RuntimeFiles : g # "registry" => Commented(f)[g] = f[g]
  BY <1>1, FileWritten DEF RuntimeFiles
<1> QED
  BY <1>2 DEF NoDangling, RuntimeFiles

LEMMA InitialFiles ==
    ASSUME InstallInit
    PROVE  /\ SoundFiles(files) /\ NoDangling(files)
           /\ "row" \in files["registry"] => site.global
<1>1. CASE files \in {EarlierRuntime({"first"}), EarlierRuntime({"mine"})}
  BY <1>1, EarlierRuntimeSound
<1> DEFINE registered == [EarlierRuntime({"mine"}) EXCEPT !.registry = {"mine", "row"}]
<1>2. SoundFiles(registered) /\ NoDangling(registered)
  <2> DEFINE f == EarlierRuntime({"mine"})
  <2>1. SoundFiles(f) /\ NoDangling(f) /\ f["plugin"] = {"earlier"}
    BY EarlierRuntimeSound DEF EarlierRuntime
  <2> HIDE DEF f
  <2>2. registered = Write(f, "registry", {"mine", "row"})
    BY DEF Write, f
  <2> HIDE DEF registered
  <2>3. /\ SoundFiles(registered) /\ registered["registry"] = {"mine", "row"}
        /\ \A g \in RuntimeFiles : g # "registry" => registered[g] = f[g]
    BY <2>1, <2>2, FileWritten DEF RuntimeFiles
  <2> QED
    BY <2>1, <2>3 DEF NoDangling, RuntimeFiles
<1>3. CASE files \in {OwnFiles({}), OwnFiles({"mine"})}
  BY <1>3, OwnFilesSound
<1>4. /\ SoundFiles(Commented(registered)) /\ NoDangling(Commented(registered))
      /\ SoundFiles(Commented(EarlierRuntime({"first"})))
      /\ NoDangling(Commented(EarlierRuntime({"first"})))
  BY <1>2, CommentedSound, EarlierRuntimeSound
<1>5. \/ files \in {EarlierRuntime({"first"}), EarlierRuntime({"mine"})}
      \/ files \in {OwnFiles({}), OwnFiles({"mine"})}
      \/ /\ site.global
         /\ files \in {registered, Commented(registered), Commented(EarlierRuntime({"first"}))}
  BY DEF InstallInit
<1> HIDE DEF registered
<1> QED
  BY <1>1, <1>2, <1>3, <1>4, <1>5

LEMMA InitialDisk ==
    ASSUME InstallInit
    PROVE  Disks(disk)
<1>1. PICK c \in {NoConfig, Config("first", "own", "custom", "own")} :
         disk = [p \in Places |-> IF p = Live THEN c ELSE NoConfig]
  BY DEF InstallInit
<1>2. Sound(c)
  BY NoConfigSound, ConfigSound
<1> HIDE DEF NoConfig
<1> QED
  BY <1>1, <1>2, NoConfigSound DEF Disks

LEMMA InitHolds == InstallInit => IInv
<1> SUFFICES ASSUME InstallInit PROVE IInv
  OBVIOUS
<1>1. /\ pc = "idle" /\ outcome = "none" /\ number = 0 /\ todo = << >> /\ torn = FALSE
      /\ snap = files /\ precious = disk[Live]
      /\ start = [config |-> disk[Live], files |-> files, archive |-> archive]
      /\ run = [name |-> "none", force |-> FALSE, keep |-> TRUE, backed |-> FALSE, changed |-> FALSE,
                late |-> FALSE]
  BY DEF InstallInit
<1>2. Disks(disk) /\ Sound(disk[Live])
  BY InitialDisk, LiveIsPlace DEF Disks
<1>3. Sound(archive)
  <2>1. archive \in {NoConfig, Config("archived", "archived", "synced", "archived")}
    BY DEF InstallInit
  <2> QED
    BY <2>1, NoConfigSound, ConfigSound
<1>4. /\ SoundFiles(files) /\ NoDangling(files)
      /\ "row" \in files["registry"] => site.global
  BY InitialFiles
<1>5. site.linked \in {{}, {"agent"}, {"module"}}
  BY DEF InstallInit
<1>6. Frame
  <2>1. /\ run = [name |-> run.name, force |-> run.force, keep |-> run.keep, backed |-> run.backed,
                    changed |-> run.changed, late |-> run.late]
        /\ run.backed = FALSE /\ run.changed = FALSE /\ run.late = FALSE
    BY <1>1
  <2>2. number \in 0..MaxCommands
    BY <1>1, InstallationAssumption
  <2>3. pc \in Stages
    BY <1>1 DEF Stages
  <2> QED
    BY <1>1, <1>5, <2>1, <2>2, <2>3 DEF Frame
<1>7. TypesRight
  BY <1>1, <1>2, <1>3, <1>4, <1>6, NoToDo DEF TypesRight
<1>8. Control /\ Configured
  BY <1>1 DEF Control, Configured, UndoSteps, UninstallSteps
<1>9. ConfigurationRight
  <2>1. Original /\ ConfigurationBack
    BY <1>1 DEF Original, ConfigurationBack, Unbacked, UninstallSteps
  <2>2. PreciousKept
    BY <1>1, LiveIsPlace DEF PreciousKept
  <2> QED
    BY <2>1, <2>2 DEF ConfigurationRight
<1>10. FilesRight
  <2>1. Building /\ Restoring /\ FilesBack
    BY <1>1 DEF Building, Restoring, FilesBack
  <2>2. Snapshot
    BY <1>1 DEF Snapshot
  <2>3. Uninstalling /\ Registered
    BY <1>1, <1>4 DEF Uninstalling, Registered
  <2> QED
    BY <2>1, <2>2, <2>3 DEF FilesRight
<1> QED
  BY <1>7, <1>8, <1>9, <1>10 DEF IInv

LEMMA NextHolds == IInv /\ [InstallNext]_installVars => IInv'
<1> SUFFICES ASSUME IInv, [InstallNext]_installVars PROVE IInv'
  OBVIOUS
<1>1. CASE InstallNext
  <2>1. Disks(disk)' /\ ConfigurationRight' /\ FilesTyped' /\ FilesRight'
    BY <1>1, NextConfiguration, NextFiles
  <2>2. Frame' /\ Control' /\ Configured'
    BY <1>1, NextCourse
  <2>3. Sound(disk[Live]) /\ Sound(archive) /\ Sound(start.config)
    BY LiveIsPlace DEF IInv, TypesRight, Disks
  <2>4. archive' \in {archive, disk[Live]} /\ start'.config \in {start.config, disk[Live]}
    <3>1. CASE \E c \in Commands : Start(c)
      BY <3>1 DEF Start
    <3>2. CASE Unwind
      BY <3>2 DEF Unwind, Ends, GoTo
    <3>3. CASE Steps /\ ~Unwind
      BY <3>3 DEF Steps, Ends, GoTo, Check, Refuse, CopyBackup, WriteConfig, WriteFails,
         Unpack, UnpackRefused, SetAside, PlaceImported, Pack, EditModels, EditFails, Revert, Plan,
         PlanRefused, Emit, Sweep, Register, Preserve, PutBack, UndoFails, Restore, RolledBack,
         RestoreFails, Unregister, UnregisterTui, RewriteTui, RemoveManaged, Removed
    <3>4. CASE StepFails \/ Kill \/ EditTui
      BY <3>2, <3>4 DEF StepFails, Kill, EditTui
    <3> QED
      BY <1>1, <3>1, <3>2, <3>3, <3>4 DEF InstallNext
  <2>5. Sound(archive') /\ Sound(start'.config)
    BY <2>3, <2>4
  <2>6. TypesRight'
    BY <2>1, <2>2, <2>5 DEF TypesRight, FilesTyped
  <2> QED
    BY <2>1, <2>2, <2>6 DEF IInv
<1>2. CASE UNCHANGED installVars
  <2>1. UNCHANGED <<disk, files, archive, site, run, pc, todo, snap, start, precious, outcome,
                    torn, number>>
    BY <1>2 DEF installVars
  <2>2. TypesRight' /\ Control' /\ Configured'
    BY <2>1 DEF IInv, TypesRight, Frame, Control, Configured, HasConfig, Live
  <2>3. Original' /\ PreciousKept' /\ ConfigurationBack'
    BY <2>1 DEF IInv, ConfigurationRight, Original, PreciousKept, Old, ConfigurationBack, Backup,
                Live, Places, Apart
  <2>4. Building' /\ Restoring'
    BY <2>1 DEF IInv, FilesRight, Building, Disturbed, Whole, IsCut, Restoring, ToDo
  <2>5. Snapshot' /\ Uninstalling' /\ Registered' /\ FilesBack'
    BY <2>1 DEF IInv, FilesRight, Snapshot, Uninstalling, Registered, FilesBack
  <2> QED
    BY <2>2, <2>3, <2>4, <2>5 DEF IInv, ConfigurationRight, FilesRight
<1> QED
  BY <1>1, <1>2

-----------------------------------------------------------------------------

\* Where the configuration is that a running command has found.
LEMMA Located ==
    ASSUME IInv, pc # "idle"
    PROVE  \/ disk[Live] = start.config \/ disk[Backup] = start.config \/ start.config.root = "none"
           \/ run.name = "model" /\ Apart(start.config, disk[Backup], disk[Live])
<1>1. Original /\ Frame
  BY DEF IInv, ConfigurationRight, TypesRight
<1>2. \/ disk[Live] = start.config \/ disk[Backup] = start.config \/ start.config = NoConfig
      \/ run.name = "model" /\ Apart(start.config, disk[Backup], disk[Live])
  BY <1>1 DEF Original, Unbacked, Frame, Stages, UndoSteps, UninstallSteps
<1> QED
  BY <1>2 DEF NoConfig, Parts

LEMMA ApartParts ==
    ASSUME NEW c, NEW copied, NEW live, Sound(live), Apart(c, copied, live)
    PROVE  copied.settings = c.settings /\ \A p \in Parts \ {"settings"} : live[p] = c[p]
<1>1. live = [c EXCEPT !.settings = live.settings] /\ DOMAIN live = Parts
  BY DEF Apart, Sound
<1>2. DOMAIN c = Parts
  BY <1>1
<1> QED
  BY <1>1, <1>2 DEF Apart

LEMMA KeepsOriginal == IInv => OriginalKept
<1> SUFFICES ASSUME IInv PROVE OriginalKept
  OBVIOUS
<1>1. PreciousKept /\ Sound(disk[Live])
  BY LiveIsPlace DEF IInv, ConfigurationRight, TypesRight, Disks
<1>4. ASSUME run.name = "model", NEW p \in Places, Apart(precious, disk[p], disk[Live])
      PROVE  OriginalKept
  BY <1>1, <1>4, ApartParts DEF OriginalKept, EditedAside
<1>2. CASE pc = "idle"
  BY <1>1, <1>2, <1>4 DEF PreciousKept, OriginalKept
<1>3. CASE pc # "idle"
  <2>1. precious.root = "none" \/ Old \/ precious = start.config
    BY <1>1, <1>3 DEF PreciousKept
  <2>2. Live \in Places /\ Backup \in Places
    BY <1>3, RunningNumber, PlacesApart
  <2> QED
    BY <1>3, <1>4, <2>1, <2>2, Located DEF Old, OriginalKept
<1> QED
  BY <1>2, <1>3

LEMMA AllBack == IInv => AllOrNothing
<1> SUFFICES ASSUME IInv, outcome = "failed", run.name \in {"install", "import", "export"}
             PROVE  /\ disk[Live] = start.config
                    /\ \A f \in RuntimeFiles :
                          \/ files[f] = start.files[f]
                          \/ f = "agent" /\ files[f] = {"cut"} /\ start.files[f] = {}
                    /\ archive = start.archive
  BY DEF AllOrNothing
<1>1. disk[Live] = start.config /\ archive = start.archive /\ Same(files, start.files)
  BY DEF IInv, ConfigurationRight, FilesRight, ConfigurationBack, FilesBack, Snapshot
<1>2. SoundFiles(files)
  BY DEF IInv, TypesRight
<1>3. CASE files = start.files
  BY <1>1, <1>3
<1>4. CASE files = [start.files EXCEPT !["agent"] = {"cut"}] /\ start.files["agent"] = {}
  <2>1. DOMAIN files = RuntimeFiles
    BY <1>2 DEF SoundFiles
  <2>2. DOMAIN start.files = RuntimeFiles
    BY <1>4, <2>1
  <2> QED
    BY <1>1, <1>4, <2>2 DEF RuntimeFiles
<1> QED
  BY <1>1, <1>3, <1>4 DEF Same

LEMMA PluginThere == IInv => RegisteredIsThere
  BY DEF IInv, FilesRight, Registered, NoDangling, RegisteredIsThere

Kept ==
    \A f \in RuntimeFiles : f # "agent" \/ run.name = "uninstall" =>
        \/ OwnContent(files[f]) \subseteq files'[f]
        \/ f \in InPlace /\ files'[f] = {"cut"}
        \/ f = "tui" /\ pc = "rewrite" /\ run.late /\ OwnContent(snap[f]) \subseteq files'[f]

LEMMA OneFileStays ==
    ASSUME SoundFiles(files), NEW f \in RuntimeFiles, NEW content, files' = Write(files, f, content),
           (f = "agent" /\ run.name # "uninstall") \/ OwnContent(files[f]) \subseteq content
    PROVE  Kept
<1>1. /\ files'[f] = content
      /\ \A g \in RuntimeFiles : g # f => files'[g] = files[g]
  BY DEF SoundFiles, Write
<1> QED
  BY <1>1 DEF Kept, OwnContent

LEMMA BuildingKeeps ==
    ASSUME IInv, Emit \/ Sweep \/ Register
    PROVE  Kept
<1>1. pc \in {"emit", "register"}
  BY DEF Emit, Sweep, Register
<1>2. FilesTyped /\ FilesRight /\ Control
  BY <1>1, RunningFiles
<1>3. Disturbed /\ (pc = "emit" => todo \in Suffixes /\ Whole)
  BY <1>1, <1>2 DEF FilesRight, Building
<1>4. run.name # "uninstall"
  BY <1>1, <1>2 DEF Control, Replacing
<1>5. CASE Emit
  <2> DEFINE f == Head(todo)
  <2>1. /\ todo # << >> /\ files' = Write(files, f, Generated(f))
    BY <1>5 DEF Emit, Write
  <2>2. f \in {"agent", "package", "plugin", "module", "tui"} /\ f \in RuntimeFiles
    BY <1>3, <1>5, <2>1, SuffixSteps DEF Emit, RuntimeFiles
  <2> HIDE DEF f
  <2>3. f = "agent" \/ OwnContent(files[f]) \subseteq Generated(f)
    <3>1. CASE f = "package"
      BY <3>1 DEF Generated, MergedPackage, OwnContent
    <3>2. CASE f = "tui"
      <4>1. Generated(f) = snap["tui"] \cup {"row"}
        BY <3>2 DEF Generated, MergedTui
      <4>2. files["tui"] \cap {"mine", "edit"} = snap["tui"] \cap {"mine", "edit"}
        BY <1>3, <1>5 DEF Disturbed, Whole, Emit
      <4> QED
        BY <3>2, <4>1, <4>2 DEF OwnContent
    <3>3. CASE f \in {"plugin", "module"}
      BY <1>2, <3>3 DEF FilesTyped, SoundFiles, OwnContent
    <3> QED
      BY <2>2, <3>1, <3>2, <3>3
  <2> QED
    BY <1>2, <1>4, <2>1, <2>2, <2>3, OneFileStays DEF FilesTyped
<1>6. CASE Sweep
  <2> DEFINE left == IF Marked(files["other"]) THEN {} ELSE files["other"]
  <2>1. files' = Write(Write(files, "other", left), "retired", {})
    BY <1>6 DEF Sweep, Write
  <2>2. OwnContent(files["other"]) \subseteq left
    BY <1>2 DEF FilesTyped, SoundFiles, OwnContent, Marked
  <2>3. OwnContent(files["retired"]) = {}
    BY <1>2 DEF FilesTyped, SoundFiles, OwnContent
  <2> HIDE DEF left
  <2>4. \A g \in RuntimeFiles :
           files'[g] = IF g = "retired" THEN {} ELSE IF g = "other" THEN left ELSE files[g]
    BY <1>2, <2>1 DEF FilesTyped, SoundFiles, Write
  <2> QED
    BY <2>2, <2>3, <2>4 DEF Kept, OwnContent
<1>7. CASE Register
  <2>1. \/ files' = Write(files, "registry", files["registry"] \cup {"row"})
        \/ files' = files
    BY <1>7 DEF Register, Write
  <2>2. OwnContent(files["registry"]) \subseteq files["registry"] \cup {"row"} /\ "registry" \in RuntimeFiles
    BY DEF OwnContent, RuntimeFiles
  <2> QED
    BY <1>2, <2>1, <2>2, OneFileStays DEF FilesTyped, Kept, OwnContent
<1> QED
  BY <1>5, <1>6, <1>7

LEMMA RestoringKeeps ==
    ASSUME IInv, Restore
    PROVE  Kept
<1> DEFINE h == Head(todo)
<1>1. pc = "restore" /\ todo # << >> /\ files' = Restored(h)
  BY DEF Restore
<1>2. FilesTyped /\ FilesRight /\ Control /\ Frame
  BY <1>1, RunningFiles
<1>3. h \in Written
  BY <1>1, <1>2, TailItems DEF FilesTyped
<1> HIDE DEF h
<1>4. \A g \in RuntimeFiles : \/ files'[g] \in {files[g], snap[g]}
                              \/ g \in {"agent", "other"} /\ Marked(files[g])
                              \/ g \in {"module", "retired"}
  BY <1>1, <1>2, <1>3, RestoredFile DEF FilesTyped
<1>5. run.name # "uninstall"
  BY <1>1, <1>2 DEF Control, UndoSteps, Replacing
<1>6. files = snap \/ Disturbed
  BY <1>1, <1>2 DEF FilesRight, Restoring
<1>7. \A g \in {"plugin", "module", "retired"} : OwnContent(files[g]) = {}
  BY <1>2 DEF FilesTyped, SoundFiles, OwnContent
<1>8. Marked(files["other"]) => OwnContent(files["other"]) = {}
  BY <1>2 DEF FilesTyped, SoundFiles, OwnContent, Marked
<1>9. \A g \in {"other", "package", "tui", "registry"} : OwnContent(files[g]) \subseteq snap[g]
  <2>1. CASE files = snap
    BY <2>1 DEF OwnContent
  <2>2. CASE Disturbed
    <3>1. /\ files["other"] \in {snap["other"], {}} /\ files["registry"] = snap["registry"]
          /\ \A f \in {"package", "tui"} :
                files[f] = {"cut"} \/ files[f] \cap {"mine", "edit"} = snap[f] \cap {"mine", "edit"}
      BY <2>2 DEF Disturbed, IsCut
    <3> QED
      BY <3>1 DEF OwnContent
  <2> QED
    BY <1>6, <2>1, <2>2
<1>10. SUFFICES ASSUME NEW g \in RuntimeFiles, g # "agent" PROVE OwnContent(files[g]) \subseteq files'[g]
  BY <1>5 DEF Kept
<1>11. CASE g \in {"plugin", "module", "retired"}
  BY <1>7, <1>11
<1>12. CASE g \in {"other", "package", "tui", "registry"}
  <2>1. OwnContent(files[g]) \subseteq files[g]
    BY DEF OwnContent
  <2> QED
    BY <1>4, <1>8, <1>9, <1>12, <2>1 DEF RuntimeFiles
<1> QED
  BY <1>10, <1>11, <1>12 DEF RuntimeFiles

LEMMA UninstallingKeeps ==
    ASSUME IInv, Unregister \/ RewriteTui \/ RemoveManaged \/ EditTui
    PROVE  Kept
<1>1. pc # "idle"
  BY DEF Unregister, RewriteTui, RemoveManaged, EditTui
<1>2. FilesTyped /\ FilesRight
  BY <1>1, RunningFiles
<1>3. CASE files' = files
  BY <1>3 DEF Kept, OwnContent
<1>4. CASE Unregister
  <2>1. files["registry"] = snap["registry"]
    BY <1>2, <1>4 DEF FilesRight, Uninstalling, Unregister
  <2>2. files' = files \/ files' = Write(files, "registry", files["registry"] \ {"row", "note"})
    BY <1>4, <2>1 DEF Unregister, Write
  <2>3. OwnContent(files["registry"]) \subseteq files["registry"] \ {"row", "note"} /\ "registry" \in RuntimeFiles
    BY DEF OwnContent, RuntimeFiles
  <2> QED
    BY <1>2, <1>3, <2>2, <2>3, OneFileStays DEF FilesTyped
<1>5. CASE RewriteTui
  <2>1. pc = "rewrite" /\ files' = Write(files, "tui", snap["tui"] \ {"row"})
    BY <1>5 DEF RewriteTui, Write
  <2>2. "tui" \in RuntimeFiles /\ OwnContent(snap["tui"]) \subseteq snap["tui"] \ {"row"}
    BY DEF OwnContent, RuntimeFiles
  <2>3. CASE run.late
    <3>1. /\ files'["tui"] = snap["tui"] \ {"row"}
          /\ \A g \in RuntimeFiles : g # "tui" => files'[g] = files[g]
      BY <1>2, <2>1, <2>2 DEF FilesTyped, SoundFiles, Write
    <3> QED
      BY <2>1, <2>2, <2>3, <3>1 DEF Kept, OwnContent
  <2>4. CASE ~run.late
    <3>1. OwnContent(files["tui"]) \subseteq snap["tui"] \ {"row"}
      BY <1>2, <2>1, <2>4 DEF FilesRight, Uninstalling, OwnContent
    <3> QED
      BY <1>2, <2>1, <2>2, <3>1, OneFileStays DEF FilesTyped
  <2> QED
    BY <2>3, <2>4
<1>6. CASE RemoveManaged
  <2> DEFINE h == Head(todo)
  <2>1. pc = "remove" /\ todo # << >> /\ files' = Write(files, h, {})
    BY <1>6 DEF RemoveManaged, Write
  <2>2. h \in Removable(files)
    <3>1. todo \in Seq(Removable(files))
      BY <1>2, <2>1 DEF FilesRight, Uninstalling
    <3> QED
      BY <2>1, <3>1, TailItems
  <2> HIDE DEF h
  <2>3. h \in RuntimeFiles /\ OwnContent(files[h]) = {}
    BY <1>2, <2>2 DEF Removable, RuntimeFiles, FilesTyped, SoundFiles, OwnContent
  <2> QED
    BY <1>2, <2>1, <2>3, OneFileStays DEF FilesTyped
<1>7. CASE EditTui
  <2>1. files' = Write(files, "tui", files["tui"] \cup {"edit"})
    BY <1>7 DEF EditTui, Write
  <2>2. OwnContent(files["tui"]) \subseteq files["tui"] \cup {"edit"} /\ "tui" \in RuntimeFiles
    BY DEF OwnContent, RuntimeFiles
  <2> QED
    BY <1>2, <2>1, <2>2, OneFileStays DEF FilesTyped
<1> QED
  BY <1>4, <1>5, <1>6, <1>7

LEMMA OwnFilesStay ==
    ASSUME IInv, InstallNext
    PROVE  Kept
<1>1. CASE CutShort
  <2>1. SoundFiles(files)
    BY DEF IInv, TypesRight
  <2> QED
    BY <1>1, <2>1 DEF CutShort, Kept, OwnContent, SoundFiles
<1>2. CutShort \/ Emit \/ Sweep \/ Register \/ Restore \/ Unregister \/ RewriteTui
      \/ RemoveManaged \/ EditTui
  <2>1. CASE \E c \in Commands : Start(c)
    BY <2>1 DEF Start, CutShort
  <2>2. CASE StepFails \/ Kill
    BY <2>2 DEF StepFails, Kill
  <2>3. CASE Steps
    <3>1. \/ files' = files \/ Emit \/ Sweep \/ Register \/ Restore \/ RestoreFails \/ Unregister
          \/ RewriteTui \/ RemoveManaged
      BY <2>3 DEF Steps, Check, Refuse, CopyBackup, WriteConfig, WriteFails, Unpack, UnpackRefused,
         SetAside, PlaceImported, Pack, EditModels, EditFails, Revert, Plan, PlanRefused, Preserve,
         PutBack, UndoFails, RolledBack, UnregisterTui, Removed
    <3> QED
      BY <3>1 DEF RestoreFails, CutShort
  <2> QED
    BY <2>1, <2>2, <2>3 DEF InstallNext
<1> QED
  BY <1>1, <1>2, BuildingKeeps, RestoringKeeps, UninstallingKeeps

\* An install that succeeds has kept what the user had written.
LEMMA OwnPartsStay ==
    ASSUME IInv, InstallNext, outcome' = "ok", run.name = "install"
    PROVE  \A p \in {"soul", "native", "own"} :
               start.config[p] \in {"own", "custom"} => disk'[Live][p] = start.config[p]
<1>1. pc \in {"emit", "register"} /\ Ends("ok", disk, FALSE)
  <2>1. ~(\E c \in Commands : Start(c)) /\ ~Kill /\ ~EditTui
    BY DEF Start, Kill, EditTui
  <2>2. ~StepFails
    <3>1. SUFFICES ASSUME StepFails PROVE FALSE
      OBVIOUS
    <3>2. pc # "idle" /\ Unwind
      BY <3>1 DEF StepFails
    <3>3. outcome = "none"
      BY <3>2, RunningFiles
    <3> QED
      BY <3>2, <3>3 DEF Unwind, GoTo, Ends
  <2>3. pc # "idle" /\ Steps
    BY <2>1, <2>2 DEF InstallNext, Steps, Check, Refuse, CopyBackup, WriteConfig, WriteFails,
         Unpack, UnpackRefused, SetAside, PlaceImported, Pack, EditModels, EditFails, Revert, Plan,
         PlanRefused, Emit, Sweep, Register, Preserve, PutBack, UndoFails, Restore, RolledBack,
         RestoreFails, Unregister, UnregisterTui, RewriteTui, RemoveManaged, Removed
  <2>4. outcome = "none" /\ Control
    BY <2>3, RunningFiles
  <2>5. pc # "pack" /\ pc \notin UninstallSteps
    BY <2>4 DEF Control
  <2>6. ~Unwind
    BY <2>4 DEF Unwind, GoTo, Ends
  <2> QED
    BY <2>3, <2>4, <2>5, <2>6 DEF Steps, Check, Refuse, CopyBackup, WriteConfig, WriteFails,
         Unpack, UnpackRefused, SetAside, PlaceImported, Pack, EditModels, EditFails, Revert, Plan,
         PlanRefused, Emit, Sweep, Register, Preserve, PutBack, UndoFails, Restore, RolledBack,
         RestoreFails, Unregister, UnregisterTui, RewriteTui, RemoveManaged, Removed, Ends, GoTo, UninstallSteps
<1>2. disk[Live] = Installed(start.config)
  BY <1>1, Running DEF Original
<1>3. disk'[Live] = Installed(start.config)
  <2>1. number \in 1..MaxCommands /\ Disks(disk)
    BY <1>1, RunningNumber, Running
  <2> QED
    BY <1>1, <1>2, <2>1, DiskCleaned DEF Ends
<1>4. Sound(start.config)
  BY DEF IInv, TypesRight
<1>5. /\ Installed(start.config).soul = KeptSoul(start.config)
      /\ Installed(start.config).native = SyncedPrompts(start.config)
      /\ Installed(start.config).own = start.config.own
  BY DEF Installed, Config
<1>6. /\ start.config.soul \in {"own", "custom"} => KeptSoul(start.config) = start.config.soul
      /\ start.config.native \in {"own", "custom"} =>
            SyncedPrompts(start.config) = start.config.native
  BY <1>4 DEF KeptSoul, SyncedPrompts, Sound
<1> QED
  BY <1>3, <1>5, <1>6

-----------------------------------------------------------------------------

\* For any number of commands and of failed steps, kills and edits by others,
\* the invariant holds at every step of the installer.
THEOREM Invariance == InstallSpec => []IInv
<1>1. InstallInit => IInv
  BY InitHolds
<1>2. IInv /\ [InstallNext]_installVars => IInv'
  BY NextHolds
<1> QED
  BY <1>1, <1>2, PTL DEF InstallSpec

\* Wherever a command fails or is killed, the user's configuration is complete
\* in .o4e or in a directory that stays; a killed model edit leaves what it has
\* edited aside.
THEOREM OriginalIsKept == InstallSpec => []OriginalKept
<1> QED
  BY Invariance, KeepsOriginal, PTL

\* A failed install, import or export has changed nothing, but for a new Agent
\* file whose own writing failed half way.
THEOREM FailureIsClean == InstallSpec => []AllOrNothing
<1> QED
  BY Invariance, AllBack, PTL

\* No registration points to a file that is missing.
THEOREM RegistrationsHold == InstallSpec => []RegisteredIsThere
<1> QED
  BY Invariance, PluginThere, PTL

\* No step of any command takes away what belongs to the user, but for a file
\* whose writing in place is cut short and an edit of tui.json between its last
\* comparison and its write.
THEOREM OwnIsKept == InstallSpec => OwnKept
<1>1. IInv /\ [InstallNext]_installVars =>
        [ /\ \A f \in RuntimeFiles : f # "agent" \/ run.name = "uninstall" =>
                \/ OwnContent(files[f]) \subseteq files'[f]
                \/ f \in InPlace /\ files'[f] = {"cut"}
                \/ f = "tui" /\ pc = "rewrite" /\ run.late /\ OwnContent(snap[f]) \subseteq files'[f]
          /\ outcome' = "ok" /\ run.name = "install" =>
                \A p \in {"soul", "native", "own"} :
                    start.config[p] \in {"own", "custom"} => disk'[Live][p] = start.config[p]
        ]_installVars
  BY OwnFilesStay, OwnPartsStay DEF Kept
<1> QED
  BY <1>1, Invariance, PTL DEF InstallSpec, OwnKept
=============================================================================
