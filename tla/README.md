# PathGuard: TLA+ specifications

PathGuard (the module calls itself *folder_manager*) is a Magisk/KernelSU module
that enforces rules about files on Android's shared storage. These specifications
model the parts of it where several processes or threads meet, check them with TLC
on small instances and prove their central invariants with TLAPS.

## 1. The system

| Part | Source | State | Operations |
|---|---|---|---|
| **Daemon** | `native/folder_manager_daemon.cpp` | `g_dynamic_rules`, `g_task_queue`, `g_running`, `g_reload_requested`; the fanotify queue in the kernel | event loop (`main`), worker (`WorkerLoop`), `ReloadRules`, `HandleSignal` |
| **Rule engine** | `native/rule_engine.cpp`, `path_kind_cache.cpp` | a compiled `AppPolicy`, a cache path → kind | `ParseRulesIni`, `CompilePolicyForProcess`, `MatchPath`, `ShouldHideDirEntry` |
| **Hooks** | `native/folder_manager.cpp`, `rule_config.cpp`, `path_mapper.cpp` | `g_rule_set`, `g_rules_mtime_ns`, hooked ELF identities | `preAppSpecialize`, about 45 libc wrappers, Binder filter, reload thread |
| **Access log** | `native/daemon_utils.cpp` | `run/access.log` | append, truncate, clear; arguments of `content insert` |
| **GUI** | `Manager-GUI/.../RulesRepository.kt`, `MainScreen.kt`, `AlertWatcher.kt` | `rules.ini`, its backups, number of log lines seen | save and reload, backup, rollback, alerts |
| **Scripts** | `module/*.sh` | `run/daemon.pid` | start at boot, start again, uninstall |

How they interact:

- Applications write files. The kernel queues a fanotify event per closed or renamed
  file; the daemon's event loop reads a batch, finds the writer's package through its
  pidfd, picks a rule and either pushes a task (move, delete) or copies the file
  (export) on the spot. The worker waits 50 ms, looks whether the event's process still has the
  file open, retries up to three times, 500 ms apart, then renames, copies or unlinks.
- The GUI (or a shell) writes `rules.ini` in place and runs `reload.sh`, which sends
  SIGUSR1 to the pid in `daemon.pid`. The daemon's handler sets a flag that the event
  loop looks at once per iteration. Hooked applications poll the modification time.
- When an application starts, its mapped libraries are patched to call the wrappers; when a
  patched library calls `dlopen`, what that loaded is patched before it returns.
- A hooked call of the C library holds `g_rule_mutex` shared while `MatchPath` decides, with
  the cache of kinds that all threads of the application share; the reload thread holds it
  exclusively. After a redirected `unlink` or `rmdir` the hook invalidates both names.
- SIGTERM stops the daemon: the handler itself locks the queue (`TaskQueue::Stop`).

What is hard about it: the two threads and the handlers on top of either; the
applications, which touch the same files at any moment; events that are dropped, merged
or judged after their writer has exited; copies that fail half way or whose source
changes; a rules file that is read while it is written; signals that arrive before
somebody listens. `PROJECT.json` lists each such point with its line ("hazards").

What makes each part correct:

- *queue and threads*: mutual exclusion, no lost wakeup, a bounded queue that sheds one
  task and prefers one of the same path, shutdown on a signal, all tasks worked off;
- *rule selection*: the deepest rule wins, a filter is not hidden by a catch-all, the
  comparator is one `std::sort` accepts;
- *file handling*: no file is forgotten without a reason the code knows, no content
  disappears unless a rule says so, files that nobody touched stay;
- *reload*: no reload is lost, no change of the file is slept through, both readers
  have the file's rules in the end;
- *parser*: a file that is accepted means what it says (it does not for some redirects, see 5), and no
  line adds a rule to another section than the one it stands in;
- *hooked calls*: a call is treated as rules say that were in force while it ran, about the path
  the kernel acts on; a listing shows all that is not hidden, and ends;
- *patched libraries*: what `dlopen` loads is hooked when it returns, and what is taken for
  hooked is;
- *rule engine*: the buckets find what a search of all rules would, a whitelist blocks no
  directory on the way to what it lets through (neither is true of all rules with wildcards, see 5);
- *cache*: what one thread learns of a path, calls of other threads on other paths leave alone,
  and no reload takes the rules away under a search;
- *log and alerts, backups, pid file* (planned): no entry reported twice or skipped, a good
  backup survives, one daemon runs and the pid file names it.

## 2. Modules

| Module | Models | Kind |
|---|---|---|
| `BoundedQueue` | what users of the queue may expect | abstract specification |
| `TaskQueue` | contents of the deque after `Push` | operators |
| `DaemonThreads` | threads, mutex, condition variable, signal handlers | state machine, implements `BoundedQueue` |
| `Paths` | a path as the sequence of its names | operators |
| `DaemonRules` | `BuildDynamicRuleSet`, `Find*Rule`, `Build*Target` | operators |
| `Daemon` | event loop, worker, reload, applications, file system | state machine, uses `DaemonRules` and `TaskQueue` |
| `RuleReload` | rules.ini, GUI, daemon start and reload, hooked application | state machine |
| `RuleEngine` | `CompilePolicyForProcess`, buckets, matching of one rule, defaults | operators |
| `PathKinds` | threads of an application in `MatchPath`, the cache of kinds, removals, reloads | state machine, uses `RuleEngine` |
| `DaemonConfig` | `rules.ini` as the daemon compiles it (`BuildDynamicRuleSet` of what was parsed) | operators, uses `RulesIni`, `DaemonRules` |
| `DaemonThreadsProofs`, `DaemonProofs`, `RuleReloadProofs`, `PathKindsProofs`, `RulesIniProofs`, `PathMapperProofs`, `HooksProofs`, `PltHooksProofs` | | theorems |
| `RulesIni` | `ParseRulesIni` and `ValidateParsedRules`, line by line | state machine |
| `PathMapper` | `path_mapper.cpp`, resolution of paths, and where the kernel gets to | operators |
| `Hooks` | the wrappers of the C library, listings, reload of rules and gate | state machine, uses `RuleEngine`, `PathMapper` |
| `PltHooks` | registration and commit of PLT hooks at start and in `dlopen` | state machine |
| `MC*` | | instances for TLC |

The composition is one of granularity: `DaemonThreads` has every lock and unlock and no
files, and shows that `Push` and `Pop` are atomic; `Daemon` uses them as atomic steps (the same operator
`Pushed`) and has the files. Likewise `Daemon` takes `rules.ini` as saved at
once, and `RuleReload` shows what the pieces of a save do. `PathKinds` takes a reload
as one step for the same reason: the new rules replace the old ones under the lock. `Hooks` uses the
rules of the engine by what they may answer (`Outcomes`), and an action property of `PathKinds`
(`DecidesAnOutcome`) shows that its searches, step by step and with the cache, answer no other way.
`DaemonConfig` composes the parser with `DaemonRules`: the rules it asks about are those of a file.

### RulesIni

`text` is what has been read, `active` the kind of the section the next line goes to
(`active_section` with the three pointers), `sections`, `accessible` and `exports` what has been
parsed and `errors` the lines in error, 0 for a file that lacks something. One step reads one line: `OpenSection`,
`RefuseSection`, `ReadOption`, `ReadRule`, `ReadAccessible`, `ReadExport`, `SkipLine` or
`RefuseLine`; `EndOfFile` validates. A line is a record of what its characters come to: trimming,
splitting at `=`, `->` and `@types` are left out, and that a line is
taken for an option by the word it begins with is kept: a redirect has that word (`word`) and what stands before and behind
its first `=` (`key`, `value`), and the options and fields are looked for before the rules, as in the code (`TakesOption`,
`TakesAccessible`, `TakesExport`). So a redirect may be read as a setting (`Misread`), be an error, or be a rule. Options that nothing reads later
(`trash`, ages, sizes) are accepted and forgotten, as in the code.

### PathMapper

A spelling says whether the path begins with a slash and what stands between its slashes, ""
where two follow each other and after one at the end. `Collapse` is `fm_collapse_absolute_path` name by
name, the slash it leaves behind a last ".." included; what does not fit the buffer has no
result. `NormalizedInPlace` is what `fm_join_path` and the resolution of a descriptor do with
it: they collapse the path in the buffer that holds it, so a path that is not of the storage is cut off
by the first slash written. `fm_resolve_fd_path` is what both the calls with a descriptor and the listings take a directory for. `Reached` is no code: it is where the kernel gets to, with the aliases as links.

### Hooks

`calls[t]` is the call a thread is in: the paths it is asked to judge, the answers so far, and
what it did. The wrappers differ in what they share: whether they take a descriptor, whether they
follow a redirect, what error they give and whether they forget what they removed. These are sets
of function names (`TakeDirectory`, `NotRedirected`, `Removals`, ...), and the steps `ReadFlags` (without
the lock), `Ask` (under it), `Refuse` or `Make`, and `Forget` are common to all. A listing is
`Take`, from the kernel, and `Filter`, entry by entry; an entry is judged by its name behind what
the directory's descriptor resolves to (`JudgedEntry`), which is "/" for a directory outside the storage, and shown if that is too long. The reload is `ReloadRules` (under the lock, it replaces
the rules), `ReloadFlag` and `ReloadGate`, since calls look at both flags without the lock.
`during` and `gates` are history: what rules and gate have been since the call began. There is
no file system; a call that is made is recorded with the paths it acts on.

Abstracted: flags of `open`, `faccessat` and the like, which are handed on; results of the kernel
other than whether a removal succeeds; log lines; what `Hooks` shares between threads beyond rules
and flags is the cache, which is in `PathKinds`.

### PltHooks

`registered` is what Zygisk would patch at the next commit, `patched` what it has patched,
`tracked` is `g_hooked_identities`. `Start` is the installation at the start, by the one thread
there is; a call of `dlopen` that reaches the wrapper goes through `Collect` (reads
`/proc/self/maps`), `Select` (leaves out what is tracked), `Register` and `Track` per library,
`CommitNew` and `Return`, with any steps of other threads in between. What a failed commit patches
and whether its registrations are tried again is not known of Zygisk: any part, and
either. `Unload` is `dlclose`, after which a library is mapped afresh. `unloaded` and `spoilt` are
history variables.

### DaemonThreads

`pc[t]` is the step a thread is at in its own code, `handlers[t]` the signal frames on
its stack; `Deliver` puts `HandleSignal` on top of whichever thread the kernel picks
while it is at any step. One action is one lock, unlock or stretch between them:
`PushLock, PushBody, PushNotify, PushUnlock`, the same for `Stop`, and for `Pop`
`PopLock, PopCheck, (wait) PopWake | PopSpuriousWake, PopTake, PopUnlock`.
`signals` is what is still to come (each of SIGTERM and SIGINT once), `arrived` numbers
the events. The file system is absent: `WorkerRetry` and `WorkerFinish` are the two
outcomes of looking at the file.

### DaemonRules

A path is the sequence of its names; a compiled rule is a record. A glob is the set of names
or paths it fits, `@types` the set of names it lets through. What the code compares as
strings is kept apart from what it means: `size` is the length of the source as a
string and `lex` its rank, so that the comparator (`Before`) works on what the code
works on and the properties are about depth in the tree. `Foremost` is a set because
`std::sort` is not stable: more than one rule may come first when rules tie.

### RuleEngine

The rules of the hooks. A parsed rule says where its wildcards stand (`glob`) and which paths
they fit (`fits`); `Compile` gives each rule a kind, `Rank` is the order of
`ordered_rules`, `BucketKey` the names below which a rule is kept. `Searched` are the rules
`MatchPath` looks at for a path and `Sooner` is the order it does so in: bucket by bucket, deepest
first. `DefaultDecision` is what happens when none matches. `Surely` is no code: a rule is
sure to match a path if it does so whatever its kind turns out to be.

### PathKinds

`policy` is the compiled section in force, `cache` the kind of each path that a rule of
unknown kind names (entries of other paths are never looked up), and `calls[t]` the call a
thread is in. `Begin` enters the kind of the path that the call implies, `Visit` looks at the
next rule, and a call that finds no kind in the cache for it enters its own in a step
of its own, `Learn`: another thread may have done so in between. `Return` makes or refuses the
call and `Invalidate` forgets one name. `Reload` waits until no thread searches.

Abstracted: what is on disk when the rules are compiled is a constant; a section without
rules stands for no section; redirected paths that
are too long for the buffer, hit counts and statistics.

### Daemon

`names` maps paths to inodes (0: none), `data` inodes to a version of the content
(0 while it is written), `handles` are open files of applications. Events and tasks
carry paths; a file keeps its handles when it is renamed. Applications open, read,
close, rename, unlink and exit at any time (`ops` numbers them and their versions).
The kernel's queue merges events of one process on one name, and loses what exceeds
`KernelLimit` (the code skips the overflow record). The event loop: `MainRead`
(pidfds are made for the processes that are alive), per event `MainSkip`, `MainQueue`,
`MainIgnore` or `MainExport`, which copies in two steps. The worker: `WorkerPop`,
`WorkerCheck | WorkerRetry | WorkerGiveUp`, then `WorkerRename | WorkerNoMove`,
`WorkerCopy, WorkerCopied | WorkerCopyFailed, WorkerUnlink` across file systems, or
`WorkerDelete, WorkerDeleteTree`. The reload: `ReloadRead, ReloadDelete*, ReloadInstall`. A sweep (`todo`, `loading.files`) comes to the paths of
its directories one by one while applications go on, whether there is a file by then or not: one that appears in a place still to come is removed, too.
`missed`, `writer` and `touched` are history variables the properties use.

Abstracted: directories exist when they are needed and `delete_dirs = empty` removes
only directories; a path that several delete rules cover is come to once in a cleanup; permission errors; more than one storage user; media scan, Downloads
entries and the access log; the milliseconds of the waits (any time may pass).

### RuleReload

A content of the file says whether it parses, what it has for the application
and whether it is what somebody meant to save. A save is `SaveOpen` (the file is
truncated or partly filled), `SavePiece`*, `SaveEnd`, `SaveSignal`, and may be cut off by
`SaveAbort`. `now` is the coarse clock that stamps the file. `service.sh` starts the daemon
(`Service`) and then notes its pid (`NotePid`); `boot-completed.sh` starts it again if
it is gone. The daemon loads before it listens (`DaemonLoad`, `DaemonListen`), and
reloads in `DaemonExchange, DaemonRead, DaemonInstall`. The application loads before
it looks at the time (`AppLoad`, `AppStat`); its thread does it in the other order
(`ThreadStat`, `ThreadLoad`). `ThreadCrash` is the outcome of freeing an uninitialised
pointer, which the code does at the start of every reload. `told` and `missed` are
history variables.

Assumed of the environment: `boot-completed.sh` runs after `service.sh` has noted the pid,
and no pid file of an earlier boot names a living process. `reload.sh` is not in the repository;
`docs/reload-protocol.md` says what it does.

## 3. What is checked

| Run | Instance | Shows |
|---|---|---|
| `threads` | 2 paths, queue of 2, 3 events, 1 retry | `TypeOK`, `MutualExclusion`, `NoLostWakeup`, `ImplementsQueue`, `Shutdown`, `QueueDrains` |
| `daemon` | 1 application, 3 directories, 2 of them on different file systems, 3 operations | `TypeOK`, `NothingForgotten`, `ContentSurvives` |
| `daemon_exports` | 2 applications, 2 directories of 2 files, exports, sweeps, a reload that cleans up, 2 operations | `NothingForgotten`, `ContentSurvives`, `OldFilesStay` |
| `daemon_live` | 1 application, 2 files, exports, deletions, 1 save | `Drains`, `ReloadHappens` |
| `rules` | all files of up to 5 of 28 lines, parsed and compiled; 3 paths | `TypeOK`, `RulesStayInTheirSection`, `FileMeansWhatItSays`, `LongestRuleWins`, `FilteredFirst` |
| `reload` | 7 contents, 2 saves, clock of 2 | `TypeOK`, `NoLostReload`, `NoMissedChange`, `DaemonConverges`, `AppConverges` |
| `path_kinds` | 2 threads, 8 paths, 4 operations, 4 sections of 2 to 5 rules | `TypeOK`, `SearchesRulesInForce`, `PlainRuleDecides`, `LearntKindStays`, `WayStaysOpen`, `DecidesAnOutcome` |
| `hooks` | 1 thread, 21 calls, 2 kinds of listings of 4 directories, 2 sections, reloads and the gate | `TypeOK`, `DoneAsSomeRulesSay`, `JudgedIsActedOn`, `ListingComplete`, `ForgetsWhatItRemoved`, `CallsReturn` |
| `plt` | 2 threads, 3 libraries, of which 2 fit the table, 2 calls of `dlopen` | `TypeOK`, `TrackedIsHooked`, `ReturnsHooked`, `LoadedGetsHooked` |
| `patterns` | the example of all options in the repository's README | `AnyRuleDecides` is violated |
| `daemon_cross` | as `daemon` | `TakesWhatItCopied` is violated |
| `reload_crash` | 5 contents, 1 save | `AppSurvives` is violated |

Every property has a mutated definition of the code (listed in `PROJECT.json`, defined
next to what they mutate) under which TLC finds it violated in the same run.

**Bounds.** The queue limit (256 in the code) is 1 or 2: a full queue, with and without
a task of the same path, needs no more. Three events fill a queue of 2 while the worker
holds a task. One retry (3 in the code) tells the first attempt, a retry and the last attempt apart. Two
or three operations of applications are the shortest stories in which a file is
closed, replaced and handled; `MaxOps` also bounds the versions. `KernelLimit = 2`
lets the kernel's queue overflow. Two saves let a reload be overtaken; two values of the clock give
saves within and across a tick. Two threads of an application are enough for one to enter a
kind, or to reload, between two steps of the other. The sections hold every
action, rules of the root, of one name and of two, rules of known and unknown kind, both
forms of wildcards, `@types`, and both modes; the paths lie at, above and below them. One whitelist lets through
by wildcards only, so that nothing but a rule with one keeps a directory above it open. `Inode` is ample: a new file always finds one.
Five lines hold a header, settings or rules, and a second header that is refused or
replaces the section; the lines include each kind of section, each kind of error, rules that tie
in length, and redirects that the parser takes for settings (`trash_dir => /t`, `mode/x -> a=whitelist`, `path => /t` in a
sub-section) or for an error (`modern -> /t`). One thread is enough in `hooks`: the threads of an application hold the lock shared, so a
call meets only the reload, which may run any number of times. Its calls cover every
set of wrappers and every way of writing a path that the code tells apart: aliases, their look-alikes, ".", "..",
double and trailing slashes, descriptors of directories in and outside the storage, relative paths, and paths longer than `MaxNames`. Chunks of 2
of 4 entries give one that is hidden as a whole; the directories listed are one of the storage, the root with a link to the storage in it, one
elsewhere, and one whose path is too long. Three libraries with room for two make the table overflow;
two threads with a `dlopen` each are what it takes for one to find tracked what the other has not committed.

**Fairness.** The threads of the daemon and the reload thread of the application are
scheduled by the kernel: weak fairness of each. Mutex acquisition is strongly fair in
`DaemonThreads`, because a thread that keeps asking for a mutex that keeps being free gets it
in the end. In `Hooks` the steps of a call are strongly fair: the reload thread does not keep the lock and sleeps for a second
between two reloads, so a call that waits gets the lock even if rules are
reloaded for ever; the steps of a reload are weakly fair. In `PltHooks` a thread inside
`dlopen` goes on. Nothing is assumed of applications, of signals, saves, spurious wakeups
or failing copies. `BootNext` is fair: boot goes on.

**Deadlock** is checked in `path_kinds` and `hooks`, where a thread can always go on. The other models
stop when applications, signals, saves, lines and loads are used up. A handler that waits for the mutex of the code it interrupted is
`SelfDeadlocked` in `DaemonThreads`; `Shutdown` holds except for it.

## 4. What is proved

All theorems hold for every value of the constants that satisfies the named assumptions, and tlapm
checks them to the last leaf. What the assumptions say of substance: limits are positive
(`QueueLimitAssumption`, `ThreadsAssumption`, `LibrariesAssumption`); the daemon starts with rules it could load
and no path is on another file system than itself (`DaemonAssumption`, `ConfigAssumption`); `Path` has
every path a rule sends a file to (`PathAssumption`); the directory above a path has a
shorter string, and strings that sort alike are alike (`SectionAssumption`, `RulesAssumption`,
`SourceAssumption`); the key of a section's header has one part or three (`LineAssumption`); a listing is no call
on a path, entries are names, "." or "..", and a descriptor is of a directory whose path has no dots and no link in it, which is how
`/proc/self/fd` has it (`CallsAssumption`); a pattern of names fits names of one directory (`SectionAssumption`); a pattern for names does not fit the path without names (`RulesAssumption` of `Hooks`);
the paths of the storage are written plainly and none is below another (`PathsAssumption`); no directory of the root is called what
the model calls the storage (`RootFact`). `NamesFact` says no more than that "", "." and ".." are strings, for the provers
have the set of strings without its literals. TLC evaluates each of them on the runs' constants.

- **DaemonThreadsProofs**: `TypeCorrect`, `Exclusion`, `WakeupCorrect`, `QueueImplemented`.
  Mutual exclusion is not inductive: an owner must be known not to have a second frame
  inside the critical section, so the invariant says for every thread and every frame
  of its stack who holds the mutex. The wakeup needs that the queue changes only under
  the mutex and that whoever has pushed has the notify still before it.
  The refinement follows from it: the deque changes only in `PushBody` and `PopTake`,
  and each maps to a step of `BoundedQueue`.
- **RulesIniProofs**, the order of the rules: `BeforeIrreflexive`, `BeforeTransitive`, `TiesTransitive`: the
  comparator is a strict weak order, for otherwise `std::sort` would be undefined
  behaviour. `ForemostIsDeepest`: of rules without wildcards that name a path or one of its directories
  the first after sorting is the deepest, if a directory's string is shorter than that of
  everything below it. `ForemostIsFiltered`: of rules on one source those with a filter come first.
- **DaemonProofs**: `DaemonTypeCorrect` (`TypeOK`), `NothingIsForgotten` (`NothingForgotten`), `ContentIsKept`
  (`ContentSurvives`), `OldFilesStayThere` (`OldFilesStay`), for any rules, applications, paths and limits of both queues. There are five
  invariants. `TypeInv` has the types and what the worker's step says of its task and of the copy under way.
  `Named`: no file has two names, and an open file is known by the name it has; a rename would otherwise change
  what a handle writes to. `Heard`: a path on its way from the kernel to the worker was written to since the daemon
  watches, so no task concerns a file that nobody touched. `Steady`: while nobody has interfered with
  a copy across file systems, source and target are the files it began with, and when it has ended they hold the same, so the
  unlink loses nothing. `Remembered` is what `NothingForgotten` needs at every moment and not only at rest:
  the last event on each path is in the kernel's queue, in the batch, in the queue, with the worker, or the file is one that is being
  copied, or it is settled. It follows one event through all five places, through merging,
  overflow, shedding, retries and failed copies; it is about the rules loaded at start, as the property is.
- **RuleReloadProofs**: `ReloadTypeCorrect`; `ReloadsKept` (`NoLostReload`), whose
  invariant adds that only a running daemon has been told anything and that none runs before
  `service.sh`; `ChangesNoticed` (`NoMissedChange`), whose invariant also covers the thread
  while it reloads and the time before its first look.

- **PathKindsProofs**, the buckets: `PlainRulesFound`, `PlainRulesInOrder`: for a rule without wildcards
  that is sure to match, the search by buckets is as good as one of `ordered_rules`. A
  rule in a deeper bucket that is looked at sooner lies below the other, so it is
  longer. This fails for wildcards, see 5.
- **PathKindsProofs**, the threads: `TypeCorrect`, `SearchesSafe` (`SearchesRulesInForce`),
  `PlainRulesDecide` (`PlainRuleDecides`) and `KindsStay` (`LearntKindStays`). The invariant says of every search that it has left
  only rules it is to look at, that none of those it has gone past was sure to match,
  and that a rule whose kind it is about to enter is still its next; it survives what other threads
  enter, because being sure to match does not depend on the cache, and a reload,
  because no thread searches then. With it and the two theorems on buckets, whatever decides was
  not preceded by a plain rule that is sure to match. `SectionAssumption` says
  what parsed rules are; of substance is that a path is longer than a directory above it. `KindsStay` goes over the
  actions that write the cache: each writes at the path of the call, at one it is to forget, or at the rule's that it has just
  looked at and not found in the cache. `OutcomesDecided` (`DecidesAnOutcome`): every rule the search has gone past failed to
  match with some kind it may have, so if the kinds are chosen that way the same rule comes first in a
  single look at all of them. `WaysStayOpen` (`WayStaysOpen`): where no rule matches and the
  path is blocked, nothing below it is let through. By default, because a path that is allowed has all above it among `whitelist_allow_paths`; by a rule,
  because a rule that is sure to match below names a path below, at or above the one that is blocked: if above or at it, the rule would be sure to match that
  path as well, and the search would have found it (`PlainRulesDecide`); if below, the path is one of its ancestors and is let through. A pattern of names lies
  in the directory of what it fits (`AboveParent`), so it is below the path. The rules it does not speak of are those for which the code fails, see 5.

- **RulesIniProofs**, for any set of lines and files of any length: `ParserTypeCorrect` (`TypeOK`); `RulesPlaced`
  (`RulesStayInTheirSection`): a parsed rule points at its line, and lines are only appended, so what was placed stays so;
  the rule of the next line goes to the last section, and the invariant adds that while a section of a package is active it is
  the last one and the latest header is its own, and that none is active behind a refused header. `FileRead` (`FileMeansWhatItSays`):
  the invariant `Meaning` adds that the header of an active section of any of the three kinds is the latest, that a header
  without an error has opened its section, and that the rules of a section are in the order of their lines. Redirects that are taken for settings are
  excepted as rules (`Misread`) and included as settings: each line stands as what it is read as unless a later one is read as the same setting.
- **RulesIniProofs**, the composition: `LongestRuleTaken` (`LongestRuleWins`) and `FilteredRuleTaken` (`FilteredFirst`) go from the text of
  a file to the rule the daemon takes for a path. With `Meaning`, and with `OpenedOnce` (a section of a package is opened once),
  every rule that is written under a package is among those the daemon sorts, unchanged in what the order looks at;
  with the theorems on the order the one it takes is as deep, and as much filtered, as any of them.
- **HooksProofs**: `DoneAsRulesSay` (`DoneAsSomeRulesSay`), for any number of threads, calls and sections. The invariant
  says that every answer a call has had is one of rules in force while it ran, that a call under way has
  met the rules there are, those a reload is about to replace and the gate, and that `shouldHook` is unset only
  while there are no rules, or before the reload that brought them has stored it (`FlagStands`). The last is what makes it safe
  to read the flags without the lock.
- **HooksProofs**, listings: `MatchPathAnswers`: rules always give an answer. Rules are finitely many and the order in which
  the buckets are searched is irreflexive and transitive (it compares depth first, then the order of the rules), so some rule
  comes first. `ListingsComplete` (`ListingComplete`) needs it: if there were no answers, none would hide an entry, and none
  would have to show it. The invariant (`ListingsRuled`) says of a listing under way that its chunk is the part of the
  directory before `next`, that each entry before it was shown or hidden by rules met, and that each shown was not hidden by some. That an entry is judged
  as the path the kernel gets to by it (`EntryJudged`) goes by `CollapseLeads`, as for calls; for a directory outside the storage other than the root it is not so, and the
  theorem says there only that the listing does what rules say of the entry in the root.
- **PathMapperProofs**: `CollapseLeads`: where `fm_collapse_absolute_path` has a result, its text leads where the kernel is led by
  the path as it was written, up to slashes at the end. The two are recursive functions over the same names. An induction theorem with an operator
  as parameter is of no use to the provers, so the proof takes the first name behind which the two would differ (`LeastNat`) and shows that
  they do not: the text before it has no empty name but one at its end, no dots, and without that slash it is where the kernel is (`IsLead`). A ".." is the step to think about, since the text keeps a slash there that the next name must not be put behind. That the alias at the front
  may be replaced first (`UnaliasedReached`) needs that none of the paths of the storage is below another. The theorem excepts
  paths that come by an alias later (`NoAliasLater`), for the code follows no links.
- **HooksProofs**, paths: `ReadableJudged`: for each of the ways to write a path that `Readable` admits, absolute or relative to a
  descriptor, what `MatchPath` is asked about and what the cache of kinds forgets are both the file the kernel acts on. It goes by `CollapseLeads`
  for what is collapsed and by the plainness of names for what the engine takes as written (`rule_engine.cpp:297`).
- **HooksProofs**, calls: `TypeCorrect` (`TypeOK`), `JudgedWhereItLeads` (`JudgedIsActedOn`) and `ForgottenByBothNames` (`ForgetsWhatItRemoved`),
  for any number of threads, calls, ways of writing a path and sections. The invariant `Wholes` traces a call to what was asked for: what it asks about and where it leads are those of one
  call that the application may make (`OfCall`), and what it removed is forgotten name by name (`Forgotten`). It is inductive together with the invariants
  of `DoneAsRulesSay` and `ListingsComplete`: the types need that an answer is one of rules that were in force, and that a
  listing is at an entry. A reload may come between the two erasures of `ForgottenByBothNames`, and the flag is read anew for each: it is set, for
  there have been rules all the while (`FlagStands`).
- **PltHooksProofs**: `TypeCorrect`, `TrackedHooked` (`TrackedIsHooked`), `ReturnsSafely`
  (`ReturnsHooked`), for any number of threads and libraries. The invariant follows one library through a call of
  `dlopen`: at each step of the call it is patched, or tracked by another that is about to commit it, or found,
  left to register or registered by this one. It needs that a finite set that is cut off at
  the limit is not cut off while all libraries ever mapped fit (`AtMost`), and that a registration
  lasts until a commit that patches it, or spoils it.

While proving, four statements turned out wrong or too weak, and were corrected: `ForemostIsDeepest` assumed of all rules
that deeper ones have longer strings, which no set with wildcards satisfies (`/d/*.jpg` is as deep as `/d`); `FilteredFirst` compared rules of the
same directory, where wildcards of different patterns have different sources; in `Daemon` a failed copy could lose the
event of the file it left behind without being noted in `missed`, and the daemon's own writes did not count as interference with
the worker's copy (`touched`).

The last step of the proof of `OldFilesStayThere` needs an invariant of the cleanup: what it has still to come to is what the rules that are being loaded clear
(`ClearedByRules`), so that the reload is no excuse for the worker and not for other files.

So did the attempt to prove `JudgedIsActedOn` and `ForgetsWhatItRemoved`. A path relative to a descriptor outside the storage is not
judged by what it says but as "/", because it is collapsed in its own buffer; the model had it right only for descriptors of the storage, and no call of the run had another. An
empty path with a descriptor is not judged at all. `Forget` waited where the path given is too long to be read, and took a redirected path
as it stands although the code reads it like any other. `Readable` and `ForgetsWhatItRemoved` now name what is excepted, and the run has calls below
both kinds of descriptors and with an empty path.

Every invariant and every action property of the passing runs is proved. Only model-checked is liveness, because fairness and ENABLED are beyond the prover: `Shutdown`,
`QueueDrains`, `Drains`, `ReloadHappens`, `DaemonConverges`, `AppConverges`, `CallsReturn`, `LoadedGetsHooked`.

## 5. Disagreements with the documents

Shown by a run (quotes in `PROJECT.json`, "findings"): the rule `Download/*.pdf` of the README's
example never matches, for it is kept in a bucket named `*.pdf`; a move across file systems deletes what was written since the copy
began; a reload in an application frees an
uninitialised pointer.

Stated in the modules, and violated when TLC is given them as an invariant or property of the runs `rules`, `path_kinds` and `reload`:

- `DisabledStaysAlone` (`DaemonConfig`): one disabled section keeps the daemon from loading any rules
  (`folder_manager_daemon.cpp:1206`), against `docs/rule-format-plan.md:146`.
- `RedirectsAreRead` (`RulesIni`): a redirect may be lost without an error, because lines are tried as options before rules (`rule_engine.cpp:1075`).
  `trash_dir => Backup` sets a directory that nothing reads (1166-1196), `mode/x -> a=whitelist` sets the mode (1075-1089). `docs/rule-format-plan.md:172`
  and `:194` have `->` and `=>` after any path mean a redirect. In a sub-section `path => /x` is taken for its field (1279-1294), `modern -> /t`
  is an error, and any key that begins with `mode` sets the mode.
- `EveryWayStaysOpen` (`PathKinds`): what a whitelist lets through besides its rules is the text of their sources and of the directories above
  (`rule_engine.cpp:1588`, 629-639), so `+ DCIM/*/Sub` lets DCIM/Camera/Sub through in a directory DCIM/Camera that is blocked, where
  `tests/matcher_tests.cpp:184` has `WhitelistAllowsAncestorsOfAllowedPath`, and `docs/rule-format-plan.md:283` wildcards in directories. A redirect with a filter,
  `DCIM -> Backup @types=jpg`, likewise blocks DCIM/Camera but not DCIM/Camera/x.jpg.
- `AppFollows` (`RuleReload`): a save between an application's first load and its first look at
  the time (`folder_manager.cpp:2648`) is never noticed, against `README.md:210`.

Met while modelling and reproduced with the same models, without a run of their own:

- A retried task that finds the queue full displaces a newer one of its path
  (`folder_manager_daemon.cpp:1584`), against the comment in `Push` (line 197).
- A call on a path below a rule of unknown kind enters the kind of its own path as that of the
  rule's (`rule_engine.cpp:741`, `Learn`). A file created below it makes the rule a file rule that
  no longer covers its directory, where `docs/rule-format-plan.md:443` has it a directory
  by default. Listing a directory likewise enters every child as a directory (line 1875).
- A call that missed the cache may overwrite what another has entered since about the path
  itself (`LearntKindStays` excepts it), where `docs/rule-format-plan.md:507` has the cache
  become ever more accurate.
- The hooks invalidate what they removed only if a rule redirected the call
  (`folder_manager.cpp:1871`); `docs/rule-format-plan.md:805` would have it for each `unlink`.
- A rule with wildcards in a directory is kept under what comes before them, so shorter rules
  of deeper buckets are looked at first, against `docs/rule-format-plan.md:648`.
- `rules.ini` is written in place (`RulesRepository.kt:179`), where `docs/gui-prototype.md:96`
  has a temporary file that replaces it; a reader may install a part that parses.
- SIGUSR1 before the handlers are installed (`folder_manager_daemon.cpp:1722`) kills the daemon.
- A section that loses its last rule for the hooks counts as a failed load
  (`rule_config.cpp:237`), and the old rules stay in force in running applications.
- A file is moved while another process writes it (`folder_manager_daemon.cpp:1580`).
- The daemon's own moves are events, and a `[*]` rule may move the file on;
  `docs/rule-format-plan.md:844` has a redirect happen once.
- `copy_file_range` returning 0 spins (`folder_manager_daemon.cpp:622`) and with it the
  event loop, if the copy is an export.
- The rules of `[*]` are not sorted (line 1262), against `docs/rule-format-plan.md:648`;
  and the daemon takes only `=>` (line 1213), though the README's `[*]` example has `->`.
- `rename`, `link` and `symlink` are made as they are where a rule redirects their path
  (`folder_manager.cpp:2245`); `docs/rule-format-plan.md:177` has any access redirected.
- `rename` and `link` read the type of a decision that was never filled in when no rules were
  asked (`folder_manager.cpp:2263`): they may be refused (`DoneAsSomeRulesSay` excepts it).
- A chunk of `getdents64` of which every entry is hidden reads as the end of the directory
  (`folder_manager.cpp:2140`).
- Listings hide entries while the gate is shut: `fm_should_hide_dirent_from_dir` does not look at it.
- A relative path given to a wrapper without a descriptor is judged as if below the shared
  storage, whatever the working directory (`rule_engine.cpp:297`).
- Below `/storage/emulated/0` such a wrapper judges ".", ".." and double slashes as written, where the wrappers with a
  descriptor and the invalidation of the cache collapse them.
- A path that ends in ".." keeps a slash at its end when it is collapsed (`path_mapper.cpp:70`)
  and is judged and forgotten with it (`Readable` excepts both).
- A path relative to a descriptor outside the storage is judged as "/", whatever it is (`path_mapper.cpp:188`, `folder_manager.cpp:463`): it is
  normalised in the buffer it stands in. An empty path with a descriptor is not judged (`Readable` excepts both).
- `README.md:255` and `docs/device-test.md:140` have only the libraries hooked that are mapped at the start;
  `my_dlopen` hooks those loaded later.
- A library is tracked before its commit (`folder_manager.cpp:2574`), where line 578 tracks it only if the commit
  succeeded: after a failure it is never hooked. Nor is one that is unloaded and loaded again, or beyond the limit of 512.
- The README's example of all options is not accepted: lines with a comment behind the value, comments with `;`,
  `trash_on_redirect` (the key is `trash_redirect`), and the `[*]` section without a mode are errors.
- The entries of a directory outside the storage are judged as if the directory were "/" (`folder_manager.cpp:463`): a rule for `/tmp` hides `tmp` in every such
  listing, and none for `/data/x` is seen in that of `/data`. Entries whose path is too long are shown (`rule_engine.cpp:1863`).
- Trash and `min_age_days` of the README are not implemented; `README.md:256`
  excludes renames that the daemon watches (`FAN_MOVED_TO`).

## 6. Not modelled, and the plan

Left for later, in this order:

1. Proofs: that the searches of `PathKinds`, with cache and reload, implement the one step that `Hooks` takes them for.
2. Other processes that change the file system below the hooks, and what stale kinds decide then.
3. The access log that the daemon truncates while the GUI counts its lines (`AlertWatcher.kt:47`:
   alerts are lost or repeated), the backups and rollback of `RulesRepository`, the pid file over several boots.

Hazards seen and left out of `PROJECT.json` for want of a property: the daemon's own moves come back as events
(line 1884 of the daemon), a pid is reused while a task waits (1010), a task is carried out after
its rule is gone (1589), and an application that starts without rules has no hooks later (`folder_manager.cpp:2654`).

Not modelled: the media query filter (SQL text and bundles through JNI), the
cache of Java classes, `rule_cli` (calls the engine for a person to read), characters (trimming, number
formats, globs on text), screens and charts of the GUI, tests and benchmarks.
