------------------------------- MODULE Daemon -------------------------------
(***************************************************************************)
(* folder_manager_daemon at work on a storage that applications write to:  *)
(* from the fanotify event of a closed or renamed file through the rules   *)
(* to the task the worker carries out, with the reload of the rules in     *)
(* between.  The queue is taken as atomic here; DaemonThreads shows that   *)
(* its locks make it so.                                                   *)
(*                                                                         *)
(* An application, the event loop and the worker each take one step at a   *)
(* time, split where another one can slip in: between the check that a     *)
(* file is closed and the rename, between the start and the end of a copy, *)
(* between the deletions of a cleanup.                                     *)
(***************************************************************************)
EXTENDS DaemonRules, TaskQueue, FiniteSets

CONSTANTS
  Proc,            \* application processes
  DaemonProc,      \* the daemon itself, as the writer of an event
  NoPid,           \* the event's writer is gone, or unknown
  PackageOf,       \* the package name read from the cmdline of a process
  Path,            \* paths files can have
  Crosses,         \* <<p, q>>: rename(p, q) fails with EXDEV
  Config,          \* contents of rules.ini, parsed
  InitialConfig,   \* the one loaded at start
  Initial,         \* the paths of files that exist when it starts to watch
  Inode,           \* a set 1 .. n, ample for the files and open handles
  kMaxRetryCount,  \* times a task goes back because its file is open (3)
  KernelLimit,     \* events the fanotify queue holds (16384)
  MaxOps,          \* bound: operations the applications perform
  MaxSaves         \* bound: times rules.ini is saved

ASSUME DaemonAssumption ==
  /\ DaemonProc \notin Proc /\ NoPid \notin Proc \cup {DaemonProc}
  /\ InitialConfig \in Config /\ Initial \subseteq Path
  /\ kMaxRetryCount \in Nat /\ MaxOps \in Nat /\ MaxSaves \in Nat
  /\ KernelLimit \in Nat \ {0} /\ Inode \subseteq Nat \ {0}
  /\ \E f \in [Initial -> Inode] : \A p, q \in Initial : f[p] = f[q] => p = q
  /\ \A p \in Path : <<p, p>> \notin Crosses

(* What the proofs need of the configurations: rules are records, the one  *)
(* that is loaded at start has rules, and Path has every path to which one *)
(* sends a file.                                                           *)
ASSUME ConfigAssumption ==
  /\ Builds(InitialConfig)
  /\ \A c \in Config :
       /\ Len(c.sections) \in Nat /\ DOMAIN c.sections = 1 .. Len(c.sections)
       /\ \A i \in DOMAIN c.sections : \A r \in SeqRange(c.sections[i].rules) :
            {"action", "path", "kind", "dirs"} \subseteq DOMAIN r

ASSUME PathAssumption ==
  \A c \in Config, p \in Path :
    \A package \in {Wildcard} \cup {PackageOf[a] : a \in Proc \cup {DaemonProc}} :
      Builds(c) =>
        /\ \A r \in FindDynamicRule(c, package, p) : DynamicTarget(r, p) \in Path
        /\ \A r \in FindExportRule(c, package, p) : ExportTargets(r, p) \subseteq Path

VARIABLES
  names,      \* the inode under each path, 0 where there is no file
  data,       \* the version of each inode's content, 0 while it is being written
  handles,    \* files applications have open: [by, inode, path, version]
  alive,      \* which processes are running
  ops,        \* opens, renames and unlinks so far; numbers the versions
  kernel,     \* fanotify queue: [path, mask, by]
  config,     \* what rules.ini holds
  saves,      \* saves so far
  g_reload_requested,
  g_dynamic_rules,   \* the configuration whose rules are installed
  batch,      \* events read and not yet handled: [path, mask, pid]
  loading,    \* a reload under way, files the paths to come to, or NoLoad
  queue,      \* g_task_queue
  task,       \* the worker's task, or NoTask
  step,       \* where the worker is
  copies,     \* copies under way, by thread
  todo,       \* paths the worker's DeleteTree has yet to come to
  missed,     \* history: paths whose event or task was dropped, or was
              \* judged without knowing its writer
  writer,     \* history: the process of the last event on each path
  touched     \* history: during the worker's copy an application did something,
              \* or the event loop did to a file

files == <<names, data, handles>>
apps == <<alive, ops>>
rules == <<config, saves, g_reload_requested, g_dynamic_rules, loading>>
worker == <<task, step, todo, touched>>
events == <<kernel, writer>>
vars == <<files, apps, events, rules, batch, queue, worker, copies, missed>>

Version == 0 .. MaxOps + 1
Old == MaxOps + 1             \* the version of the files that exist at start
NoLoad == [next |-> InitialConfig, files |-> {}, on |-> FALSE]
NoTask == [action |-> "none", path |-> <<>>, target |-> <<>>, tree |-> {},
           pid |-> NoPid, retry |-> 0]
NoCopy == [from |-> 0, to |-> 0, source |-> <<>>, target |-> <<>>, seen |-> 0,
           on |-> FALSE]

Existing == {p \in Path : names[p] # 0}

(* Inodes that no name and no open file refers to. *)
FreeInode ==
  {i \in Inode : /\ \A p \in Path : names[p] # i
                 /\ \A h \in handles : h.inode # i
                 /\ \A t \in DOMAIN copies : i \notin {copies[t].from, copies[t].to}}

(* A new file takes one of them, whichever. *)
NewInode == CHOOSE i \in FreeInode : \A j \in FreeInode : i <= j

OpenBy(pid, i) ==
  \/ \E h \in handles : h.by = pid /\ h.inode = i
  \/ pid = DaemonProc /\ \E t \in DOMAIN copies : i \in {copies[t].from, copies[t].to}
-----------------------------------------------------------------------------
(* The kernel's fanotify queue.  An event of the same process on the same  *)
(* name is merged into the one that waits; a full queue loses the event    *)
(* and the daemon ignores the overflow record.                             *)

Sent(q, p, m, by) ==
  LET same == {i \in DOMAIN q : q[i].path = p /\ q[i].by = by} IN
  IF same # {}
  THEN [i \in DOMAIN q |->
          IF i \in same THEN [q[i] EXCEPT !.mask = @ \cup {m}] ELSE q[i]]
  ELSE IF Len(q) < KernelLimit
       THEN Append(q, [path |-> p, mask |-> {m}, by |-> by])
       ELSE q

Overflows(q, p, by) ==
  Len(q) >= KernelLimit /\ \A i \in DOMAIN q : q[i].path # p \/ q[i].by # by

Lost(p, by) == IF Overflows(kernel, p, by) THEN {p} ELSE {}

Notify(p, m, by) ==
  /\ kernel' = Sent(kernel, p, m, by)
  /\ writer' = [writer EXCEPT ![p] = by]
  /\ missed' = missed \cup Lost(p, by)

(* The daemon has loaded its rules and starts to watch. *)
Init ==
  /\ LET f == CHOOSE g \in [Initial -> Inode] : \A p, q \in Initial : g[p] = g[q] => p = q
     IN  names = [p \in Path |-> IF p \in Initial THEN f[p] ELSE 0]
  /\ data = [i \in Inode |-> Old]
  /\ handles = {}
  /\ alive = [a \in Proc |-> TRUE]
  /\ ops = 0
  /\ kernel = <<>>
  /\ config = InitialConfig
  /\ saves = 0
  /\ g_reload_requested = FALSE
  /\ g_dynamic_rules = InitialConfig
  /\ batch = <<>>
  /\ loading = NoLoad
  /\ queue = <<>>
  /\ task = NoTask
  /\ step = "pop"
  /\ copies = [t \in {"main", "worker"} |-> NoCopy]
  /\ todo = {}
  /\ missed = {}
  /\ writer = [p \in Path |-> NoPid]
  /\ touched = FALSE

TypeOK ==
  /\ names \in [Path -> Inode \cup {0}]
  /\ data \in [Inode -> Version]
  /\ handles \subseteq [by : Proc, inode : Inode, path : Path, version : Version]
  /\ alive \in [Proc -> BOOLEAN]
  /\ ops \in 0 .. MaxOps /\ saves \in 0 .. MaxSaves
  /\ \A i \in DOMAIN kernel : kernel[i].path \in Path /\ kernel[i].by \in Proc \cup {DaemonProc}
  /\ Len(kernel) <= KernelLimit
  /\ config \in Config /\ g_dynamic_rules \in Config
  /\ g_reload_requested \in BOOLEAN
  /\ Len(queue) <= kQueueLimit
  /\ \A i \in DOMAIN queue : queue[i].path \in Path /\ queue[i].retry <= kMaxRetryCount
  /\ step \in {"pop", "check", "act", "copy", "unlink", "tree"}
  /\ step = "pop" <=> task = NoTask
  /\ copies["worker"].on <=> step = "copy"
  /\ missed \subseteq Path
  /\ touched \in BOOLEAN
  /\ writer \in [Path -> Proc \cup {DaemonProc, NoPid}]
-----------------------------------------------------------------------------
(* Applications. *)

(* Something is done to a file while the worker may be about to copy one.  *)
Touch == touched' = (touched \/ step \in {"copy", "unlink"}) /\ UNCHANGED <<task, step, todo>>
Op == ops < MaxOps /\ ops' = ops + 1 /\ Touch

(* open for writing, truncating or creating the file.  A version of 0 is a *)
(* file opened for reading.                                                *)
AppOpen(a, p) ==
  /\ alive[a] /\ Op
  /\ names[p] # 0 \/ FreeInode # {}
  /\ LET i == IF names[p] # 0 THEN names[p] ELSE NewInode IN
     /\ names' = [names EXCEPT ![p] = i]
     /\ data' = [data EXCEPT ![i] = 0]
     /\ handles' = handles \cup {[by |-> a, inode |-> i, path |-> p, version |-> ops + 1]}
  /\ UNCHANGED <<alive, events, rules, batch, queue, copies, missed>>

AppRead(a, p) ==
  /\ alive[a] /\ Op
  /\ names[p] # 0
  /\ handles' = handles \cup {[by |-> a, inode |-> names[p], path |-> p, version |-> 0]}
  /\ UNCHANGED <<names, data, alive, events, rules, batch, queue, copies, missed>>

(* The last write and the close, or the close of a process that is killed  *)
(* before it has written all.  Only a writer's close is an event.          *)
AppClose(h, written) ==
  /\ alive[h.by] /\ Touch
  /\ handles' = handles \ {h}
  /\ IF h.version # 0
     THEN /\ data' = IF written THEN [data EXCEPT ![h.inode] = h.version] ELSE data
          /\ Notify(h.path, "close_write", h.by)
     ELSE UNCHANGED <<data, events, missed>>
  /\ UNCHANGED <<names, apps, rules, batch, queue, copies>>

(* A file keeps its open handles when its name changes. *)
Renamed(i, q) == {IF h.inode = i THEN [h EXCEPT !.path = q] ELSE h : h \in handles}

AppRename(a, p, q) ==
  /\ alive[a] /\ Op
  /\ p # q /\ names[p] # 0 /\ <<p, q>> \notin Crosses
  /\ names' = [names EXCEPT ![p] = 0, ![q] = names[p]]
  /\ handles' = Renamed(names[p], q)
  /\ Notify(q, "moved_to", a)
  /\ UNCHANGED <<data, alive, rules, batch, queue, copies>>

AppUnlink(a, p) ==
  /\ alive[a] /\ Op
  /\ names[p] # 0
  /\ names' = [names EXCEPT ![p] = 0]
  /\ UNCHANGED <<data, handles, alive, events, rules, batch, queue, copies, missed>>

(* A process that exits has had its files closed, whatever they hold. *)
AppExit(a) ==
  /\ alive[a]
  /\ \A h \in handles : h.by # a
  /\ alive' = [alive EXCEPT ![a] = FALSE]
  /\ UNCHANGED <<files, ops, events, rules, batch, queue, worker, copies, missed>>

(* rules.ini is saved and the daemon told to load it. *)
Save(c) ==
  /\ saves < MaxSaves /\ saves' = saves + 1
  /\ config' = c
  /\ g_reload_requested' = TRUE
  /\ UNCHANGED <<files, apps, events, g_dynamic_rules, loading, batch, queue, worker,
                 copies, missed>>
-----------------------------------------------------------------------------
(* Copying, by CopyFile and by MoveFile across file systems.  The amount   *)
(* to copy is the size of the source before it is opened: if the source    *)
(* has become shorter since, copy_file_range returns 0 again and again.    *)

StartCopy(t, p, q) ==
  LET to == IF names[q] # 0 THEN names[q] ELSE NewInode IN
  /\ names[p] # 0
  /\ names[q] # 0 \/ FreeInode # {}
  /\ names' = [names EXCEPT ![q] = to]
  /\ data' = [data EXCEPT ![to] = 0]
  /\ copies' = [copies EXCEPT ![t] =
       [from |-> names[p], to |-> to, source |-> p, target |-> q,
        seen |-> data[names[p]], on |-> TRUE]]
  /\ UNCHANGED <<handles, events>>

(* A copy that is overtaken by a writer may mix what was and what is. *)
Copied(c) == IF data[c.from] = c.seen THEN {c.seen} ELSE {0, data[c.from]}

(* The name the copy has when it is closed. *)
ClosedName(c) ==
  IF \E p \in Path : names[p] = c.to THEN CHOOSE p \in Path : names[p] = c.to ELSE c.target

EndCopy(t) ==
  LET c == copies[t] IN
  /\ c.on
  /\ c.seen # 0 => data[c.from] # 0
  /\ \E v \in Copied(c) : data' = [data EXCEPT ![c.to] = v]
  /\ copies' = [copies EXCEPT ![t] = [NoCopy EXCEPT !.seen = c.seen]]
  /\ Notify(ClosedName(c), "close_write", DaemonProc)
  /\ UNCHANGED <<names, handles>>

(* No space left, an error of the device, or a source that vanished after  *)
(* its lstat: the target is removed.                                       *)
FailCopy(t) ==
  LET c == copies[t] IN
  /\ c.on
  /\ names' = [names EXCEPT ![c.target] = 0]
  /\ copies' = [copies EXCEPT ![t] = NoCopy]
  /\ kernel' = Sent(kernel, ClosedName(c), "close_write", DaemonProc)
  /\ writer' = [writer EXCEPT ![ClosedName(c)] = DaemonProc]
  /\ missed' = missed \cup {c.source} \cup Lost(ClosedName(c), DaemonProc)
  /\ UNCHANGED <<data, handles>>
-----------------------------------------------------------------------------
(* The event loop. *)

(* read: the pidfds are made now, for the processes that are still there.  *)
(* A reload may be asked for between the look at the flag and the read.    *)
Running == {DaemonProc} \cup {a \in Proc : alive[a]}
Pid(by) == IF by \in Running THEN by ELSE NoPid

MainRead ==
  /\ batch = <<>> /\ ~loading.on /\ ~copies["main"].on
  /\ kernel # <<>>
  /\ batch' = [i \in DOMAIN kernel |->
                 [path |-> kernel[i].path, mask |-> kernel[i].mask,
                  pid |-> Pid(kernel[i].by)]]
  /\ kernel' = <<>>
  /\ UNCHANGED <<files, apps, writer, rules, queue, worker, copies, missed>>

(* The writer of an event in time for its name to be read from /proc.      *)
(* Without a pidfd only a rename is kept, for the rules of "*".            *)
Resolved(e) ==
  IF e.pid = NoPid THEN "moved_to" \in e.mask ELSE e.pid \in Running

PackageIn(e) == IF e.pid = NoPid THEN Wildcard ELSE PackageOf[e.pid]

DeleteTask(e, r) ==
  [action |-> "delete", path |-> e.path, target |-> <<>>, tree |-> DeletedTree(r),
   pid |-> e.pid, retry |-> 0]
MoveTask(e, r) ==
  [action |-> "move", path |-> e.path, target |-> DynamicTarget(r, e.path), tree |-> {},
   pid |-> e.pid, retry |-> 0]

(* The tasks an event can become: one of the delete rule if there is one,  *)
(* or else of the dynamic rule.                                            *)
TasksFor(e) ==
  LET deletes == FindDeleteRule(g_dynamic_rules, PackageIn(e), e.path)
      dynamic == FindDynamicRule(g_dynamic_rules, PackageIn(e), e.path)
  IN  IF deletes # {} THEN {DeleteTask(e, r) : r \in deletes}
                      ELSE {MoveTask(e, r) : r \in dynamic}

ExportsFor(e) ==
  UNION {ExportTargets(r, e.path) :
           r \in FindExportRule(g_dynamic_rules, PackageIn(e), e.path)}

NextEvent == batch' = Tail(batch)

Unknown(e) == IF e.pid = NoPid THEN {e.path} ELSE {}

(* A task that leaves its file where it is. *)
Stays(t) == t.action = "move" /\ t.target = t.path

(* The paths whose files the tasks of q take away, and those for which q   *)
(* has such a task and r has not.                                          *)
Taken(q) == {q[i].path : i \in {j \in DOMAIN q : ~Stays(q[j])}}
Shed(q, r) == Taken(q) \ Taken(r)

Submit(t) ==
  /\ queue' \in Pushed(queue, t)
  /\ missed' = missed \cup Shed(queue, queue') \cup Unknown(t)

MainSkip ==
  /\ batch # <<>> /\ ~copies["main"].on
  /\ ~Resolved(Head(batch))
  /\ NextEvent
  /\ missed' = missed \cup {Head(batch).path}
  /\ UNCHANGED <<files, apps, events, rules, queue, worker, copies>>

MainQueue ==
  /\ batch # <<>> /\ ~copies["main"].on
  /\ Resolved(Head(batch))
  /\ \E t \in TasksFor(Head(batch)) : Submit(t)
  /\ NextEvent
  /\ UNCHANGED <<files, apps, events, rules, worker, copies>>

(* No rule, an export rule that does not apply, or a source that is gone. *)
MainIgnore ==
  /\ batch # <<>> /\ ~copies["main"].on
  /\ Resolved(Head(batch)) /\ TasksFor(Head(batch)) = {}
  /\ ExportsFor(Head(batch)) = {} \/ names[Head(batch).path] = 0
  /\ NextEvent
  /\ missed' = missed \cup Unknown(Head(batch))
  /\ UNCHANGED <<files, apps, events, rules, queue, worker, copies>>

MainExport ==
  /\ batch # <<>> /\ ~copies["main"].on
  /\ Resolved(Head(batch)) /\ TasksFor(Head(batch)) = {}
  /\ \E q \in ExportsFor(Head(batch)) : StartCopy("main", Head(batch).path, q)
  /\ NextEvent
  /\ missed' = missed \cup Unknown(Head(batch))
  /\ Touch
  /\ UNCHANGED <<apps, rules, queue>>

(* Mutant: an export takes the source away. *)
MainExportedMoves ==
  LET c == copies["main"] IN
  /\ c.on
  /\ names' = [names EXCEPT ![c.source] = 0]
  /\ copies' = [copies EXCEPT !["main"] = NoCopy]
  /\ Touch
  /\ UNCHANGED <<data, handles, events, apps, rules, batch, queue, missed>>

MainExported ==
  /\ EndCopy("main")
  /\ Touch
  /\ UNCHANGED <<apps, rules, batch, queue>>

MainExportFailed ==
  /\ FailCopy("main")
  /\ Touch
  /\ UNCHANGED <<apps, rules, batch, queue>>
-----------------------------------------------------------------------------
(* ReloadRules, at the top of the loop: read, clean up, install. *)

(* Mutant: the flag is cleared only by a reload that succeeds. *)
ReloadReadIfBuilt ==
  /\ batch = <<>> /\ ~loading.on /\ ~copies["main"].on
  /\ g_reload_requested
  /\ g_reload_requested' = ~Builds(config)
  /\ IF Builds(config)
     THEN loading' = [next |-> config, files |-> ExistingDeleted(config, Path), on |-> TRUE]
     ELSE UNCHANGED loading
  /\ UNCHANGED <<files, apps, events, config, saves, g_dynamic_rules, batch, queue, worker,
                 copies, missed>>

ReloadRead ==
  /\ batch = <<>> /\ ~loading.on /\ ~copies["main"].on
  /\ g_reload_requested
  /\ g_reload_requested' = FALSE
  /\ IF Builds(config)
     THEN loading' = [next |-> config, files |-> ExistingDeleted(config, Path), on |-> TRUE]
     ELSE UNCHANGED loading
  /\ UNCHANGED <<files, apps, events, config, saves, g_dynamic_rules, batch, queue, worker,
                 copies, missed>>

(* ApplyDeleteExistingRules, one entry at a time.  The directories are read *)
(* while applications go on: a file that appears is removed if its place   *)
(* is still to come.                                                       *)
ReloadDelete(p) ==
  /\ loading.on /\ p \in loading.files
  /\ names' = [names EXCEPT ![p] = 0]
  /\ loading' = [loading EXCEPT !.files = @ \ {p}]
  /\ IF names[p] # 0 THEN Touch ELSE UNCHANGED worker
  /\ UNCHANGED <<data, handles, apps, events, config, saves, g_reload_requested,
                 g_dynamic_rules, batch, queue, copies, missed>>

ReloadInstall ==
  /\ loading.on /\ loading.files = {}
  /\ g_dynamic_rules' = loading.next
  /\ loading' = NoLoad
  /\ UNCHANGED <<files, apps, events, config, saves, g_reload_requested, batch, queue,
                 worker, copies, missed>>
-----------------------------------------------------------------------------
(* WorkerLoop. *)

Done == task' = NoTask /\ step' = "pop"

WorkerPop ==
  /\ step = "pop" /\ queue # <<>>
  /\ task' = Head(queue) /\ queue' = Tail(queue)
  /\ step' = "check"
  /\ UNCHANGED <<files, apps, events, rules, batch, todo, touched, copies, missed>>

IsFileOpenByPid(p, pid) == pid # NoPid /\ names[p] # 0 /\ OpenBy(pid, names[p])

WorkerCheck ==
  /\ step = "check"
  /\ ~IsFileOpenByPid(task.path, task.pid)
  /\ step' = "act"
  /\ UNCHANGED <<files, apps, events, rules, batch, queue, task, todo, touched, copies, missed>>

(* Mutants: the task is not pushed again; its retries are not counted. *)
WorkerRetryDrops ==
  /\ step = "check"
  /\ IsFileOpenByPid(task.path, task.pid) /\ task.retry < kMaxRetryCount
  /\ Done
  /\ UNCHANGED <<files, apps, events, rules, batch, queue, todo, touched, copies, missed>>
WorkerRetryForever ==
  /\ step = "check"
  /\ IsFileOpenByPid(task.path, task.pid) /\ task.retry < kMaxRetryCount
  /\ Submit(task)
  /\ Done
  /\ UNCHANGED <<files, apps, events, rules, batch, todo, touched, copies>>

WorkerRetry ==
  /\ step = "check"
  /\ IsFileOpenByPid(task.path, task.pid) /\ task.retry < kMaxRetryCount
  /\ Submit([task EXCEPT !.retry = @ + 1])
  /\ Done
  /\ UNCHANGED <<files, apps, events, rules, batch, todo, touched, copies>>

WorkerGiveUp ==
  /\ step = "check"
  /\ IsFileOpenByPid(task.path, task.pid) /\ task.retry = kMaxRetryCount
  /\ missed' = missed \cup {task.path}
  /\ Done
  /\ UNCHANGED <<files, apps, events, rules, batch, queue, todo, touched, copies>>

(* DeleteFile, and DeleteTree of the rule's directory if it is recursive. *)
WorkerDelete ==
  /\ step = "act" /\ task.action = "delete"
  /\ names' = [names EXCEPT ![task.path] = 0]
  /\ IF task.tree = {}
     THEN Done /\ UNCHANGED todo
     ELSE /\ step' = "tree"
          /\ todo' = {p \in Path : \E d \in task.tree : IsPrefix(d, p)}
          /\ UNCHANGED task
  /\ UNCHANGED <<data, handles, apps, events, rules, batch, queue, touched, copies, missed>>

WorkerDeleteTree ==
  /\ step = "tree"
  /\ IF todo = {}
     THEN Done /\ UNCHANGED <<names, todo, touched>>
     ELSE \E p \in todo : /\ names' = [names EXCEPT ![p] = 0]
                          /\ todo' = todo \ {p}
                          /\ UNCHANGED <<task, step>>
  /\ UNCHANGED <<data, handles, apps, events, rules, batch, queue, touched, copies, missed>>

(* MoveFile where one rename does it. *)
WorkerRename ==
  /\ step = "act" /\ task.action = "move"
  /\ task.path # task.target /\ names[task.path] # 0
  /\ <<task.path, task.target>> \notin Crosses
  /\ names' = [names EXCEPT ![task.path] = 0, ![task.target] = names[task.path]]
  /\ handles' = Renamed(names[task.path], task.target)
  /\ Notify(task.target, "moved_to", DaemonProc)
  /\ Done
  /\ UNCHANGED <<data, apps, rules, batch, queue, todo, touched, copies>>

(* Nothing to move: it is there already, or gone. *)
WorkerNoMove ==
  /\ step = "act" /\ task.action = "move"
  /\ task.path = task.target \/ names[task.path] = 0
  /\ Done
  /\ UNCHANGED <<files, apps, events, rules, batch, queue, todo, touched, copies, missed>>

(* MoveFile across file systems: copy, close, unlink the source by name. *)
WorkerCopy ==
  /\ step = "act" /\ task.action = "move"
  /\ <<task.path, task.target>> \in Crosses
  /\ StartCopy("worker", task.path, task.target)
  /\ step' = "copy" /\ touched' = FALSE
  /\ UNCHANGED <<apps, rules, batch, queue, task, todo, missed>>

WorkerCopied ==
  /\ EndCopy("worker")
  /\ step' = "unlink"
  /\ UNCHANGED <<apps, rules, batch, queue, task, todo, touched>>

(* Mutant: the source is unlinked although the copy has failed. *)
WorkerCopyFailedUnnoticed ==
  /\ FailCopy("worker")
  /\ step' = "unlink"
  /\ UNCHANGED <<apps, rules, batch, queue, task, todo, touched>>

WorkerCopyFailed ==
  /\ FailCopy("worker")
  /\ Done
  /\ UNCHANGED <<apps, rules, batch, queue, todo, touched>>

WorkerUnlink ==
  /\ step = "unlink"
  /\ names' = [names EXCEPT ![task.path] = 0]
  /\ copies' = [copies EXCEPT !["worker"] = NoCopy]
  /\ Done
  /\ UNCHANGED <<data, handles, apps, events, rules, batch, queue, todo, touched, missed>>
-----------------------------------------------------------------------------
AppNext ==
  \/ \E a \in Proc, p \in Path :
       AppOpen(a, p) \/ AppRead(a, p) \/ AppUnlink(a, p)
         \/ (\E q \in Path : AppRename(a, p, q))
  \/ \E h \in handles, written \in BOOLEAN : AppClose(h, written)
  \/ \E a \in Proc : AppExit(a)

MainNext ==
  \/ ReloadRead \/ (\E p \in loading.files : ReloadDelete(p)) \/ ReloadInstall
  \/ MainRead \/ MainSkip \/ MainQueue \/ MainIgnore \/ MainExport \/ MainExported

WorkerNext ==
  \/ WorkerPop \/ WorkerCheck \/ WorkerRetry \/ WorkerGiveUp
  \/ WorkerDelete \/ WorkerDeleteTree
  \/ WorkerRename \/ WorkerNoMove \/ WorkerCopy \/ WorkerCopied \/ WorkerUnlink

CopyFailure == MainExportFailed \/ WorkerCopyFailed

Next == AppNext \/ (\E c \in Config : Save(c)) \/ MainNext \/ WorkerNext \/ CopyFailure

(* The two threads of the daemon are scheduled; nothing is asked of the    *)
(* applications, of whoever saves rules.ini, or of the device's errors.    *)
Fairness == WF_vars(MainNext) /\ WF_vars(WorkerNext)

Spec == Init /\ [][Next]_vars /\ Fairness
-----------------------------------------------------------------------------
Idle ==
  /\ kernel = <<>> /\ batch = <<>> /\ queue = <<>> /\ step = "pop"
  /\ \A t \in DOMAIN copies : ~copies[t].on

BeingWritten(p) == \E h \in handles : h.inode = names[p] /\ h.version # 0

(* No rule for its last writer takes the file away, or one that may be     *)
(* sorted to the front leaves it where it is.                              *)
Settled(p) ==
  LET tasks == TasksFor([path |-> p, mask |-> {"close_write"}, pid |-> writer[p]])
  IN  tasks = {} \/ \E t \in tasks : Stays(t)

(* With all events and tasks dealt with, no file is left where a rule for  *)
(* its last writer would have it moved or deleted, unless its event or     *)
(* task was dropped: by a full queue, for a writer that had exited or kept *)
(* the file open through all the retries, or for a copy that failed.       *)
NothingForgotten ==
  Idle /\ saves = 0 =>
    \A p \in Existing \ missed : writer[p] # NoPid /\ ~BeingWritten(p) => Settled(p)

Present(v) == \E p \in Path : names[p] # 0 /\ data[names[p]] = v

(* A step of the daemon may put another file in the place of version v: a *)
(* rename onto it, or a copy, from the truncation of its target to the     *)
(* unlink of it if the copy fails.                                         *)
Overwrites(v) ==
  \/ step = "act" /\ task.action = "move" /\ names[task.target] # 0
       /\ data[names[task.target]] = v
  \/ \E e \in SeqRange(batch) : \E q \in ExportsFor(e) :
       names[q] # 0 /\ data[names[q]] = v
  \/ \E t \in DOMAIN copies :
       /\ copies[t].on
       /\ v \in {data[copies[t].to]} \cup {data[names[p]] : p \in {copies[t].target} \cap Existing}

(* What an application has written and closed does not vanish by any step  *)
(* of the daemon, unless a delete rule says so, another file takes its     *)
(* place at the target of a move or export, or an application or the event *)
(* loop interfered while the file was copied to another file system.       *)
ContentSurvives ==
  [][\A v \in 1 .. MaxOps :
       Present(v) /\ ~Present(v)' =>
         \/ AppNext
         \/ step = "tree" \/ task.action = "delete" \/ loading.on
         \/ Overwrites(v)
         \/ step = "unlink" /\ touched]_vars

(* A move across file systems takes away what it has copied and nothing    *)
(* else (README, "Redirect": the file is moved when its writing is done).  *)
TakesWhatItCopied ==
  [][WorkerUnlink /\ names[task.path] # 0
       => data[names[task.path]] = copies["worker"].seen]_vars

(* The daemon leaves alone the files that were there before it and that no *)
(* event has been about (rule-format-plan, 4.7), unless a section asks for *)
(* more: delete_existing, by whose delete rules the files are removed while *)
(* the rules are loaded, or delete_dirs = recursive, which empties the      *)
(* directory of a delete rule; or a copy that was to take the file's place  *)
(* has failed.                                                             *)
SweptBySomeRule(p) ==
  \E c \in Config : \E i \in DOMAIN c.sections :
    /\ c.sections[i].dirs = "recursive"
    /\ \E r \in SeqRange(c.sections[i].rules) : r.action = "delete" /\ IsPrefix(r.path, p)

ClearedByRules(c, p) ==
  \E i \in DOMAIN c.sections :
    /\ c.sections[i].existing
    /\ \E r \in SeqRange(c.sections[i].rules) : r.action = "delete" /\ MatchesPath(r, p)

OldFilesStay ==
  [][\A p \in Path :
       names[p] # 0 /\ writer[p] = NoPid /\ names'[p] = 0
         => \/ AppNext \/ SweptBySomeRule(p)
            \/ loading.on /\ ClearedByRules(loading.next, p)
            \/ \E t \in DOMAIN copies : copies[t].on /\ copies[t].target = p]_vars

(* A copy waits for bytes that the source no longer has. *)
Spinning == \E t \in DOMAIN copies :
  copies[t].on /\ copies[t].seen # 0 /\ data[copies[t].from] = 0

(* The daemon works off all it has been told of, unless a copy spins.      *)
Drains == []<>(Idle \/ Spinning)

(* A reload that is asked for is carried out (reload-protocol, goal),      *)
(* unless a copy spins.                                                    *)
ReloadHappens == g_reload_requested ~> (~g_reload_requested \/ Spinning)
=============================================================================
