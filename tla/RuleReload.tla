----------------------------- MODULE RuleReload -----------------------------
(***************************************************************************)
(* How a change of rules.ini reaches those who apply it: the daemon, which *)
(* is told by SIGUSR1 and reads the file again at the top of its loop, and *)
(* an application with the hooks in it, whose reload thread looks at the   *)
(* file's modification time every second.                                  *)
(*                                                                         *)
(* The file is written in place, by the GUI's save or by cp (a rollback,   *)
(* or the documented command), so that a reader may find part of it.  The  *)
(* daemon and the application read at any moment in between.               *)
(*                                                                         *)
(* A content of the file is a record                                       *)
(*   whole     it is what somebody meant to save, from start to end        *)
(*   parses    ParseRulesIni takes it                                      *)
(*   section   what it has for the application: "rules", an "empty"        *)
(*             section (no rule, or only rules for the daemon), or "none"  *)
(*   id        to tell contents apart                                      *)
(***************************************************************************)
EXTENDS Integers

CONSTANTS
  Content,        \* what the file can hold
  Prefixes,       \* for a content, the parts of it a reader may find
  Original,       \* the file at boot
  MaxSaves,       \* bound: saves
  MaxTicks        \* bound: ticks of the clock that stamps files

ASSUME ReloadAssumption ==
  /\ Original \in Content
  /\ Prefixes \in [Content -> SUBSET Content]
  /\ MaxSaves \in Nat /\ MaxTicks \in Nat \ {0}

VARIABLES
  file,        \* rules.ini: its content and modification time
  now,         \* the kernel's coarse clock
  gui,         \* the saver: "idle", "writing" or "reloading"
  draft,       \* what is being saved
  saves,       \* saves begun so far
  boot,        \* scripts run so far: "none", "service" or "completed"
  pidfile,     \* run/daemon.pid names the daemon
  daemon,      \* "absent", "loading", "deaf", "loop", "read", "install", "dead"
  next,        \* the rules a reload has built
  g_dynamic_rules,
  g_reload_requested,
  told,        \* history: the running daemon was signalled for the file as it is
  app,         \* "absent", "load", "stat", "top", "reload", "unhooked", "crashed"
  g_rule_set,
  g_rules_mtime_ns,
  seen,        \* the time the reload thread has read in this round
  missed       \* history: the file has changed unnoticed behind the known time

saver == <<gui, draft, saves>>
clock == now
engine == <<boot, pidfile, daemon, next, g_dynamic_rules, g_reload_requested>>
hook == <<app, g_rule_set, g_rules_mtime_ns, seen>>
vars == <<file, clock, saver, engine, told, hook, missed>>

Running == {"loop", "read", "install"}
Hooked == {"top", "reload"}

Init ==
  /\ file = [content |-> Original, mtime |-> 0]
  /\ now = 1
  /\ gui = "idle" /\ draft = Original /\ saves = 0
  /\ boot = "none" /\ pidfile = FALSE /\ daemon = "absent"
  /\ next = Original /\ g_dynamic_rules = Original
  /\ g_reload_requested = FALSE
  /\ told = FALSE
  /\ app = "absent"
  /\ g_rule_set = Original /\ g_rules_mtime_ns = 0 /\ seen = 0
  /\ missed = FALSE

TypeOK ==
  /\ file \in [content : Content, mtime : 0 .. MaxTicks]
  /\ now \in 1 .. MaxTicks /\ file.mtime <= now
  /\ gui \in {"idle", "writing", "reloading"}
  /\ draft \in Content /\ saves \in 0 .. MaxSaves
  /\ boot \in {"none", "service", "completed"}
  /\ daemon \in {"absent", "loading", "deaf", "dead"} \cup Running
  /\ pidfile \in BOOLEAN
  /\ next \in Content /\ g_dynamic_rules \in Content
  /\ daemon = "install" => next.parses
  /\ daemon \in {"deaf"} \cup Running => g_dynamic_rules.parses
  /\ g_reload_requested \in BOOLEAN
  /\ told \in BOOLEAN /\ (told => gui # "writing")
  /\ app \in {"absent", "load", "stat", "unhooked", "crashed"} \cup Hooked
  /\ g_rule_set \in Content
  /\ g_rules_mtime_ns \in 0 .. now /\ seen \in 0 .. now
  /\ missed \in BOOLEAN

Tick ==
  /\ now < MaxTicks /\ now' = now + 1
  /\ UNCHANGED <<file, saver, engine, told, hook, missed>>
-----------------------------------------------------------------------------
(* Saving. *)

(* A change is unnoticed if it comes between the application's first load  *)
(* and its first look at the time, or leaves the time as it is known.      *)
Write(c) ==
  /\ file' = [content |-> c, mtime |-> now]
  /\ missed' = (missed \/ app = "stat" \/ (app \in Hooked /\ g_rules_mtime_ns = now))
  /\ told' = FALSE

(* The file is opened, which empties it, and filled piece by piece. *)
SaveOpen(c) ==
  /\ gui = "idle"
  /\ saves < MaxSaves /\ saves' = saves + 1
  /\ gui' = "writing" /\ draft' = c
  /\ \E p \in Prefixes[c] : Write(p)
  /\ UNCHANGED <<clock, engine, hook>>

SavePiece ==
  /\ gui = "writing"
  /\ \E p \in Prefixes[draft] : p # file.content /\ Write(p)
  /\ UNCHANGED <<clock, saver, engine, hook>>

SaveEnd ==
  /\ gui = "writing"
  /\ Write(draft)
  /\ gui' = "reloading"
  /\ UNCHANGED <<clock, draft, saves, engine, hook>>

(* reload.sh: SIGUSR1 to the process in daemon.pid.  Before the daemon has *)
(* installed its handler the signal kills it.                              *)
SaveSignal ==
  /\ gui = "reloading"
  /\ gui' = "idle"
  /\ LET heard == pidfile /\ daemon \in Running
     IN  /\ g_reload_requested' = (g_reload_requested \/ heard)
         /\ told' = (told \/ heard)
  /\ daemon' = IF pidfile /\ daemon \in {"loading", "deaf"} THEN "dead" ELSE daemon
  /\ UNCHANGED <<file, clock, draft, saves, boot, pidfile, next, g_dynamic_rules, hook, missed>>

(* The GUI is killed; the file stays as it is. *)
SaveAbort ==
  /\ gui # "idle"
  /\ gui' = "idle"
  /\ UNCHANGED <<file, clock, draft, saves, engine, told, hook, missed>>
-----------------------------------------------------------------------------
(* The daemon.  service.sh starts it in the background and then notes its  *)
(* process; boot-completed.sh starts it once more if it is gone.           *)

Service ==
  /\ boot = "none"
  /\ boot' = "service" /\ daemon' = "loading" /\ pidfile' = FALSE
  /\ UNCHANGED <<file, clock, saver, next, g_dynamic_rules, g_reload_requested, told, hook, missed>>

BootCompleted ==
  /\ boot = "service" /\ pidfile
  /\ boot' = "completed"
  /\ IF daemon = "dead"
     THEN daemon' = "loading" /\ pidfile' = FALSE
     ELSE UNCHANGED <<daemon, pidfile>>
  /\ UNCHANGED <<file, clock, saver, next, g_dynamic_rules, g_reload_requested, told, hook, missed>>

NotePid ==
  /\ boot # "none" /\ ~pidfile
  /\ pidfile' = TRUE
  /\ UNCHANGED <<file, clock, saver, boot, daemon, next, g_dynamic_rules, g_reload_requested,
                 told, hook, missed>>

(* main: the rules are loaded first, the handlers installed after. *)
DaemonLoad ==
  /\ daemon = "loading"
  /\ IF file.content.parses
     THEN daemon' = "deaf" /\ g_dynamic_rules' = file.content
     ELSE daemon' = "dead" /\ UNCHANGED g_dynamic_rules
  /\ UNCHANGED <<file, clock, saver, boot, pidfile, next, g_reload_requested, told, hook, missed>>

DaemonListen ==
  /\ daemon = "deaf"
  /\ daemon' = "loop"
  /\ UNCHANGED <<file, clock, saver, boot, pidfile, next, g_dynamic_rules, g_reload_requested,
                 told, hook, missed>>

DaemonExchange ==
  /\ daemon = "loop" /\ g_reload_requested
  /\ g_reload_requested' = FALSE
  /\ daemon' = "read"
  /\ UNCHANGED <<file, clock, saver, boot, pidfile, next, g_dynamic_rules, told, hook, missed>>

(* Mutants: the result of parsing is not looked at; the flag is cleared    *)
(* again when the reload is done.                                          *)
DaemonReadUnchecked ==
  /\ daemon = "read"
  /\ daemon' = "install" /\ next' = file.content
  /\ UNCHANGED <<file, clock, saver, boot, pidfile, g_dynamic_rules, g_reload_requested, told,
                 hook, missed>>
DaemonInstallClears ==
  /\ daemon = "install"
  /\ g_dynamic_rules' = next
  /\ g_reload_requested' = FALSE
  /\ daemon' = "loop"
  /\ UNCHANGED <<file, clock, saver, boot, pidfile, next, told, hook, missed>>

DaemonRead ==
  /\ daemon = "read"
  /\ IF file.content.parses
     THEN daemon' = "install" /\ next' = file.content
     ELSE daemon' = "loop" /\ UNCHANGED next
  /\ UNCHANGED <<file, clock, saver, boot, pidfile, g_dynamic_rules, g_reload_requested, told,
                 hook, missed>>

DaemonInstall ==
  /\ daemon = "install"
  /\ g_dynamic_rules' = next
  /\ daemon' = "loop"
  /\ UNCHANGED <<file, clock, saver, boot, pidfile, next, g_reload_requested, told, hook, missed>>
-----------------------------------------------------------------------------
(* The application. *)

(* fm_load_rules_from_module_dir_fd fails on a file that does not parse    *)
(* and on a section without a rule for the hooks; without a section it     *)
(* succeeds with no rules.                                                 *)
Loads(c) == c.parses /\ c.section # "empty"

AppStart ==
  /\ app = "absent"
  /\ app' = "load"
  /\ UNCHANGED <<file, clock, saver, engine, told, g_rule_set, g_rules_mtime_ns, seen, missed>>

(* preAppSpecialize: no hooks and no reload thread without a rule. *)
AppLoad ==
  /\ app = "load"
  /\ IF Loads(file.content) /\ file.content.section = "rules"
     THEN app' = "stat" /\ g_rule_set' = file.content
     ELSE app' = "unhooked" /\ UNCHANGED g_rule_set
  /\ UNCHANGED <<file, clock, saver, engine, told, g_rules_mtime_ns, seen, missed>>

AppStat ==
  /\ app = "stat"
  /\ app' = "top" /\ g_rules_mtime_ns' = file.mtime
  /\ UNCHANGED <<file, clock, saver, engine, told, g_rule_set, seen, missed>>

(* Mutants: times are compared in a coarser unit; the time is taken as     *)
(* known before the load.                                                  *)
ThreadStatSeconds ==
  /\ app = "top"
  /\ file.mtime \div 2 # g_rules_mtime_ns \div 2
  /\ app' = "reload" /\ seen' = file.mtime
  /\ UNCHANGED <<file, clock, saver, engine, told, g_rule_set, g_rules_mtime_ns, missed>>
ThreadStatStores ==
  /\ app = "top"
  /\ file.mtime # g_rules_mtime_ns
  /\ app' = "reload" /\ seen' = file.mtime /\ g_rules_mtime_ns' = file.mtime
  /\ UNCHANGED <<file, clock, saver, engine, told, g_rule_set, missed>>

(* fm_reload_thread_main: look at the time, then load if it has changed. *)
ThreadStat ==
  /\ app = "top"
  /\ file.mtime # g_rules_mtime_ns
  /\ app' = "reload" /\ seen' = file.mtime
  /\ UNCHANGED <<file, clock, saver, engine, told, g_rule_set, g_rules_mtime_ns, missed>>

ThreadLoad ==
  /\ app = "reload"
  /\ IF Loads(file.content)
     THEN g_rule_set' = file.content /\ g_rules_mtime_ns' = seen /\ missed' = FALSE
     ELSE UNCHANGED <<g_rule_set, g_rules_mtime_ns, missed>>
  /\ app' = "top"
  /\ UNCHANGED <<file, clock, saver, engine, told, seen>>

(* The rule set it loads into is a local variable without initial value,   *)
(* and the first thing done to it is delete engine_state.                  *)
ThreadCrash ==
  /\ app = "reload"
  /\ app' = "crashed"
  /\ UNCHANGED <<file, clock, saver, engine, told, g_rule_set, g_rules_mtime_ns, seen, missed>>
-----------------------------------------------------------------------------
SaveNext == SavePiece \/ SaveEnd \/ SaveSignal
BootNext == Service \/ BootCompleted \/ NotePid
DaemonNext == DaemonLoad \/ DaemonListen \/ DaemonExchange \/ DaemonRead \/ DaemonInstall
AppNext == AppLoad \/ AppStat \/ ThreadStat \/ ThreadLoad

Next ==
  \/ Tick \/ AppStart
  \/ (\E c \in Content : c.whole /\ SaveOpen(c)) \/ SaveNext \/ SaveAbort
  \/ BootNext \/ DaemonNext \/ AppNext \/ ThreadCrash

(* The processes are scheduled, and the boot goes on.  No user need save,  *)
(* and the clock need not move on between two steps.                       *)
Fairness == WF_vars(BootNext) /\ WF_vars(DaemonNext) /\ WF_vars(AppNext)

Spec == Init /\ [][Next]_vars /\ Fairness
-----------------------------------------------------------------------------
(* A running daemon that was signalled for the file as it is has its       *)
(* rules, or is on its way to them, unless the file does not parse.        *)
NoLostReload ==
  told /\ daemon \in Running =>
    \/ g_reload_requested \/ daemon = "read"
    \/ daemon = "install" /\ next = file.content
    \/ daemon = "loop" /\ g_dynamic_rules = file.content
    \/ ~file.content.parses

(* The reload thread is idle only while the rules are those of the file,   *)
(* but for a change that its time does not betray.                         *)
NoMissedChange ==
  app = "top" /\ ~missed /\ g_rules_mtime_ns = file.mtime => g_rule_set = file.content

(* A reload that the running daemon is told of is done in the end. *)
DaemonConverges ==
  told ~> (~told \/ daemon = "dead" \/ ~file.content.parses
             \/ g_dynamic_rules = file.content)

(* The hooks follow the file, but for a change that its time does not      *)
(* betray, a file that does not load, and a crash of the application.      *)
AppConverges ==
  []<>(\/ app \notin Hooked \/ missed \/ ~Loads(file.content)
       \/ g_rule_set = file.content)

(* After rules.ini has changed nothing needs a restart (README, "reload"): *)
(* a hooked application has the rules of the file in the end ...           *)
AppFollows ==
  []<>(\/ app \notin Hooked \/ ~file.content.whole \/ ~Loads(file.content)
       \/ g_rule_set = file.content)

(* ... and it survives the reload.                                         *)
AppSurvives == app # "crashed"
=============================================================================
