-------------------------- MODULE RuleReloadProofs --------------------------
(***************************************************************************)
(* The safety invariants of RuleReload, for all contents, any number of    *)
(* saves and any clock.                                                    *)
(*                                                                         *)
(* NoLostReload rests on two more facts: only a running daemon has been    *)
(* told anything, because a running daemon does not stop being one, and    *)
(* there is no daemon before service.sh has run.                           *)
(* NoMissedChange has to hold while the thread reloads, too, and needs its *)
(* counterpart for the time between the first load and the first look at   *)
(* the time.                                                               *)
(***************************************************************************)
EXTENDS RuleReload, TLAPS

BootFirst == boot = "none" => daemon = "absent"
ToldIsRunning == told => daemon \in Running

DaemonInv == TypeOK /\ BootFirst /\ ToldIsRunning /\ NoLostReload

HookInv ==
  /\ app \in Hooked /\ ~missed /\ g_rules_mtime_ns = file.mtime
       => g_rule_set = file.content
  /\ app = "stat" /\ ~missed => g_rule_set = file.content

USE ReloadAssumption
-----------------------------------------------------------------------------
LEMMA TypeInit == Init => TypeOK
  <1> SUFFICES ASSUME Init PROVE TypeOK
    OBVIOUS
  <1> USE DEF Init, Running, Hooked
  <1>1. file \in [content : Content, mtime : 0 .. MaxTicks]
    BY DEF ReloadAssumption
  <1>2. now \in 1 .. MaxTicks /\ file.mtime <= now
    BY DEF ReloadAssumption
  <1>3. draft \in Content /\ saves \in 0 .. MaxSaves
    BY DEF ReloadAssumption
  <1>4. pidfile \in BOOLEAN /\ g_reload_requested \in BOOLEAN /\ told \in BOOLEAN /\ missed \in BOOLEAN
    OBVIOUS
  <1>5. next \in Content /\ g_dynamic_rules \in Content /\ g_rule_set \in Content
    BY DEF ReloadAssumption
  <1>6. g_rules_mtime_ns \in 0 .. now /\ seen \in 0 .. now
    OBVIOUS
  <1> QED
    BY <1>1, <1>2, <1>3, <1>4, <1>5, <1>6 DEF TypeOK

(* What every write does, whoever makes it. *)
LEMMA TypeWrite ==
  ASSUME TypeOK, NEW c \in Content, Write(c)
  PROVE  /\ file' \in [content : Content, mtime : 0 .. MaxTicks]
         /\ file'.mtime = now /\ file'.content = c
         /\ missed' \in BOOLEAN /\ told' = FALSE
  BY DEF TypeOK, Write, Hooked

LEMMA TypeNext == TypeOK /\ [Next]_vars => TypeOK'
  <1> SUFFICES ASSUME TypeOK, [Next]_vars PROVE TypeOK'
    OBVIOUS
  <1>0. ASSUME NEW c \in Content, Write(c), now' = now, UNCHANGED <<engine, hook>>,
               gui' \in {"idle", "writing", "reloading"},
               draft' \in Content, saves' \in 0 .. MaxSaves
        PROVE  TypeOK'
    <2>1. /\ file' \in [content : Content, mtime : 0 .. MaxTicks]
          /\ file'.mtime = now
          /\ missed' \in BOOLEAN /\ told' = FALSE
      BY <1>0, TypeWrite
    <2>2. now' \in 1 .. MaxTicks /\ file'.mtime <= now'
      BY <1>0, <2>1 DEF TypeOK
    <2>3. /\ boot' = boot /\ pidfile' = pidfile /\ daemon' = daemon /\ next' = next
          /\ g_dynamic_rules' = g_dynamic_rules /\ g_reload_requested' = g_reload_requested
          /\ app' = app /\ g_rule_set' = g_rule_set
          /\ g_rules_mtime_ns' = g_rules_mtime_ns /\ seen' = seen
      BY <1>0 DEF engine, hook
    <2>4. told' \in BOOLEAN /\ (told' => gui' # "writing")
      BY <2>1
    <2> QED
      BY <1>0, <2>1, <2>2, <2>3, <2>4 DEF TypeOK, Running, Hooked
  <1> USE DEF vars, saver, clock, engine, hook, Running, Hooked
  <1>1. CASE Tick
    BY <1>1 DEF Tick, TypeOK
  <1>2. CASE AppStart
    BY <1>2 DEF AppStart, TypeOK
  <1>3. ASSUME NEW c \in Content, SaveOpen(c) PROVE TypeOK'
    <2>1. PICK p \in Prefixes[c] : Write(p)
      BY <1>3 DEF SaveOpen
    <2>2. p \in Content
      BY DEF ReloadAssumption
    <2>3. saves' \in 0 .. MaxSaves
      BY <1>3 DEF SaveOpen, TypeOK, ReloadAssumption
    <2>4. gui' = "writing" /\ draft' = c /\ UNCHANGED <<clock, engine, hook>>
      BY <1>3 DEF SaveOpen
    <2> QED
      BY <1>0, <2>1, <2>2, <2>3, <2>4
  <1>4. CASE SavePiece
    <2>1. PICK p \in Prefixes[draft] : Write(p)
      BY <1>4 DEF SavePiece
    <2>2. p \in Content
      BY DEF ReloadAssumption, TypeOK
    <2>3. UNCHANGED <<clock, saver, engine, hook>>
      BY <1>4 DEF SavePiece
    <2>4. /\ gui' \in {"idle", "writing", "reloading"}
          /\ draft' \in Content /\ saves' \in 0 .. MaxSaves
      BY <2>3 DEF TypeOK
    <2> QED
      BY <1>0, <2>1, <2>2, <2>3, <2>4
  <1>5. CASE SaveEnd
    <2>1. Write(draft) /\ gui' = "reloading" /\ UNCHANGED <<clock, draft, saves, engine, hook>>
      BY <1>5 DEF SaveEnd
    <2>2. draft \in Content /\ draft' \in Content /\ saves' \in 0 .. MaxSaves
      BY <2>1 DEF TypeOK
    <2> QED
      BY <1>0, <2>1, <2>2
  <1> USE DEF TypeOK
  <1>6. CASE SaveSignal
    <2>1. g_reload_requested' \in BOOLEAN /\ told' \in BOOLEAN
      BY <1>6 DEF SaveSignal
    <2>2. daemon' \in {daemon, "dead"} /\ gui' = "idle"
      BY <1>6 DEF SaveSignal
    <2>3. UNCHANGED <<file, clock, draft, saves, boot, pidfile, next, g_dynamic_rules, hook, missed>>
      BY <1>6 DEF SaveSignal
    <2> QED
      BY <2>1, <2>2, <2>3
  <1>7. CASE SaveAbort
    BY <1>7 DEF SaveAbort
  <1>8. CASE BootNext
    <2>1. /\ boot' \in {"service", "completed", boot}
          /\ daemon' \in {daemon, "loading"} /\ pidfile' \in BOOLEAN
      BY <1>8 DEF BootNext, Service, BootCompleted, NotePid
    <2>2. UNCHANGED <<file, clock, saver, next, g_dynamic_rules, g_reload_requested, told, hook, missed>>
      BY <1>8 DEF BootNext, Service, BootCompleted, NotePid
    <2> QED
      BY <2>1, <2>2
  <1>9. CASE DaemonLoad
    BY <1>9 DEF DaemonLoad
  <1>10. CASE DaemonListen
    BY <1>10 DEF DaemonListen
  <1>11. CASE DaemonExchange
    BY <1>11 DEF DaemonExchange
  <1>12. CASE DaemonRead
    BY <1>12 DEF DaemonRead
  <1>13. CASE DaemonInstall
    BY <1>13 DEF DaemonInstall
  <1>14. CASE AppNext
    <2>1. /\ app' \in {"unhooked", "stat", "top", "reload"}
          /\ g_rule_set' \in {g_rule_set, file.content}
          /\ g_rules_mtime_ns' \in {g_rules_mtime_ns, file.mtime, seen}
          /\ seen' \in {seen, file.mtime}
          /\ missed' \in BOOLEAN
      BY <1>14 DEF AppNext, AppLoad, AppStat, ThreadStat, ThreadLoad
    <2>2. UNCHANGED <<file, clock, saver, engine, told>>
      BY <1>14 DEF AppNext, AppLoad, AppStat, ThreadStat, ThreadLoad
    <2> QED
      BY <2>1, <2>2
  <1>15. CASE ThreadCrash
    BY <1>15 DEF ThreadCrash
  <1>16. CASE UNCHANGED vars
    BY <1>16
  <1> QED
    BY <1>1, <1>2, <1>3, <1>4, <1>5, <1>6, <1>7, <1>8, <1>9, <1>10, <1>11, <1>12, <1>13,
       <1>14, <1>15, <1>16 DEF Next, SaveNext, DaemonNext

(* Every variable keeps to its values: the daemon never has rules from a   *)
(* file that did not parse, and no time known to the hooks is in the future. *)
THEOREM ReloadTypeCorrect == Spec => []TypeOK
  <1> QED
    BY TypeInit, TypeNext, PTL DEF Spec
-----------------------------------------------------------------------------
LEMMA DaemonInvInit == Init => DaemonInv
  BY TypeInit DEF Init, DaemonInv, BootFirst, ToldIsRunning, NoLostReload

LEMMA DaemonInvNext == DaemonInv /\ [Next]_vars => DaemonInv'
  <1> SUFFICES ASSUME DaemonInv, [Next]_vars PROVE (BootFirst /\ ToldIsRunning /\ NoLostReload)'
    BY TypeNext DEF DaemonInv
  <1> USE DEF DaemonInv, BootFirst, ToldIsRunning, NoLostReload, Running, saver, clock, engine, hook
  <1>1. CASE told' = FALSE /\ UNCHANGED <<boot, daemon>>
    BY <1>1
  <1>2. CASE UNCHANGED <<file, engine, told>>
    BY <1>2
  <1>3. CASE SaveSignal
    BY <1>3 DEF SaveSignal
  <1>4. CASE BootNext
    BY <1>4 DEF BootNext, Service, BootCompleted, NotePid, TypeOK
  <1>5. CASE DaemonLoad
    BY <1>5 DEF DaemonLoad
  <1>6. CASE DaemonListen
    BY <1>6 DEF DaemonListen
  <1>7. CASE DaemonExchange
    BY <1>7 DEF DaemonExchange
  <1>8. CASE DaemonRead
    BY <1>8 DEF DaemonRead
  <1>9. CASE DaemonInstall
    BY <1>9 DEF DaemonInstall
  <1>10. ASSUME NEW c \in Content, SaveOpen(c) PROVE told' = FALSE /\ UNCHANGED <<boot, daemon>>
    BY <1>10 DEF SaveOpen, Write
  <1>11. SavePiece \/ SaveEnd => told' = FALSE /\ UNCHANGED <<boot, daemon>>
    BY DEF SavePiece, SaveEnd, Write
  <1>12. Tick \/ AppStart \/ SaveAbort \/ AppNext \/ ThreadCrash \/ UNCHANGED vars
           => UNCHANGED <<file, engine, told>>
    BY DEF Tick, AppStart, SaveAbort, AppNext, AppLoad, AppStat, ThreadStat, ThreadLoad,
           ThreadCrash, vars
  <1> QED
    BY <1>1, <1>2, <1>3, <1>4, <1>5, <1>6, <1>7, <1>8, <1>9, <1>10, <1>11, <1>12
    DEF Next, SaveNext, DaemonNext

(* The exchange before the read: however saves, signals and reloads        *)
(* interleave, a running daemon that was signalled for the file as it is   *)
(* has its rules or will read it again.                                    *)
THEOREM ReloadsKept == Spec => []NoLostReload
  <1>1. DaemonInv => NoLostReload
    BY DEF DaemonInv
  <1> QED
    BY <1>1, DaemonInvInit, DaemonInvNext, PTL DEF Spec
-----------------------------------------------------------------------------
LEMMA HookInvInit == Init => HookInv
  BY DEF Init, HookInv, Hooked

LEMMA HookInvWrite ==
  ASSUME TypeOK, HookInv, NEW c \in Content, Write(c), UNCHANGED hook
  PROVE  HookInv'
  <1>1. file'.mtime = now
    BY TypeWrite
  <1> QED
    BY <1>1 DEF HookInv, Write, Hooked, hook

LEMMA HookInvNext == TypeOK /\ HookInv /\ [Next]_vars => HookInv'
  <1> SUFFICES ASSUME TypeOK, HookInv, [Next]_vars PROVE HookInv'
    OBVIOUS
  <1>1. CASE UNCHANGED <<file, hook, missed>>
    BY <1>1 DEF HookInv, hook
  <1>2. ASSUME NEW c \in Content, SaveOpen(c) PROVE HookInv'
    <2>1. PICK p \in Prefixes[c] : Write(p)
      BY <1>2 DEF SaveOpen
    <2> QED
      BY <1>2, <2>1, HookInvWrite DEF SaveOpen
  <1>3. CASE SavePiece
    <2>1. PICK p \in Prefixes[draft] : Write(p)
      BY <1>3 DEF SavePiece
    <2> QED
      BY <1>3, <2>1, HookInvWrite DEF SavePiece, TypeOK
  <1>4. CASE SaveEnd
    BY <1>4, HookInvWrite DEF SaveEnd, TypeOK
  <1>5. CASE AppStart
    BY <1>5 DEF AppStart, HookInv, Hooked
  <1>6. CASE AppLoad
    BY <1>6 DEF AppLoad, HookInv, Hooked
  <1>7. CASE AppStat
    BY <1>7 DEF AppStat, HookInv, Hooked
  <1>8. CASE ThreadStat
    BY <1>8 DEF ThreadStat, HookInv, Hooked
  <1>9. CASE ThreadLoad
    BY <1>9 DEF ThreadLoad, HookInv, Hooked
  <1>10. CASE ThreadCrash
    BY <1>10 DEF ThreadCrash, HookInv, Hooked
  <1>11. Tick \/ SaveSignal \/ SaveAbort \/ BootNext \/ DaemonNext \/ UNCHANGED vars
           => UNCHANGED <<file, hook, missed>>
    BY DEF Tick, SaveSignal, SaveAbort, BootNext, Service, BootCompleted, NotePid, DaemonNext,
           DaemonLoad, DaemonListen, DaemonExchange, DaemonRead, DaemonInstall, vars, hook
  <1> QED
    BY <1>1, <1>2, <1>3, <1>4, <1>5, <1>6, <1>7, <1>8, <1>9, <1>10, <1>11
    DEF Next, SaveNext, AppNext

(* The reload thread of an application sleeps over no change, except one   *)
(* that falls between its first load and its first look at the time or     *)
(* into the tick of the clock it has taken for known.                      *)
THEOREM ChangesNoticed == Spec => []NoMissedChange
  <1>1. HookInv => NoMissedChange
    BY DEF HookInv, NoMissedChange, Hooked
  <1> QED
    BY <1>1, HookInvInit, HookInvNext, ReloadTypeCorrect, PTL DEF Spec
=============================================================================
