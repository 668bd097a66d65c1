---------------------------- MODULE DaemonProofs ----------------------------
(***************************************************************************)
(* The daemon forgets no file, loses no content that an application has    *)
(* closed and leaves alone what it was not told of: for every set of       *)
(* rules, every number of applications, paths and events, and every limit  *)
(* of the kernel's and of the daemon's queue.                              *)
(*                                                                         *)
(* Each property follows from an invariant of its own:                     *)
(*   TypeInv      the variables have their types (TypeOK);                 *)
(*   Named        a file has one name, and an open file the name it is     *)
(*                known by;                                                *)
(*   Heard        a path on its way to the worker was written to           *)
(*                (OldFilesStay);                                          *)
(*   Steady       what a copy across file systems finds when nobody        *)
(*                interfered (ContentSurvives);                            *)
(*   Remembered   where the last event on a path is until the path is      *)
(*                settled (NothingForgotten).                              *)
(***************************************************************************)
EXTENDS Daemon, SequenceTheorems, WellFoundedInduction, TLAPS

(***************************************************************************)
(* The operators the daemon is built from.                                 *)
(***************************************************************************)
Process == Proc \cup {DaemonProc}
Pids == Process \cup {NoPid}
Packages == {Wildcard} \cup {PackageOf[a] : a \in Process}
Masks == SUBSET {"close_write", "moved_to"}
Loadable == {c \in Config : Builds(c)}

(* The directories that delete tasks may empty. *)
Emptied ==
  UNION {DeletedTree(r) : r \in UNION {RulesOf(c, k, "delete") : c \in Loadable, k \in Packages}}

Event == [path : Path, mask : Masks, by : Process]
Report == [path : Path, mask : Masks, pid : Pids]
DeleteTasks ==
  [action : {"delete"}, path : Path, target : {<<>>}, tree : SUBSET Emptied, pid : Pids,
   retry : 0 .. kMaxRetryCount]
MoveTasks ==
  [action : {"move"}, path : Path, target : Path, tree : {{}}, pid : Pids,
   retry : 0 .. kMaxRetryCount]
Task == DeleteTasks \cup MoveTasks
Handle == [by : Proc, inode : Inode, path : Path, version : Version]
Copy ==
  [from : Inode \cup {0}, to : Inode \cup {0}, source : Path \cup {<<>>},
   target : Path \cup {<<>>}, seen : Version, on : BOOLEAN]

(* A set of numbers has a least one. *)
LEMMA LeastNat ==
  ASSUME NEW S, S \subseteq Nat, S # {}
  PROVE  \E n \in S : \A m \in S : n <= m
  <1> DEFINE R == OpToRel(<, Nat)
  <1>1. IsWellFoundedOn(R, Nat)
    BY NatLessThanWellFounded
  <1>2. PICK n \in S : \A m \in S : <<m, n>> \notin R
    BY <1>1, WFMin
  <1>3. ASSUME NEW m \in S
        PROVE  n <= m
    <2>1. ~(m < n)
      BY <1>2, <1>3 DEF OpToRel
    <2> QED
      BY <2>1, <1>3
  <1> QED
    BY <1>3

LEMMA NewInodeFree == ASSUME FreeInode # {} PROVE NewInode \in FreeInode
  <1>1. FreeInode \subseteq Nat
    BY DaemonAssumption DEF FreeInode
  <1> QED
    BY <1>1, LeastNat DEF NewInode

(* The section that is asked for is one of the configuration. *)
LEMMA PolicySection ==
  ASSUME NEW c \in Loadable, NEW i \in DOMAIN c.sections
  PROVE  \E j \in DOMAIN c.sections : Policy(c, i) = c.sections[j]
  <1> DEFINE covering == Covering(c, c.sections[i].package)
  <1>1. covering # {} /\ covering \subseteq DOMAIN c.sections
    BY DEF Loadable, Builds, Covering
  <1>2. DOMAIN c.sections \subseteq Nat
    BY ConfigAssumption DEF Loadable
  <1>3. (CHOOSE j \in covering : \A k \in covering : j <= k) \in covering
    BY <1>1, <1>2, LeastNat
  <1> QED
    BY <1>1, <1>3 DEF Policy

(* What is below a directory that a delete task empties was meant to be    *)
(* swept.                                                                  *)
LEMMA EmptiedIsSwept ==
  ASSUME NEW d \in Emptied, NEW p, IsPrefix(d, p)
  PROVE  SweptBySomeRule(p)
  <1>0. PICK c \in Loadable, k \in Packages :
          \E r \in RulesOf(c, k, "delete") : d \in DeletedTree(r)
    BY DEF Emptied
  <1>1. PICK r \in RulesOf(c, k, "delete") : d \in DeletedTree(r)
    BY <1>0
  <1>2. d = r.path /\ r.dirs = "recursive"
    BY <1>1 DEF DeletedTree
  <1>3. PICK i \in PoliciesOf(c, k) : \E q \in SeqRange(Policy(c, i).rules) :
          q.action = "delete" /\ r = [q EXCEPT !.dirs = Policy(c, i).dirs]
    BY DEF RulesOf
  <1>4. PICK q \in SeqRange(Policy(c, i).rules) :
          q.action = "delete" /\ r = [q EXCEPT !.dirs = Policy(c, i).dirs]
    BY <1>3
  <1>5. PICK j \in DOMAIN c.sections : Policy(c, i) = c.sections[j]
    BY PolicySection DEF PoliciesOf
  <1>6. {"path", "dirs"} \subseteq DOMAIN q
    BY <1>4, <1>5, ConfigAssumption DEF Loadable
  <1>7. r.path = q.path /\ r.dirs = Policy(c, i).dirs
    BY <1>4, <1>6
  <1> QED
    BY <1>2, <1>4, <1>5, <1>7 DEF SweptBySomeRule, Loadable

(* What is removed while rules are loaded, a section of theirs asks for.   *)
LEMMA ClearedOrSwept ==
  ASSUME NEW c \in Loadable, NEW p \in ExistingDeleted(c, Path)
  PROVE  ClearedByRules(c, p) \/ SweptBySomeRule(p)
  <1>1. PICK i \in DOMAIN c.sections :
          /\ Policy(c, i).existing
          /\ \E r \in SeqRange(Policy(c, i).rules) :
               /\ r.action = "delete"
               /\ \/ MatchesPath(r, p)
                  \/ Policy(c, i).dirs = "recursive" /\ IsPrefix(r.path, p)
    BY DEF ExistingDeleted
  <1>2. PICK j \in DOMAIN c.sections : Policy(c, i) = c.sections[j]
    BY PolicySection
  <1>3. c \in Config
    BY DEF Loadable
  <1> QED
    BY <1>1, <1>2, <1>3 DEF ClearedByRules, SweptBySomeRule

(* The elements of a sequence are of a set iff the sequence is of that set. *)
LEMMA SeqOf ==
  ASSUME NEW S, NEW T, NEW q \in Seq(S), NEW r, DOMAIN r = DOMAIN q,
         r = [i \in DOMAIN r |-> r[i]], \A i \in DOMAIN r : r[i] \in T
  PROVE  r \in Seq(T) /\ Len(r) = Len(q)
  <1>1. DOMAIN r = 1 .. Len(q) /\ Len(q) \in Nat
    BY LenProperties
  <1>2. r \in [1 .. Len(q) -> T]
    BY <1>1
  <1>3. r \in Seq(T)
    BY <1>1, <1>2, SeqDef
  <1> QED
    BY <1>1, <1>3, LenProperties

LEMMA AppendDomain ==
  ASSUME NEW S, NEW q \in Seq(S), NEW e \in S
  PROVE  /\ Append(q, e) \in Seq(S) /\ Len(Append(q, e)) = Len(q) + 1
         /\ DOMAIN Append(q, e) = 1 .. Len(q) + 1 /\ DOMAIN q = 1 .. Len(q)
         /\ Append(q, e)[Len(q) + 1] = e
         /\ \A i \in DOMAIN q : i \in DOMAIN Append(q, e) /\ Append(q, e)[i] = q[i]
         /\ \A j \in DOMAIN Append(q, e) :
              Append(q, e)[j] = e \/ (j \in DOMAIN q /\ Append(q, e)[j] = q[j])
  <1>1. Len(q) \in Nat /\ DOMAIN q = 1 .. Len(q)
    BY LenProperties
  <1>2. /\ Append(q, e) \in Seq(S) /\ Len(Append(q, e)) = Len(q) + 1
        /\ \A i \in 1 .. Len(q) : Append(q, e)[i] = q[i]
        /\ Append(q, e)[Len(q) + 1] = e
    BY AppendProperties
  <1>3. DOMAIN Append(q, e) = 1 .. Len(q) + 1
    BY <1>2, LenProperties
  <1> QED
    BY <1>1, <1>2, <1>3

LEMMA TailDomain ==
  ASSUME NEW S, NEW q \in Seq(S), q # <<>>
  PROVE  /\ Head(q) \in S /\ Head(q) = q[1] /\ 1 \in DOMAIN q
         /\ Tail(q) \in Seq(S) /\ Len(Tail(q)) = Len(q) - 1
         /\ \A i \in DOMAIN q : i = 1 \/ (i - 1 \in DOMAIN Tail(q) /\ Tail(q)[i - 1] = q[i])
         /\ \A i \in DOMAIN Tail(q) : i + 1 \in DOMAIN q /\ Tail(q)[i] = q[i + 1]
  <1>1. Len(q) \in Nat \ {0} /\ DOMAIN q = 1 .. Len(q)
    BY LenProperties, EmptySeq
  <1>2. /\ Head(q) \in S /\ Tail(q) \in Seq(S) /\ Len(Tail(q)) = Len(q) - 1
        /\ \A i \in 1 .. Len(Tail(q)) : Tail(q)[i] = q[i + 1]
    BY HeadTailProperties
  <1>3. DOMAIN Tail(q) = 1 .. Len(q) - 1
    BY <1>2, LenProperties
  <1>4. Head(q) = q[1]
    BY <1>1
  <1> QED
    BY <1>1, <1>2, <1>3, <1>4

(* An event in the kernel's queue is of some path and of some process. *)
Has(q, p, by) == \E i \in DOMAIN q : q[i].path = p /\ q[i].by = by

LEMMA SentKeeps ==
  ASSUME NEW q \in Seq(Event), Len(q) <= KernelLimit,
         NEW p \in Path, NEW m \in {"close_write", "moved_to"}, NEW by \in Process
  PROVE  LET r == Sent(q, p, m, by) IN
         /\ r \in Seq(Event) /\ Len(r) <= KernelLimit
         /\ \A o, b : Has(q, o, b) => Has(r, o, b)
         /\ \A o, b : Has(r, o, b) => Has(q, o, b) \/ (o = p /\ b = by)
         /\ Has(r, p, by) \/ p \in Lost(p, by) \/ q # kernel
  <1> DEFINE r == Sent(q, p, m, by)
             same == {i \in DOMAIN q : q[i].path = p /\ q[i].by = by}
             e == [path |-> p, mask |-> {m}, by |-> by]
             merged == [i \in DOMAIN q |->
                          IF i \in same THEN [q[i] EXCEPT !.mask = @ \cup {m}] ELSE q[i]]
  <1>0. Len(q) \in Nat /\ DOMAIN q = 1 .. Len(q) /\ \A i \in DOMAIN q : q[i] \in Event
    BY LenProperties, ElementOfSeq
  <1>1. CASE same # {}
    <2>1. r = merged
      BY <1>1 DEF Sent
    <2>2. \A i \in DOMAIN q :
            merged[i] \in Event /\ merged[i].path = q[i].path /\ merged[i].by = q[i].by
      BY <1>0 DEF Event, Masks
    <2>3. merged \in Seq(Event) /\ Len(merged) = Len(q) /\ DOMAIN merged = DOMAIN q
      <3>1. DOMAIN merged = DOMAIN q /\ merged = [i \in DOMAIN merged |-> merged[i]]
        OBVIOUS
      <3>2. \A i \in DOMAIN merged : merged[i] \in Event
        BY <2>2
      <3> HIDE DEF merged
      <3> QED
        BY <3>1, <3>2, SeqOf
    <2> HIDE DEF merged
    <2>4. \A o, b : Has(q, o, b) <=> Has(merged, o, b)
      BY <2>2, <2>3 DEF Has
    <2>5. Has(q, p, by)
      BY <1>1 DEF Has
    <2> QED
      BY <2>1, <2>3, <2>4, <2>5
  <1>2. CASE same = {} /\ Len(q) < KernelLimit
    <2>1. r = Append(q, e)
      BY <1>2 DEF Sent
    <2>2. e \in Event
      BY DEF Event, Masks
    <2>3. e.path = p /\ e.by = by
      OBVIOUS
    <2> HIDE DEF e, r
    <2>4. /\ r \in Seq(Event) /\ Len(r) = Len(q) + 1
          /\ DOMAIN r = 1 .. Len(q) + 1 /\ r[Len(q) + 1] = e
          /\ \A i \in DOMAIN q : i \in DOMAIN r /\ r[i] = q[i]
          /\ \A j \in DOMAIN r : r[j] = e \/ (j \in DOMAIN q /\ r[j] = q[j])
      BY <2>1, <2>2, AppendDomain
    <2>5. Has(r, p, by)
      BY <1>0, <2>3, <2>4 DEF Has
    <2>6. Len(r) <= KernelLimit
      BY <1>0, <1>2, <2>4, DaemonAssumption
    <2>7. \A o, b : Has(q, o, b) => Has(r, o, b)
      BY <2>4 DEF Has
    <2>8. \A o, b : Has(r, o, b) => Has(q, o, b) \/ (o = p /\ b = by)
      BY <2>3, <2>4 DEF Has
    <2> QED
      BY <2>4, <2>5, <2>6, <2>7, <2>8 DEF r
  <1>3. CASE same = {} /\ ~(Len(q) < KernelLimit)
    <2>1. r = q
      BY <1>3 DEF Sent
    <2>2. q = kernel => Overflows(kernel, p, by)
      BY <1>0, <1>3, DaemonAssumption DEF Overflows
    <2>3. q = kernel => p \in Lost(p, by)
      BY <2>2 DEF Lost
    <2> QED
      BY <2>1, <2>3
  <1> QED
    BY <1>1, <1>2, <1>3

LEMMA PushedHas ==
  ASSUME NEW S, NEW q \in Seq(S), NEW t \in S, Len(q) <= kQueueLimit, NEW r \in Pushed(q, t)
  PROVE  /\ r \in Seq(S) /\ Len(r) <= kQueueLimit
         /\ \E j \in DOMAIN r : r[j] = t
         /\ \A j \in DOMAIN r : r[j] = t \/ \E i \in DOMAIN q : r[j] = q[i]
  <1>0. Len(q) \in Nat /\ DOMAIN q = 1 .. Len(q) /\ kQueueLimit \in Nat \ {0}
    BY LenProperties, QueueLimitAssumption
  <1>1. CASE Len(q) < kQueueLimit
    <2>1. r = Append(q, t)
      BY <1>1 DEF Pushed
    <2>2. /\ r \in Seq(S) /\ Len(r) = Len(q) + 1
          /\ DOMAIN r = 1 .. Len(q) + 1 /\ r[Len(q) + 1] = t
          /\ \A j \in DOMAIN r : r[j] = t \/ (j \in DOMAIN q /\ r[j] = q[j])
      BY <2>1, AppendDomain
    <2> QED
      BY <1>0, <1>1, <2>2
  <1>2. CASE ~(Len(q) < kQueueLimit)
    <2>1. PICK i \in Victim(q, t) : r = Append(Erase(q, i), t)
      BY <1>2 DEF Pushed
    <2>2. i \in 1 .. Len(q)
      BY <1>0, <1>2, <2>1 DEF Victim, SamePath
    <2> DEFINE n == Len(q) - 1
               shorter == [j \in 1 .. n |-> IF j < i THEN q[j] ELSE q[j + 1]]
    <2>3. n \in Nat /\ Erase(q, i) = shorter
      BY <1>0, <2>2 DEF Erase
    <2>4. \A j \in 1 .. n : shorter[j] \in S /\ \E k \in DOMAIN q : shorter[j] = q[k]
      BY <1>0, <2>2, ElementOfSeq
    <2>5. shorter \in [1 .. n -> S]
      BY <2>4
    <2> HIDE DEF shorter
    <2>6. shorter \in Seq(S) /\ Len(shorter) = n /\ DOMAIN shorter = 1 .. n
      BY <2>3, <2>5, SeqDef, LenProperties
    <2>7. r = Append(shorter, t)
      BY <2>1, <2>3
    <2>8. /\ r \in Seq(S) /\ Len(r) = n + 1
          /\ DOMAIN r = 1 .. n + 1 /\ r[n + 1] = t
          /\ \A j \in DOMAIN r : r[j] = t \/ (j \in DOMAIN shorter /\ r[j] = shorter[j])
      BY <2>6, <2>7, AppendDomain
    <2> QED
      BY <1>0, <2>3, <2>4, <2>6, <2>8
  <1> QED
    BY <1>1, <1>2

(***************************************************************************)
(* The types, one group of variables at a time.                            *)
(***************************************************************************)
AppsOK == alive \in [Proc -> BOOLEAN] /\ ops \in 0 .. MaxOps

FilesOK ==
  /\ names \in [Path -> Inode \cup {0}]
  /\ data \in [Inode -> Version]
  /\ handles \subseteq Handle

EventsOK ==
  /\ kernel \in Seq(Event) /\ Len(kernel) <= KernelLimit
  /\ writer \in [Path -> Pids]
  /\ missed \subseteq Path

RulesOK ==
  /\ config \in Config /\ g_dynamic_rules \in Loadable
  /\ saves \in 0 .. MaxSaves /\ g_reload_requested \in BOOLEAN
  /\ loading \in [next : Loadable, files : SUBSET Path, on : BOOLEAN]
  /\ loading.files \subseteq ExistingDeleted(loading.next, Path)

QueueOK ==
  /\ batch \in Seq(Report)
  /\ queue \in Seq(Task) /\ Len(queue) <= kQueueLimit

WorkerOK ==
  /\ step \in {"pop", "check", "act", "copy", "unlink", "tree"}
  /\ task \in Task \cup {NoTask}
  /\ step = "pop" <=> task = NoTask
  /\ step \in {"copy", "unlink"} => task.action = "move" /\ task.path # task.target
  /\ touched \in BOOLEAN
  /\ todo \subseteq {p \in Path : SweptBySomeRule(p)}

CopiesOK ==
  /\ copies \in [{"main", "worker"} -> Copy]
  /\ copies["worker"].on <=> step = "copy"
  /\ copies["worker"].on
       => copies["worker"].source = task.path /\ copies["worker"].target = task.target
  /\ \A t \in {"main", "worker"} : copies[t].on =>
       /\ copies[t].from \in Inode /\ copies[t].to \in Inode
       /\ copies[t].source \in Path /\ copies[t].target \in Path

TypeInv ==
  /\ AppsOK /\ FilesOK /\ EventsOK /\ RulesOK
  /\ QueueOK /\ WorkerOK /\ CopiesOK

(***************************************************************************)
(* No two names of one file, and an open file has the name it is known by. *)
(***************************************************************************)
Named ==
  /\ \A p, q \in Existing : names[p] = names[q] => p = q
  /\ \A h \in handles, p \in Path : names[p] = h.inode => h.path = p

(***************************************************************************)
(* Every path on the way from the kernel to the worker was written to.     *)
(***************************************************************************)
Written == {p \in Path : writer[p] # NoPid}

Heard ==
  /\ \A p \in Path, by \in Process : Has(kernel, p, by) => p \in Written
  /\ \A i \in DOMAIN batch : batch[i].path \in Written
  /\ \A i \in DOMAIN queue : queue[i].path \in Written
  /\ step # "pop" => task.path \in Written

(***************************************************************************)
(* What holds of a copy across file systems while nobody has interfered.   *)
(***************************************************************************)
Steady ==
  LET c == copies["worker"] IN
  /\ step = "copy" /\ ~touched =>
       /\ names[task.path] = c.from /\ names[task.target] = c.to
       /\ c.from # c.to /\ data[c.from] = c.seen
  /\ step = "unlink" /\ ~touched =>
       /\ names[task.path] # 0 /\ names[task.target] # 0
       /\ names[task.path] # names[task.target]
       /\ data[names[task.path]] = data[names[task.target]]

(***************************************************************************)
(* Where the last event on a path is, until the path is settled.           *)
(***************************************************************************)
Reported(p) ==
  \E i \in DOMAIN batch : batch[i].path = p /\ batch[i].pid \in {writer[p], NoPid}
Handled(p) ==
  step \in {"check", "act", "copy", "unlink"} /\ ~Stays(task) /\ task.path = p
BeingCopied(p) ==
  \E t \in {"main", "worker"} : copies[t].on /\ copies[t].to = names[p]

Accounted(p) ==
  \/ Settled(p)
  \/ Has(kernel, p, writer[p]) \/ Reported(p) \/ p \in Taken(queue)
  \/ Handled(p) \/ BeingCopied(p)

Closed(p) == writer[p] # NoPid /\ ~BeingWritten(p)

Remembered ==
  saves = 0 =>
    /\ ~g_reload_requested /\ ~loading.on
    /\ \A p \in Existing \ missed : Closed(p) => Accounted(p)

(* An event of a process can only become a task. *)
LEMMA TasksAreTasks ==
  ASSUME RulesOK, NEW e \in Report
  PROVE  TasksFor(e) \subseteq Task
  <1> DEFINE c == g_dynamic_rules
             k == PackageIn(e)
  <1>1. c \in Loadable /\ k \in Packages /\ e.path \in Path /\ e.pid \in Pids
    BY DEF RulesOK, PackageIn, Packages, Report, Pids
  <1>2. 0 \in 0 .. kMaxRetryCount
    BY DaemonAssumption
  <1>3. ASSUME NEW r \in FindDeleteRule(c, k, e.path)
        PROVE  DeleteTask(e, r) \in Task
    <2>1. r \in RulesOf(c, k, "delete") \/ r \in RulesOf(c, Wildcard, "delete")
      BY <1>3 DEF FindDeleteRule, Find, Foremost, EarliestLine, Matching
    <2>2. DeletedTree(r) \subseteq Emptied
      BY <1>1, <2>1 DEF Emptied, Packages
    <2> HIDE DEF c, k
    <2> QED
      BY <1>1, <1>2, <2>2 DEF DeleteTask, Task, DeleteTasks
  <1>4. ASSUME NEW r \in FindDynamicRule(c, k, e.path)
        PROVE  MoveTask(e, r) \in Task
    <2>1. DynamicTarget(r, e.path) \in Path
      BY <1>1, <1>4, PathAssumption DEF Loadable, Packages, Process
    <2> HIDE DEF c, k
    <2> QED
      BY <1>1, <1>2, <2>1 DEF MoveTask, Task, MoveTasks
  <1> QED
    BY <1>3, <1>4 DEF TasksFor

(* Exports are copied to paths. *)
LEMMA ExportsArePaths ==
  ASSUME RulesOK, NEW e \in Report
  PROVE  ExportsFor(e) \subseteq Path
  <1>1. g_dynamic_rules \in Loadable /\ PackageIn(e) \in Packages /\ e.path \in Path
    BY DEF RulesOK, PackageIn, Packages, Report, Pids
  <1> QED
    BY <1>1, PathAssumption DEF ExportsFor, Loadable, Packages, Process

LEMMA TaskFields ==
  ASSUME NEW t \in Task
  PROVE  /\ t.path \in Path /\ t.pid \in Pids /\ t.retry \in 0 .. kMaxRetryCount
         /\ t.tree \subseteq Emptied
         /\ t.action = "move" \/ t.action = "delete"
         /\ t.action = "move" => t.target \in Path
         /\ t # NoTask
  BY DEF Task, MoveTasks, DeleteTasks, NoTask

LEMMA RetryTask ==
  ASSUME NEW t \in Task, t.retry < kMaxRetryCount
  PROVE  LET u == [t EXCEPT !.retry = @ + 1] IN
         /\ u \in Task /\ u.path = t.path /\ u.pid = t.pid
         /\ Stays(u) <=> Stays(t)
  <1>1. t.retry + 1 \in 0 .. kMaxRetryCount
    BY TaskFields, DaemonAssumption
  <1>2. CASE t \in DeleteTasks
    BY <1>1, <1>2 DEF Task, DeleteTasks, Stays
  <1>3. CASE t \in MoveTasks
    BY <1>1, <1>3 DEF Task, MoveTasks, Stays
  <1> QED
    BY <1>2, <1>3 DEF Task

LEMMA NoCopyIsCopy ==
  ASSUME NEW v \in Version
  PROVE  /\ NoCopy \in Copy /\ ~NoCopy.on
         /\ [NoCopy EXCEPT !.seen = v] \in Copy /\ ~[NoCopy EXCEPT !.seen = v].on
  <1>1. 0 \in Version
    BY DaemonAssumption DEF Version
  <1>2. NoCopy \in Copy /\ NoCopy.on = FALSE
    BY <1>1 DEF NoCopy, Copy
  <1>3. [NoCopy EXCEPT !.seen = v] \in Copy /\ [NoCopy EXCEPT !.seen = v].on = FALSE
    BY <1>2 DEF Copy
  <1> QED
    BY <1>2, <1>3

(* What an event does to the queue of the kernel and to its histories. *)
LEMMA NotifyOK ==
  ASSUME EventsOK, NEW p \in Path, NEW m \in {"close_write", "moved_to"},
         NEW by \in Process, Notify(p, m, by)
  PROVE  /\ EventsOK'
         /\ Has(kernel', p, by) \/ p \in missed'
         /\ \A o, b : Has(kernel, o, b) => Has(kernel', o, b)
         /\ \A o, b : Has(kernel', o, b) => Has(kernel, o, b) \/ (o = p /\ b = by)
         /\ writer' = [writer EXCEPT ![p] = by] /\ missed \subseteq missed'
  <1>1. /\ kernel' \in Seq(Event) /\ Len(kernel') <= KernelLimit
        /\ \A o, b : Has(kernel, o, b) => Has(kernel', o, b)
        /\ \A o, b : Has(kernel', o, b) => Has(kernel, o, b) \/ (o = p /\ b = by)
        /\ Has(kernel', p, by) \/ p \in Lost(p, by)
    BY SentKeeps DEF Notify, EventsOK
  <1>2. Lost(p, by) \subseteq Path
    BY DEF Lost
  <1> QED
    BY <1>1, <1>2 DEF Notify, EventsOK, Pids

(* What a new task does to the queue. *)
LEMMA SubmitOK ==
  ASSUME EventsOK, QueueOK, NEW t \in Task, Submit(t)
  PROVE  /\ queue' \in Seq(Task) /\ Len(queue') <= kQueueLimit
         /\ missed \subseteq missed' /\ missed' \subseteq Path
         /\ Unknown(t) \subseteq missed'
         /\ Stays(t) \/ t.path \in Taken(queue')
         /\ Taken(queue) \subseteq Taken(queue') \cup missed'
         /\ \A j \in DOMAIN queue' : queue'[j] = t \/ \E i \in DOMAIN queue : queue'[j] = queue[i]
  <1>1. /\ queue' \in Seq(Task) /\ Len(queue') <= kQueueLimit
        /\ \E j \in DOMAIN queue' : queue'[j] = t
        /\ \A j \in DOMAIN queue' : queue'[j] = t \/ \E i \in DOMAIN queue : queue'[j] = queue[i]
    BY PushedHas DEF Submit, QueueOK
  <1>2. \A i \in DOMAIN queue : queue[i].path \in Path
    BY TaskFields, ElementOfSeq, LenProperties DEF QueueOK
  <1>3. Taken(queue) \subseteq Path
    BY <1>2 DEF Taken
  <1>4. Unknown(t) \subseteq Path
    BY TaskFields DEF Unknown
  <1>5. Stays(t) \/ t.path \in Taken(queue')
    BY <1>1 DEF Taken
  <1>6. missed' = missed \cup Shed(queue, queue') \cup Unknown(t)
    BY DEF Submit
  <1> QED
    BY <1>1, <1>3, <1>4, <1>5, <1>6 DEF Shed, EventsOK

(* Where a copy goes, and what it leaves of the files. *)
Target(q) == IF names[q] # 0 THEN names[q] ELSE NewInode

LEMMA TargetInode ==
  ASSUME FilesOK, NEW q \in Path, names[q] # 0 \/ FreeInode # {}
  PROVE  /\ Target(q) \in Inode /\ Target(q) # 0
         /\ names[q] = 0 => Target(q) \in FreeInode
  <1>1. CASE names[q] # 0
    BY <1>1, DaemonAssumption DEF Target, FilesOK
  <1>2. CASE names[q] = 0
    <2>1. Target(q) \in FreeInode
      BY <1>2, NewInodeFree DEF Target
    <2> QED
      BY <1>2, <2>1, DaemonAssumption DEF FreeInode
  <1> QED
    BY <1>1, <1>2

Started(p, q) ==
  [from |-> names[p], to |-> Target(q), source |-> p, target |-> q,
   seen |-> data[names[p]], on |-> TRUE]

LEMMA StartCopyOK ==
  ASSUME FilesOK, CopiesOK, NEW t \in {"main", "worker"}, NEW p \in Path, NEW q \in Path,
         StartCopy(t, p, q)
  PROVE  /\ FilesOK' /\ names[p] \in Inode /\ Target(q) \in Inode
         /\ names[q] # 0 \/ Target(q) \in FreeInode
         /\ names' = [names EXCEPT ![q] = Target(q)]
         /\ data' = [data EXCEPT ![Target(q)] = 0]
         /\ copies' = [copies EXCEPT ![t] = Started(p, q)]
         /\ copies' \in [{"main", "worker"} -> Copy]
         /\ UNCHANGED <<handles, kernel, writer>>
  <1>1. /\ names[p] \in Inode
        /\ names[q] # 0 \/ FreeInode # {}
        /\ names' = [names EXCEPT ![q] = Target(q)]
        /\ data' = [data EXCEPT ![Target(q)] = 0]
        /\ copies' = [copies EXCEPT ![t] = Started(p, q)]
        /\ UNCHANGED <<handles, kernel, writer>>
    BY DEF StartCopy, Target, Started, FilesOK, events
  <1>2. Target(q) \in Inode /\ (names[q] # 0 \/ Target(q) \in FreeInode)
    BY <1>1, TargetInode
  <1>3. 0 \in Version
    BY DaemonAssumption DEF Version
  <1>4. FilesOK'
    BY <1>1, <1>2, <1>3 DEF FilesOK
  <1>5. Started(p, q) \in Copy
    BY <1>1, <1>2 DEF Started, Copy, FilesOK
  <1>6. copies' \in [{"main", "worker"} -> Copy]
    BY <1>1, <1>5 DEF CopiesOK
  <1> QED
    BY <1>1, <1>2, <1>4, <1>6

LEMMA ClosedNameIsPath ==
  ASSUME FilesOK, CopiesOK, NEW t \in {"main", "worker"}, copies[t].on
  PROVE  /\ ClosedName(copies[t]) \in Path
         /\ \A p \in Path : names[p] = copies[t].to
              => names[ClosedName(copies[t])] = copies[t].to
  BY DEF ClosedName, CopiesOK

LEMMA EndCopyOK ==
  ASSUME FilesOK, CopiesOK, EventsOK, NEW t \in {"main", "worker"}, EndCopy(t)
  PROVE  /\ copies[t].on /\ ClosedName(copies[t]) \in Path
         /\ FilesOK' /\ EventsOK'
         /\ copies' \in [{"main", "worker"} -> Copy]
         /\ copies' = [copies EXCEPT ![t] = [NoCopy EXCEPT !.seen = copies[t].seen]]
         /\ ~copies'[t].on
         /\ Notify(ClosedName(copies[t]), "close_write", DaemonProc)
         /\ UNCHANGED <<names, handles>>
         /\ \E v \in Copied(copies[t]) : data' = [data EXCEPT ![copies[t].to] = v]
  <1> DEFINE c == copies[t]
  <1>1. /\ c.on /\ c \in Copy
        /\ \E v \in Copied(c) : data' = [data EXCEPT ![c.to] = v]
        /\ copies' = [copies EXCEPT ![t] = [NoCopy EXCEPT !.seen = c.seen]]
        /\ Notify(ClosedName(c), "close_write", DaemonProc)
        /\ UNCHANGED <<names, handles>>
    BY DEF EndCopy, CopiesOK
  <1>2. c.from \in Inode /\ c.to \in Inode /\ c.seen \in Version
    BY <1>1 DEF CopiesOK, Copy
  <1>3. 0 \in Version
    BY DaemonAssumption DEF Version
  <1>4. Copied(c) \subseteq Version
    BY <1>2, <1>3 DEF Copied, FilesOK
  <1>5. FilesOK'
    BY <1>1, <1>2, <1>4 DEF FilesOK
  <1>6. ClosedName(c) \in Path
    BY <1>1, ClosedNameIsPath
  <1>7. EventsOK'
    BY <1>1, <1>6, NotifyOK DEF Process
  <1>8. [NoCopy EXCEPT !.seen = c.seen] \in Copy /\ ~[NoCopy EXCEPT !.seen = c.seen].on
    BY <1>2, NoCopyIsCopy
  <1>9. copies' \in [{"main", "worker"} -> Copy] /\ ~copies'[t].on
    BY <1>1, <1>8 DEF CopiesOK
  <1> QED
    BY <1>1, <1>5, <1>6, <1>7, <1>9

(* The histories of a copy that fails are those of one that succeeds.      *)
LEMMA FailCopyOK ==
  ASSUME FilesOK, CopiesOK, EventsOK, NEW t \in {"main", "worker"}, FailCopy(t)
  PROVE  LET p == ClosedName(copies[t]) IN
         /\ copies[t].on /\ p \in Path
         /\ FilesOK' /\ EventsOK'
         /\ copies' \in [{"main", "worker"} -> Copy]
         /\ copies' = [copies EXCEPT ![t] = NoCopy] /\ ~copies'[t].on
         /\ names' = [names EXCEPT ![copies[t].target] = 0]
         /\ writer' = [writer EXCEPT ![p] = DaemonProc]
         /\ missed \cup {copies[t].source} \subseteq missed'
         /\ Has(kernel', p, DaemonProc) \/ p \in missed'
         /\ \A o, b : Has(kernel, o, b) => Has(kernel', o, b)
         /\ \A o, b : Has(kernel', o, b) => Has(kernel, o, b) \/ (o = p /\ b = DaemonProc)
         /\ UNCHANGED <<data, handles>>
  <1> DEFINE c == copies[t]
             p == ClosedName(c)
  <1>1. /\ c.on
        /\ names' = [names EXCEPT ![c.target] = 0]
        /\ copies' = [copies EXCEPT ![t] = NoCopy]
        /\ kernel' = Sent(kernel, p, "close_write", DaemonProc)
        /\ writer' = [writer EXCEPT ![p] = DaemonProc]
        /\ missed' = missed \cup {c.source} \cup Lost(p, DaemonProc)
        /\ UNCHANGED <<data, handles>>
    BY DEF FailCopy
  <1>2. p \in Path /\ c.source \in Path /\ c.target \in Path
    BY <1>1, ClosedNameIsPath DEF CopiesOK
  <1>3. FilesOK'
    BY <1>1, <1>2 DEF FilesOK
  <1>4. Lost(p, DaemonProc) \subseteq Path
    BY <1>2 DEF Lost
  <1>5. writer' \in [Path -> Pids]
    BY <1>1, <1>2 DEF EventsOK, Pids, Process
  <1> HIDE DEF p
  <1>6. /\ kernel' \in Seq(Event) /\ Len(kernel') <= KernelLimit
        /\ \A o, b : Has(kernel, o, b) => Has(kernel', o, b)
        /\ \A o, b : Has(kernel', o, b) => Has(kernel, o, b) \/ (o = p /\ b = DaemonProc)
        /\ Has(kernel', p, DaemonProc) \/ p \in Lost(p, DaemonProc)
    BY <1>1, <1>2, SentKeeps DEF EventsOK, Process
  <1>7. EventsOK'
    BY <1>1, <1>2, <1>4, <1>5, <1>6 DEF EventsOK
  <1>8. copies' \in [{"main", "worker"} -> Copy] /\ ~copies'[t].on
    <2>1. 0 \in Version
      BY DaemonAssumption DEF Version
    <2> QED
      BY <1>1, <2>1, NoCopyIsCopy DEF CopiesOK
  <1> QED
    BY <1>1, <1>2, <1>3, <1>6, <1>7, <1>8 DEF p

LEMMA TypeInit == Init => TypeInv
  <1> SUFFICES ASSUME Init PROVE TypeInv
    OBVIOUS
  <1> DEFINE f == CHOOSE g \in [Initial -> Inode] :
                    \A p, q \in Initial : g[p] = g[q] => p = q
  <1>1. f \in [Initial -> Inode]
    BY DaemonAssumption
  <1>2. FilesOK
    <2>1. names = [p \in Path |-> IF p \in Initial THEN f[p] ELSE 0]
      BY DEF Init
    <2>2. Old \in Version
      BY DaemonAssumption DEF Old, Version
    <2> HIDE DEF f
    <2> QED
      BY <1>1, <2>1, <2>2 DEF Init, FilesOK
  <1>3. InitialConfig \in Loadable
    BY DaemonAssumption, ConfigAssumption DEF Loadable
  <1>4. RulesOK
    <2>1. NoLoad \in [next : Loadable, files : SUBSET Path, on : BOOLEAN]
      BY <1>3 DEF NoLoad
    <2>2. /\ config = InitialConfig /\ g_dynamic_rules = InitialConfig
          /\ saves = 0 /\ g_reload_requested = FALSE /\ loading = NoLoad
      BY DEF Init
    <2>3. InitialConfig \in Config /\ 0 \in 0 .. MaxSaves
      BY DaemonAssumption
    <2>4. NoLoad.files \subseteq ExistingDeleted(NoLoad.next, Path)
      BY DEF NoLoad
    <2> QED
      BY <1>3, <2>1, <2>2, <2>3, <2>4 DEF RulesOK
  <1>5. AppsOK /\ EventsOK /\ QueueOK
    BY DaemonAssumption, QueueLimitAssumption, EmptySeq
    DEF Init, AppsOK, EventsOK, QueueOK, Pids
  <1>6. CopiesOK
    <2>1. 0 \in Version
      BY DaemonAssumption DEF Version
    <2> QED
      BY <2>1, NoCopyIsCopy DEF Init, CopiesOK
  <1>7. WorkerOK
    BY DEF Init, WorkerOK
  <1> QED
    BY <1>2, <1>4, <1>5, <1>6, <1>7 DEF TypeInv

(* What a step of an application leaves alone. *)
LEMMA TouchOK ==
  ASSUME TypeInv, Touch, UNCHANGED copies
  PROVE  WorkerOK' /\ CopiesOK'
  BY DEF TypeInv, Touch, WorkerOK, CopiesOK

LEMMA RenamedHandles ==
  ASSUME FilesOK, NEW i \in Inode, NEW q \in Path
  PROVE  /\ Renamed(i, q) \subseteq Handle
         /\ \A h \in Renamed(i, q) :
              \E k \in handles : /\ h.inode = k.inode /\ h.version = k.version
                                 /\ h.path = IF k.inode = i THEN q ELSE k.path
         /\ \A k \in handles :
              \E h \in Renamed(i, q) : h.inode = k.inode /\ h.version = k.version
  <1> DEFINE new(h) == IF h.inode = i THEN [h EXCEPT !.path = q] ELSE h
  <1>1. ASSUME NEW h \in handles
        PROVE  /\ new(h) \in Handle /\ new(h).inode = h.inode /\ new(h).version = h.version
               /\ new(h).path = IF h.inode = i THEN q ELSE h.path
    BY DEF FilesOK, Handle
  <1>2. Renamed(i, q) = {new(h) : h \in handles}
    BY DEF Renamed
  <1> HIDE DEF new
  <1> QED
    BY <1>1, <1>2

LEMMA TypeApp == TypeInv /\ AppNext => TypeInv'
  <1> SUFFICES ASSUME TypeInv, AppNext PROVE TypeInv'
    OBVIOUS
  <1> USE DEF TypeInv
  <1>0. 0 \in Version /\ ops \in Nat /\ MaxOps \in Nat
    BY DaemonAssumption DEF Version, AppsOK
  <1>1. ASSUME NEW a \in Proc, NEW p \in Path, AppOpen(a, p)
        PROVE  TypeInv'
    <2>1. Target(p) \in Inode /\ Target(p) # 0
      BY <1>1, TargetInode DEF AppOpen
    <2>2. /\ names' = [names EXCEPT ![p] = Target(p)]
          /\ data' = [data EXCEPT ![Target(p)] = 0]
          /\ handles' = handles \cup
               {[by |-> a, inode |-> Target(p), path |-> p, version |-> ops + 1]}
      BY <1>1 DEF AppOpen, Target
    <2>3. ops < MaxOps /\ ops' = ops + 1 /\ ops + 1 \in Version
      BY <1>0, <1>1 DEF AppOpen, Op, Version
    <2>4. AppsOK'
      BY <1>0, <1>1, <2>3 DEF AppOpen, AppsOK
    <2>5. FilesOK'
      BY <1>0, <2>1, <2>2, <2>3 DEF FilesOK, Handle
    <2>6. WorkerOK' /\ CopiesOK'
      BY <1>1, TouchOK DEF AppOpen, Op
    <2>7. EventsOK' /\ RulesOK' /\ QueueOK'
      BY <1>1 DEF AppOpen, EventsOK, RulesOK, QueueOK, events, rules
    <2> QED
      BY <2>4, <2>5, <2>6, <2>7
  <1>2. ASSUME NEW a \in Proc, NEW p \in Path, AppRead(a, p)
        PROVE  TypeInv'
    <2>1. AppsOK' /\ FilesOK'
      BY <1>0, <1>2 DEF AppRead, Op, AppsOK, FilesOK, Handle
    <2>2. WorkerOK' /\ CopiesOK'
      BY <1>2, TouchOK DEF AppRead, Op
    <2>3. EventsOK' /\ RulesOK' /\ QueueOK'
      BY <1>2 DEF AppRead, EventsOK, RulesOK, QueueOK, events, rules
    <2> QED
      BY <2>1, <2>2, <2>3
  <1>3. ASSUME NEW a \in Proc, NEW p \in Path, AppUnlink(a, p)
        PROVE  TypeInv'
    <2>1. AppsOK' /\ FilesOK'
      BY <1>0, <1>3 DEF AppUnlink, Op, AppsOK, FilesOK
    <2>2. WorkerOK' /\ CopiesOK'
      BY <1>3, TouchOK DEF AppUnlink, Op
    <2>3. EventsOK' /\ RulesOK' /\ QueueOK'
      BY <1>3 DEF AppUnlink, EventsOK, RulesOK, QueueOK, events, rules
    <2> QED
      BY <2>1, <2>2, <2>3
  <1>4. ASSUME NEW a \in Proc, NEW p \in Path, NEW q \in Path, AppRename(a, p, q)
        PROVE  TypeInv'
    <2>1. names[p] \in Inode
      BY <1>4 DEF AppRename, FilesOK
    <2>2. AppsOK'
      BY <1>0, <1>4 DEF AppRename, Op, AppsOK
    <2>3. FilesOK'
      BY <1>4, <2>1, RenamedHandles DEF AppRename, FilesOK
    <2>4. EventsOK'
      BY <1>4, NotifyOK DEF AppRename, Process
    <2>5. WorkerOK' /\ CopiesOK'
      BY <1>4, TouchOK DEF AppRename, Op
    <2>6. RulesOK' /\ QueueOK'
      BY <1>4 DEF AppRename, RulesOK, QueueOK, rules
    <2> QED
      BY <2>2, <2>3, <2>4, <2>5, <2>6
  <1>5. ASSUME NEW h \in handles, NEW written \in BOOLEAN, AppClose(h, written)
        PROVE  TypeInv'
    <2>1. h \in Handle
      BY DEF FilesOK
    <2>2. AppsOK'
      BY <1>5 DEF AppClose, AppsOK, apps
    <2>3. FilesOK'
      BY <1>5, <2>1 DEF AppClose, FilesOK, Handle
    <2>4. EventsOK'
      <3>1. h.path \in Path /\ h.by \in Process
        BY <2>1 DEF Handle, Process
      <3>2. CASE h.version # 0
        BY <1>5, <3>1, <3>2, NotifyOK DEF AppClose
      <3>3. CASE h.version = 0
        BY <1>5, <3>3 DEF AppClose, EventsOK, events
      <3> QED
        BY <3>2, <3>3
    <2>5. WorkerOK' /\ CopiesOK'
      BY <1>5, TouchOK DEF AppClose
    <2>6. RulesOK' /\ QueueOK'
      BY <1>5 DEF AppClose, RulesOK, QueueOK, rules
    <2> QED
      BY <2>2, <2>3, <2>4, <2>5, <2>6
  <1>6. ASSUME NEW a \in Proc, AppExit(a)
        PROVE  TypeInv'
    BY <1>6 DEF AppExit, AppsOK, FilesOK, EventsOK, RulesOK, QueueOK, WorkerOK, CopiesOK,
                files, events, rules, worker
  <1> QED
    BY <1>1, <1>2, <1>3, <1>4, <1>5, <1>6 DEF AppNext

LEMMA PidIsPid ==
  ASSUME NEW by \in Process
  PROVE  Pid(by) \in Pids /\ Pid(by) \in {by, NoPid}
  BY DEF Pid, Pids, Process, Running

(* The events the loop reads, one report each. *)
LEMMA ReadOK ==
  ASSUME EventsOK, MainRead
  PROVE  /\ batch' \in Seq(Report) /\ DOMAIN batch' = DOMAIN kernel
         /\ \A i \in DOMAIN kernel :
              batch'[i].path = kernel[i].path /\ batch'[i].pid \in {kernel[i].by, NoPid}
  <1> DEFINE e(i) == [path |-> kernel[i].path, mask |-> kernel[i].mask,
                      pid |-> Pid(kernel[i].by)]
             b == [i \in DOMAIN kernel |-> e(i)]
  <1>1. \A i \in DOMAIN kernel : kernel[i] \in Event
    BY ElementOfSeq, LenProperties DEF EventsOK
  <1>2. ASSUME NEW i \in DOMAIN kernel
        PROVE  e(i) \in Report /\ e(i).path = kernel[i].path
               /\ e(i).pid \in {kernel[i].by, NoPid}
    BY <1>1, PidIsPid DEF Event, Report
  <1>3. batch' = b
    BY DEF MainRead
  <1> HIDE DEF e
  <1>4. /\ DOMAIN b = DOMAIN kernel /\ b = [i \in DOMAIN b |-> b[i]]
        /\ \A i \in DOMAIN b : b[i] \in Report
    BY <1>2
  <1>5. b \in Seq(Report)
    <2> HIDE DEF b
    <2> QED
      BY <1>4, SeqOf DEF EventsOK
  <1> QED
    BY <1>2, <1>3, <1>5

(* The event at the head of the batch. *)
LEMMA HeadOK ==
  ASSUME QueueOK, batch # <<>>
  PROVE  Head(batch) \in Report /\ Head(batch).path \in Path /\ Tail(batch) \in Seq(Report)
  <1>1. Head(batch) \in Report /\ Tail(batch) \in Seq(Report)
    BY TailDomain DEF QueueOK
  <1> QED
    BY <1>1 DEF Report

LEMMA TypeMain == TypeInv /\ (MainNext \/ MainExportFailed) => TypeInv'
  <1> SUFFICES ASSUME TypeInv, MainNext \/ MainExportFailed PROVE TypeInv'
    OBVIOUS
  <1> USE DEF TypeInv
  <1>1. CASE ReloadRead
    <2>1. ExistingDeleted(config, Path) \subseteq Path
      BY DEF ExistingDeleted
    <2>2. /\ loading' \in [next : Loadable, files : SUBSET Path, on : BOOLEAN]
          /\ loading'.files \subseteq ExistingDeleted(loading'.next, Path)
      <3>1. CASE Builds(config)
        <4>1. config \in Loadable
          BY <3>1 DEF RulesOK, Loadable
        <4>2. loading' = [next |-> config, files |-> ExistingDeleted(config, Path),
                          on |-> TRUE]
          BY <1>1, <3>1 DEF ReloadRead
        <4>3. loading'.files = ExistingDeleted(config, Path) /\ loading'.next = config
          BY <4>2
        <4> QED
          BY <2>1, <4>1, <4>2, <4>3
      <3>2. CASE ~Builds(config)
        BY <1>1, <3>2 DEF ReloadRead, RulesOK
      <3> QED
        BY <3>1, <3>2
    <2>3. RulesOK'
      BY <1>1, <2>2 DEF ReloadRead, RulesOK
    <2> QED
      BY <1>1, <2>3 DEF ReloadRead, AppsOK, FilesOK, EventsOK, QueueOK, WorkerOK, CopiesOK,
                        files, apps, events, worker
  <1>2. ASSUME NEW p \in loading.files, ReloadDelete(p)
        PROVE  TypeInv'
    <2>1. FilesOK' /\ RulesOK'
      <3>1. loading' = [loading EXCEPT !.files = @ \ {p}]
        BY <1>2 DEF ReloadDelete
      <3>2. /\ loading' \in [next : Loadable, files : SUBSET Path, on : BOOLEAN]
            /\ loading'.files = loading.files \ {p} /\ loading'.next = loading.next
        BY <3>1 DEF RulesOK
      <3> QED
        BY <1>2, <3>2 DEF ReloadDelete, FilesOK, RulesOK
    <2>2. WorkerOK' /\ CopiesOK'
      <3>1. UNCHANGED copies /\ (Touch \/ UNCHANGED worker)
        BY <1>2 DEF ReloadDelete
      <3> QED
        BY <3>1, TouchOK DEF worker, WorkerOK, CopiesOK
    <2> QED
      BY <1>2, <2>1, <2>2 DEF ReloadDelete, AppsOK, EventsOK, QueueOK, apps, events
  <1>3. CASE ReloadInstall
    <2>1. NoLoad \in [next : Loadable, files : SUBSET Path, on : BOOLEAN]
      BY DaemonAssumption, ConfigAssumption DEF NoLoad, Loadable
    <2>2. RulesOK'
      BY <1>3, <2>1 DEF ReloadInstall, RulesOK, NoLoad
    <2> QED
      BY <1>3, <2>2 DEF ReloadInstall, AppsOK, FilesOK, EventsOK, QueueOK, WorkerOK, CopiesOK,
                        files, apps, events, worker
  <1>4. CASE MainRead
    <2>1. EventsOK' /\ QueueOK'
      <3>1. kernel' = <<>> /\ UNCHANGED <<writer, missed, queue>>
        BY <1>4 DEF MainRead
      <3>2. <<>> \in Seq(Event) /\ Len(<<>>) <= KernelLimit
        BY EmptySeq, DaemonAssumption
      <3> QED
        BY <1>4, <3>1, <3>2, ReadOK DEF EventsOK, QueueOK
    <2> QED
      BY <1>4, <2>1 DEF MainRead, AppsOK, FilesOK, RulesOK, WorkerOK, CopiesOK,
                        files, apps, rules, worker
  <1>5. CASE MainSkip
    <2>1. QueueOK' /\ EventsOK'
      BY <1>5, HeadOK DEF MainSkip, NextEvent, QueueOK, EventsOK, events
    <2> QED
      BY <1>5, <2>1 DEF MainSkip, AppsOK, FilesOK, RulesOK, WorkerOK, CopiesOK,
                        files, apps, rules, worker
  <1>6. CASE MainQueue
    <2>1. PICK t \in TasksFor(Head(batch)) : Submit(t)
      BY <1>6 DEF MainQueue
    <2>2. t \in Task
      BY <1>6, <2>1, HeadOK, TasksAreTasks DEF MainQueue
    <2>3. QueueOK'
      BY <1>6, <2>1, <2>2, SubmitOK, HeadOK DEF MainQueue, NextEvent, QueueOK
    <2>4. EventsOK'
      BY <1>6, <2>1, <2>2, SubmitOK DEF MainQueue, EventsOK, events
    <2> QED
      BY <1>6, <2>3, <2>4 DEF MainQueue, AppsOK, FilesOK, RulesOK, WorkerOK, CopiesOK,
                              files, apps, rules, worker
  <1>7. CASE MainIgnore
    <2>1. QueueOK' /\ EventsOK'
      BY <1>7, HeadOK DEF MainIgnore, NextEvent, Unknown, QueueOK, EventsOK, events
    <2> QED
      BY <1>7, <2>1 DEF MainIgnore, AppsOK, FilesOK, RulesOK, WorkerOK, CopiesOK,
                        files, apps, rules, worker
  <1>8. CASE MainExport
    <2>1. PICK q \in ExportsFor(Head(batch)) : StartCopy("main", Head(batch).path, q)
      BY <1>8 DEF MainExport
    <2>2. Head(batch).path \in Path /\ q \in Path
      BY <1>8, <2>1, HeadOK, ExportsArePaths DEF MainExport
    <2>3. /\ FilesOK' /\ copies' \in [{"main", "worker"} -> Copy]
          /\ names[Head(batch).path] \in Inode /\ Target(q) \in Inode
          /\ copies' = [copies EXCEPT !["main"] = Started(Head(batch).path, q)]
          /\ UNCHANGED <<kernel, writer>>
      BY <2>1, <2>2, StartCopyOK
    <2>4. CopiesOK' /\ WorkerOK'
      BY <1>8, <2>2, <2>3 DEF MainExport, Touch, CopiesOK, WorkerOK, Started
    <2>5. QueueOK' /\ EventsOK'
      BY <1>8, <2>3, HeadOK DEF MainExport, NextEvent, Unknown, QueueOK, EventsOK
    <2> QED
      BY <1>8, <2>3, <2>4, <2>5 DEF MainExport, AppsOK, RulesOK, apps, rules
  <1>9. CASE MainExported
    <2>1. EndCopy("main") /\ Touch
      BY <1>9 DEF MainExported
    <2>2. /\ FilesOK' /\ EventsOK' /\ copies' \in [{"main", "worker"} -> Copy]
          /\ copies' = [copies EXCEPT !["main"] = [NoCopy EXCEPT !.seen = copies["main"].seen]]
          /\ ~copies'["main"].on
      BY <2>1, EndCopyOK
    <2>3. CopiesOK' /\ WorkerOK'
      BY <2>1, <2>2 DEF Touch, CopiesOK, WorkerOK
    <2> QED
      BY <1>9, <2>2, <2>3 DEF MainExported, AppsOK, RulesOK, QueueOK, apps, rules
  <1>10. CASE MainExportFailed
    <2>1. FailCopy("main") /\ Touch
      BY <1>10 DEF MainExportFailed
    <2>2. /\ FilesOK' /\ EventsOK' /\ copies' \in [{"main", "worker"} -> Copy]
          /\ copies' = [copies EXCEPT !["main"] = NoCopy] /\ ~copies'["main"].on
      BY <2>1, FailCopyOK
    <2>3. CopiesOK' /\ WorkerOK'
      BY <2>1, <2>2 DEF Touch, CopiesOK, WorkerOK
    <2> QED
      BY <1>10, <2>2, <2>3 DEF MainExportFailed, AppsOK, RulesOK, QueueOK, apps, rules
  <1> QED
    BY <1>1, <1>2, <1>3, <1>4, <1>5, <1>6, <1>7, <1>8, <1>9, <1>10 DEF MainNext

(* The task at the head of the queue. *)
LEMMA PopOK ==
  ASSUME QueueOK, queue # <<>>
  PROVE  Head(queue) \in Task /\ Tail(queue) \in Seq(Task) /\ Len(Tail(queue)) <= kQueueLimit
  BY TailDomain, LenProperties, QueueLimitAssumption DEF QueueOK

LEMMA TypeWorker == TypeInv /\ (WorkerNext \/ WorkerCopyFailed) => TypeInv'
  <1> SUFFICES ASSUME TypeInv, WorkerNext \/ WorkerCopyFailed PROVE TypeInv'
    OBVIOUS
  <1> USE DEF TypeInv
  <1>0. step # "pop" => task \in Task
    BY DEF WorkerOK
  <1>1. CASE WorkerPop
    <2>1. Head(queue) # NoTask /\ Head(queue) \in Task
      BY <1>1, PopOK, TaskFields DEF WorkerPop
    <2>2. QueueOK' /\ WorkerOK' /\ CopiesOK'
      BY <1>1, <2>1, PopOK DEF WorkerPop, QueueOK, WorkerOK, CopiesOK
    <2> QED
      BY <1>1, <2>2 DEF WorkerPop, AppsOK, FilesOK, EventsOK, RulesOK,
                        files, apps, events, rules
  <1>2. CASE WorkerCheck
    BY <1>2 DEF WorkerCheck, AppsOK, FilesOK, EventsOK, RulesOK, QueueOK, WorkerOK, CopiesOK,
                files, apps, events, rules
  <1>3. CASE WorkerRetry
    <2> DEFINE t == [task EXCEPT !.retry = @ + 1]
    <2>1. task \in Task /\ task.retry < kMaxRetryCount
      BY <1>0, <1>3 DEF WorkerRetry
    <2>2. t \in Task
      BY <2>1, RetryTask
    <2>3. Submit(t)
      BY <1>3 DEF WorkerRetry
    <2> HIDE DEF t
    <2>4. QueueOK'
      BY <1>3, <2>2, <2>3, SubmitOK DEF WorkerRetry, QueueOK
    <2>5. EventsOK'
      BY <1>3, <2>2, <2>3, SubmitOK DEF WorkerRetry, EventsOK, events
    <2>6. WorkerOK' /\ CopiesOK'
      BY <1>3 DEF WorkerRetry, Done, WorkerOK, CopiesOK
    <2> QED
      BY <1>3, <2>4, <2>5, <2>6 DEF WorkerRetry, AppsOK, FilesOK, RulesOK, files, apps, rules
  <1>4. CASE WorkerGiveUp
    <2>1. task.path \in Path
      BY <1>0, <1>4, TaskFields DEF WorkerGiveUp
    <2>2. EventsOK' /\ WorkerOK' /\ CopiesOK'
      BY <1>4, <2>1 DEF WorkerGiveUp, Done, EventsOK, WorkerOK, CopiesOK, events
    <2> QED
      BY <1>4, <2>2 DEF WorkerGiveUp, AppsOK, FilesOK, RulesOK, QueueOK, files, apps, rules
  <1>5. CASE WorkerDelete
    <2>1. task \in Task
      BY <1>0, <1>5 DEF WorkerDelete
    <2>2. \A d \in task.tree : d \in Emptied
      BY <2>1, TaskFields
    <2>3. {p \in Path : \E d \in task.tree : IsPrefix(d, p)}
            \subseteq {p \in Path : SweptBySomeRule(p)}
      BY <2>2, EmptiedIsSwept
    <2>4. WorkerOK' /\ CopiesOK'
      BY <1>5, <2>1, <2>3, TaskFields DEF WorkerDelete, Done, WorkerOK, CopiesOK
    <2>5. FilesOK'
      BY <1>5 DEF WorkerDelete, FilesOK
    <2> QED
      BY <1>5, <2>4, <2>5 DEF WorkerDelete, AppsOK, EventsOK, RulesOK, QueueOK,
                              apps, events, rules
  <1>6. CASE WorkerDeleteTree
    <2>1. WorkerOK' /\ CopiesOK'
      BY <1>6 DEF WorkerDeleteTree, Done, WorkerOK, CopiesOK
    <2>2. FilesOK'
      BY <1>6 DEF WorkerDeleteTree, FilesOK
    <2> QED
      BY <1>6, <2>1, <2>2 DEF WorkerDeleteTree, AppsOK, EventsOK, RulesOK, QueueOK,
                              apps, events, rules
  <1>7. CASE WorkerRename
    <2>1. task.path \in Path /\ task.target \in Path
      BY <1>0, <1>7, TaskFields DEF WorkerRename
    <2>2. names[task.path] \in Inode
      BY <1>7, <2>1 DEF WorkerRename, FilesOK
    <2>3. FilesOK'
      BY <1>7, <2>1, <2>2, RenamedHandles DEF WorkerRename, FilesOK
    <2>4. EventsOK'
      BY <1>7, <2>1, NotifyOK DEF WorkerRename, Process
    <2>5. WorkerOK' /\ CopiesOK'
      BY <1>7 DEF WorkerRename, Done, WorkerOK, CopiesOK
    <2> QED
      BY <1>7, <2>3, <2>4, <2>5 DEF WorkerRename, AppsOK, RulesOK, QueueOK, apps, rules
  <1>8. CASE WorkerNoMove
    BY <1>8 DEF WorkerNoMove, Done, AppsOK, FilesOK, EventsOK, RulesOK, QueueOK, WorkerOK,
                CopiesOK, files, apps, events, rules
  <1>9. CASE WorkerCopy
    <2>1. task.path \in Path /\ task.target \in Path
      BY <1>0, <1>9, TaskFields DEF WorkerCopy
    <2>2. task.path # task.target
      BY <1>9, <2>1, DaemonAssumption DEF WorkerCopy
    <2>3. /\ FilesOK' /\ copies' \in [{"main", "worker"} -> Copy]
          /\ names[task.path] \in Inode /\ Target(task.target) \in Inode
          /\ copies' = [copies EXCEPT !["worker"] = Started(task.path, task.target)]
          /\ UNCHANGED <<kernel, writer>>
      BY <1>9, <2>1, StartCopyOK DEF WorkerCopy
    <2>4. CopiesOK' /\ WorkerOK'
      BY <1>9, <2>1, <2>2, <2>3 DEF WorkerCopy, CopiesOK, WorkerOK, Started
    <2>5. EventsOK'
      BY <1>9, <2>3 DEF WorkerCopy, EventsOK
    <2> QED
      BY <1>9, <2>3, <2>4, <2>5 DEF WorkerCopy, AppsOK, RulesOK, QueueOK, apps, rules
  <1>10. CASE WorkerCopied
    <2>1. EndCopy("worker") /\ step' = "unlink" /\ UNCHANGED <<task, todo, touched>>
      BY <1>10 DEF WorkerCopied
    <2>2. /\ FilesOK' /\ EventsOK' /\ copies' \in [{"main", "worker"} -> Copy]
          /\ copies' = [copies EXCEPT !["worker"] = [NoCopy EXCEPT !.seen = copies["worker"].seen]]
          /\ ~copies'["worker"].on /\ copies["worker"].on
      BY <2>1, EndCopyOK
    <2>3. CopiesOK' /\ WorkerOK'
      BY <2>1, <2>2 DEF CopiesOK, WorkerOK
    <2> QED
      BY <1>10, <2>2, <2>3 DEF WorkerCopied, AppsOK, RulesOK, QueueOK, apps, rules
  <1>11. CASE WorkerUnlink
    <2>1. FilesOK'
      BY <1>11 DEF WorkerUnlink, FilesOK
    <2>2. NoCopy \in Copy /\ ~NoCopy.on
      <3>1. 0 \in Version
        BY DaemonAssumption DEF Version
      <3> QED
        BY <3>1, NoCopyIsCopy
    <2>3. WorkerOK' /\ CopiesOK'
      BY <1>11, <2>2 DEF WorkerUnlink, Done, WorkerOK, CopiesOK
    <2> QED
      BY <1>11, <2>1, <2>3 DEF WorkerUnlink, AppsOK, EventsOK, RulesOK, QueueOK,
                               apps, events, rules
  <1>12. CASE WorkerCopyFailed
    <2>1. FailCopy("worker") /\ Done /\ UNCHANGED <<todo, touched>>
      BY <1>12 DEF WorkerCopyFailed
    <2>2. /\ FilesOK' /\ EventsOK' /\ copies' \in [{"main", "worker"} -> Copy]
          /\ copies' = [copies EXCEPT !["worker"] = NoCopy] /\ ~copies'["worker"].on
      BY <2>1, FailCopyOK
    <2>3. CopiesOK' /\ WorkerOK'
      BY <2>1, <2>2 DEF Done, CopiesOK, WorkerOK
    <2> QED
      BY <1>12, <2>2, <2>3 DEF WorkerCopyFailed, AppsOK, RulesOK, QueueOK, apps, rules
  <1> QED
    BY <1>1, <1>2, <1>3, <1>4, <1>5, <1>6, <1>7, <1>8, <1>9, <1>10, <1>11, <1>12
    DEF WorkerNext

LEMMA TypeStep == TypeInv /\ [Next]_vars => TypeInv'
  <1> SUFFICES ASSUME TypeInv, [Next]_vars PROVE TypeInv'
    OBVIOUS
  <1>1. ASSUME NEW c \in Config, Save(c)
        PROVE  TypeInv'
    <2>1. RulesOK'
      BY <1>1, DaemonAssumption DEF Save, TypeInv, RulesOK
    <2> QED
      BY <1>1, <2>1 DEF Save, TypeInv, AppsOK, FilesOK, EventsOK, QueueOK, WorkerOK, CopiesOK,
                        files, apps, events, worker
  <1>2. CASE UNCHANGED vars
    BY <1>2 DEF TypeInv, AppsOK, FilesOK, EventsOK, RulesOK, QueueOK, WorkerOK, CopiesOK,
                vars, files, apps, events, rules, worker
  <1> QED
    BY <1>1, <1>2, TypeApp, TypeMain, TypeWorker DEF Next, CopyFailure

LEMMA AlwaysTyped == Spec => []TypeInv
  BY TypeInit, TypeStep, PTL DEF Spec

(* The variables have their types: of the files, the events of the kernel, *)
(* the queue within its limit, the worker and its copies.                  *)
THEOREM DaemonTypeCorrect == Spec => []TypeOK
  <1>1. TypeInv => TypeOK
    <2> SUFFICES ASSUME TypeInv PROVE TypeOK
      OBVIOUS
    <2>1. \A i \in DOMAIN kernel : kernel[i].path \in Path /\ kernel[i].by \in Process
      <3>1. \A i \in DOMAIN kernel : kernel[i] \in Event
        BY ElementOfSeq, LenProperties DEF TypeInv, EventsOK
      <3> QED
        BY <3>1 DEF Event
    <2>2. \A i \in DOMAIN queue : queue[i] \in Task
      BY ElementOfSeq, LenProperties DEF TypeInv, QueueOK
    <2>3. \A i \in DOMAIN queue : queue[i].path \in Path /\ queue[i].retry <= kMaxRetryCount
      BY <2>2, TaskFields, DaemonAssumption
    <2>4. config \in Config /\ g_dynamic_rules \in Config
      BY DEF TypeInv, RulesOK, Loadable
    <2>5. /\ handles \subseteq [by : Proc, inode : Inode, path : Path, version : Version]
          /\ writer \in [Path -> Proc \cup {DaemonProc, NoPid}]
      BY DEF TypeInv, FilesOK, EventsOK, Handle, Process, Pids
    <2> QED
      BY <2>1, <2>3, <2>4, <2>5
      DEF TypeInv, TypeOK, AppsOK, FilesOK, EventsOK, RulesOK, QueueOK, WorkerOK, CopiesOK,
          Process
  <1> QED
    BY <1>1, AlwaysTyped, PTL
-----------------------------------------------------------------------------
(* The three things that happen to names: one goes, one comes, one becomes *)
(* another.                                                                *)
LEMMA NameGoes ==
  ASSUME FilesOK, Named, NEW p,
         names' = [names EXCEPT ![p] = 0] \/ UNCHANGED names, handles' \subseteq handles
  PROVE  Named'
  BY DaemonAssumption DEF FilesOK, Named, Existing, Handle

LEMMA NameComes ==
  ASSUME FilesOK, Named, NEW q \in Path, names[q] # 0 \/ FreeInode # {},
         names' = [names EXCEPT ![q] = Target(q)],
         \A h \in handles' : h \in handles \/ (h.inode = Target(q) /\ h.path = q)
  PROVE  Named'
  <1>1. /\ Target(q) \in Inode /\ Target(q) # 0
        /\ names[q] = 0 => Target(q) \in FreeInode
        /\ names[q] # 0 => Target(q) = names[q]
    BY TargetInode DEF Target
  <1>2. CASE names[q] # 0
    <2>1. UNCHANGED names
      BY <1>1, <1>2 DEF FilesOK
    <2>2. \A h \in handles' : h \in handles \/ (h.inode = names[q] /\ h.path = q)
      BY <1>1, <1>2
    <2> QED
      BY <1>2, <2>1, <2>2 DEF Named, Existing
  <1>3. CASE names[q] = 0
    <2>1. /\ \A p \in Path : names[p] # Target(q)
          /\ \A h \in handles : h.inode # Target(q)
      BY <1>1, <1>3 DEF FreeInode
    <2>2. \A p \in Path : names'[p] = IF p = q THEN Target(q) ELSE names[p]
      BY DEF FilesOK
    <2> QED
      BY <1>1, <2>1, <2>2 DEF Named, Existing
  <1> QED
    BY <1>2, <1>3

LEMMA NameChanges ==
  ASSUME FilesOK, Named, NEW p \in Path, NEW q \in Path, p # q, names[p] # 0,
         names' = [names EXCEPT ![p] = 0, ![q] = names[p]],
         handles' = Renamed(names[p], q)
  PROVE  Named'
  <1>1. names[p] \in Inode
    BY DEF FilesOK
  <1>2. \A o \in Path : names'[o] = IF o = q THEN names[p] ELSE IF o = p THEN 0 ELSE names[o]
    BY DEF FilesOK
  <1>3. \A h \in handles' : \E k \in handles :
          h.inode = k.inode /\ h.path = IF k.inode = names[p] THEN q ELSE k.path
    BY <1>1, RenamedHandles
  <1>4. \A h \in handles' : h.inode # 0
    BY <1>3, DaemonAssumption DEF FilesOK, Handle
  <1>5. \A r, s \in Existing' : names'[r] = names'[s] => r = s
    BY <1>2 DEF Named, Existing
  <1>6. ASSUME NEW h \in handles', NEW r \in Path, names'[r] = h.inode
        PROVE  h.path = r
    <2>1. PICK k \in handles :
            h.inode = k.inode /\ h.path = IF k.inode = names[p] THEN q ELSE k.path
      BY <1>3
    <2>2. r # p \/ p = q
      BY <1>2, <1>4, <1>6
    <2>3. CASE r = q
      BY <1>2, <1>6, <2>1, <2>3
    <2>4. CASE r # q
      <3>1. names[r] = k.inode /\ names[r] # names[p]
        BY <1>1, <1>2, <1>4, <1>6, <2>1, <2>2, <2>4, DaemonAssumption DEF Named, Existing
      <3> QED
        BY <2>1, <3>1 DEF Named
    <2> QED
      BY <2>3, <2>4
  <1> QED
    BY <1>5, <1>6 DEF Named

LEMMA NamedInit == Init => Named
  <1> SUFFICES ASSUME Init PROVE Named
    OBVIOUS
  <1> DEFINE f == CHOOSE g \in [Initial -> Inode] :
                    \A p, q \in Initial : g[p] = g[q] => p = q
  <1>1. f \in [Initial -> Inode] /\ \A p, q \in Initial : f[p] = f[q] => p = q
    BY DaemonAssumption
  <1>2. names = [p \in Path |-> IF p \in Initial THEN f[p] ELSE 0] /\ handles = {}
    BY DEF Init
  <1> HIDE DEF f
  <1> QED
    BY <1>1, <1>2, DaemonAssumption DEF Named, Existing

LEMMA NamedStep == TypeInv /\ Named /\ [Next]_vars => Named'
  <1> SUFFICES ASSUME TypeInv, Named, [Next]_vars PROVE Named'
    OBVIOUS
  <1>0. FilesOK /\ CopiesOK /\ QueueOK /\ RulesOK /\ EventsOK
    BY DEF TypeInv
  <1>1. ASSUME NEW a \in Proc, NEW p \in Path, AppOpen(a, p)
        PROVE  Named'
    <2>1. /\ names[p] # 0 \/ FreeInode # {}
          /\ names' = [names EXCEPT ![p] = Target(p)]
          /\ handles' = handles \cup
               {[by |-> a, inode |-> Target(p), path |-> p, version |-> ops + 1]}
      BY <1>1 DEF AppOpen, Target
    <2>2. \A h \in handles' : h \in handles \/ (h.inode = Target(p) /\ h.path = p)
      BY <2>1
    <2> QED
      BY <1>0, <2>1, <2>2, NameComes
  <1>2. ASSUME NEW a \in Proc, NEW p \in Path, AppRead(a, p)
        PROVE  Named'
    BY <1>0, <1>2 DEF AppRead, Named, Existing
  <1>3. ASSUME NEW a \in Proc, NEW p \in Path, AppUnlink(a, p)
        PROVE  Named'
    BY <1>0, <1>3, NameGoes DEF AppUnlink
  <1>4. ASSUME NEW a \in Proc, NEW p \in Path, NEW q \in Path, AppRename(a, p, q)
        PROVE  Named'
    BY <1>0, <1>4, NameChanges DEF AppRename
  <1>5. ASSUME NEW h \in handles, NEW written \in BOOLEAN, AppClose(h, written)
        PROVE  Named'
    BY <1>0, <1>5, NameGoes DEF AppClose
  <1>6. ASSUME NEW p \in loading.files, ReloadDelete(p)
        PROVE  Named'
    BY <1>0, <1>6, NameGoes DEF ReloadDelete
  <1>7. CASE MainExport
    <2>1. PICK q \in ExportsFor(Head(batch)) : StartCopy("main", Head(batch).path, q)
      BY <1>7 DEF MainExport
    <2>2. Head(batch).path \in Path /\ q \in Path
      BY <1>0, <1>7, <2>1, HeadOK, ExportsArePaths DEF MainExport
    <2> QED
      BY <1>0, <2>1, <2>2, NameComes DEF StartCopy, Target
  <1>8. ASSUME NEW t \in {"main", "worker"}, EndCopy(t)
        PROVE  Named'
    BY <1>8 DEF EndCopy, Named, Existing
  <1>9. ASSUME NEW t \in {"main", "worker"}, FailCopy(t)
        PROVE  Named'
    BY <1>0, <1>9, NameGoes DEF FailCopy
  <1>10. CASE WorkerDelete \/ WorkerUnlink
    BY <1>0, <1>10, NameGoes DEF WorkerDelete, WorkerUnlink
  <1>11. CASE WorkerDeleteTree
    BY <1>0, <1>11, NameGoes DEF WorkerDeleteTree
  <1>12. CASE WorkerRename
    <2>1. task.path \in Path /\ task.target \in Path
      BY <1>12, TaskFields DEF WorkerRename, TypeInv, WorkerOK
    <2> QED
      BY <1>0, <1>12, <2>1, NameChanges DEF WorkerRename
  <1>13. CASE WorkerCopy
    <2>1. task.path \in Path /\ task.target \in Path
      BY <1>13, TaskFields DEF WorkerCopy, TypeInv, WorkerOK
    <2> QED
      BY <1>0, <1>13, <2>1, NameComes DEF WorkerCopy, StartCopy, Target
  <1>14. CASE UNCHANGED files
    BY <1>14 DEF files, Named, Existing
  <1> QED
    BY <1>1, <1>2, <1>3, <1>4, <1>5, <1>6, <1>7, <1>8, <1>9, <1>10, <1>11, <1>12, <1>13, <1>14
    DEF Next, AppNext, MainNext, WorkerNext, CopyFailure, vars, AppExit, Save, ReloadRead,
        ReloadInstall, MainRead, MainSkip, MainQueue, MainIgnore, MainExported,
        MainExportFailed, WorkerPop, WorkerCheck, WorkerRetry, WorkerGiveUp, WorkerNoMove,
        WorkerCopied, WorkerCopyFailed

LEMMA WriterWrites ==
  ASSUME EventsOK, NEW p \in Path, NEW by \in Process, writer' = [writer EXCEPT ![p] = by]
  PROVE  Written \subseteq Written' /\ p \in Written'
  <1>1. by # NoPid
    BY DaemonAssumption DEF Process
  <1> QED
    BY <1>1 DEF EventsOK, Written

(* An event keeps what is known of the others, and is heard itself. *)
LEMMA HeardOfEvent ==
  ASSUME EventsOK, EventsOK', Heard, NEW p \in Path, NEW by \in Process,
         writer' = [writer EXCEPT ![p] = by],
         \A o, b : Has(kernel', o, b) => Has(kernel, o, b) \/ (o = p /\ b = by),
         UNCHANGED <<batch, queue>>, step' = "pop" \/ UNCHANGED <<task, step>>
                                     \/ (step # "pop" /\ UNCHANGED task)
  PROVE  Heard'
  <1>1. Written \subseteq Written' /\ p \in Written'
    BY WriterWrites
  <1>2. \A o \in Path, b \in Process : Has(kernel', o, b) => o \in Written'
    BY <1>1 DEF Heard
  <1>3. /\ \A i \in DOMAIN batch' : batch'[i].path \in Written'
        /\ \A i \in DOMAIN queue' : queue'[i].path \in Written'
        /\ step' # "pop" => task'.path \in Written'
    BY <1>1 DEF Heard
  <1> QED
    BY <1>2, <1>3 DEF Heard

LEMMA HeardOfTask ==
  ASSUME EventsOK, QueueOK, Heard, NEW t \in Task, t.path \in Written, Submit(t),
         UNCHANGED events
  PROVE  \A i \in DOMAIN queue' : queue'[i].path \in Written'
  <1>1. \A j \in DOMAIN queue' : queue'[j] = t \/ \E i \in DOMAIN queue : queue'[j] = queue[i]
    BY SubmitOK
  <1>2. Written' = Written
    BY DEF events, Written
  <1> QED
    BY <1>1, <1>2 DEF Heard

LEMMA HeardOfBatch ==
  ASSUME QueueOK, Heard, batch # <<>>
  PROVE  /\ Head(batch).path \in Written
         /\ \A i \in DOMAIN Tail(batch) : Tail(batch)[i].path \in Written
  BY TailDomain DEF QueueOK, Heard

LEMMA HeardInit == Init => Heard
  BY DEF Init, Heard, Has

LEMMA HeardStep == TypeInv /\ TypeInv' /\ Heard /\ [Next]_vars => Heard'
  <1> SUFFICES ASSUME TypeInv, TypeInv', Heard, [Next]_vars PROVE Heard'
    OBVIOUS
  <1>0. FilesOK /\ EventsOK /\ EventsOK' /\ QueueOK /\ RulesOK /\ CopiesOK
    BY DEF TypeInv
  <1>1. ASSUME NEW h \in handles, NEW written \in BOOLEAN, AppClose(h, written)
        PROVE  Heard'
    <2>1. h.path \in Path /\ h.by \in Process /\ UNCHANGED <<batch, queue, task, step>>
      BY <1>0, <1>1 DEF AppClose, Touch, FilesOK, Handle, Process
    <2>2. CASE h.version # 0
      <3>1. Notify(h.path, "close_write", h.by)
        BY <1>1, <2>2 DEF AppClose
      <3>2. /\ writer' = [writer EXCEPT ![h.path] = h.by]
            /\ \A o, b : Has(kernel', o, b) => Has(kernel, o, b) \/ (o = h.path /\ b = h.by)
        BY <1>0, <2>1, <3>1, NotifyOK
      <3> QED
        BY <1>0, <2>1, <3>2, HeardOfEvent
    <2>3. CASE h.version = 0
      BY <1>1, <2>1, <2>3 DEF AppClose, Heard, Has, Written, events
    <2> QED
      BY <2>2, <2>3
  <1>2. ASSUME NEW a \in Proc, NEW p \in Path, NEW q \in Path, AppRename(a, p, q)
        PROVE  Heard'
    <2>1. Notify(q, "moved_to", a) /\ a \in Process /\ UNCHANGED <<batch, queue, task, step>>
      BY <1>2 DEF AppRename, Op, Touch, Process
    <2>2. /\ writer' = [writer EXCEPT ![q] = a]
          /\ \A o, b : Has(kernel', o, b) => Has(kernel, o, b) \/ (o = q /\ b = a)
      BY <1>0, <2>1, NotifyOK
    <2> QED
      BY <1>0, <2>1, <2>2, HeardOfEvent
  <1>3. ASSUME NEW t \in {"main", "worker"}, EndCopy(t), UNCHANGED <<batch, queue, task>>,
               UNCHANGED step \/ step # "pop"
        PROVE  Heard'
    <2> DEFINE p == ClosedName(copies[t])
    <2>1. Notify(p, "close_write", DaemonProc) /\ p \in Path
      BY <1>0, <1>3, EndCopyOK
    <2> HIDE DEF p
    <2>2. /\ writer' = [writer EXCEPT ![p] = DaemonProc]
          /\ \A o, b : Has(kernel', o, b) => Has(kernel, o, b) \/ (o = p /\ b = DaemonProc)
      BY <1>0, <2>1, NotifyOK DEF Process
    <2> QED
      BY <1>0, <1>3, <2>1, <2>2, HeardOfEvent DEF Process
  <1>4. ASSUME NEW t \in {"main", "worker"}, FailCopy(t), UNCHANGED <<batch, queue>>,
               UNCHANGED <<task, step>> \/ step' = "pop"
        PROVE  Heard'
    <2> DEFINE p == ClosedName(copies[t])
    <2>1. /\ p \in Path /\ writer' = [writer EXCEPT ![p] = DaemonProc]
          /\ \A o, b : Has(kernel', o, b) => Has(kernel, o, b) \/ (o = p /\ b = DaemonProc)
      BY <1>0, <1>4, FailCopyOK
    <2> HIDE DEF p
    <2> QED
      BY <1>0, <1>4, <2>1, HeardOfEvent DEF Process
  <1>5. CASE MainRead
    <2>1. /\ DOMAIN batch' = DOMAIN kernel
          /\ \A i \in DOMAIN kernel : batch'[i].path = kernel[i].path
      BY <1>0, <1>5, ReadOK
    <2>2. ASSUME NEW i \in DOMAIN kernel
          PROVE  kernel[i].path \in Written
      <3>1. kernel[i] \in Event
        BY <1>0, ElementOfSeq, LenProperties DEF EventsOK
      <3>2. kernel[i].path \in Path /\ kernel[i].by \in Process
        BY <3>1 DEF Event
      <3> QED
        BY <3>2 DEF Heard, Has
    <2> QED
      BY <1>5, <2>1, <2>2 DEF MainRead, Heard, Has, Written, worker
  <1>6. CASE MainSkip \/ MainIgnore
    BY <1>0, <1>6, HeardOfBatch
    DEF MainSkip, MainIgnore, NextEvent, Heard, Has, Written, events, worker
  <1>7. CASE MainQueue
    <2>1. PICK t \in TasksFor(Head(batch)) : Submit(t)
      BY <1>7 DEF MainQueue
    <2>2. t \in Task
      BY <1>0, <1>7, <2>1, HeadOK, TasksAreTasks DEF MainQueue
    <2>3. t.path = Head(batch).path
      BY <2>1 DEF TasksFor, DeleteTask, MoveTask
    <2>4. \A i \in DOMAIN queue' : queue'[i].path \in Written'
      BY <1>0, <1>7, <2>1, <2>2, <2>3, HeardOfTask, HeardOfBatch DEF MainQueue
    <2> QED
      BY <1>0, <1>7, <2>4, HeardOfBatch
      DEF MainQueue, NextEvent, Heard, Has, Written, events, worker
  <1>8. CASE MainExport
    <2>1. UNCHANGED <<kernel, writer, queue, task, step>> /\ batch' = Tail(batch)
      BY <1>8 DEF MainExport, StartCopy, Touch, NextEvent, events
    <2> QED
      BY <1>0, <1>8, <2>1, HeardOfBatch DEF MainExport, Heard, Has, Written
  <1>9. CASE WorkerPop
    BY <1>0, <1>9, TailDomain
    DEF WorkerPop, QueueOK, Heard, Has, Written, events
  <1>10. CASE WorkerRetry
    <2> DEFINE t == [task EXCEPT !.retry = @ + 1]
    <2>1. task \in Task /\ task.retry < kMaxRetryCount
      BY <1>10 DEF WorkerRetry, TypeInv, WorkerOK
    <2>2. t \in Task /\ t.path = task.path /\ Submit(t)
      BY <1>10, <2>1, RetryTask DEF WorkerRetry
    <2> HIDE DEF t
    <2>3. \A i \in DOMAIN queue' : queue'[i].path \in Written'
      BY <1>0, <1>10, <2>2, HeardOfTask DEF WorkerRetry, Heard
    <2> QED
      BY <1>10, <2>3 DEF WorkerRetry, Done, Heard, Has, Written, events
  <1>11. CASE WorkerRename
    <2>1. task.target \in Path
      BY <1>11, TaskFields DEF WorkerRename, TypeInv, WorkerOK
    <2>2. Notify(task.target, "moved_to", DaemonProc) /\ UNCHANGED <<batch, queue>>
          /\ step' = "pop"
      BY <1>11 DEF WorkerRename, Done
    <2>3. /\ writer' = [writer EXCEPT ![task.target] = DaemonProc]
          /\ \A o, b : Has(kernel', o, b)
               => Has(kernel, o, b) \/ (o = task.target /\ b = DaemonProc)
      BY <1>0, <2>1, <2>2, NotifyOK DEF Process
    <2> QED
      BY <1>0, <2>1, <2>2, <2>3, HeardOfEvent DEF Process
  <1>12. CASE WorkerCopy
    <2>1. UNCHANGED <<kernel, writer, batch, queue, task>> /\ step # "pop"
      BY <1>12 DEF WorkerCopy, StartCopy, events
    <2> QED
      BY <2>1 DEF Heard, Has, Written
  <1>13. CASE UNCHANGED <<events, batch, queue>>
                /\ (UNCHANGED <<task, step>> \/ step' = "pop" \/ (step # "pop" /\ UNCHANGED task))
    BY <1>13 DEF Heard, Has, Written, events
  <1>14. CASE MainNext \/ MainExportFailed
    <2>1. MainExported => Heard'
      BY <1>3 DEF MainExported, Touch
    <2>2. MainExportFailed => Heard'
      BY <1>4 DEF MainExportFailed, Touch
    <2> QED
      BY <1>5, <1>6, <1>7, <1>8, <1>13, <1>14, <2>1, <2>2
      DEF MainNext, ReloadRead, ReloadDelete, ReloadInstall, Touch, worker
  <1>15. CASE WorkerNext \/ WorkerCopyFailed
    <2>1. WorkerCopied => Heard'
      <3>1. copies["worker"].on => step # "pop"
        BY <1>0 DEF CopiesOK
      <3> QED
        BY <1>3, <3>1 DEF WorkerCopied, EndCopy
    <2>2. WorkerCopyFailed => Heard'
      BY <1>4 DEF WorkerCopyFailed, Done
    <2> QED
      BY <1>9, <1>10, <1>11, <1>12, <1>13, <1>15, <2>1, <2>2
      DEF WorkerNext, WorkerCheck, WorkerGiveUp, WorkerDelete, WorkerDeleteTree, WorkerNoMove,
          WorkerUnlink, Done
  <1> QED
    BY <1>1, <1>2, <1>13, <1>14, <1>15
    DEF Next, AppNext, CopyFailure, vars, worker, AppOpen, AppRead, AppUnlink, AppExit, Save,
        Op, Touch

LEMMA AlwaysHeard == Spec => [](TypeInv /\ Heard)
  BY AlwaysTyped, HeardInit, HeardStep, PTL DEF Spec

(* The daemon takes away no file that was there before it and that no      *)
(* event has been about, unless a section asks for it or a copy onto it    *)
(* failed: what the worker removes by name was heard of.                   *)
THEOREM OldFilesStayThere == Spec => OldFilesStay
  <1> DEFINE A == \A p \in Path :
                    names[p] # 0 /\ writer[p] = NoPid /\ names'[p] = 0
                      => \/ AppNext \/ SweptBySomeRule(p)
                         \/ loading.on /\ ClearedByRules(loading.next, p)
                         \/ \E t \in DOMAIN copies : copies[t].on /\ copies[t].target = p
  <1>1. ASSUME TypeInv, Heard, Next, NEW p \in Path,
               names[p] # 0, writer[p] = NoPid, names'[p] = 0, ~AppNext
        PROVE  \/ SweptBySomeRule(p)
               \/ loading.on /\ ClearedByRules(loading.next, p)
               \/ \E t \in DOMAIN copies : copies[t].on /\ copies[t].target = p
    <2>0. FilesOK /\ CopiesOK /\ QueueOK /\ RulesOK
      BY <1>1 DEF TypeInv
    <2>1. task.path = p => step = "pop"
      BY <1>1 DEF Heard, Written
    <2>2. ASSUME NEW q \in Path, names[q] # 0 \/ FreeInode # {},
                 names' = [names EXCEPT ![q] = Target(q)]
          PROVE  FALSE
      BY <1>1, <2>0, <2>2, TargetInode DEF FilesOK
    <2>3. ASSUME NEW t \in {"main", "worker"}, FailCopy(t)
          PROVE  \E u \in DOMAIN copies : copies[u].on /\ copies[u].target = p
      BY <1>1, <2>0, <2>3 DEF FailCopy, FilesOK, CopiesOK
    <2>4. CASE MainExport
      <3>1. PICK q \in ExportsFor(Head(batch)) : StartCopy("main", Head(batch).path, q)
        BY <2>4 DEF MainExport
      <3>2. Head(batch).path \in Path /\ q \in Path
        BY <2>0, <2>4, <3>1, HeadOK, ExportsArePaths DEF MainExport
      <3> QED
        BY <2>2, <3>1, <3>2 DEF StartCopy, Target
    <2>5. CASE WorkerDelete \/ WorkerUnlink
      BY <1>1, <2>0, <2>1, <2>5 DEF WorkerDelete, WorkerUnlink, FilesOK, CopiesOK, EndCopy,
                                    TypeInv, WorkerOK
    <2>6. CASE WorkerDeleteTree
      BY <1>1, <2>0, <2>6 DEF WorkerDeleteTree, FilesOK, TypeInv, WorkerOK
    <2>7. CASE WorkerRename
      BY <1>1, <2>0, <2>1, <2>7 DEF WorkerRename, FilesOK
    <2>8. CASE WorkerCopy
      <3>1. task.path \in Path /\ task.target \in Path
        BY <1>1, <2>8, TaskFields DEF WorkerCopy, TypeInv, WorkerOK
      <3> QED
        BY <2>2, <2>8, <3>1 DEF WorkerCopy, StartCopy, Target
    <2>9. ASSUME NEW q \in loading.files, ReloadDelete(q)
          PROVE  SweptBySomeRule(p) \/ (loading.on /\ ClearedByRules(loading.next, p))
      <3>1. q = p
        BY <1>1, <2>0, <2>9 DEF ReloadDelete, FilesOK
      <3>2. loading.on /\ p \in ExistingDeleted(loading.next, Path) /\ loading.next \in Loadable
        BY <2>0, <2>9, <3>1 DEF ReloadDelete, RulesOK
      <3> QED
        BY <3>2, ClearedOrSwept
    <2>10. names' # names
      BY <1>1
    <2> QED
      BY <1>1, <2>3, <2>4, <2>5, <2>6, <2>7, <2>8, <2>9, <2>10
      DEF Next, MainNext, WorkerNext, CopyFailure, files, Save, ReloadRead,
          ReloadInstall, MainRead, MainSkip, MainQueue, MainIgnore, MainExported,
          MainExportFailed, WorkerPop, WorkerCheck, WorkerRetry, WorkerGiveUp, WorkerNoMove,
          WorkerCopied, WorkerCopyFailed, EndCopy
  <1>2. TypeInv /\ Heard /\ [Next]_vars => [A]_vars
    BY <1>1
  <1> QED
    BY <1>2, AlwaysHeard, PTL DEF Spec, OldFilesStay
-----------------------------------------------------------------------------
LEMMA SteadyCopy ==
  ASSUME TypeInv, Named, WorkerCopy
  PROVE  Steady'
  <1> DEFINE p == task.path
             q == task.target
  <1>0. FilesOK /\ CopiesOK
    BY DEF TypeInv
  <1>1. p \in Path /\ q \in Path
    BY TaskFields DEF WorkerCopy, TypeInv, WorkerOK
  <1>2. p # q
    BY <1>1, DaemonAssumption DEF WorkerCopy
  <1>3. /\ names[p] \in Inode /\ Target(q) \in Inode
        /\ names[q] # 0 \/ Target(q) \in FreeInode
        /\ names' = [names EXCEPT ![q] = Target(q)]
        /\ data' = [data EXCEPT ![Target(q)] = 0]
        /\ copies' = [copies EXCEPT !["worker"] = Started(p, q)]
        /\ task' = task /\ step' = "copy"
    BY <1>0, <1>1, StartCopyOK DEF WorkerCopy
  <1>4. names[p] # Target(q)
    <2>1. CASE names[q] = 0
      BY <1>1, <1>3, <2>1 DEF FreeInode
    <2>2. CASE names[q] # 0
      BY <1>1, <1>2, <1>3, <2>2, DaemonAssumption DEF Target, Named, Existing
    <2> QED
      BY <2>1, <2>2
  <1>5. copies'["worker"] = Started(p, q)
    BY <1>0, <1>3 DEF CopiesOK
  <1>6. copies'["worker"].from = names[p] /\ copies'["worker"].to = Target(q)
        /\ copies'["worker"].seen = data[names[p]]
    BY <1>5 DEF Started
  <1>7. names'[p] = names[p] /\ names'[q] = Target(q) /\ data'[names[p]] = data[names[p]]
    BY <1>0, <1>1, <1>2, <1>3, <1>4 DEF FilesOK
  <1> QED
    BY <1>3, <1>4, <1>6, <1>7 DEF Steady

LEMMA SteadyCopied ==
  ASSUME TypeInv, Steady, WorkerCopied
  PROVE  Steady'
  <1> DEFINE c == copies["worker"]
  <1>0. FilesOK /\ CopiesOK /\ WorkerOK
    BY DEF TypeInv
  <1>1. /\ c.on /\ step' = "unlink" /\ UNCHANGED <<names, task, touched>>
        /\ \E v \in Copied(c) : data' = [data EXCEPT ![c.to] = v]
    BY DEF WorkerCopied, EndCopy
  <1>2. ASSUME ~touched
        PROVE  /\ names[task.path] = c.from /\ names[task.target] = c.to
               /\ c.from \in Inode /\ c.to \in Inode /\ c.from # c.to
               /\ data'[c.from] = data'[c.to]
    <2>1. /\ names[task.path] = c.from /\ names[task.target] = c.to
          /\ c.from # c.to /\ data[c.from] = c.seen
      BY <1>0, <1>1, <1>2 DEF Steady, CopiesOK
    <2>2. c.from \in Inode /\ c.to \in Inode
      BY <1>0, <1>1 DEF CopiesOK
    <2>3. data' = [data EXCEPT ![c.to] = c.seen]
      BY <1>1, <2>1 DEF Copied
    <2> QED
      BY <1>0, <2>1, <2>2, <2>3 DEF FilesOK
  <1> HIDE DEF c
  <1> QED
    BY <1>1, <1>2, DaemonAssumption DEF Steady

LEMMA SteadyStep == TypeInv /\ Named /\ Steady /\ [Next]_vars => Steady'
  <1> SUFFICES ASSUME TypeInv, Named, Steady, [Next]_vars PROVE Steady'
    OBVIOUS
  <1>1. CASE Touch
    BY <1>1 DEF Touch, Steady, TypeInv, WorkerOK
  <1>2. CASE UNCHANGED <<names, data, worker, copies>>
    BY <1>2 DEF Steady, worker
  <1>3. CASE step' \notin {"copy", "unlink"}
    BY <1>3 DEF Steady
  <1>4. CASE AppNext
    BY <1>1, <1>2, <1>4
    DEF AppNext, AppOpen, AppRead, AppUnlink, AppRename, AppClose, AppExit, Op, files
  <1>7. ASSUME NEW p \in loading.files, ReloadDelete(p)
        PROVE  Steady'
    <2>1. CASE names[p] # 0
      BY <1>1, <1>7, <2>1 DEF ReloadDelete
    <2>2. CASE names[p] = 0
      <3>1. p \in Path /\ names \in [Path -> Inode \cup {0}]
        BY <1>7 DEF TypeInv, FilesOK, RulesOK
      <3>2. names' = names
        BY <1>7, <2>2, <3>1 DEF ReloadDelete
      <3> QED
        BY <1>2, <1>7, <2>2, <3>2 DEF ReloadDelete
    <2> QED
      BY <2>1, <2>2
  <1>5. CASE MainNext \/ MainExportFailed
    BY <1>1, <1>2, <1>5, <1>7
    DEF MainNext, ReloadRead, ReloadInstall, MainRead, MainSkip, MainQueue,
        MainIgnore, MainExport, MainExported, MainExportFailed, files
  <1>6. CASE WorkerNext \/ WorkerCopyFailed
    BY <1>3, <1>6, SteadyCopy, SteadyCopied
    DEF WorkerNext, WorkerPop, WorkerCheck, WorkerRetry, WorkerGiveUp, WorkerDelete,
        WorkerDeleteTree, WorkerRename, WorkerNoMove, WorkerUnlink, WorkerCopyFailed, Done
  <1> QED
    BY <1>2, <1>4, <1>5, <1>6 DEF Next, CopyFailure, Save, vars, files

LEMMA AlwaysSteady == Spec => [](TypeInv /\ Named /\ Steady)
  <1>1. Init => Steady
    BY DEF Init, Steady
  <1> QED
    BY <1>1, AlwaysTyped, NamedInit, NamedStep, SteadyStep, PTL DEF Spec

(* What an application has written and closed survives the daemon's steps, *)
(* unless a delete rule, another file at the target of a move or export,   *)
(* or an interference with a copy across file systems accounts for it.     *)
THEOREM ContentIsKept == Spec => ContentSurvives
  <1> DEFINE A == \A v \in 1 .. MaxOps :
                    Present(v) /\ ~Present(v)' =>
                      \/ AppNext
                      \/ step = "tree" \/ task.action = "delete" \/ loading.on
                      \/ Overwrites(v)
                      \/ step = "unlink" /\ touched
  <1>1. ASSUME TypeInv, Named, Steady, Next, NEW v \in 1 .. MaxOps, Present(v), ~Present(v)',
               ~AppNext, step # "tree", task.action # "delete", ~loading.on,
               ~(step = "unlink" /\ touched)
        PROVE  Overwrites(v)
    <2>0. FilesOK /\ CopiesOK /\ QueueOK /\ RulesOK /\ WorkerOK
      BY <1>1 DEF TypeInv
    <2>1. PICK p \in Path : names[p] # 0 /\ data[names[p]] = v
      BY <1>1 DEF Present
    <2>2. names[p] \in Inode
      BY <2>0, <2>1 DEF FilesOK
    <2>3. \A q \in Path : names'[q] = 0 \/ data'[names'[q]] # v
      BY <1>1 DEF Present
    <2>4. ~(UNCHANGED <<names, data>>)
      BY <2>1, <2>3
    <2>5. ASSUME NEW t \in {"main", "worker"}, NEW o \in Path, NEW q \in Path,
                 StartCopy(t, o, q)
          PROVE  names[q] # 0 /\ data[names[q]] = v
      <3>1. /\ Target(q) \in Inode
            /\ names[q] # 0 \/ Target(q) \in FreeInode
            /\ names' = [names EXCEPT ![q] = Target(q)]
            /\ data' = [data EXCEPT ![Target(q)] = 0]
        BY <2>0, <2>5, StartCopyOK
      <3>2. CASE names[q] # 0
        <4>1. Target(q) = names[q]
          BY <3>2 DEF Target
        <4>2. UNCHANGED names
          BY <2>0, <3>1, <4>1 DEF FilesOK
        <4>3. names[p] = names[q]
          BY <2>0, <2>1, <2>2, <2>3, <3>1, <4>1, <4>2 DEF FilesOK
        <4> QED
          BY <2>1, <3>2, <4>3
      <3>3. CASE names[q] = 0
        <4>1. names[p] # Target(q) /\ p # q
          BY <2>1, <3>1, <3>3 DEF FreeInode
        <4>2. names'[p] = names[p] /\ data'[names[p]] = data[names[p]]
          BY <2>0, <2>2, <3>1, <4>1 DEF FilesOK
        <4> QED
          BY <2>1, <2>3, <4>2
      <3> QED
        BY <3>2, <3>3
    <2>6. ASSUME NEW t \in {"main", "worker"}, EndCopy(t)
          PROVE  Overwrites(v)
      <3>1. copies[t].on /\ copies[t].to \in Inode /\ UNCHANGED names
            /\ \E w \in Copied(copies[t]) : data' = [data EXCEPT ![copies[t].to] = w]
        BY <2>0, <2>6 DEF EndCopy, CopiesOK
      <3>2. names[p] = copies[t].to
        BY <2>0, <2>1, <2>2, <2>3, <3>1 DEF FilesOK
      <3>3. v = data[copies[t].to] /\ t \in DOMAIN copies
        BY <2>0, <2>1, <3>2 DEF CopiesOK
      <3> QED
        BY <3>1, <3>3 DEF Overwrites
    <2>7. ASSUME NEW t \in {"main", "worker"}, FailCopy(t)
          PROVE  Overwrites(v)
      <3>1. copies[t].on /\ names' = [names EXCEPT ![copies[t].target] = 0] /\ UNCHANGED data
        BY <2>7 DEF FailCopy
      <3>2. p = copies[t].target
        BY <2>0, <2>1, <2>3, <3>1 DEF FilesOK
      <3>3. p \in {copies[t].target} \cap Existing /\ t \in DOMAIN copies
        BY <2>0, <2>1, <3>2 DEF Existing, CopiesOK
      <3> QED
        BY <2>1, <3>1, <3>3 DEF Overwrites
    <2>8. CASE MainExport
      <3>1. PICK q \in ExportsFor(Head(batch)) : StartCopy("main", Head(batch).path, q)
        BY <2>8 DEF MainExport
      <3>2. Head(batch).path \in Path /\ q \in Path /\ Head(batch) \in SeqRange(batch)
        BY <2>0, <2>8, <3>1, HeadOK, ExportsArePaths, TailDomain
        DEF MainExport, SeqRange, QueueOK
      <3>3. names[q] # 0 /\ data[names[q]] = v
        BY <2>5, <3>1, <3>2
      <3> QED
        BY <3>1, <3>2, <3>3 DEF Overwrites
    <2>9. CASE WorkerCopy
      <3>1. task.path \in Path /\ task.target \in Path /\ step = "act" /\ task.action = "move"
        BY <2>0, <2>9, TaskFields DEF WorkerCopy, WorkerOK
      <3>2. names[task.target] # 0 /\ data[names[task.target]] = v
        BY <2>5, <2>9, <3>1 DEF WorkerCopy
      <3> QED
        BY <3>1, <3>2 DEF Overwrites
    <2>10. CASE WorkerRename
      <3>1. /\ task.path \in Path /\ task.target \in Path /\ step = "act"
            /\ task.action = "move" /\ names[task.path] # 0
            /\ names' = [names EXCEPT ![task.path] = 0, ![task.target] = names[task.path]]
            /\ UNCHANGED data /\ task.path # task.target
        BY <2>0, <2>10, TaskFields DEF WorkerRename, WorkerOK
      <3>2. p = task.target
        BY <2>0, <2>1, <2>3, <3>1 DEF FilesOK
      <3> QED
        BY <2>1, <3>1, <3>2 DEF Overwrites
    <2>11. CASE WorkerUnlink
      <3>1. /\ names' = [names EXCEPT ![task.path] = 0] /\ UNCHANGED data
            /\ step = "unlink" /\ ~touched
        BY <1>1, <2>11 DEF WorkerUnlink
      <3>2. p = task.path
        BY <2>0, <2>1, <2>3, <3>1 DEF FilesOK
      <3>3. /\ names[task.target] # 0 /\ names[task.path] # names[task.target]
            /\ data[names[task.target]] = v
        BY <1>1, <2>1, <3>1, <3>2 DEF Steady
      <3>4. task.target \in Path
        BY <2>0, <3>1, TaskFields DEF WorkerOK
      <3>5. names'[task.target] = names[task.target]
        BY <2>0, <3>1, <3>3, <3>4 DEF FilesOK
      <3> QED
        BY <2>3, <3>1, <3>3, <3>4, <3>5
    <2> QED
      BY <1>1, <2>4, <2>6, <2>7, <2>8, <2>9, <2>10, <2>11
      DEF Next, MainNext, WorkerNext, CopyFailure, files, Save, ReloadRead, ReloadDelete,
          ReloadInstall, MainRead, MainSkip, MainQueue, MainIgnore, MainExported,
          MainExportFailed, WorkerPop, WorkerCheck, WorkerRetry, WorkerGiveUp, WorkerNoMove,
          WorkerCopied, WorkerCopyFailed, WorkerDelete, WorkerDeleteTree
  <1>2. TypeInv /\ Named /\ Steady /\ [Next]_vars => [A]_vars
    BY <1>1
  <1> QED
    BY <1>2, AlwaysSteady, PTL DEF Spec, ContentSurvives
-----------------------------------------------------------------------------
(***************************************************************************)
(* Nothing is forgotten.  First what keeps a path accounted for.           *)
(***************************************************************************)
LEMMA SettledSame ==
  ASSUME NEW p, writer'[p] = writer[p], UNCHANGED g_dynamic_rules
  PROVE  Settled(p)' <=> Settled(p)
  BY DEF Settled, TasksFor, Stays, PackageIn

(* The tasks of a report do not depend on what happened to the file. *)
LEMMA SettledByReport ==
  ASSUME NEW e \in Report, e.pid = writer[e.path],
         TasksFor(e) = {} \/ \E t \in TasksFor(e) : Stays(t)
  PROVE  Settled(e.path)
  <1> DEFINE o == [path |-> e.path, mask |-> {"close_write"}, pid |-> writer[e.path]]
  <1>1. o.path = e.path /\ o.pid = e.pid
    OBVIOUS
  <1> HIDE DEF o
  <1>2. TasksFor(o) = TasksFor(e)
    BY <1>1 DEF TasksFor, PackageIn, DeleteTask, MoveTask
  <1> QED
    BY <1>2 DEF Settled, o

(* A step that leaves the path its file, its writers and its last event,   *)
(* and hands on what is under way for it.                                  *)
SameFile(p) ==
  /\ names'[p] = names[p] /\ writer'[p] = writer[p]
  /\ UNCHANGED g_dynamic_rules /\ missed \subseteq missed'
  /\ \A h \in handles : h.inode = names[p] /\ h.version # 0
       => \E k \in handles' : k.inode = h.inode /\ k.version # 0
  /\ \A b : Has(kernel, p, b) => Has(kernel', p, b)

HandedOn(p) ==
  /\ Reported(p) => Accounted(p)' \/ p \in missed'
  /\ p \in Taken(queue) => p \in Taken(queue') \/ Handled(p)' \/ p \in missed'
  /\ Handled(p) => Accounted(p)' \/ p \in missed'
  /\ BeingCopied(p) => Accounted(p)' \/ p \in missed'

Forgotten(p) == names[p] # 0 /\ p \notin missed /\ Closed(p) /\ ~Accounted(p)

LEMMA KeptIsAccounted ==
  ASSUME Remembered, saves = 0, NEW p \in Path, SameFile(p), HandedOn(p)
  PROVE  ~Forgotten(p)'
  <1> SUFFICES ASSUME Forgotten(p)' PROVE FALSE
    OBVIOUS
  <1>1. Closed(p)
    BY DEF Forgotten, Closed, BeingWritten, SameFile
  <1>2. Accounted(p)
    BY <1>1 DEF Forgotten, SameFile, Remembered, Existing
  <1>3. CASE Settled(p)
    BY <1>3, SettledSame DEF SameFile, Forgotten, Accounted
  <1>4. CASE Has(kernel, p, writer[p])
    BY <1>4 DEF SameFile, Forgotten, Accounted
  <1>5. CASE Reported(p) \/ Handled(p) \/ BeingCopied(p)
    BY <1>5 DEF HandedOn, Forgotten
  <1>6. CASE p \in Taken(queue)
    BY <1>6 DEF HandedOn, Forgotten, Accounted
  <1> QED
    BY <1>2, <1>3, <1>4, <1>5, <1>6 DEF Accounted

LEMMA HasNow ==
  ASSUME NEW p, Has(kernel', p, writer'[p]) \/ p \in missed'
  PROVE  ~Forgotten(p)'
  BY DEF Forgotten, Accounted

LEMMA GoneNow == ASSUME NEW p, names'[p] = 0 PROVE ~Forgotten(p)'
  BY DEF Forgotten

(* The places that a step leaves alone. *)
LEMMA SameBatch ==
  ASSUME NEW p, UNCHANGED batch, writer'[p] = writer[p] PROVE Reported(p)' <=> Reported(p)
  BY DEF Reported

LEMMA SameQueue == ASSUME UNCHANGED queue PROVE Taken(queue') = Taken(queue)
  BY DEF Taken, Stays

LEMMA SameTask ==
  ASSUME NEW p, UNCHANGED task,
         step' = step \/ step' \in {"check", "act", "copy", "unlink"}
  PROVE  Handled(p) => Handled(p)'
  BY DEF Handled, Stays

LEMMA SameCopies ==
  ASSUME NEW p, UNCHANGED copies, names'[p] = names[p] PROVE BeingCopied(p)' <=> BeingCopied(p)
  BY DEF BeingCopied

LEMMA Unmoved ==
  ASSUME NEW p, writer'[p] = writer[p], names'[p] = names[p],
         UNCHANGED <<batch, queue, copies>>, UNCHANGED <<task, step>>
  PROVE  HandedOn(p)
  BY SameBatch, SameQueue, SameTask, SameCopies DEF HandedOn, Accounted

(* An event leaves other paths as they are. *)
LEMMA OtherEvent ==
  ASSUME EventsOK, NEW o \in Path, NEW m \in {"close_write", "moved_to"},
         NEW by \in Process, Notify(o, m, by)
  PROVE  /\ ~Forgotten(o)'
         /\ missed \subseteq missed'
         /\ \A p \in Path \ {o} : /\ writer'[p] = writer[p]
                                  /\ \A b : Has(kernel, p, b) => Has(kernel', p, b)
  <1>1. /\ Has(kernel', o, by) \/ o \in missed'
        /\ \A p, b : Has(kernel, p, b) => Has(kernel', p, b)
        /\ writer' = [writer EXCEPT ![o] = by] /\ missed \subseteq missed'
    BY NotifyOK
  <1>2. /\ writer'[o] = by
        /\ \A p \in Path \ {o} : writer'[p] = writer[p]
    BY <1>1 DEF EventsOK
  <1> QED
    BY <1>1, <1>2, HasNow

(* An event moves up in the batch, or it is the one that is handled. *)
LEMMA BatchAdvances ==
  ASSUME QueueOK, batch # <<>>, batch' = Tail(batch), NEW p, writer'[p] = writer[p],
         Reported(p)
  PROVE  \/ Reported(p)'
         \/ Head(batch).path = p /\ Head(batch).pid \in {writer[p], NoPid}
  <1>1. PICK i \in DOMAIN batch : batch[i].path = p /\ batch[i].pid \in {writer[p], NoPid}
    BY DEF Reported
  <1>2. CASE i = 1
    BY <1>1, <1>2, TailDomain DEF QueueOK
  <1>3. CASE i # 1
    <2>1. i - 1 \in DOMAIN batch' /\ batch'[i - 1] = batch[i]
      BY <1>3, TailDomain DEF QueueOK
    <2> QED
      BY <1>1, <2>1 DEF Reported
  <1> QED
    BY <1>2, <1>3

LEMMA RememberedApp ==
  ASSUME TypeInv, Named, Remembered, saves = 0, AppNext, NEW p \in Path
  PROVE  ~Forgotten(p)'
  <1>0. FilesOK /\ EventsOK
    BY DEF TypeInv
  <1>1. ASSUME NEW a \in Proc, NEW o \in Path, AppOpen(a, o)
        PROVE  ~Forgotten(p)'
    <2>1. /\ names' = [names EXCEPT ![o] = Target(o)]
          /\ handles' = handles \cup
               {[by |-> a, inode |-> Target(o), path |-> o, version |-> ops + 1]}
          /\ UNCHANGED <<kernel, writer, missed, g_dynamic_rules, batch, queue, copies, task, step>>
          /\ ops + 1 # 0
      BY <1>1 DEF AppOpen, Target, Op, Touch, events, rules, TypeInv, AppsOK
    <2>2. CASE p = o
      <3>1. BeingWritten(p)'
        <4> DEFINE h == [by |-> a, inode |-> Target(o), path |-> o, version |-> ops + 1]
        <4>1. h \in handles' /\ h.inode = Target(o) /\ h.version # 0
          BY <2>1
        <4>2. names'[p] = Target(o)
          BY <1>0, <2>1, <2>2 DEF FilesOK
        <4> QED
          BY <4>1, <4>2 DEF BeingWritten
      <3> QED
        BY <3>1 DEF Forgotten, Closed
    <2>3. CASE p # o
      <3>1. SameFile(p)
        BY <1>0, <2>1, <2>3 DEF SameFile, FilesOK
      <3>2. HandedOn(p)
        BY <2>1, <3>1, Unmoved DEF SameFile
      <3> QED
        BY <3>1, <3>2, KeptIsAccounted
    <2> QED
      BY <2>2, <2>3
  <1>2. ASSUME NEW a \in Proc, NEW o \in Path, AppRead(a, o) \/ AppUnlink(a, o)
        PROVE  ~Forgotten(p)'
    <2>1. /\ UNCHANGED <<kernel, writer, missed, g_dynamic_rules, batch, queue, copies, task, step>>
          /\ handles \subseteq handles' /\ (UNCHANGED names \/ names' = [names EXCEPT ![o] = 0])
      BY <1>2 DEF AppRead, AppUnlink, Op, Touch, events, rules
    <2>2. CASE names'[p] # names[p]
      BY <1>0, <2>1, <2>2, GoneNow DEF FilesOK
    <2>3. CASE names'[p] = names[p]
      <3>1. SameFile(p)
        BY <2>1, <2>3 DEF SameFile
      <3>2. HandedOn(p)
        BY <2>1, <2>3, Unmoved
      <3> QED
        BY <3>1, <3>2, KeptIsAccounted
    <2> QED
      BY <2>2, <2>3
  <1>3. ASSUME NEW a \in Proc, NEW o \in Path, NEW q \in Path, AppRename(a, o, q)
        PROVE  ~Forgotten(p)'
    <2>1. /\ Notify(q, "moved_to", a) /\ a \in Process
          /\ names' = [names EXCEPT ![o] = 0, ![q] = names[o]]
          /\ handles' = Renamed(names[o], q) /\ names[o] \in Inode
          /\ UNCHANGED <<g_dynamic_rules, batch, queue, copies, task, step>>
      BY <1>0, <1>3 DEF AppRename, Op, Touch, rules, Process, FilesOK
    <2>2. /\ ~Forgotten(q)' /\ missed \subseteq missed'
          /\ p # q => /\ writer'[p] = writer[p]
                      /\ \A b : Has(kernel, p, b) => Has(kernel', p, b)
      BY <1>0, <2>1, OtherEvent
    <2>3. \A h \in handles : \E k \in handles' : k.inode = h.inode /\ k.version = h.version
      BY <1>0, <2>1, RenamedHandles
    <2>4. CASE p # q /\ p = o
      BY <1>0, <2>1, <2>4, GoneNow DEF FilesOK
    <2>5. CASE p # q /\ p # o
      <3>1. names'[p] = names[p]
        BY <1>0, <2>1, <2>5 DEF FilesOK
      <3>2. SameFile(p)
        BY <2>1, <2>2, <2>3, <2>5, <3>1 DEF SameFile
      <3>3. HandedOn(p)
        BY <2>1, <2>2, <2>5, <3>1, Unmoved
      <3> QED
        BY <3>2, <3>3, KeptIsAccounted
    <2> QED
      BY <2>2, <2>4, <2>5
  <1>4. ASSUME NEW h \in handles, NEW written \in BOOLEAN, AppClose(h, written)
        PROVE  ~Forgotten(p)'
    <2>1. /\ h.path \in Path /\ h.by \in Process /\ handles' = handles \ {h}
          /\ UNCHANGED <<names, g_dynamic_rules, batch, queue, copies, task, step>>
      BY <1>0, <1>4 DEF AppClose, Touch, rules, Process, FilesOK, Handle
    <2>2. CASE h.version # 0
      <3>1. Notify(h.path, "close_write", h.by)
        BY <1>4, <2>2 DEF AppClose
      <3>2. /\ ~Forgotten(h.path)' /\ missed \subseteq missed'
            /\ p # h.path => /\ writer'[p] = writer[p]
                             /\ \A b : Has(kernel, p, b) => Has(kernel', p, b)
        BY <1>0, <2>1, <3>1, OtherEvent
      <3>3. CASE p # h.path
        <4>1. names[p] # h.inode
          BY <3>3 DEF Named
        <4>2. SameFile(p)
          BY <2>1, <3>2, <3>3, <4>1 DEF SameFile
        <4>3. HandedOn(p)
          BY <2>1, <3>2, <3>3, Unmoved
        <4> QED
          BY <4>2, <4>3, KeptIsAccounted
      <3> QED
        BY <3>2, <3>3
    <2>3. CASE h.version = 0
      <3>1. UNCHANGED <<kernel, writer, missed>>
        BY <1>4, <2>3 DEF AppClose, events
      <3>2. SameFile(p)
        BY <2>1, <2>3, <3>1 DEF SameFile
      <3>3. HandedOn(p)
        BY <2>1, <3>1, Unmoved
      <3> QED
        BY <3>2, <3>3, KeptIsAccounted
    <2> QED
      BY <2>2, <2>3
  <1>5. ASSUME NEW a \in Proc, AppExit(a)
        PROVE  ~Forgotten(p)'
    <2>1. UNCHANGED <<names, handles, kernel, writer, missed, g_dynamic_rules, batch, queue,
                      copies, task, step>>
      BY <1>5 DEF AppExit, files, events, rules, worker
    <2>2. SameFile(p) /\ HandedOn(p)
      BY <2>1, Unmoved DEF SameFile
    <2> QED
      BY <2>2, KeptIsAccounted
  <1> QED
    BY <1>1, <1>2, <1>3, <1>4, <1>5 DEF AppNext

(* What is done with the event at the head of the batch: its path is       *)
(* settled, becomes the path of a task, or is missed.                      *)
LEMMA BatchHandedOn ==
  ASSUME QueueOK, batch # <<>>, batch' = Tail(batch), NEW p \in Path, SameFile(p),
         UNCHANGED <<task, step>>,
         Head(batch).path = p /\ Head(batch).pid = NoPid => p \in missed',
         Head(batch).path = p /\ Head(batch).pid = writer[p] => Accounted(p)' \/ p \in missed',
         p \in Taken(queue) => p \in Taken(queue') \/ p \in missed',
         BeingCopied(p) => BeingCopied(p)'
  PROVE  HandedOn(p)
  <1>1. Reported(p) => Accounted(p)' \/ p \in missed'
    BY BatchAdvances DEF SameFile, Accounted
  <1>2. Handled(p) => Handled(p)'
    BY SameTask
  <1> QED
    BY <1>1, <1>2 DEF HandedOn, Accounted

LEMMA RememberedEvent ==
  ASSUME TypeInv, Remembered, saves = 0, MainSkip \/ MainQueue \/ MainIgnore \/ MainExport,
         NEW p \in Path
  PROVE  ~Forgotten(p)'
  <1> DEFINE e == Head(batch)
  <1>0. FilesOK /\ EventsOK /\ QueueOK /\ RulesOK /\ CopiesOK
    BY DEF TypeInv
  <1>1. /\ batch # <<>> /\ batch' = Tail(batch) /\ e \in Report
        /\ ~copies["main"].on
        /\ UNCHANGED <<handles, kernel, writer, g_dynamic_rules, task, step>>
    BY <1>0, HeadOK
    DEF MainSkip, MainQueue, MainIgnore, MainExport, NextEvent, StartCopy, Touch, files,
        events, rules, worker
  <1>2. e.path = p /\ e.pid = writer[p] /\ TasksFor(e) = {} => Settled(p)'
    BY <1>1, SettledByReport, SettledSame
  <1>3. CASE MainSkip
    <2>1. UNCHANGED <<names, queue, copies>> /\ missed' = missed \cup {e.path}
      BY <1>3 DEF MainSkip, files
    <2>2. SameFile(p)
      BY <1>1, <2>1 DEF SameFile
    <2>3. HandedOn(p)
      BY <1>0, <1>1, <2>1, <2>2, BatchHandedOn, SameQueue, SameCopies DEF SameFile
    <2> QED
      BY <2>2, <2>3, KeptIsAccounted
  <1>4. CASE MainQueue
    <2>1. PICK t \in TasksFor(e) : Submit(t)
      BY <1>4 DEF MainQueue
    <2>2. t \in Task /\ t.path = e.path /\ t.pid = e.pid
      <3>1. t.path = e.path /\ t.pid = e.pid
        BY <2>1 DEF TasksFor, DeleteTask, MoveTask
      <3> QED
        BY <1>0, <1>1, <2>1, <3>1, TasksAreTasks
    <2>3. UNCHANGED <<names, copies>>
      BY <1>4 DEF MainQueue, files
    <2>4. /\ missed \subseteq missed' /\ Unknown(t) \subseteq missed'
          /\ Stays(t) \/ t.path \in Taken(queue')
          /\ Taken(queue) \subseteq Taken(queue') \cup missed'
      BY <1>0, <2>1, <2>2, SubmitOK
    <2>5. SameFile(p)
      BY <1>1, <2>3, <2>4 DEF SameFile
    <2>6. e.path = p /\ e.pid = NoPid => p \in missed'
      BY <2>2, <2>4 DEF Unknown
    <2>7. e.path = p /\ e.pid = writer[p] => Accounted(p)'
      <3>1. CASE Stays(t)
        BY <1>1, <2>1, <3>1, SettledByReport, SettledSame DEF Accounted
      <3>2. CASE ~Stays(t)
        BY <2>2, <2>4, <3>2 DEF Accounted
      <3> QED
        BY <3>1, <3>2
    <2>8. HandedOn(p)
      BY <1>0, <1>1, <2>3, <2>4, <2>5, <2>6, <2>7, BatchHandedOn, SameCopies
    <2> QED
      BY <2>5, <2>8, KeptIsAccounted
  <1>5. CASE MainIgnore
    <2>1. /\ UNCHANGED <<names, queue, copies>> /\ missed' = missed \cup Unknown(e)
          /\ TasksFor(e) = {}
      BY <1>5 DEF MainIgnore, files
    <2>2. SameFile(p)
      BY <1>1, <2>1 DEF SameFile
    <2>3. e.path = p /\ e.pid = NoPid => p \in missed'
      BY <2>1 DEF Unknown
    <2>4. e.path = p /\ e.pid = writer[p] => Accounted(p)'
      BY <1>1, <1>2, <2>1 DEF Accounted
    <2>5. HandedOn(p)
      BY <1>0, <1>1, <2>1, <2>2, <2>3, <2>4, BatchHandedOn, SameQueue, SameCopies
    <2> QED
      BY <2>2, <2>5, KeptIsAccounted
  <1>6. CASE MainExport
    <2>1. PICK q \in ExportsFor(e) : StartCopy("main", e.path, q)
      BY <1>6 DEF MainExport
    <2>2. /\ UNCHANGED queue /\ missed' = missed \cup Unknown(e) /\ TasksFor(e) = {}
      BY <1>6 DEF MainExport
    <2>3. e.path \in Path /\ q \in Path
      BY <1>0, <1>1, <2>1, HeadOK, ExportsArePaths
    <2>4. /\ names' = [names EXCEPT ![q] = Target(q)]
          /\ copies' = [copies EXCEPT !["main"] = Started(e.path, q)]
      BY <1>0, <2>1, <2>3, StartCopyOK
    <2>5. copies'["main"] = Started(e.path, q) /\ copies'["worker"] = copies["worker"]
      BY <1>0, <2>4 DEF CopiesOK
    <2>6. CASE p = q
      <3>1. names'[p] = Target(q) /\ copies'["main"].on /\ copies'["main"].to = Target(q)
        BY <1>0, <2>4, <2>5, <2>6 DEF FilesOK, Started
      <3>2. BeingCopied(p)'
        BY <3>1 DEF BeingCopied
      <3> QED
        BY <3>2 DEF Forgotten, Accounted
    <2>7. CASE p # q
      <3>1. names'[p] = names[p]
        BY <1>0, <2>4, <2>7 DEF FilesOK
      <3>2. SameFile(p)
        BY <1>1, <2>2, <3>1 DEF SameFile
      <3>3. e.path = p /\ e.pid = NoPid => p \in missed'
        BY <2>2 DEF Unknown
      <3>4. e.path = p /\ e.pid = writer[p] => Accounted(p)'
        BY <1>1, <1>2, <2>2 DEF Accounted
      <3>5. BeingCopied(p) => BeingCopied(p)'
        BY <1>1, <2>5, <3>1 DEF BeingCopied
      <3>6. HandedOn(p)
        BY <1>0, <1>1, <2>2, <3>2, <3>3, <3>4, <3>5, BatchHandedOn, SameQueue
      <3> QED
        BY <3>2, <3>6, KeptIsAccounted
    <2> QED
      BY <2>6, <2>7
  <1> QED
    BY <1>3, <1>4, <1>5, <1>6

LEMMA RememberedRead ==
  ASSUME TypeInv, Remembered, saves = 0, MainRead, NEW p \in Path
  PROVE  ~Forgotten(p)'
  <1>1. /\ DOMAIN batch' = DOMAIN kernel
        /\ \A i \in DOMAIN kernel :
             batch'[i].path = kernel[i].path /\ batch'[i].pid \in {kernel[i].by, NoPid}
    BY ReadOK DEF TypeInv
  <1>2. UNCHANGED <<names, handles, writer, missed, g_dynamic_rules, queue, task, step, copies>>
    BY DEF MainRead, files, rules, worker
  <1>3. ASSUME Has(kernel, p, writer[p])
        PROVE  Reported(p)'
    BY <1>1, <1>2, <1>3 DEF Has, Reported
  <1>4. ~Reported(p)
    BY DEF MainRead, Reported
  <1>5. Accounted(p) => Accounted(p)'
    <2>1. Settled(p) => Settled(p)'
      BY <1>2, SettledSame
    <2>2. Handled(p) => Handled(p)'
      BY <1>2, SameTask
    <2>3. BeingCopied(p) => BeingCopied(p)'
      BY <1>2, SameCopies
    <2>4. Taken(queue') = Taken(queue)
      BY <1>2, SameQueue
    <2> QED
      BY <1>3, <1>4, <2>1, <2>2, <2>3, <2>4 DEF Accounted
  <1> QED
    BY <1>2, <1>5 DEF Forgotten, Remembered, Existing, Closed, BeingWritten

LEMMA RememberedCopied ==
  ASSUME TypeInv, Named, Remembered, saves = 0, NEW t \in {"main", "worker"}, EndCopy(t),
         UNCHANGED <<g_dynamic_rules, batch, queue, task>>, UNCHANGED step \/ step' = "unlink",
         NEW p \in Path
  PROVE  ~Forgotten(p)'
  <1> DEFINE c == copies[t]
             o == ClosedName(c)
  <1>0. FilesOK /\ EventsOK /\ CopiesOK
    BY DEF TypeInv
  <1>1. /\ c.on /\ o \in Path /\ UNCHANGED <<names, handles>> /\ c.to \in Inode
        /\ copies' = [copies EXCEPT ![t] = [NoCopy EXCEPT !.seen = c.seen]]
        /\ Notify(o, "close_write", DaemonProc)
    BY <1>0, EndCopyOK DEF CopiesOK
  <1>2. \A q \in Path : names[q] = c.to => names[o] = c.to
    BY <1>0, <1>1, ClosedNameIsPath
  <1> HIDE DEF o
  <1>3. /\ p = o => ~Forgotten(p)'
        /\ missed \subseteq missed'
        /\ p # o => /\ writer'[p] = writer[p]
                    /\ \A b : Has(kernel, p, b) => Has(kernel', p, b)
    BY <1>0, <1>1, OtherEvent DEF Process
  <1>4. CASE p # o
    <2>1. SameFile(p)
      BY <1>1, <1>3, <1>4 DEF SameFile
    <2>2. names[p] # c.to
      BY <1>1, <1>2, <1>4, DaemonAssumption DEF Named, Existing
    <2>3. \A u \in {"main", "worker"} : u # t => copies'[u] = copies[u]
      BY <1>0, <1>1 DEF CopiesOK
    <2>4. BeingCopied(p) => BeingCopied(p)'
      BY <1>1, <2>2, <2>3 DEF BeingCopied
    <2>5. HandedOn(p)
      BY <1>3, <1>4, <2>4, SameBatch, SameQueue, SameTask DEF HandedOn, Accounted
    <2> QED
      BY <2>1, <2>5, KeptIsAccounted
  <1> QED
    BY <1>3, <1>4

LEMMA RememberedFailure ==
  ASSUME TypeInv, Named, Remembered, saves = 0, NEW t \in {"main", "worker"}, FailCopy(t),
         UNCHANGED <<g_dynamic_rules, batch, queue>>,
         (t = "main" /\ UNCHANGED <<task, step>>) \/ t = "worker",
         NEW p \in Path
  PROVE  ~Forgotten(p)'
  <1> DEFINE c == copies[t]
             o == ClosedName(c)
  <1>0. FilesOK /\ EventsOK /\ CopiesOK
    BY DEF TypeInv
  <1>1. /\ c.on /\ o \in Path /\ UNCHANGED handles /\ c.to \in Inode
        /\ copies' = [copies EXCEPT ![t] = NoCopy]
        /\ names' = [names EXCEPT ![c.target] = 0]
        /\ writer' = [writer EXCEPT ![o] = DaemonProc]
        /\ missed \cup {c.source} \subseteq missed'
        /\ Has(kernel', o, DaemonProc) \/ o \in missed'
        /\ \A q, b : Has(kernel, q, b) => Has(kernel', q, b)
    BY <1>0, FailCopyOK DEF CopiesOK
  <1>2. \A q \in Path : names[q] = c.to => names[o] = c.to
    BY <1>0, <1>1, ClosedNameIsPath
  <1> HIDE DEF o
  <1>3. CASE p = o
    <2>1. writer'[p] = DaemonProc
      BY <1>0, <1>1, <1>3 DEF EventsOK
    <2> QED
      BY <1>1, <1>3, <2>1, HasNow
  <1>4. CASE p = c.target
    BY <1>0, <1>1, <1>4, GoneNow DEF FilesOK
  <1>5. CASE p # o /\ p # c.target
    <2>1. names'[p] = names[p] /\ writer'[p] = writer[p]
      BY <1>0, <1>1, <1>5 DEF FilesOK, EventsOK
    <2>2. SameFile(p)
      BY <1>1, <2>1 DEF SameFile
    <2>3. names[p] # c.to
      BY <1>1, <1>2, <1>5, DaemonAssumption DEF Named, Existing
    <2>4. \A u \in {"main", "worker"} : u # t => copies'[u] = copies[u]
      BY <1>0, <1>1 DEF CopiesOK
    <2>5. BeingCopied(p) => BeingCopied(p)'
      BY <1>1, <2>1, <2>3, <2>4 DEF BeingCopied
    <2>6. Handled(p) => Accounted(p)' \/ p \in missed'
      <3>1. CASE t = "main"
        BY <3>1, SameTask DEF Accounted
      <3>2. CASE t = "worker"
        <4>1. c.source = task.path
          BY <1>0, <1>1, <3>2 DEF CopiesOK
        <4> QED
          BY <1>1, <4>1 DEF Handled
      <3> QED
        BY <3>1, <3>2
    <2>7. HandedOn(p)
      BY <2>1, <2>5, <2>6, SameBatch, SameQueue DEF HandedOn, Accounted
    <2> QED
      BY <2>2, <2>7, KeptIsAccounted
  <1> QED
    BY <1>3, <1>4, <1>5

(* Steps of the worker that do nothing to a file. *)
LEMMA RememberedBookkeeping ==
  ASSUME TypeInv, Remembered, saves = 0,
         WorkerPop \/ WorkerCheck \/ WorkerRetry \/ WorkerGiveUp \/ WorkerNoMove,
         NEW p \in Path
  PROVE  ~Forgotten(p)'
  <1>0. EventsOK /\ QueueOK /\ WorkerOK
    BY DEF TypeInv
  <1>1. UNCHANGED <<names, handles, kernel, writer, g_dynamic_rules, batch, copies>>
    BY DEF WorkerPop, WorkerCheck, WorkerRetry, WorkerGiveUp, WorkerNoMove, files, events, rules
  <1>2. /\ Reported(p) => Accounted(p)'
        /\ BeingCopied(p) => Accounted(p)'
    BY <1>1, SameBatch, SameCopies DEF Accounted
  <1>3. CASE WorkerPop
    <2>1. /\ step = "pop" /\ step' = "check" /\ queue # <<>>
          /\ task' = Head(queue) /\ queue' = Tail(queue) /\ UNCHANGED missed
      BY <1>3 DEF WorkerPop
    <2>2. ASSUME p \in Taken(queue)
          PROVE  p \in Taken(queue') \/ Handled(p)'
      <3>1. PICK i \in DOMAIN queue : ~Stays(queue[i]) /\ queue[i].path = p
        BY <2>2 DEF Taken
      <3>2. CASE i = 1
        <4>1. task' = queue[i]
          BY <1>0, <2>1, <3>2, TailDomain DEF QueueOK
        <4> QED
          BY <2>1, <3>1, <4>1 DEF Handled, Stays
      <3>3. CASE i # 1
        <4>1. i - 1 \in DOMAIN queue' /\ queue'[i - 1] = queue[i]
          BY <1>0, <2>1, <3>3, TailDomain DEF QueueOK
        <4> QED
          BY <3>1, <4>1 DEF Taken, Stays
      <3> QED
        BY <3>2, <3>3
    <2>3. SameFile(p) /\ HandedOn(p)
      BY <1>1, <1>2, <2>1, <2>2 DEF SameFile, HandedOn, Handled
    <2> QED
      BY <2>3, KeptIsAccounted
  <1>4. CASE WorkerCheck
    <2>1. UNCHANGED <<queue, task, missed>> /\ step' = "act"
      BY <1>4 DEF WorkerCheck
    <2>2. SameFile(p) /\ HandedOn(p)
      BY <1>1, <1>2, <2>1, SameQueue, SameTask DEF SameFile, HandedOn, Accounted
    <2> QED
      BY <2>2, KeptIsAccounted
  <1>5. CASE WorkerRetry
    <2> DEFINE t == [task EXCEPT !.retry = @ + 1]
    <2>1. task \in Task /\ task.retry < kMaxRetryCount /\ step = "check"
      BY <1>0, <1>5 DEF WorkerRetry, WorkerOK
    <2>2. t \in Task /\ t.path = task.path /\ (Stays(t) <=> Stays(task)) /\ Submit(t)
      BY <1>5, <2>1, RetryTask DEF WorkerRetry
    <2> HIDE DEF t
    <2>3. /\ missed \subseteq missed'
          /\ Stays(t) \/ t.path \in Taken(queue')
          /\ Taken(queue) \subseteq Taken(queue') \cup missed'
      BY <1>0, <2>2, SubmitOK
    <2>4. Handled(p) => p \in Taken(queue')
      BY <2>2, <2>3 DEF Handled
    <2>5. SameFile(p) /\ HandedOn(p)
      BY <1>1, <1>2, <2>3, <2>4 DEF SameFile, HandedOn, Accounted
    <2> QED
      BY <2>5, KeptIsAccounted
  <1>6. CASE WorkerGiveUp
    <2>1. UNCHANGED queue /\ missed' = missed \cup {task.path}
      BY <1>6 DEF WorkerGiveUp
    <2>2. SameFile(p) /\ HandedOn(p)
      BY <1>1, <1>2, <2>1, SameQueue DEF SameFile, HandedOn, Handled
    <2> QED
      BY <2>2, KeptIsAccounted
  <1>7. CASE WorkerNoMove
    <2>1. /\ UNCHANGED <<queue, missed>> /\ task.action = "move"
          /\ task.path = task.target \/ names[task.path] = 0
      BY <1>7 DEF WorkerNoMove
    <2>2. CASE names[p] = 0
      BY <1>1, <2>2, GoneNow
    <2>3. CASE names[p] # 0
      <3>1. ~Handled(p)
        BY <2>1, <2>3 DEF Handled, Stays
      <3>2. SameFile(p) /\ HandedOn(p)
        BY <1>1, <1>2, <2>1, <3>1, SameQueue DEF SameFile, HandedOn
      <3> QED
        BY <3>2, KeptIsAccounted
    <2> QED
      BY <2>2, <2>3
  <1> QED
    BY <1>3, <1>4, <1>5, <1>6, <1>7

(* Steps that remove files or bring them elsewhere. *)
LEMMA RememberedMove ==
  ASSUME TypeInv, Named, Remembered, saves = 0,
         WorkerDelete \/ WorkerDeleteTree \/ WorkerRename \/ WorkerCopy \/ WorkerUnlink,
         NEW p \in Path
  PROVE  ~Forgotten(p)'
  <1>0. FilesOK /\ EventsOK /\ WorkerOK /\ CopiesOK
    BY DEF TypeInv
  <1>1. UNCHANGED <<g_dynamic_rules, batch, queue>>
    BY DEF WorkerDelete, WorkerDeleteTree, WorkerRename, WorkerCopy, WorkerUnlink, rules
  <1>2. CASE WorkerDelete \/ WorkerDeleteTree \/ WorkerUnlink
    <2>1. /\ UNCHANGED <<handles, kernel, writer, missed>>
          /\ UNCHANGED names \/ \E o : names' = [names EXCEPT ![o] = 0]
          /\ UNCHANGED copies \/ (copies' = [copies EXCEPT !["worker"] = NoCopy] /\ step = "unlink")
      BY <1>2 DEF WorkerDelete, WorkerDeleteTree, WorkerUnlink, events
    <2>2. CASE names'[p] # names[p]
      BY <1>0, <2>1, <2>2, GoneNow DEF FilesOK
    <2>3. CASE names'[p] = names[p] /\ names[p] # 0
      <3>1. ~Handled(p)
        BY <1>0, <1>2, <2>3 DEF WorkerDelete, WorkerDeleteTree, WorkerUnlink, Handled, FilesOK
      <3>2. BeingCopied(p) => BeingCopied(p)'
        BY <1>0, <2>1, <2>3 DEF BeingCopied, CopiesOK
      <3>3. SameFile(p) /\ HandedOn(p)
        BY <1>1, <2>1, <2>3, <3>1, <3>2, SameBatch, SameQueue
        DEF SameFile, HandedOn, Accounted
      <3> QED
        BY <3>3, KeptIsAccounted
    <2> QED
      BY <2>2, <2>3, GoneNow
  <1>3. CASE WorkerRename
    <2> DEFINE o == task.path
               q == task.target
    <2>1. o \in Path /\ q \in Path
      BY <1>0, <1>3, TaskFields DEF WorkerRename, WorkerOK
    <2>2. /\ names' = [names EXCEPT ![o] = 0, ![q] = names[o]]
          /\ handles' = Renamed(names[o], q) /\ names[o] \in Inode
          /\ Notify(q, "moved_to", DaemonProc) /\ UNCHANGED copies
      BY <1>0, <1>3, <2>1 DEF WorkerRename, FilesOK
    <2> HIDE DEF o, q
    <2>3. /\ p = q => ~Forgotten(p)'
          /\ missed \subseteq missed'
          /\ p # q => /\ writer'[p] = writer[p]
                      /\ \A b : Has(kernel, p, b) => Has(kernel', p, b)
      BY <1>0, <2>1, <2>2, OtherEvent DEF Process
    <2>4. \A h \in handles : \E k \in handles' : k.inode = h.inode /\ k.version = h.version
      BY <1>0, <2>1, <2>2, RenamedHandles
    <2>5. CASE p # q /\ p = o
      BY <1>0, <2>2, <2>5, GoneNow DEF FilesOK
    <2>6. CASE p # q /\ p # o
      <3>1. names'[p] = names[p]
        BY <1>0, <2>2, <2>6 DEF FilesOK
      <3>2. SameFile(p)
        BY <1>1, <2>3, <2>4, <2>6, <3>1 DEF SameFile
      <3>3. ~Handled(p)
        BY <2>6 DEF Handled, o
      <3>4. HandedOn(p)
        BY <1>1, <2>2, <2>3, <2>6, <3>1, <3>3, SameBatch, SameQueue, SameCopies
        DEF HandedOn, Accounted
      <3> QED
        BY <3>2, <3>4, KeptIsAccounted
    <2> QED
      BY <2>3, <2>5, <2>6
  <1>4. CASE WorkerCopy
    <2> DEFINE o == task.path
               q == task.target
    <2>1. o \in Path /\ q \in Path
      BY <1>0, <1>4, TaskFields DEF WorkerCopy, WorkerOK
    <2>2. /\ names' = [names EXCEPT ![q] = Target(q)]
          /\ copies' = [copies EXCEPT !["worker"] = Started(o, q)]
          /\ UNCHANGED <<handles, kernel, writer, missed, task>> /\ step' = "copy" /\ step = "act"
      BY <1>0, <1>4, <2>1, StartCopyOK DEF WorkerCopy
    <2>3. copies'["worker"] = Started(o, q) /\ copies'["main"] = copies["main"]
      BY <1>0, <2>2 DEF CopiesOK
    <2>4. CASE p = q
      <3>1. names'[p] = Target(q) /\ copies'["worker"].on /\ copies'["worker"].to = Target(q)
        BY <1>0, <2>1, <2>2, <2>3, <2>4 DEF FilesOK, Started
      <3>2. BeingCopied(p)'
        BY <3>1 DEF BeingCopied
      <3> QED
        BY <3>2 DEF Forgotten, Accounted
    <2>5. CASE p # q
      <3>1. names'[p] = names[p]
        BY <1>0, <2>2, <2>5 DEF FilesOK
      <3>2. ~copies["worker"].on
        BY <1>0, <2>2 DEF CopiesOK
      <3>3. BeingCopied(p) => BeingCopied(p)'
        BY <2>3, <3>1, <3>2 DEF BeingCopied
      <3>4. Handled(p) => Handled(p)'
        BY <2>2, SameTask
      <3>5. SameFile(p) /\ HandedOn(p)
        BY <1>1, <2>2, <3>1, <3>3, <3>4, SameBatch, SameQueue
        DEF SameFile, HandedOn, Accounted
      <3> QED
        BY <3>5, KeptIsAccounted
    <2> QED
      BY <2>4, <2>5
  <1> QED
    BY <1>2, <1>3, <1>4

LEMMA RememberedInit == Init => Remembered
  <1> SUFFICES ASSUME Init PROVE Remembered
    OBVIOUS
  <1>1. ~g_reload_requested /\ ~loading.on
    BY DEF Init, NoLoad
  <1>2. \A p \in Existing : ~Closed(p)
    BY DEF Init, Existing, Closed
  <1> QED
    BY <1>1, <1>2 DEF Remembered

LEMMA RememberedStep == TypeInv /\ Named /\ Remembered /\ [Next]_vars => Remembered'
  <1> SUFFICES ASSUME TypeInv, Named, Remembered, [Next]_vars, saves' = 0
               PROVE  /\ ~g_reload_requested' /\ ~loading'.on
                      /\ \A p \in Path : ~Forgotten(p)'
    BY DEF Remembered, Forgotten, Existing
  <1>1. saves \in Nat
    BY DaemonAssumption DEF TypeInv, RulesOK
  <1>2. ~(\E c \in Config : Save(c))
    BY <1>1 DEF Save
  <1>3. saves = 0 /\ UNCHANGED saves
    BY <1>1, <1>2
    DEF Next, AppNext, MainNext, WorkerNext, CopyFailure, vars, rules, AppOpen, AppRead,
        AppUnlink, AppRename, AppClose, AppExit, ReloadRead, ReloadDelete, ReloadInstall,
        MainRead, MainSkip, MainQueue, MainIgnore, MainExport, MainExported, MainExportFailed,
        WorkerPop, WorkerCheck, WorkerRetry, WorkerGiveUp, WorkerDelete, WorkerDeleteTree,
        WorkerRename, WorkerNoMove, WorkerCopy, WorkerCopied, WorkerCopyFailed, WorkerUnlink
  <1>4. ~g_reload_requested /\ ~loading.on
    BY <1>3 DEF Remembered
  <1>5. ~ReloadRead /\ ~(\E p \in loading.files : ReloadDelete(p)) /\ ~ReloadInstall
    BY <1>4 DEF ReloadRead, ReloadDelete, ReloadInstall
  <1>6. UNCHANGED rules
    BY <1>2, <1>5
    DEF Next, AppNext, MainNext, WorkerNext, CopyFailure, vars, AppOpen, AppRead,
        AppUnlink, AppRename, AppClose, AppExit, MainRead, MainSkip, MainQueue, MainIgnore,
        MainExport, MainExported, MainExportFailed, WorkerPop, WorkerCheck, WorkerRetry,
        WorkerGiveUp, WorkerDelete, WorkerDeleteTree, WorkerRename, WorkerNoMove, WorkerCopy,
        WorkerCopied, WorkerCopyFailed, WorkerUnlink
  <1>7. UNCHANGED <<g_reload_requested, g_dynamic_rules, loading>>
    BY <1>6 DEF rules
  <1>8. ASSUME NEW p \in Path
        PROVE  ~Forgotten(p)'
    <2>1. CASE UNCHANGED vars
      <3>1. SameFile(p) /\ HandedOn(p)
        BY <2>1, Unmoved DEF vars, files, events, rules, worker, SameFile
      <3> QED
        BY <1>3, <3>1, KeptIsAccounted
    <2>2. MainExported => ~Forgotten(p)'
      BY <1>3, <1>7, RememberedCopied DEF MainExported, Touch
    <2>3. WorkerCopied => ~Forgotten(p)'
      BY <1>3, <1>7, RememberedCopied DEF WorkerCopied
    <2>4. MainExportFailed => ~Forgotten(p)'
      BY <1>3, <1>7, RememberedFailure DEF MainExportFailed, Touch
    <2>5. WorkerCopyFailed => ~Forgotten(p)'
      BY <1>3, <1>7, RememberedFailure DEF WorkerCopyFailed
    <2> QED
      BY <1>2, <1>3, <1>5, <2>1, <2>2, <2>3, <2>4, <2>5, RememberedApp, RememberedEvent,
         RememberedRead, RememberedBookkeeping, RememberedMove
      DEF Next, MainNext, WorkerNext, CopyFailure
  <1> QED
    BY <1>4, <1>7, <1>8

LEMMA AlwaysRemembered == Spec => [](TypeInv /\ Remembered)
  BY AlwaysTyped, NamedInit, NamedStep, RememberedInit, RememberedStep, PTL DEF Spec

(* When the daemon has dealt with all that it was told, no file is left    *)
(* that a rule for its last writer would have it move or delete, unless    *)
(* its event or its task was dropped: for every number of applications,    *)
(* paths and events, every set of rules and every limit of the queues.     *)
THEOREM NothingIsForgotten == Spec => []NothingForgotten
  <1>1. TypeInv /\ Remembered => NothingForgotten
    <2> SUFFICES ASSUME TypeInv, Remembered, Idle, saves = 0,
                        NEW p \in Existing \ missed, writer[p] # NoPid, ~BeingWritten(p)
                 PROVE  Settled(p)
      BY DEF NothingForgotten
    <2>1. Accounted(p)
      BY DEF Remembered, Closed
    <2>2. \A t \in {"main", "worker"} : ~copies[t].on
      BY DEF Idle, TypeInv, CopiesOK
    <2>3. ~Has(kernel, p, writer[p]) /\ ~Reported(p) /\ p \notin Taken(queue)
      BY DEF Idle, Has, Reported, Taken
    <2>4. ~Handled(p) /\ ~BeingCopied(p)
      BY <2>2 DEF Idle, Handled, BeingCopied
    <2> QED
      BY <2>1, <2>3, <2>4 DEF Accounted
  <1> QED
    BY <1>1, AlwaysRemembered, PTL
=============================================================================
