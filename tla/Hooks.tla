------------------------------- MODULE Hooks -------------------------------
(***************************************************************************)
(* The calls of the C library in a hooked application: the wrappers ask    *)
(* the rules about the paths of a call and refuse it, make it on another   *)
(* path, or make it as it is; entries of directories are left out of       *)
(* listings.  A thread of its own reloads the rules.                       *)
(*                                                                         *)
(* Whatever the threads of the application do they hold the lock shared    *)
(* and do not meet here; what they share beyond the rules, the cache of    *)
(* kinds, is in PathKinds.  There is no file system: a call that is made   *)
(* is recorded with the paths the kernel acts on.                          *)
(***************************************************************************)
EXTENDS RuleEngine, PathMapper, FiniteSets

CONSTANTS Thread,
          Asked,      \* the calls that are made: op, dirs and paths
          Section,    \* the parsed sections rules.ini may hold
          NoPolicy,   \* no section is for the application, or it is disabled
          Entries,    \* the names in each directory that is listed
          MaxChunk    \* how many of them getdents64 returns at most

(* The functions that are wrapped, by what their wrappers have in common.  *)
Opens == {"open", "open64", "__open_2", "openat", "openat64", "__openat_2"}
Makes == {"mkdir", "mkdirat"}
StreamOpens == {"fopen", "fopen64"}
Stats == {"access", "stat", "lstat", "stat64", "lstat64"}
Looks == {"readlink", "realpath", "faccessat"}
Removals == {"unlink", "unlinkat", "rmdir"}
StatsAt == {"fstatat", "fstatat64", "statx"}
OpenDirectories == {"opendir"}
Scans == {"scandir", "scandirat"}
LooksAt == {"readlinkat"}
Renames == {"rename", "renameat", "renameat2"}
HardLinks == {"link", "linkat"}
SymLinks == {"symlink", "symlinkat"}
Listings == {"readdir", "getdents64"}

TwoPaths == Renames \cup HardLinks
NotRedirected == TwoPaths \cup SymLinks
TakeDirectory ==
  {"openat", "openat64", "__openat_2", "mkdirat", "faccessat", "unlinkat", "scandirat",
   "readlinkat", "renameat", "renameat2", "linkat", "symlinkat"} \cup StatsAt

(* A directory as /proc/self/fd has it: the kernel has followed the links. *)
IsResolved(dir) ==
  dir \in Seq(ProperName) /\ \A a \in Aliases : ~IsPrefix(a, dir)

(* A call has one path, or two if the function takes two, each with its    *)
(* directory; listings are begun otherwise, in directories of so many      *)
(* entries.                                                                *)
CallsAssumption ==
  /\ \A c \in Asked :
       /\ c.op \notin Listings
       /\ \E n \in {1, 2} :
            /\ DOMAIN c.paths = 1 .. n /\ DOMAIN c.dirs = 1 .. n
            /\ n = 2 => c.op \in TwoPaths
       /\ \A i \in DOMAIN c.paths :
            /\ c.paths[i] \in [absolute : BOOLEAN, names : Seq(STRING)]
            /\ c.dirs[i] = AtCwd \/ (c.op \in TakeDirectory /\ IsResolved(c.dirs[i]))
  /\ \A dir \in DOMAIN Entries :
       IsResolved(dir) /\ Entries[dir] \in Seq(ProperName \cup {".", ".."})
  /\ MaxChunk \in Nat

ASSUME CallsFact == CallsAssumption

(* Of the rules of a section there are finitely many, each as ParseRulesIni *)
(* leaves it.                                                              *)
RulesAssumption ==
  \A s \in Section :
    /\ IsFiniteSet(s.rules)
    /\ \A r \in s.rules :
         /\ r.action \in {"allow", "deny", "redirect", "dynamic", "delete"}
         /\ r.glob \in {"none", "name", "path"}
         /\ r.path \in Seq(STRING) /\ r.base \in Seq(STRING) /\ r.target \in Seq(STRING)
         /\ r.glob = "name" => <<>> \notin r.fits
         /\ r.size \in Nat /\ r.line \in Nat

ASSUME RulesFact == RulesAssumption

(* No directory of the root has the name that stands for the storage. *)
ASSUME RootFact == ExternalPrimary[1] # ExternalRoot /\ ExternalRoot \in STRING

VARIABLES policy,      \* the rules in force
          replaced,    \* the rules a reload is about to replace (history)
          reload,      \* what the reload is to store next
          shouldHook, gate,  \* the flags that calls look at without the lock
          marker,      \* the gate's file is there
          watched,     \* it was when the application started
          calls        \* the last call of each thread

vars == <<policy, replaced, reload, shouldHook, gate, marker, watched, calls>>
shared == <<policy, replaced, reload, shouldHook, gate, marker, watched>>

(* What the application is told of a call that is refused.  Mutant: of     *)
(* whatever call the same.                                                 *)
SameErrno(op) == "EPERM"

Errno(op) ==
  IF op \in Opens \cup StreamOpens \cup Stats \cup Looks \cup StatsAt \cup OpenDirectories
               \cup Scans \cup LooksAt
  THEN "ENOENT" ELSE "EACCES"

(* A path as the rules have it. *)
Key(names) ==
  IF IsPrefix(ExternalPrimary, names)
  THEN <<ExternalRoot>> \o Suffix(ExternalPrimary, names) ELSE names
-----------------------------------------------------------------------------
(* A call: asked holds the path judged for each of its paths, leads where  *)
(* the kernel gets to by it, says what the rules say of it ("unset" if     *)
(* nothing was asked), acts the paths the kernel acted on, forgot what the *)
(* cache was told to forget.  A listing has a chunk of entries to look at, *)
(* and those before it that were shown.  During holds the rules in force   *)
(* since it began, and gates what the gate has been (history).             *)
NoCall ==
  [pc |-> "idle", op |-> "none", call |-> <<>>, asked |-> <<>>, leads |-> <<>>,
   says |-> <<>>, to |-> <<>>, refused |-> "no", acts |-> <<>>, removed |-> FALSE,
   forgot |-> <<>>, dir |-> <<>>, next |-> 1, chunk |-> <<>>, shown |-> {}, some |-> FALSE,
   during |-> {}, gates |-> {}]

(* The path a wrapper asks about: with a descriptor what it resolves to,   *)
(* or the path as it is written if that fails.  Mutant: the path as it is  *)
(* written.                                                                *)
WrittenInput(c, i) == {c.paths[i]}

Input(c, i) ==
  LET resolved == fm_try_resolve_at_path(c.dirs[i], c.paths[i]) IN
  IF c.op \in TakeDirectory /\ resolved # {} THEN resolved ELSE {c.paths[i]}

Judged(c, i) == {Key(p) : p \in UNION {NormalizeRulePath(s) : s \in Input(c, i)}}

(* What the kernel is given; "/" is the directory the application is in.   *)
ActedOn(c, i) ==
  Key(Reached(IF c.paths[i].absolute \/ c.dirs[i] = AtCwd THEN <<>> ELSE c.dirs[i],
              c.paths[i].names))

Now(t, call) == calls' = [calls EXCEPT ![t] = call]

Begin(t) ==
  /\ calls[t].pc = "idle"
  /\ \E c \in Asked :
       Now(t, [NoCall EXCEPT !.pc = "flags", !.op = c.op, !.call = <<c>>,
                             !.asked = [i \in DOMAIN c.paths |-> Judged(c, i)],
                             !.leads = [i \in DOMAIN c.paths |-> ActedOn(c, i)],
                             !.during = {policy} \cup replaced, !.gates = {gate}])
  /\ UNCHANGED shared

(* An answer to the path that is asked about; the call goes on once all    *)
(* its paths have theirs.                                                  *)
Said(c, what, to) ==
  [c EXCEPT !.says = Append(@, what), !.to = to,
            !.pc = IF Len(c.says) + 1 < Len(c.asked) THEN "flags" ELSE "act"]

ReadFlags(t) ==
  /\ calls[t].pc = "flags"
  /\ Now(t, IF shouldHook /\ gate THEN [calls[t] EXCEPT !.pc = "ask"]
            ELSE Said(calls[t], "unset", <<>>))
  /\ UNCHANGED shared

Ask(t) ==
  LET c == calls[t]
      judged == c.asked[Len(c.says) + 1]
  IN  /\ c.pc = "ask" /\ reload = "idle"
      /\ \/ /\ policy = NoPolicy
            /\ Now(t, Said(c, "unset", <<>>))
         \/ /\ policy # NoPolicy /\ judged = {}
            /\ Now(t, Said(c, "allow", <<>>))
         \/ /\ policy # NoPolicy
            /\ \E path \in judged : \E o \in Outcomes(policy, path) :
                 Now(t, Said(c, o.decision, o.to))
      /\ UNCHANGED shared

(* A decision on one of two paths is read even if none was made.           *)
Refuse(t) ==
  LET c == calls[t] IN
  /\ c.pc = "act"
  /\ \E i \in DOMAIN c.says :
       c.says[i] \in IF c.op \in TwoPaths THEN {"block", "unset"} ELSE {"block"}
  /\ Now(t, [c EXCEPT !.pc = "done", !.refused = Errno(c.op)])
  /\ UNCHANGED shared

IsRedirected(c) == c.op \notin NotRedirected /\ c.says = <<"redirect">>

(* Mutant: one path that is not blocked is enough. *)
MakeIfAny(t) ==
  LET c == calls[t] IN
  /\ c.pc = "act" /\ \E i \in DOMAIN c.says : c.says[i] # "block"
  /\ Now(t, [c EXCEPT !.pc = "done", !.acts = IF IsRedirected(c) THEN <<c.to>> ELSE c.leads])
  /\ UNCHANGED shared

(* The kernel may fail a removal. *)
Make(t) ==
  LET c == calls[t] IN
  /\ c.pc = "act" /\ \A i \in DOMAIN c.says : c.says[i] # "block"
  /\ \E removed \in IF IsRedirected(c) /\ c.op \in Removals THEN BOOLEAN ELSE {FALSE} :
       Now(t, [c EXCEPT !.pc = IF removed THEN "forget" ELSE "done", !.removed = removed,
                        !.acts = IF IsRedirected(c) THEN <<c.to>> ELSE c.leads])
  /\ UNCHANGED shared

(* A path as it is written to the kernel. *)
Spelled(path) ==
  Absolute(IF IsExternalPath(path) THEN ExternalPrimary \o Tail(path) ELSE path)

(* fm_invalidate_cache_path, of the path first and then of the other; each *)
(* looks at the flag for itself.                                           *)
Erased(spellings) ==
  IF shouldHook THEN {Key(p) : p \in UNION {fm_normalize_rule_path(s) : s \in spellings}} ELSE {}

(* Mutant: the other only. *)
ForgetTarget(t) ==
  LET c == calls[t] IN
  /\ c.pc = "forget" /\ (shouldHook => reload = "idle")
  /\ Now(t, [c EXCEPT !.forgot = <<Erased({Spelled(c.to)})>>, !.pc = "done"])
  /\ UNCHANGED shared

Forget(t) ==
  LET c == calls[t] IN
  /\ c.pc = "forget" /\ (shouldHook => reload = "idle")
  /\ Now(t, IF c.forgot = <<>>
            THEN [c EXCEPT !.forgot = <<Erased(Input(c.call[1], 1))>>]
            ELSE [c EXCEPT !.forgot = Append(@, Erased({Spelled(c.to)})), !.pc = "done"])
  /\ UNCHANGED shared
-----------------------------------------------------------------------------
Return(t) ==
  /\ calls[t].pc = "done"
  /\ Now(t, NoCall)
  /\ UNCHANGED shared

(* A pass over a directory, until it returns nothing. *)
BeginListing(t) ==
  /\ calls[t].pc = "idle"
  /\ \E op \in Listings, dir \in DOMAIN Entries :
       Now(t, [NoCall EXCEPT !.pc = "take", !.op = op, !.dir = dir,
                             !.during = {policy} \cup replaced, !.gates = {gate}])
  /\ UNCHANGED shared

(* The kernel returns the next entry, or as many as it likes. *)
Take(t) ==
  LET c == calls[t]
      left == Len(Entries[c.dir]) - c.next + 1
  IN  /\ c.pc = "take"
      /\ IF left = 0 THEN Now(t, [c EXCEPT !.pc = "done"])
         ELSE \E n \in 1 .. IF c.op = "readdir" THEN 1 ELSE MaxChunk :
                /\ n <= left
                /\ Now(t, [c EXCEPT !.pc = "filter", !.next = c.next + n, !.some = FALSE,
                            !.chunk = SubSeq(Entries[c.dir], c.next, c.next + n - 1)])
      /\ UNCHANGED shared

(* The path an entry is judged by: the name is appended to what the         *)
(* descriptor resolves to, which is "/" for every directory outside the    *)
(* storage.  None if either is too long.                                   *)
JudgedEntry(dir, entry) ==
  {Key(p) : p \in UNION {NormalizeRulePath(Absolute(Append(base, entry))) :
     base \in {b \in {Trimmed(d.names) : d \in fm_resolve_fd_path(dir)} : Fits(Append(b, entry))}}}

(* fm_should_hide_dirent_from_dir: the answers it may give. *)
Hides(dir, entry) ==
  IF entry \in {".", ".."} \/ ~shouldHook \/ policy = NoPolicy \/ JudgedEntry(dir, entry) = {}
  THEN {FALSE}
  ELSE {o.decision = "block" : o \in UNION {Outcomes(policy, p) : p \in JudgedEntry(dir, entry)}}

(* The entry is shown or hidden and left behind.  readdir goes on by itself *)
(* from an entry it hides; a chunk of which nothing is left reads as the   *)
(* end of the directory.  Mutant: so does an entry that readdir hides.     *)
PassedAsEnd(c, hidden) ==
  [c EXCEPT !.chunk = Tail(@), !.some = @ \/ ~hidden,
            !.shown = IF hidden THEN @ ELSE @ \cup {Head(c.chunk)},
            !.pc = IF Tail(c.chunk) # <<>> THEN "filter"
                   ELSE IF c.some \/ ~hidden THEN "take" ELSE "done"]

(* Mutant: an entry that is hidden is not left behind. *)
NotPassed(c, hidden) ==
  [c EXCEPT !.chunk = IF hidden THEN @ ELSE Tail(@), !.some = @ \/ ~hidden,
            !.shown = IF hidden THEN @ ELSE @ \cup {Head(c.chunk)},
            !.pc = IF hidden \/ Tail(c.chunk) # <<>> THEN "filter" ELSE "take"]

Passed(c, hidden) ==
  [c EXCEPT !.chunk = Tail(@), !.some = @ \/ ~hidden,
            !.shown = IF hidden THEN @ ELSE @ \cup {Head(c.chunk)},
            !.pc = IF Tail(c.chunk) # <<>> THEN "filter"
                   ELSE IF c.op = "readdir" \/ c.some \/ ~hidden THEN "take" ELSE "done"]

Filter(t) ==
  LET c == calls[t] IN
  /\ c.pc = "filter"
  /\ shouldHook /\ Head(c.chunk) \notin {".", ".."} /\ fm_resolve_fd_path(c.dir) # {}
       => reload = "idle"
  /\ \E hidden \in Hides(c.dir, Head(c.chunk)) :
       Now(t, Passed(c, hidden))
  /\ UNCHANGED shared
-----------------------------------------------------------------------------
(* The reload holds the lock from its first step to its last.  It goes on  *)
(* with the old rules if the new ones cannot be read.                      *)
MayHold == {Compile(s) : s \in Section} \cup {NoPolicy}

Meeting(rules, open) == [t \in Thread |->
  IF calls[t].pc \in {"idle", "done"} THEN calls[t]
  ELSE [calls[t] EXCEPT !.during = @ \cup {rules}, !.gates = @ \cup {open}]]

ReloadRules ==
  /\ reload = "idle" /\ reload' = "flag"
  /\ policy' \in MayHold /\ replaced' = {policy}
  /\ calls' = Meeting(policy', gate)
  /\ UNCHANGED <<shouldHook, gate, marker, watched>>

ReloadFlag ==
  /\ reload = "flag" /\ reload' = "gate"
  /\ shouldHook' = (policy # NoPolicy)
  /\ UNCHANGED <<policy, replaced, gate, marker, watched, calls>>

ReloadGate ==
  /\ reload = "gate" /\ reload' = "idle"
  /\ gate' = (watched => marker)
  /\ replaced' = {}
  /\ calls' = Meeting(policy, gate')
  /\ UNCHANGED <<policy, shouldHook, marker, watched>>

(* The user switches the companion module on or off. *)
SetMarker ==
  /\ marker' = ~marker
  /\ UNCHANGED <<policy, replaced, reload, shouldHook, gate, watched, calls>>

(* preAppSpecialize: without rules there are no hooks. *)
Init ==
  /\ policy \in MayHold \ {NoPolicy}
  /\ replaced = {} /\ reload = "idle"
  /\ shouldHook = TRUE /\ gate = TRUE
  /\ marker \in BOOLEAN /\ watched = marker
  /\ calls = [t \in Thread |-> NoCall]

Step(t) ==
  \/ Begin(t) \/ ReadFlags(t) \/ Ask(t) \/ Refuse(t) \/ Make(t) \/ Forget(t) \/ Return(t)
  \/ BeginListing(t) \/ Take(t) \/ Filter(t)

Next == ReloadRules \/ ReloadFlag \/ ReloadGate \/ SetMarker \/ \E t \in Thread : Step(t)

Spec == Init /\ [][Next]_vars

Continue(t) ==
  ReadFlags(t) \/ Ask(t) \/ Refuse(t) \/ Make(t) \/ Forget(t) \/ Take(t) \/ Filter(t)
  \/ Return(t)

(* The reload thread does not keep the lock, and it sleeps a second between *)
(* two reloads: who waits for the lock then gets it, however many reloads  *)
(* there are.                                                              *)
LiveSpec ==
  Spec /\ WF_vars(ReloadFlag) /\ WF_vars(ReloadGate) /\ \A t \in Thread : SF_vars(Continue(t))
-----------------------------------------------------------------------------
CallRecord ==
  [pc : {"idle", "done", "flags", "ask", "act", "forget", "take", "filter"},
   op : {"none"} \cup Listings \cup {c.op : c \in Asked},
   call : {<<>>} \cup {<<c>> : c \in Asked}, asked : Seq(SUBSET Path), leads : Seq(Path),
   says : Seq({"unset", "allow", "block", "redirect"}), to : Path,
   refused : {"no", "ENOENT", "EACCES"}, acts : Seq(Path), forgot : Seq(SUBSET Path),
   removed : BOOLEAN, dir : Path, next : Nat, chunk : Path, shown : SUBSET STRING,
   some : BOOLEAN, during : SUBSET MayHold, gates : SUBSET BOOLEAN]

TypeOK ==
  /\ policy \in MayHold /\ replaced \subseteq MayHold
  /\ reload \in {"idle", "flag", "gate"}
  /\ {shouldHook, gate, marker, watched} \subseteq BOOLEAN
  /\ calls \in [Thread -> CallRecord]

(* What the rules p may say of a path. *)
MaySay(p, judged) ==
  IF p = NoPolicy THEN {[decision |-> "unset", to |-> <<>>]}
  ELSE IF judged = {} THEN {[decision |-> "allow", to |-> <<>>]}
  ELSE UNION {Outcomes(p, path) : path \in judged}

(* The rules that were in force during the call, none while the gate was   *)
(* shut.  The gate is looked at before the lock is taken: rules count if   *)
(* it was open at any moment of the call.                                  *)
Moments(c) ==
  {p \in c.during : TRUE \in c.gates} \cup {p \in {NoPolicy} : FALSE \in c.gates}

(* What the rules say of the path c asks about at i, at those moments. *)
SaidOf(c, i) == UNION {MaySay(p, c.asked[i]) : p \in Moments(c)}

(* A call is refused only if rules that were in force during it block one  *)
(* of its paths; otherwise the kernel acts on each path where rules that   *)
(* were in force send it.  Two exceptions are the code's: rename and link  *)
(* may be refused by rules that say nothing, and they and symlink are      *)
(* never redirected.                                                       *)
DoneAsSaid(c) ==
  IF c.refused = "no"
  THEN \A i \in DOMAIN c.asked : \E o \in SaidOf(c, i) :
         /\ o.decision # "block"
         /\ c.acts[i] = IF o.decision = "redirect" /\ c.op \notin NotRedirected
                        THEN o.to ELSE c.leads[i]
  ELSE \E i \in DOMAIN c.asked : \E o \in SaidOf(c, i) :
         o.decision \in IF c.op \in TwoPaths THEN {"block", "unset"} ELSE {"block"}

DoneAsSomeRulesSay == \A t \in Thread : calls[t].pc = "done" => DoneAsSaid(calls[t])

(* The path is normalised to one with a slash at its end. *)
EndsUp(names) ==
  \E n \in fm_normalize_path(Absolute(names)) : n.names # Trimmed(n.names)

(* The path is written so that the code can tell where it leads: from the  *)
(* root or a directory of the storage, by no alias but one at its front,   *)
(* short enough, and, if the wrapper does not take a directory, not ending *)
(* above its last name, and below /storage/emulated/0 without dots and     *)
(* double slashes.                                                         *)
Readable(c, i) ==
  LET s == c.paths[i]
      written == IF s.absolute THEN s.names ELSE c.dirs[i] \o s.names
  IN  /\ \/ s.absolute
         \/ /\ c.dirs[i] # AtCwd /\ IsPrefix(ExternalPrimary, c.dirs[i])
            /\ s.names # <<>>
      /\ Fits(written) /\ fm_normalize_path(Absolute(written)) # {}
      /\ NoAliasLater(written)
      /\ c.op \in TakeDirectory \/ ~EndsUp(written)
      /\ c.op \notin TakeDirectory /\ IsPrefix(ExternalPrimary, written)
           => IsPlainly(Trimmed(written))

(* The path that is judged is the one the kernel would act on, however it  *)
(* is written.                                                             *)
JudgedIsActedOn ==
  \A t \in Thread : \A i \in DOMAIN calls[t].asked :
    LET c == calls[t].call[1] IN
    Readable(c, i) => calls[t].asked[i] = {calls[t].leads[i]}

(* The code can tell where the entry is: the directory is the root or of   *)
(* the storage, and its path with the name is short enough.                *)
Tellable(dir, entry) ==
  /\ dir = <<>> \/ IsPrefix(ExternalPrimary, dir)
  /\ Fits(Append(dir, entry)) /\ fm_normalize_path(Absolute(Append(dir, entry))) # {}

(* Where the entry is; where the code takes it to be if it cannot tell. *)
Whereabouts(dir, entry) ==
  IF Tellable(dir, entry) THEN {Key(Reached(dir, <<entry>>))} ELSE JudgedEntry(dir, entry)

(* A pass of readdir shows every entry that no rules in force during it    *)
(* hide, and no pass shows one that all of them hide, by what the rules    *)
(* say of the place the kernel would get to by the name.  Two exceptions   *)
(* are the code's: the entries of a directory outside the storage other    *)
(* than the root are judged as if they were in the root, and what is too   *)
(* long to be judged is shown.                                             *)
ListingComplete ==
  \A t \in Thread :
    LET c == calls[t]
        Answers1(e) == UNION {MaySay(p, Whereabouts(c.dir, e)) : p \in c.during}
        Hidden(e) == {o \in Answers1(e) : o.decision = "block" /\ e \notin {".", ".."}}
    IN  c.pc = "done" /\ c.op \in Listings =>
          \A i \in DOMAIN Entries[c.dir] :
            LET e == Entries[c.dir][i] IN
            /\ c.op = "readdir" /\ Hidden(e) = {} => e \in c.shown
            /\ Hidden(e) = Answers1(e) => e \notin c.shown

(* Every call returns and every listing ends, whatever is hidden and        *)
(* however often the rules are reloaded.                                   *)
CallsReturn == \A t \in Thread : calls[t].pc # "idle" ~> calls[t].pc = "idle"

(* What a call removed under a name the rules changed is forgotten under   *)
(* both: the name the kind was learnt by and the other, if that is written *)
(* plainly and fits.                                                       *)
ForgetsWhatItRemoved ==
  \A t \in Thread :
    LET c == calls[t]
        other == Spelled(c.to).names
        reliable == /\ Readable(c.call[1], 1) /\ IsPlainly(other) /\ Fits(other)
                    /\ \A a \in Aliases : ~IsPrefix(a, other)
    IN  c.pc = "done" /\ c.removed /\ NoPolicy \notin c.during /\ reliable =>
          UNION {c.forgot[i] : i \in DOMAIN c.forgot} = {c.leads[1], Key(c.to)}
=============================================================================
