---------------------------- MODULE DaemonRules ----------------------------
(***************************************************************************)
(* How folder_manager_daemon turns the sections of rules.ini into lists of *)
(* rules and picks the rule for a written file: BuildDynamicRuleSet, the   *)
(* Find and the Build...Target functions.                                  *)
(*                                                                         *)
(* A path is the sequence of its names below /storage/emulated/<user>.     *)
(* A compiled rule is a record                                             *)
(*   action   "allow" (+), "deny" (-), "redirect" (->), "dynamic" (=>) or  *)
(*            "delete" (!)                                                 *)
(*   kind     "file", "directory", "glob" or "path_glob"                   *)
(*   path     source path; of a glob the parent, of a path glob the base   *)
(*   match    the names (glob) or the paths (path glob) its pattern fits   *)
(*   types    the names @types lets through, or AnyType (no filter; the    *)
(*            parser accepts a filter on redirections only)                *)
(*   target   redirect or export target                                    *)
(*   size     length of the source path as a string, pattern included      *)
(*   lex      its rank among all source paths in lexicographic order       *)
(*   line     its line in rules.ini                                        *)
(*   child    allow_child of an export rule                                *)
(*   dirs     delete_dirs of its section, once it is compiled              *)
(* and a configuration one with the field parses and the sequence sections *)
(* of records [package, enabled, existing, dirs, rules, exports].          *)
(***************************************************************************)
EXTENDS Paths

CONSTANTS Package,      \* package names in section headers and of writers
          Wildcard,     \* "*"
          SubProcess,   \* <<p, q>>: the name q is p followed by ':'
          AnyType       \* the empty @types list

-----------------------------------------------------------------------------
SeqRange(s) == {s[i] : i \in DOMAIN s}
-----------------------------------------------------------------------------
(* CompilePolicyForProcess is asked for every section by its own name and  *)
(* answers with the first enabled section that covers that name.           *)

IsProcessMatch(package, process) ==
  package = process \/ <<package, process>> \in SubProcess

Covering(config, process) ==
  {i \in DOMAIN config.sections :
     config.sections[i].enabled /\ IsProcessMatch(config.sections[i].package, process)}

Builds(config) ==
  /\ config.parses
  /\ \A i \in DOMAIN config.sections : Covering(config, config.sections[i].package) # {}

(* The section whose rules the i-th section brings into the set. *)
Policy(config, i) ==
  LET c == Covering(config, config.sections[i].package)
  IN  config.sections[CHOOSE j \in c : \A k \in c : j <= k]

(* The sections whose rules end up under a package. *)
PoliciesOf(config, package) ==
  {i \in DOMAIN config.sections : Policy(config, i).package = package}

(* The rules of one action kept under a package. *)
RulesOf(config, package, action) ==
  UNION {{[r EXCEPT !.dirs = Policy(config, i).dirs] :
            r \in {q \in SeqRange(Policy(config, i).rules) : q.action = action}} :
           i \in PoliciesOf(config, package)}

ExportsOf(config, package) ==
  UNION {SeqRange(Policy(config, i).exports) : i \in PoliciesOf(config, package)}
-----------------------------------------------------------------------------
(* One iteration of the loops of FindDynamicRule and FindDeleteRule. *)

MatchesTypeFilter(rule, path) == rule.types = AnyType \/ Name(path) \in rule.types

MatchesPath(rule, path) ==
  \/ rule.kind = "path_glob" /\ IsPrefix(rule.path, path) /\ path \in rule.match
  \/ rule.kind = "glob" /\ Parent(path) = rule.path /\ Name(path) \in rule.match
  \/ rule.kind = "file" /\ path = rule.path
  \/ rule.kind = "directory" /\ IsPrefix(rule.path, path)

Matching(rules, path) ==
  {r \in rules : MatchesPath(r, path) /\ MatchesTypeFilter(r, path)}

GlobRank(rule) ==
  IF rule.kind = "path_glob" THEN 0 ELSE IF rule.kind = "glob" THEN 1 ELSE 2

IsFile(rule) == rule.kind # "directory"

(* Mutants: nothing but the length counts; nothing but the name counts. *)
BeforeBySize(l, r) == l.size > r.size
BeforeByName(l, r) == l.lex < r.lex

(* The comparator of std::sort on the lists of a package. *)
Before(l, r) ==
  \/ l.size > r.size
  \/ /\ l.size = r.size
     /\ \/ IsFile(l) /\ ~IsFile(r)
        \/ /\ IsFile(l) = IsFile(r)
           /\ \/ GlobRank(l) > GlobRank(r)
              \/ /\ GlobRank(l) = GlobRank(r)
                 /\ \/ l.types # AnyType /\ r.types = AnyType
                    \/ /\ (l.types = AnyType) = (r.types = AnyType)
                       /\ l.lex < r.lex

(* The rules a sorted list may put first: more than one when the            *)
(* comparator ties, for std::sort is not stable.                            *)
Foremost(rules) == {r \in rules : \A s \in rules : ~Before(s, r)}

(* The list under "*" is taken out before the sort: it keeps file order.   *)
EarliestLine(rules) == {r \in rules : \A s \in rules : r.line <= s.line}

(* The list of the package if it has one, or else the list of "*"; a       *)
(* package never falls through from the first to the second.               *)
Find(config, package, action, path) ==
  IF package # Wildcard /\ RulesOf(config, package, action) # {}
  THEN Foremost(Matching(RulesOf(config, package, action), path))
  ELSE EarliestLine(Matching(RulesOf(config, Wildcard, action), path))

FindDeleteRule(config, package, path) == Find(config, package, "delete", path)
FindDynamicRule(config, package, path) == Find(config, package, "dynamic", path)

FindExportRule(config, package, path) ==
  Foremost(Matching(ExportsOf(config, package), path))
-----------------------------------------------------------------------------
(* Where a dynamic rule sends a file. *)
DynamicTarget(rule, path) ==
  IF rule.kind = "glob" THEN Append(rule.target, Name(path))
  ELSE IF rule.kind = "file" THEN rule.target
  ELSE rule.target \o Suffix(rule.path, path)

(* Where an export rule copies a file; {} when it is too deep for the rule. *)
ExportTargets(rule, path) ==
  IF rule.kind = "file" THEN {rule.target}
  ELSE IF ~rule.child /\ Len(path) > Len(rule.path) + 1 THEN {}
  ELSE {rule.target \o Suffix(rule.path, path)}

(* Mutant: delete_dirs is not looked at. *)
DeletedTreeAlways(rule) == IF rule.kind # "file" THEN {rule.path} ELSE {}

(* The directory a delete task empties after it has removed the file. *)
DeletedTree(rule) ==
  IF rule.kind # "file" /\ rule.dirs = "recursive" THEN {rule.path} ELSE {}

(* Mutant: every section has delete_existing. *)
ExistingDeletedAlways(config, files) ==
  {f \in files :
     \E i \in DOMAIN config.sections :
       LET s == Policy(config, i) IN
       /\ s.package # Wildcard
       /\ \E r \in SeqRange(s.rules) :
            /\ r.action = "delete"
            /\ \/ MatchesPath(r, f)
               \/ r.kind = "glob" /\ s.dirs = "recursive" /\ IsPrefix(r.path, f)}

(* Those of the files that ApplyDeleteExistingRules removes: the delete     *)
(* rules of sections other than "*" with delete_existing.                  *)
ExistingDeleted(config, files) ==
  {f \in files :
     \E i \in DOMAIN config.sections :
       LET s == Policy(config, i) IN
       /\ s.existing /\ s.package # Wildcard
       /\ \E r \in SeqRange(s.rules) :
            /\ r.action = "delete"
            /\ \/ MatchesPath(r, f)
               \/ r.kind = "glob" /\ s.dirs = "recursive" /\ IsPrefix(r.path, f)}
=============================================================================
