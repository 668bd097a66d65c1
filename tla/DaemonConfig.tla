---------------------------- MODULE DaemonConfig ----------------------------
(***************************************************************************)
(* What folder_manager_daemon makes of a file of rules: the sections that  *)
(* ParseRulesIni returns, compiled and sorted by BuildDynamicRuleSet, are  *)
(* asked about the paths of files.                                         *)
(***************************************************************************)
EXTENDS RulesIni, DaemonRules

CONSTANTS TreePath,          \* the paths that are asked about
          CompileExport(_)   \* the rule an export section compiles to

(* The rules of a section, each with its line. *)
Rules(s) ==
  [n \in DOMAIN s.rules |-> [s.rules[n].rule EXCEPT !.line = s.rules[n].line]]

Exported(package) ==
  [n \in DOMAIN ExportsFor(package) |->
     [CompileExport(ExportsFor(package)[n]) EXCEPT !.line = ExportsFor(package)[n].line]]

Config ==
  [parses |-> Accepted,
   sections |-> [k \in DOMAIN sections |->
      [package |-> sections[k].name[1], enabled |-> sections[k].enabled,
       existing |-> sections[k].existing, dirs |-> sections[k].dirs,
       rules |-> Rules(sections[k]), exports |-> Exported(sections[k].name[1])]]]
-----------------------------------------------------------------------------
IsPlain(r) == r.kind \in {"file", "directory"}

(* The rules that the lines of a file compile to. *)
Source == {l.rule : l \in {x \in Line : IsRule(x)}}

SourceRule ==
  [action : {"allow", "deny", "redirect", "dynamic", "delete"},
   kind : {"file", "directory", "glob", "path_glob"}, path : Seq(STRING),
   match : {r.match : r \in Source}, types : {r.types : r \in Source},
   target : {r.target : r \in Source}, size : Nat, lex : Int, line : Nat,
   child : BOOLEAN, dirs : DeleteDirMode]

(* A path is longer as a string than the directories above it, and of two  *)
(* sources that have the same place in the order each is the other.        *)
SourceAssumption ==
  /\ Source \subseteq SourceRule /\ TreePath \subseteq Seq(STRING)
  /\ \A r, s \in Source :
       /\ IsPlain(r) /\ IsPlain(s) /\ IsPrefix(r.path, s.path) /\ Len(r.path) < Len(s.path)
            => r.size < s.size
       /\ r.lex = s.lex => r.size = s.size

ASSUME SourceFact == SourceAssumption
-----------------------------------------------------------------------------
(* The redirections of a package as they are written, those that are taken *)
(* for options excepted.                                                   *)
Written(package) ==
  {[text[i].rule EXCEPT !.line = i] :
     i \in {j \in DOMAIN text : /\ text[j].is = "redirect" /\ text[j].rule.action = "dynamic"
                                /\ ~Misread(<<package>>, text[j])
                                /\ Under(text, <<package>>, j)}}

(* A package and not a process of one (its name has a colon). *)
IsApplication(package) ==
  package # Wildcard /\ \A pair \in SubProcess : pair[2] # package

(* The rule with the longer path wins (rule-format-plan, 11): of the rules *)
(* written under a package that name a path or a directory above it the    *)
(* daemon, which sorts by the length of strings and takes the first match, *)
(* takes none that is less deep than another.                              *)
LongestRuleWins ==
  Accepted /\ Builds(Config) =>
    \A package \in {p \in Package : IsApplication(p)}, path \in TreePath :
      \A r \in FindDynamicRule(Config, package, path), s \in Matching(Written(package), path) :
        IsPlain(r) /\ IsPlain(s) => Len(s.path) <= Len(r.path)

(* A rule with a filter comes before the one without on the same source,   *)
(* so that the catch-all never hides it, whichever is written first.       *)
FilteredFirst ==
  Accepted /\ Builds(Config) =>
    \A package \in {p \in Package : IsApplication(p)}, path \in TreePath :
      \A r \in FindDynamicRule(Config, package, path), s \in Matching(Written(package), path) :
        s.lex = r.lex /\ s.kind = r.kind /\ s.types # AnyType => r.types # AnyType

(* A section with enabled = false keeps its own rules from being loaded and *)
(* no others (rule-format-plan, 4.2): the daemon can build its rules from  *)
(* any file that parses and enables some section.                          *)
DisabledStaysAlone ==
  Accepted /\ (\E k \in DOMAIN sections : sections[k].enabled) => Builds(Config)
=============================================================================
