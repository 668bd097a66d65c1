----------------------------- MODULE RuleEngine -----------------------------
(***************************************************************************)
(* The rules of a hooked application: what CompilePolicyForProcess makes   *)
(* of a section and how MatchPath picks a rule for a path.                 *)
(*                                                                         *)
(* The first name of a path is where it starts: ExternalRoot stands for    *)
(* /storage/emulated/0, any other name for a directory of the root.  Paths *)
(* are normalised.  A parsed rule is a record                              *)
(*   action  "allow" (+), "deny" (-), "redirect" (->), "dynamic" (=>) or   *)
(*           "delete" (!)                                                  *)
(*   path    its path, the names with wildcards included                   *)
(*   glob    where AnalyzeGlobPattern finds wildcards: "none", "name" (in  *)
(*           the last name) or "path" (before it, or a double star)        *)
(*   base    of a "path" glob what comes before the first wildcard         *)
(*   fits    of a glob the paths its pattern matches                       *)
(*   types   the names that @types lets through, or AnyType                *)
(*   slash   whether it is written with a slash at the end                 *)
(*   target  of a redirection, <<>> otherwise                              *)
(*   size    the length of its path as a string                            *)
(*   line    its line in rules.ini                                         *)
(* and a parsed section one with package, mode, rules and the paths of the *)
(* accessible folders.                                                     *)
(***************************************************************************)
EXTENDS Paths

CONSTANTS ExternalRoot,
          FilesOnDisk,        \* what lstat finds when the rules are compiled
          DirectoriesOnDisk,
          Dotted,             \* names that look like those of files
          AnyType             \* the empty @types list

Kind == {"auto", "file", "directory"}

IsExternalPath(p) == p # <<>> /\ p[1] = ExternalRoot
-----------------------------------------------------------------------------
(* Compilation. *)

InferCompiledRuleKind(r) ==
  IF r.glob # "none" THEN "file"
  ELSE IF r.slash \/ r.path \in DirectoriesOnDisk THEN "directory"
  ELSE IF r.path \in FilesOnDisk \/ Name(r.path) \in Dotted THEN "file"
  ELSE "auto"

(* Rules to delete are not for the hooks. *)
Compile(section) ==
  [package |-> section.package, mode |-> section.mode, accessible |-> section.accessible,
   rules |-> {[rule |-> r, kind |-> InferCompiledRuleKind(r)] :
                r \in {q \in section.rules : q.action # "delete"}}]
-----------------------------------------------------------------------------
(* The order of ordered_rules. *)

KindPriority == [file |-> 3, directory |-> 2, auto |-> 1]
ActionPriority == [deny |-> 4, redirect |-> 3, dynamic |-> 2, allow |-> 1]
GlobRank == [none |-> 2, name |-> 1, path |-> 0]

Rank(c) ==
  <<c.rule.size, KindPriority[c.kind], ActionPriority[c.rule.action], GlobRank[c.rule.glob],
    IF c.rule.types = AnyType THEN 0 ELSE 1, 0 - c.rule.line>>

Before(l, r) ==
  \E i \in 1 .. 6 : /\ Rank(l)[i] > Rank(r)[i]
                    /\ \A j \in 1 .. i - 1 : Rank(l)[j] = Rank(r)[j]
-----------------------------------------------------------------------------
(* Rules are kept in buckets: under the first two names below the root,    *)
(* under the first name alone, or as rules of the root.                    *)

BucketPath(c) == IF c.rule.glob = "path" THEN c.rule.base ELSE c.rule.path

BucketKey(c) ==
  IF Len(BucketPath(c)) > 3 THEN SubSeq(BucketPath(c), 1, 3) ELSE BucketPath(c)

(* Mutant: a path that has a bucket of two names is looked up there only.  *)
SearchedDeepest(rules, path) ==
  {c \in rules :
     IsExternalPath(path) => /\ IsPrefix(BucketKey(c), path)
                             /\ Len(path) >= 3 => Len(BucketKey(c)) = 3}

(* The rules MatchPath looks at: those of the buckets of the path, or all  *)
(* of them for a path outside of the external storage.                     *)
Searched(rules, path) ==
  {c \in rules :
     IsExternalPath(path) => /\ IsExternalPath(BucketPath(c))
                             /\ IsPrefix(BucketKey(c), path)}

(* The order it looks at them in: bucket by bucket, and in a bucket in the *)
(* order of ordered_rules.                                                 *)
Sooner(l, r, path) ==
  \/ IsExternalPath(path) /\ Len(BucketKey(l)) > Len(BucketKey(r))
  \/ /\ IsExternalPath(path) => Len(BucketKey(l)) = Len(BucketKey(r))
     /\ Before(l, r)
-----------------------------------------------------------------------------
MatchesTypeFilter(r, path) == r.types = AnyType \/ Name(path) \in r.types

(* One rule against a path, once the kind of the rule is settled. *)
Matches(c, kind, path) ==
  /\ \/ c.rule.glob # "none" /\ path \in c.rule.fits
     \/ c.rule.glob = "none" /\ path = c.rule.path
     \/ c.rule.glob = "none" /\ kind # "file" /\ IsPrefix(c.rule.path, path)
  /\ MatchesTypeFilter(c.rule, path)

Decision ==
  [deny |-> "block", allow |-> "allow", dynamic |-> "allow", redirect |-> "redirect"]

BuildRedirectPath(c, kind, path) ==
  IF c.rule.glob = "path" THEN c.rule.target \o Suffix(c.rule.base, path)
  ELSE IF c.rule.glob = "name" THEN Append(c.rule.target, Name(path))
  ELSE IF kind = "file" THEN c.rule.target
  ELSE c.rule.target \o Suffix(c.rule.path, path)
-----------------------------------------------------------------------------
(* The whitelist lets through what no rule matches if it is outside of the *)
(* external storage, the application's own, on the way to a path that is   *)
(* let through, or in an accessible folder.                                *)

OwnedRoots(policy) ==
  {<<ExternalRoot, "Android", "data", policy.package>>,
   <<ExternalRoot, "Android", "media", policy.package>>}

IsAppOwned(policy, path) ==
  \E o \in OwnedRoots(policy) : IsPrefix(path, o) \/ IsPrefix(o, path)

LetThrough(policy) ==
  policy.accessible \cup {c.rule.path : c \in {d \in policy.rules : d.rule.action # "deny"}}

(* Mutant: only the paths themselves are entered. *)
ExactWhitelistAllowPath(policy, path) == path \in LetThrough(policy)

FindWhitelistAllowPath(policy, path) ==
  \E p \in LetThrough(policy) : IsExternalPath(p) /\ IsPrefix(path, p)

ShouldImplicitlyAllow(policy, path) ==
  \/ ~IsExternalPath(path)
  \/ IsAppOwned(policy, path)
  \/ FindWhitelistAllowPath(policy, path)
  \/ \E a \in policy.accessible : IsPrefix(a, path)

DefaultDecision(policy, path) ==
  IF policy.mode = "blacklist" \/ ShouldImplicitlyAllow(policy, path) THEN "allow" ELSE "block"
-----------------------------------------------------------------------------
(* The rule matches the path whatever the kind of the rule turns out to be. *)
Surely(c, path) ==
  /\ \/ c.rule.glob # "none" /\ path \in c.rule.fits
     \/ c.rule.glob = "none" /\ path = c.rule.path
     \/ c.rule.glob = "none" /\ c.kind = "directory" /\ IsPrefix(c.rule.path, path)
  /\ MatchesTypeFilter(c.rule, path)

(* What MatchPath may answer, whichever kinds the rules of unknown kind are *)
(* taken to have; kindOf gives them one each.                              *)
KindUnder(c, kindOf) == IF c.kind = "auto" THEN kindOf[c] ELSE c.kind

Answers(policy, path, kindOf) ==
  LET hits == {c \in Searched(policy.rules, path) : Matches(c, KindUnder(c, kindOf), path)} IN
  IF hits = {} THEN {[decision |-> DefaultDecision(policy, path), to |-> <<>>]}
  ELSE {[decision |-> Decision[c.rule.action],
         to |-> IF c.rule.action = "redirect"
                THEN BuildRedirectPath(c, KindUnder(c, kindOf), path) ELSE <<>>] :
          c \in {d \in hits : \A e \in hits : ~Sooner(e, d, path)}}

Outcomes(policy, path) ==
  UNION {Answers(policy, path, k) :
           k \in [{c \in policy.rules : c.kind = "auto"} -> {"file", "directory"}]}
=============================================================================
