----------------------------- MODULE PathKinds -----------------------------
(***************************************************************************)
(* The threads of a hooked application call functions of the C library on  *)
(* paths; each call asks MatchPath for a decision.  Whether a rule stands  *)
(* for a file or a directory may be unknown when it is compiled; then the  *)
(* calls decide, and a cache that all threads share remembers (the class   *)
(* ResolvedPathKindCache, each access of which takes its mutex).  A search *)
(* holds the lock of the rules shared, a reload of the rules exclusively.  *)
(*                                                                         *)
(* The cache is looked up for the paths of rules of unknown kind only, so  *)
(* only these are kept here; "auto" is the absence of an entry.            *)
(***************************************************************************)
EXTENDS RuleEngine

CONSTANTS Thread,
          Path,       \* the paths that are called for
          Operation,
          Section     \* the parsed sections rules.ini may hold

(* What the proofs rely on: above all, that a path is longer as a string    *)
(* than a directory above it, and that a pattern of names fits the names   *)
(* of one directory.                                                       *)
SectionAssumption ==
  /\ Path \subseteq Seq(STRING) \ {<<>>}
  /\ \A s \in Section :
       /\ s.accessible \subseteq Seq(STRING)
       /\ \A r \in s.rules :
            /\ r.action \in {"allow", "deny", "redirect", "dynamic", "delete"}
            /\ r.path \in Seq(STRING) \ {<<>>} /\ r.size \in Nat
            /\ r.base \in Seq(STRING) /\ IsPrefix(r.base, r.path)
            /\ r.target \in Seq(STRING)
            /\ r.glob \in {"none", "name", "path"}
            /\ r.glob = "name" => \A p \in r.fits : Parent(p) = Parent(r.path)
       /\ \A q, r \in s.rules :
            IsPrefix(q.path, r.path) /\ q.path # r.path => q.size < r.size

ASSUME SectionFact == SectionAssumption

VARIABLES policy,   \* the compiled rules in force
          cache,    \* what is known of the kinds of paths
          calls     \* the call each thread is in

vars == <<policy, cache, calls>>

(* InferContextKind of the contexts that the hooks make. *)
ContextKind(op) ==
  IF op \in {"opendir", "mkdir", "rmdir", "readdir"} THEN "directory"
  ELSE IF op \in {"create", "unlink"} THEN "file"
  ELSE "auto"

Removals == {"unlink", "rmdir"}
-----------------------------------------------------------------------------
Unknown(p) == {c.rule.path : c \in {d \in p.rules : d.kind = "auto"}}

EmptyCache(p) == [q \in Unknown(p) |-> "auto"]

Put(path, kind) ==
  IF path \in DOMAIN cache /\ kind # "auto" THEN [cache EXCEPT ![path] = kind] ELSE cache

Forget(path) ==
  IF path \in DOMAIN cache THEN [cache EXCEPT ![path] = "auto"] ELSE cache
-----------------------------------------------------------------------------
(* A call: left holds the rules it has yet to look at, learning the one it  *)
(* is about to put into the cache, cached what it has read there, by the   *)
(* rule that decides, and forget the paths it has removed.                 *)
NoCall ==
  [pc |-> "idle", op |-> "none", path |-> <<>>, left |-> {}, learning |-> {},
   cached |-> "auto", decision |-> "none", by |-> {}, to |-> <<>>, forget |-> <<>>]

Searching(t) == calls[t].pc \in {"search", "learn"}

(* MatchPath enters the kind of the path itself before it searches. *)
Begin(t) ==
  /\ calls[t].pc = "idle"
  /\ \E op \in Operation, path \in Path :
       /\ calls' = [calls EXCEPT ![t] =
                      [NoCall EXCEPT !.pc = "search", !.op = op, !.path = path,
                                     !.left = Searched(policy.rules, path)]]
       /\ cache' = Put(path, ContextKind(op))
  /\ UNCHANGED policy

(* Mutant: the names below the rule's path are lost. *)
DecidedWithoutTail(call, c, kind) ==
  [call EXCEPT !.pc = "decided", !.left = {}, !.learning = {}, !.by = {c},
               !.decision = Decision[c.rule.action], !.to = c.rule.target]

Decided(call, c, kind) ==
  [call EXCEPT !.pc = "decided", !.left = {}, !.learning = {}, !.by = {c},
               !.decision = Decision[c.rule.action],
               !.to = IF c.rule.action = "redirect"
                      THEN BuildRedirectPath(c, kind, call.path) ELSE <<>>]

(* What the loop does with a rule whose kind is settled. *)
Judged(call, c, kind) ==
  IF Matches(c, kind, call.path) THEN Decided(call, c, kind)
  ELSE [call EXCEPT !.pc = "search", !.left = @ \ {c}, !.learning = {}]

NextRules(call) ==
  {c \in call.left : \A d \in call.left : ~Sooner(d, c, call.path)}

(* ResolveEffectiveRuleKind up to what it reads of the cache; "auto" if the *)
(* call is to settle it.  Mutant: the cache is not read.                   *)
ResolveUncached(c, path, kind) ==
  IF c.kind # "auto" THEN c.kind
  ELSE IF kind # "auto" THEN (IF path = c.rule.path THEN kind ELSE "auto")
  ELSE "directory"

Resolve(c, path, kind) ==
  IF c.kind # "auto" THEN c.kind
  ELSE IF kind # "auto" /\ path = c.rule.path THEN kind
  ELSE IF cache[c.rule.path] # "auto" THEN cache[c.rule.path]
  ELSE IF kind # "auto" THEN "auto"
  ELSE "directory"

Visit(t) ==
  LET call == calls[t]
      kind == ContextKind(call.op)
  IN  /\ call.pc = "search"
      /\ \E c \in NextRules(call) :
           LET settled == Resolve(c, call.path, kind) IN
           IF settled = "auto"
           THEN /\ calls' = [calls EXCEPT ![t] =
                               [call EXCEPT !.pc = "learn", !.learning = {c},
                                            !.cached = cache[c.rule.path]]]
                /\ UNCHANGED cache
           ELSE /\ calls' = [calls EXCEPT ![t] = Judged(call, c, settled)]
                /\ cache' = IF c.kind = "auto" /\ call.path = c.rule.path
                            THEN Put(c.rule.path, kind) ELSE cache
      /\ UNCHANGED policy

(* The kind the call is for becomes the kind of the rule's path, whether or *)
(* not that is the path of the call.                                       *)
Learn(t) ==
  LET call == calls[t]
      kind == ContextKind(call.op)
  IN  /\ call.pc = "learn"
      /\ \E c \in call.learning :
           /\ cache' = Put(c.rule.path, kind)
           /\ calls' = [calls EXCEPT ![t] = Judged([call EXCEPT !.cached = "auto"], c, kind)]
      /\ UNCHANGED policy

NoRuleLeft(t) ==
  /\ calls[t].pc = "search" /\ calls[t].left = {}
  /\ calls' = [calls EXCEPT ![t].pc = "decided",
                            ![t].decision = DefaultDecision(policy, calls[t].path)]
  /\ UNCHANGED <<policy, cache>>

(* The hook refuses the call or makes it.  What has been removed is to be   *)
(* forgotten, under either name, if the path was redirected; a call that   *)
(* no rule redirects or blocks is made without a further look.             *)
Return(t) ==
  LET call == calls[t] IN
  /\ call.pc = "decided"
  /\ \/ calls' = [calls EXCEPT ![t] = NoCall]
     \/ /\ call.op \in Removals /\ call.decision = "redirect"
        /\ calls' = [calls EXCEPT ![t] =
             [NoCall EXCEPT !.pc = "forget", !.forget = <<call.path, call.to>>]]
  /\ UNCHANGED <<policy, cache>>

Invalidate(t) ==
  LET forget == calls[t].forget IN
  /\ calls[t].pc = "forget"
  /\ cache' = Forget(Head(forget))
  /\ calls' = [calls EXCEPT ![t] =
                 IF Tail(forget) = <<>> THEN NoCall
                 ELSE [calls[t] EXCEPT !.forget = Tail(forget)]]
  /\ UNCHANGED policy

(* fm_reload_rules_locked, once the rules are read and compiled: a rule set *)
(* of its own, with an empty cache.  Mutants: the lock is not waited for,  *)
(* the cache is kept.                                                      *)
ReloadUnlocked ==
  \E s \in Section :
    /\ policy' = Compile(s)
    /\ cache' = EmptyCache(Compile(s))
    /\ UNCHANGED calls

ReloadKeeping ==
  /\ \A t \in Thread : ~Searching(t)
  /\ \E s \in Section : policy' = Compile(s)
  /\ UNCHANGED <<cache, calls>>

Reload ==
  /\ \A t \in Thread : ~Searching(t)
  /\ \E s \in Section :
       /\ policy' = Compile(s)
       /\ cache' = EmptyCache(Compile(s))
  /\ UNCHANGED calls

Init ==
  /\ \E s \in Section : policy = Compile(s) /\ cache = EmptyCache(Compile(s))
  /\ calls = [t \in Thread |-> NoCall]

Step(t) == Begin(t) \/ Visit(t) \/ Learn(t) \/ NoRuleLeft(t) \/ Return(t) \/ Invalidate(t)

Next == Reload \/ \E t \in Thread : Step(t)

Spec == Init /\ [][Next]_vars
-----------------------------------------------------------------------------
Policies == {Compile(s) : s \in Section}
AnyRule == UNION {p.rules : p \in Policies}

Call ==
  [pc : {"idle", "search", "learn", "decided", "forget"},
   op : Operation \cup {"none"}, path : Seq(STRING),
   left : SUBSET AnyRule, learning : SUBSET AnyRule, cached : Kind,
   decision : {"none", "allow", "block", "redirect"}, by : SUBSET AnyRule,
   to : Seq(STRING), forget : Seq(Seq(STRING))]

TypeOK ==
  /\ policy \in Policies
  /\ cache \in [Unknown(policy) -> Kind]
  /\ calls \in [Thread -> Call]

(* A search goes through the rules in force and through no others: the     *)
(* lists it holds pointers into are not replaced under it.                 *)
SearchesRulesInForce ==
  \A t \in Thread :
    Searching(t) => calls[t].left \cup calls[t].learning \subseteq policy.rules

-----------------------------------------------------------------------------
Deciding(t) == Searching(t) /\ calls'[t].pc = "decided"

FirstDecides(t, rules) ==
  Deciding(t) =>
    \A c \in rules : Surely(c, calls[t].path) => \E d \in calls'[t].by : ~Before(c, d)

(* Of the rules without wildcards none that is sure to match comes before   *)
(* the rule that decides: the longest path wins, then files over            *)
(* directories, then the stronger action (rule-format-plan, 11), whatever  *)
(* the buckets, the cache and the other threads do.                        *)
PlainRuleDecides ==
  [][\A t \in Thread : FirstDecides(t, {c \in policy.rules : c.rule.glob = "none"})]_vars

(* The same of all rules: wildcards may stand in directories and in the     *)
(* name of the file (rule-format-plan, 4.11), and the longer path wins.    *)
AnyRuleDecides == [][\A t \in Thread : FirstDecides(t, policy.rules)]_vars

(* What has been learnt about a path stays until a call on the path itself *)
(* teaches otherwise or removes it, or the rules are reloaded; except that *)
(* a call that found nothing in the cache may write after another has.     *)
LearntKindStays ==
  [][\A p \in DOMAIN cache :
       cache[p] # "auto" /\ calls' # calls /\ cache'[p] # cache[p] =>
         \E t \in Thread :
           /\ calls'[t] # calls[t]
           /\ \/ p = calls[t].path \/ p = calls'[t].path
              \/ calls[t].pc = "forget" /\ p = Head(calls[t].forget)
              \/ calls[t].pc = "learn" /\ calls[t].cached = "auto"]_vars

(* Whatever the cache holds and the other threads write into it meanwhile,  *)
(* a call ends with an answer that the rules give if each rule of unknown  *)
(* kind is taken to have one: a search that takes many steps amounts to a  *)
(* single look at the rules, which is what module Hooks takes it for.      *)
DecidesAnOutcome ==
  [][\A t \in Thread :
       Deciding(t) =>
         [decision |-> calls'[t].decision, to |-> calls'[t].to]
           \in Outcomes(policy, calls[t].path)]_vars

(* Nothing below the path is let through, by default or by these rules. *)
ClosedBelow(path, rules) ==
  \A below \in Path : IsPrefix(path, below) /\ below # path =>
    /\ DefaultDecision(policy, below) = "block"
    /\ \A c \in rules : c.rule.action # "deny" => ~Surely(c, below)

(* A path that is blocked because no rule matches it has nothing below it  *)
(* that is let through.                                                    *)
BlocksNoWay(t, rules) ==
  Deciding(t) /\ calls'[t].decision = "block" /\ calls'[t].by = {} =>
    ClosedBelow(calls[t].path, rules)

(* In a whitelist no directory on the way to what is let through is        *)
(* blocked, unless a rule denies it; but rules with wildcards in a         *)
(* directory or with a filter do not open the way to what they match.      *)
WayStaysOpen ==
  [][\A t \in Thread :
       BlocksNoWay(t, {c \in policy.rules : c.rule.glob # "path" /\ c.rule.types = AnyType})]_vars

(* The same of all rules (WhitelistAllowsAncestorsOfAllowedPath): wildcards *)
(* may stand in directories, too (rule-format-plan, 4.11).  The code        *)
(* violates it: the way to DCIM/*/Sub is not opened.                       *)
EveryWayStaysOpen == [][\A t \in Thread : BlocksNoWay(t, policy.rules)]_vars
=============================================================================
